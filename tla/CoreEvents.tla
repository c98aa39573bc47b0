----------------------------- MODULE CoreEvents -----------------------------
(***************************************************************************)
(* Core objects and their event callbacks (src/core_object.c), and the     *)
(* notification tables of the AT channels that mirror them (src/at.c): an  *)
(* object attached to a HAL in AT mode registers each of its callbacks     *)
(* with that HAL's AT channel, under the event's name as line prefix.      *)
(*                                                                         *)
(* A list is the sequence of the callbacks it links.  A callback may call  *)
(* back into the library while the list that it is in is walked.           *)
(* Bounds: one call from inside a callback; one emission at a time.        *)
(***************************************************************************)
EXTENDS Naturals, Sequences, FiniteSets, SequencesExt, Filters

CONSTANTS
  Objects,  \* core objects
  Hals,     \* HALs
  AtHals,   \* those in AT mode
  Cbs,      \* struct callback_type
  Events,   \* records [prefix, pdu]: pdu is the leading ESC of an event's name
  Careful,  \* the discipline of the plugins, see Callable below
  None

ASSUME EventsAssumption ==
  /\ AtHals \subseteq Hals /\ None \notin Hals \cup Objects \cup Cbs
  /\ \A e \in Events : e.pdu \in BOOLEAN /\ e = [prefix |-> e.prefix, pdu |-> e.pdu]
  /\ Careful \in BOOLEAN

VARIABLES
  objects,    \* the objects that exist
  hal,        \* co->hal
  callbacks,  \* co->callbacks
  live,       \* the callbacks that are allocated
  owner,      \* cb->co
  event,      \* cb->event
  table,      \* at->unsolicited_table: prefix -> [pdu, items]
  pduNoti,    \* at->pdu_noti: the prefix whose second line comes next, or None
  walk,       \* the emission in progress
  dropped     \* history: callbacks that asked an AT channel to drop them

vars == <<objects, hal, callbacks, live, owner, event, table, pduNoti, walk, dropped>>
cbVars == <<live, owner, event>>

Position(s, k) == CHOOSE i \in DOMAIN s : s[i] = k

Names == {e.prefix : e \in Events}
NoTable == [p \in {} |-> None]

\* walk.list is the list that is walked, walk.at the callback that is called,
\* walk.next the one linked behind it when it was called, walk.called all that
\* were, walk.cut whether the link that was visited has been freed meanwhile.
AtList(h, p) == [kind |-> "at", of |-> h, prefix |-> p]
CoList(o, e) == [kind |-> "co", of |-> o, prefix |-> e]
Idle == [list |-> None, at |-> None, next |-> None, called |-> {}, cut |-> FALSE, acted |-> FALSE]

Init ==
  /\ objects = {}
  /\ hal = [o \in Objects |-> None]
  /\ callbacks = [o \in Objects |-> <<>>]
  /\ live = {}
  /\ owner = [k \in Cbs |-> None]
  /\ event = [k \in Cbs |-> None]
  /\ table = [h \in AtHals |-> NoTable]
  /\ pduNoti = [h \in AtHals |-> None]
  /\ walk = Idle
  /\ dropped = {}

-----------------------------------------------------------------------------
(* The notification table of one AT channel *)

Items(t, p) == IF p \in DOMAIN t THEN t[p].items ELSE <<>>
SetItems(t, p, s) == [t EXCEPT ![p].items = s]

\* The callbacks of s, of the events ev, are added one after the other: an entry
\* keeps the type of its first callback ...
PduEntry(t, s, ev, p) ==
  IF p \in DOMAIN t THEN t[p].pdu
  ELSE ev[Head(Keep(s, {k \in ToSet(s) : ev[k].prefix = p}))].pdu
Taken(t, s, ev, p) ==
  Keep(s, {k \in ToSet(s) : ev[k] = [prefix |-> p, pdu |-> PduEntry(t, s, ev, p)]})
\* ... and refuses callbacks of the other type.
Refused(t, s, ev) == {k \in ToSet(s) : ev[k].pdu # PduEntry(t, s, ev, ev[k].prefix)}

\* Mutant: new callbacks go to the front of the list.
AddInFront(t, s, ev) ==
  [p \in DOMAIN t \cup {ev[k].prefix : k \in ToSet(s)} |->
     [pdu |-> PduEntry(t, s, ev, p), items |-> Taken(t, s, ev, p) \o Items(t, p)]]

\* tcore_at_add_notification for each callback of s
AddNotifications(t, s, ev) ==
  [p \in DOMAIN t \cup {ev[k].prefix : k \in ToSet(s)} |->
     [pdu |-> PduEntry(t, s, ev, p), items |-> Items(t, p) \o Taken(t, s, ev, p)]]

\* tcore_at_remove_notification_full for each callback of s, under the name of
\* its event: that of a PDU event has the ESC in front here, which no entry of
\* the table has.
RemoveNotifications(t, s) ==
  LET Named(p) == {k \in ToSet(s) : event[k] = [prefix |-> p, pdu |-> FALSE]}
  IN [p \in DOMAIN t |-> [t[p] EXCEPT !.items = Keep(@, Cbs \ Named(p))]]

-----------------------------------------------------------------------------
(* The plugins' discipline: who may call what *)

InCallback == walk.at # None

\* A call comes from the main loop or, once, from inside a callback.
Callable == InCallback => ~walk.acted
Acted == [walk EXCEPT !.acted = InCallback]

\* A careful plugin leaves the callbacks of PDU events where they are ...
PduOf(o) == \E i \in DOMAIN callbacks[o] : event[callbacks[o][i]].pdu
MayMove(o) == Careful => ~PduOf(o) \/ hal[o] \notin AtHals
\* ... and frees an object that has no HAL, from outside its own emissions.
MayFree(o) ==
  Careful => /\ hal[o] = None
             /\ InCallback => walk.list # CoList(o, walk.list.prefix)

\* The emission goes on from a link that may have been freed, with its successor
\* or without.  (A callback that is registered again gets a new link.)
Cut(list) ==
  IF ~InCallback \/ Contains(list, walk.at) THEN Acted
  ELSE [Acted EXCEPT !.cut = TRUE,
                     !.next = IF Contains(list, walk.next) THEN walk.next ELSE None]
ListNow(t, c) ==
  IF walk.list.kind = "at" THEN Items(t[walk.list.of], walk.list.prefix)
  ELSE c[walk.list.of]
Walked(t, c) == IF InCallback THEN Cut(ListNow(t, c)) ELSE walk

-----------------------------------------------------------------------------
(* Calls of the plugins *)

\* tcore_object_new: without or with a HAL (no callbacks yet)
New(o) ==
  /\ Callable /\ o \notin objects
  /\ objects' = objects \cup {o}
  /\ \E h \in Hals \cup {None} : hal' = [hal EXCEPT ![o] = h]
  /\ walk' = Acted
  /\ UNCHANGED <<callbacks, cbVars, table, pduNoti, dropped>>

\* tcore_object_free: the AT channel is not told.
FreeObject(o) ==
  /\ Callable /\ o \in objects /\ MayFree(o)
  /\ objects' = objects \ {o}
  /\ live' = live \ ToSet(callbacks[o])
  /\ dropped' = dropped \ ToSet(callbacks[o])
  /\ callbacks' = [callbacks EXCEPT ![o] = <<>>]
  /\ hal' = [hal EXCEPT ![o] = None]
  /\ walk' = Walked(table, callbacks')
  /\ UNCHANGED <<owner, event, table, pduNoti>>

\* Mutant: the callbacks stay registered with the HAL that is left.
LeaveRegistered(h, o) == table

\* tcore_object_set_hal, first half: off the AT channel of the old HAL ...
Unregister(h, o) ==
  IF h \in AtHals THEN [table EXCEPT ![h] = RemoveNotifications(@, callbacks[o])] ELSE table

\* ... and second half: on that of the new one.
SetHal(o) ==
  /\ Callable /\ o \in objects /\ MayMove(o)
  /\ \E h \in Hals \cup {None} :
       LET t == Unregister(hal[o], o) IN
       /\ hal' = [hal EXCEPT ![o] = h]
       /\ IF h \in AtHals
          THEN /\ table' = [t EXCEPT ![h] = AddNotifications(@, callbacks[o], event)]
               /\ dropped' = (dropped \ ToSet(callbacks[o])) \cup Refused(t[h], callbacks[o], event)
          ELSE table' = t /\ UNCHANGED dropped
  /\ walk' = Walked(Unregister(hal[o], o), callbacks)
  /\ UNCHANGED <<objects, callbacks, cbVars, pduNoti>>

\* tcore_object_add_callback
AddCallback(o, e, k) ==
  /\ Callable /\ o \in objects
  /\ k \notin live
  /\ live' = live \cup {k}
  /\ owner' = [owner EXCEPT ![k] = o]
  /\ event' = [event EXCEPT ![k] = e]
  /\ callbacks' = [callbacks EXCEPT ![o] = Append(@, k)]
  /\ IF hal[o] \in AtHals
     THEN /\ table' = [table EXCEPT ![hal[o]] = AddNotifications(@, <<k>>, event')]
          /\ dropped' = (dropped \ {k}) \cup Refused(table[hal[o]], <<k>>, event')
     ELSE UNCHANGED <<table, dropped>>
  /\ walk' = Acted
  /\ UNCHANGED <<objects, hal, pduNoti>>

\* tcore_object_clone, into an object with the callbacks of another one; the
\* copies are registered one after the other.
Clone(o, d) ==
  /\ Callable /\ o \in objects /\ d \notin objects
  /\ \E s \in [DOMAIN callbacks[o] -> Cbs \ live] :
       /\ IsInjective(s)
       /\ objects' = objects \cup {d}
       /\ hal' = [hal EXCEPT ![d] = hal[o]]
       /\ live' = live \cup ToSet(s)
       /\ owner' = [k \in Cbs |-> IF Contains(s, k) THEN d ELSE owner[k]]
       /\ event' = [k \in Cbs |-> IF Contains(s, k) THEN event[callbacks[o][Position(s, k)]]
                                  ELSE event[k]]
       /\ callbacks' = [callbacks EXCEPT ![d] = s]
       /\ IF hal[o] \in AtHals
          THEN /\ table' = [table EXCEPT ![hal[o]] = AddNotifications(@, s, event')]
               /\ dropped' = (dropped \ ToSet(s)) \cup Refused(table[hal[o]], s, event')
          ELSE UNCHANGED <<table, dropped>>
  /\ walk' = Acted
  /\ UNCHANGED pduNoti

\* tcore_object_del_callback, of those callbacks of the event that were registered
\* with the function given.  Which they are is not kept: any of them, as long as
\* there is one, from any place of the list.  (The loop reads the next field of
\* the link that it has just freed, and may end there with some of them left:
\* that is a choice of fewer.)
DelCallback(o, e) ==
  /\ Callable /\ o \in objects
  /\ Careful /\ e.pdu => hal[o] \notin AtHals
  /\ \E given \in SUBSET {k \in ToSet(callbacks[o]) : event[k] = e} :
       LET s == Keep(callbacks[o], given) IN
       /\ given # {}
       /\ table' = IF hal[o] \in AtHals THEN [table EXCEPT ![hal[o]] = RemoveNotifications(@, s)]
                   ELSE table
       /\ callbacks' = [callbacks EXCEPT ![o] = Keep(@, Cbs \ given)]
       /\ live' = live \ given
       /\ dropped' = dropped \ given
  /\ walk' = Walked(table', callbacks')
  /\ UNCHANGED <<objects, hal, owner, event, pduNoti>>

-----------------------------------------------------------------------------
(* Emissions *)

\* What a walk visits first or next: tcore_object_emit_callback skips the
\* callbacks of other events; an AT channel calls all of an entry.
Wanted(list, k) == list.kind = "at" \/ event[k] = list.prefix
From(list, s, i) ==
  LET later == Keep(SubSeq(s, i, Len(s)), {k \in Cbs : Wanted(list, k)})
  IN IF later = <<>> THEN None ELSE Head(later)

Visit(list, s, k, called) ==
  [list |-> list, at |-> k, next |-> From(list, s, Position(s, k) + 1),
   called |-> called \cup {k}, cut |-> FALSE, acted |-> FALSE]

\* A walk that has no callback to call is over, and so is one of a PDU.
Start(list, s) ==
  walk' = IF From(list, s, 1) = None THEN Idle ELSE Visit(list, s, From(list, s, 1), {})

\* _emit_unsolicited_message, of a first or only line: the iteration stops at
\* some entry whose prefix the line begins with.
Line(h, p) ==
  /\ ~InCallback /\ pduNoti[h] = None
  /\ p \in DOMAIN table[h]
  /\ IF table[h][p].pdu
     THEN pduNoti' = [pduNoti EXCEPT ![h] = p] /\ UNCHANGED <<table, walk>>
     ELSE /\ Start(AtList(h, p), table[h][p].items)
          /\ table' = IF table[h][p].items # <<>> THEN table
                      ELSE [table EXCEPT ![h] = [q \in DOMAIN @ \ {p} |-> @[q]]]
          /\ UNCHANGED pduNoti
  /\ UNCHANGED <<objects, hal, callbacks, cbVars, dropped>>

\* ... and of the line after it, whatever its prefix: the PDU.
PduLine(h) ==
  /\ ~InCallback /\ pduNoti[h] # None
  /\ Start(AtList(h, pduNoti[h]), table[h][pduNoti[h]].items)
  /\ pduNoti' = [pduNoti EXCEPT ![h] = None]
  /\ UNCHANGED <<objects, hal, callbacks, cbVars, table, dropped>>

\* tcore_object_emit_callback
Emit(o, e) ==
  /\ ~InCallback /\ o \in objects
  /\ \E i \in DOMAIN callbacks[o] : event[callbacks[o][i]] = e
  /\ Start(CoList(o, e), callbacks[o])
  /\ UNCHANGED <<objects, hal, callbacks, cbVars, table, pduNoti, dropped>>

\* Mutant: one link is skipped.
OnwardSkip(s) ==
  IF walk.cut THEN {None} ELSE {From(walk.list, s, Position(s, walk.at) + 2)}

\* The link after the one just visited.  When that link is gone its next field
\* is read all the same: it is NULL (slice allocator), or what it was.
Onward(s) ==
  IF walk.cut THEN {None, walk.next}
  ELSE {From(walk.list, s, Position(s, walk.at) + 1)}

\* A callback returns.  FALSE drops it from the list that was walked, and from
\* that list only; dropped from an object, it is never freed.  The callback of
\* a PDU returns TRUE (the entry of a PDU that is left empty is removed under
\* the name NULL), and so does a careful one when an object attached to an AT
\* channel emits the event itself.
MayDrop ==
  IF walk.list.kind = "at" THEN ~table[walk.list.of][walk.list.prefix].pdu
  ELSE Careful => hal[walk.list.of] \notin AtHals
Return(keep) ==
  LET s == ListNow(table, callbacks)
      rest == IF keep \/ walk.cut THEN s ELSE Keep(s, Cbs \ {walk.at})
      t == [table EXCEPT ![walk.list.of] = SetItems(@, walk.list.prefix, rest)]
      entry == walk.list.of IN
  /\ InCallback /\ (~keep => MayDrop)
  /\ \E k \in Onward(s) :
       /\ walk' = IF k = None THEN Idle ELSE Visit(walk.list, s, k, walk.called)
       /\ IF walk.list.kind = "co"
          THEN callbacks' = [callbacks EXCEPT ![walk.list.of] = rest] /\ UNCHANGED table
          ELSE /\ table' = IF k = None /\ rest = <<>>
                           THEN [t EXCEPT ![entry] = [q \in DOMAIN @ \ {walk.list.prefix} |-> @[q]]]
                           ELSE t
               /\ UNCHANGED callbacks
  /\ dropped' = IF keep \/ walk.cut \/ walk.list.kind = "co" THEN dropped
                ELSE dropped \cup {walk.at}
  /\ UNCHANGED <<objects, hal, cbVars, pduNoti>>

Next ==
  \/ \E o \in Objects : New(o) \/ FreeObject(o) \/ SetHal(o)
  \/ \E o \in Objects, e \in Events, k \in Cbs : AddCallback(o, e, k)
  \/ \E o, d \in Objects : Clone(o, d)
  \/ \E o \in Objects, e \in Events : DelCallback(o, e) \/ Emit(o, e)
  \/ \E h \in AtHals, p \in Names : Line(h, p)
  \/ \E h \in AtHals : PduLine(h)
  \/ \E keep \in BOOLEAN : Return(keep)

Spec == Init /\ [][Next]_vars

-----------------------------------------------------------------------------
(* Properties *)

\* Every variable keeps its type (the struct and list types of core_object.c
\* and at.c).
TypeOK ==
  /\ objects \subseteq Objects
  /\ hal \in [Objects -> Hals \cup {None}]
  /\ \A o \in Objects : ToSet(callbacks[o]) \subseteq live /\ IsInjective(callbacks[o])
  /\ live \subseteq Cbs /\ dropped \subseteq live
  /\ \A k \in live : owner[k] \in Objects /\ event[k] \in Events
  /\ \A h \in AtHals : DOMAIN table[h] \subseteq Names /\ pduNoti[h] \in Names \cup {None}

\* An AT channel holds no callback that it could call after the callback or its
\* object was freed, or that belongs to an object which has left this HAL
\* (tcore_object_set_hal, "remove unsolicited callbacks"); and between the two
\* lines of a PDU the entry that waits for the second is still there, in use.
Attached ==
  /\ TypeOK
  /\ \A h \in AtHals :
       /\ \A p \in DOMAIN table[h] : \A k \in ToSet(table[h][p].items) :
            /\ k \in live /\ owner[k] \in objects /\ hal[owner[k]] = h
            /\ event[k] = [prefix |-> p, pdu |-> table[h][p].pdu]
       /\ pduNoti[h] # None => Items(table[h], pduNoti[h]) # <<>>

\* An object hears its HAL: the AT channel has its callbacks, once each and in
\* the order in which they were added, except those that asked to be dropped
\* (or came under a name that is in use for the other kind of event).
Registered ==
  \A o \in objects : hal[o] \in AtHals =>
    \A p \in Names :
      Keep(Items(table[hal[o]], p), {k \in Cbs : owner[k] = o})
        = Keep(callbacks[o], {k \in ToSet(callbacks[o]) : event[k].prefix = p /\ k \notin dropped})

\* When an emission ends, every callback that is linked has been called, those
\* that callbacks added, moved or dropped on the way included; unless one of
\* them freed the link that was visited (_emit_unsolicited_message and
\* tcore_object_emit_callback read its next field afterwards).
Delivered ==
  [][walk # Idle /\ walk' = Idle /\ ~walk.cut =>
       \A k \in ToSet(ListNow(table, callbacks)) :
         Wanted(walk.list, k) => k \in walk.called]_vars
=============================================================================
