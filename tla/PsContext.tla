----------------------------- MODULE PsContext -----------------------------
(***************************************************************************)
(* The packet service object (src/co_ps.c): its table of context ids, one  *)
(* for each PDN connection of the modem, and the contexts that share them  *)
(* (src/co_context.c).  Contexts with one APN share one connection: the    *)
(* second takes over the id of the first instead of asking for its own.    *)
(*                                                                         *)
(* The plugin answers an activation or a deactivation later, as the modem  *)
(* reports; what it does with a report is external.  It changes the APN of *)
(* a context, and removes a context, only while that is not in use.        *)
(***************************************************************************)
EXTENDS Naturals, Sequences, FiniteSets, SequencesExt

CONSTANTS
  Contexts,     \* the context objects of the service
  Apns,         \* their APNs (a context without one counts as an APN too)
  MaxCid,       \* PS_MAX_CID
  ClearsShared  \* TRUE: the plugin clears the id of a context that left a
                \* connection to others, before any other call

ASSUME PsAssumption == MaxCid \in Nat \ {0} /\ ClearsShared \in BOOLEAN

VARIABLES
  online,  \* po->online
  used,    \* the ids i with po->cid[i].cid # 0
  cid,     \* po->cid[i].contexts
  state,   \* state of each context
  id,      \* id of each context, 0 for none
  apn,     \* apn of each context
  pdp,     \* external: the APN the modem was asked to connect under each id
  walk     \* tcore_ps_deactivate_contexts: <<index, position>>, or <<>>

vars == <<online, used, cid, state, id, apn, pdp, walk>>
table == <<used, cid, id>>

States == {"DEACTIVATED", "ACTIVATING", "ACTIVATED", "DEACTIVATING"}
NoPdp == "none"

ASSUME PdpAssumption == NoPdp \notin Apns

Init ==
  /\ online = FALSE
  /\ used = {}
  /\ cid = [i \in 0..MaxCid |-> <<>>]
  /\ state = [c \in Contexts |-> "DEACTIVATED"]
  /\ id = [c \in Contexts |-> 0]
  /\ apn \in [Contexts -> Apns]
  /\ pdp = [i \in 0..MaxCid |-> NoPdp]
  /\ walk = <<>>

\* g_slist_remove: s without the first occurrence of c.
Unlink(s, c) ==
  IF Contains(s, c)
  THEN RemoveAt(s, CHOOSE k \in 1..Len(s) : s[k] = c /\ \A j \in 1..(k - 1) : s[j] # c)
  ELSE s

-----------------------------------------------------------------------------
(* The searches *)

\* The entries that _ps_is_active_context and _ps_is_duplicated_apn look at.
Searched == {i \in used : i < MaxCid}

IsActive(c) == \E i \in Searched : Contains(cid[i], c)

\* Mutant: the APNs are not compared.
AnyCandidate(c, i, k) == i \in Searched /\ k \in DOMAIN cid[i] /\ cid[i][k] # c

\* The k-th context of entry i is another one with the APN of c.
Candidate(c, i, k) ==
  i \in Searched /\ k \in DOMAIN cid[i] /\ cid[i][k] # c /\ apn[cid[i][k]] = apn[c]

\* _ps_is_duplicated_apn: s is the first other context found with c's APN.
Twin(c, s) ==
  \E i \in Searched : \E k \in DOMAIN cid[i] :
    /\ Candidate(c, i, k) /\ s = cid[i][k]
    /\ \A j \in Searched : \A l \in DOMAIN cid[j] :
         Candidate(c, j, l) => i < j \/ (i = j /\ k <= l)

HasTwin(c) == \E i \in Searched : \E k \in DOMAIN cid[i] : Candidate(c, i, k)

\* Mutant: the assignment does not look whether the id is free.
FirstId(i) == i = 1

\* The id of the automatic assignment: the first one that is free.
FreeId(i) == i \in (1..MaxCid) \ used /\ \A j \in 1..(i - 1) : j \in used

-----------------------------------------------------------------------------
(* Calls *)

\* The plugin may call: nothing is left to be cleared.
Tidy == ClearsShared => \A c \in Contexts : id[c] # 0 => Contains(cid[id[c]], c)
Idle == walk = <<>> /\ Tidy

\* tcore_ps_set_online
SetOnline ==
  /\ Idle
  /\ online' = ~online
  /\ UNCHANGED <<used, cid, state, id, apn, pdp, walk>>

\* tcore_context_set_apn
SetApn(c) ==
  /\ Idle
  /\ state[c] = "DEACTIVATED" /\ id[c] = 0
  /\ \E a \in Apns \ {apn[c]} : apn' = [apn EXCEPT ![c] = a]
  /\ UNCHANGED <<online, used, cid, state, id, pdp, walk>>

\* The context gets a place in entry i and its id.
Enter(c, i) ==
  /\ used' = used \cup {i}
  /\ cid' = [cid EXCEPT ![i] = Append(@, c)]
  /\ id' = [id EXCEPT ![c] = i]

\* tcore_ps_assign_context_id: the first free id, or one that is in use.  The
\* plugin joins a context to one of its APN only, before that is connected, and
\* asks for a free id only when there is none.
AssignContextId(c) ==
  /\ Idle
  /\ id[c] = 0
  /\ \E i \in 1..MaxCid :
       /\ IF HasTwin(c)
          THEN pdp[i] = NoPdp /\ \E k \in DOMAIN cid[i] : Candidate(c, i, k)
          ELSE FreeId(i)
       /\ Enter(c, i)
  /\ UNCHANGED <<online, state, apn, pdp, walk>>

\* Mutant: an id whose last context is gone stays in use.
ClearContextOnly(c) ==
  /\ id[c] # 0
  /\ cid' = [cid EXCEPT ![id[c]] = Unlink(@, c)]
  /\ id' = [id EXCEPT ![c] = 0]
  /\ UNCHANGED used

\* tcore_ps_clear_context_id
Clear(c) ==
  LET left == Unlink(cid[id[c]], c) IN
  /\ id[c] # 0
  /\ cid' = [cid EXCEPT ![id[c]] = left]
  /\ used' = IF left = <<>> THEN used \ {id[c]} ELSE used
  /\ id' = [id EXCEPT ![c] = 0]

\* A plugin clears the id of a context that is not in use, or removes the
\* context (tcore_ps_remove_context, which does the same).
ClearContextId(c) ==
  /\ walk = <<>>
  /\ state[c] = "DEACTIVATED" /\ Clear(c)
  /\ UNCHANGED <<online, state, apn, pdp, walk>>

\* tcore_context_cp_service_info and a place in the entry of the twin.
Join(c, s) ==
  /\ state' = [state EXCEPT ![c] = state[s]]
  /\ id' = [id EXCEPT ![c] = id[s]]
  /\ cid' = [cid EXCEPT ![id[s]] = Append(@, c)]
  /\ UNCHANGED <<used, pdp>>

\* ops->activate_context asks the modem for a connection under id i.
Ask(c, i) ==
  /\ state' = [state EXCEPT ![c] = "ACTIVATING"]
  /\ pdp' = [pdp EXCEPT ![i] = apn[c]]

\* tcore_ps_activate_context, where it changes something.
Activate(c) ==
  /\ Idle
  /\ online /\ ~IsActive(c)
  /\ \/ \E s \in Contexts : Twin(c, s) /\ Join(c, s)
     \/ /\ ~HasTwin(c) /\ state[c] = "DEACTIVATED"
        /\ IF id[c] = 0
           THEN \E i \in 1..MaxCid : FreeId(i) /\ Enter(c, i) /\ Ask(c, i)
           ELSE Ask(c, id[c]) /\ UNCHANGED table
  /\ UNCHANGED <<online, apn, walk>>

\* Mutant: the context stays in the entry it leaves.
LeaveInPlace(c, s) ==
  /\ state' = [state EXCEPT ![c] = "DEACTIVATED"]
  /\ id' = [id EXCEPT ![c] = id[s]]
  /\ UNCHANGED <<used, cid, pdp>>

\* A context leaves the entry of its twin; the id copied from that stays.
Leave(c, s) ==
  /\ state' = [state EXCEPT ![c] = "DEACTIVATED"]
  /\ cid' = [cid EXCEPT ![id[s]] = Unlink(@, c)]
  /\ id' = [id EXCEPT ![c] = id[s]]
  /\ UNCHANGED <<used, pdp>>

\* The part of tcore_ps_deactivate_context behind its checks.
Drop(c) ==
  \/ \E s \in Contexts : Twin(c, s) /\ Leave(c, s)
  \/ /\ ~HasTwin(c) /\ state[c] = "ACTIVATED"
     /\ state' = [state EXCEPT ![c] = "DEACTIVATING"]
     /\ UNCHANGED <<used, cid, id, pdp>>

Deactivate(c) ==
  /\ Idle
  /\ online /\ IsActive(c) /\ Drop(c)
  /\ UNCHANGED <<online, apn, walk>>

(***************************************************************************)
(* tcore_ps_deactivate_contexts walks every entry.  A context that leaves  *)
(* takes the list node under the walk with it: what the walk then reads as *)
(* the next node is undefined (the next one, or none).                     *)
(***************************************************************************)
DeactivateContexts ==
  /\ Idle
  /\ online
  /\ walk' = <<0, 1>>
  /\ UNCHANGED <<online, used, cid, state, id, apn, pdp>>

WalkContext ==
  /\ walk # <<>>
  /\ LET i == walk[1]
         k == walk[2]
     IN /\ i \in Searched /\ k \in DOMAIN cid[i]
        /\ LET c == cid[i][k] IN
           \/ /\ Drop(c)
              /\ IF cid'[i] = cid[i] THEN walk' = <<i, k + 1>>
                 ELSE walk' \in {<<i, k>>, <<i, Len(cid'[i]) + 1>>}
           \/ /\ ~HasTwin(c) /\ state[c] # "ACTIVATED"
              /\ walk' = <<i, k + 1>>
              /\ UNCHANGED <<used, cid, state, id, pdp>>
  /\ UNCHANGED <<online, apn>>

\* The walk is through with an entry.
WalkEntry ==
  /\ walk # <<>>
  /\ ~(walk[1] \in Searched /\ walk[2] \in DOMAIN cid[walk[1]])
  /\ walk' = IF walk[1] + 1 < MaxCid THEN <<walk[1] + 1, 1>> ELSE <<>>
  /\ UNCHANGED <<online, used, cid, state, id, apn, pdp>>

-----------------------------------------------------------------------------
(* External: what the plugin does when the modem reports on a connection;  *)
(* it finds the contexts with tcore_ps_ref_context_by_id.                  *)

Established(i) ==
  /\ Idle
  /\ pdp[i] # NoPdp /\ i \in used
  /\ \E k \in DOMAIN cid[i] : state[cid[i][k]] = "ACTIVATING"
  /\ state' = [c \in Contexts |-> IF Contains(cid[i], c) THEN "ACTIVATED" ELSE state[c]]
  /\ UNCHANGED <<online, used, cid, id, apn, pdp, walk>>

Released(i) ==
  /\ Idle
  /\ pdp[i] # NoPdp
  /\ pdp' = [pdp EXCEPT ![i] = NoPdp]
  /\ state' = [c \in Contexts |-> IF Contains(cid[i], c) THEN "DEACTIVATED" ELSE state[c]]
  /\ id' = [c \in Contexts |-> IF Contains(cid[i], c) THEN 0 ELSE id[c]]
  /\ cid' = [cid EXCEPT ![i] = <<>>]
  /\ used' = used \ {i}
  /\ UNCHANGED <<online, apn, walk>>

Next ==
  \/ SetOnline
  \/ \E c \in Contexts :
       \/ SetApn(c) \/ AssignContextId(c) \/ ClearContextId(c)
       \/ Activate(c) \/ Deactivate(c)
  \/ DeactivateContexts \/ WalkContext \/ WalkEntry
  \/ \E i \in 1..MaxCid : Established(i) \/ Released(i)

Spec == Init /\ [][Next]_vars

-----------------------------------------------------------------------------
(* Properties *)

\* Every variable has its type.
TypeOK ==
  /\ online \in BOOLEAN
  /\ used \subseteq 1..MaxCid
  /\ cid \in [0..MaxCid -> Seq(Contexts)]
  /\ state \in [Contexts -> States]
  /\ id \in [Contexts -> 0..MaxCid]
  /\ apn \in [Contexts -> Apns]
  /\ pdp \in [0..MaxCid -> Apns \cup {NoPdp}]
  /\ walk = <<>> \/ walk \in (0..(MaxCid - 1)) \X (Nat \ {0})

(***************************************************************************)
(* An entry in use has contexts, whose first one the searches of co_ps.c   *)
(* read unchecked; each context in an entry knows it by its id and is      *)
(* there once, so that clearing the id leaves no trace of the context.     *)
(***************************************************************************)
EntriesAgree ==
  /\ \A i \in 0..MaxCid : i \in used <=> cid[i] # <<>>
  /\ \A i \in 0..MaxCid : IsInjective(cid[i])
  /\ \A i \in 0..MaxCid : \A k \in DOMAIN cid[i] : id[cid[i][k]] = i

\* A context that is not deactivated is in the entry of its id, where the
\* reports of the modem reach it.
Reachable == \A c \in Contexts : state[c] # "DEACTIVATED" => Contains(cid[id[c]], c)

\* Contexts that share an id have one APN, no two ids have the same one, and
\* a context that is in use has the connection of its APN; no connection is up
\* without a context through which it can be brought down.
Sharing ==
  /\ \A i, j \in used : \A k \in DOMAIN cid[i], l \in DOMAIN cid[j] :
       i = j <=> apn[cid[i][k]] = apn[cid[j][l]]
  /\ \A c \in Contexts : state[c] # "DEACTIVATED" => pdp[id[c]] = apn[c]
  /\ \A i \in 1..MaxCid : pdp[i] # NoPdp => i \in used

\* The modem is never asked to connect under an id that is in use.
OneConnection ==
  [][\A i \in 0..MaxCid : pdp[i] # pdp'[i] => NoPdp \in {pdp[i], pdp'[i]}]_vars

\* A report of the modem activates only contexts whose activation was asked
\* for and not taken back; others become active by joining a connection.
NoRevival ==
  [][\A c \in Contexts :
       state'[c] = "ACTIVATED" => state[c] \in {"ACTIVATING", "ACTIVATED"} \/ id'[c] # id[c]]_vars

(* The invariant that carries the properties, when the plugin clears ids   *)
(* (ClearsShared) and there are fewer APNs than ids.                       *)

\* No two ids have one APN, and the contexts of an id have one.
OneApn ==
  \A i, j \in used : \A c, d \in Contexts :
    Contains(cid[i], c) /\ Contains(cid[j], d) => (i = j <=> apn[c] = apn[d])

\* A context in use has the connection of its APN.
Connected == \A c \in Contexts : state[c] # "DEACTIVATED" => pdp[id[c]] = apn[c]

\* The contexts of an id are in one state.
Alike ==
  \A i \in 0..MaxCid : \A c, d \in Contexts :
    Contains(cid[i], c) /\ Contains(cid[i], d) => state[c] = state[d]

\* A connection belongs to an id in use, none of whose contexts is deactivated.
Held ==
  \A i \in 0..MaxCid : pdp[i] # NoPdp =>
    i \in used /\ \A c \in Contexts : Contains(cid[i], c) => state[c] # "DEACTIVATED"

\* The last id, which the searches leave out, is not given out.
Spare == MaxCid \notin used

ContextInv ==
  TypeOK /\ EntriesAgree /\ OneApn /\ Reachable /\ Connected /\ Alike /\ Held /\ Spare
=============================================================================
