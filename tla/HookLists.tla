----------------------------- MODULE HookLists -----------------------------
(***************************************************************************)
(* The lists of functions that plugins hook into the library: request and  *)
(* notification hooks of the server (src/server.c), send hooks and receive *)
(* callbacks of a HAL (src/hal.c).  The code of the four is the same, but  *)
(* that the first two are bound to a command and that all except receive   *)
(* callbacks may stop what they are called for.                            *)
(*                                                                         *)
(* A function may add and remove hooks while the list it is in is walked.  *)
(* Bounds: one such call in the course of a walk; one walk at a time.      *)
(***************************************************************************)
EXTENDS Naturals, Sequences, FiniteSets, SequencesExt, Filters

CONSTANTS
  Lists,     \* among "request", "notification", "send", "recv"
  Functions, \* what plugins hook in
  Commands,  \* what hooks of each list are bound to
  MaxHooks   \* bound: hooks in all lists

VARIABLES
  hooks,  \* the lists, of records [fn, cmd]
  walk,   \* the walk in progress, or NoWalk
  verdict \* how the last walk ended: "passed" or "stopped", until it is used

hookVars == <<hooks, walk, verdict>>

NoWalk == [list |-> "none"]
Walking == walk # NoWalk

HooksInit ==
  /\ hooks = [l \in Lists |-> <<>>]
  /\ walk = NoWalk
  /\ verdict = "none"

\* A hook of a HAL is for everything that is sent or received.
ForAll == "everything"
For(cmd, h) == h.cmd \in {cmd, ForAll}

-----------------------------------------------------------------------------
(* Adding and removing *)

Callable == verdict = "none" /\ (Walking => ~walk.acted)

\* The link that is visited may be freed under the walk, which then reads its
\* next field: NULL, or what followed when it was freed.
Disturbed(l, s) ==
  IF ~Walking THEN walk
  ELSE IF walk.list # l \/ Contains(s, walk.at) THEN [walk EXCEPT !.acted = TRUE]
  ELSE [walk EXCEPT !.acted = TRUE, !.cut = TRUE,
                    !.next = Keep(@, ToSet(s))]

\* Mutant: a hook goes in front, where a walk does not come any more.
AddHookInFront(l, f, c) ==
  LET hook == [fn |-> f, cmd |-> c] IN
  /\ Callable
  /\ FoldFunction(LAMBDA s, n : Len(s) + n, 0, hooks) < MaxHooks
  /\ ~Contains(hooks[l], hook)
  /\ hooks' = [hooks EXCEPT ![l] = <<hook>> \o @]
  /\ walk' = Disturbed(l, hooks'[l])
  /\ UNCHANGED verdict

\* tcore_server_add_request_hook and its like: a function may be hooked in for
\* several commands.
AddHook(l, f, c) ==
  LET hook == [fn |-> f, cmd |-> c] IN
  /\ Callable
  /\ FoldFunction(LAMBDA s, n : Len(s) + n, 0, hooks) < MaxHooks
  /\ ~Contains(hooks[l], hook)
  /\ hooks' = [hooks EXCEPT ![l] = Append(@, hook)]
  /\ walk' = Disturbed(l, hooks'[l])
  /\ UNCHANGED verdict

\* What the loop that removes f leaves: after each removal it goes back to the
\* head of the list, which the step of the loop then skips.  So the second hook
\* stays, whatever its function is, when the first is removed.
Remainder(s, f) == Keep(s, {h \in ToSet(s) : h.fn # f \/ (s[1].fn = f /\ h = s[2])})

\* tcore_server_remove_request_hook and its like.  With the only hook of a list
\* the loop goes on from NULL and crashes: the plugins keep another one.
RemoveHook(l, f) ==
  /\ Callable
  /\ Len(hooks[l]) > 1
  /\ \E i \in DOMAIN hooks[l] : hooks[l][i].fn = f
  /\ hooks' = [hooks EXCEPT ![l] = Remainder(@, f)]
  /\ walk' = Disturbed(l, hooks'[l])
  /\ UNCHANGED verdict

-----------------------------------------------------------------------------
(* Walking *)

\* The hooks of the list, from position i on, that are called.
Later(l, cmd, i) ==
  Keep(SubSeq(hooks[l], i, Len(hooks[l])), {h \in ToSet(hooks[l]) : For(cmd, h)})

\* The first of rest is called.  acted: a function has changed a list, in the
\* course of this walk; whole: none has cut the walk.
Call(l, cmd, rest, asked, acted, whole) ==
  walk' = [list |-> l, cmd |-> cmd, at |-> Head(rest), next |-> Tail(rest),
           asked |-> asked \cup {Head(rest)}, acted |-> acted, cut |-> FALSE, whole |-> whole]

\* The walk over a list for a command.
Walk(l, cmd) ==
  LET rest == Later(l, cmd, 1) IN
  /\ ~Walking /\ verdict = "none"
  /\ IF rest = <<>> THEN UNCHANGED walk /\ verdict' = "passed"
     ELSE Call(l, cmd, rest, {}, FALSE, TRUE) /\ UNCHANGED verdict
  /\ UNCHANGED hooks

Position(s, h) == CHOOSE i \in DOMAIN s : s[i] = h

\* Mutant: the next hook is the one that followed when this one was called.
OnwardStale == {walk.next}

Onward ==
  IF walk.cut THEN {<<>>, walk.next}
  ELSE {Later(walk.list, walk.cmd, Position(hooks[walk.list], walk.at) + 1)}

\* A hook returns.
ReturnHook(stop) ==
  /\ Walking
  /\ stop => walk.list # "recv"
  /\ \E rest \in IF stop THEN {<<>>} ELSE Onward :
       IF rest = <<>>
       THEN /\ walk' = NoWalk
            /\ verdict' = IF stop THEN "stopped" ELSE "passed"
       ELSE Call(walk.list, walk.cmd, rest, walk.asked, walk.acted, walk.whole /\ ~walk.cut) /\ UNCHANGED verdict
  /\ UNCHANGED hooks

\* A walk with nothing behind it: tcore_hal_emit_recv_callback returns, and
\* tcore_hal_send_data sends or not.
Used == verdict # "none" /\ verdict' = "none" /\ UNCHANGED <<hooks, walk>>

HooksNext ==
  \/ \E l \in Lists, f \in Functions :
       (\E c \in Commands[l] : AddHook(l, f, c)) \/ RemoveHook(l, f)
  \/ \E stop \in BOOLEAN : ReturnHook(stop)

-----------------------------------------------------------------------------
(* Properties *)

\* A function is called only as long as it is hooked in, even if hooks are
\* removed from inside the walk: the hook that is being called is in the list,
\* unless it has removed itself (the walks of tcore_server_dispatch_request,
\* tcore_server_send_notification, tcore_hal_send_data and
\* tcore_hal_emit_recv_callback against the removing loops).
CalledIsHooked ==
  Walking /\ ~walk.cut => Contains(hooks[walk.list], walk.at)

\* What a walk is for passes only after each of its hooks that is in the list
\* at the end was asked, those added meanwhile included (unless one of them
\* removed itself while it was called).
EveryHookAsked ==
  [][Walking /\ verdict' = "passed" /\ walk.whole /\ ~walk.cut =>
       \A i \in DOMAIN hooks[walk.list] :
         For(walk.cmd, hooks[walk.list][i]) => hooks[walk.list][i] \in walk.asked]_hookVars
=============================================================================
