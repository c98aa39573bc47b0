--------------------------- MODULE SerialChannel ---------------------------
(***************************************************************************)
(* What a HAL in AT mode promises its plugins as long as they submit plain *)
(* requests: a channel that carries one request at a time, in the order of *)
(* their submission, and pairs the next answer with that request.          *)
(***************************************************************************)
EXTENDS Sequences

CONSTANTS Request, NoRequest

VARIABLES
  backlog,  \* the requests submitted and not yet started, oldest first
  current,  \* the request on the channel, or NoRequest
  done      \* the requests that were answered

vars == <<backlog, current, done>>

Init == backlog = <<>> /\ current = NoRequest /\ done = {}

Submit(r) ==
  /\ r \notin done /\ r # current
  /\ \A i \in DOMAIN backlog : backlog[i] # r
  /\ backlog' = Append(backlog, r)
  /\ UNCHANGED <<current, done>>

Start ==
  /\ current = NoRequest /\ backlog # <<>>
  /\ current' = Head(backlog)
  /\ backlog' = Tail(backlog)
  /\ UNCHANGED done

Finish ==
  /\ current # NoRequest
  /\ done' = done \cup {current}
  /\ current' = NoRequest
  /\ UNCHANGED backlog

Next == Start \/ Finish \/ \E r \in Request : Submit(r)

Spec == Init /\ [][Next]_vars
=============================================================================
