----------------------------- MODULE HalRequest -----------------------------
(***************************************************************************)
(* The life of the requests of one HAL (src/hal.c, src/queue.c and the     *)
(* pending-response path of src/at.c): a plugin submits a pending request, *)
(* the GLib main loop sends it to the modem from an idle source, and the   *)
(* answer, a timer, a cancellation or a failed send releases it.           *)
(*                                                                         *)
(* Everything runs on one thread, but the library calls the plugin back    *)
(* from the middle of its own functions and the plugin may call the        *)
(* library again from there.  The variable stack holds the library         *)
(* functions that are waiting for such a callback to return, innermost     *)
(* first; an event of the main loop needs the stack to be empty.           *)
(***************************************************************************)
EXTENDS RequestQueue

CONSTANTS
  Pending,     \* the pending objects, each used for one request
  Requests,    \* what a plugin may configure: [prio, auto, timed, cmd]
  Mode,        \* enum tcore_hal_mode: "AT" or "CUSTOM"
  Outcomes,    \* what a send may return: "SUCCESS", "HOOK_STOP", "FAIL"
  CallFrom,    \* where plugins call the API: "loop", "send", "resp", "timeout"
  Commands,    \* the commands tcore_queue_cancel_pending_by_command is called with
  Duplicates,  \* TRUE: the modem may repeat an answer
  Losses,      \* TRUE: an answer may get lost
  None,        \* the NULL pending
  Cancelled    \* the empty answer a cancelled request is given

ASSUME ConstantsAssumption ==
  /\ \A r \in Requests : /\ r.prio \in Priorities
                         /\ r.auto \in BOOLEAN
                         /\ r.timed \in BOOLEAN
  /\ Mode \in {"AT", "CUSTOM"}
  /\ Outcomes \subseteq {"SUCCESS", "HOOK_STOP", "FAIL"}
  /\ Duplicates \in BOOLEAN /\ Losses \in BOOLEAN
  /\ None \notin Pending /\ Cancelled \notin Pending /\ None # Cancelled

VARIABLES
  req,        \* [Pending -> Requests]: what the setters stored before the push
  queue,      \* TcoreQueue.gq
  nextId,     \* TcoreQueue.next_id
  st,         \* "new", "live" (allocated and pushed) or "freed"
  id,         \* TcorePending.id
  sent,       \* the pendings whose flag_sent is TRUE
  listening,  \* the pendings whose on_response is not NULL
  timer,      \* the pendings whose timeout source is armed
  atreq,      \* TcoreAT.req, as the pending it belongs to
  wire,       \* the answers the modem owes or has on their way, oldest first
  idle,       \* the number of _hal_idle_send sources in the main loop
  stack,      \* the library calls waiting for a plugin callback to return
  got         \* what on_response was called with so far: the requests that
              \* the answers belong to, or Cancelled

vars == <<req, queue, nextId, st, id, sent, listening, timer, atreq, wire,
          idle, stack, got>>

Imm == {p \in Pending : req[p].prio = "IMMEDIATELY"}

Frame(fn, p, ret, renew, cmd) ==
  [fn |-> fn, p |-> p, ret |-> ret, renew |-> renew, cmd |-> cmd]
Push(f) == stack' = <<f>> \o stack

\* Who is running: the main loop, a plugin callback, or the cancel loop.
Control == IF stack = <<>> THEN "loop" ELSE Head(stack).fn
MayCall == Control \in CallFrom

Init ==
  /\ req \in [Pending -> Requests]
  /\ queue = <<>>
  /\ nextId = 0
  /\ st = [p \in Pending |-> "new"]
  /\ id = [p \in Pending |-> 0]
  /\ sent = {} /\ listening = {} /\ timer = {}
  /\ atreq = None
  /\ wire = <<>>
  /\ idle = 0
  /\ stack = <<>>
  /\ got = [p \in Pending |-> <<>>]

-----------------------------------------------------------------------------
(* Sending *)

\* Mutant: the timeout source outlives its pending.
FreeButTimer(p) == st' = [st EXCEPT ![p] = "freed"] /\ UNCHANGED timer

\* tcore_pending_free: the timeout source goes with the pending.
Free(p) ==
  /\ st' = [st EXCEPT ![p] = "freed"]
  /\ timer' = timer \ {p}

(***************************************************************************)
(* The first half of _hal_idle_send on a queue q, up to the on_send        *)
(* callback: the next pending is handed to the modem, which succeeds,      *)
(* fails, or is stopped by a send hook (whose owner then answers it), and  *)
(* is flagged as sent in every case.  renew tells whether an idle source   *)
(* is there to take the return value.                                      *)
(***************************************************************************)
HalIdleSend(q, renew) ==
  \/ \E i \in 1..Len(q), ret \in Outcomes :
       /\ NextIndex(q, Imm, sent, i)
       /\ sent' = sent \cup {q[i]}
       /\ atreq' = IF Mode = "AT" THEN q[i] ELSE atreq
       /\ wire' = IF ret = "FAIL" THEN wire ELSE Append(wire, q[i])
       /\ Push(Frame("send", q[i], ret, renew, None))
  \/ /\ ~HasNext(q, Imm, sent)
     /\ UNCHANGED <<sent, atreq, wire, stack>>

\* tcore_hal_send_request
SendRequest(p) ==
  /\ MayCall
  /\ st[p] = "new"
  /\ \E i \in 1..(Len(queue) + 1) :
       /\ PushIndex(queue, req[p].prio, Imm, i)
       /\ queue' = InsertAt(queue, i, p)
  /\ st' = [st EXCEPT ![p] = "live"]
  /\ id' = [id EXCEPT ![p] = nextId]
  /\ nextId' = nextId + 1
  /\ listening' = listening \cup {p}
  /\ IF req[p].prio = "IMMEDIATELY"
     THEN HalIdleSend(queue', FALSE) /\ UNCHANGED idle
     ELSE /\ idle' = IF Len(queue') = 1 THEN idle + 1 ELSE idle
          /\ UNCHANGED <<sent, atreq, wire, stack>>
  /\ UNCHANGED <<req, timer, got>>

\* The main loop runs an idle source; it stays only if ReturnSend renews it.
IdleSend ==
  /\ Control = "loop"
  /\ idle > 0
  /\ idle' = idle - 1
  /\ HalIdleSend(queue, TRUE)
  /\ UNCHANGED <<req, queue, nextId, st, id, listening, timer, got>>

\* tcore_hal_send_force
SendForce ==
  /\ MayCall
  /\ HalIdleSend(queue, FALSE)
  /\ UNCHANGED <<req, queue, nextId, st, id, listening, timer, idle, got>>

(***************************************************************************)
(* The rest of _hal_idle_send, after on_send returned.  Reading a pending  *)
(* that the callback got freed is undefined: the model stops there, and    *)
(* NoUseAfterFree says whether that can be reached.                        *)
(***************************************************************************)
SendDone(ret) ==
  /\ Control = "send"
  /\ Head(stack).ret = ret
  /\ st[Head(stack).p] # "freed"
  /\ stack' = Tail(stack)
  /\ UNCHANGED <<req, nextId, id, sent, listening, atreq, wire, got>>

\* The send worked and an answer is expected: start the pending's timer.
ReturnSendWaiting ==
  LET p == Head(stack).p IN
  /\ SendDone("SUCCESS")
  /\ ~req[p].auto
  /\ timer' = IF req[p].timed THEN timer \cup {p} ELSE timer
  /\ UNCHANGED <<queue, st, idle>>

\* flag_auto_free_after_sent: release the pending and renew the idle source.
ReturnSendAutoFree ==
  LET p == Head(stack).p IN
  /\ \E ret \in {"SUCCESS", "FAIL"} : SendDone(ret)
  /\ req[p].auto
  /\ \E i \in 1..Len(queue) : queue[i] = p /\ queue' = RemoveAt(queue, i)
  /\ Free(p)
  /\ idle' = IF Head(stack).renew THEN idle + 1 ELSE idle

\* "Send fail": what is popped and freed is the head of the queue.
ReturnSendFail ==
  /\ SendDone("FAIL")
  /\ ~req[Head(stack).p].auto
  /\ IF queue = <<>>
     THEN UNCHANGED <<queue, st, timer>>
     ELSE queue' = Tail(queue) /\ Free(Head(queue))
  /\ UNCHANGED idle

\* TCORE_RETURN_HOOK_STOP: the pending stays, flagged as sent, with no timer.
ReturnSendHookStop ==
  /\ SendDone("HOOK_STOP")
  /\ UNCHANGED <<queue, st, timer, idle>>

-----------------------------------------------------------------------------
(* Answers *)

(***************************************************************************)
(* The pending at position i of the queue leaves it with answer a: its     *)
(* on_response, if it still has one, is called; the pending is freed after *)
(* that and an idle source is added for the next request.  base is the     *)
(* stack to come back to, hears the set of pendings with an on_response.   *)
(***************************************************************************)
Answer(p, a, hears, base) ==
  IF p \in hears
  THEN /\ got' = [got EXCEPT ![p] = Append(@, a)]
       /\ stack' = <<Frame("resp", p, None, FALSE, None)>> \o base
       /\ UNCHANGED <<st, timer, idle>>
  ELSE /\ Free(p)
       /\ idle' = idle + 1
       /\ stack' = base
       /\ UNCHANGED got

\* Mutant: the pending is looked up (tcore_queue_ref_pending_by_id), not popped.
DeliverUnpopped(i, a, hears, base) ==
  Answer(queue[i], a, hears, base) /\ UNCHANGED queue

Deliver(i, a, hears, base) ==
  /\ queue' = RemoveAt(queue, i)
  /\ Answer(queue[i], a, hears, base)

\* Mutant: the head of the queue is answered, whatever the id.
WithAnyId(n) == {p \in Pending : st[p] # "new"}

\* The pendings that tcore_queue_pop_by_id(n) would match.
WithId(n) == {p \in Pending : st[p] # "new" /\ id[p] = n}

\* An answer taken off the wire, or repeated by the modem.
Receive(i) ==
  \/ wire' = RemoveAt(wire, i)
  \/ Duplicates /\ UNCHANGED wire

\* tcore_hal_dispatch_response_data in CUSTOM mode, called by the HAL plugin
\* with the id the modem copied from the request; an unknown id is ignored.
RespondCustom ==
  /\ Mode = "CUSTOM"
  /\ Control = "loop"
  /\ \E i \in 1..Len(wire) :
       /\ Receive(i)
       /\ \/ \E j \in 1..Len(queue) :
               /\ FirstIndex(queue, WithId(id[wire[i]]), j)
               /\ Deliver(j, wire[i], listening, stack)
          \/ /\ ~HasFirst(queue, WithId(id[wire[i]]))
             /\ UNCHANGED <<queue, st, timer, idle, stack, got>>
  /\ UNCHANGED <<req, nextId, id, sent, listening, atreq>>

\* tcore_at_process on a final response line.  The AT interface names no
\* request: with a request outstanding the answer goes to the queue's head,
\* without one the line is unsolicited and no callback of ours takes it.
RespondAt ==
  /\ Mode = "AT"
  /\ Control = "loop"
  /\ wire # <<>>
  /\ Receive(1)
  /\ atreq' = None
  /\ IF atreq # None /\ queue # <<>>
     THEN Deliver(1, wire[1], listening, stack)
     ELSE /\ idle' = IF atreq = None THEN idle ELSE idle + 1
          /\ UNCHANGED <<queue, st, timer, stack, got>>
  /\ UNCHANGED <<req, nextId, id, sent, listening>>

\* Mutant: the answered pending is not freed.
ReturnResponseLeak ==
  /\ Control = "resp"
  /\ stack' = Tail(stack)
  /\ idle' = idle + 1
  /\ UNCHANGED <<req, queue, nextId, st, id, sent, listening, timer, atreq,
                 wire, got>>

\* Mutant: no idle source is added for the next request.
ReturnResponseQuiet ==
  /\ Control = "resp"
  /\ Free(Head(stack).p)
  /\ stack' = Tail(stack)
  /\ UNCHANGED <<req, queue, nextId, id, sent, listening, atreq, wire, idle, got>>

\* The end of tcore_hal_dispatch_response_data, once on_response returned.
ReturnResponse ==
  /\ Control = "resp"
  /\ Free(Head(stack).p)
  /\ stack' = Tail(stack)
  /\ idle' = idle + 1
  /\ UNCHANGED <<req, queue, nextId, id, sent, listening, atreq, wire, got>>

\* An answer is lost between the modem and the HAL plugin.
LoseAnswer ==
  /\ Losses
  /\ \E i \in 1..Len(wire) : wire' = RemoveAt(wire, i)
  /\ UNCHANGED <<req, queue, nextId, st, id, sent, listening, timer, atreq,
                 idle, stack, got>>

-----------------------------------------------------------------------------
(* Timeouts and cancellation *)

\* The timer of p fires: _on_pending_timeout up to the on_timeout callback.
Timeout(p) ==
  /\ Control = "loop"
  /\ p \in timer
  /\ timer' = timer \ {p}
  /\ Push(Frame("timeout", p, None, FALSE, None))
  /\ UNCHANGED <<req, queue, nextId, st, id, sent, listening, atreq, wire,
                 idle, got>>

\* The rest of it: on_response is dropped and an empty response dispatched,
\* which releases the pending in CUSTOM mode and does nothing in AT mode.
ReturnTimeout ==
  LET p == Head(stack).p IN
  /\ Control = "timeout"
  /\ st[p] # "freed"
  /\ listening' = listening \ {p}
  /\ \/ /\ Mode = "CUSTOM"
        /\ \E i \in 1..Len(queue) :
             /\ FirstIndex(queue, WithId(id[p]), i)
             /\ Deliver(i, Cancelled, listening', Tail(stack))
     \/ /\ Mode = "AT"
        /\ stack' = Tail(stack)
        /\ UNCHANGED <<queue, st, timer, idle, got>>
  /\ UNCHANGED <<req, nextId, id, sent, atreq, wire>>

\* tcore_queue_cancel_pending_by_command
Cancel(c) ==
  /\ MayCall
  /\ Push(Frame("cancel", None, None, FALSE, c))
  /\ UNCHANGED <<req, queue, nextId, st, id, sent, listening, timer, atreq,
                 wire, idle, got>>

WithCommand(c) == {p \in Pending : st[p] # "new" /\ req[p].cmd = c}

\* One turn of its loop: answer the first pending of the command with no
\* data.  In AT mode that dispatch changes nothing and the loop turns again.
CancelStep ==
  LET S == WithCommand(Head(stack).cmd) IN
  /\ Control = "cancel"
  /\ \/ /\ Mode = "CUSTOM"
        /\ \E i \in 1..Len(queue) :
             /\ FirstIndex(queue, S, i)
             /\ \E j \in 1..Len(queue) :
                  /\ FirstIndex(queue, WithId(id[queue[i]]), j)
                  /\ Deliver(j, Cancelled, listening, stack)
     \/ /\ ~HasFirst(queue, S)
        /\ stack' = Tail(stack)
        /\ UNCHANGED <<queue, st, timer, idle, got>>
     \/ /\ Mode = "AT"
        /\ HasFirst(queue, S)
        /\ UNCHANGED <<queue, st, timer, idle, stack, got>>
  /\ UNCHANGED <<req, nextId, id, sent, listening, atreq, wire>>

-----------------------------------------------------------------------------
Next ==
  \/ \E p \in Pending : SendRequest(p) \/ Timeout(p)
  \/ \E c \in Commands : Cancel(c)
  \/ IdleSend \/ SendForce
  \/ ReturnSendWaiting \/ ReturnSendAutoFree \/ ReturnSendFail
  \/ ReturnSendHookStop
  \/ RespondCustom \/ RespondAt \/ ReturnResponse \/ LoseAnswer
  \/ ReturnTimeout \/ CancelStep

Spec == Init /\ [][Next]_vars

(***************************************************************************)
(* The main loop serves its idle sources and its expired timers, and a     *)
(* callback returns: that is all the progress the library can count on.    *)
(* Nothing obliges the modem to answer.                                    *)
(***************************************************************************)
Return == \/ ReturnSendWaiting \/ ReturnSendAutoFree \/ ReturnSendFail
          \/ ReturnSendHookStop \/ ReturnResponse \/ ReturnTimeout

Fairness == /\ WF_vars(IdleSend)
            /\ \A p \in Pending : WF_vars(Timeout(p))
            /\ WF_vars(Return)
            /\ WF_vars(CancelStep)

FairSpec == Spec /\ Fairness

\* With a modem that does answer: in AT mode it must, for no timer helps.
AnsweredSpec == FairSpec /\ WF_vars(RespondAt) /\ WF_vars(RespondCustom)

-----------------------------------------------------------------------------
(* Properties *)

FrameType ==
  [fn : {"send", "resp", "timeout"}, p : Pending,
   ret : {"SUCCESS", "HOOK_STOP", "FAIL", None}, renew : BOOLEAN, cmd : {None}]
  \cup [fn : {"cancel"}, p : {None}, ret : {None}, renew : {FALSE}, cmd : Commands]

\* Every variable has its type.
TypeOK ==
  /\ req \in [Pending -> Requests]
  /\ queue \in Seq(Pending)
  /\ nextId \in Nat
  /\ st \in [Pending -> {"new", "live", "freed"}]
  /\ id \in [Pending -> Nat]
  /\ sent \subseteq Pending /\ listening \subseteq Pending /\ timer \subseteq Pending
  /\ atreq \in Pending \cup {None}
  /\ wire \in Seq(Pending)
  /\ idle \in Nat
  /\ stack \in Seq(FrameType)
  /\ got \in [Pending -> Seq(Pending \cup {Cancelled})]

\* The three classes the queue keeps apart; LOW is treated as DEFAULT.
Band == [p \in Pending |-> CASE req[p].prio = "IMMEDIATELY" -> 0
                             [] req[p].prio = "HIGH"        -> 1
                             [] OTHER                       -> 2]

(***************************************************************************)
(* tcore_queue_push keeps the queue in three bands, IMMEDIATELY before     *)
(* HIGH before the rest.  Within a band the pendings are in the order of   *)
(* their submission, except that HIGH ones are in the reverse order.  No   *)
(* pending is queued twice.                                                *)
(***************************************************************************)
QueueShape == Shaped(queue, Band, id)

(***************************************************************************)
(* tcore_queue_ref_next_pending sends DEFAULT and LOW requests one at a    *)
(* time and in order: as long as one of them is in the queue, none behind  *)
(* it has been sent, whatever HIGH and IMMEDIATELY traffic goes in between *)
(* and whichever sends fail.                                               *)
(***************************************************************************)
OrdinaryInOrder == InOrder(queue, Band, sent)

\* An on_response callback is never given the answer to another request:
\* by id in CUSTOM mode, by the order of the answers alone in AT mode.
AnswerMatches ==
  \A p \in Pending : \A i \in 1..Len(got[p]) : got[p][i] \in {p, Cancelled}

(***************************************************************************)
(* on_response is called at most once for a request, and never once its    *)
(* on_timeout has been called (_on_pending_timeout sets on_response to     *)
(* NULL before it releases the pending), however late the answer comes.    *)
(***************************************************************************)
NotAgain ==
  \A p \in Pending : got[p] # <<>> \/ (st[p] # "new" /\ p \notin listening')
                       => got'[p] = got[p]
AnswerOnce == [][NotAgain]_vars

(***************************************************************************)
(* Memory: no library function that waits for a callback comes back to a   *)
(* freed pending, and no armed timer points at one.                        *)
(***************************************************************************)
NoUseAfterFree ==
  /\ \A i \in 1..Len(stack) : stack[i].p # None => st[stack[i].p] = "live"
  /\ \A p \in timer : st[p] = "live"
  /\ \A i \in 1..Len(queue) : st[queue[i]] = "live"

\* No pending is leaked: one that is not freed is in the queue or its
\* on_response is running.
NoLeak ==
  \A p \in Pending : st[p] = "live" =>
    \/ \E i \in 1..Len(queue) : queue[i] = p
    \/ \E i \in 1..Len(stack) : stack[i].fn = "resp" /\ stack[i].p = p

(***************************************************************************)
(* No lost wakeup: when the main loop is idle and requests are queued, an  *)
(* idle source is there to send the next one, or a request is out whose    *)
(* answer or timer will add one.  tcore_hal_send_request adds a source     *)
(* only when the queue was empty and relies on this.                       *)
(***************************************************************************)
NoStall ==
  stack = <<>> /\ queue # <<>> =>
    idle > 0 \/ \E i \in 1..Len(queue) : queue[i] \in sent

\* Every request that was submitted is eventually released, by its answer,
\* its timer or its automatic release after the send.
Completes == \A p \in Pending : st[p] = "live" ~> st[p] = "freed"

\* A request whose timeout was signalled is eventually released.
TimeoutReleases ==
  \A p \in Pending : st[p] = "live" /\ p \notin listening ~> st[p] = "freed"

-----------------------------------------------------------------------------
(* The inductive invariants of the proofs, also checked by TLC *)

New == {p \in Pending : st[p] = "new"}

\* Nothing refers to a pending that was not submitted, and ids are unique.
Bookkeeping ==
  /\ \A i \in 1..Len(queue) : queue[i] \notin New
  /\ \A i \in 1..Len(wire) : wire[i] \notin New
  /\ \A i \in 1..Len(stack) : stack[i].p \notin New
  /\ New \cap (sent \cup timer) = {}
  /\ \A p \in Pending \ New : id[p] < nextId
  /\ \A p, q \in Pending \ New : p # q => id[p] # id[q]

CoreInv == /\ TypeOK
           /\ Bookkeeping
           /\ QueueShape
           /\ OrdinaryInOrder

\* A pending that is new or still queued was not answered yet.
Unanswered == /\ \A p \in New : got[p] = <<>>
              /\ \A i \in 1..Len(queue) : got[queue[i]] = <<>>

AnswerInv == CoreInv /\ Unanswered

\* The use of an AT channel that tells its answers apart: requests of one
\* band, no automatic release, no failing send, a modem that answers once.
AtDiscipline ==
  /\ Mode = "AT"
  /\ \A r \in Requests : r.prio \in {"DEFAULT", "LOW"} /\ ~r.auto
  /\ Outcomes \subseteq {"SUCCESS", "HOOK_STOP"}
  /\ ~Duplicates

\* One request is out at a time: it is the head of the queue, the only one
\* flagged as sent, the one at->req belongs to and the one the modem answers.
SingleFlight ==
  /\ atreq # None => queue # <<>> /\ atreq = Head(queue)
  /\ \A i \in 1..Len(queue) : queue[i] \in sent <=> queue[i] = atreq
  /\ wire = <<>> \/ (wire = <<atreq>> /\ atreq # None)

AtInv == CoreInv /\ SingleFlight /\ AnswerMatches

\* In AT mode the HAL implements the serial channel.
Channel == INSTANCE SerialChannel WITH
  Request   <- Pending,
  NoRequest <- None,
  backlog   <- IF atreq = None THEN queue ELSE Tail(queue),
  current   <- atreq,
  done      <- {p \in Pending : st[p] # "new"} \ ToSet(queue)
ImplementsSerialChannel == Channel!Spec
=============================================================================
