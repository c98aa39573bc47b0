-------------------------- MODULE HalRequestProofs --------------------------
(***************************************************************************)
(* Proofs about HalRequest, for any set of pendings and any configuration: *)
(* types, the order of the queue, who gets an answer, and - in AT mode -   *)
(* that the HAL is a serial channel; and what becomes of the pendings: no  *)
(* library function comes back to a freed one, no timer outlives one, and  *)
(* none is leaked, for plugins of either of two disciplines; and none      *)
(* stays in the queue with nothing to send it.                             *)
(***************************************************************************)
EXTENDS HalRequest, SeqLemmas

-----------------------------------------------------------------------------
(* Type correctness *)

\* Calling a plugin back, and coming back from it.
LEMMA PushType ==
  ASSUME TypeOK, NEW f \in FrameType, NEW base \in Seq(FrameType)
  PROVE  <<f>> \o base \in Seq(FrameType)
<1>1. <<f>> \in Seq(FrameType)
  OBVIOUS
<1>2. QED
  BY <1>1, ConcatProperties

\* The innermost waiting call is one of the four kinds, with its pending.
LEMMA TopType ==
  ASSUME TypeOK, Control \in {"send", "resp", "timeout", "cancel"}
  PROVE  /\ stack # <<>>
         /\ Head(stack) \in FrameType
         /\ Head(stack).fn = Control
         /\ Tail(stack) \in Seq(FrameType)
         /\ Control # "cancel" => Head(stack).p \in Pending
<1>1. stack # <<>> /\ Head(stack).fn = Control
  BY DEF Control
<1>2. stack \in Seq(FrameType)
  BY DEF TypeOK
<1>3. Head(stack) \in FrameType /\ Tail(stack) \in Seq(FrameType)
  BY <1>1, <1>2, HeadTailProperties
<1>4. Control # "cancel" => Head(stack).p \in Pending
  BY <1>1, <1>3 DEF FrameType
<1>5. QED
  BY <1>1, <1>3, <1>4

\* tcore_pending_free keeps the types.
LEMMA FreeType ==
  ASSUME TypeOK, NEW p, Free(p)
  PROVE  /\ st' \in [Pending -> {"new", "live", "freed"}]
         /\ timer' \subseteq Pending
BY DEF TypeOK, Free

\* The first half of _hal_idle_send keeps the types.
LEMMA SendType ==
  ASSUME TypeOK, NEW q \in Seq(Pending), NEW renew \in BOOLEAN,
         HalIdleSend(q, renew)
  PROVE  /\ sent' \subseteq Pending
         /\ atreq' \in Pending \cup {None}
         /\ wire' \in Seq(Pending)
         /\ stack' \in Seq(FrameType)
<1>1. CASE UNCHANGED <<sent, atreq, wire, stack>>
  BY <1>1 DEF TypeOK
<1>2. ASSUME NEW i \in 1..Len(q), NEW ret \in Outcomes,
             sent' = sent \cup {q[i]},
             atreq' = IF Mode = "AT" THEN q[i] ELSE atreq,
             wire' = IF ret = "FAIL" THEN wire ELSE Append(wire, q[i]),
             Push(Frame("send", q[i], ret, renew, None))
      PROVE  /\ sent' \subseteq Pending
             /\ atreq' \in Pending \cup {None}
             /\ wire' \in Seq(Pending)
             /\ stack' \in Seq(FrameType)
  <2>1. q[i] \in Pending
    BY ElementOfSeq
  <2>2. sent' \subseteq Pending /\ atreq' \in Pending \cup {None}
    BY <1>2, <2>1 DEF TypeOK
  <2>3. wire' \in Seq(Pending)
    BY <1>2, <2>1, AppendProperties DEF TypeOK
  <2>4. Frame("send", q[i], ret, renew, None) \in FrameType
    BY <2>1, ConstantsAssumption DEF Frame, FrameType
  <2>5. stack' \in Seq(FrameType)
    BY <1>2, <2>4, PushType DEF Push, TypeOK
  <2>6. QED
    BY <2>2, <2>3, <2>5
<1>3. QED
  BY <1>1, <1>2 DEF HalIdleSend

\* A delivery keeps the types.
LEMMA DeliverType ==
  ASSUME TypeOK, NEW i \in 1..Len(queue),
         NEW a \in Pending \cup {Cancelled}, NEW hears,
         NEW base \in Seq(FrameType), Deliver(i, a, hears, base)
  PROVE  /\ queue' \in Seq(Pending)
         /\ st' \in [Pending -> {"new", "live", "freed"}]
         /\ timer' \subseteq Pending
         /\ idle' \in Nat
         /\ stack' \in Seq(FrameType)
         /\ got' \in [Pending -> Seq(Pending \cup {Cancelled})]
<1> DEFINE p == queue[i]
<1>1. p \in Pending
  BY ElementOfSeq DEF TypeOK
<1>2. queue' \in Seq(Pending)
  BY RemoveAtProperties DEF Deliver, Answer, TypeOK
<1>3. CASE p \in hears
  <2>1. Frame("resp", p, None, FALSE, None) \in FrameType
    BY <1>1 DEF Frame, FrameType
  <2>2. stack' \in Seq(FrameType)
    BY <1>3, <2>1, PushType DEF Deliver, Answer
  <2>3. got' = [got EXCEPT ![p] = Append(@, a)] /\ UNCHANGED <<st, timer, idle>>
    BY <1>3 DEF Deliver, Answer
  <2>4. got' \in [Pending -> Seq(Pending \cup {Cancelled})]
    <3>1. got[p] \in Seq(Pending \cup {Cancelled})
      BY <1>1 DEF TypeOK
    <3>2. Append(got[p], a) \in Seq(Pending \cup {Cancelled})
      BY <3>1, AppendProperties
    <3>3. QED
      BY <1>1, <2>3, <3>2 DEF TypeOK
  <2>5. QED
    BY <1>2, <2>2, <2>3, <2>4 DEF TypeOK
<1>4. CASE p \notin hears
  <2>1. Free(p) /\ idle' = idle + 1 /\ stack' = base /\ UNCHANGED got
    BY <1>4 DEF Deliver, Answer
  <2>2. idle' \in Nat /\ got' \in [Pending -> Seq(Pending \cup {Cancelled})]
    BY <2>1 DEF TypeOK
  <2>3. QED
    BY <1>2, <2>1, <2>2, FreeType
<1>5. QED
  BY <1>3, <1>4

\* The types hold at the start.
LEMMA InitType == Init => TypeOK
<1>1. <<>> \in Seq(Pending) /\ <<>> \in Seq(FrameType)
  BY EmptySeq
<1>2. QED
  BY <1>1 DEF Init, TypeOK

\* tcore_hal_send_request keeps the types.
LEMMA SendRequestType ==
  ASSUME TypeOK, NEW p \in Pending, SendRequest(p)
  PROVE  TypeOK'
<1>1. PICK i \in 1..(Len(queue) + 1) : queue' = InsertAt(queue, i, p)
  BY DEF SendRequest
<1>2. queue' \in Seq(Pending)
  BY <1>1, InsertAtProperties DEF TypeOK
<1>3. /\ sent' \subseteq Pending
      /\ atreq' \in Pending \cup {None}
      /\ wire' \in Seq(Pending)
      /\ stack' \in Seq(FrameType)
      /\ idle' \in Nat
  <2>1. CASE req[p].prio = "IMMEDIATELY"
    <3>1. HalIdleSend(queue', FALSE) /\ idle' = idle
      BY <2>1 DEF SendRequest
    <3>2. QED
      BY <3>1, <1>2, SendType DEF TypeOK
  <2>2. CASE req[p].prio # "IMMEDIATELY"
    BY <2>2 DEF SendRequest, TypeOK
  <2>3. QED
    BY <2>1, <2>2
<1>4. /\ st' \in [Pending -> {"new", "live", "freed"}]
      /\ id' \in [Pending -> Nat]
      /\ nextId' \in Nat
      /\ listening' \subseteq Pending
      /\ UNCHANGED <<req, timer, got>>
  BY DEF SendRequest, TypeOK
<1>5. QED
  BY <1>2, <1>3, <1>4 DEF TypeOK

\* What the second half of a send leaves alone.
LEMMA SendDoneType ==
  ASSUME TypeOK, NEW ret, SendDone(ret)
  PROVE  /\ stack' \in Seq(FrameType)
         /\ Head(stack).p \in Pending
         /\ UNCHANGED <<req, nextId, id, sent, listening, atreq, wire, got>>
BY TopType DEF SendDone

\* The returns of the plugin callbacks keep the types.
LEMMA ReturnType ==
  ASSUME TypeOK, Return
  PROVE  TypeOK'
<1> DEFINE p == Head(stack).p
<1>1. CASE ReturnSendWaiting
  BY <1>1, SendDoneType DEF ReturnSendWaiting, TypeOK
<1>2. CASE ReturnSendAutoFree
  <2>1. PICK ret \in {"SUCCESS", "FAIL"} : SendDone(ret)
    BY <1>2 DEF ReturnSendAutoFree
  <2>2. PICK i \in 1..Len(queue) : queue' = RemoveAt(queue, i)
    BY <1>2 DEF ReturnSendAutoFree
  <2>3. queue' \in Seq(Pending)
    BY <2>2, RemoveAtProperties DEF TypeOK
  <2>4. Free(p) /\ idle' \in {idle, idle + 1} /\ idle' \in Nat
    <3>1. Free(p) /\ idle' \in {idle, idle + 1}
      BY <1>2 DEF ReturnSendAutoFree
    <3>2. idle \in Nat
      BY DEF TypeOK
    <3>3. QED
      BY <3>1, <3>2
  <2>5. QED
    BY <2>1, <2>3, <2>4, SendDoneType, FreeType DEF TypeOK
<1>3. CASE ReturnSendFail
  <2>1. SendDone("FAIL") /\ UNCHANGED idle
    BY <1>3 DEF ReturnSendFail
  <2>2. CASE queue = <<>>
    BY <1>3, <2>1, <2>2, SendDoneType DEF ReturnSendFail, TypeOK
  <2>3. CASE queue # <<>>
    <3>1. queue' = Tail(queue) /\ Free(Head(queue))
      BY <1>3, <2>3 DEF ReturnSendFail
    <3>2. queue' \in Seq(Pending)
      BY <2>3, <3>1, HeadTailProperties DEF TypeOK
    <3>3. QED
      BY <2>1, <3>1, <3>2, SendDoneType, FreeType DEF TypeOK
  <2>4. QED
    BY <2>2, <2>3
<1>4. CASE ReturnSendHookStop
  BY <1>4, SendDoneType DEF ReturnSendHookStop, TypeOK
<1>5. CASE ReturnResponse
  <2>1. Free(p) /\ stack' = Tail(stack) /\ Control = "resp"
    BY <1>5 DEF ReturnResponse
  <2>2. QED
    BY <1>5, <2>1, TopType, FreeType DEF ReturnResponse, TypeOK
<1>6. CASE ReturnTimeout
  <2>1. Tail(stack) \in Seq(FrameType)
    BY <1>6, TopType DEF ReturnTimeout
  <2>2. listening' \subseteq Pending
        /\ UNCHANGED <<req, nextId, id, sent, atreq, wire>>
    BY <1>6 DEF ReturnTimeout, TypeOK
  <2>3. ASSUME NEW i \in 1..Len(queue),
               Deliver(i, Cancelled, listening', Tail(stack))
        PROVE  TypeOK'
    BY <2>1, <2>2, <2>3, DeliverType DEF TypeOK
  <2>4. CASE stack' = Tail(stack) /\ UNCHANGED <<queue, st, timer, idle, got>>
    BY <2>1, <2>2, <2>4 DEF TypeOK
  <2>5. QED
    BY <1>6, <2>3, <2>4 DEF ReturnTimeout
<1>7. QED
  BY <1>1, <1>2, <1>3, <1>4, <1>5, <1>6 DEF Return

\* The answers: what Receive leaves on the wire is a part of it.
LEMMA ReceiveType ==
  ASSUME TypeOK, NEW i \in 1..Len(wire), Receive(i)
  PROVE  wire[i] \in Pending /\ wire' \in Seq(Pending)
BY ElementOfSeq, RemoveAtProperties DEF Receive, TypeOK

\* The answers of the modem keep the types.
LEMMA RespondType ==
  ASSUME TypeOK, RespondCustom \/ RespondAt
  PROVE  TypeOK'
<1>1. CASE RespondCustom
  <2>1. PICK i \in 1..Len(wire) :
          /\ Receive(i)
          /\ \/ \E j \in 1..Len(queue) : Deliver(j, wire[i], listening, stack)
             \/ UNCHANGED <<queue, st, timer, idle, stack, got>>
    BY <1>1 DEF RespondCustom
  <2>2. UNCHANGED <<req, nextId, id, sent, listening, atreq>>
    BY <1>1 DEF RespondCustom
  <2>3. wire[i] \in Pending /\ wire' \in Seq(Pending)
    BY <2>1, ReceiveType
  <2>4. stack \in Seq(FrameType)
    BY DEF TypeOK
  <2>5. ASSUME NEW j \in 1..Len(queue), Deliver(j, wire[i], listening, stack)
        PROVE  TypeOK'
    BY <2>2, <2>3, <2>4, <2>5, DeliverType DEF TypeOK
  <2>6. CASE UNCHANGED <<queue, st, timer, idle, stack, got>>
    BY <2>2, <2>3, <2>6 DEF TypeOK
  <2>7. QED
    BY <2>1, <2>5, <2>6
<1>2. CASE RespondAt
  <2>1. /\ wire # <<>> /\ Receive(1) /\ atreq' = None
        /\ UNCHANGED <<req, nextId, id, sent, listening>>
    BY <1>2 DEF RespondAt
  <2>2. 1 \in 1..Len(wire)
    BY <2>1, EmptySeq DEF TypeOK
  <2>3. wire[1] \in Pending /\ wire' \in Seq(Pending)
    BY <2>1, <2>2, ReceiveType
  <2>4. stack \in Seq(FrameType)
    BY DEF TypeOK
  <2>5. CASE atreq # None /\ queue # <<>>
    <3>1. 1 \in 1..Len(queue)
      BY <2>5, EmptySeq DEF TypeOK
    <3>2. Deliver(1, wire[1], listening, stack)
      BY <1>2, <2>5 DEF RespondAt
    <3>3. QED
      BY <2>1, <2>3, <2>4, <3>1, <3>2, DeliverType DEF TypeOK
  <2>6. CASE ~(atreq # None /\ queue # <<>>)
    <3>1. /\ atreq' = None /\ idle' \in Nat
          /\ UNCHANGED <<req, queue, nextId, st, id, sent, listening, timer,
                         stack, got>>
      BY <1>2, <2>6 DEF RespondAt, TypeOK
    <3>2. QED
      BY <2>3, <3>1 DEF TypeOK
  <2>7. QED
    BY <2>5, <2>6
<1>3. QED
  BY <1>1, <1>2

\* The cancel loop keeps the types.
LEMMA CancelType ==
  ASSUME TypeOK, CancelStep \/ \E c \in Commands : Cancel(c)
  PROVE  TypeOK'
<1>1. ASSUME NEW c \in Commands, Cancel(c)
      PROVE  TypeOK'
  <2>1. Frame("cancel", None, None, FALSE, c) \in FrameType
    BY DEF Frame, FrameType
  <2>2. stack' \in Seq(FrameType)
    BY <1>1, <2>1, PushType DEF Cancel, Push, TypeOK
  <2>3. QED
    BY <1>1, <2>2 DEF Cancel, TypeOK
<1>2. CASE CancelStep
  <2>1. Tail(stack) \in Seq(FrameType) /\ stack \in Seq(FrameType)
    BY <1>2, TopType DEF CancelStep, TypeOK
  <2>2. UNCHANGED <<req, nextId, id, sent, listening, atreq, wire>>
    BY <1>2 DEF CancelStep
  <2>3. ASSUME NEW j \in 1..Len(queue), Deliver(j, Cancelled, listening, stack)
        PROVE  TypeOK'
    BY <2>1, <2>2, <2>3, DeliverType DEF TypeOK
  <2>4. CASE /\ stack' = Tail(stack) \/ stack' = stack
             /\ UNCHANGED <<queue, st, timer, idle, got>>
    BY <2>1, <2>2, <2>4 DEF TypeOK
  <2>5. QED
    BY <1>2, <2>3, <2>4 DEF CancelStep
<1>3. QED
  BY <1>1, <1>2

\* Every step keeps the types.
LEMMA TypeStep ==
  ASSUME TypeOK, [Next]_vars
  PROVE  TypeOK'
<1>1. ASSUME NEW p \in Pending, SendRequest(p) PROVE TypeOK'
  BY <1>1, SendRequestType
<1>2. ASSUME NEW p \in Pending, Timeout(p) PROVE TypeOK'
  <2>1. Frame("timeout", p, None, FALSE, None) \in FrameType
    BY DEF Frame, FrameType
  <2>2. stack' \in Seq(FrameType)
    BY <1>2, <2>1, PushType DEF Timeout, Push, TypeOK
  <2>3. QED
    BY <1>2, <2>2 DEF Timeout, TypeOK
<1>3. CASE IdleSend
  <2>1. HalIdleSend(queue, TRUE) /\ queue \in Seq(Pending)
    BY <1>3 DEF IdleSend, TypeOK
  <2>2. idle' \in Nat
    BY <1>3 DEF IdleSend, TypeOK
  <2>3. QED
    BY <1>3, <2>1, <2>2, SendType DEF IdleSend, TypeOK
<1>4. CASE SendForce
  <2>1. HalIdleSend(queue, FALSE) /\ queue \in Seq(Pending)
    BY <1>4 DEF SendForce, TypeOK
  <2>2. QED
    BY <1>4, <2>1, SendType DEF SendForce, TypeOK
<1>5. CASE LoseAnswer
  <2>1. wire' \in Seq(Pending)
    BY <1>5, RemoveAtProperties DEF LoseAnswer, TypeOK
  <2>2. QED
    BY <1>5, <2>1 DEF LoseAnswer, TypeOK
<1>6. CASE UNCHANGED vars
  BY <1>6 DEF vars, TypeOK
<1>7. QED
  BY <1>1, <1>2, <1>3, <1>4, <1>5, <1>6, ReturnType, RespondType, CancelType
     DEF Next, Return

\* Every variable keeps its type, whatever plugins and modem do.
THEOREM TypeCorrect == Spec => []TypeOK
BY InitType, TypeStep, PTL DEF Spec

-----------------------------------------------------------------------------
(* The shape of the queue and the order of the sends *)

\* A pending is in one of three bands, IMMEDIATELY ones in band 0.
LEMMA BandType ==
  ASSUME TypeOK
  PROVE  /\ Band \in [Pending -> 0..2]
         /\ \A x \in Pending : x \in Imm <=> Band[x] = 0
         /\ \A x \in Pending : Band[x] = IF req[x].prio = "IMMEDIATELY" THEN 0
                                        ELSE IF req[x].prio = "HIGH" THEN 1 ELSE 2
         /\ \A x \in Imm : Band[x] = 0
<1>1. \A x \in Pending : Band[x] = IF req[x].prio = "IMMEDIATELY" THEN 0
                                   ELSE IF req[x].prio = "HIGH" THEN 1 ELSE 2
  BY DEF Band
<1>2. Band \in [Pending -> 0..2]
  BY <1>1 DEF Band
<1>3. QED
  BY <1>1, <1>2 DEF Imm

\* The pendings of the frames on a stack are outside N; they were submitted.
Avoids(frames, N) == \A i \in 1..Len(frames) : frames[i].p \notin N
Submitted(frames) == Avoids(frames, New)

\* Calling back for a pending outside N adds no frame of N.
LEMMA PushAvoids ==
  ASSUME NEW f \in FrameType, NEW base \in Seq(FrameType), NEW N,
         f.p \notin N, Avoids(base, N)
  PROVE  Avoids(<<f>> \o base, N)
<1>1. <<f>> \in Seq(FrameType) /\ Len(<<f>>) = 1 /\ <<f>>[1] = f
  OBVIOUS
<1>2. /\ Len(base) \in Nat
      /\ Len(<<f>> \o base) = Len(base) + 1
      /\ \A i \in 1..(Len(base) + 1) :
           (<<f>> \o base)[i] = IF i <= 1 THEN f ELSE base[i - 1]
  BY <1>1, ConcatProperties, LenProperties
<1>3. SUFFICES ASSUME NEW i \in 1..(Len(base) + 1)
               PROVE  (<<f>> \o base)[i].p \notin N
  BY <1>2 DEF Avoids
<1>4. CASE i <= 1
  BY <1>2, <1>4
<1>5. CASE i > 1
  <2>1. i - 1 \in 1..Len(base) /\ (<<f>> \o base)[i] = base[i - 1]
    BY <1>2, <1>5
  <2>2. QED
    BY <2>1 DEF Avoids
<1>6. QED
  BY <1>4, <1>5

\* The innermost waiting call is about a submitted pending.
LEMMA TopSubmitted ==
  ASSUME TypeOK, Submitted(stack), stack # <<>>
  PROVE  Head(stack).p \notin New /\ Submitted(Tail(stack))
<1>1. stack \in Seq(FrameType) /\ Len(stack) \in Nat \ {0} /\ Head(stack) = stack[1]
  BY EmptySeq DEF TypeOK
<1>2. /\ Len(Tail(stack)) = Len(stack) - 1
      /\ \A i \in 1..Len(Tail(stack)) : Tail(stack)[i] = stack[i + 1]
  BY <1>1, HeadTailProperties
<1>3. QED
  BY <1>1, <1>2 DEF Submitted, Avoids

\* Releasing a submitted pending submits no other.
LEMMA FreeNew ==
  ASSUME TypeOK, NEW p, p \notin New, Free(p)
  PROVE  New' = New /\ timer' \subseteq timer
BY DEF TypeOK, Free, New

\* A step that at most takes pendings out of the queue keeps the invariant.
LEMMA Shrink ==
  ASSUME CoreInv, TypeOK', UNCHANGED <<req, nextId, id, sent>>, New' = New,
         SubsequenceOf(queue', queue),
         \A i \in 1..Len(wire') : wire'[i] \notin New,
         Submitted(stack'), New \cap timer' = {}
  PROVE  CoreInv'
<1>1. Band' = Band
  BY DEF Band
<1>2. QueueShape' /\ OrdinaryInOrder'
  <2>1. Shaped(queue', Band, id) /\ InOrder(queue', Band, sent)
    BY ShapedSubsequence, InOrderSubsequence
       DEF CoreInv, QueueShape, OrdinaryInOrder
  <2>2. Shaped(queue', Band', id') /\ InOrder(queue', Band', sent')
    BY <1>1, <2>1
  <2>3. QED
    BY <2>2 DEF QueueShape, OrdinaryInOrder
<1>3. \A i \in 1..Len(queue') : queue'[i] \notin New
  BY DEF CoreInv, Bookkeeping, SubsequenceOf
<1>4. Bookkeeping'
  BY <1>3 DEF CoreInv, Bookkeeping, Submitted, Avoids
<1>5. QED
  BY <1>2, <1>4 DEF CoreInv

\* The same for a delivery.
LEMMA DeliverShrinks ==
  ASSUME CoreInv, NEW i \in 1..Len(queue), NEW a, NEW hears,
         NEW base \in Seq(FrameType), Submitted(base),
         Deliver(i, a, hears, base)
  PROVE  /\ New' = New
         /\ SubsequenceOf(queue', queue)
         /\ Submitted(stack')
         /\ timer' \subseteq timer
<1> DEFINE p == queue[i]
<1>1. TypeOK /\ p \in Pending /\ p \notin New
  BY ElementOfSeq DEF CoreInv, Bookkeeping, TypeOK
<1>2. SubsequenceOf(queue', queue)
  <2>1. queue' = RemoveAt(queue, i) /\ queue \in Seq(Pending)
    BY <1>1 DEF Deliver, Answer, TypeOK
  <2>2. QED
    BY <2>1, RemoveAtSubsequence
<1>3. CASE p \in hears
  <2>1. Frame("resp", p, None, FALSE, None) \in FrameType
        /\ Frame("resp", p, None, FALSE, None).p = p
    BY <1>1 DEF Frame, FrameType
  <2>2. stack' = <<Frame("resp", p, None, FALSE, None)>> \o base /\ UNCHANGED <<st, timer>>
    BY <1>3 DEF Deliver, Answer
  <2>3. Submitted(stack')
    BY <1>1, <2>1, <2>2, PushAvoids DEF Submitted
  <2>4. QED
    BY <1>2, <2>2, <2>3 DEF New
<1>4. CASE p \notin hears
  <2>1. Free(p) /\ stack' = base
    BY <1>4 DEF Deliver, Answer
  <2>2. QED
    BY <1>1, <1>2, <2>1, FreeNew
<1>5. QED
  BY <1>3, <1>4

\* Handing the next pending of a queue to the modem.
LEMMA SendKeeps ==
  ASSUME CoreInv, NEW q \in Seq(Pending), NEW ids \in [Pending -> Nat],
         NEW renew \in BOOLEAN, NEW N,
         Shaped(q, Band, ids), InOrder(q, Band, sent),
         N \subseteq New, \A i \in 1..Len(q) : q[i] \notin N,
         HalIdleSend(q, renew)
  PROVE  /\ InOrder(q, Band, sent')
         /\ N \cap sent' = {}
         /\ \A i \in 1..Len(wire') : wire'[i] \notin N
         /\ \A i \in 1..Len(stack') : stack'[i].p \notin N
<1>1. TypeOK /\ wire \in Seq(Pending) /\ stack \in Seq(FrameType)
  BY DEF CoreInv, TypeOK
<1>2. /\ N \cap sent = {}
      /\ \A i \in 1..Len(wire) : wire[i] \notin N
      /\ \A i \in 1..Len(stack) : stack[i].p \notin N
  BY DEF CoreInv, Bookkeeping
<1>3. CASE UNCHANGED <<sent, atreq, wire, stack>>
  BY <1>2, <1>3
<1>4. ASSUME NEW k \in 1..Len(q), NEW ret \in Outcomes,
             NextIndex(q, Imm, sent, k),
             sent' = sent \cup {q[k]},
             wire' = IF ret = "FAIL" THEN wire ELSE Append(wire, q[k]),
             Push(Frame("send", q[k], ret, renew, None))
      PROVE  /\ InOrder(q, Band, sent')
             /\ N \cap sent' = {}
             /\ \A i \in 1..Len(wire') : wire'[i] \notin N
             /\ \A i \in 1..Len(stack') : stack'[i].p \notin N
  <2>1. q[k] \in Pending /\ q[k] \notin N
    BY ElementOfSeq
  <2>2. InOrder(q, Band, sent')
    BY <1>1, <1>4, BandType, InOrderSend
  <2>3. N \cap sent' = {}
    BY <1>2, <1>4, <2>1
  <2>4. \A i \in 1..Len(wire') : wire'[i] \notin N
    BY <1>1, <1>2, <1>4, <2>1, AppendProperties, LenProperties
  <2>5. \A i \in 1..Len(stack') : stack'[i].p \notin N
    <3> DEFINE f == Frame("send", q[k], ret, renew, None)
    <3>1. f \in FrameType /\ f.p = q[k]
      BY <2>1, ConstantsAssumption DEF Frame, FrameType
    <3>2. stack' = <<f>> \o stack
      BY <1>4 DEF Push
    <3>3. Avoids(stack, N)
      BY <1>2 DEF Avoids
    <3>4. Avoids(stack', N)
      BY <1>1, <2>1, <3>1, <3>2, <3>3, PushAvoids
    <3>5. QED
      BY <3>4 DEF Avoids
  <2>6. QED
    BY <2>2, <2>3, <2>4, <2>5
<1>5. QED
  BY <1>3, <1>4 DEF HalIdleSend

\* The core invariant holds at the start.
LEMMA InitCore == Init => CoreInv
<1>1. ASSUME Init PROVE Bookkeeping /\ QueueShape /\ OrdinaryInOrder
  <2>1. queue = <<>> /\ wire = <<>> /\ stack = <<>> /\ Len(<<>>) = 0
    BY <1>1 DEF Init
  <2>2. New = Pending /\ sent = {} /\ timer = {}
    BY <1>1 DEF Init, New
  <2>3. QED
    BY <2>1, <2>2 DEF Bookkeeping, QueueShape, OrdinaryInOrder, Shaped, InOrder
<1>2. QED
  BY <1>1, InitType DEF CoreInv

\* A pending that is submitted enters the queue behind its betters.
LEMMA SendRequestCore ==
  ASSUME CoreInv, NEW p \in Pending, SendRequest(p)
  PROVE  CoreInv'
<1> DEFINE N == New \ {p}
<1>1. TypeOK /\ TypeOK' /\ queue \in Seq(Pending) /\ id' \in [Pending -> Nat]
  BY SendRequestType DEF CoreInv, TypeOK
<1>2. /\ p \in New /\ New' = N
      /\ id' = [id EXCEPT ![p] = nextId] /\ nextId' = nextId + 1
      /\ nextId \in Nat /\ id \in [Pending -> Nat]
      /\ req' = req /\ timer' = timer
      /\ New \cap timer = {}
  BY DEF SendRequest, CoreInv, TypeOK, New, Bookkeeping
<1>3. /\ \A j \in 1..Len(queue) : queue[j] \in Pending \ New
      /\ \A j \in 1..Len(queue) : id'[queue[j]] = id[queue[j]] /\ id'[queue[j]] < id'[p]
  <2>1. \A j \in 1..Len(queue) : queue[j] \in Pending \ New
    BY <1>1, ElementOfSeq DEF CoreInv, Bookkeeping
  <2>2. \A x \in Pending \ New : id[x] < nextId
    BY DEF CoreInv, Bookkeeping
  <2>3. QED
    BY <1>2, <2>1, <2>2
<1>4. PICK i \in 1..(Len(queue) + 1) :
        PushIndex(queue, req[p].prio, Imm, i) /\ queue' = InsertAt(queue, i, p)
  BY DEF SendRequest
<1>5. Shaped(queue', Band, id')
  <2>1. Shaped(queue, Band, id')
    <3>1. Shaped(queue, Band, id)
      BY DEF CoreInv, QueueShape
    <3>2. ASSUME NEW j \in 1..Len(queue), NEW m \in 1..(j - 1)
          PROVE  id'[queue[j]] = id[queue[j]] /\ id'[queue[m]] = id[queue[m]]
      BY <1>1, <1>3, LenProperties
    <3>3. QED
      BY <3>1, <3>2 DEF Shaped
  <2>2. QED
    BY <1>1, <1>3, <1>4, <2>1, BandType, ShapedInsert
<1>6. InOrder(queue', Band, sent)
  <2>1. p \notin sent /\ InOrder(queue, Band, sent)
    BY <1>2 DEF CoreInv, Bookkeeping, OrdinaryInOrder
  <2>2. QED
    BY <1>1, <1>4, <2>1, BandType, InOrderInsert
<1>7. /\ queue' \in Seq(Pending)
      /\ \A j \in 1..Len(queue') : queue'[j] \notin N
  <2>1. queue' \in Seq(Pending)
    BY <1>1, <1>4, InsertAtProperties
  <2>2. \A j \in 1..Len(queue') :
          queue'[j] = p \/ \E m \in 1..Len(queue) : queue'[j] = queue[m]
    BY <1>1, <1>4, InsertAtElements
  <2>3. QED
    BY <1>3, <2>1, <2>2
<1>8. /\ InOrder(queue', Band, sent')
      /\ N \cap sent' = {}
      /\ \A j \in 1..Len(wire') : wire'[j] \notin N
      /\ \A j \in 1..Len(stack') : stack'[j].p \notin N
  <2>1. CASE req[p].prio = "IMMEDIATELY"
    <3>1. HalIdleSend(queue', FALSE)
      BY <2>1 DEF SendRequest
    <3>2. N \subseteq New
      OBVIOUS
    <3> HIDE DEF N
    <3>3. QED
      BY <1>1, <1>5, <1>6, <1>7, <3>1, <3>2, SendKeeps
  <2>2. CASE req[p].prio # "IMMEDIATELY"
    <3>1. UNCHANGED <<sent, wire, stack>>
      BY <2>2 DEF SendRequest
    <3>2. QED
      BY <1>6, <3>1 DEF CoreInv, Bookkeeping
  <2>3. QED
    BY <2>1, <2>2
<1>9. Bookkeeping'
  <2>1. /\ \A x \in Pending \ New : id[x] < nextId
        /\ \A x, y \in Pending \ New : x # y => id[x] # id[y]
    BY DEF CoreInv, Bookkeeping
  <2>2. \A x \in Pending \ N : x = p \/ (x \in Pending \ New /\ x # p)
    BY <1>2
  <2>3. \A x \in Pending \ N : id'[x] < nextId'
    BY <1>2, <2>1, <2>2
  <2>4. \A x, y \in Pending \ N : x # y => id'[x] # id'[y]
    BY <1>2, <2>1, <2>2
  <2>5. QED
    BY <1>2, <1>7, <1>8, <2>3, <2>4 DEF Bookkeeping
<1>10. QueueShape' /\ OrdinaryInOrder'
  <2>1. Band' = Band
    BY <1>2 DEF Band
  <2>2. QED
    BY <1>5, <1>8, <2>1 DEF QueueShape, OrdinaryInOrder
<1>11. QED
  BY <1>1, <1>9, <1>10 DEF CoreInv

\* Sending what is already queued.
LEMMA SendCore ==
  ASSUME CoreInv, IdleSend \/ SendForce
  PROVE  CoreInv'
<1>1. TypeOK /\ TypeOK' /\ queue \in Seq(Pending) /\ id \in [Pending -> Nat]
  BY TypeStep DEF Next, CoreInv, TypeOK
<1>2. PICK renew \in BOOLEAN : HalIdleSend(queue, renew)
  BY DEF IdleSend, SendForce
<1>3. UNCHANGED <<req, queue, nextId, st, id, timer>>
  BY DEF IdleSend, SendForce
<1>4. /\ Shaped(queue, Band, id) /\ InOrder(queue, Band, sent)
      /\ \A i \in 1..Len(queue) : queue[i] \notin New
  BY DEF CoreInv, QueueShape, OrdinaryInOrder, Bookkeeping
<1>5. /\ InOrder(queue, Band, sent')
      /\ New \cap sent' = {}
      /\ \A i \in 1..Len(wire') : wire'[i] \notin New
      /\ \A i \in 1..Len(stack') : stack'[i].p \notin New
  BY <1>1, <1>2, <1>4, SendKeeps
<1>6. Band' = Band /\ New' = New
  BY <1>3 DEF Band, New
<1>7. Bookkeeping'
  BY <1>3, <1>5, <1>6 DEF CoreInv, Bookkeeping
<1>8. QueueShape' /\ OrdinaryInOrder'
  BY <1>3, <1>4, <1>5, <1>6 DEF QueueShape, OrdinaryInOrder
<1>9. QED
  BY <1>1, <1>7, <1>8 DEF CoreInv

\* The second half of a send, and the ends of the other callbacks.
LEMMA SendDoneCore ==
  ASSUME CoreInv, NEW ret, SendDone(ret)
  PROVE  /\ Head(stack).p \in Pending \ New
         /\ Submitted(stack')
         /\ UNCHANGED <<req, nextId, id, sent, wire>>
<1>1. TypeOK /\ Submitted(stack) /\ Control = "send" /\ stack' = Tail(stack)
  BY DEF CoreInv, Bookkeeping, Submitted, Avoids, SendDone
<1>2. QED
  BY <1>1, TopType, TopSubmitted DEF SendDone

\* The returns of the plugin callbacks keep the core invariant.
LEMMA ReturnCore ==
  ASSUME CoreInv, Return
  PROVE  CoreInv'
<1> DEFINE p == Head(stack).p
<1>1. /\ TypeOK /\ TypeOK' /\ queue \in Seq(Pending) /\ Submitted(stack)
      /\ \A i \in 1..Len(wire) : wire[i] \notin New
      /\ SubsequenceOf(queue, queue)
      /\ New \cap timer = {}
  BY ReturnType, SameSubsequence DEF CoreInv, TypeOK, Bookkeeping, Submitted, Avoids
<1>2. CASE ReturnSendWaiting
  <2>1. /\ SendDone("SUCCESS") /\ UNCHANGED <<queue, st>>
        /\ timer' \subseteq timer \cup {p}
    BY <1>2 DEF ReturnSendWaiting
  <2>2. QED
    BY <1>1, <2>1, SendDoneCore, Shrink DEF New
<1>3. CASE ReturnSendAutoFree
  <2>1. PICK ret \in {"SUCCESS", "FAIL"} : SendDone(ret)
    BY <1>3 DEF ReturnSendAutoFree
  <2>2. PICK i \in 1..Len(queue) : queue' = RemoveAt(queue, i)
    BY <1>3 DEF ReturnSendAutoFree
  <2>3. SubsequenceOf(queue', queue)
    BY <1>1, <2>2, RemoveAtSubsequence
  <2>4. Free(p) /\ p \notin New
    BY <1>3, <2>1, SendDoneCore DEF ReturnSendAutoFree
  <2>5. QED
    BY <1>1, <2>1, <2>3, <2>4, SendDoneCore, FreeNew, Shrink
<1>4. CASE ReturnSendFail
  <2>1. SendDone("FAIL")
    BY <1>4 DEF ReturnSendFail
  <2>2. CASE queue = <<>>
    BY <1>1, <1>4, <2>1, <2>2, SendDoneCore, Shrink DEF ReturnSendFail, New
  <2>3. CASE queue # <<>>
    <3>1. queue' = Tail(queue) /\ Free(Head(queue))
      BY <1>4, <2>3 DEF ReturnSendFail
    <3>2. SubsequenceOf(queue', queue)
      BY <1>1, <2>3, <3>1, TailSubsequence
    <3>3. Head(queue) \notin New
      <4>1. 1 \in 1..Len(queue) /\ Head(queue) = queue[1]
        BY <1>1, <2>3, EmptySeq
      <4>2. QED
        BY <4>1 DEF CoreInv, Bookkeeping
    <3>4. QED
      BY <1>1, <2>1, <3>1, <3>2, <3>3, SendDoneCore, FreeNew, Shrink
  <2>4. QED
    BY <2>2, <2>3
<1>5. CASE ReturnSendHookStop
  <2>1. SendDone("HOOK_STOP") /\ UNCHANGED <<queue, st, timer>>
    BY <1>5 DEF ReturnSendHookStop
  <2>2. QED
    BY <1>1, <2>1, SendDoneCore, Shrink DEF New
<1>6. CASE ReturnResponse
  <2>1. /\ Control = "resp" /\ Free(p) /\ stack' = Tail(stack)
        /\ UNCHANGED <<req, queue, nextId, id, sent, wire>>
    BY <1>6 DEF ReturnResponse
  <2>2. p \notin New /\ Submitted(stack')
    BY <1>1, <2>1, TopType, TopSubmitted
  <2>3. QED
    BY <1>1, <2>1, <2>2, FreeNew, Shrink
<1>7. CASE ReturnTimeout
  <2>1. /\ Tail(stack) \in Seq(FrameType) /\ Submitted(Tail(stack))
        /\ UNCHANGED <<req, nextId, id, sent, wire>>
    BY <1>1, <1>7, TopType, TopSubmitted DEF ReturnTimeout
  <2>2. ASSUME NEW i \in 1..Len(queue),
               Deliver(i, Cancelled, listening', Tail(stack))
        PROVE  CoreInv'
    BY <1>1, <2>1, <2>2, DeliverShrinks, Shrink
  <2>3. CASE stack' = Tail(stack) /\ UNCHANGED <<queue, st, timer>>
    BY <1>1, <2>1, <2>3, Shrink DEF New
  <2>4. QED
    BY <1>7, <2>2, <2>3 DEF ReturnTimeout
<1>8. QED
  BY <1>2, <1>3, <1>4, <1>5, <1>6, <1>7 DEF Return

\* The answers that are left on the wire.
LEMMA WireCore ==
  ASSUME CoreInv, NEW i \in 1..Len(wire),
         wire' = RemoveAt(wire, i) \/ wire' = wire
  PROVE  \A j \in 1..Len(wire') : wire'[j] \notin New
<1>1. wire \in Seq(Pending) /\ \A j \in 1..Len(wire) : wire[j] \notin New
  BY DEF CoreInv, TypeOK, Bookkeeping
<1>2. SubsequenceOf(wire', wire)
  BY <1>1, RemoveAtSubsequence, SameSubsequence
<1>3. QED
  BY <1>1, <1>2 DEF SubsequenceOf

\* Answers, timeouts and cancellations keep the core invariant.
LEMMA OtherCore ==
  ASSUME CoreInv,
         \/ RespondCustom \/ RespondAt \/ CancelStep \/ LoseAnswer
         \/ \E p \in Pending : Timeout(p)
         \/ \E c \in Commands : Cancel(c)
  PROVE  CoreInv'
<1>1. /\ TypeOK /\ TypeOK' /\ queue \in Seq(Pending) /\ stack \in Seq(FrameType)
      /\ Submitted(stack)
      /\ \A i \in 1..Len(wire) : wire[i] \notin New
      /\ SubsequenceOf(queue, queue)
      /\ New \cap timer = {}
  BY TypeStep, SameSubsequence DEF Next, CoreInv, TypeOK, Bookkeeping, Submitted, Avoids
<1>2. CASE RespondCustom
  <2>1. PICK i \in 1..Len(wire) :
          /\ Receive(i)
          /\ \/ \E j \in 1..Len(queue) : Deliver(j, wire[i], listening, stack)
             \/ UNCHANGED <<queue, st, timer, idle, stack, got>>
    BY <1>2 DEF RespondCustom
  <2>2. /\ \A j \in 1..Len(wire') : wire'[j] \notin New
        /\ UNCHANGED <<req, nextId, id, sent>>
    BY <1>2, <2>1, WireCore DEF RespondCustom, Receive
  <2>3. ASSUME NEW j \in 1..Len(queue), Deliver(j, wire[i], listening, stack)
        PROVE  CoreInv'
    BY <1>1, <2>2, <2>3, DeliverShrinks, Shrink
  <2>4. CASE UNCHANGED <<queue, st, timer, stack>>
    BY <1>1, <2>2, <2>4, Shrink DEF New
  <2>5. QED
    BY <2>1, <2>3, <2>4
<1>3. CASE RespondAt
  <2>1. 1 \in 1..Len(wire) /\ Receive(1) /\ UNCHANGED <<req, nextId, id, sent>>
    BY <1>1, <1>3, EmptySeq DEF RespondAt, TypeOK
  <2>2. \A j \in 1..Len(wire') : wire'[j] \notin New
    BY <2>1, WireCore DEF Receive
  <2>3. CASE atreq # None /\ queue # <<>>
    <3>1. 1 \in 1..Len(queue) /\ Deliver(1, wire[1], listening, stack)
      BY <1>1, <1>3, <2>3, EmptySeq DEF RespondAt
    <3>2. QED
      BY <1>1, <2>1, <2>2, <3>1, DeliverShrinks, Shrink
  <2>4. CASE ~(atreq # None /\ queue # <<>>)
    <3>1. UNCHANGED <<queue, st, timer, stack>>
      BY <1>3, <2>4 DEF RespondAt
    <3>2. QED
      BY <1>1, <2>1, <2>2, <3>1, Shrink DEF New
  <2>5. QED
    BY <2>3, <2>4
<1>4. CASE CancelStep
  <2>1. /\ Tail(stack) \in Seq(FrameType) /\ Submitted(Tail(stack))
        /\ UNCHANGED <<req, nextId, id, sent, wire>>
    BY <1>1, <1>4, TopType, TopSubmitted DEF CancelStep
  <2>2. ASSUME NEW j \in 1..Len(queue), Deliver(j, Cancelled, listening, stack)
        PROVE  CoreInv'
    BY <1>1, <2>1, <2>2, DeliverShrinks, Shrink
  <2>3. CASE /\ stack' = Tail(stack) \/ stack' = stack
             /\ UNCHANGED <<queue, st, timer>>
    BY <1>1, <2>1, <2>3, Shrink DEF New
  <2>4. QED
    BY <1>4, <2>2, <2>3 DEF CancelStep
<1>5. CASE LoseAnswer
  <2>1. PICK i \in 1..Len(wire) : wire' = RemoveAt(wire, i)
    BY <1>5 DEF LoseAnswer
  <2>2. UNCHANGED <<req, queue, nextId, st, id, sent, timer, stack>>
    BY <1>5 DEF LoseAnswer
  <2>3. QED
    BY <1>1, <2>1, <2>2, WireCore, Shrink DEF New
<1>6. ASSUME NEW p \in Pending, Timeout(p) PROVE CoreInv'
  <2> DEFINE f == Frame("timeout", p, None, FALSE, None)
  <2>1. f \in FrameType /\ f.p = p
    BY DEF Frame, FrameType
  <2>2. /\ stack' = <<f>> \o stack /\ timer' \subseteq timer
        /\ UNCHANGED <<req, queue, nextId, st, id, sent, wire>>
    BY <1>6 DEF Timeout, Push
  <2> HIDE DEF f
  <2>3. CASE p \notin New
    <3>1. Submitted(stack')
      BY <1>1, <2>1, <2>2, <2>3, PushAvoids DEF Submitted
    <3>2. QED
      BY <1>1, <2>2, <3>1, Shrink DEF New
  <2>4. p \notin New
    BY <1>6 DEF Timeout, CoreInv, Bookkeeping
  <2>5. QED
    BY <2>3, <2>4
<1>7. ASSUME NEW c \in Commands, Cancel(c) PROVE CoreInv'
  <2> DEFINE f == Frame("cancel", None, None, FALSE, c)
  <2>1. f \in FrameType /\ f.p = None
    BY DEF Frame, FrameType
  <2>2. /\ stack' = <<f>> \o stack
        /\ UNCHANGED <<req, queue, nextId, st, id, sent, timer, wire>>
    BY <1>7 DEF Cancel, Push
  <2> HIDE DEF f
  <2>3. None \notin New
    BY ConstantsAssumption DEF New
  <2>4. Submitted(stack')
    BY <1>1, <2>1, <2>2, <2>3, PushAvoids DEF Submitted
  <2>5. QED
    BY <1>1, <2>2, <2>4, Shrink DEF New
<1>8. QED
  BY <1>2, <1>3, <1>4, <1>5, <1>6, <1>7

\* Every step keeps the core invariant.
LEMMA CoreStep ==
  ASSUME CoreInv, [Next]_vars
  PROVE  CoreInv'
<1>1. CASE UNCHANGED vars
  <2>1. TypeOK' /\ Band' = Band /\ New' = New
    BY <1>1, TypeStep DEF CoreInv, Band, New, vars
  <2>2. QED
    BY <1>1, <2>1 DEF vars, CoreInv, Bookkeeping, QueueShape, OrdinaryInOrder
<1>2. QED
  BY <1>1, SendRequestCore, SendCore, ReturnCore, OtherCore DEF Next, Return

\* The bookkeeping, the bands of the queue and the order of the sends.
THEOREM CoreCorrect == Spec => []CoreInv
BY InitCore, CoreStep, PTL DEF Spec

\* DEFAULT and LOW requests are sent one at a time and in order, in either
\* mode, however sends fail and whatever HIGH and IMMEDIATELY requests go
\* in between.
THEOREM OrdinaryOrder == Spec => []OrdinaryInOrder
<1>1. CoreInv => OrdinaryInOrder
  BY DEF CoreInv
<1>2. QED
  BY <1>1, CoreCorrect, PTL

\* The queue keeps its three bands and holds no pending twice.
THEOREM QueueShapeHolds == Spec => []QueueShape
<1>1. CoreInv => QueueShape
  BY DEF CoreInv
<1>2. QED
  BY <1>1, CoreCorrect, PTL

-----------------------------------------------------------------------------
(* Answers: who gets them, and how often *)

\* The pending p is queued.
Queued(p) == \E i \in 1..Len(queue) : queue[i] = p

\* A step calls the on_response of at most one pending, which was queued and
\* listening, with the answer a.
Calls(p, a, hears) ==
  /\ Queued(p) /\ p \in hears
  /\ got' = [got EXCEPT ![p] = Append(@, a)]

\* A delivery takes its pending out of the queue and answers no other.
LEMMA DeliverAnswers ==
  ASSUME AnswerInv, NEW i \in 1..Len(queue), NEW a, NEW hears,
         NEW base \in Seq(FrameType), Submitted(base),
         Deliver(i, a, hears, base)
  PROVE  /\ Unanswered'
         /\ got' = got \/ Calls(queue[i], a, hears)
<1> DEFINE p == queue[i]
<1>1. /\ CoreInv /\ TypeOK /\ queue \in Seq(Pending) /\ Len(queue) \in Nat
      /\ p \in Pending /\ p \notin New
      /\ got \in [Pending -> Seq(Pending \cup {Cancelled})]
      /\ id \in [Pending -> Nat]
  BY ElementOfSeq, LenProperties DEF AnswerInv, CoreInv, Bookkeeping, TypeOK
<1>2. New' = New
  BY <1>1, DeliverShrinks
<1>3. /\ queue' = RemoveAt(queue, i)
      /\ \/ got' = got
         \/ p \in hears /\ got' = [got EXCEPT ![p] = Append(@, a)]
  BY DEF Deliver, Answer
<1>4. ASSUME NEW j \in 1..Len(queue')
      PROVE  \E m \in 1..Len(queue) : m # i /\ queue'[j] = queue[m]
  <2>1. Removed(queue', queue, i)
    BY <1>1, <1>3, RemoveAtRemoved
  <2>2. CASE j < i
    <3>1. j \in 1..Len(queue) /\ j # i /\ queue'[j] = queue[j]
      BY <1>1, <2>1, <2>2 DEF Removed
    <3>2. QED
      BY <3>1
  <2>3. CASE ~(j < i)
    <3>1. j + 1 \in 1..Len(queue) /\ j + 1 # i /\ queue'[j] = queue[j + 1]
      BY <1>1, <2>1, <2>3 DEF Removed
    <3>2. QED
      BY <3>1
  <2>4. QED
    BY <2>2, <2>3
<1>5. ASSUME NEW m \in 1..Len(queue), m # i
      PROVE  queue[m] \in Pending /\ queue[m] # p
  <2>1. Shaped(queue, Band, id)
    BY <1>1 DEF CoreInv, QueueShape
  <2>2. queue[m] # queue[i]
    BY <1>1, <1>5, <2>1, BandType, ShapedInjective
  <2>3. QED
    BY <1>1, <2>2, ElementOfSeq
<1>6. \A j \in 1..Len(queue') : got'[queue'[j]] = <<>>
  <2>1. SUFFICES ASSUME NEW j \in 1..Len(queue')
                 PROVE  got'[queue'[j]] = <<>>
    OBVIOUS
  <2>2. PICK m \in 1..Len(queue) : m # i /\ queue'[j] = queue[m]
    BY <1>4
  <2>3. got[queue[m]] = <<>>
    BY DEF AnswerInv, Unanswered
  <2>4. QED
    BY <1>1, <1>3, <1>5, <2>2, <2>3
<1>7. \A x \in New : got'[x] = <<>>
  BY <1>1, <1>3 DEF AnswerInv, Unanswered, New
<1>8. QED
  BY <1>2, <1>3, <1>6, <1>7 DEF Unanswered, Calls, Queued

\* A step that answers nobody and at most takes pendings out of the queue.
LEMMA QuietUnanswered ==
  ASSUME AnswerInv, got' = got, New' = New, SubsequenceOf(queue', queue)
  PROVE  Unanswered'
BY DEF AnswerInv, Unanswered, SubsequenceOf

\* What any step does to the answers: nothing, or one on_response call of a
\* queued pending, with an empty answer or, in CUSTOM mode, with its own.
Answers ==
  \/ got' = got
  \/ \E p \in Pending, a \in Pending \cup {Cancelled} :
       /\ Calls(p, a, listening')
       /\ Mode = "CUSTOM" => a \in {p, Cancelled}

\* A step that only removes pendings it did not answer.
LEMMA QuietStep ==
  ASSUME AnswerInv, got' = got, New' = New, SubsequenceOf(queue', queue)
  PROVE  Unanswered' /\ Answers
BY QuietUnanswered DEF Answers

\* Submitting a pending answers none.
LEMMA SendRequestAnswers ==
  ASSUME AnswerInv, NEW p \in Pending, SendRequest(p)
  PROVE  Unanswered' /\ Answers
<1>1. /\ queue \in Seq(Pending) /\ got' = got /\ p \in New /\ New' = New \ {p}
  BY DEF SendRequest, AnswerInv, CoreInv, TypeOK, New
<1>2. PICK i \in 1..(Len(queue) + 1) : queue' = InsertAt(queue, i, p)
  BY DEF SendRequest
<1>3. \A j \in 1..Len(queue') :
        queue'[j] = p \/ \E m \in 1..Len(queue) : queue'[j] = queue[m]
  BY <1>1, <1>2, InsertAtElements
<1>4. QED
  BY <1>1, <1>3 DEF AnswerInv, Unanswered, Answers

\* In CUSTOM mode the modem's id finds the request it was copied from.
LEMMA RespondCustomAnswers ==
  ASSUME AnswerInv, RespondCustom
  PROVE  Unanswered' /\ Answers
<1>1. /\ CoreInv /\ TypeOK /\ queue \in Seq(Pending) /\ wire \in Seq(Pending)
      /\ stack \in Seq(FrameType) /\ Submitted(stack) /\ listening' = listening
  BY DEF AnswerInv, CoreInv, TypeOK, Bookkeeping, Submitted, Avoids, RespondCustom
<1>2. PICK i \in 1..Len(wire) :
        \/ \E j \in 1..Len(queue) :
             /\ FirstIndex(queue, WithId(id[wire[i]]), j)
             /\ Deliver(j, wire[i], listening, stack)
        \/ UNCHANGED <<queue, st, got>>
  BY DEF RespondCustom
<1>3. wire[i] \in Pending \ New
  BY <1>1, ElementOfSeq DEF CoreInv, Bookkeeping
<1>4. ASSUME NEW j \in 1..Len(queue),
             FirstIndex(queue, WithId(id[wire[i]]), j),
             Deliver(j, wire[i], listening, stack)
      PROVE  Unanswered' /\ Answers
  <2>1. queue[j] \in Pending \ New
    BY <1>1, ElementOfSeq DEF CoreInv, Bookkeeping
  <2>2. id[queue[j]] = id[wire[i]]
    BY <1>4 DEF FirstIndex, WithId
  <2>3. queue[j] = wire[i]
    BY <1>1, <1>3, <2>1, <2>2 DEF CoreInv, Bookkeeping
  <2>4. Unanswered' /\ (got' = got \/ Calls(queue[j], wire[i], listening))
    BY <1>1, <1>4, DeliverAnswers
  <2>5. QED
    BY <1>1, <1>3, <2>3, <2>4 DEF Answers
<1>5. CASE UNCHANGED <<queue, st, got>>
  BY <1>1, <1>5, SameSubsequence, QuietStep DEF New
<1>6. QED
  BY <1>2, <1>4, <1>5

\* An empty answer, of a timeout or of a cancellation.
LEMMA CancelledAnswers ==
  ASSUME AnswerInv, NEW j \in 1..Len(queue), NEW base \in Seq(FrameType),
         Submitted(base), Deliver(j, Cancelled, listening', base)
  PROVE  Unanswered' /\ Answers
<1>1. queue[j] \in Pending
  BY ElementOfSeq DEF AnswerInv, CoreInv, TypeOK
<1>2. Unanswered' /\ (got' = got \/ Calls(queue[j], Cancelled, listening'))
  BY DeliverAnswers
<1>3. QED
  BY <1>1, <1>2 DEF Answers

\* The steps that may answer with no data, or in AT mode.
LEMMA OtherAnswers ==
  ASSUME AnswerInv, ReturnTimeout \/ CancelStep \/ RespondAt
  PROVE  Unanswered' /\ Answers
<1>1. /\ CoreInv /\ TypeOK /\ queue \in Seq(Pending) /\ wire \in Seq(Pending)
      /\ stack \in Seq(FrameType) /\ Submitted(stack)
      /\ SubsequenceOf(queue, queue)
  BY SameSubsequence
     DEF AnswerInv, CoreInv, TypeOK, Bookkeeping, Submitted, Avoids
<1>2. CASE ReturnTimeout
  <2>1. Tail(stack) \in Seq(FrameType) /\ Submitted(Tail(stack))
    BY <1>1, <1>2, TopType, TopSubmitted DEF ReturnTimeout
  <2>2. ASSUME NEW j \in 1..Len(queue),
               Deliver(j, Cancelled, listening', Tail(stack))
        PROVE  Unanswered' /\ Answers
    BY <2>1, <2>2, CancelledAnswers
  <2>3. CASE UNCHANGED <<queue, st, got>>
    BY <1>1, <2>3, QuietStep DEF New
  <2>4. QED
    BY <1>2, <2>2, <2>3 DEF ReturnTimeout
<1>3. CASE CancelStep
  <2>1. listening' = listening
    BY <1>3 DEF CancelStep
  <2>2. ASSUME NEW j \in 1..Len(queue), Deliver(j, Cancelled, listening, stack)
        PROVE  Unanswered' /\ Answers
    BY <1>1, <2>1, <2>2, CancelledAnswers
  <2>3. CASE UNCHANGED <<queue, st, got>>
    BY <1>1, <2>3, QuietStep DEF New
  <2>4. QED
    BY <1>3, <2>2, <2>3 DEF CancelStep
<1>4. CASE RespondAt
  <2>1. Mode = "AT" /\ wire # <<>> /\ listening' = listening
    BY <1>4 DEF RespondAt
  <2>2. wire[1] \in Pending
    BY <1>1, <2>1, EmptySeq, ElementOfSeq
  <2>3. CASE atreq # None /\ queue # <<>>
    <3>1. 1 \in 1..Len(queue) /\ Deliver(1, wire[1], listening, stack)
      BY <1>1, <1>4, <2>3, EmptySeq DEF RespondAt
    <3>2. Unanswered' /\ (got' = got \/ Calls(queue[1], wire[1], listening))
      BY <1>1, <3>1, DeliverAnswers
    <3>3. queue[1] \in Pending
      BY <1>1, <3>1, ElementOfSeq
    <3>4. QED
      BY <2>1, <2>2, <3>2, <3>3 DEF Answers
  <2>4. CASE ~(atreq # None /\ queue # <<>>)
    <3>1. UNCHANGED <<queue, st, got>>
      BY <1>4, <2>4 DEF RespondAt
    <3>2. QED
      BY <1>1, <3>1, QuietStep DEF New
  <2>5. QED
    BY <2>3, <2>4
<1>5. QED
  BY <1>2, <1>3, <1>4

\* Every other step answers no pending.
LEMMA QuietAnswers ==
  ASSUME AnswerInv,
         \/ IdleSend \/ SendForce \/ LoseAnswer \/ UNCHANGED vars
         \/ ReturnSendWaiting \/ ReturnSendAutoFree \/ ReturnSendFail
         \/ ReturnSendHookStop \/ ReturnResponse
         \/ \E p \in Pending : Timeout(p)
         \/ \E c \in Commands : Cancel(c)
  PROVE  Unanswered' /\ Answers
<1> DEFINE p == Head(stack).p
<1>1. /\ CoreInv /\ TypeOK /\ queue \in Seq(Pending) /\ Submitted(stack)
      /\ SubsequenceOf(queue, queue)
  BY SameSubsequence
     DEF AnswerInv, CoreInv, TypeOK, Bookkeeping, Submitted, Avoids
<1>2. CASE \/ IdleSend \/ SendForce \/ LoseAnswer \/ UNCHANGED vars
           \/ \E x \in Pending : Timeout(x)
           \/ \E c \in Commands : Cancel(c)
  <2>1. UNCHANGED <<queue, st, got>>
    BY <1>2 DEF IdleSend, SendForce, LoseAnswer, vars, Timeout, Cancel
  <2>2. QED
    BY <1>1, <2>1, QuietStep DEF New
<1>3. CASE ReturnSendWaiting \/ ReturnSendHookStop
  <2>1. UNCHANGED <<queue, st, got>>
    BY <1>3 DEF ReturnSendWaiting, ReturnSendHookStop, SendDone
  <2>2. QED
    BY <1>1, <2>1, QuietStep DEF New
<1>4. CASE ReturnSendAutoFree
  <2>1. PICK ret \in {"SUCCESS", "FAIL"} : SendDone(ret)
    BY <1>4 DEF ReturnSendAutoFree
  <2>2. PICK i \in 1..Len(queue) : queue' = RemoveAt(queue, i)
    BY <1>4 DEF ReturnSendAutoFree
  <2>3. SubsequenceOf(queue', queue)
    BY <1>1, <2>2, RemoveAtSubsequence
  <2>4. Free(p) /\ p \notin New /\ got' = got
    BY <1>1, <1>4, <2>1, SendDoneCore DEF ReturnSendAutoFree, SendDone
  <2>5. QED
    BY <1>1, <2>3, <2>4, FreeNew, QuietStep
<1>5. CASE ReturnSendFail
  <2>1. got' = got
    BY <1>5 DEF ReturnSendFail, SendDone
  <2>2. CASE queue = <<>>
    <3>1. UNCHANGED <<queue, st>>
      BY <1>5, <2>2 DEF ReturnSendFail
    <3>2. QED
      BY <1>1, <2>1, <3>1, QuietStep DEF New
  <2>3. CASE queue # <<>>
    <3>1. queue' = Tail(queue) /\ Free(Head(queue))
      BY <1>5, <2>3 DEF ReturnSendFail
    <3>2. SubsequenceOf(queue', queue)
      BY <1>1, <2>3, <3>1, TailSubsequence
    <3>3. 1 \in 1..Len(queue) /\ Head(queue) = queue[1]
      BY <1>1, <2>3, EmptySeq
    <3>4. Head(queue) \notin New
      BY <1>1, <3>3 DEF CoreInv, Bookkeeping
    <3>5. QED
      BY <1>1, <2>1, <3>1, <3>2, <3>4, FreeNew, QuietStep
  <2>4. QED
    BY <2>2, <2>3
<1>6. CASE ReturnResponse
  <2>1. Control = "resp" /\ Free(p) /\ UNCHANGED <<queue, got>>
    BY <1>6 DEF ReturnResponse
  <2>2. p \notin New
    BY <1>1, <2>1, TopType, TopSubmitted
  <2>3. QED
    BY <1>1, <2>1, <2>2, FreeNew, QuietStep
<1>7. QED
  BY <1>2, <1>3, <1>4, <1>5, <1>6

\* Every step keeps the invariant and answers at most one pending.
LEMMA AnswerStep ==
  ASSUME AnswerInv, [Next]_vars
  PROVE  AnswerInv' /\ Answers
<1>1. CoreInv'
  BY CoreStep DEF AnswerInv
<1>2. Unanswered' /\ Answers
  BY SendRequestAnswers, RespondCustomAnswers, OtherAnswers, QuietAnswers DEF Next
<1>3. QED
  BY <1>1, <1>2 DEF AnswerInv

\* Nobody is answered at the start.
LEMMA InitAnswer == Init => AnswerInv
<1>1. ASSUME Init PROVE Unanswered
  <2>1. queue = <<>> /\ got = [p \in Pending |-> <<>>] /\ Len(<<>>) = 0
    BY <1>1 DEF Init
  <2>2. QED
    BY <2>1 DEF Unanswered, New
<1>2. QED
  BY <1>1, InitCore DEF AnswerInv

\* What a pending was answered with, before and after a call.
LEMMA CallEffect ==
  ASSUME AnswerInv, NEW p \in Pending, NEW a \in Pending \cup {Cancelled},
         Calls(p, a, listening')
  PROVE  /\ got[p] = <<>>
         /\ \A x \in Pending : got'[x] = IF x = p THEN <<a>> ELSE got[x]
<1>1. got \in [Pending -> Seq(Pending \cup {Cancelled})]
  BY DEF AnswerInv, CoreInv, TypeOK
<1>2. got[p] = <<>>
  BY DEF Calls, Queued, AnswerInv, Unanswered
<1>3. Append(got[p], a) = <<a>>
  BY <1>2
<1>4. QED
  BY <1>1, <1>2, <1>3 DEF Calls

\* A call with the pending's own answer, or an empty one, keeps the answers apart.
LEMMA OwnAnswer ==
  ASSUME AnswerInv, AnswerMatches, NEW p \in Pending,
         NEW a \in Pending \cup {Cancelled}, a \in {p, Cancelled},
         Calls(p, a, listening')
  PROVE  AnswerMatches'
<1>1. SUFFICES ASSUME NEW x \in Pending, NEW i \in 1..Len(got'[x])
               PROVE  got'[x][i] \in {x, Cancelled}
  BY DEF AnswerMatches
<1>2. CASE x = p
  <2>1. got'[x] = <<a>>
    BY <1>2, CallEffect
  <2>2. i = 1
    BY <2>1
  <2>3. QED
    BY <1>2, <2>1, <2>2
<1>3. CASE x # p
  <2>1. got'[x] = got[x]
    BY <1>3, CallEffect
  <2>2. QED
    BY <2>1 DEF AnswerMatches
<1>4. QED
  BY <1>2, <1>3

\* on_response is called at most once for a request, and never after its
\* on_timeout.
THEOREM AnsweredOnce == Spec => AnswerOnce
<1>1. ASSUME AnswerInv, [Next]_vars PROVE [NotAgain]_vars
  <2>1. Answers
    BY <1>1, AnswerStep
  <2>2. CASE got' = got
    BY <2>2 DEF NotAgain
  <2>3. ASSUME NEW p \in Pending, NEW a \in Pending \cup {Cancelled},
               Calls(p, a, listening')
        PROVE  NotAgain
    <3>1. got[p] = <<>> /\ p \in listening'
      BY <1>1, <2>3, CallEffect DEF Calls
    <3>2. QED
      BY <1>1, <2>3, <3>1, CallEffect DEF NotAgain
  <2>4. QED
    BY <2>1, <2>2, <2>3 DEF Answers
<1>2. QED
  BY <1>1, InitAnswer, AnswerStep, PTL DEF Spec, AnswerOnce

\* In CUSTOM mode no request is ever given the answer to another one, however
\* answers are delayed, reordered, repeated or lost.
THEOREM CustomAnswers ==
  ASSUME Mode = "CUSTOM"
  PROVE  Spec => []AnswerMatches
<1>1. Init => AnswerMatches
  BY DEF Init, AnswerMatches
<1>2. ASSUME AnswerInv, AnswerMatches, [Next]_vars PROVE AnswerMatches'
  <2>1. Answers
    BY <1>2, AnswerStep
  <2>2. CASE got' = got
    BY <1>2, <2>2 DEF AnswerMatches
  <2>3. ASSUME NEW p \in Pending, NEW a \in Pending \cup {Cancelled},
               Calls(p, a, listening'), a \in {p, Cancelled}
        PROVE  AnswerMatches'
    BY <1>2, <2>3, OwnAnswer
  <2>4. QED
    BY <2>1, <2>2, <2>3 DEF Answers
<1>3. QED
  BY <1>1, <1>2, InitAnswer, AnswerStep, PTL DEF Spec

-----------------------------------------------------------------------------
(* AT mode, with the discipline that lets an AT channel tell its answers     *)
(* apart: one request is out at a time, it gets its own answer, and the HAL  *)
(* implements SerialChannel.                                                 *)

\* No send that waits for its on_send callback has failed.
Delivered(frames) ==
  \A i \in 1..Len(frames) : frames[i].fn = "send" => frames[i].ret # "FAIL"

\* The inductive invariant.
SerialInv == AnswerInv /\ SingleFlight /\ AnswerMatches /\ Delivered(stack)

(* What a step does to the channel. *)

Quiet ==
  /\ UNCHANGED <<queue, atreq, sent>> /\ New' = New
  /\ wire' \in {wire, <<>>}

Submitting(p) ==
  /\ p \in New /\ New' = New \ {p}
  /\ queue' = Append(queue, p)
  /\ UNCHANGED <<atreq, sent, wire>>

Starting ==
  /\ atreq = None /\ queue # <<>>
  /\ atreq' = Head(queue) /\ sent' = sent \cup {Head(queue)} /\ wire' = <<Head(queue)>>
  /\ queue' = queue /\ New' = New

Finishing ==
  /\ atreq # None
  /\ atreq' = None /\ queue' = Tail(queue) /\ wire' = <<>>
  /\ sent' = sent /\ New' = New

Moves == Quiet \/ (\E p \in Pending : Submitting(p)) \/ Starting \/ Finishing

-----------------------------------------------------------------------------
(* The frames *)

\* Calling back, other than from a failed send.
LEMMA PushDelivered ==
  ASSUME NEW f \in FrameType, NEW base \in Seq(FrameType),
         f.fn = "send" => f.ret # "FAIL", Delivered(base)
  PROVE  Delivered(<<f>> \o base)
<1>1. <<f>> \in Seq(FrameType) /\ Len(<<f>>) = 1 /\ <<f>>[1] = f
  OBVIOUS
<1>2. /\ Len(base) \in Nat
      /\ Len(<<f>> \o base) = Len(base) + 1
      /\ \A i \in 1..(Len(base) + 1) :
           (<<f>> \o base)[i] = IF i <= 1 THEN f ELSE base[i - 1]
  BY <1>1, ConcatProperties, LenProperties
<1> DEFINE all == <<f>> \o base
<1> HIDE DEF all
<1>3. SUFFICES ASSUME NEW i \in 1..(Len(base) + 1)
               PROVE  all[i].fn = "send" => all[i].ret # "FAIL"
  BY <1>2 DEF Delivered, all
<1>4. CASE i <= 1
  BY <1>2, <1>4 DEF all
<1>5. CASE i > 1
  <2>1. i - 1 \in 1..Len(base) /\ all[i] = base[i - 1]
    BY <1>2, <1>5 DEF all
  <2>2. QED
    BY <2>1 DEF Delivered
<1>6. QED
  BY <1>2, <1>4, <1>5

\* Coming back.
LEMMA PopDelivered ==
  ASSUME TypeOK, Delivered(stack), stack # <<>>
  PROVE  /\ Delivered(Tail(stack))
         /\ Head(stack).fn = "send" => Head(stack).ret # "FAIL"
<1>1. stack \in Seq(FrameType) /\ Len(stack) \in Nat \ {0} /\ Head(stack) = stack[1]
  BY EmptySeq DEF TypeOK
<1>2. /\ Len(Tail(stack)) = Len(stack) - 1
      /\ \A i \in 1..Len(Tail(stack)) : Tail(stack)[i] = stack[i + 1]
  BY <1>1, HeadTailProperties
<1>3. QED
  BY <1>1, <1>2 DEF Delivered

-----------------------------------------------------------------------------
(* The steps, one by one *)

\* What the discipline gives at once.
LEMMA SerialFacts ==
  ASSUME AtDiscipline, SerialInv
  PROVE  /\ Mode = "AT" /\ CoreInv /\ TypeOK /\ queue \in Seq(Pending)
         /\ stack \in Seq(FrameType) /\ Submitted(stack)
         /\ Imm = {}
         /\ \A p \in Pending : ~req[p].auto /\ req[p].prio \in {"DEFAULT", "LOW"}
         /\ \A i \in 1..Len(queue) : queue[i] \in Pending \ New
         /\ \A i, j \in 1..Len(queue) : queue[i] = queue[j] => i = j
         /\ None \notin Pending
<1>1. CoreInv /\ TypeOK /\ queue \in Seq(Pending) /\ stack \in Seq(FrameType)
      /\ Submitted(stack) /\ Mode = "AT" /\ None \notin Pending
  BY ConstantsAssumption
     DEF SerialInv, AnswerInv, CoreInv, TypeOK, Bookkeeping, Submitted, Avoids, AtDiscipline
<1>2. \A p \in Pending : ~req[p].auto /\ req[p].prio \in {"DEFAULT", "LOW"}
  BY <1>1 DEF TypeOK, AtDiscipline
<1>3. Imm = {}
  BY <1>2 DEF Imm
<1>4. \A i \in 1..Len(queue) : queue[i] \in Pending \ New
  BY <1>1, ElementOfSeq DEF CoreInv, Bookkeeping
<1>5. \A i, j \in 1..Len(queue) : queue[i] = queue[j] => i = j
  <2>1. Shaped(queue, Band, id) /\ id \in [Pending -> Nat]
    BY <1>1 DEF CoreInv, QueueShape, TypeOK
  <2>2. QED
    BY <1>1, <2>1, BandType, ShapedInjective, ZenonT(60)
<1>6. QED
  BY <1>1, <1>2, <1>3, <1>4, <1>5

\* Sending: the head of the queue goes out when nothing else is.
LEMMA SendMoves ==
  ASSUME AtDiscipline, SerialInv, IdleSend \/ SendForce
  PROVE  Moves /\ Delivered(stack')
<1>1. PICK renew \in BOOLEAN : HalIdleSend(queue, renew)
  BY DEF IdleSend, SendForce
<1>2. queue' = queue /\ New' = New
  BY DEF IdleSend, SendForce, New
<1>3. /\ Mode = "AT" /\ TypeOK /\ queue \in Seq(Pending) /\ stack \in Seq(FrameType)
      /\ Imm = {} /\ Len(queue) \in Nat /\ None \notin Pending
      /\ SingleFlight /\ Delivered(stack)
      /\ \A i \in 1..Len(queue) : queue[i] \in Pending
  BY SerialFacts, LenProperties DEF SerialInv
<1>4. CASE UNCHANGED <<sent, atreq, wire, stack>>
  BY <1>2, <1>3, <1>4 DEF Moves, Quiet
<1>5. ASSUME NEW i \in 1..Len(queue), NEW ret \in Outcomes,
             NextIndex(queue, Imm, sent, i),
             sent' = sent \cup {queue[i]},
             atreq' = IF Mode = "AT" THEN queue[i] ELSE atreq,
             wire' = IF ret = "FAIL" THEN wire ELSE Append(wire, queue[i]),
             Push(Frame("send", queue[i], ret, renew, None))
      PROVE  Moves /\ Delivered(stack')
  <2>1. i = 1 /\ queue[1] \notin sent
    <3>1. \A j \in 1..(i - 1) : FALSE
      BY <1>3, <1>5 DEF NextIndex
    <3>2. i = 1
      BY <1>3, <3>1
    <3>3. QED
      BY <1>5, <3>2 DEF NextIndex
  <2>2. queue # <<>> /\ Head(queue) = queue[1] /\ 1 \in 1..Len(queue)
    BY <1>3, <2>1, EmptySeq
  <2>3. atreq = None
    BY <1>3, <2>1, <2>2 DEF SingleFlight
  <2>4. wire = <<>>
    BY <1>3, <2>3 DEF SingleFlight
  <2>5. ret \in {"SUCCESS", "HOOK_STOP"}
    BY DEF AtDiscipline
  <2>6. wire' = <<Head(queue)>>
    BY <1>5, <2>1, <2>2, <2>4, <2>5
  <2>7. Moves
    BY <1>2, <1>3, <1>5, <2>1, <2>2, <2>3, <2>6 DEF Moves, Starting
  <2>8. Delivered(stack')
    <3> DEFINE f == Frame("send", queue[i], ret, renew, None)
    <3>1. f \in FrameType /\ f.ret # "FAIL"
      BY <1>3, <2>5 DEF Frame, FrameType
    <3>2. stack' = <<f>> \o stack
      BY <1>5 DEF Push
    <3> HIDE DEF f
    <3>3. QED
      BY <1>3, <3>1, <3>2, PushDelivered
  <2>9. QED
    BY <2>7, <2>8
<1>6. QED
  BY <1>1, <1>4, <1>5 DEF HalIdleSend

\* Submitting: the pending goes to the end of the queue.
LEMMA SubmitMoves ==
  ASSUME AtDiscipline, SerialInv, NEW p \in Pending, SendRequest(p)
  PROVE  Moves /\ Delivered(stack')
<1>1. /\ TypeOK /\ queue \in Seq(Pending) /\ Len(queue) \in Nat
      /\ req[p].prio \in {"DEFAULT", "LOW"} /\ Delivered(stack)
  BY SerialFacts, LenProperties DEF SerialInv
<1>2. queue' = InsertAt(queue, Len(queue) + 1, p)
  BY <1>1 DEF SendRequest, PushIndex
<1>3. queue' = Append(queue, p)
  <2> DEFINE k == Len(queue) + 1
             s == InsertAt(queue, k, p)
             t == Append(queue, p)
  <2>1. k \in 1..(Len(queue) + 1) /\ k = Len(queue) + 1
    BY <1>1
  <2> HIDE DEF k
  <2>2. /\ s \in Seq(Pending) /\ Len(s) = Len(queue) + 1
        /\ \A j \in 1..(Len(queue) + 1) :
             s[j] = IF j < k THEN queue[j] ELSE IF j = k THEN p ELSE queue[j - 1]
    <3>1. queue \in Seq(Pending) /\ k \in 1..(Len(queue) + 1)
      BY <1>1, <2>1
    <3>2. QED
      BY ONLY <3>1, p \in Pending, InsertAtProperties, SMTT(30)
  <2>3. /\ t \in Seq(Pending) /\ Len(t) = Len(queue) + 1
        /\ \A j \in 1..Len(queue) : t[j] = queue[j]
        /\ t[Len(queue) + 1] = p
    BY <1>1, AppendProperties
  <2> HIDE DEF s, t
  <2>4. \A j \in 1..(Len(queue) + 1) : s[j] = t[j]
    BY <1>1, <2>1, <2>2, <2>3
  <2>5. s = t
    BY <2>2, <2>3, <2>4, SeqEqual
  <2>6. QED
    BY <1>2, <2>5 DEF s, t, k
<1>4. /\ p \in New /\ New' = New \ {p}
      /\ UNCHANGED <<sent, atreq, wire, stack>>
  BY <1>1 DEF SendRequest, TypeOK, New
<1>5. QED
  BY <1>1, <1>3, <1>4 DEF Moves, Submitting

\* An answer: the request that is out gets it and leaves the queue.
LEMMA AnswerMoves ==
  ASSUME AtDiscipline, SerialInv, RespondAt
  PROVE  Moves /\ Delivered(stack') /\ AnswerMatches'
<1>1. /\ CoreInv /\ TypeOK /\ queue \in Seq(Pending) /\ stack \in Seq(FrameType)
      /\ Submitted(stack) /\ SingleFlight /\ AnswerMatches /\ Delivered(stack) /\ AnswerInv
      /\ None \notin Pending
  BY SerialFacts DEF SerialInv
<1>2. /\ wire # <<>> /\ atreq' = None /\ wire' = RemoveAt(wire, 1)
      /\ UNCHANGED <<sent, listening>>
  BY DEF RespondAt, Receive, AtDiscipline
<1>3. wire = <<atreq>> /\ atreq # None /\ queue # <<>> /\ atreq = Head(queue)
  BY <1>1, <1>2 DEF SingleFlight
<1>4. wire' = <<>>
  <2>1. wire \in Seq(Pending) /\ Len(wire) = 1 /\ 1 \in 1..Len(wire)
    BY <1>1, <1>3 DEF TypeOK
  <2>2. wire' \in Seq(Pending) /\ Len(wire') = 0
    BY <1>2, <2>1, RemoveAtProperties
  <2>3. QED
    BY <2>2, EmptySeq
<1>5. 1 \in 1..Len(queue) /\ queue[1] = Head(queue) /\ Len(queue) \in Nat
  BY <1>1, <1>3, EmptySeq, LenProperties
<1>6. Deliver(1, wire[1], listening, stack) /\ wire[1] = queue[1]
  BY <1>3, <1>5 DEF RespondAt
<1>7. queue' = Tail(queue)
  <2> DEFINE s == RemoveAt(queue, 1)
             t == Tail(queue)
  <2>1. /\ s \in Seq(Pending) /\ Len(s) = Len(queue) - 1
        /\ \A j \in 1..(Len(queue) - 1) : s[j] = IF j < 1 THEN queue[j] ELSE queue[j + 1]
    BY <1>1, <1>5, RemoveAtProperties
  <2>2. /\ t \in Seq(Pending) /\ Len(t) = Len(queue) - 1
        /\ \A j \in 1..Len(t) : t[j] = queue[j + 1]
    BY <1>1, <1>3, HeadTailProperties
  <2>3. queue' = s
    BY <1>6 DEF Deliver
  <2> HIDE DEF s, t
  <2>4. \A j \in 1..Len(s) : s[j] = t[j]
    BY <1>5, <2>1, <2>2
  <2>5. s = t
    BY <2>1, <2>2, <2>4, SeqEqual
  <2>6. QED
    BY <2>3, <2>5 DEF t
<1>8. New' = New
  BY <1>1, <1>5, <1>6, DeliverShrinks
<1>9. Delivered(stack')
  <2> DEFINE f == Frame("resp", queue[1], None, FALSE, None)
  <2>1. queue[1] \in Pending
    BY <1>1, <1>5, ElementOfSeq
  <2>2. f \in FrameType /\ f.fn = "resp"
    BY <2>1 DEF Frame, FrameType
  <2>3. stack' = <<f>> \o stack \/ stack' = stack
    BY <1>6 DEF Deliver, Answer
  <2> HIDE DEF f
  <2>4. QED
    BY <1>1, <2>2, <2>3, PushDelivered
<1>10. AnswerMatches'
  <2>1. queue[1] \in Pending
    BY <1>1, <1>5, ElementOfSeq
  <2>2. got' = got \/ Calls(queue[1], wire[1], listening')
    BY <1>1, <1>2, <1>5, <1>6, DeliverAnswers
  <2>3. CASE got' = got
    BY <1>1, <2>3 DEF AnswerMatches
  <2>4. CASE Calls(queue[1], wire[1], listening')
    BY <1>1, <1>6, <2>1, <2>4, OwnAnswer
  <2>5. QED
    BY <2>2, <2>3, <2>4
<1>11. QED
  BY <1>2, <1>3, <1>4, <1>7, <1>8, <1>9, <1>10 DEF Moves, Finishing

\* The other calls leave the channel alone; the ones that release a pending
\* other than by its answer do not happen.
LEMMA OtherMoves ==
  ASSUME AtDiscipline, SerialInv,
         \/ LoseAnswer \/ UNCHANGED vars \/ Return \/ CancelStep \/ RespondCustom
         \/ \E p \in Pending : Timeout(p)
         \/ \E c \in Commands : Cancel(c)
  PROVE  Quiet /\ Delivered(stack') /\ got' = got
<1>1. /\ Mode = "AT" /\ CoreInv /\ TypeOK /\ stack \in Seq(FrameType)
      /\ Submitted(stack) /\ SingleFlight /\ Delivered(stack)
      /\ \A p \in Pending : ~req[p].auto
  BY SerialFacts DEF SerialInv
<1>2. CASE LoseAnswer
  <2>1. PICK i \in 1..Len(wire) : wire' = RemoveAt(wire, i)
    BY <1>2 DEF LoseAnswer
  <2>2. wire \in Seq(Pending) /\ wire # <<>>
    BY <1>1, <2>1, EmptySeq DEF TypeOK
  <2>3. Len(wire) = 1
    BY <1>1, <2>2 DEF SingleFlight
  <2>4. wire' \in Seq(Pending) /\ Len(wire') = 0
    BY <2>1, <2>2, <2>3, RemoveAtProperties
  <2>5. wire' = <<>>
    BY <2>4, EmptySeq
  <2>6. UNCHANGED <<queue, atreq, sent, st, stack, got>>
    BY <1>2 DEF LoseAnswer
  <2>7. QED
    BY <1>1, <2>5, <2>6 DEF Quiet, New
<1>3. CASE UNCHANGED vars
  BY <1>1, <1>3 DEF vars, Quiet, New
<1>4. CASE RespondCustom
  BY <1>1, <1>4 DEF RespondCustom
<1>5. ASSUME NEW p \in Pending, Timeout(p) PROVE Quiet /\ Delivered(stack') /\ got' = got
  <2> DEFINE f == Frame("timeout", p, None, FALSE, None)
  <2>1. f \in FrameType /\ f.fn = "timeout"
    BY DEF Frame, FrameType
  <2>2. stack' = <<f>> \o stack
    BY <1>5 DEF Timeout, Push
  <2> HIDE DEF f
  <2>3. Delivered(stack')
    BY <1>1, <2>1, <2>2, PushDelivered
  <2>4. QED
    BY <1>5, <2>3 DEF Timeout, Quiet, New
<1>6. ASSUME NEW c \in Commands, Cancel(c) PROVE Quiet /\ Delivered(stack') /\ got' = got
  <2> DEFINE f == Frame("cancel", None, None, FALSE, c)
  <2>1. f \in FrameType /\ f.fn = "cancel"
    BY DEF Frame, FrameType
  <2>2. stack' = <<f>> \o stack
    BY <1>6 DEF Cancel, Push
  <2> HIDE DEF f
  <2>3. Delivered(stack')
    BY <1>1, <2>1, <2>2, PushDelivered
  <2>4. QED
    BY <1>6, <2>3 DEF Cancel, Quiet, New
<1>7. CASE CancelStep
  <2>1. stack # <<>> /\ stack' \in {stack, Tail(stack)}
    BY <1>1, <1>7, TopType DEF CancelStep
  <2>2. Delivered(stack')
    BY <1>1, <2>1, PopDelivered
  <2>3. UNCHANGED <<queue, atreq, sent, st, wire, got>>
    BY <1>1, <1>7 DEF CancelStep
  <2>4. QED
    BY <2>2, <2>3 DEF Quiet, New
<1>8. CASE Return
  <2> DEFINE p == Head(stack).p
  <2>1. stack # <<>> /\ Control \in {"send", "resp", "timeout"} /\ Head(stack).fn = Control
        /\ p \in Pending
    <3>1. Control \in {"send", "resp", "timeout"}
      BY <1>8 DEF Return, ReturnSendWaiting, ReturnSendAutoFree, ReturnSendFail,
                  ReturnSendHookStop, ReturnResponse, ReturnTimeout, SendDone
    <3>2. QED
      BY <1>1, <3>1, TopType
  <2>2. Delivered(Tail(stack)) /\ (Control = "send" => Head(stack).ret # "FAIL")
    BY <1>1, <2>1, PopDelivered
  <2>3. CASE ReturnSendWaiting \/ ReturnSendHookStop
    <3>1. stack' = Tail(stack) /\ UNCHANGED <<queue, atreq, sent, st, wire, got>>
      BY <2>3 DEF ReturnSendWaiting, ReturnSendHookStop, SendDone
    <3>2. QED
      BY <2>2, <3>1 DEF Quiet, New
  <2>4. CASE ReturnSendAutoFree
    BY <1>1, <2>1, <2>4 DEF ReturnSendAutoFree
  <2>5. CASE ReturnSendFail
    BY <2>2, <2>5 DEF ReturnSendFail, SendDone
  <2>6. CASE ReturnResponse
    <3>1. Free(p) /\ stack' = Tail(stack) /\ UNCHANGED <<queue, atreq, sent, wire, got>>
      BY <2>6 DEF ReturnResponse
    <3>2. p \notin New
      BY <1>1, <2>1, TopSubmitted
    <3>3. New' = New
      BY <1>1, <3>1, <3>2, FreeNew
    <3>4. QED
      BY <2>2, <3>1, <3>3 DEF Quiet
  <2>7. CASE ReturnTimeout
    <3>1. stack' = Tail(stack) /\ UNCHANGED <<queue, atreq, sent, st, wire, got>>
      BY <1>1, <2>7 DEF ReturnTimeout
    <3>2. QED
      BY <2>2, <3>1 DEF Quiet, New
  <2>8. QED
    BY <1>8, <2>3, <2>4, <2>5, <2>6, <2>7 DEF Return
<1>9. QED
  BY <1>2, <1>3, <1>4, <1>5, <1>6, <1>7, <1>8

\* Each of the moves keeps one request out at a time.
LEMMA MovesKeep ==
  ASSUME AtDiscipline, SerialInv, Moves
  PROVE  SingleFlight'
<1>1. /\ SingleFlight /\ queue \in Seq(Pending) /\ None \notin Pending /\ Len(queue) \in Nat
      /\ \A i \in 1..Len(queue) : queue[i] \in Pending \ New
      /\ \A i, j \in 1..Len(queue) : queue[i] = queue[j] => i = j
      /\ New \cap sent = {}
  BY SerialFacts, LenProperties DEF SerialInv, CoreInv, Bookkeeping
<1>2. queue # <<>> => 1 \in 1..Len(queue) /\ Head(queue) = queue[1]
  BY <1>1, EmptySeq
<1>3. CASE Quiet
  BY <1>1, <1>3 DEF Quiet, SingleFlight
<1>4. ASSUME NEW p \in Pending, Submitting(p) PROVE SingleFlight'
  <2>1. /\ queue' \in Seq(Pending) /\ Len(queue') = Len(queue) + 1
        /\ \A j \in 1..Len(queue) : queue'[j] = queue[j]
        /\ queue'[Len(queue) + 1] = p
    BY <1>1, <1>4, AppendProperties DEF Submitting
  <2>2. p \in New /\ UNCHANGED <<atreq, sent, wire>>
    BY <1>4 DEF Submitting
  <2>3. atreq # None => queue' # <<>> /\ atreq = Head(queue')
    <3>1. SUFFICES ASSUME atreq # None PROVE queue' # <<>> /\ atreq = Head(queue')
      OBVIOUS
    <3>2. queue # <<>> /\ atreq = queue[1] /\ 1 \in 1..Len(queue)
      BY <1>1, <1>2, <3>1 DEF SingleFlight
    <3>3. queue' # <<>> /\ Head(queue') = queue'[1]
      BY <1>1, <2>1, EmptySeq
    <3>4. QED
      BY <2>1, <3>2, <3>3
  <2>4. p \notin sent /\ p # atreq
    <3>1. atreq # None => atreq \notin New
      BY <1>1, <1>2 DEF SingleFlight
    <3>2. QED
      BY <1>1, <2>2, <3>1
  <2>5. ASSUME NEW j \in 1..Len(queue') PROVE queue'[j] \in sent <=> queue'[j] = atreq
    <3>1. j \in 1..Len(queue) \/ j = Len(queue) + 1
      BY <1>1, <2>1
    <3>2. QED
      BY <1>1, <2>1, <2>4, <3>1 DEF SingleFlight
  <2>6. QED
    BY <1>1, <2>2, <2>3, <2>5 DEF SingleFlight
<1>5. CASE Starting
  <2>1. \A i \in 1..Len(queue) : queue[i] \notin sent
    BY <1>1, <1>5 DEF Starting, SingleFlight
  <2>2. Head(queue) \in Pending
    BY <1>1, <1>2, <1>5 DEF Starting
  <2>3. QED
    BY <1>1, <1>5, <2>1, <2>2 DEF Starting, SingleFlight
<1>6. CASE Finishing
  <2>1. atreq # None /\ queue # <<>> /\ atreq = queue[1] /\ 1 \in 1..Len(queue)
    BY <1>1, <1>2, <1>6 DEF Finishing, SingleFlight
  <2>2. /\ Len(queue') = Len(queue) - 1
        /\ \A j \in 1..Len(queue') : queue'[j] = queue[j + 1]
    BY <1>1, <1>6, <2>1, HeadTailProperties DEF Finishing
  <2>3. ASSUME NEW j \in 1..Len(queue') PROVE queue'[j] \notin sent /\ queue'[j] # None
    <3>1. j + 1 \in 1..Len(queue) /\ j + 1 # 1
      BY <1>1, <2>2
    <3>2. queue[j + 1] # atreq /\ queue[j + 1] \in Pending
      BY <1>1, <2>1, <3>1
    <3>3. QED
      BY <1>1, <2>2, <3>1, <3>2 DEF SingleFlight
  <2>4. QED
    BY <1>6, <2>3 DEF Finishing, SingleFlight
<1>7. QED
  BY <1>3, <1>4, <1>5, <1>6 DEF Moves

\* Every step is one of the moves and keeps the invariant.
LEMMA SerialStep ==
  ASSUME AtDiscipline, SerialInv, [Next]_vars
  PROVE  SerialInv' /\ Moves
<1>1. AnswerInv' /\ AnswerMatches
  BY AnswerStep DEF SerialInv
<1>2. Moves /\ Delivered(stack') /\ AnswerMatches'
  <2>1. CASE IdleSend \/ SendForce
    <3>1. got' = got
      BY <2>1 DEF IdleSend, SendForce
    <3>2. QED
      BY <1>1, <2>1, <3>1, SendMoves DEF AnswerMatches
  <2>2. ASSUME NEW p \in Pending, SendRequest(p)
        PROVE  Moves /\ Delivered(stack') /\ AnswerMatches'
    <3>1. got' = got
      BY <2>2 DEF SendRequest
    <3>2. QED
      BY <1>1, <2>2, <3>1, SubmitMoves DEF AnswerMatches
  <2>3. CASE RespondAt
    BY <2>3, AnswerMoves
  <2>4. CASE \/ LoseAnswer \/ UNCHANGED vars \/ Return \/ CancelStep \/ RespondCustom
             \/ \E p \in Pending : Timeout(p)
             \/ \E c \in Commands : Cancel(c)
    <3>1. Quiet /\ Delivered(stack') /\ got' = got
      BY <2>4, OtherMoves
    <3>2. QED
      BY <1>1, <3>1 DEF AnswerMatches, Moves
  <2>5. QED
    BY <2>1, <2>2, <2>3, <2>4 DEF Next, Return
<1>3. SingleFlight'
  BY <1>2, MovesKeep
<1>4. QED
  BY <1>1, <1>2, <1>3 DEF SerialInv

\* Nothing is out at first.
LEMMA InitSerial == Init => SerialInv
<1>1. ASSUME Init PROVE SingleFlight /\ AnswerMatches /\ Delivered(stack)
  BY <1>1 DEF Init, SingleFlight, AnswerMatches, Delivered
<1>2. QED
  BY <1>1, InitAnswer DEF SerialInv

\* In AT mode, for plain requests and a modem that answers once, the request
\* that is out is the head of the queue, nothing else was sent, and no
\* on_response gets the answer to another request.
THEOREM SerialAnswers == ASSUME AtDiscipline PROVE Spec => []AtInv
<1>1. SerialInv => AtInv
  BY DEF SerialInv, AnswerInv, AtInv
<1>2. SerialInv /\ [Next]_vars => SerialInv'
  BY SerialStep
<1>3. QED
  BY <1>1, <1>2, InitSerial, PTL DEF Spec

\* In AT mode too, no request is given the answer to another one.
THEOREM SerialMatches == ASSUME AtDiscipline PROVE Spec => []AnswerMatches
<1>1. AtInv => AnswerMatches
  BY DEF AtInv
<1>2. QED
  BY <1>1, SerialAnswers, PTL

-----------------------------------------------------------------------------
(* The serial channel *)

\* What Append and Tail do to the elements and to each other.
LEMMA ElementsOfQueue ==
  ASSUME NEW s \in Seq(Pending), NEW p \in Pending
  PROVE  /\ ToSet(s) = {s[i] : i \in 1..Len(s)}
         /\ ToSet(Append(s, p)) = ToSet(s) \cup {p}
         /\ s # <<>> => /\ Tail(Append(s, p)) = Append(Tail(s), p)
                        /\ Head(s) = s[1]
                        /\ ToSet(Tail(s)) = {s[i] : i \in 2..Len(s)}
<1> DEFINE n == Len(s)
           t == Append(s, p)
<1>1. n \in Nat /\ DOMAIN s = 1..n
  BY LenProperties
<1>2. /\ t \in Seq(Pending) /\ Len(t) = n + 1 /\ DOMAIN t = 1..(n + 1)
      /\ \A j \in 1..n : t[j] = s[j]
      /\ t[n + 1] = p
  BY AppendProperties, LenProperties
<1>3. ToSet(s) = {s[i] : i \in 1..n}
  BY <1>1 DEF ToSet
<1>4. ToSet(t) = ToSet(s) \cup {p}
  <2> HIDE DEF n, t
  <2>1. ToSet(t) = {t[i] : i \in 1..(n + 1)}
    BY <1>2 DEF ToSet
  <2>2. ASSUME NEW x \in ToSet(t) PROVE x \in ToSet(s) \cup {p}
    <3>1. PICK i \in 1..(n + 1) : x = t[i]
      BY <2>1, <2>2
    <3>2. i \in 1..n \/ i = n + 1
      BY <1>1, <3>1
    <3>3. QED
      BY <1>2, <1>3, <3>1, <3>2
  <2>3. ASSUME NEW x \in ToSet(s) \cup {p} PROVE x \in ToSet(t)
    <3>1. CASE x = p
      <4>1. n + 1 \in 1..(n + 1)
        BY <1>1
      <4>2. QED
        BY <1>2, <2>1, <3>1, <4>1
    <3>2. CASE x \in ToSet(s)
      <4>1. PICK i \in 1..n : x = s[i]
        BY <1>3, <3>2
      <4>2. i \in 1..(n + 1)
        BY <1>1, <4>1
      <4>3. QED
        BY <1>2, <2>1, <4>1, <4>2
    <3>3. QED
      BY <2>3, <3>1, <3>2
  <2>4. QED
    BY <2>2, <2>3
<1>5. ASSUME s # <<>>
      PROVE  /\ Tail(t) = Append(Tail(s), p)
             /\ Head(s) = s[1]
             /\ ToSet(Tail(s)) = {s[i] : i \in 2..n}
  <2> DEFINE u == Tail(s)
             v == Append(u, p)
             w == Tail(t)
  <2>1. n \in Nat \ {0} /\ Head(s) = s[1]
    BY <1>1, <1>5, EmptySeq
  <2>2. /\ u \in Seq(Pending) /\ Len(u) = n - 1 /\ DOMAIN u = 1..(n - 1)
        /\ \A j \in 1..(n - 1) : u[j] = s[j + 1]
    BY <1>5, HeadTailProperties, LenProperties
  <2>3. /\ v \in Seq(Pending) /\ Len(v) = Len(u) + 1
        /\ \A j \in 1..Len(u) : v[j] = u[j]
        /\ v[Len(u) + 1] = p
    BY <2>2, AppendProperties
  <2>4. t # <<>>
    BY <1>1, <1>2, EmptySeq
  <2>5. /\ w \in Seq(Pending) /\ Len(w) = Len(t) - 1
        /\ \A j \in 1..Len(w) : w[j] = t[j + 1]
    BY <1>2, <2>4, HeadTailProperties
  <2> HIDE DEF n, t, u, v, w
  <2>6. Len(v) = n /\ Len(w) = n
    BY <1>2, <2>1, <2>2, <2>3, <2>5
  <2>7. ASSUME NEW j \in 1..n PROVE w[j] = v[j]
    <3>1. w[j] = t[j + 1]
      BY <2>5, <2>6
    <3>2. CASE j = n
      BY <1>2, <2>1, <2>2, <2>3, <3>1, <3>2
    <3>3. CASE j # n
      <4>1. j \in 1..(n - 1) /\ j + 1 \in 1..n
        BY <2>1, <3>3
      <4>2. QED
        BY <1>2, <2>2, <2>3, <3>1, <4>1
    <3>4. QED
      BY <3>2, <3>3
  <2>8. w = v
    BY <2>3, <2>5, <2>6, <2>7, SeqEqual
  <2>9. ToSet(u) = {u[i] : i \in 1..(n - 1)}
    BY <2>2 DEF ToSet
  <2>10. ASSUME NEW x \in ToSet(u) PROVE x \in {s[i] : i \in 2..n}
    <3>1. PICK i \in 1..(n - 1) : x = u[i]
      BY <2>9, <2>10
    <3>2. i + 1 \in 2..n /\ x = s[i + 1]
      BY <2>1, <2>2, <3>1
    <3>3. QED
      BY <3>2
  <2>11. ASSUME NEW x \in {s[i] : i \in 2..n} PROVE x \in ToSet(u)
    <3>1. PICK i \in 2..n : x = s[i]
      BY <2>11
    <3>2. i - 1 \in 1..(n - 1) /\ (i - 1) + 1 = i
      BY <2>1, <3>1
    <3>3. x = u[i - 1]
      BY <2>2, <3>1, <3>2
    <3>4. QED
      BY <2>9, <3>2, <3>3
  <2>12. QED
    BY <2>1, <2>8, <2>10, <2>11 DEF u, v, w
<1>6. QED
  BY <1>3, <1>4, <1>5

\* Submitting, sending and answering are the three steps of the channel.
LEMMA MovesImplement ==
  ASSUME AtDiscipline, SerialInv, Moves, queue' \in Seq(Pending)
  PROVE  [Channel!Next]_Channel!vars
<1>1. /\ queue \in Seq(Pending) /\ None \notin Pending /\ SingleFlight
      /\ \A i \in 1..Len(queue) : queue[i] \in Pending \ New
      /\ \A i, j \in 1..Len(queue) : queue[i] = queue[j] => i = j
  BY SerialFacts DEF SerialInv
<1>2. /\ {p \in Pending : st[p] # "new"} = Pending \ New
      /\ {p \in Pending : st'[p] # "new"} = Pending \ New'
  BY DEF New
<1>3. Len(queue) \in Nat /\ DOMAIN queue = 1..Len(queue)
  BY <1>1, LenProperties
<1>4. CASE Quiet
  BY <1>2, <1>4 DEF Quiet, Channel!vars, Channel!Next
<1>5. ASSUME NEW p \in Pending, Submitting(p) PROVE Channel!Submit(p)
  <2>1. /\ ToSet(queue) = {queue[i] : i \in 1..Len(queue)}
        /\ ToSet(queue') = ToSet(queue) \cup {p}
        /\ queue # <<>> => Tail(queue') = Append(Tail(queue), p)
    BY <1>1, <1>5, ElementsOfQueue DEF Submitting
  <2>2. \A i \in 1..Len(queue) : queue[i] # p
    BY <1>1, <1>5 DEF Submitting
  <2>3. p # atreq
    <3>1. CASE atreq = None
      BY <1>1, <3>1
    <3>2. CASE atreq # None
      <4>1. queue # <<>> /\ atreq = queue[1] /\ 1 \in 1..Len(queue)
        BY <1>1, <1>3, <3>2, EmptySeq DEF SingleFlight
      <4>2. QED
        BY <2>2, <4>1
    <3>3. QED
      BY <3>1, <3>2
  <2>4. (Pending \ New') \ ToSet(queue') = (Pending \ New) \ ToSet(queue)
    BY <1>5, <2>1 DEF Submitting
  <2>5. CASE atreq = None
    BY <1>2, <1>3, <1>5, <2>2, <2>3, <2>4, <2>5 DEF Submitting, Channel!Submit
  <2>6. CASE atreq # None
    <3>1. queue # <<>>
      BY <1>1, <2>6 DEF SingleFlight
    <3>2. \A i \in DOMAIN Tail(queue) : Tail(queue)[i] # p
      <4>1. /\ Tail(queue) \in Seq(Pending) /\ Len(Tail(queue)) = Len(queue) - 1
            /\ \A i \in 1..Len(Tail(queue)) : Tail(queue)[i] = queue[i + 1]
        BY <1>1, <3>1, HeadTailProperties
      <4>2. DOMAIN Tail(queue) = 1..Len(Tail(queue))
        BY <4>1, LenProperties
      <4> DEFINE k == Tail(queue)
      <4> HIDE DEF k
      <4>3. ASSUME NEW i \in 1..Len(k), Len(k) = Len(queue) - 1
            PROVE  i + 1 \in 1..Len(queue)
        BY <1>3, <4>3
      <4>4. QED
        BY <2>2, <4>1, <4>2, <4>3 DEF k
    <3>3. QED
      BY <1>2, <1>5, <2>1, <2>3, <2>4, <2>6, <3>1, <3>2 DEF Submitting, Channel!Submit
  <2>7. QED
    BY <2>5, <2>6
<1>6. CASE Starting
  <2>1. Head(queue) \in Pending
    <3>1. 1 \in 1..Len(queue) /\ Head(queue) = queue[1]
      BY <1>1, <1>3, <1>6, EmptySeq DEF Starting
    <3>2. QED
      BY <1>1, <3>1
  <2>2. atreq' # None
    BY <1>1, <1>6, <2>1 DEF Starting
  <2>3. QED
    BY <1>2, <1>6, <2>2 DEF Starting, Channel!Start, Channel!Next
<1>7. CASE Finishing
  <2>1. queue # <<>> /\ atreq = Head(queue) /\ atreq # None /\ atreq' = None
        /\ queue' = Tail(queue) /\ New' = New
    BY <1>1, <1>7 DEF Finishing, SingleFlight
  <2>2. 1 \in 1..Len(queue) /\ atreq = queue[1]
    BY <1>1, <1>3, <2>1, EmptySeq
  <2>3. atreq \in Pending \ New
    BY <1>1, <2>2
  <2>4. /\ ToSet(queue) = {queue[i] : i \in 1..Len(queue)}
        /\ ToSet(queue') = {queue[i] : i \in 2..Len(queue)}
    BY <1>1, <2>1, <2>3, ElementsOfQueue
  <2>5. atreq \notin ToSet(queue')
    <3>1. ASSUME NEW i \in 2..Len(queue) PROVE queue[i] # queue[1]
      <4>1. i \in 1..Len(queue) /\ i # 1
        BY <1>3
      <4>2. QED
        BY <1>1, <2>2, <4>1
    <3>2. QED
      BY <2>2, <2>4, <3>1
  <2>6. ToSet(queue) = ToSet(queue') \cup {atreq}
    <3>1. 1..Len(queue) = {1} \cup 2..Len(queue)
      BY <1>3, <2>2
    <3>2. QED
      BY <2>2, <2>4, <3>1
  <2>7. (Pending \ New') \ ToSet(queue')
          = ((Pending \ New) \ ToSet(queue)) \cup {atreq}
    BY <2>1, <2>3, <2>5, <2>6
  <2>8. QED
    BY <1>2, <2>1, <2>7 DEF Channel!Finish, Channel!Next
<1>8. QED
  BY <1>4, <1>5, <1>6, <1>7 DEF Moves, Channel!Next

\* In AT mode, for plain requests and a modem that answers once, the HAL
\* implements the serial channel: one request at a time, in the order of
\* their submission.
THEOREM SerialRefinement == ASSUME AtDiscipline PROVE Spec => ImplementsSerialChannel
<1>1. Init => Channel!Init
  <2>1. SUFFICES ASSUME Init PROVE Channel!Init
    OBVIOUS
  <2>2. queue = <<>> /\ atreq = None /\ {p \in Pending : st[p] # "new"} = {}
    BY <2>1 DEF Init
  <2>3. QED
    BY <2>2 DEF Channel!Init
<1>2. SerialInv /\ [Next]_vars => SerialInv' /\ [Channel!Next]_Channel!vars
  <2>1. SUFFICES ASSUME SerialInv, [Next]_vars
                 PROVE  SerialInv' /\ [Channel!Next]_Channel!vars
    OBVIOUS
  <2>2. SerialInv' /\ Moves
    BY <2>1, SerialStep
  <2>3. queue' \in Seq(Pending)
    BY <2>2 DEF SerialInv, AnswerInv, CoreInv, TypeOK
  <2>4. QED
    BY <2>1, <2>2, <2>3, MovesImplement
<1>3. QED
  BY <1>1, <1>2, InitSerial, PTL DEF Spec, ImplementsSerialChannel, Channel!Spec

-----------------------------------------------------------------------------
(* Memory: the disciplines of the plugins *)

\* Plugins may call the library from inside any callback when no send fails and
\* nothing is cancelled by command ...
Reentrant == "FAIL" \notin Outcomes /\ Commands = {}

\* ... and sends may fail, and commands be cancelled, when plugins call the
\* library from no callback but on_response.
Shallow == CallFrom \subseteq {"loop", "resp"}

Elements(s) == {s[i] : i \in 1..Len(s)}
InQueue == Elements(queue)

\* A waiting call of frame f, with the pendings Q in the queue, the states S and
\* those in T sent: on_response runs for a pending that has left the queue, the
\* others for one that is in it and was sent.
FrameOk(f, Q, S, T) ==
  /\ f.fn = "resp" => S[f.p] = "live" /\ f.p \notin Q
  /\ f.fn \in {"send", "timeout"} => f.p \in Q \cap T
  /\ f.fn = "send" => f.ret \in Outcomes

\* No two calls wait with the same pending.
Frames(s, Q, S, T) ==
  /\ \A i \in 1..Len(s) : FrameOk(s[i], Q, S, T)
  /\ \A i, j \in 1..Len(s) : i # j /\ s[i].p # None => s[i].p # s[j].p

Sends(f) == f.fn \in {"send", "timeout"}

\* Shallow plugins call from no on_send and no on_timeout.
Nesting(s) == Shallow => \A i \in 2..Len(s) : ~Sends(s[i])

\* The on_response of p is running.
Responds(s, p) == \E i \in 1..Len(s) : s[i].fn = "resp" /\ s[i].p = p

Kept(Q, s, S) == \A p \in Pending : S[p] = "live" => p \in Q \/ Responds(s, p)

Memory ==
  /\ \A p \in InQueue \cup timer : st[p] = "live"
  /\ timer \subseteq sent
  /\ Frames(stack, InQueue, st, sent) /\ Nesting(stack)
  /\ Kept(InQueue, stack, st)

\* The inductive invariant.
MemoryInv == CoreInv /\ Memory

-----------------------------------------------------------------------------
(* The frames *)

\* A stack with one more frame.
LEMMA PushElements ==
  ASSUME NEW f \in FrameType, NEW base \in Seq(FrameType)
  PROVE  /\ Len(base) \in Nat /\ Len(<<f>> \o base) = Len(base) + 1
         /\ (<<f>> \o base)[1] = f
         /\ \A i \in 1..Len(base) : (<<f>> \o base)[i + 1] = base[i]
<1>1. <<f>> \in Seq(FrameType) /\ Len(<<f>>) = 1 /\ <<f>>[1] = f
  OBVIOUS
<1>2. /\ Len(base) \in Nat
      /\ Len(<<f>> \o base) = Len(base) + 1
      /\ \A i \in 1..(Len(base) + 1) :
           (<<f>> \o base)[i] = IF i <= 1 THEN f ELSE base[i - 1]
  BY <1>1, ConcatProperties, LenProperties
<1> DEFINE t == <<f>> \o base
<1> HIDE DEF t
<1>3. ASSUME NEW i \in 1..Len(base) PROVE t[i + 1] = base[i]
  <2>1. i + 1 \in 1..(Len(base) + 1) /\ ~(i + 1 <= 1) /\ (i + 1) - 1 = i
    BY <1>2
  <2>2. t[i + 1] = base[(i + 1) - 1]
    BY <1>2, <2>1 DEF t
  <2>3. QED
    BY <2>1, <2>2
<1>4. t[1] = f
  <2>1. 1 \in 1..(Len(base) + 1) /\ 1 <= 1
    BY <1>2
  <2>2. QED
    BY <1>2, <2>1 DEF t
<1>5. QED
  BY <1>2, <1>3, <1>4 DEF t

\* Calling back with a pending that no other call waits with.
LEMMA PushFrame ==
  ASSUME NEW f \in FrameType, NEW base \in Seq(FrameType), NEW Q, NEW S, NEW T,
         Frames(base, Q, S, T), FrameOk(f, Q, S, T), Nesting(base),
         \A i \in 1..Len(base) : base[i].p = f.p => f.p = None,
         Shallow => \A i \in 1..Len(base) : ~Sends(base[i])
  PROVE  /\ Frames(<<f>> \o base, Q, S, T) /\ Nesting(<<f>> \o base)
         /\ \A p : Responds(base, p) => Responds(<<f>> \o base, p)
         /\ f.fn = "resp" => Responds(<<f>> \o base, f.p)
<1> DEFINE t == <<f>> \o base
           n == Len(base)
<1>1. /\ n \in Nat /\ Len(t) = n + 1 /\ t[1] = f
      /\ \A i \in 1..n : t[i + 1] = base[i]
  BY PushElements
<1> HIDE DEF t, n
<1>2. ASSUME NEW i \in 1..(n + 1), i # 1
      PROVE  i - 1 \in 1..n /\ t[i] = base[i - 1]
  <2>1. i - 1 \in 1..n /\ (i - 1) + 1 = i
    BY <1>1, <1>2
  <2>2. QED
    BY <1>1, <2>1
<1>3. \A i \in 1..(n + 1) : FrameOk(t[i], Q, S, T)
  <2>1. SUFFICES ASSUME NEW i \in 1..(n + 1) PROVE FrameOk(t[i], Q, S, T)
    OBVIOUS
  <2>2. CASE i = 1
    BY <1>1, <2>2
  <2>3. CASE i # 1
    <3>1. i - 1 \in 1..n /\ t[i] = base[i - 1]
      BY <1>2, <2>3
    <3>2. QED
      BY <3>1 DEF Frames, n
  <2>4. QED
    BY <2>2, <2>3
<1>4. ASSUME NEW i \in 1..(n + 1), NEW j \in 1..(n + 1), i # j, t[i].p # None
      PROVE  t[i].p # t[j].p
  <2>1. CASE i = 1
    <3>1. j - 1 \in 1..n /\ t[j] = base[j - 1]
      BY <1>2, <1>4, <2>1
    <3>2. QED
      BY <1>1, <1>4, <2>1, <3>1 DEF n
  <2>2. CASE j = 1
    <3>1. i - 1 \in 1..n /\ t[i] = base[i - 1]
      BY <1>2, <1>4, <2>2
    <3>2. QED
      BY <1>1, <1>4, <2>2, <3>1 DEF n
  <2>3. CASE i # 1 /\ j # 1
    <3>1. /\ i - 1 \in 1..n /\ t[i] = base[i - 1] /\ j - 1 \in 1..n /\ t[j] = base[j - 1]
          /\ i - 1 # j - 1
      BY <1>2, <1>4, <2>3
    <3>2. QED
      BY <1>4, <3>1 DEF Frames, n
  <2>4. QED
    BY <2>1, <2>2, <2>3
<1>5. Nesting(t)
  <2>1. SUFFICES ASSUME Shallow, NEW i \in 2..(n + 1) PROVE ~Sends(t[i])
    BY <1>1 DEF Nesting
  <2>2. i \in 1..(n + 1) /\ i # 1
    BY <1>1
  <2>3. i - 1 \in 1..n /\ t[i] = base[i - 1]
    BY <1>2, <2>2
  <2>4. QED
    BY <2>1, <2>3 DEF n
<1>6. ASSUME NEW p, Responds(base, p) PROVE Responds(t, p)
  <2>1. PICK i \in 1..n : base[i].fn = "resp" /\ base[i].p = p
    BY <1>6 DEF Responds, n
  <2>2. i + 1 \in 1..Len(t) /\ t[i + 1] = base[i]
    BY <1>1
  <2>3. QED
    BY <2>1, <2>2 DEF Responds
<1>7. ASSUME f.fn = "resp" PROVE Responds(t, f.p)
  <2>1. 1 \in 1..Len(t)
    BY <1>1
  <2>2. QED
    BY <1>1, <1>7, <2>1 DEF Responds
<1>8. Frames(t, Q, S, T)
  BY <1>1, <1>3, <1>4 DEF Frames
<1>9. QED
  BY <1>5, <1>6, <1>7, <1>8 DEF t

\* Coming back from the innermost call.
LEMMA PopFrame ==
  ASSUME NEW s \in Seq(FrameType), s # <<>>, NEW Q, NEW S, NEW T,
         Frames(s, Q, S, T), Nesting(s)
  PROVE  /\ Frames(Tail(s), Q, S, T) /\ Nesting(Tail(s)) /\ FrameOk(Head(s), Q, S, T)
         /\ Tail(s) \in Seq(FrameType)
         /\ \A i \in 1..Len(Tail(s)) : Head(s).p # None => Tail(s)[i].p # Head(s).p
         /\ Shallow => \A i \in 1..Len(Tail(s)) : ~Sends(Tail(s)[i])
         /\ \A p : Responds(s, p) =>
              Responds(Tail(s), p) \/ (Head(s).fn = "resp" /\ p = Head(s).p)
<1> DEFINE t == Tail(s)
           n == Len(t)
<1>1. /\ Len(s) \in Nat \ {0} /\ Head(s) = s[1] /\ t \in Seq(FrameType)
      /\ n = Len(s) - 1 /\ \A i \in 1..n : t[i] = s[i + 1]
  BY EmptySeq, HeadTailProperties, LenProperties
<1> HIDE DEF t, n
<1>2. ASSUME NEW i \in 1..n PROVE i + 1 \in 2..Len(s) /\ i + 1 \in 1..Len(s) /\ i + 1 # 1
  BY <1>1
<1>3. 1 \in 1..Len(s) /\ n \in Nat
  BY <1>1
<1>4. Frames(t, Q, S, T)
  <2>1. \A i \in 1..n : FrameOk(t[i], Q, S, T)
    BY <1>1, <1>2 DEF Frames
  <2>2. ASSUME NEW i \in 1..n, NEW j \in 1..n, i # j, t[i].p # None
        PROVE  t[i].p # t[j].p
    <3>1. i + 1 # j + 1
      BY <2>2
    <3>2. QED
      BY <1>1, <1>2, <2>2, <3>1 DEF Frames
  <2>3. QED
    BY <2>1, <2>2 DEF Frames, n
<1>5. Shallow => \A i \in 1..n : ~Sends(t[i])
  BY <1>1, <1>2 DEF Nesting
<1>6. Nesting(t)
  <2>1. \A i \in 2..n : i \in 1..n
    BY <1>3
  <2>2. QED
    BY <1>5, <2>1 DEF Nesting, n
<1>7. FrameOk(Head(s), Q, S, T) /\ \A i \in 1..n : Head(s).p # None => t[i].p # Head(s).p
  BY <1>1, <1>2, <1>3 DEF Frames
<1>8. ASSUME NEW p, Responds(s, p)
      PROVE  Responds(t, p) \/ (Head(s).fn = "resp" /\ p = Head(s).p)
  <2>1. PICK i \in 1..Len(s) : s[i].fn = "resp" /\ s[i].p = p
    BY <1>8 DEF Responds
  <2>2. CASE i = 1
    BY <1>1, <2>1, <2>2
  <2>3. CASE i # 1
    <3>1. i - 1 \in 1..n /\ (i - 1) + 1 = i
      BY <1>1, <2>3
    <3>2. t[i - 1] = s[i]
      BY <1>1, <3>1
    <3>3. QED
      BY <2>1, <3>1, <3>2 DEF Responds, n
  <2>4. QED
    BY <2>2, <2>3
<1>9. QED
  BY <1>1, <1>4, <1>5, <1>6, <1>7, <1>8 DEF t, n

\* The frames stay as they should when their pendings stay where they are.
LEMMA FramesStay ==
  ASSUME NEW s \in Seq(FrameType), NEW Q, NEW S, NEW T, NEW Q2, NEW S2, NEW T2,
         Frames(s, Q, S, T), T \subseteq T2,
         \A i \in 1..Len(s) : s[i].p \in Pending =>
           (s[i].p \in Q <=> s[i].p \in Q2) /\ S[s[i].p] = S2[s[i].p]
  PROVE  Frames(s, Q2, S2, T2)
<1>1. ASSUME NEW i \in 1..Len(s) PROVE FrameOk(s[i], Q2, S2, T2)
  <2>1. s[i] \in FrameType
    BY ElementOfSeq
  <2>2. s[i].fn \in {"resp", "send", "timeout"} => s[i].p \in Pending
    BY <2>1 DEF FrameType
  <2>3. FrameOk(s[i], Q, S, T)
    BY DEF Frames
  <2>4. QED
    BY <2>2, <2>3 DEF FrameOk
<1>2. QED
  BY <1>1 DEF Frames

-----------------------------------------------------------------------------
(* The queue *)

\* What the core invariant says of the pendings in the queue.
LEMMA QueueFacts ==
  ASSUME CoreInv
  PROVE  /\ TypeOK /\ queue \in Seq(Pending) /\ Len(queue) \in Nat
         /\ stack \in Seq(FrameType) /\ Submitted(stack)
         /\ InQueue \subseteq Pending \ New
         /\ \A i \in 1..Len(queue) : queue[i] \in InQueue
         /\ \A i, j \in 1..Len(queue) : queue[i] = queue[j] => i = j
<1>1. TypeOK /\ queue \in Seq(Pending) /\ stack \in Seq(FrameType) /\ Submitted(stack)
  BY DEF CoreInv, TypeOK, Bookkeeping, Submitted, Avoids
<1>2. \A i \in 1..Len(queue) : queue[i] \in Pending /\ queue[i] \notin New
  BY <1>1, ElementOfSeq DEF CoreInv, Bookkeeping
<1>3. Shaped(queue, Band, id) /\ Band \in [Pending -> 0..2] /\ id \in [Pending -> Nat]
  BY <1>1, BandType DEF CoreInv, QueueShape, TypeOK
<1>4. ASSUME NEW i \in 1..Len(queue), NEW j \in 1..Len(queue), queue[i] = queue[j]
      PROVE  i = j
  BY <1>1, <1>3, <1>4, ShapedInjective
<1>5. QED
  BY <1>1, <1>2, <1>4, LenProperties DEF InQueue, Elements

\* Popping takes one pending out of it.
LEMMA PopElements ==
  ASSUME CoreInv, NEW i \in 1..Len(queue)
  PROVE  Elements(RemoveAt(queue, i)) = InQueue \ {queue[i]}
<1> DEFINE r == RemoveAt(queue, i)
<1>1. /\ queue \in Seq(Pending) /\ Len(queue) \in Nat
      /\ \A j, k \in 1..Len(queue) : queue[j] = queue[k] => j = k
  BY QueueFacts
<1>2. Len(r) = Len(queue) - 1
      /\ \A j \in 1..(Len(queue) - 1) : r[j] = IF j < i THEN queue[j] ELSE queue[j + 1]
  BY <1>1, RemoveAtProperties
<1> HIDE DEF r
<1>3. ASSUME NEW j \in 1..Len(r)
      PROVE  \E k \in 1..Len(queue) : k # i /\ r[j] = queue[k]
  <2>1. CASE j < i
    <3>1. j \in 1..Len(queue) /\ j # i /\ r[j] = queue[j]
      BY <1>1, <1>2, <2>1
    <3>2. QED
      BY <3>1
  <2>2. CASE ~(j < i)
    <3>1. j + 1 \in 1..Len(queue) /\ j + 1 # i /\ r[j] = queue[j + 1]
      BY <1>1, <1>2, <2>2
    <3>2. QED
      BY <3>1
  <2>3. QED
    BY <2>1, <2>2
<1>4. ASSUME NEW k \in 1..Len(queue), k # i
      PROVE  \E j \in 1..Len(r) : r[j] = queue[k]
  <2>1. CASE k < i
    <3>1. k \in 1..Len(r) /\ r[k] = queue[k]
      BY <1>1, <1>2, <2>1
    <3>2. QED
      BY <3>1
  <2>2. CASE ~(k < i)
    <3>1. k - 1 \in 1..Len(r) /\ ~(k - 1 < i) /\ (k - 1) + 1 = k
      BY <1>1, <1>2, <1>4, <2>2
    <3>2. r[k - 1] = queue[k]
      BY <1>2, <3>1
    <3>3. QED
      BY <3>1, <3>2
  <2>3. QED
    BY <2>1, <2>2
<1>5. Elements(r) \subseteq InQueue \ {queue[i]}
  BY <1>1, <1>3 DEF Elements, InQueue
<1>6. InQueue \ {queue[i]} \subseteq Elements(r)
  <2>1. SUFFICES ASSUME NEW k \in 1..Len(queue), queue[k] # queue[i]
                 PROVE  queue[k] \in Elements(r)
    BY DEF Elements, InQueue
  <2>2. k # i
    BY <2>1
  <2>3. QED
    BY <1>4, <2>2 DEF Elements
<1>7. QED
  BY <1>5, <1>6 DEF r

\* So does popping the head.
LEMMA TailElements ==
  ASSUME CoreInv, queue # <<>>
  PROVE  /\ Elements(Tail(queue)) = InQueue \ {Head(queue)}
         /\ Head(queue) \in InQueue
<1> DEFINE r == Tail(queue)
<1>1. /\ queue \in Seq(Pending) /\ Len(queue) \in Nat
      /\ \A j, k \in 1..Len(queue) : queue[j] = queue[k] => j = k
  BY QueueFacts
<1>2. /\ Head(queue) = queue[1] /\ Len(queue) \in Nat \ {0} /\ Len(r) = Len(queue) - 1
      /\ \A j \in 1..Len(r) : r[j] = queue[j + 1]
  BY <1>1, EmptySeq, HeadTailProperties
<1> HIDE DEF r
<1>3. ASSUME NEW j \in 1..Len(r)
      PROVE  j + 1 \in 1..Len(queue) /\ j + 1 # 1 /\ 1 \in 1..Len(queue)
  BY <1>2
<1>4. 1 \in 1..Len(queue)
  BY <1>2
<1>5. Elements(r) \subseteq InQueue \ {queue[1]}
  BY <1>1, <1>2, <1>3 DEF Elements, InQueue
<1>6. ASSUME NEW k \in 1..Len(queue), k # 1 PROVE queue[k] \in Elements(r)
  <2>1. k - 1 \in 1..Len(r) /\ (k - 1) + 1 = k
    BY <1>2, <1>6
  <2>2. r[k - 1] = queue[k]
    BY <1>2, <2>1
  <2>3. QED
    BY <2>1, <2>2 DEF Elements
<1>7. InQueue \ {queue[1]} \subseteq Elements(r)
  <2>1. SUFFICES ASSUME NEW k \in 1..Len(queue), queue[k] # queue[1]
                 PROVE  queue[k] \in Elements(r)
    BY DEF Elements, InQueue
  <2>2. k # 1
    BY <2>1
  <2>3. QED
    BY <1>6, <2>2
<1>8. queue[1] \in InQueue
  BY <1>4 DEF InQueue, Elements
<1>9. QED
  BY <1>2, <1>5, <1>7, <1>8 DEF r

\* Submitting adds one.
LEMMA PushedElements ==
  ASSUME CoreInv, NEW p \in Pending, NEW i \in 1..(Len(queue) + 1)
  PROVE  Elements(InsertAt(queue, i, p)) = InQueue \cup {p}
<1> DEFINE r == InsertAt(queue, i, p)
<1>1. queue \in Seq(Pending) /\ Len(queue) \in Nat
  BY QueueFacts
<1>2. /\ Len(r) = Len(queue) + 1
      /\ \A j \in 1..(Len(queue) + 1) :
           r[j] = IF j < i THEN queue[j] ELSE IF j = i THEN p ELSE queue[j - 1]
  BY <1>1, InsertAtProperties
<1>3. \A j \in 1..Len(r) : r[j] = p \/ \E m \in 1..Len(queue) : r[j] = queue[m]
  BY <1>1, InsertAtElements
<1> HIDE DEF r
<1>4. ASSUME NEW k \in 1..Len(queue) PROVE queue[k] \in Elements(r)
  <2>1. CASE k < i
    <3>1. k \in 1..Len(r) /\ r[k] = queue[k]
      BY <1>1, <1>2, <2>1
    <3>2. QED
      BY <3>1 DEF Elements
  <2>2. CASE ~(k < i)
    <3>1. k + 1 \in 1..Len(r) /\ ~(k + 1 < i) /\ k + 1 # i /\ (k + 1) - 1 = k
      BY <1>1, <1>2, <2>2
    <3>2. r[k + 1] = queue[(k + 1) - 1]
      BY <1>2, <3>1
    <3>3. QED
      BY <3>1, <3>2 DEF Elements
  <2>3. QED
    BY <2>1, <2>2
<1>5. p \in Elements(r)
  <2>1. i \in 1..Len(r) /\ r[i] = p
    BY <1>1, <1>2
  <2>2. QED
    BY <2>1 DEF Elements
<1>6. Elements(r) \subseteq InQueue \cup {p}
  BY <1>3 DEF Elements, InQueue
<1>7. InQueue \subseteq Elements(r)
  BY <1>4 DEF InQueue, Elements
<1>8. QED
  BY <1>5, <1>6, <1>7 DEF r

-----------------------------------------------------------------------------
(* The steps *)

\* A pending x that no call in base waits with is released, and base is what is
\* left of the stack.
LEMMA FreeMemory ==
  ASSUME MemoryInv, NEW x \in Pending, NEW base \in Seq(FrameType),
         Free(x), InQueue' = InQueue \ {x}, stack' = base, sent' = sent,
         Frames(base, InQueue, st, sent), Nesting(base),
         \A i \in 1..Len(base) : base[i].p # x,
         \A p \in Pending : st[p] = "live" /\ p # x => p \in InQueue \/ Responds(base, p)
  PROVE  Memory'
<1>1. /\ st \in [Pending -> {"new", "live", "freed"}] /\ InQueue \subseteq Pending
      /\ timer \subseteq Pending
  BY QueueFacts DEF MemoryInv, TypeOK
<1>2. /\ \A p \in Pending : st'[p] = IF p = x THEN "freed" ELSE st[p]
      /\ timer' = timer \ {x}
  BY <1>1 DEF Free
<1>3. Frames(base, InQueue', st', sent')
  <2>1. \A i \in 1..Len(base) : base[i].p \in Pending =>
          (base[i].p \in InQueue <=> base[i].p \in InQueue') /\ st[base[i].p] = st'[base[i].p]
    BY <1>2
  <2>2. QED
    BY <2>1, FramesStay
<1>4. \A p \in InQueue' \cup timer' : st'[p] = "live"
  BY <1>1, <1>2 DEF MemoryInv, Memory
<1>5. timer' \subseteq sent'
  BY <1>2 DEF MemoryInv, Memory
<1>6. Kept(InQueue', base, st')
  BY <1>2 DEF Kept
<1>7. QED
  BY <1>3, <1>4, <1>5, <1>6 DEF Memory

\* A step that frees no pending, submits none and leaves the queue as it is.
LEMMA StackMemory ==
  ASSUME MemoryInv, UNCHANGED <<queue, st, timer>>, sent \subseteq sent',
         Frames(stack', InQueue, st, sent'), Nesting(stack'),
         \A p : Responds(stack, p) => Responds(stack', p)
  PROVE  Memory'
<1>1. InQueue' = InQueue
  BY DEF InQueue
<1>2. Kept(InQueue, stack', st)
  BY DEF MemoryInv, Memory, Kept
<1>3. QED
  BY <1>1, <1>2 DEF MemoryInv, Memory

\* From where plugins call, a shallow one is in no on_send or on_timeout.
LEMMA CallerQuiet ==
  ASSUME MemoryInv, Control = "loop" \/ MayCall \/ Control = "cancel"
  PROVE  Shallow => \A i \in 1..Len(stack) : ~Sends(stack[i])
<1>1. SUFFICES ASSUME Shallow, NEW i \in 1..Len(stack) PROVE ~Sends(stack[i])
  OBVIOUS
<1>2. stack \in Seq(FrameType) /\ Len(stack) \in Nat /\ stack # <<>> /\ Head(stack) = stack[1]
  <2>1. stack \in Seq(FrameType)
    BY QueueFacts DEF MemoryInv
  <2>2. stack # <<>>
    BY <1>1, <2>1, EmptySeq
  <2>3. QED
    BY <2>1, <2>2, LenProperties
<1>3. CASE i = 1
  <2>1. Control = stack[1].fn
    BY <1>2 DEF Control
  <2>2. stack[1].fn \in {"loop", "resp", "cancel"}
    BY <1>1, <2>1 DEF MayCall, Shallow
  <2>3. QED
    BY <1>3, <2>2 DEF Sends
<1>4. CASE i # 1
  <2>1. i \in 2..Len(stack)
    BY <1>2, <1>4
  <2>2. QED
    BY <1>1, <2>1 DEF MemoryInv, Memory, Nesting
<1>5. QED
  BY <1>3, <1>4

\* The first half of a send, of a pending that no call waits with.
LEMMA SendFrames ==
  ASSUME TypeOK, NEW q \in Seq(Pending), NEW renew \in BOOLEAN, NEW S,
         Frames(stack, Elements(q), S, sent), Nesting(stack),
         Shallow => \A i \in 1..Len(stack) : ~Sends(stack[i]),
         HalIdleSend(q, renew)
  PROVE  /\ sent \subseteq sent' /\ Frames(stack', Elements(q), S, sent') /\ Nesting(stack')
         /\ \A p : Responds(stack, p) => Responds(stack', p)
<1>1. CASE UNCHANGED <<sent, atreq, wire, stack>>
  BY <1>1
<1>2. ASSUME NEW k \in 1..Len(q), NEW ret \in Outcomes,
             NextIndex(q, Imm, sent, k),
             sent' = sent \cup {q[k]},
             Push(Frame("send", q[k], ret, renew, None))
      PROVE  /\ sent \subseteq sent' /\ Frames(stack', Elements(q), S, sent') /\ Nesting(stack')
             /\ \A p : Responds(stack, p) => Responds(stack', p)
  <2> DEFINE f == Frame("send", q[k], ret, renew, None)
  <2>1. q[k] \in Pending /\ q[k] \in Elements(q) /\ q[k] \notin sent
    BY <1>2, ElementOfSeq DEF NextIndex, Elements
  <2>2. f \in FrameType /\ f.p = q[k] /\ f.fn = "send" /\ f.ret = ret
    BY <2>1, ConstantsAssumption DEF Frame, FrameType
  <2>3. stack \in Seq(FrameType) /\ stack' = <<f>> \o stack
    BY <1>2 DEF Push, TypeOK
  <2>4. ASSUME NEW i \in 1..Len(stack) PROVE stack[i].p # q[k]
    <3>1. stack[i] \in FrameType
      BY <2>3, ElementOfSeq
    <3>2. stack[i].fn \in {"resp", "send", "timeout"} \/ stack[i].p = None
      BY <3>1 DEF FrameType
    <3>3. FrameOk(stack[i], Elements(q), S, sent)
      BY DEF Frames
    <3>4. QED
      BY <2>1, <3>2, <3>3, ConstantsAssumption DEF FrameOk
  <2>5. FrameOk(f, Elements(q), S, sent')
    BY <1>2, <2>1, <2>2 DEF FrameOk
  <2>6. Frames(stack, Elements(q), S, sent')
    <3>1. sent \subseteq sent'
      BY <1>2
    <3>2. QED
      BY <2>3, <3>1, FramesStay
  <2> HIDE DEF f
  <2>7. QED
    BY <1>2, <2>2, <2>3, <2>4, <2>5, <2>6, PushFrame
<1>3. QED
  BY <1>1, <1>2 DEF HalIdleSend

\* tcore_hal_send_force and the idle source.
LEMMA SendMemory ==
  ASSUME MemoryInv, IdleSend \/ SendForce
  PROVE  Memory'
<1>1. Control = "loop" \/ MayCall
  BY DEF IdleSend, SendForce
<1>2. PICK renew \in BOOLEAN : HalIdleSend(queue, renew)
  BY DEF IdleSend, SendForce
<1>3. UNCHANGED <<queue, st, timer>>
  BY DEF IdleSend, SendForce
<1>4. TypeOK /\ queue \in Seq(Pending)
  BY QueueFacts DEF MemoryInv
<1>5. Shallow => \A i \in 1..Len(stack) : ~Sends(stack[i])
  BY <1>1, CallerQuiet
<1>6. Frames(stack, Elements(queue), st, sent) /\ Nesting(stack)
  BY DEF MemoryInv, Memory, InQueue
<1>7. /\ sent \subseteq sent' /\ Frames(stack', Elements(queue), st, sent') /\ Nesting(stack')
      /\ \A p : Responds(stack, p) => Responds(stack', p)
  BY <1>2, <1>4, <1>5, <1>6, SendFrames
<1>8. QED
  BY <1>3, <1>7, StackMemory DEF InQueue

\* tcore_hal_send_request
LEMMA SubmitMemory ==
  ASSUME MemoryInv, NEW p \in Pending, SendRequest(p)
  PROVE  Memory'
<1>1. /\ TypeOK /\ queue \in Seq(Pending) /\ stack \in Seq(FrameType) /\ Submitted(stack)
      /\ InQueue \subseteq Pending \ New
      /\ st \in [Pending -> {"new", "live", "freed"}] /\ CoreInv /\ timer \subseteq Pending
  BY QueueFacts DEF MemoryInv, TypeOK
<1>2. PICK i \in 1..(Len(queue) + 1) : queue' = InsertAt(queue, i, p)
  BY DEF SendRequest
<1>3. InQueue' = InQueue \cup {p}
  BY <1>1, <1>2, PushedElements DEF InQueue
<1>4. /\ MayCall /\ p \in New /\ timer' = timer
      /\ st' = [st EXCEPT ![p] = "live"]
      /\ HalIdleSend(queue', FALSE) \/ UNCHANGED <<sent, stack>>
  BY DEF SendRequest, New
<1>5. \A x \in Pending : st'[x] = IF x = p THEN "live" ELSE st[x]
  BY <1>1, <1>4
<1>6. Frames(stack, InQueue', st', sent)
  <2>1. ASSUME NEW j \in 1..Len(stack) PROVE stack[j].p # p
    BY <1>1, <1>4 DEF Submitted, Avoids
  <2>2. \A j \in 1..Len(stack) : stack[j].p \in Pending =>
          (stack[j].p \in InQueue <=> stack[j].p \in InQueue') /\ st[stack[j].p] = st'[stack[j].p]
    BY <1>3, <1>5, <2>1
  <2>3. Frames(stack, InQueue, st, sent)
    BY DEF MemoryInv, Memory
  <2>4. QED
    BY <1>1, <2>2, <2>3, FramesStay
<1>7. Nesting(stack) /\ (Shallow => \A j \in 1..Len(stack) : ~Sends(stack[j]))
  BY <1>4, CallerQuiet DEF MemoryInv, Memory
<1>8. /\ sent \subseteq sent' /\ Frames(stack', InQueue', st', sent') /\ Nesting(stack')
      /\ \A x : Responds(stack, x) => Responds(stack', x)
  <2>1. CASE HalIdleSend(queue', FALSE)
    <3>1. queue' \in Seq(Pending)
      BY <1>1, <1>2, InsertAtProperties
    <3>2. Frames(stack, Elements(queue'), st', sent)
      BY <1>6 DEF InQueue
    <3>3. FALSE \in BOOLEAN
      OBVIOUS
    <3>4. /\ sent \subseteq sent' /\ Frames(stack', Elements(queue'), st', sent')
          /\ Nesting(stack') /\ \A x : Responds(stack, x) => Responds(stack', x)
      BY <1>1, <1>7, <2>1, <3>1, <3>2, <3>3, SendFrames
    <3>5. QED
      BY <3>4 DEF InQueue
  <2>2. CASE UNCHANGED <<sent, stack>>
    BY <1>6, <1>7, <2>2
  <2>3. QED
    BY <1>4, <2>1, <2>2
<1>9. \A x \in InQueue' \cup timer' : st'[x] = "live"
  <2>1. SUFFICES ASSUME NEW x \in InQueue' \cup timer' PROVE st'[x] = "live"
    OBVIOUS
  <2>2. x \in Pending /\ (x = p \/ x \in InQueue \cup timer)
    BY <1>1, <1>3, <1>4
  <2>3. QED
    BY <1>5, <2>2 DEF MemoryInv, Memory
<1>10. timer' \subseteq sent'
  BY <1>4, <1>8 DEF MemoryInv, Memory
<1>11. Kept(InQueue', stack', st')
  BY <1>3, <1>5, <1>8 DEF MemoryInv, Memory, Kept
<1>12. QED
  BY <1>8, <1>9, <1>10, <1>11 DEF Memory

\* A delivery: the pending leaves the queue, and its on_response is called or it
\* is freed.
LEMMA DeliverMemory ==
  ASSUME MemoryInv, NEW i \in 1..Len(queue), NEW a, NEW hears,
         NEW base \in Seq(FrameType), Deliver(i, a, hears, base), sent' = sent,
         Frames(base, InQueue, st, sent), Nesting(base),
         Shallow => \A j \in 1..Len(base) : ~Sends(base[j]),
         \A j \in 1..Len(base) : base[j].p # queue[i],
         Kept(InQueue, base, st)
  PROVE  Memory'
<1> DEFINE x == queue[i]
<1>1. /\ CoreInv /\ TypeOK /\ queue \in Seq(Pending) /\ x \in InQueue /\ x \in Pending
      /\ InQueue \subseteq Pending
  BY QueueFacts DEF MemoryInv
<1>2. InQueue' = InQueue \ {x}
  BY <1>1, PopElements DEF Deliver, InQueue
<1>3. CASE x \notin hears
  <2>1. Free(x) /\ stack' = base
    BY <1>3 DEF Deliver, Answer
  <2>2. \A p \in Pending : st[p] = "live" /\ p # x => p \in InQueue \/ Responds(base, p)
    BY DEF Kept
  <2> HIDE DEF x
  <2>3. \A j \in 1..Len(base) : base[j].p # x
    BY DEF x
  <2>4. QED
    BY <1>1, <1>2, <2>1, <2>2, <2>3, FreeMemory
<1>4. CASE x \in hears
  <2> DEFINE f == Frame("resp", x, None, FALSE, None)
  <2>1. stack' = <<f>> \o base /\ UNCHANGED <<st, timer>>
    BY <1>4 DEF Deliver, Answer
  <2>2. f \in FrameType /\ f.p = x /\ f.fn = "resp"
    BY <1>1 DEF Frame, FrameType
  <2>3. st[x] = "live"
    BY <1>1 DEF MemoryInv, Memory
  <2>4. FrameOk(f, InQueue', st, sent)
    BY <1>2, <2>2, <2>3 DEF FrameOk
  <2>5. Frames(base, InQueue', st, sent)
    <3>1. \A j \in 1..Len(base) : base[j].p \in Pending =>
            (base[j].p \in InQueue <=> base[j].p \in InQueue') /\ st[base[j].p] = st[base[j].p]
      BY <1>2
    <3>2. QED
      BY <3>1, FramesStay
  <2> HIDE DEF f
  <2>6. /\ Frames(<<f>> \o base, InQueue', st, sent) /\ Nesting(<<f>> \o base)
        /\ \A p : Responds(base, p) => Responds(<<f>> \o base, p)
        /\ Responds(<<f>> \o base, x)
    BY <1>1, <2>2, <2>4, <2>5, PushFrame
  <2>7. Frames(stack', InQueue', st', sent') /\ Nesting(stack')
    BY <2>1, <2>6
  <2>8. Kept(InQueue', stack', st')
    BY <1>2, <2>1, <2>6 DEF Kept
  <2>9. (\A p \in InQueue' \cup timer' : st'[p] = "live") /\ timer' \subseteq sent'
    BY <1>2, <2>1 DEF MemoryInv, Memory
  <2>10. QED
    BY <2>7, <2>8, <2>9 DEF Memory
<1>5. QED
  BY <1>3, <1>4

\* What the innermost call is, when it returns.
LEMMA TopMemory ==
  ASSUME MemoryInv, Control \in {"send", "resp", "timeout", "cancel"}
  PROVE  /\ Head(stack) \in FrameType /\ Head(stack).fn = Control
         /\ Tail(stack) \in Seq(FrameType)
         /\ Control # "cancel" => Head(stack).p \in Pending \ New
         /\ Frames(Tail(stack), InQueue, st, sent) /\ Nesting(Tail(stack))
         /\ FrameOk(Head(stack), InQueue, st, sent)
         /\ Head(stack).p # None =>
              \A i \in 1..Len(Tail(stack)) : Tail(stack)[i].p # Head(stack).p
         /\ Shallow => \A i \in 1..Len(Tail(stack)) : ~Sends(Tail(stack)[i])
         /\ \A p : Responds(stack, p) =>
              Responds(Tail(stack), p) \/ (Control = "resp" /\ p = Head(stack).p)
<1>1. TypeOK /\ stack \in Seq(FrameType) /\ Submitted(stack)
  BY QueueFacts DEF MemoryInv
<1>2. /\ stack # <<>> /\ Head(stack) \in FrameType /\ Head(stack).fn = Control
      /\ Control # "cancel" => Head(stack).p \in Pending
  BY <1>1, TopType
<1>3. Head(stack).p \notin New
  BY <1>1, <1>2, TopSubmitted
<1>4. Frames(stack, InQueue, st, sent) /\ Nesting(stack)
  BY DEF MemoryInv, Memory
<1>5. QED
  BY <1>1, <1>2, <1>3, <1>4, PopFrame

\* A send that released nothing.
LEMMA ReturnMemory ==
  ASSUME MemoryInv, ReturnSendWaiting \/ ReturnSendHookStop
  PROVE  Memory'
<1> DEFINE p == Head(stack).p
<1>1. Control = "send" /\ stack' = Tail(stack) /\ sent' = sent /\ UNCHANGED <<queue, st>>
      /\ timer' \in {timer, timer \cup {p}}
  BY DEF ReturnSendWaiting, ReturnSendHookStop, SendDone
<1>2. /\ Frames(stack', InQueue, st, sent) /\ Nesting(stack')
      /\ p \in InQueue /\ p \in sent
      /\ \A x : Responds(stack, x) => Responds(stack', x)
  BY <1>1, TopMemory DEF FrameOk
<1>3. InQueue' = InQueue
  BY <1>1 DEF InQueue
<1>4. \A x \in InQueue' \cup timer' : st'[x] = "live"
  BY <1>1, <1>2, <1>3 DEF MemoryInv, Memory
<1>5. timer' \subseteq sent'
  BY <1>1, <1>2 DEF MemoryInv, Memory
<1>6. Kept(InQueue', stack', st')
  BY <1>1, <1>2, <1>3 DEF MemoryInv, Memory, Kept
<1>7. QED
  BY <1>1, <1>2, <1>3, <1>4, <1>5, <1>6 DEF Memory

\* A send that releases its pending.
LEMMA AutoFreeMemory ==
  ASSUME MemoryInv, ReturnSendAutoFree
  PROVE  Memory'
<1> DEFINE p == Head(stack).p
<1>1. Control = "send" /\ stack' = Tail(stack) /\ sent' = sent /\ Free(p)
  BY DEF ReturnSendAutoFree, SendDone
<1>2. PICK i \in 1..Len(queue) : queue[i] = p /\ queue' = RemoveAt(queue, i)
  BY DEF ReturnSendAutoFree
<1>3. InQueue' = InQueue \ {p}
  BY <1>2, PopElements DEF MemoryInv, InQueue
<1>4. /\ Tail(stack) \in Seq(FrameType) /\ p \in Pending
      /\ Frames(Tail(stack), InQueue, st, sent) /\ Nesting(Tail(stack))
      /\ \A x : Responds(stack, x) => Responds(Tail(stack), x)
      /\ p # None => \A j \in 1..Len(Tail(stack)) : Tail(stack)[j].p # p
  BY <1>1, TopMemory
<1>5. \A j \in 1..Len(Tail(stack)) : Tail(stack)[j].p # p
  BY <1>4, ConstantsAssumption
<1>6. \A x \in Pending : st[x] = "live" /\ x # p => x \in InQueue \/ Responds(Tail(stack), x)
  BY <1>4 DEF MemoryInv, Memory, Kept
<1> HIDE DEF p
<1>7. QED
  BY <1>1, <1>3, <1>4, <1>5, <1>6, FreeMemory

\* A failed send, which releases the head of the queue: no call waits with it, as
\* only shallow plugins have sends that fail.
LEMMA SendFailMemory ==
  ASSUME Reentrant \/ Shallow, MemoryInv, ReturnSendFail
  PROVE  Memory'
<1>1. /\ Control = "send" /\ Head(stack).ret = "FAIL" /\ stack' = Tail(stack) /\ sent' = sent
      /\ \/ queue = <<>> /\ UNCHANGED <<queue, st, timer>>
         \/ queue # <<>> /\ queue' = Tail(queue) /\ Free(Head(queue))
  BY DEF ReturnSendFail, SendDone
<1>2. /\ Tail(stack) \in Seq(FrameType)
      /\ Frames(Tail(stack), InQueue, st, sent) /\ Nesting(Tail(stack))
      /\ \A x : Responds(stack, x) => Responds(Tail(stack), x)
      /\ Shallow => \A i \in 1..Len(Tail(stack)) : ~Sends(Tail(stack)[i])
      /\ Head(stack).ret \in Outcomes
  BY <1>1, TopMemory DEF FrameOk
<1>3. \A i \in 1..Len(Tail(stack)) : ~Sends(Tail(stack)[i])
  BY <1>1, <1>2 DEF Reentrant
<1>4. CASE queue = <<>> /\ UNCHANGED <<queue, st, timer>>
  BY <1>1, <1>2, <1>4, StackMemory
<1>5. CASE queue # <<>> /\ queue' = Tail(queue) /\ Free(Head(queue))
  <2> DEFINE p == Head(queue)
  <2>1. InQueue' = InQueue \ {p} /\ p \in InQueue
    BY <1>5, TailElements DEF MemoryInv, InQueue
  <2>2. p \in Pending /\ p # None
    BY <2>1, QueueFacts, ConstantsAssumption DEF MemoryInv
  <2>3. ASSUME NEW i \in 1..Len(Tail(stack)) PROVE Tail(stack)[i].p # p
    <3>1. Tail(stack)[i] \in FrameType
      BY <1>2, ElementOfSeq
    <3>2. Tail(stack)[i].fn = "resp" \/ Tail(stack)[i].p = None
      BY <1>3, <3>1 DEF FrameType, Sends
    <3>3. FrameOk(Tail(stack)[i], InQueue, st, sent)
      BY <1>2 DEF Frames
    <3>4. QED
      BY <2>1, <2>2, <3>2, <3>3 DEF FrameOk
  <2>4. \A x \in Pending : st[x] = "live" /\ x # p => x \in InQueue \/ Responds(Tail(stack), x)
    BY <1>2 DEF MemoryInv, Memory, Kept
  <2> HIDE DEF p
  <2>5. Free(p)
    BY <1>5 DEF p
  <2>6. QED
    BY <1>1, <1>2, <2>1, <2>2, <2>3, <2>4, <2>5, FreeMemory
<1>6. QED
  BY <1>1, <1>4, <1>5

\* The end of a response.
LEMMA ResponseMemory ==
  ASSUME MemoryInv, ReturnResponse
  PROVE  Memory'
<1> DEFINE p == Head(stack).p
<1>1. Control = "resp" /\ stack' = Tail(stack) /\ sent' = sent /\ Free(p) /\ queue' = queue
  BY DEF ReturnResponse
<1>2. /\ Tail(stack) \in Seq(FrameType) /\ p \in Pending /\ p \notin InQueue
      /\ Frames(Tail(stack), InQueue, st, sent) /\ Nesting(Tail(stack))
      /\ \A x : Responds(stack, x) => Responds(Tail(stack), x) \/ x = p
      /\ p # None => \A j \in 1..Len(Tail(stack)) : Tail(stack)[j].p # p
  BY <1>1, TopMemory DEF FrameOk
<1>3. InQueue' = InQueue \ {p}
  BY <1>1, <1>2 DEF InQueue
<1>4. \A j \in 1..Len(Tail(stack)) : Tail(stack)[j].p # p
  BY <1>2, ConstantsAssumption
<1>5. \A x \in Pending : st[x] = "live" /\ x # p => x \in InQueue \/ Responds(Tail(stack), x)
  BY <1>2 DEF MemoryInv, Memory, Kept
<1> HIDE DEF p
<1>6. QED
  BY <1>1, <1>2, <1>3, <1>4, <1>5, FreeMemory

\* The main loop runs when no call waits.
LEMMA LoopEmpty ==
  ASSUME TypeOK, Control = "loop"
  PROVE  stack = <<>> /\ stack \in Seq(FrameType) /\ Len(stack) = 0
<1>1. stack \in Seq(FrameType)
  BY DEF TypeOK
<1>2. stack = <<>>
  <2>1. ASSUME stack # <<>> PROVE FALSE
    <3>1. Head(stack) \in FrameType
      BY <1>1, <2>1, HeadTailProperties
    <3>2. QED
      BY <2>1, <3>1 DEF Control, FrameType
  <2>2. QED
    BY <2>1
<1>3. QED
  BY <1>1, <1>2

\* An answer of the modem.
LEMMA RespondMemory ==
  ASSUME MemoryInv, RespondCustom \/ RespondAt
  PROVE  Memory'
<1>1. TypeOK /\ queue \in Seq(Pending) /\ Control = "loop" /\ sent' = sent
  BY QueueFacts DEF MemoryInv, RespondCustom, RespondAt
<1>2. stack = <<>> /\ stack \in Seq(FrameType) /\ Len(stack) = 0
  BY <1>1, LoopEmpty
<1>3. /\ Frames(stack, InQueue, st, sent) /\ Nesting(stack) /\ Kept(InQueue, stack, st)
  BY DEF MemoryInv, Memory
<1>4. \A j \in 1..Len(stack) : FALSE
  BY <1>2
<1>5. ASSUME NEW i \in 1..Len(queue), NEW a, Deliver(i, a, listening, stack)
      PROVE  Memory'
  BY <1>1, <1>2, <1>3, <1>4, <1>5, DeliverMemory
<1>6. CASE UNCHANGED <<queue, st, timer, stack>>
  BY <1>1, <1>3, <1>6, StackMemory
<1>7. CASE RespondCustom
  BY <1>5, <1>6, <1>7 DEF RespondCustom
<1>8. CASE RespondAt
  <2>1. CASE atreq # None /\ queue # <<>>
    <3>1. 1 \in 1..Len(queue)
      BY <1>1, <2>1, EmptySeq
    <3>2. Deliver(1, wire[1], listening, stack)
      BY <1>8, <2>1 DEF RespondAt
    <3>3. QED
      BY <1>5, <3>1, <3>2
  <2>2. CASE ~(atreq # None /\ queue # <<>>)
    BY <1>6, <1>8, <2>2 DEF RespondAt
  <2>3. QED
    BY <2>1, <2>2
<1>9. QED
  BY <1>7, <1>8

\* A timer fires: its pending is in the queue, as no on_response is running.
LEMMA TimeoutMemory ==
  ASSUME MemoryInv, NEW p \in Pending, Timeout(p)
  PROVE  Memory'
<1> DEFINE f == Frame("timeout", p, None, FALSE, None)
<1>1. TypeOK /\ Control = "loop" /\ sent' = sent /\ UNCHANGED <<queue, st>>
      /\ p \in timer /\ timer' = timer \ {p} /\ stack' = <<f>> \o stack
  BY QueueFacts DEF MemoryInv, Timeout, Push
<1>2. stack = <<>> /\ stack \in Seq(FrameType) /\ Len(stack) = 0
  BY <1>1, LoopEmpty
<1>3. \A j \in 1..Len(stack) : FALSE
  BY <1>2
<1>4. /\ Frames(stack, InQueue, st, sent) /\ Nesting(stack) /\ Kept(InQueue, stack, st)
      /\ p \in sent /\ st[p] = "live"
  BY <1>1 DEF MemoryInv, Memory
<1>5. p \in InQueue
  BY <1>3, <1>4 DEF Kept, Responds
<1>6. f \in FrameType /\ f.p = p /\ f.fn = "timeout"
  BY DEF Frame, FrameType
<1>7. FrameOk(f, InQueue, st, sent)
  BY <1>4, <1>5, <1>6 DEF FrameOk
<1> HIDE DEF f
<1>8. /\ Frames(stack', InQueue, st, sent) /\ Nesting(stack')
      /\ \A x : Responds(stack, x) => Responds(stack', x)
  BY <1>1, <1>2, <1>3, <1>4, <1>6, <1>7, PushFrame
<1>9. InQueue' = InQueue
  BY <1>1 DEF InQueue
<1>10. (\A x \in InQueue' \cup timer' : st'[x] = "live") /\ timer' \subseteq sent'
  BY <1>1, <1>9 DEF MemoryInv, Memory
<1>11. Kept(InQueue', stack', st')
  BY <1>1, <1>4, <1>8, <1>9 DEF Kept
<1>12. QED
  BY <1>1, <1>8, <1>9, <1>10, <1>11 DEF Memory

\* The end of a timeout: what is released is the pending that timed out.
LEMMA ReturnTimeoutMemory ==
  ASSUME MemoryInv, ReturnTimeout
  PROVE  Memory'
<1> DEFINE p == Head(stack).p
<1>1. Control = "timeout" /\ sent' = sent
  BY DEF ReturnTimeout
<1>2. /\ Tail(stack) \in Seq(FrameType) /\ p \in Pending \ New
      /\ Frames(Tail(stack), InQueue, st, sent) /\ Nesting(Tail(stack))
      /\ \A x : Responds(stack, x) => Responds(Tail(stack), x)
      /\ Shallow => \A i \in 1..Len(Tail(stack)) : ~Sends(Tail(stack)[i])
      /\ p # None => \A j \in 1..Len(Tail(stack)) : Tail(stack)[j].p # p
  BY <1>1, TopMemory
<1>3. \A j \in 1..Len(Tail(stack)) : Tail(stack)[j].p # p
  BY <1>2, ConstantsAssumption
<1>4. Kept(InQueue, Tail(stack), st)
  BY <1>2 DEF MemoryInv, Memory, Kept
<1>5. CASE UNCHANGED <<queue, st, timer>> /\ stack' = Tail(stack)
  BY <1>1, <1>2, <1>5, StackMemory
<1>6. ASSUME NEW i \in 1..Len(queue), FirstIndex(queue, WithId(id[p]), i),
             Deliver(i, Cancelled, listening', Tail(stack))
      PROVE  Memory'
  <2>1. queue[i] \in Pending \ New
    BY QueueFacts DEF MemoryInv
  <2>2. id[queue[i]] = id[p]
    BY <1>6 DEF FirstIndex, WithId
  <2>3. queue[i] = p
    BY <1>2, <2>1, <2>2 DEF MemoryInv, CoreInv, Bookkeeping
  <2>4. \A j \in 1..Len(Tail(stack)) : Tail(stack)[j].p # queue[i]
    BY <1>3, <2>3
  <2> HIDE DEF p
  <2>5. QED
    BY <1>1, <1>2, <1>4, <1>6, <2>4, DeliverMemory
<1>7. QED
  BY <1>5, <1>6 DEF ReturnTimeout

\* tcore_queue_cancel_pending_by_command begins.
LEMMA CancelMemory ==
  ASSUME MemoryInv, NEW c \in Commands, Cancel(c)
  PROVE  Memory'
<1> DEFINE f == Frame("cancel", None, None, FALSE, c)
<1>1. /\ MayCall /\ UNCHANGED <<queue, st, timer, sent>> /\ stack' = <<f>> \o stack
      /\ stack \in Seq(FrameType)
  BY QueueFacts DEF MemoryInv, Cancel, Push
<1>2. f \in FrameType /\ f.p = None /\ f.fn = "cancel"
  BY DEF Frame, FrameType
<1>3. FrameOk(f, InQueue, st, sent)
  BY <1>2 DEF FrameOk
<1>4. Frames(stack, InQueue, st, sent) /\ Nesting(stack)
  BY DEF MemoryInv, Memory
<1>5. Shallow => \A i \in 1..Len(stack) : ~Sends(stack[i])
  BY <1>1, CallerQuiet
<1> HIDE DEF f
<1>6. /\ Frames(stack', InQueue, st, sent) /\ Nesting(stack')
      /\ \A x : Responds(stack, x) => Responds(stack', x)
  BY <1>1, <1>2, <1>3, <1>4, <1>5, PushFrame
<1>7. QED
  BY <1>1, <1>6, StackMemory

\* A turn of its loop: no call waits with a pending of the queue.
LEMMA CancelStepMemory ==
  ASSUME Reentrant \/ Shallow, MemoryInv, CancelStep
  PROVE  Memory'
<1>1. Control = "cancel" /\ sent' = sent /\ stack \in Seq(FrameType)
  BY QueueFacts DEF MemoryInv, CancelStep
<1>2. /\ Head(stack) \in FrameType /\ Head(stack).fn = "cancel"
      /\ Frames(Tail(stack), InQueue, st, sent) /\ Nesting(Tail(stack))
      /\ \A x : Responds(stack, x) => Responds(Tail(stack), x)
  BY <1>1, TopMemory
<1>3. Head(stack).cmd \in Commands
  BY <1>2 DEF FrameType
<1>4. \A i \in 1..Len(stack) : ~Sends(stack[i])
  BY <1>1, <1>3, CallerQuiet DEF Reentrant
<1>5. /\ Frames(stack, InQueue, st, sent) /\ Nesting(stack) /\ Kept(InQueue, stack, st)
  BY DEF MemoryInv, Memory
<1>6. CASE UNCHANGED <<queue, st, timer>> /\ stack' \in {stack, Tail(stack)}
  BY <1>1, <1>2, <1>5, <1>6, StackMemory
<1>7. ASSUME NEW i \in 1..Len(queue), Deliver(i, Cancelled, listening, stack)
      PROVE  Memory'
  <2>1. queue[i] \in InQueue /\ queue[i] \in Pending /\ queue[i] # None
    BY QueueFacts, ConstantsAssumption DEF MemoryInv
  <2>2. ASSUME NEW j \in 1..Len(stack) PROVE stack[j].p # queue[i]
    <3>1. stack[j] \in FrameType
      BY <1>1, ElementOfSeq
    <3>2. stack[j].fn = "resp" \/ stack[j].p = None
      BY <1>4, <3>1 DEF FrameType, Sends
    <3>3. FrameOk(stack[j], InQueue, st, sent)
      BY <1>5 DEF Frames
    <3>4. QED
      BY <2>1, <3>2, <3>3 DEF FrameOk
  <2>3. QED
    BY <1>1, <1>4, <1>5, <1>7, <2>2, DeliverMemory
<1>8. QED
  BY <1>6, <1>7 DEF CancelStep

-----------------------------------------------------------------------------
(* The theorems *)

\* Every step keeps the invariant.
LEMMA MemoryStep ==
  ASSUME Reentrant \/ Shallow, MemoryInv, [Next]_vars
  PROVE  MemoryInv'
<1>1. CoreInv'
  BY CoreStep DEF MemoryInv
<1>2. CASE LoseAnswer \/ UNCHANGED vars
  <2>1. UNCHANGED <<queue, st, timer, sent, stack>>
    BY <1>2 DEF LoseAnswer, vars
  <2>2. Frames(stack, InQueue, st, sent) /\ Nesting(stack)
    BY DEF MemoryInv, Memory
  <2>3. Memory'
    BY <2>1, <2>2, StackMemory
  <2>4. QED
    BY <1>1, <2>3 DEF MemoryInv
<1>3. CASE Next /\ ~LoseAnswer
  <2>1. Memory'
    BY <1>3, SubmitMemory, SendMemory, ReturnMemory, AutoFreeMemory, SendFailMemory,
       ResponseMemory, RespondMemory, TimeoutMemory, ReturnTimeoutMemory, CancelMemory,
       CancelStepMemory DEF Next
  <2>2. QED
    BY <1>1, <2>1 DEF MemoryInv
<1>4. QED
  BY <1>2, <1>3

\* Nothing is allocated at the start.
LEMMA InitMemory == Init => MemoryInv
<1>1. SUFFICES ASSUME Init PROVE MemoryInv
  OBVIOUS
<1>2. /\ queue = <<>> /\ stack = <<>> /\ Len(<<>>) = 0 /\ timer = {}
      /\ \A p \in Pending : st[p] = "new"
  BY <1>1 DEF Init
<1>3. \A i \in 1..0 : FALSE
  OBVIOUS
<1>4. \A i \in 2..0 : FALSE
  OBVIOUS
<1>5. InQueue = {}
  BY <1>2, <1>3 DEF InQueue, Elements
<1>6. Frames(stack, InQueue, st, sent) /\ Nesting(stack)
  BY <1>2, <1>3, <1>4 DEF Frames, Nesting
<1>7. Kept(InQueue, stack, st)
  BY <1>2 DEF Kept
<1>8. QED
  BY <1>1, <1>2, <1>5, <1>6, <1>7, InitCore DEF MemoryInv, Memory

\* The invariant implies both properties.
LEMMA MemorySuffices == MemoryInv => NoUseAfterFree /\ NoLeak
<1>1. SUFFICES ASSUME MemoryInv PROVE NoUseAfterFree /\ NoLeak
  OBVIOUS
<1>2. stack \in Seq(FrameType) /\ \A i \in 1..Len(queue) : queue[i] \in InQueue
  BY <1>1, QueueFacts DEF MemoryInv
<1>3. \A p \in InQueue \cup timer : st[p] = "live"
  BY <1>1 DEF MemoryInv, Memory
<1>4. ASSUME NEW i \in 1..Len(stack), stack[i].p # None PROVE st[stack[i].p] = "live"
  <2>1. stack[i] \in FrameType
    BY <1>2, ElementOfSeq
  <2>2. stack[i].fn \in {"resp", "send", "timeout"}
    BY <1>4, <2>1 DEF FrameType
  <2>3. FrameOk(stack[i], InQueue, st, sent)
    BY <1>1 DEF MemoryInv, Memory, Frames
  <2>4. QED
    BY <1>3, <2>2, <2>3 DEF FrameOk
<1>5. NoUseAfterFree
  BY <1>2, <1>3, <1>4 DEF NoUseAfterFree
<1>6. NoLeak
  BY <1>1 DEF MemoryInv, Memory, Kept, Responds, InQueue, Elements, NoLeak
<1>7. QED
  BY <1>5, <1>6

\* No function of the library comes back from a callback to a pending that was
\* freed meanwhile, and no timer and no queue holds such a one, in either mode
\* (tcore_pending_free and its callers): when no send fails and nothing is
\* cancelled by command, wherever plugins call the library from; or when they
\* call it from no on_send and no on_timeout.
THEOREM MemorySafe == ASSUME Reentrant \/ Shallow PROVE Spec => []NoUseAfterFree
<1>1. MemoryInv /\ [Next]_vars => MemoryInv'
  BY MemoryStep
<1>2. QED
  BY <1>1, InitMemory, MemorySuffices, PTL DEF Spec

\* Under the same disciplines no pending is leaked: one that is not freed is in
\* the queue, or its on_response is running and will free it.
THEOREM NothingLeaks == ASSUME Reentrant \/ Shallow PROVE Spec => []NoLeak
<1>1. MemoryInv /\ [Next]_vars => MemoryInv'
  BY MemoryStep
<1>2. QED
  BY <1>1, InitMemory, MemorySuffices, PTL DEF Spec
-----------------------------------------------------------------------------
(* Wakeups *)

\* No send fails, and none is asked for at once that releases its pending.
Wakeful == /\ "FAIL" \notin Outcomes
           /\ \A r \in Requests : r.prio = "IMMEDIATELY" => ~r.auto

\* The call f, when it returns, releases p and drops the value that renews the
\* idle source.  (r is what the plugins configured.)
Drops(r, f, p) ==
  f.fn = "send" /\ f.p = p /\ r[p].auto /\ ~f.renew /\ f.ret # "HOOK_STOP"

\* None of the calls in s does: whatever releases p adds an idle source.
Wakes(r, s, p) == \A i \in 1..Len(s) : ~Drops(r, s[i], p)

\* An idle source is there, or will be when an on_response returns, or when a
\* pending that is out leaves the queue Q.
Stirring(r, Q, T, s, n) ==
  \/ n > 0
  \/ \E p : Responds(s, p)
  \/ \E p \in Q \cap T : Wakes(r, s, p)

Awake == InQueue # {} => Stirring(req, InQueue, sent, stack, idle)

Succeeds(s) == \A i \in 1..Len(s) : s[i].fn = "send" => s[i].ret \in Outcomes

\* The inductive invariant.
WakeInv == CoreInv /\ Succeeds(stack) /\ Awake

\* One more call.
LEMMA PushWakes ==
  ASSUME NEW f \in FrameType, NEW base \in Seq(FrameType), NEW r
  PROVE  /\ \A p : Wakes(r, base, p) /\ ~Drops(r, f, p) => Wakes(r, <<f>> \o base, p)
         /\ Succeeds(base) /\ (f.fn = "send" => f.ret \in Outcomes)
              => Succeeds(<<f>> \o base)
         /\ \A p : Responds(base, p) => Responds(<<f>> \o base, p)
         /\ f.fn = "resp" => Responds(<<f>> \o base, f.p)
<1> DEFINE t == <<f>> \o base
           n == Len(base)
<1>1. n \in Nat /\ Len(t) = n + 1 /\ t[1] = f /\ \A i \in 1..n : t[i + 1] = base[i]
  BY PushElements
<1> HIDE DEF t, n
<1>2. ASSUME NEW i \in 1..Len(t), i # 1 PROVE i - 1 \in 1..n /\ t[i] = base[i - 1]
  <2>1. i - 1 \in 1..n /\ (i - 1) + 1 = i
    BY <1>1, <1>2
  <2>2. QED
    BY <1>1, <2>1
<1>3. \A p : Wakes(r, base, p) /\ ~Drops(r, f, p) => Wakes(r, t, p)
  BY <1>1, <1>2 DEF Wakes, n
<1>4. Succeeds(base) /\ (f.fn = "send" => f.ret \in Outcomes) => Succeeds(t)
  BY <1>1, <1>2 DEF Succeeds, n
<1>5. \A p : Responds(base, p) => Responds(t, p)
  <2>1. \A i \in 1..n : i + 1 \in 1..Len(t)
    BY <1>1
  <2>2. QED
    BY <1>1, <2>1 DEF Responds, n
<1>6. f.fn = "resp" => Responds(t, f.p)
  <2>1. 1 \in 1..Len(t)
    BY <1>1
  <2>2. QED
    BY <1>1, <2>1 DEF Responds
<1>7. QED
  BY <1>3, <1>4, <1>5, <1>6 DEF t

\* One call less.
LEMMA PopWakes ==
  ASSUME NEW s \in Seq(FrameType), s # <<>>, NEW r
  PROVE  /\ Tail(s) \in Seq(FrameType)
         /\ \A p : Wakes(r, s, p) => Wakes(r, Tail(s), p) /\ ~Drops(r, Head(s), p)
         /\ Succeeds(s) => Succeeds(Tail(s)) /\ (Head(s).fn = "send" => Head(s).ret \in Outcomes)
         /\ Head(s).fn # "resp" => \A p : Responds(s, p) => Responds(Tail(s), p)
<1> DEFINE t == Tail(s)
           n == Len(t)
<1>1. /\ Len(s) \in Nat \ {0} /\ Head(s) = s[1] /\ t \in Seq(FrameType)
      /\ n = Len(s) - 1 /\ \A i \in 1..n : t[i] = s[i + 1]
  BY EmptySeq, HeadTailProperties, LenProperties
<1> HIDE DEF t, n
<1>2. 1 \in 1..Len(s) /\ \A i \in 1..n : i + 1 \in 1..Len(s)
  BY <1>1
<1>3. \A p : Wakes(r, s, p) => Wakes(r, t, p) /\ ~Drops(r, Head(s), p)
  BY <1>1, <1>2 DEF Wakes, n
<1>4. Succeeds(s) => Succeeds(t) /\ (Head(s).fn = "send" => Head(s).ret \in Outcomes)
  BY <1>1, <1>2 DEF Succeeds, n
<1>5. ASSUME Head(s).fn # "resp", NEW p, Responds(s, p) PROVE Responds(t, p)
  <2>1. PICK i \in 1..Len(s) : s[i].fn = "resp" /\ s[i].p = p
    BY <1>5 DEF Responds
  <2>2. i # 1
    BY <1>1, <1>5, <2>1
  <2>3. i - 1 \in 1..n /\ (i - 1) + 1 = i
    BY <1>1, <2>2
  <2>4. t[i - 1] = s[i]
    BY <1>1, <2>3
  <2>5. QED
    BY <2>1, <2>3, <2>4 DEF Responds, n
<1>6. QED
  BY <1>1, <1>3, <1>4, <1>5 DEF t

\* A queue in which nothing can be sent has a pending that is out.
LEMMA NothingNext ==
  ASSUME NEW q \in Seq(Pending), ~HasNext(q, Imm, sent), q # <<>>
  PROVE  Elements(q) \cap sent # {}
<1>1. 1 \in 1..Len(q)
  BY EmptySeq, LenProperties
<1>2. \A j \in 1..(1 - 1) : FALSE
  OBVIOUS
<1>3. q[1] \in sent
  BY <1>1, <1>2 DEF HasNext, NextIndex
<1>4. QED
  BY <1>1, <1>3 DEF Elements

\* An empty queue has no elements.
LEMMA NoElements ==
  ASSUME NEW q \in Seq(Pending)
  PROVE  q = <<>> <=> Elements(q) = {}
<1>1. CASE q = <<>>
  <2>1. \A i \in 1..Len(<<>>) : FALSE
    OBVIOUS
  <2>2. QED
    BY <1>1, <2>1 DEF Elements
<1>2. CASE q # <<>>
  <2>1. 1 \in 1..Len(q)
    BY <1>2, EmptySeq, LenProperties
  <2>2. QED
    BY <1>2, <2>1 DEF Elements
<1>3. QED
  BY <1>1, <1>2

\* Nothing waits in the loop, so whatever is out wakes it.
LEMMA EmptyWakes ==
  ASSUME stack = <<>>, NEW r
  PROVE  /\ \A p : Wakes(r, stack, p)
         /\ \A p : ~Responds(stack, p)
<1>1. \A i \in 1..Len(<<>>) : FALSE
  OBVIOUS
<1>2. QED
  BY <1>1 DEF Wakes, Responds

\* The first half of a send, when something already keeps the queue going.
LEMMA SendStirs ==
  ASSUME TypeOK, NEW q \in Seq(Pending), NEW renew \in BOOLEAN, NEW r, NEW n,
         HalIdleSend(q, renew), Succeeds(stack),
         Stirring(r, Elements(q), sent, stack, n)
  PROVE  Stirring(r, Elements(q), sent', stack', n)
<1>1. CASE UNCHANGED <<sent, atreq, wire, stack>>
  BY <1>1
<1>2. ASSUME NEW k \in 1..Len(q), NEW ret \in Outcomes,
             NextIndex(q, Imm, sent, k),
             sent' = sent \cup {q[k]},
             Push(Frame("send", q[k], ret, renew, None))
      PROVE  Stirring(r, Elements(q), sent', stack', n)
  <2> DEFINE f == Frame("send", q[k], ret, renew, None)
  <2>1. q[k] \in Pending /\ q[k] \notin sent
    BY <1>2, ElementOfSeq DEF NextIndex
  <2>2. f \in FrameType /\ f.p = q[k]
    BY <2>1, ConstantsAssumption DEF Frame, FrameType
  <2>3. stack \in Seq(FrameType) /\ stack' = <<f>> \o stack
    BY <1>2 DEF Push, TypeOK
  <2> HIDE DEF f
  <2>4. /\ \A p : Wakes(r, stack, p) /\ ~Drops(r, f, p) => Wakes(r, stack', p)
        /\ \A p : Responds(stack, p) => Responds(stack', p)
    BY <2>2, <2>3, PushWakes
  <2>5. ASSUME NEW p \in Elements(q) \cap sent, Wakes(r, stack, p)
        PROVE  p \in Elements(q) \cap sent' /\ Wakes(r, stack', p)
    <3>1. p # q[k] /\ p \in sent'
      BY <1>2, <2>1
    <3>2. ~Drops(r, f, p)
      BY <2>2, <3>1 DEF Drops
    <3>3. QED
      BY <2>4, <2>5, <3>1, <3>2
  <2>6. QED
    BY <2>4, <2>5 DEF Stirring
<1>3. QED
  BY <1>1, <1>2 DEF HalIdleSend

\* The first half of a send, of a pending that keeps the queue going itself.
LEMMA SendStarts ==
  ASSUME TypeOK, NEW q \in Seq(Pending), NEW renew \in BOOLEAN, NEW r, NEW n,
         HalIdleSend(q, renew), q # <<>>,
         \A p \in Elements(q) : Wakes(r, stack, p),
         renew \/ \A p \in Elements(q) : ~r[p].auto
  PROVE  Stirring(r, Elements(q), sent', stack', n)
<1>1. CASE ~HasNext(q, Imm, sent) /\ UNCHANGED <<sent, atreq, wire, stack>>
  <2>1. Elements(q) \cap sent # {}
    BY <1>1, NothingNext
  <2>2. QED
    BY <1>1, <2>1 DEF Stirring
<1>2. ASSUME NEW k \in 1..Len(q), NEW ret \in Outcomes,
             sent' = sent \cup {q[k]},
             Push(Frame("send", q[k], ret, renew, None))
      PROVE  Stirring(r, Elements(q), sent', stack', n)
  <2> DEFINE f == Frame("send", q[k], ret, renew, None)
  <2>1. q[k] \in Pending /\ q[k] \in Elements(q)
    BY ElementOfSeq DEF Elements
  <2>2. f \in FrameType /\ f.p = q[k] /\ f.renew = renew
    BY <2>1, ConstantsAssumption DEF Frame, FrameType
  <2>3. stack \in Seq(FrameType) /\ stack' = <<f>> \o stack
    BY <1>2 DEF Push, TypeOK
  <2> HIDE DEF f
  <2>4. ~Drops(r, f, q[k])
    BY <2>1, <2>2 DEF Drops
  <2>5. Wakes(r, stack', q[k])
    BY <2>1, <2>2, <2>3, <2>4, PushWakes
  <2>6. QED
    BY <1>2, <2>1, <2>5 DEF Stirring
<1>3. QED
  BY <1>1, <1>2 DEF HalIdleSend

\* What waits for a send is told one of the outcomes.
LEMMA SendSucceeds ==
  ASSUME TypeOK, NEW q \in Seq(Pending), NEW renew \in BOOLEAN,
         HalIdleSend(q, renew), Succeeds(stack)
  PROVE  Succeeds(stack')
<1>1. CASE UNCHANGED <<sent, atreq, wire, stack>>
  BY <1>1
<1>2. ASSUME NEW k \in 1..Len(q), NEW ret \in Outcomes,
             Push(Frame("send", q[k], ret, renew, None))
      PROVE  Succeeds(stack')
  <2> DEFINE f == Frame("send", q[k], ret, renew, None)
  <2>1. q[k] \in Pending
    BY ElementOfSeq
  <2>2. f \in FrameType /\ f.ret = ret
    BY <2>1, ConstantsAssumption DEF Frame, FrameType
  <2>3. stack \in Seq(FrameType) /\ stack' = <<f>> \o stack
    BY <1>2 DEF Push, TypeOK
  <2> HIDE DEF f
  <2>4. QED
    BY <2>2, <2>3, PushWakes
<1>3. QED
  BY <1>1, <1>2 DEF HalIdleSend

\* A step that leaves the queue, what is out and what keeps it going.
LEMMA StillAwake ==
  ASSUME WakeInv, UNCHANGED <<req, queue, sent>>, idle' = idle,
         \A p : Wakes(req, stack, p) => Wakes(req, stack', p),
         \A p : Responds(stack, p) => Responds(stack', p)
  PROVE  Awake'
<1>1. InQueue' = InQueue
  BY DEF InQueue
<1>2. Stirring(req, InQueue, sent, stack, idle) => Stirring(req, InQueue, sent, stack', idle)
  BY DEF Stirring
<1>3. QED
  BY <1>1, <1>2 DEF WakeInv, Awake

\* tcore_hal_send_force and the idle source.
LEMMA SendAwake ==
  ASSUME WakeInv, IdleSend \/ SendForce
  PROVE  Succeeds(stack)' /\ Awake'
<1>1. /\ TypeOK /\ queue \in Seq(Pending) /\ UNCHANGED <<req, queue>>
      /\ Succeeds(stack)
  BY QueueFacts DEF WakeInv, IdleSend, SendForce
<1>2. InQueue' = InQueue /\ InQueue = Elements(queue)
  BY <1>1 DEF InQueue
<1>3. CASE queue = <<>>
  <2>1. InQueue = {}
    BY <1>1, <1>2, <1>3, NoElements
  <2>2. Awake'
    BY <1>2, <2>1 DEF Awake
  <2>3. PICK renew \in BOOLEAN : HalIdleSend(queue, renew)
    BY DEF IdleSend, SendForce
  <2>4. QED
    BY <1>1, <2>2, <2>3, SendSucceeds
<1>4. CASE queue # <<>> /\ IdleSend
  <2>1. HalIdleSend(queue, TRUE) /\ Control = "loop" /\ TRUE \in BOOLEAN
    BY <1>4 DEF IdleSend
  <2>2. stack = <<>>
    BY <1>1, <2>1, LoopEmpty
  <2>3. \A p \in Elements(queue) : Wakes(req, stack, p)
    BY <2>2, EmptyWakes
  <2>4. Stirring(req, Elements(queue), sent', stack', idle')
    BY <1>1, <1>4, <2>1, <2>3, SendStarts
  <2>5. Succeeds(stack')
    BY <1>1, <2>1, SendSucceeds
  <2>6. QED
    BY <1>1, <1>2, <2>4, <2>5 DEF Awake
<1>5. CASE queue # <<>> /\ SendForce
  <2>1. HalIdleSend(queue, FALSE) /\ FALSE \in BOOLEAN /\ idle' = idle
    BY <1>5 DEF SendForce
  <2>2. Stirring(req, Elements(queue), sent, stack, idle)
    BY <1>1, <1>2, <1>5, NoElements DEF WakeInv, Awake
  <2>3. Stirring(req, Elements(queue), sent', stack', idle)
    BY <1>1, <2>1, <2>2, SendStirs
  <2>4. Succeeds(stack')
    BY <1>1, <2>1, SendSucceeds
  <2>5. QED
    BY <1>1, <1>2, <2>1, <2>3, <2>4 DEF Awake
<1>6. QED
  BY <1>3, <1>4, <1>5

\* tcore_hal_send_request.
LEMMA SubmitAwake ==
  ASSUME Wakeful, WakeInv, NEW p \in Pending, SendRequest(p)
  PROVE  Succeeds(stack)' /\ Awake'
<1>1. /\ TypeOK /\ queue \in Seq(Pending) /\ Submitted(stack) /\ CoreInv /\ Succeeds(stack)
      /\ req' = req /\ idle \in Nat
  BY QueueFacts DEF WakeInv, SendRequest, TypeOK
<1>2. PICK i \in 1..(Len(queue) + 1) : queue' = InsertAt(queue, i, p)
  BY DEF SendRequest
<1>3. InQueue' = InQueue \cup {p} /\ queue' \in Seq(Pending) /\ Len(queue') = Len(queue) + 1
  BY <1>1, <1>2, PushedElements, InsertAtProperties DEF InQueue
<1>4. InQueue' = Elements(queue') /\ InQueue = Elements(queue)
  BY DEF InQueue
<1>5. p \in New /\ p \notin sent
  BY <1>1 DEF SendRequest, New, CoreInv, Bookkeeping
<1>6. \A j \in 1..Len(stack) : stack[j].p # p
  BY <1>1, <1>5 DEF Submitted, Avoids
<1>7. CASE req[p].prio = "IMMEDIATELY"
  <2>1. HalIdleSend(queue', FALSE) /\ FALSE \in BOOLEAN /\ idle' = idle
    BY <1>7 DEF SendRequest
  <2>2. Succeeds(stack')
    BY <1>1, <1>3, <2>1, SendSucceeds
  <2>3. CASE queue = <<>>
    <3>1. Elements(queue') = {p}
      BY <1>1, <1>3, <1>4, <2>3, NoElements
    <3>2. Wakes(req, stack, p)
      BY <1>6 DEF Wakes, Drops
    <3>3. ~req[p].auto
      BY <1>1, <1>7 DEF Wakeful, TypeOK
    <3>4. queue' # <<>>
      BY <1>3, <3>1, NoElements
    <3>5. (\A x \in Elements(queue') : Wakes(req, stack, x))
          /\ (\A x \in Elements(queue') : ~req[x].auto)
      BY <3>1, <3>2, <3>3
    <3>6. Stirring(req, Elements(queue'), sent', stack', idle)
      BY <1>1, <1>3, <2>1, <3>4, <3>5, SendStarts
    <3>7. QED
      BY <1>1, <1>4, <2>1, <2>2, <3>6 DEF Awake
  <2>4. CASE queue # <<>>
    <3>1. Stirring(req, InQueue, sent, stack, idle)
      BY <1>1, <1>4, <2>4, NoElements DEF WakeInv, Awake
    <3>2. Stirring(req, Elements(queue'), sent, stack, idle)
      BY <1>3, <1>4, <3>1 DEF Stirring
    <3>3. Stirring(req, Elements(queue'), sent', stack', idle)
      BY <1>1, <1>3, <2>1, <3>2, SendStirs
    <3>4. QED
      BY <1>1, <1>4, <2>1, <2>2, <3>3 DEF Awake
  <2>5. QED
    BY <2>3, <2>4
<1>8. CASE req[p].prio # "IMMEDIATELY"
  <2>1. UNCHANGED <<sent, stack>> /\ idle' = IF Len(queue') = 1 THEN idle + 1 ELSE idle
    BY <1>8 DEF SendRequest
  <2>2. Succeeds(stack)'
    BY <1>1, <2>1 DEF Succeeds
  <2>3. CASE queue = <<>>
    <3>1. idle' > 0
      BY <1>1, <1>3, <2>1, <2>3
    <3>2. QED
      BY <2>2, <3>1 DEF Awake, Stirring
  <2>4. CASE queue # <<>>
    <3>1. Stirring(req, InQueue, sent, stack, idle)
      BY <1>1, <1>4, <2>4, NoElements DEF WakeInv, Awake
    <3>2. Len(queue') # 1
      BY <1>1, <1>3, <2>4, EmptySeq
    <3>3. Stirring(req, InQueue', sent, stack, idle)
      BY <1>3, <3>1 DEF Stirring
    <3>4. idle' = idle
      BY <2>1, <3>2
    <3>5. QED
      BY <1>1, <2>1, <2>2, <3>3, <3>4 DEF Awake
  <2>5. QED
    BY <2>3, <2>4
<1>9. QED
  BY <1>7, <1>8

\* A delivery calls back, or adds an idle source at once.
LEMMA DeliverAwake ==
  ASSUME WakeInv, NEW i \in 1..Len(queue), NEW a, NEW hears,
         NEW base \in Seq(FrameType), Deliver(i, a, hears, base), Succeeds(base)
  PROVE  Succeeds(stack)' /\ Awake'
<1> DEFINE f == Frame("resp", queue[i], None, FALSE, None)
<1>1. queue[i] \in Pending /\ idle \in Nat
  BY QueueFacts DEF WakeInv, TypeOK
<1>2. f \in FrameType /\ f.p = queue[i] /\ f.fn = "resp"
  BY <1>1 DEF Frame, FrameType
<1>3. \/ stack' = base /\ idle' = idle + 1
      \/ stack' = <<f>> \o base
  BY DEF Deliver, Answer
<1> HIDE DEF f
<1>4. CASE stack' = base /\ idle' = idle + 1
  <2>1. idle' > 0 /\ Succeeds(stack')
    BY <1>1, <1>4
  <2>2. QED
    BY <2>1 DEF Awake, Stirring
<1>5. CASE stack' = <<f>> \o base
  <2>1. Succeeds(stack') /\ Responds(stack', queue[i])
    BY <1>2, <1>5, PushWakes
  <2>2. QED
    BY <2>1 DEF Awake, Stirring
<1>6. QED
  BY <1>3, <1>4, <1>5

\* What the innermost call is, when it returns.
LEMMA TopAwake ==
  ASSUME WakeInv, Control \in {"send", "resp", "timeout", "cancel"}
  PROVE  /\ Tail(stack) \in Seq(FrameType) /\ Head(stack).fn = Control
         /\ \A p : Wakes(req, stack, p) =>
              Wakes(req, Tail(stack), p) /\ ~Drops(req, Head(stack), p)
         /\ Succeeds(Tail(stack)) /\ (Control = "send" => Head(stack).ret \in Outcomes)
         /\ Control # "resp" => \A p : Responds(stack, p) => Responds(Tail(stack), p)
<1>1. TypeOK /\ stack \in Seq(FrameType) /\ Succeeds(stack)
  BY QueueFacts DEF WakeInv
<1>2. stack # <<>> /\ Head(stack).fn = Control
  BY <1>1, TopType
<1>3. QED
  BY <1>1, <1>2, PopWakes

\* The rest of a send.
LEMMA ReturnAwake ==
  ASSUME Wakeful, WakeInv,
         \/ ReturnSendWaiting \/ ReturnSendAutoFree \/ ReturnSendFail
         \/ ReturnSendHookStop
  PROVE  Succeeds(stack)' /\ Awake'
<1>1. Control = "send" /\ stack' = Tail(stack) /\ UNCHANGED <<req, sent>>
  BY DEF ReturnSendWaiting, ReturnSendAutoFree, ReturnSendFail, ReturnSendHookStop, SendDone
<1>2. /\ Succeeds(stack') /\ Head(stack).ret \in Outcomes /\ Head(stack).fn = "send"
      /\ \A p : Wakes(req, stack, p) => Wakes(req, stack', p) /\ ~Drops(req, Head(stack), p)
      /\ \A p : Responds(stack, p) => Responds(stack', p)
  BY <1>1, TopAwake
<1>3. ~ReturnSendFail
  BY <1>2 DEF ReturnSendFail, SendDone, Wakeful
<1>4. CASE ReturnSendWaiting \/ ReturnSendHookStop
  <2>1. queue' = queue /\ idle' = idle
    BY <1>4 DEF ReturnSendWaiting, ReturnSendHookStop
  <2>2. QED
    BY <1>1, <1>2, <2>1, StillAwake
<1>5. CASE ReturnSendAutoFree
  <2> DEFINE x == Head(stack).p
  <2>1. PICK i \in 1..Len(queue) : queue[i] = x /\ queue' = RemoveAt(queue, i)
    BY <1>5 DEF ReturnSendAutoFree
  <2>2. InQueue' = InQueue \ {x}
    BY <2>1, PopElements DEF WakeInv, InQueue
  <2>3. x \in InQueue
    BY <2>1 DEF InQueue, Elements
  <2>4. /\ req[x].auto /\ Head(stack).ret # "HOOK_STOP" /\ idle \in Nat
        /\ idle' = IF Head(stack).renew THEN idle + 1 ELSE idle
    BY <1>5 DEF ReturnSendAutoFree, SendDone, WakeInv, CoreInv, TypeOK
  <2>5. CASE Head(stack).renew
    <3>1. idle' > 0
      BY <2>4, <2>5
    <3>2. QED
      BY <1>2, <3>1 DEF Awake, Stirring
  <2>6. CASE ~Head(stack).renew
    <3>1. Drops(req, Head(stack), x)
      BY <1>2, <2>4, <2>6 DEF Drops
    <3>2. \A p : Wakes(req, stack, p) => p # x
      BY <1>2, <3>1
    <3>3. Stirring(req, InQueue, sent, stack, idle)
      BY <2>3 DEF WakeInv, Awake
    <3> HIDE DEF x
    <3>4. Stirring(req, InQueue', sent, stack', idle)
      BY <1>2, <2>2, <3>2, <3>3 DEF Stirring
    <3>5. QED
      BY <1>1, <1>2, <2>4, <2>6, <3>4 DEF Awake
  <2>7. QED
    BY <2>5, <2>6
<1>6. QED
  BY <1>3, <1>4, <1>5

\* An answer of the modem, the end of its response, and the lost answers.
LEMMA AnswerAwake ==
  ASSUME WakeInv, RespondCustom \/ RespondAt \/ ReturnResponse \/ LoseAnswer
  PROVE  Succeeds(stack)' /\ Awake'
<1>1. /\ queue \in Seq(Pending) /\ stack \in Seq(FrameType) /\ Succeeds(stack) /\ idle \in Nat
      /\ UNCHANGED <<req, sent>>
  BY QueueFacts DEF WakeInv, TypeOK, RespondCustom, RespondAt, ReturnResponse, LoseAnswer
<1>2. CASE UNCHANGED <<queue, stack>> /\ idle' = idle
  BY <1>1, <1>2, StillAwake
<1>3. CASE stack' = stack /\ idle' = idle + 1
  <2>1. idle' > 0
    BY <1>1, <1>3
  <2>2. QED
    BY <1>1, <1>3, <2>1 DEF Awake, Stirring
<1>4. ASSUME NEW i \in 1..Len(queue), NEW a, Deliver(i, a, listening, stack)
      PROVE  Succeeds(stack)' /\ Awake'
  BY <1>1, <1>4, DeliverAwake
<1>5. CASE RespondCustom
  BY <1>2, <1>4, <1>5 DEF RespondCustom
<1>6. CASE RespondAt
  <2>1. CASE atreq # None /\ queue # <<>>
    <3>1. 1 \in 1..Len(queue) /\ Deliver(1, wire[1], listening, stack)
      BY <1>1, <1>6, <2>1, EmptySeq, LenProperties DEF RespondAt
    <3>2. QED
      BY <1>4, <3>1
  <2>2. CASE ~(atreq # None /\ queue # <<>>)
    <3>1. UNCHANGED <<queue, stack>> /\ (idle' = idle \/ idle' = idle + 1)
      BY <1>6, <2>2 DEF RespondAt
    <3>2. QED
      BY <1>2, <1>3, <3>1
  <2>3. QED
    BY <2>1, <2>2
<1>7. CASE ReturnResponse
  <2>1. Control = "resp" /\ stack' = Tail(stack) /\ idle' = idle + 1
    BY <1>7 DEF ReturnResponse
  <2>2. Succeeds(stack') /\ idle' > 0
    BY <1>1, <2>1, TopAwake
  <2>3. QED
    BY <2>2 DEF Awake, Stirring
<1>8. CASE LoseAnswer
  BY <1>2, <1>8 DEF LoseAnswer
<1>9. QED
  BY <1>5, <1>6, <1>7, <1>8

\* Timers and cancellation.
LEMMA CancelAwake ==
  ASSUME WakeInv,
         \/ \E p \in Pending : Timeout(p)
         \/ \E c \in Commands : Cancel(c)
         \/ ReturnTimeout \/ CancelStep
  PROVE  Succeeds(stack)' /\ Awake'
<1>1. /\ queue \in Seq(Pending) /\ stack \in Seq(FrameType) /\ Succeeds(stack)
      /\ UNCHANGED <<req, sent>>
  BY QueueFacts DEF WakeInv, Timeout, Cancel, ReturnTimeout, CancelStep
<1>2. ASSUME NEW f \in FrameType, f.fn # "send", stack' = <<f>> \o stack,
             UNCHANGED queue, idle' = idle
      PROVE  Succeeds(stack)' /\ Awake'
  <2>1. \A p : ~Drops(req, f, p)
    BY <1>2 DEF Drops
  <2>2. /\ \A p : Wakes(req, stack, p) => Wakes(req, stack', p)
        /\ Succeeds(stack') /\ \A p : Responds(stack, p) => Responds(stack', p)
    BY <1>1, <1>2, <2>1, PushWakes
  <2>3. QED
    BY <1>1, <1>2, <2>2, StillAwake
<1>3. CASE UNCHANGED <<queue, stack>> /\ idle' = idle
  BY <1>1, <1>3, StillAwake
<1>4. CASE /\ Control \in {"timeout", "cancel"} /\ stack' = Tail(stack)
           /\ UNCHANGED queue /\ idle' = idle
  <2>1. /\ \A p : Wakes(req, stack, p) => Wakes(req, stack', p)
        /\ Succeeds(stack') /\ \A p : Responds(stack, p) => Responds(stack', p)
    BY <1>4, TopAwake
  <2>2. QED
    BY <1>1, <1>4, <2>1, StillAwake
<1>5. ASSUME NEW p \in Pending, Timeout(p) PROVE Succeeds(stack)' /\ Awake'
  <2> DEFINE f == Frame("timeout", p, None, FALSE, None)
  <2>1. f \in FrameType /\ f.fn # "send"
    BY DEF Frame, FrameType
  <2>2. stack' = <<f>> \o stack /\ UNCHANGED queue /\ idle' = idle
    BY <1>5 DEF Timeout, Push
  <2> HIDE DEF f
  <2>3. QED
    BY <1>2, <2>1, <2>2
<1>6. ASSUME NEW c \in Commands, Cancel(c) PROVE Succeeds(stack)' /\ Awake'
  <2> DEFINE f == Frame("cancel", None, None, FALSE, c)
  <2>1. f \in FrameType /\ f.fn # "send"
    BY DEF Frame, FrameType
  <2>2. stack' = <<f>> \o stack /\ UNCHANGED queue /\ idle' = idle
    BY <1>6 DEF Cancel, Push
  <2> HIDE DEF f
  <2>3. QED
    BY <1>2, <2>1, <2>2
<1>7. CASE ReturnTimeout
  <2>1. Control = "timeout"
    BY <1>7 DEF ReturnTimeout
  <2>2. Tail(stack) \in Seq(FrameType) /\ Succeeds(Tail(stack))
    BY <2>1, TopAwake
  <2>3. ASSUME NEW i \in 1..Len(queue), Deliver(i, Cancelled, listening', Tail(stack))
        PROVE  Succeeds(stack)' /\ Awake'
    BY <2>2, <2>3, DeliverAwake
  <2>4. QED
    BY <1>4, <1>7, <2>1, <2>3 DEF ReturnTimeout
<1>8. CASE CancelStep
  <2>1. Control = "cancel"
    BY <1>8 DEF CancelStep
  <2>2. ASSUME NEW i \in 1..Len(queue), Deliver(i, Cancelled, listening, stack)
        PROVE  Succeeds(stack)' /\ Awake'
    BY <1>1, <2>2, DeliverAwake
  <2>3. QED
    BY <1>3, <1>4, <1>8, <2>1, <2>2 DEF CancelStep
<1>9. QED
  BY <1>5, <1>6, <1>7, <1>8

\* Every step keeps the invariant.
LEMMA WakeStep ==
  ASSUME Wakeful, WakeInv, [Next]_vars
  PROVE  WakeInv'
<1>1. CoreInv'
  BY CoreStep DEF WakeInv
<1>2. CASE UNCHANGED vars
  <2>1. UNCHANGED <<req, queue, sent, stack, idle>>
    BY <1>2 DEF vars
  <2>2. Awake' /\ Succeeds(stack)'
    BY <2>1, StillAwake DEF WakeInv
  <2>3. QED
    BY <1>1, <2>2 DEF WakeInv
<1>3. CASE Next
  <2>1. Succeeds(stack)' /\ Awake'
    BY <1>3, SubmitAwake, SendAwake, ReturnAwake, AnswerAwake, CancelAwake DEF Next
  <2>2. QED
    BY <1>1, <2>1 DEF WakeInv
<1>4. QED
  BY <1>2, <1>3

\* Nothing is queued at the start.
LEMMA InitWake == Init => WakeInv
<1>1. SUFFICES ASSUME Init PROVE WakeInv
  OBVIOUS
<1>2. queue = <<>> /\ stack = <<>> /\ CoreInv
  BY <1>1, InitCore DEF Init
<1>3. \A i \in 1..Len(<<>>) : FALSE
  OBVIOUS
<1>4. InQueue = {} /\ Succeeds(stack)
  BY <1>2, <1>3 DEF InQueue, Elements, Succeeds
<1>5. QED
  BY <1>2, <1>4 DEF WakeInv, Awake

\* With no call waiting, what keeps the queue going is an idle source or a
\* pending that is out.
LEMMA WakeSuffices == WakeInv => NoStall
<1>1. SUFFICES ASSUME WakeInv, stack = <<>>, queue # <<>>
               PROVE  idle > 0 \/ \E i \in 1..Len(queue) : queue[i] \in sent
  BY DEF NoStall
<1>2. InQueue # {}
  BY <1>1, QueueFacts, NoElements DEF WakeInv, InQueue
<1>3. Stirring(req, InQueue, sent, stack, idle) /\ \A p : ~Responds(stack, p)
  BY <1>1, <1>2, EmptyWakes DEF WakeInv, Awake
<1>4. idle > 0 \/ InQueue \cap sent # {}
  BY <1>3 DEF Stirring
<1>5. QED
  BY <1>4 DEF InQueue, Elements

\* No lost wakeup, in either mode and wherever plugins call the library from: a
\* queue that is not empty has an idle source, or a request that is out whose
\* answer, timer or cancellation adds one (tcore_hal_send_request adds none when
\* the queue is not empty) - when sends do not fail, and no IMMEDIATELY request
\* is released by its own send, whose return value nobody takes.
THEOREM NothingStalls == ASSUME Wakeful PROVE Spec => []NoStall
<1>1. WakeInv /\ [Next]_vars => WakeInv'
  BY WakeStep
<1>2. QED
  BY <1>1, InitWake, WakeSuffices, PTL DEF Spec
============================================================================
