---------------------------- MODULE RequestQueue ----------------------------
(***************************************************************************)
(* The ordering rules of a request queue (src/queue.c): where a pending    *)
(* enters the GQueue, which one is sent next, and which one a search       *)
(* returns.  A queue is a sequence of pendings; each rule is a predicate   *)
(* on a position of it, so that a step picks the position with \E.         *)
(***************************************************************************)
EXTENDS Naturals, Sequences, SequencesExt

\* enum tcore_pending_priority
Priorities == {"IMMEDIATELY", "HIGH", "DEFAULT", "LOW"}

\* Mutant: an urgent pending goes straight to the head of the queue.
PushHeadIndex(q, prio, imm, i) ==
  IF prio \in {"IMMEDIATELY", "HIGH"} THEN i = 1 ELSE i = Len(q) + 1

(***************************************************************************)
(* Position i is where a pending of priority prio is pushed into q.        *)
(* IMMEDIATELY and HIGH go behind the leading IMMEDIATELY pendings (the    *)
(* set imm), whatever follows them has already been sent or not; DEFAULT   *)
(* and LOW go to the tail.                                                 *)
(***************************************************************************)
PushIndex(q, prio, imm, i) ==
  IF prio \in {"IMMEDIATELY", "HIGH"}
  THEN /\ \A j \in 1..(i - 1) : q[j] \in imm
       /\ i <= Len(q) => q[i] \notin imm
  ELSE i = Len(q) + 1

\* Mutant: every pending that is already sent is skipped.
NextUnsentIndex(q, imm, sent, i) ==
  /\ \A j \in 1..(i - 1) : q[j] \in sent
  /\ q[i] \notin sent

(***************************************************************************)
(* Position i holds the pending to send next: only IMMEDIATELY pendings    *)
(* that are already sent are skipped, and a sent pending of any other      *)
(* priority hides everything behind it.                                    *)
(***************************************************************************)
NextIndex(q, imm, sent, i) ==
  /\ \A j \in 1..(i - 1) : q[j] \in imm \cap sent
  /\ q[i] \notin sent

\* Position i is the first of q whose pending is in the set S.
FirstIndex(q, S, i) ==
  /\ q[i] \in S
  /\ \A j \in 1..(i - 1) : q[j] \notin S

HasNext(q, imm, sent) == \E i \in 1..Len(q) : NextIndex(q, imm, sent, i)
HasFirst(q, S) == \E i \in 1..Len(q) : FirstIndex(q, S, i)

(***************************************************************************)
(* The order the rules above keep.  Each pending belongs to a band: 0 for  *)
(* IMMEDIATELY, 1 for HIGH, 2 for DEFAULT and LOW, which are treated       *)
(* alike.  The bands follow each other; within a band the pendings are in  *)
(* the order of their ids, in the reverse order in band 1.                 *)
(***************************************************************************)
Shaped(q, band, id) ==
  \A j \in 1..Len(q) : \A i \in 1..(j - 1) :
    \/ band[q[i]] < band[q[j]]
    \/ /\ band[q[i]] = band[q[j]]
       /\ IF band[q[i]] = 1 THEN id[q[j]] < id[q[i]] ELSE id[q[i]] < id[q[j]]

\* Behind a pending of band 2, none of the same band is sent.
InOrder(q, band, sent) ==
  \A j \in 1..Len(q) : \A i \in 1..(j - 1) :
    band[q[i]] = 2 /\ band[q[j]] = 2 => q[j] \notin sent
=============================================================================
