---------------------------- MODULE MCHalRequest ----------------------------
(* Values of the constants of HalRequest for TLC. *)
EXTENDS HalRequest

\* What a plugin may configure: the priority, and one option of the others.
R(prio, auto, timed, cmd) ==
  [prio |-> prio, auto |-> auto, timed |-> timed, cmd |-> cmd]

\* The priorities, and the options where they make a difference.
AllRequests ==
  {R("IMMEDIATELY", auto, FALSE, "c1") : auto \in BOOLEAN}
  \cup {R("HIGH", FALSE, timed, "c1") : timed \in BOOLEAN}
  \cup {R("DEFAULT", o = "auto", o = "timed", "c1") : o \in {"none", "auto", "timed"}}

\* Two commands to cancel by.
CommandRequests == {R(prio, FALSE, TRUE, cmd) :
                      prio \in {"IMMEDIATELY", "DEFAULT"}, cmd \in {"c1", "c2"}}

\* The plain requests whose answers an AT channel can tell apart.
OrdinaryRequests == {R(prio, FALSE, timed, "c1") :
                       prio \in {"DEFAULT", "LOW"}, timed \in BOOLEAN}

\* Requests that are certain to end: by a timer, or by automatic release
\* after a send from the idle source.
TimedRequests ==
  {R(prio, FALSE, TRUE, "c1") : prio \in {"IMMEDIATELY", "HIGH", "DEFAULT"}}
  \cup {R("DEFAULT", TRUE, FALSE, "c1")}

Symm == Permutations(Pending)
=============================================================================
