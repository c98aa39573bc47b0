---------------------------- MODULE MCCoreEvents ----------------------------
(* Values of the constants of CoreEvents and AtResponse for TLC.  The two    *)
(* share no variable: a behaviour explores the one or the other.             *)
EXTENDS CoreEvents, AtResponse, TLC

E(prefix, pdu) == [prefix |-> prefix, pdu |-> pdu]

\* A one-line event, one with a PDU, and another that clashes with the first.
SomeEvents == {E("+U", FALSE), E("+P", TRUE), E("+U", TRUE)}

R(type, prefix) == [type |-> type, prefix |-> prefix]
SomeAtRequests ==
  {R("NO_RESULT", ""), R("NUMERIC", ""), R("MULTILINE", "+U")}
  \cup {R(type, prefix) : type \in {"SINGLELINE", "MULTILINE", "PDU"}, prefix \in {"", "+A"}}

MCInit == Init /\ RespInit
MCNext ==
  \/ Next /\ RespInit /\ UNCHANGED respVars
  \/ RespNext /\ Init /\ UNCHANGED vars
MCSpec == MCInit /\ [][MCNext]_<<vars, respVars>>

Symm == Permutations(Objects) \cup Permutations(AtHals) \cup Permutations(Cbs)
=============================================================================
