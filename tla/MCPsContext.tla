---------------------------- MODULE MCPsContext ----------------------------
(* Constants and symmetry of PsContext for TLC. *)
EXTENDS PsContext, TLC

ContextSymmetry == Permutations(Contexts)
=============================================================================
