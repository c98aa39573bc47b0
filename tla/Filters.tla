------------------------------ MODULE Filters ------------------------------
(***************************************************************************)
(* What a loop over a list that picks some of its elements returns: the    *)
(* loops over GSList and GQueue links that the models of the AT channel,   *)
(* of hooks and of event callbacks have in common.  The elements are given *)
(* by a set and not, as in SelectSeq, by an operator, so that what a       *)
(* filter returns can be proved.                                           *)
(***************************************************************************)
EXTENDS Naturals, Sequences

\* The elements of s that are in T, in their order.
Keep(s, T) ==
  LET kept[n \in 0..Len(s)] ==
        IF n = 0 THEN <<>>
        ELSE IF s[n] \in T THEN Append(kept[n - 1], s[n]) ELSE kept[n - 1]
  IN kept[Len(s)]
=============================================================================
