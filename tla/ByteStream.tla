----------------------------- MODULE ByteStream -----------------------------
(***************************************************************************)
(* What the receive buffer of an AT channel promises: the bytes of the     *)
(* modem come out as lines, in order, none lost, repeated or invented,     *)
(* however they were cut into reads and however the buffer moves them.     *)
(***************************************************************************)
EXTENDS Naturals, Sequences, SequencesExt

CONSTANTS Chunks  \* what one read may deliver

VARIABLES
  input,  \* the bytes received and not yet consumed
  line    \* the line consumed last

vars == <<input, line>>

Blank == {"CR", "LF"}

\* A line ends at CR; the CR and LF before it are skipped.
IsLine(s, skipped, text) ==
  /\ \A i \in 1..Len(skipped) : skipped[i] \in Blank
  /\ text # <<>> /\ text[1] \notin Blank /\ ~Contains(text, "CR")
  /\ IsPrefix(skipped \o text \o <<"CR">>, s)

Init == input = <<>> /\ line = <<>>

Receive == \E c \in Chunks : input' = input \o c /\ UNCHANGED line

TakeLine ==
  \E i \in 0..Len(input), j \in 1..Len(input) :
    /\ i < j
    /\ IsLine(input, SubSeq(input, 1, i), SubSeq(input, i + 1, j))
    /\ line' = SubSeq(input, i + 1, j)
    /\ input' = SubSeq(input, j + 2, Len(input))

\* The prompt "> " (here P) is a line of its own when nothing follows it.
TakePrompt ==
  /\ input # <<>> /\ Last(input) = "P"
  /\ \A i \in 1..(Len(input) - 1) : input[i] \in Blank
  /\ line' \in {line, <<"P">>}
  /\ input' = <<>>

Next == Receive \/ TakeLine \/ TakePrompt

Spec == Init /\ [][Next]_vars
=============================================================================
