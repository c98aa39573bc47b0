---------------------------- MODULE MCAtBuffer ----------------------------
(* Values of the constants of AtBuffer for TLC. *)
EXTENDS AtBuffer

\* Reads that cut lines at every place or hold several, and prompts.
SomeChunks == {<<"a", "CR">>, <<"CR", "LF", "a">>, <<"LF", "K", "CR", "a", "CR">>, <<"P">>}
============================================================================
