------------------------------- MODULE MCMux -------------------------------
(* Values of the constants of Mux for TLC: three channels of the eight.     *)
EXTENDS Mux, TLC

SomeNames == 0 :> <<>> @@ 1 :> <<"call">> @@ 2 :> <<"modem", "umts_ps">>
SomeOwner == "a" :> "call" @@ "b" :> "umts_ps"
SomePlugs == {{"call", "modem", "umts_ps"}, {"call", "umts_ps"}}
Long == [i \in 1..130 |-> 7]
SomePayloads == {Encode(2, DISC, Poll, <<>>), Long}
=============================================================================
