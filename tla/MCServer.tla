------------------------------ MODULE MCServer ------------------------------
(* Values of the constants of Server for TLC.                                *)
EXTENDS Server

SomePriority == "p" :> 1 @@ "q" :> 2

SomeCategory == "m1" :> "modem" @@ "m2" :> "modem"
SomeProvided == "m1" :> {"power_on"} @@ "m2" :> {"power_on", "get_imei"}
SomeCommands == "request" :> {"power_on", "dial"} @@ "notification" :> {"added"}
                @@ "recv" :> {ForAll}
=============================================================================
