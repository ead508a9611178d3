---------------------------- MODULE MC_Publisher ----------------------------
(* Three items, one of them for the websockets' exchange. *)
EXTENDS Publisher
CONSTANTS i1, i2, i3, sutro
MCItems == {i1, i2, i3}
MCExchanges == [i \in MCItems |-> IF i = i3 THEN sutro ELSE Main]
=============================================================================
