----------------------------- MODULE MCCartChips ----------------------------
(* Each chip on a small instance: the flash with the unlock addresses in   *)
(* one sector and a third address, which also answers the chip's ids, in   *)
(* another.                                                                *)
EXTENDS CartChips

MCAddrs == {"magic1", "magic2", "other"}
MCSectorOf == [a \in MCAddrs |-> IF a = "other" THEN 1 ELSE 0]
MCImages == {[a \in MCAddrs |-> {}]}

\* The command bytes: AA, 55, 90, F0, A0, 80, 30, 10, B0.
MCAA == {7, 5, 3, 1}
MCCommands == {MCAA, {6, 4, 2, 0}, {7, 4}, {7, 6, 5, 4}, {7, 5}, {7}, {5, 4}, {4}, {7, 5, 4}}
MCData == {MCAA}
MCSent == {<<1, 0, 0, 1>>, <<0, 0, 1, 0>>}
=============================================================================
