--------------------------- MODULE MCReverseDebug ----------------------------
(* Small instances of ReverseDebug.                                        *)
EXTENDS ReverseDebug, TLC

MCWriteRec == [addr : Addr, old : Byte, new : Byte]
MCNoWrite == [addr |-> "unused", old |-> 0, new |-> 0]
MCCaps == {<<2, 3>>}
MCTightCaps == {<<1, 2>>, <<2, 1>>, <<2, 2>>}
Symmetry == Permutations(Header)
==============================================================================
