---------------------------- MODULE MCRingQueries ----------------------------
(* Small instances of the ring's queries.                                  *)
EXTENDS RingReload

MCWriteRec == { [addr |-> a, old |-> 0, new |-> 1] : a \in Addr }
MCNoWrite == [addr |-> "unused", old |-> 0, new |-> 0]
MCCaps == {<<2, 3>>, <<3, 1>>, <<1, 1>>}
MCRateCaps == {<<4, 5>>}
MCSmallCaps == {<<2, 4>>}
Symmetry == Permutations(Header) \cup Permutations(Addr)
==============================================================================
