----------------------------- MODULE MCUndoRing ------------------------------
(* A small instance of each half of a DeltaRing.                           *)
EXTENDS MCRingQueries, UndoRing

(* No header, address or PC is told from another, but for the jumps to     *)
(* themselves.                                                             *)
UndoSymmetry == Symmetry \cup Permutations(Pc \ SelfBranch)
==============================================================================
