---------------------------- MODULE MCLoopOnset ------------------------------
(* Small instances of LoopOnset.                                           *)
EXTENDS LoopOnset

Symmetry == Permutations(Pc \ SelfBranch)
=============================================================================
