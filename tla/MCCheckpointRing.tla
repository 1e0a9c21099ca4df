-------------------------- MODULE MCCheckpointRing ---------------------------
(* Small instances of CheckpointRing.                                      *)
EXTENDS CheckpointRing, TLC

Symmetry == Permutations(Name) \cup Permutations(Blob)
==============================================================================
