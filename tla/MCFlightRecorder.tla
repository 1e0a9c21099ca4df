-------------------------- MODULE MCFlightRecorder --------------------------
(* Small instances of FlightRecorder.                                      *)
EXTENDS FlightRecorder, TLC

Symmetric == Permutations(Disks) \cup Permutations(Profiles)
=============================================================================
