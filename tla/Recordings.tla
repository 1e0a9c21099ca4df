----------------------------- MODULE Recordings ------------------------------
(* The two ways a session is recorded: the flight recorder's anchors, and  *)
(* the traces of runs.  Neither knows of the other, so the second has      *)
(* variables of its own.                                                   *)
EXTENDS FlightRecorder

CONSTANTS Clients, Waiters, Paths, None, SpillFrames,
          MaxRuns, MaxFrames, MaxMarks, MaxJobs, MaxFailures

VARIABLES trace, file, store, jobs, registry, client, failures, runs, torn, early

Traces == INSTANCE TraceStore

ASSUME TracesAssumption == Traces!StoreAssumption

(* Traces, with no flight recorder.                                        *)
TraceInit == Init /\ Traces!Init
TraceSpec == /\ TraceInit /\ [][Traces!Next /\ UNCHANGED vars]_<<vars, Traces!vars>>
             /\ Traces!Fairness

(* What a run has recorded is in its file and its buffer, once and in      *)
(* order (TraceState::spill).                                              *)
RunIsInFile == Traces!RunIsInFile

(* A stop that waited for the index answers when the store has all of the  *)
(* run (trace/run/stop).                                                   *)
WaitedIndexIsWhole == Traces!WaitedIndexIsWhole

(* A stopped trace can be queried in the end (finalize_trace).             *)
StoppedTraceIsIndexed == Traces!StoppedTraceIsIndexed
==============================================================================
