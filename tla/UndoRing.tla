------------------------------ MODULE UndoRing -------------------------------
(* The two halves of a DeltaRing: the slabs with their queries and a       *)
(* reloaded copy, and the loop detector, which an instruction's commit     *)
(* feeds and which reads nothing of the slabs.  A behaviour exercises one  *)
(* of them; the other stays as it was made.                                *)
EXTENDS RingReload

CONSTANTS Pc, SelfBranch, Window, Threshold, None, MaxTrace

VARIABLES
    half,
    recent, loop_onset, cand_dst, cand_src, loop_iters, trace

Detector == INSTANCE LoopOnset

ASSUME DetectorAssumption == Detector!LoopAssumption

detector == <<recent, loop_onset, cand_dst, cand_src, loop_iters, trace>>

UndoInit == /\ half \in {"slabs", "detector"}
            /\ Init /\ Detector!Init
            /\ half = "detector" => <<ecap, wcap>> = <<1, 1>>

SlabStep == half = "slabs" /\ UNCHANGED <<half, detector>> /\ Next
DetectorStep == half = "detector" /\ UNCHANGED <<half, vars>> /\ Detector!Next

UndoSpec == UndoInit /\ [][SlabStep \/ DetectorStep]_<<half, vars, detector>>

(* A loop is never pinned on less evidence than the design asks for        *)
(* (detect_loop_onset).                                                    *)
OnsetIsTightLoop == Detector!OnsetIsTightLoop

(* A tight loop is pinned if its entry had never come round itself, and    *)
(* with the instruction that entered it (detect_loop_onset).               *)
LoopIsPinned == Detector!LoopIsPinned
==============================================================================
