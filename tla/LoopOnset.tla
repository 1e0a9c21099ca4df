------------------------------ MODULE LoopOnset ------------------------------
(***************************************************************************)
(* The detector that pins the instruction which entered a tight loop       *)
(* (crates/trx64-core/src/delta_ring.rs, detect_loop_onset), fed with      *)
(* every retired instruction.  It looks at the last Window + 1 of them.    *)
(* A definition named for a slip is the one after it with that slip.       *)
(***************************************************************************)
EXTENDS Integers, SequencesExt, FiniteSetsExt

CONSTANTS
    Pc,            \* instruction addresses
    SelfBranch,    \* those holding a JMP or branch to itself
    Window,        \* LOOP_WINDOW: 8 in the code
    Threshold,     \* LOOP_ITER_THRESHOLD: 4 in the code
    None,
    MaxTrace       \* bound: instructions retired since the last clear

(* A retired instruction: its address and, standing for its cycle, when.   *)
Instr == [pc : Pc, at : Nat]
Onset == [src : Instr, dst : Pc]

LoopAssumption == /\ SelfBranch \subseteq Pc /\ None \notin Pc \cup Onset
                  /\ Window \in Nat \ {0} /\ Threshold \in Nat \ {0, 1}
                  /\ MaxTrace \in Nat

VARIABLES
    recent,        \* the newest instructions, oldest first
    loop_onset,    \* the pinned record, or None
    cand_dst,      \* anchor of the candidate loop, or None
    cand_src,      \* the instruction before the anchor's earlier visit
    loop_iters,    \* returns to the anchor
    trace          \* history: every PC since the last clear

vars == <<recent, loop_onset, cand_dst, cand_src, loop_iters, trace>>

Init ==
    /\ recent = << >> /\ loop_onset = None
    /\ cand_dst = None /\ cand_src = None /\ loop_iters = 0
    /\ trace = << >>

PushRecentOneShort(e) ==
    recent' = Append(IF Len(recent) >= Window THEN Tail(recent) ELSE recent, e)

PushRecent(e) ==
    recent' = Append(IF Len(recent) > Window THEN Tail(recent) ELSE recent, e)

InRecent(pc) == \E i \in DOMAIN recent : recent[i].pc = pc

-----------------------------------------------------------------------------
(* The branches of detect_loop_onset, each with its condition.             *)

AlreadyPinned(e) ==
    /\ loop_onset # None
    /\ UNCHANGED <<loop_onset, cand_dst, cand_src, loop_iters>>

SelfLoop(e) ==
    /\ loop_onset = None
    /\ e.pc \in SelfBranch
    /\ loop_onset' = [src |-> IF recent = << >> THEN e ELSE Last(recent),
                      dst |-> e.pc]
    /\ UNCHANGED <<cand_dst, cand_src, loop_iters>>

Searching(e) == loop_onset = None /\ e.pc \notin SelfBranch

EnoughRounds(n) == n >= Threshold

BackAtAnchor(e) ==
    /\ Searching(e)
    /\ cand_dst = e.pc
    /\ loop_iters' = loop_iters + 1
    /\ loop_onset' = IF EnoughRounds(loop_iters')
                     THEN [src |-> cand_src, dst |-> e.pc] ELSE None
    /\ UNCHANGED <<cand_dst, cand_src>>

InsideCountsAsRound(e) ==
    /\ Searching(e)
    /\ cand_dst \notin {None, e.pc} /\ InRecent(e.pc)
    /\ loop_iters' = loop_iters + 1
    /\ loop_onset' = IF EnoughRounds(loop_iters')
                     THEN [src |-> cand_src, dst |-> cand_dst] ELSE None
    /\ UNCHANGED <<cand_dst, cand_src>>

InsideBody(e) ==
    /\ Searching(e)
    /\ cand_dst \notin {None, e.pc} /\ InRecent(e.pc)
    /\ UNCHANGED <<loop_onset, cand_dst, cand_src, loop_iters>>

FirstRepeat(e) ==
    /\ Searching(e)
    /\ cand_dst = None /\ InRecent(e.pc)
    /\ LET back == SelectLastInSeq(recent, LAMBDA p : p.pc = e.pc)
       IN  cand_src' = recent[Max({1, back - 1})]
    /\ cand_dst' = e.pc
    /\ loop_iters' = 1
    /\ UNCHANGED loop_onset

Escaped(e) ==
    /\ Searching(e)
    /\ cand_dst # e.pc /\ ~InRecent(e.pc)
    /\ cand_dst' = None /\ cand_src' = None /\ loop_iters' = 0
    /\ UNCHANGED loop_onset

(* commit feeds the instruction to the detector; every branch ends in      *)
(* push_recent.                                                            *)
Retire(pc) ==
    /\ Len(trace) < MaxTrace
    /\ trace' = Append(trace, pc)
    /\ \E e \in {[pc |-> pc, at |-> Len(trace) + 1]} :
          /\ PushRecent(e)
          /\ \/ AlreadyPinned(e)
             \/ SelfLoop(e)
             \/ BackAtAnchor(e)
             \/ InsideBody(e)
             \/ FirstRepeat(e)
             \/ Escaped(e)

(* clear and resize: a timeline boundary re-arms the detector.             *)
Clear ==
    /\ recent' = << >> /\ loop_onset' = None
    /\ cand_dst' = None /\ cand_src' = None /\ loop_iters' = 0
    /\ trace' = << >>

Next == (\E pc \in Pc : Retire(pc)) \/ Clear

Spec == Init /\ [][Next]_vars

-----------------------------------------------------------------------------
TypeOK ==
    /\ recent \in Seq(Instr) /\ Len(recent) <= Window + 1
    /\ loop_onset \in Onset \cup {None}
    /\ cand_dst \in Pc \cup {None}
    /\ cand_src \in Instr \cup {None}
    /\ loop_iters \in 0 .. Threshold
    /\ trace \in Seq(Pc)

(* What the execution itself shows, without the detector.                  *)
From(m) == SubSeq(trace, m, Len(trace))
Visits(pc, m) == Cardinality({ i \in m .. Len(trace) : trace[i] = pc })
Pcs(s) == ToSet(s)

(* The trace ends in that many unbroken rounds of one body of n distinct   *)
(* addresses.  A one-instruction loop branches to itself; longer ones are  *)
(* what the window is for.                                                 *)
Body(n) == Pcs(From(Len(trace) - n + 1))
LoopsOver(n, rounds) ==
    /\ Len(trace) >= n * rounds
    /\ Cardinality(Body(n)) = n
    /\ \A i \in Len(trace) - n * (rounds - 1) + 1 .. Len(trace) : trace[i] = trace[i - n]

Bodies == 2 .. Window
Enough == Threshold + 1

(* It was entered from an instruction the detector had not just seen.  Nor *)
(* had it ever come round while the detector looked: a candidate anchored  *)
(* there is not dropped when it runs again (TightLoopIsPinned).            *)
Unseen(j) == \A i \in Max({1, j - Window - 1}) .. j - 1 : trace[i] # trace[j]

EnteredFresh(n) ==
    LET x == Len(trace) - n * Enough
    IN  \A j \in 1 .. x : trace[j] = trace[x] => Unseen(j)

(* The PC came back to dst Threshold times without leaving Window + 1      *)
(* addresses in between.                                                   *)
Circled(dst) ==
    \E m \in DOMAIN trace :
        /\ Visits(dst, m) > Threshold
        /\ Cardinality(Pcs(From(m))) <= Window + 1

(* A loop is never pinned on less evidence than the design asks for, unless *)
(* it branches to itself.                                                  *)
OnsetIsTightLoop ==
    [][(loop_onset = None /\ (loop_onset # None)')
          => (loop_onset.dst \in SelfBranch \/ Circled(loop_onset.dst))']_vars

(* A tight loop is caught when it was so entered, whatever else ran before. *)
FreshLoopIsPinned ==
    \A n \in Bodies :
        (LoopsOver(n, Enough) /\ EnteredFresh(n)) => loop_onset # None

(* What is pinned as the instruction that entered the loop did not run     *)
(* inside it, for a loop the design counts as tight.                       *)
EntryBefore(n) ==
    (/\ LoopsOver(n, Enough) /\ Len(trace) > n * Enough
     /\ loop_onset # None /\ loop_onset.dst \in Body(n) \ SelfBranch)
        => loop_onset.src.at <= Len(trace) - n * Enough

TightLoopEntryIsOutside == \A n \in Bodies : EntryBefore(n)

(* Such a loop is pinned, and with the instruction that entered it         *)
(* (detect_loop_onset).                                                    *)
LoopIsPinned == FreshLoopIsPinned /\ TightLoopEntryIsOutside

(* "The PC circles a small set of addresses for >= K iterations": such a   *)
(* loop is caught however it was entered, at the latest two rounds on.     *)
TightLoopIsPinned ==
    \A n \in Bodies : LoopsOver(n, Enough + 2) => loop_onset # None

(* "A legitimate short loop that runs K times then exits simply re-arms":  *)
(* the pinned record is about the loop the machine is in.                  *)
PinnedLoopIsCurrent ==
    \A n \in Bodies :
        (LoopsOver(n, Enough) /\ EnteredFresh(n) /\ loop_onset # None)
            => loop_onset.dst \in Body(n)

(* "A set of <= LOOP_WINDOW distinct addresses": whatever loop is pinned,  *)
(* its entry is the instruction that jumped into it.                       *)
EntryIsOutside == \A n \in 2 .. Window + 1 : EntryBefore(n)
=============================================================================
