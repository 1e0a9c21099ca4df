-------------------------- MODULE RewindTransport ----------------------------
(***************************************************************************)
(* Running and rewinding one machine that several clients share            *)
(* (trx64-daemon/src/main.rs, transport.rs, streaming.rs).  The run loop   *)
(* advances a running machine frame by frame and leaves anchors in the     *)
(* checkpoint ring; the rewind transport puts the machine on an anchor and *)
(* holds it there; clients start, stop, rewind, restore and change it.     *)
(* Every action is what one request, or one iteration of the loop, does    *)
(* under the State lock.                                                   *)
(*                                                                         *)
(* Where the machine is in its history is the path of moments that led     *)
(* there, so two paths show where their timelines part: n for the n-th     *)
(* frame emulated, -n for a change somebody made instead.  The ring is its *)
(* anchors, oldest first; pins, marks and a restore that runs on from a    *)
(* pinned anchor are CheckpointRing's.  The machine is powered.            *)
(* A definition named for a slip is the one after it with that slip.       *)
(***************************************************************************)
EXTENDS Integers, SequencesExt

CONSTANTS
    None,
    Windows,       \* the ring sizes a client may ask for
    RunLengths,    \* the cycles of a bounded run, in frames
    MaxFrames,     \* bound: moments on all timelines; at the last one a
                   \* breakpoint stops the machine
    MaxAnchors,    \* bound: anchors ever captured
    MaxRequests    \* bound: client requests

ASSUME BoundAssumption == /\ Windows \subseteq Nat \ {0} /\ Windows # {}
                          /\ RunLengths \subseteq Nat \ {0}
                          /\ MaxFrames \in Nat /\ MaxAnchors \in Nat
                          /\ MaxRequests \in Nat /\ None \notin Nat

VARIABLES
    at,            \* where the machine stands
    running,
    run_cap,       \* run_cap_clk: the clock a bounded run stops at, or None
    parked,        \* a client waits for its bounded run to stop
    anchors,       \* the ring
    max_entries,
    cursor,        \* the anchor the transport holds the machine on, or None
    playing,       \* "back", "fwd" or None
    mode,
    frames,        \* moments so far
    captured,      \* anchors captured so far
    requests,      \* client requests so far
    strayed        \* history: how machine and ring parted behind the
                   \* transport's back: "placed" or "evicted"

machine == <<at, running, run_cap>>
transport == <<cursor, playing, mode>>
ring == <<anchors, max_entries, captured>>
vars == <<machine, parked, ring, transport, frames, requests, strayed>>

Path == Seq((-MaxFrames .. MaxFrames) \ {0})
Anchor == [id : 1 .. MaxAnchors, at : Path]
Clock == Len(SelectSeq(at, LAMBDA m : m > 0))

Holds == cursor # None
Ids(s) == {s[i].id : i \in DOMAIN s}
IndexOf(id) == CHOOSE i \in DOMAIN anchors : anchors[i].id = id

(* transport::locate: the newest anchor when nothing is held.              *)
Located == {i \in DOMAIN anchors : IF Holds THEN anchors[i].id = cursor
                                   ELSE i = Len(anchors)}

Init ==
    /\ at = << >> /\ running = TRUE /\ run_cap = None /\ parked = FALSE
    /\ anchors = << >> /\ max_entries \in Windows
    /\ cursor = None /\ playing = None /\ mode = "live"
    /\ frames = 0 /\ captured = 0 /\ requests = 0 /\ strayed = {}

Newest(s, n) == SubSeq(s, Len(s) - n + 1, Len(s))
Trimmed(s, n) == IF Len(s) > n THEN Newest(s, n) ELSE s

(* The ring's capture: the oldest anchor makes room.                       *)
Captured(path) ==
    /\ captured < MaxAnchors
    /\ captured' = captured + 1
    /\ anchors' = Trimmed(Append(anchors, [id |-> captured + 1, at |-> path]),
                          max_entries)
    /\ UNCHANGED max_entries

(* end_bounded_run on every stop of the machine.                           *)
Stopped == running' = FALSE /\ run_cap' = None

(* The check of maybe_autopause_capped_run at clock c.                     *)
CapReached(c) == run_cap # None /\ run_cap <= c

-----------------------------------------------------------------------------
(* advance_frames for one frame: the emulation, the anchor if one is due,  *)
(* and whatever stops it -- the cap, or a breakpoint or JAM.               *)
Emulate ==
    \/ /\ frames < MaxFrames
       /\ ~CapReached(Clock)
       /\ frames' = frames + 1
       /\ at' = Append(at, frames + 1)
       /\ Captured(at') \/ UNCHANGED ring
       /\ \/ Stopped
          \/ ~CapReached(Clock + 1) /\ UNCHANGED <<running, run_cap>>
    \/ /\ frames = MaxFrames \/ CapReached(Clock)
       /\ Stopped
       /\ UNCHANGED <<at, ring, frames>>

(* transport_move_to: restore the anchor, which pauses the machine; at the *)
(* head the transport lets go of it.                                       *)
MoveTo(i, playOn) ==
    /\ at' = anchors[i].at
    /\ running' = FALSE
    /\ cursor' = IF i = Len(anchors) THEN None ELSE anchors[i].id
    /\ mode' = IF i = Len(anchors) THEN "live" ELSE "replay"
    /\ playing' = IF i = Len(anchors) \/ ~playOn THEN None ELSE playing
    /\ UNCHANGED <<run_cap, ring, frames>>

(* step_index: a step off either end stays there and stops the playback.   *)
StepIndex(i, d) == IF i + d \in DOMAIN anchors THEN i + d ELSE i

StepPlaysOn(d) == \E i \in Located : MoveTo(StepIndex(i, d), TRUE)
StepFromAnchor(d) ==
    \E i \in Located : MoveTo(StepIndex(i, d), i + d \in DOMAIN anchors)

NothingTruncated == anchors

(* timeline_truncate, before anything that changes a rewound machine.  A   *)
(* cursor whose anchor is gone truncates nothing.                          *)
Truncated ==
    IF Holds /\ Located # {} THEN SubSeq(anchors, 1, IndexOf(cursor)) ELSE anchors

CutKeepsPlaying ==
    /\ anchors' = Truncated
    /\ UNCHANGED <<max_entries, captured, playing>>
    /\ IF Holds THEN cursor' = None /\ mode' = "cut" ELSE UNCHANGED <<cursor, mode>>
CutTheFuture ==
    /\ anchors' = Truncated
    /\ UNCHANGED <<max_entries, captured>>
    /\ IF Holds THEN cursor' = None /\ playing' = None /\ mode' = "cut"
       ELSE UNCHANGED transport

-----------------------------------------------------------------------------
(* The run loop.                                                           *)

(* transport_tick with a step due; several due steps are several ticks     *)
(* under one lock.  A step that fails stops the playback.                  *)
LoopTick ==
    /\ playing # None
    /\ \/ StepFromAnchor(IF playing = "back" THEN -1 ELSE 1)
       \/ /\ Located = {}
          /\ playing' = None
          /\ UNCHANGED <<machine, ring, cursor, mode, frames>>
    /\ UNCHANGED <<parked, requests, strayed>>

(* loop_iteration of a running machine nothing holds.                      *)
LoopAdvance ==
    /\ running /\ ~Holds
    /\ Emulate
    /\ UNCHANGED <<parked, transport, requests, strayed>>

(* park_until_stopped sees the machine stopped and its call returns.       *)
ParkedReturn ==
    /\ parked /\ ~running
    /\ parked' = FALSE
    /\ UNCHANGED <<machine, ring, transport, frames, requests, strayed>>

-----------------------------------------------------------------------------
(* What clients ask.                                                       *)

Request == requests < MaxRequests /\ requests' = requests + 1

Placed(behind) == IF behind THEN {"placed"} ELSE {}

(* session/play, transport/toggle on a stopped machine, the monitor's run. *)
SessionPlay ==
    /\ Request
    /\ running' = TRUE
    /\ CutTheFuture
    /\ UNCHANGED <<at, run_cap, parked, frames, strayed>>

SessionPause ==
    /\ Request
    /\ Stopped
    /\ playing' = None
    /\ UNCHANGED <<at, parked, ring, cursor, mode, frames, strayed>>

(* transport/toggle on a moving machine, the monitor's pause.              *)
TogglePause ==
    /\ Request
    /\ running \/ playing # None
    /\ running' = FALSE /\ playing' = None
    /\ UNCHANGED <<at, run_cap, parked, ring, cursor, mode, frames, strayed>>

DebugPause ==
    /\ Request
    /\ Stopped
    /\ UNCHANGED <<at, parked, ring, transport, frames, strayed>>

(* debug/continue with no breakpoint armed.                                *)
DebugContinue ==
    /\ Request
    /\ running' = TRUE
    /\ UNCHANGED <<at, run_cap, parked, ring, transport, frames, strayed>>

(* debug/run; with wait it is refused while the transport holds.           *)
DebugRun(n, wait) ==
    /\ Request
    /\ ~wait \/ (~Holds /\ ~parked)
    /\ running' = TRUE /\ run_cap' = Clock + n
    /\ parked' = (parked \/ wait)
    /\ UNCHANGED <<at, ring, transport, frames, strayed>>

(* debug/step: one instruction, a moment of its own; no anchor.            *)
DebugStep ==
    /\ Request
    /\ frames < MaxFrames
    /\ frames' = frames + 1 /\ at' = Append(at, frames + 1)
    /\ running' = FALSE
    /\ strayed' = strayed \cup Placed(Holds)
    /\ UNCHANGED <<run_cap, parked, ring, transport>>

(* A monitor verb that changes the machine; the future goes first.         *)
Intervene ==
    /\ Request
    /\ frames < MaxFrames
    /\ frames' = frames + 1 /\ at' = Append(at, -(frames + 1))
    /\ CutTheFuture
    /\ UNCHANGED <<running, run_cap, parked, strayed>>

(* transport/play.                                                         *)
Play(dir) ==
    /\ Request
    /\ anchors # << >>
    /\ IF dir = "fwd" /\ (Located = {} \/ Len(anchors) \in Located)
       THEN cursor' = None /\ playing' = None /\ mode' = "live"
       ELSE /\ cursor' = IF Holds THEN cursor ELSE Last(anchors).id
            /\ playing' = dir /\ mode' = "replay"
    /\ UNCHANGED <<machine, parked, ring, frames, strayed>>

TransportPause ==
    /\ Request
    /\ playing' = None
    /\ UNCHANGED <<machine, parked, ring, cursor, mode, frames, strayed>>

(* transport/frame: forward from the head it runs a frame instead.         *)
Frame(d) ==
    /\ Request
    /\ IF d > 0 /\ ~Holds
       THEN Emulate /\ mode' = "step" /\ UNCHANGED <<cursor, playing>>
       ELSE StepFromAnchor(d)
    /\ UNCHANGED <<parked, strayed>>

Goto(i) ==
    /\ Request
    /\ MoveTo(i, TRUE)
    /\ UNCHANGED <<parked, strayed>>

(* checkpoint/restore of an anchor, then pause or keep; the transport is   *)
(* not told.                                                               *)
CheckpointRestore(i, then) ==
    /\ Request
    /\ at' = anchors[i].at
    /\ running' = (then = "keep" /\ running)
    /\ strayed' = strayed \cup {"placed"}
    /\ UNCHANGED <<run_cap, parked, ring, transport, frames>>

(* checkpoint/capture.                                                     *)
CheckpointCapture ==
    /\ Request
    /\ Captured(at)
    /\ strayed' = strayed \cup Placed(Holds)
    /\ UNCHANGED <<machine, parked, transport, frames>>

CheckpointClear ==
    /\ Request
    /\ anchors' = << >>
    /\ strayed' = strayed \cup (IF Holds THEN {"evicted"} ELSE {})
    /\ UNCHANGED <<machine, parked, max_entries, captured, transport, frames>>

(* window or cadence: a smaller ring forgets its oldest at once.           *)
SetWindow(n) ==
    /\ Request
    /\ max_entries' = n
    /\ anchors' = Trimmed(anchors, n)
    /\ strayed' = IF Holds /\ cursor \notin Ids(anchors')
                  THEN strayed \cup {"evicted"} ELSE strayed
    /\ UNCHANGED <<machine, parked, captured, transport, frames>>

(* do_power_on: a fresh machine has no past.                               *)
PowerOn ==
    /\ Request
    /\ at' = << >> /\ running' = TRUE /\ run_cap' = None
    /\ anchors' = << >>
    /\ cursor' = None /\ playing' = None /\ mode' = "live"
    /\ strayed' = {}
    /\ UNCHANGED <<parked, max_entries, captured, frames>>

Next ==
    \/ LoopTick
    \/ LoopAdvance
    \/ ParkedReturn
    \/ SessionPlay
    \/ SessionPause
    \/ TogglePause
    \/ DebugPause
    \/ DebugContinue
    \/ \E n \in RunLengths, wait \in BOOLEAN : DebugRun(n, wait)
    \/ DebugStep
    \/ Intervene
    \/ \E dir \in {"back", "fwd"} : Play(dir)
    \/ TransportPause
    \/ \E d \in {-1, 1} : Frame(d)
    \/ \E i \in DOMAIN anchors : Goto(i)
    \/ \E i \in DOMAIN anchors, then \in {"pause", "keep"} : CheckpointRestore(i, then)
    \/ CheckpointCapture
    \/ CheckpointClear
    \/ \E n \in Windows : SetWindow(n)
    \/ PowerOn

(* The loop thread runs for as long as the daemon does; a parked call is   *)
(* woken by the loop's condition variable, or by its 20 ms timeout.        *)
Fairness == WF_vars(LoopTick) /\ WF_vars(LoopAdvance) /\ WF_vars(ParkedReturn)

Spec == Init /\ [][Next]_vars
FairSpec == Spec /\ Fairness

-----------------------------------------------------------------------------
TypeOK ==
    /\ at \in Path /\ running \in BOOLEAN /\ parked \in BOOLEAN
    /\ run_cap \in Nat \cup {None}
    /\ anchors \in Seq(Anchor) /\ max_entries \in Windows
    /\ cursor \in 1 .. MaxAnchors \cup {None}
    /\ playing \in {"back", "fwd", None}
    /\ mode \in {"live", "replay", "cut", "step"}
    /\ frames \in 0 .. MaxFrames /\ captured \in 0 .. MaxAnchors
    /\ requests \in 0 .. MaxRequests
    /\ strayed \subseteq {"placed", "evicted"}

(* The ring in order: every anchor lies on the way to every later one.     *)
InOrder ==
    \A i, j \in DOMAIN anchors :
        i < j => IsPrefix(anchors[i].at, anchors[j].at)

(* Rewinding, replaying, resuming from anywhere and changing the machine   *)
(* never mix two timelines in the ring, and the machine is always on the   *)
(* ring's, whichever clients interleave.                                   *)
TransportKeepsOneTimeline ==
    strayed = {} =>
        /\ InOrder
        /\ Holds => Located # {}
        /\ \A i \in Located : IsPrefix(anchors[i].at, at)

(* A playback owns the machine: the emulation never runs under it.         *)
PlayingHolds == playing # None => Holds

(* Replaying forward and running live look identical, so the mode tells    *)
(* them apart in every state.                                              *)
ModeTells == Holds <=> mode = "replay"

(* What transport/state says of playing and mode is so.                    *)
TransportTells == PlayingHolds /\ ModeTells

(* What the two rest on: an anchor is told by its id, and the ids ascend.  *)
(* The cap of a bounded run decides nothing here, and is left out.         *)
IdsAscend ==
    /\ \A i, j \in DOMAIN anchors : i < j => anchors[i].id < anchors[j].id
    /\ \A i \in DOMAIN anchors : anchors[i].id <= captured

TransportTypes ==
    /\ at \in Path
    /\ anchors \in Seq(Anchor) /\ max_entries \in Windows
    /\ cursor \in 1 .. MaxAnchors \cup {None}
    /\ playing \in {"back", "fwd", None}
    /\ mode \in {"live", "replay", "cut", "step"}
    /\ frames \in 0 .. MaxFrames /\ captured \in 0 .. MaxAnchors

IInv == TransportTypes /\ IdsAscend /\ TransportTells /\ TransportKeepsOneTimeline

(* A playback stops by itself, at an end or where the ring fails it.       *)
PlaybackEnds == (playing # None) ~> (playing = None)

-----------------------------------------------------------------------------
(* What the documentation promises and the code does not keep.             *)

(* "debug/run with wait: the call returns when the run has stopped".       *)
ParkedReturns == parked ~> ~parked

(* "Play-forward replays the anchors and becomes live emulation when it    *)
(* reaches the head".                                                      *)
ReplayBecomesLive ==
    [][LoopTick /\ playing = "fwd" /\ cursor' = None => running']_vars

(* "One timeline: diverging from a rewound position truncates the future": *)
(* no two anchors belong to futures that parted.                           *)
OneTimeline ==
    \A i, j \in DOMAIN anchors : \/ IsPrefix(anchors[i].at, anchors[j].at)
                                 \/ IsPrefix(anchors[j].at, anchors[i].at)

(* "Every one of these ends with the machine standing on an anchor (or at  *)
(* the head)": the machine is where the transport says it is.              *)
MachineIsWhereTransportSays ==
    \A i \in Located : Holds => at = anchors[i].at

(* "While the transport holds the machine, nothing else advances it".      *)
OnlyTransportMoves ==
    [][(Holds /\ cursor' = cursor /\ cursor \in Ids(anchors))
          => at' \in {at, anchors[IndexOf(cursor)].at}]_vars

(* "Cleared when the run stops, on any explicit pause and on a power       *)
(* cycle": a cap does not outlive its run.                                 *)
CapEndsWithItsRun == run_cap # None => running

(* "This is the one place the future is truncated": after an intervention  *)
(* from a rewound position no anchor lies ahead of the machine -- also     *)
(* when the anchor it stands on was evicted under it.                      *)
InterventionCutsTheFuture ==
    [][(Holds /\ mode' = "cut" /\ "placed" \notin strayed)
          => \A i \in DOMAIN anchors' : IsPrefix(anchors'[i].at, at')]_vars
=============================================================================
