---------------------------- MODULE ReverseDebug -----------------------------
(***************************************************************************)
(* The reverse debugger over a running machine: instructions feed the undo *)
(* ring with what they overwrite (full_sc.rs), reverse_step takes them     *)
(* back (lib.rs), and the checkpoint ring puts the machine on another      *)
(* timeline without touching the undo ring (main.rs restore_live_checkpoint*)
(* and c64re_snapshot.rs restore_runtime_checkpoint).                      *)
(*                                                                         *)
(* A Header stands for the whole CPU state.  Memory is RAM and the CPU     *)
(* port, and the registers of I/O chips (IoAddr).                          *)
(* A definition named for a slip is the one after it with that slip.       *)
(***************************************************************************)
EXTENDS RingQueries

CONSTANTS
    IoAddr,        \* addresses whose stores land in an I/O chip
    Byte,          \* byte values, 0 among them
    StepSizes      \* the n of runtime/reverse_step and rstep

ASSUME MemoryAssumption == /\ IoAddr \subseteq Addr /\ 0 \in Byte
                           /\ WriteRec = [addr : Addr, old : Byte, new : Byte]
                           /\ NoWrite.old \in Byte
ASSUME StepsAssumption == StepSizes \subseteq Nat

VARIABLES
    cpu, ram,
    undo_left,     \* iterations reverse_step has still to run
    flight_ram,    \* history: memory when the instruction in flight began
    timeline,      \* history: the machine before each instruction of this
                   \* timeline, oldest first
    tainted,       \* history: addresses changed behind the CPU's back
    lost           \* history: an undone instruction was no longer held whole

machine == <<cpu, ram>>
ghosts == <<flight_ram, timeline, tainted, lost>>
allvars == <<vars, machine, undo_left, ghosts>>

State(c, m) == [cpu |-> c, ram |-> m]
NoRam == [a \in Addr |-> 0]

MachineInit ==
    /\ Init
    /\ cpu \in Header
    /\ ram = NoRam
    /\ undo_left = 0
    /\ flight_ram = NoRam
    /\ timeline = << >> /\ tainted = {} /\ lost = FALSE

(* A new timeline: what ran before is not reachable by undoing from here.  *)
NewTimeline == timeline' = << >> /\ tainted' = {}

-----------------------------------------------------------------------------
(* One instruction, as execute_one and the bus run it.                     *)

Fetch ==
    /\ undo_left = 0
    /\ Begin(cpu)
    /\ flight_ram' = ram
    /\ UNCHANGED <<machine, undo_left, timeline, tainted, lost>>

StoreSwapped(a, v) ==
    /\ RecordWrite([addr |-> a, old |-> v, new |-> ram[a]])
    /\ ram' = [ram EXCEPT ![a] = v]
    /\ UNCHANGED <<cpu, undo_left, ghosts>>

(* A store to RAM or the port records the byte it replaced; one to an I/O  *)
(* chip records 0.                                                         *)
Store(a, v) ==
    /\ RecordWrite([addr |-> a,
                    old  |-> IF a \in IoAddr THEN 0 ELSE ram[a],
                    new  |-> v])
    /\ ram' = [ram EXCEPT ![a] = v]
    /\ UNCHANGED <<cpu, undo_left, ghosts>>

(* run_pending_dma: a DMA transfer drives the bus below the CPU's, and      *)
(* nothing is recorded.  It comes right after the instruction that armed   *)
(* it; here, anywhere in one.                                              *)
Dma(a, v) ==
    /\ in_flight
    /\ ram' = [ram EXCEPT ![a] = v]
    /\ tainted' = tainted \cup {a}
    /\ UNCHANGED <<vars, cpu, undo_left, flight_ram, timeline, lost>>

(* The boundary check took no interrupt: no cycle ran.                     *)
NothingRan ==
    /\ ram = flight_ram
    /\ Abort
    /\ flight_ram' = NoRam
    /\ UNCHANGED <<machine, undo_left, timeline, tainted, lost>>

Retire(c) ==
    /\ Commit
    /\ cpu' = c
    /\ timeline' = Append(timeline, State(cur.pre, flight_ram))
    /\ flight_ram' = NoRam
    /\ UNCHANGED <<ram, undo_left, tainted, lost>>

-----------------------------------------------------------------------------
(* reverse_step(n): at most what the ring says it retains ...              *)
ReverseStep(n) ==
    /\ ~in_flight /\ undo_left = 0
    /\ Retained > 0
    /\ undo_left' = Smaller(n, Retained)
    /\ UNCHANGED <<vars, machine, ghosts>>

UndoWritesOldestFirst(ws, m) ==
    [a \in Addr |-> IF LastTo(ws, a) = 0 THEN m[a] ELSE ws[LastTo(ws, a)].old]

(* The writes put back, newest first: each address ends at the byte the    *)
(* first of them replaced.                                                 *)
UndoWrites(ws, m) ==
    [a \in Addr |-> IF FirstTo(ws, a) = 0 THEN m[a] ELSE ws[FirstTo(ws, a)].old]

(* ... and per iteration: pop, then read the popped entry's writes with    *)
(* the cursor already rewound, then the registers.                         *)
UndoOne ==
    /\ undo_left > 0
    /\ undo_left' = undo_left - 1
    /\ \E e \in {Newest} :
          /\ PopNewest
          /\ ram' = UndoWrites(WritesFor(e)', ram)
          /\ cpu' = e.pre
    /\ timeline' = IF timeline = << >> THEN << >> ELSE Front(timeline)
    /\ lost' = (lost \/ overrun' \/ ~FullyKept(Len(log)))
    /\ UNCHANGED <<flight_ram, tainted>>

(* cold_reset, which warm_reset runs too: the ring is a timeline's.        *)
ColdReset(c) ==
    /\ undo_left = 0
    /\ Clear
    /\ cpu' = c
    /\ NewTimeline /\ lost' = FALSE
    /\ UNCHANGED <<ram, undo_left, flight_ram>>

(* set_reverse_depth.                                                      *)
SetReverseDepth(c) ==
    /\ undo_left = 0
    /\ Resize(c)
    /\ NewTimeline /\ lost' = FALSE
    /\ UNCHANGED <<machine, undo_left, flight_ram>>

(* restore_live_checkpoint: CPU and memory come from a checkpoint of any   *)
(* earlier moment or of another session, the undo ring stays what it was.  *)
RestoreCheckpoint(c, m) ==
    /\ ~in_flight /\ undo_left = 0
    /\ cpu' = c /\ ram' = m
    /\ NewTimeline
    /\ UNCHANGED <<vars, undo_left, flight_ram, lost>>

MachineNext ==
    \/ Fetch
    \/ \E a \in Addr, v \in Byte : Store(a, v)
    \/ \E a \in Addr, v \in Byte : Dma(a, v)
    \/ NothingRan
    \/ \E c \in Header : Retire(c)
    \/ \E n \in StepSizes : ReverseStep(n)
    \/ UndoOne
    \/ \E c \in Header : ColdReset(c)
    \/ \E c \in Caps : SetReverseDepth(c)
    \/ \E c \in Header, m \in [Addr -> Byte] : RestoreCheckpoint(c, m)

MachineSpec == MachineInit /\ [][MachineNext]_allvars

-----------------------------------------------------------------------------
(* The machine's own types; the ring's are DeltaRing's.                    *)
MachineTypeOK ==
    /\ cpu \in Header
    /\ ram \in [Addr -> Byte] /\ flight_ram \in [Addr -> Byte]
    /\ undo_left \in Nat
    /\ timeline \in Seq([cpu : Header, ram : [Addr -> Byte]])
    /\ tainted \subseteq Addr
    /\ lost \in BOOLEAN

(* An instruction of this timeline is undone that the ring holds whole.    *)
UndoingOwnHistory == UndoOne /\ ~lost' /\ timeline # << >>

(* Undoing an instruction the ring still holds whole puts back the CPU and *)
(* every RAM byte as they were before it, through any mix of recording,    *)
(* undoing, recording anew, resets and restores -- but for I/O registers   *)
(* and for bytes that changed without the CPU.                             *)
ReverseExact ==
    [][UndoingOwnHistory =>
          /\ cpu' = Last(timeline).cpu
          /\ \A a \in Addr \ (IoAddr \cup tainted) :
                ram'[a] = Last(timeline).ram[a]]_allvars

(* "rstep: restore CPU+RAM+I/O bytes".                                     *)
ReverseRestoresIo ==
    [][UndoingOwnHistory /\ tainted = {} => ram' = Last(timeline).ram]_allvars

(* "rstep undoes the last instructions, byte-exact", the RAM a transfer    *)
(* wrote during one of them included.                                      *)
ReverseIsByteExact ==
    [][UndoingOwnHistory =>
          \A a \in Addr \ IoAddr : ram'[a] = Last(timeline).ram[a]]_allvars

(* A restored snapshot starts with a fresh ring: undoing never leaves the  *)
(* timeline the machine is on.                                             *)
ReverseStaysOnTimeline == [][UndoOne /\ ~lost' => timeline # << >>]_allvars

(* who_wrote's first hit explains the byte in RAM, when the ring's history *)
(* is this timeline's and nothing undone is still ahead.                   *)
WhoWroteExplainsRam ==
    (CaughtUp /\ ~lost /\ ~in_flight /\ undo_left = 0) =>
        \A a \in Addr \ (IoAddr \cup tainted) :
            LET hit == WhoWrote(a, 1)
            IN  (hit # << >> /\ TrueWriters(a, Len(timeline)) # << >>)
                    => ram[a] = hit[1].w.new

-----------------------------------------------------------------------------
(* What ReverseExact and WhoWroteExplainsRam rest on: the newest entries   *)
(* of the log are the instructions of the timeline, and each entry's       *)
(* writes lead both ways between the memory before and after it.           *)

RedoWrites(ws, m) ==
    [a \in Addr |-> IF LastTo(ws, a) = 0 THEN m[a] ELSE ws[LastTo(ws, a)].new]

LeadBothWays(ws, before, after) ==
    \A a \in Addr \ (IoAddr \cup tainted) :
        UndoWrites(ws, after)[a] = before[a] /\ RedoWrites(ws, before)[a] = after[a]

(* The log entry of the j-th instruction of the timeline, and the memory   *)
(* that instruction left behind.                                           *)
EntryOf(j) == log[Len(log) - Len(timeline) + j]
LeftBehind(j) == IF j < Len(timeline) THEN timeline[j + 1].ram
                 ELSE IF in_flight THEN flight_ram ELSE ram

TimelineInLog ==
    /\ Len(timeline) <= Len(log)
    /\ \A j \in 1 .. Len(timeline) :
          /\ timeline[j].cpu = EntryOf(j).pre
          /\ LeadBothWays(EntryOf(j).ws, timeline[j].ram, LeftBehind(j))
    /\ in_flight => LeadBothWays(curws, flight_ram, ram)

(* Every slot a pop can read was filled by a retired instruction.          *)
SlotsFilled == \A i \in 0 .. entry_head - 1 : entries[i % ecap].pre \in Header

MachineInv == MachineTypeOK /\ SlotsFilled /\ (~lost => TimelineInLog)
=============================================================================
