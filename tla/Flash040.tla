------------------------------ MODULE Flash040 ------------------------------
(***************************************************************************)
(* The chip as the code runs it (flash040.rs).  No alarm is scheduled: the *)
(* steps of an erase that have come due are made up for by catch_up_erase  *)
(* when the program stores to the chip or reads it, or the host asks for   *)
(* its contents or its state.  Between two such calls the array and the    *)
(* command state are those of the last call, however late they are.        *)
(***************************************************************************)
EXTENDS FlashChip

CONSTANTS Bytes,    \* the bytes a program stores (a bound)
          Data,     \* of them, those it programs (a bound)
          MaxLate   \* the cycles an alarm is left overdue at most (a bound)

VARIABLES
    chip,           \* the chip, as of the last call that caught up
    answer,         \* the byte read in this step, <<>> if none is
    phase,          \* the cycle's parity
    named           \* history: the sectors the erase last asked for is to erase

vars == <<chip, answer, phase, named>>

TypeOK ==
    /\ chip \in Chip
    /\ answer = <<>> \/ answer \in {<<b>> : b \in SUBSET Bits}
    /\ phase \in {0, 1}
    /\ named \in SUBSET Sectors

Init ==
    /\ \E d \in Images, n \in ProgramCycles : chip = NewChip(d, n)
    /\ answer = <<>>
    /\ phase = 0
    /\ named = {}

-----------------------------------------------------------------------------

\* A cycle of the machine.  The chip is not called.
Tick ==
    /\ chip.armed => chip.wait > -MaxLate
    /\ chip' = Elapse(chip)
    /\ phase' = 1 - phase
    /\ answer' = <<>>
    /\ UNCHANGED named

\* The sectors a store adds to the erase being asked for, or begins it with.
Names(c, a, b) ==
    CASE c.state = "EraseSelect" /\ a = Magic1 /\ b = X10 -> Sectors
      [] c.state = "EraseSelect" /\ b = X30 /\ ~(a = Magic1 /\ b = X10) -> {SectorOf[a]}
      [] c.state = "SectorEraseTimeout" /\ b = X30 -> named \cup {SectorOf[a]}
      [] c.state = "SectorEraseTimeout" /\ b # X30 -> {}
      [] OTHER -> named

StoreByte ==
    \E a \in Addrs, b \in Bytes :
        LET c == CatchUp(chip)
        IN  /\ c.state = "ByteProgram" => b \in Data
            /\ chip' = Store(c, a, b)
            /\ named' = Names(c, a, b)
            /\ answer' = <<>>
            /\ UNCHANGED phase

\* A chip that reads and has no alarm is not caught up: there is nothing due.
Idle(c) == c.state = "Read" /\ ~c.armed

ReadAddr ==
    \E a \in Addrs :
        LET c == IF Idle(chip) THEN chip ELSE CatchUp(chip)
        IN  /\ answer' = <<ReadByte(c, a)>>
            /\ chip' = AfterRead(c)
            /\ UNCHANGED <<phase, named>>

\* The host takes the array: a checkpoint's blobs, a .crt to write.
GetData ==
    /\ chip' = CatchUp(chip)
    /\ answer' = <<>>
    /\ UNCHANGED <<phase, named>>

\* The state a checkpoint carries, put into the chip a restore creates: a new
\* chip, the array loaded, the command state restored.  The array was taken
\* first, so the state was caught up with it.
Snapshot(c) ==
    [state |-> c.state, base |-> c.base, byte |-> c.byte, dirty |-> c.dirty,
     mask |-> c.mask, armed |-> c.armed, wait |-> c.wait, dq6 |-> c.dq6]

Restored(data, cycles, s) ==
    [NewChip(data, cycles) EXCEPT
        !.state = s.state, !.base = s.base, !.byte = s.byte, !.dirty = s.dirty,
        !.mask = s.mask, !.armed = s.armed, !.wait = s.wait, !.dq6 = s.dq6]

CarryOver ==
    /\ LET c == CatchUp(chip) IN chip' = Restored(c.data, c.cycles, Snapshot(c))
    /\ answer' = <<>>
    /\ UNCHANGED <<phase, named>>

Next == Tick \/ StoreByte \/ ReadAddr \/ GetData \/ CarryOver

Spec == Init /\ [][Next]_vars

-----------------------------------------------------------------------------
(* Correctness. *)

\* A chip that catches up late cannot be told from one whose alarm is on
\* time: caught up to the present, every behaviour of the code is one of the
\* chip with the alarm, a long erase of several sectors left alone included
\* (flash040.rs:376, "matches VICE's real alarm exactly regardless of when a
\* read happens to catch it up").
Alarm == INSTANCE FlashAlarm WITH chip <- CatchUp(chip)
LateIsOnTime == Alarm!Spec

\* A bit comes back to 1 only in a sector the erase last asked for has named:
\* what an earlier erase that was called off had selected stays as it was.
Gains(a) == ~(chip'.data[a] \subseteq chip.data[a])
EraseOnlyNamed ==
    [][\A a \in Addrs : Gains(a) => SectorOf[a] \in named /\ Erasing(chip)]_vars

\* An erase or a program under way comes to its end, or is suspended: the
\* program's polling does not put it off.
Busy == Erasing(chip) \/ chip.state = "ProgramBusy"
BusyEnds == Busy ~> ~Busy

\* Not so: that what the chip says of itself without catching up is true as
\* well.  is_dirty, which decides whether an ejected cartridge is written, is
\* a plain read, and an erase that is over by now is not in it yet.
DirtyIsCurrent == CatchUp(chip).dirty => chip.dirty

=============================================================================
