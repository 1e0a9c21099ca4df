----------------------------- MODULE FlashChip -----------------------------
(***************************************************************************)
(* The AMD command machine of a flash cartridge's chip                     *)
(* (trx64-core/src/flash040.rs), as functions of the chip's state: what an *)
(* alarm step, a store and a read make of it.  Two modules put them to     *)
(* work: FlashAlarm fires every alarm step when it is due, and Flash040,   *)
(* the code, fires them late, when something touches the chip.             *)
(*                                                                         *)
(* A byte is the set of its bits, so that a program's AND is \cap and an   *)
(* erased byte is Bits.  An alarm is kept as the cycles still to wait for  *)
(* it, negative once it is overdue: the code keeps the absolute clock, and *)
(* only compares it with the machine's and adds to it.  The generation     *)
(* counter, which moves exactly where dirty is set, is left out, and so is *)
(* the clock bit that toggles in a failed program's status.                *)
(***************************************************************************)
EXTENDS Integers, FiniteSets

CONSTANTS
    Addrs,              \* the addresses of the array
    SectorOf,           \* the sector an address lies in
    Magic1, Magic2,     \* the addresses the two unlock stores go to
    IdAddrs,            \* the addresses an identified chip answers its ids at
    EraseSectorTimeout, EraseSectorCycles, EraseChipCycles,
    ProgramCycles,      \* a program's time, of the parts modelled (0: at once)
    GuardSteps,         \* alarm steps one catch-up takes at most (256)
    Images              \* the arrays a chip is put in with (a bound)

Sectors == {SectorOf[a] : a \in Addrs}

FlashAssumption ==
    /\ SectorOf \in [Addrs -> Nat] /\ IsFiniteSet(Sectors)
    /\ Magic1 \in Addrs /\ Magic2 \in Addrs /\ IdAddrs \subseteq Addrs
    /\ EraseSectorTimeout \in Nat \ {0} /\ EraseSectorCycles \in Nat \ {0}
    /\ EraseChipCycles \in Nat \ {0}
    /\ ProgramCycles \subseteq Nat
    \* A step for each sector (135 at most), and one each to begin and to end.
    /\ GuardSteps \in Nat /\ GuardSteps >= Cardinality(Sectors) + 2
    /\ Images \subseteq [Addrs -> SUBSET (0 .. 7)]

-----------------------------------------------------------------------------
(* Bytes. *)

Bits == 0 .. 7
Erased == Bits
XAA == {7, 5, 3, 1}   X55 == {6, 4, 2, 0}   X90 == {7, 4}
XF0 == {7, 6, 5, 4}   XA0 == {7, 5}         X80 == {7}
X30 == {5, 4}         X10 == {4}            XB0 == {7, 5, 4}

Commands == {XAA, X55, X90, XF0, XA0, X80, X30, X10, XB0}
Identity == {0}

DQ3 == {3}   DQ5 == {5}   DQ6 == {6}   DQ7 == {7}

Xor(x, y) == (x \ y) \cup (y \ x)

-----------------------------------------------------------------------------
(* The chip. *)

FlashState ==
    {"Read", "Magic1", "Magic2", "Autoselect", "ByteProgram", "ByteProgramError",
     "EraseMagic1", "EraseMagic2", "EraseSelect", "ChipErase", "SectorErase",
     "SectorEraseTimeout", "SectorEraseSuspend", "ProgramBusy"}

Chip ==
    [data : [Addrs -> SUBSET Bits], state : FlashState, base : {"Read", "Autoselect"},
     byte : SUBSET Bits, dirty : BOOLEAN, mask : SUBSET Sectors,
     armed : BOOLEAN, wait : Int, dq6 : BOOLEAN, cycles : ProgramCycles]

NewChip(data, cycles) ==
    [data |-> data, state |-> "Read", base |-> "Read", byte |-> {},
     dirty |-> FALSE, mask |-> {}, armed |-> FALSE, wait |-> 0, dq6 |-> FALSE,
     cycles |-> cycles]

\* Alarm set for a number of cycles from now, and unset.
Armed(c, n) == [c EXCEPT !.armed = TRUE, !.wait = n]
Disarmed(c) == [c EXCEPT !.armed = FALSE, !.wait = 0]

\* Back to the state the last command left, reading or identified.
ToBase(c) == [c EXCEPT !.state = c.base]

EraseSectors(c, s) ==
    [c EXCEPT !.data = [a \in Addrs |-> IF SectorOf[a] \in s THEN Erased ELSE @[a]],
              !.dirty = TRUE]

First(s) == CHOOSE x \in s : \A y \in s : x <= y

-----------------------------------------------------------------------------
(* An alarm step.  The next one is set off the time this one was due. *)

Due(c) == c.armed /\ c.wait <= 0

EraseNext(c) ==
    IF c.mask = {} THEN c
    ELSE [EraseSectors(c, {First(c.mask)}) EXCEPT !.mask = @ \ {First(c.mask)}]

\* Slip: the next step set off the time of the call that catches up.
FollowingFromNow(c) == EraseSectorCycles

\* The wait for the step after this one.
Following(c) == c.wait + EraseSectorCycles

Fire(c) ==
    CASE c.state = "SectorEraseTimeout" ->
             Armed([c EXCEPT !.state = "SectorErase"], Following(c))
      [] c.state = "SectorErase" ->
             IF EraseNext(c).mask # {}
             THEN Armed(EraseNext(c), Following(c))
             ELSE ToBase(Disarmed(EraseNext(c)))
      [] c.state = "ChipErase" -> ToBase(Disarmed(EraseSectors(c, Sectors)))
      [] c.state = "ProgramBusy" -> ToBase(Disarmed(c))
      [] OTHER -> Disarmed(c)

\* Every step that is due, one after the other.
CatchUp(c) ==
    LET Step(d) == IF Due(d) THEN Fire(d) ELSE d
        after[n \in 0 .. GuardSteps] == IF n = 0 THEN c ELSE Step(after[n - 1])
    IN  IF Due(c) THEN after[GuardSteps] ELSE c

Elapse(c) == IF c.armed THEN [c EXCEPT !.wait = @ - 1] ELSE c

-----------------------------------------------------------------------------
(* A store, to a chip with no step due. *)

Unlock(c, a, b, magic, want, next) ==
    IF a = magic /\ b = want THEN [c EXCEPT !.state = next] ELSE ToBase(c)

Command(c, a, b) ==
    CASE a # Magic1 -> ToBase(c)
      [] a = Magic1 /\ b = X90 -> [c EXCEPT !.state = "Autoselect", !.base = "Autoselect"]
      [] a = Magic1 /\ b = XF0 -> [c EXCEPT !.state = "Read", !.base = "Read"]
      [] a = Magic1 /\ b = XA0 -> [c EXCEPT !.state = "ByteProgram"]
      [] a = Magic1 /\ b = X80 -> [c EXCEPT !.state = "EraseMagic1"]
      [] OTHER -> ToBase(c)

\* A program clears bits and never sets one: asked to, it ends in an error.
Program(c, a, b) ==
    LET p == [c EXCEPT !.data[a] = @ \cap b, !.byte = b, !.dirty = TRUE]
    IN  CASE p.data[a] # b -> [p EXCEPT !.state = "ByteProgramError"]
          [] p.data[a] = b /\ c.cycles > 0 ->
                 Armed([p EXCEPT !.state = "ProgramBusy", !.dq6 = FALSE], c.cycles)
          [] OTHER -> ToBase(p)

AddSector(c, a) == [c EXCEPT !.mask = @ \cup {SectorOf[a]}]

SelectErase(c, a, b) ==
    CASE a = Magic1 /\ b = X10 ->
             Armed([c EXCEPT !.state = "ChipErase", !.byte = {}], EraseChipCycles)
      [] b = X30 ->
             Armed([AddSector(c, a) EXCEPT !.state = "SectorEraseTimeout", !.byte = {}],
                   EraseSectorTimeout)
      [] OTHER -> ToBase(c)

\* Slip: The selection of an erase that is called off left for the next.
NameMoreKeepMask(c, a, b) ==
    IF b = X30 THEN AddSector(c, a) ELSE ToBase(Disarmed(c))

\* Slip: The time to name sectors started anew by every sector named.
NameMoreRestart(c, a, b) ==
    IF b = X30 THEN Armed(AddSector(c, a), EraseSectorTimeout)
    ELSE ToBase(Disarmed([c EXCEPT !.mask = {}]))

\* While more sectors may be named: anything else calls the erase off.
NameMore(c, a, b) ==
    IF b = X30 THEN AddSector(c, a) ELSE ToBase(Disarmed([c EXCEPT !.mask = {}]))

Suspend(c, b) ==
    IF b = XB0 THEN Disarmed([c EXCEPT !.state = "SectorEraseSuspend"]) ELSE c

Resume(c, b) ==
    IF b = X30 THEN Armed([c EXCEPT !.state = "SectorErase"], EraseSectorCycles) ELSE c

\* Out of an error or the identified state.
Leave(c, a, b) ==
    CASE b = XF0 -> [c EXCEPT !.state = "Read", !.base = "Read"]
      [] a = Magic1 /\ b = XAA -> [c EXCEPT !.state = "Magic1"]
      [] OTHER -> c

Store(c, a, b) ==
    CASE c.state = "Read" -> IF a = Magic1 /\ b = XAA THEN [c EXCEPT !.state = "Magic1"] ELSE c
      [] c.state = "Magic1" -> Unlock(c, a, b, Magic2, X55, "Magic2")
      [] c.state = "Magic2" -> Command(c, a, b)
      [] c.state = "ByteProgram" -> Program(c, a, b)
      [] c.state = "EraseMagic1" -> Unlock(c, a, b, Magic1, XAA, "EraseMagic2")
      [] c.state = "EraseMagic2" -> Unlock(c, a, b, Magic2, X55, "EraseSelect")
      [] c.state = "EraseSelect" -> SelectErase(c, a, b)
      [] c.state = "SectorEraseTimeout" -> NameMore(c, a, b)
      [] c.state = "SectorErase" -> Suspend(c, b)
      [] c.state = "SectorEraseSuspend" -> Resume(c, b)
      [] c.state \in {"ByteProgramError", "Autoselect"} -> Leave(c, a, b)
      [] OTHER -> c

-----------------------------------------------------------------------------
(* A read, of a chip with no step due: the byte, and the chip after it, a  *)
(* status having toggled.                                                  *)

Erasing(c) == c.state \in {"SectorEraseTimeout", "SectorErase", "ChipErase"}
ShowsErase(c) == Erasing(c) \/ c.state = "SectorEraseSuspend"

EraseStatus(c) == IF c.state = "SectorEraseTimeout" THEN c.byte ELSE c.byte \cup DQ3
Complement7(c) == DQ7 \ c.byte

ReadByte(c, a) ==
    CASE c.state = "Autoselect" /\ a \in IdAddrs -> Identity
      [] c.state = "ByteProgramError" -> Complement7(c) \cup DQ5
      [] c.state = "ProgramBusy" -> Complement7(c) \cup (IF c.dq6 THEN {} ELSE DQ6)
      [] ShowsErase(c) -> EraseStatus(c)
      [] OTHER -> c.data[a]

AfterRead(c) ==
    CASE c.state = "ProgramBusy" -> [c EXCEPT !.dq6 = ~@]
      [] ShowsErase(c) -> [c EXCEPT !.byte = Xor(@, DQ6)]
      [] OTHER -> c
=============================================================================
