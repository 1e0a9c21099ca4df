----------------------------- MODULE FlashAlarm -----------------------------
(***************************************************************************)
(* What a flash chip promises the program: every step of an erase, and the *)
(* end of a program, happens at the cycle it is due, and a store or a read *)
(* finds the chip as of its own cycle.                                     *)
(***************************************************************************)
EXTENDS FlashChip

CONSTANT Bytes      \* the bytes a program stores (a bound)

VARIABLES
    chip,
    answer,         \* the byte read in this step, <<>> if none is
    phase           \* the cycle's parity: time that stands still would show

vars == <<chip, answer, phase>>

Init ==
    /\ \E d \in Images, n \in ProgramCycles : chip = NewChip(d, n)
    /\ answer = <<>>
    /\ phase = 0

OnTime(c) == IF Due(c) THEN Fire(c) ELSE c

Tick ==
    /\ chip' = OnTime(Elapse(chip))
    /\ phase' = 1 - phase
    /\ answer' = <<>>

StoreByte ==
    /\ \E a \in Addrs, b \in Bytes : chip' = Store(chip, a, b)
    /\ answer' = <<>>
    /\ UNCHANGED phase

ReadAddr ==
    \E a \in Addrs :
        /\ answer' = <<ReadByte(chip, a)>>
        /\ chip' = AfterRead(chip)
        /\ UNCHANGED phase

\* The host's calls: nothing the program could see.
Host ==
    /\ answer' = <<>>
    /\ UNCHANGED <<chip, phase>>

Next == Host \/ Tick \/ StoreByte \/ ReadAddr

Spec == Init /\ [][Next]_vars
=============================================================================
