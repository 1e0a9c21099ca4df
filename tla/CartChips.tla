------------------------------ MODULE CartChips ------------------------------
(* A cartridge: how what is programmed into it reaches its file, and the   *)
(* chips of two kinds of it that a program can write to, the flash of an   *)
(* EasyFlash and the serial EEPROM of a GMod2.  The writer looks at a      *)
(* generation and takes an image, and at nothing else of a chip, so each   *)
(* has variables of its own.                                               *)
EXTENDS CartPersist

CONSTANTS Addrs, SectorOf, Magic1, Magic2, IdAddrs, EraseSectorTimeout,
          EraseSectorCycles, EraseChipCycles, ProgramCycles, GuardSteps, Images,
          Stored, Programmed, MaxLate,
          AddressBits, ByteBits, Words, MaxStores, Sent

VARIABLES chip, answer, phase, named,
          cartridge, eeprom, frame, cut, unlocked, read

Flash == INSTANCE Flash040 WITH Bytes <- Stored, Data <- Programmed
Serial == INSTANCE M93C86

ASSUME ChipsAssumption == Flash!FlashAssumption /\ Serial!ChipAssumption

(* One cartridge is in, and the other's chip stays as it was made, as does *)
(* the writer.                                                             *)
rest == <<vars, cartridge>>
flash == <<chip, answer, phase, named>>
serial == <<eeprom, frame, cut, unlocked, read>>
chips == <<rest, flash, serial>>

ChipInit == /\ cartridge \in {"EasyFlash", "GMod2"}
            /\ Init /\ Flash!Init /\ Serial!Init
            /\ cartridge = "GMod2" => chip.cycles = 0

FlashIsIn == cartridge = "EasyFlash" /\ UNCHANGED <<rest, serial>>
EepromIsIn == cartridge = "GMod2" /\ UNCHANGED <<rest, flash>>

ChipNext == (FlashIsIn /\ Flash!Next) \/ (EepromIsIn /\ Serial!Next)

(* The machine's clock moves on, and a program polls the chip it waits     *)
(* for, again and again: a read answers, and nothing else does.            *)
Polled == cartridge = "EasyFlash" => answer # <<>>
ChipSpec == /\ ChipInit /\ [][ChipNext]_chips
            /\ WF_chips(FlashIsIn /\ Flash!Tick) /\ []<>Polled

(* A flash that catches up late cannot be told from one on time            *)
(* (catch_up_erase).                                                       *)
LateIsOnTime == Flash!LateIsOnTime

(* An erase clears only the sectors last named for one (store, Fire).      *)
EraseOnlyNamed == Flash!EraseOnlyNamed

(* An erase or a program comes to its end (catch_up_erase).                *)
BusyEnds == Flash!BusyEnds

(* The array of the EEPROM changes by whole frames (write_clock).          *)
FramesAreObeyed == Serial!FramesAreObeyed

(* A read of the EEPROM gives what is stored (write_clock).                *)
ReadsAreStored == Serial!ReadsAreStored

(* Not so: that only a whole EWEN enables writing (m93c86.rs).             *)
OnlyWholeFramesUnlock == Serial!OnlyWholeFramesUnlock
==============================================================================
