------------------------------- MODULE M93C86 -------------------------------
(***************************************************************************)
(* The serial EEPROM of a GMod2 cartridge (trx64-core/src/m93c86.rs) and   *)
(* the register that drives its lines (Gmod2Mapper, cart.rs): commands are *)
(* shifted in a bit at a time and recognised in stages as their bits       *)
(* arrive; a program may deselect the chip, reset, or ask it anything, in  *)
(* the middle of one.                                                      *)
(*                                                                         *)
(* The shift registers are the bits in them, first one first, so the count *)
(* of bits is a length.  An address is reduced to the words there are.     *)
(* The data line is set by the store that reads it, so it is no state; a   *)
(* read empties its registers when it ends, as the next one fills them.    *)
(* A definition named for a slip is the one after it with that slip.       *)
(***************************************************************************)
EXTENDS Integers, Sequences

CONSTANTS
    AddressBits,    \* 10 in the code
    ByteBits,       \* 8
    Words,          \* 1024
    MaxStores,      \* bound: writes and erases
    Sent            \* bound: the words a program sends

ChipAssumption == /\ AddressBits \in Nat /\ AddressBits > 2
                  /\ ByteBits \in Nat /\ ByteBits > 1
                  /\ Words \in Nat \ {0} /\ MaxStores \in Nat

VARIABLES
    eeprom,
    frame,          \* history: the bits shifted in since the chip was emptied
    cut,            \* history: it was deselected in the middle of a frame
    unlocked,       \* history: the frames have enabled writing
    read            \* history: the first address of a read, the bits it gave

vars == <<eeprom, frame, cut, unlocked, read>>

Bit == {0, 1}
WordBits == 2 * ByteBits
AddressFrame == 3 + AddressBits
DataFrame == AddressFrame + WordBits
Addresses == 0 .. Words - 1
NoRead == [first |-> 0, bits |-> 0]
Erased == [i \in 1 .. WordBits |-> 1]

Init ==
    /\ eeprom = [cs |-> 0, clock |-> 0, data_out |-> 0,
                 input |-> << >>, output |-> << >>, output_count |-> 0,
                 command |-> "none", addr |-> 0, write_enable |-> FALSE,
                 data |-> [a \in Addresses |-> Erased], generation |-> 0]
    /\ frame = << >> /\ cut = FALSE /\ unlocked = FALSE /\ read = NoRead

-----------------------------------------------------------------------------
(* The chip.                                                               *)

Number(bits) ==
    LET upTo[i \in 0 .. Len(bits)] == IF i = 0 THEN 0 ELSE 2 * upTo[i - 1] + bits[i]
    IN  upTo[Len(bits)]
AddressOf(bits) == Number(SubSeq(bits, 4, AddressFrame)) % Words
WordOf(bits) == SubSeq(bits, AddressFrame + 1, DataFrame)
ByteOf(c, a, i) == SubSeq(c.data[a], i * ByteBits + 1, (i + 1) * ByteBits)

Emptied(c) == [c EXCEPT !.input = << >>]
ReadEnded(c) == [c EXCEPT !.command = "none", !.addr = 0, !.output = << >>,
                          !.output_count = 0]

\* What a falling select turns into the busy status, and what it ends.
BecomesBusy == {"write", "writeall", "eraseall"}
Reads == {"read", "readdummy", "readdata"}

Deselected(c) ==
    CASE c.cs = 1 /\ c.command \in BecomesBusy -> [c EXCEPT !.command = "isbusy"]
      [] c.command \in Reads -> ReadEnded(c)
      [] OTHER -> c

WriteSelectKeeping(c, v) ==
    IF v = 0 THEN [Deselected(c) EXCEPT !.cs = 0] ELSE [c EXCEPT !.cs = 1]

(* write_select.                                                           *)
WriteSelect(c, v) ==
    IF v = 0 THEN [Deselected(c) EXCEPT !.cs = 0]
    ELSE [(IF c.cs = 0 /\ c.clock = 0 THEN Emptied(c) ELSE c) EXCEPT !.cs = 1]

Opcode(bits) ==
    CASE bits = <<1, 0, 0>> -> "cmd00" [] bits = <<1, 0, 1>> -> "write"
      [] bits = <<1, 1, 0>> -> "read"  [] OTHER -> "erase"

SubOpcode(bits) ==
    LET n == Number(SubSeq(bits, 4, 5))
    IN  CASE n = 0 -> "disable" [] n = 1 -> "writeall"
          [] n = 2 -> "eraseall" [] OTHER -> "enable"

(* The five bits of EWEN enable before the frame is whole.                 *)
SubCommanded(c) ==
    LET sub == SubOpcode(c.input)
    IN  [c EXCEPT !.command = sub, !.write_enable = @ \/ sub = "enable"]

Stores(c, data) == [Emptied(c) EXCEPT !.data = data, !.generation = @ + 1]
Refuses(c) == [Emptied(c) EXCEPT !.command = "none"]
Fill(word) == [a \in Addresses |-> word]

(* All of the address has arrived.                                         *)
Addressed(c) ==
    LET a == AddressOf(c.input) IN
    CASE c.command = "read" -> [Emptied(c) EXCEPT !.command = "readdummy", !.addr = a]
      [] c.command = "disable" -> [Refuses(c) EXCEPT !.write_enable = FALSE]
      [] c.command = "enable" -> [Refuses(c) EXCEPT !.write_enable = TRUE]
      [] c.command \in {"erase", "eraseall"} /\ ~c.write_enable -> Refuses(c)
      [] c.command = "erase" /\ c.write_enable ->
           Stores(c, [c.data EXCEPT ![a] = Erased])
      [] c.command = "eraseall" /\ c.write_enable -> Stores(c, Fill(Erased))
      [] OTHER -> c

(* All of the data has arrived.                                            *)
Loaded(c) ==
    LET a == AddressOf(c.input) w == WordOf(c.input) IN
    CASE c.command \in {"write", "writeall"} /\ ~c.write_enable -> Refuses(c)
      [] c.command = "write" /\ c.write_enable -> Stores(c, [c.data EXCEPT ![a] = w])
      [] c.command = "writeall" /\ c.write_enable -> Stores(c, Fill(w))
      [] OTHER -> c

(* A bit comes in; more than the longest frame are not told apart.         *)
ShiftIn(c, din) ==
    LET d == [c EXCEPT !.input = Append(@, din)]
        n == Len(d.input) IN
    CASE n = 1 -> IF din = 0 THEN c ELSE d
      [] n = 3 -> [d EXCEPT !.command = Opcode(d.input)]
      [] n = 5 /\ d.command = "cmd00" -> SubCommanded(d)
      [] n = AddressFrame -> Addressed(d)
      [] n = DataFrame -> Loaded(d)
      [] n > DataFrame + 1 -> c
      [] OTHER -> d

NextByteAgain(c) ==
    CASE c.output_count = ByteBits -> [c EXCEPT !.output = ByteOf(c, c.addr, 1)]
      [] c.output_count = WordBits ->
           [c EXCEPT !.output = ByteOf(c, c.addr, 0), !.output_count = 0]
      [] OTHER -> c

(* The second byte, or the next word, the last being followed by the first.*)
NextByte(c) ==
    CASE c.output_count = ByteBits -> [c EXCEPT !.output = ByteOf(c, c.addr, 1)]
      [] c.output_count = WordBits ->
           LET a == (c.addr + 1) % Words
           IN  [c EXCEPT !.addr = a, !.output = ByteOf(c, a, 0), !.output_count = 0]
      [] OTHER -> c

ShiftOut(c) ==
    [c EXCEPT !.data_out = Head(c.output), !.output = Tail(@), !.output_count = @ + 1]

(* write_clock, on a rising edge while selected.                           *)
Clocked(c, din) ==
    CASE c.command = "readdummy" ->
           ShiftOut([c EXCEPT !.output = ByteOf(c, c.addr, 0), !.output_count = 0,
                              !.command = "readdata"])
      [] c.command = "readdata" -> NextByte(ShiftOut(c))
      [] OTHER -> ShiftIn(c, din)

Rising(c, v) == c.cs = 1 /\ v = 1 /\ c.clock = 0
WriteClock(c, din, v) ==
    [(IF Rising(c, v) THEN Clocked(c, din) ELSE c) EXCEPT !.clock = v]

(* A store to the register sets the lines; data and clock only of a chip   *)
(* that is selected.                                                       *)
Lines(cs, din, clk) ==
    LET c == WriteSelect(eeprom, cs)
    IN  IF cs = 0 THEN c ELSE WriteClock(c, din, clk)

(* read_data, with the chip selected: busy is given once, then ready.      *)
Polled(c) ==
    CASE c.command = "isbusy" -> [c EXCEPT !.command = "isready"]
      [] c.command = "isready" -> [c EXCEPT !.command = "none"]
      [] OTHER -> c

-----------------------------------------------------------------------------
(* What the bits are, taken as whole frames.                               *)

Command(f) == IF Opcode(SubSeq(f, 1, 3)) = "cmd00" THEN SubOpcode(f)
              ELSE Opcode(SubSeq(f, 1, 3))

Whole(f) == /\ Len(f) >= AddressFrame
            /\ Command(f) \in {"write", "writeall"} => Len(f) = DataFrame

Effect(f, data) ==
    CASE Command(f) = "write" -> [data EXCEPT ![AddressOf(f)] = WordOf(f)]
      [] Command(f) = "erase" -> [data EXCEPT ![AddressOf(f)] = Erased]
      [] Command(f) = "writeall" -> Fill(WordOf(f))
      [] Command(f) = "eraseall" -> Fill(Erased)
      [] OTHER -> data

(* The frame after a store that sets the select line and, on an edge,      *)
(* shifts in a bit.                                                        *)
Kept(cs) ==
    IF eeprom.cs = 0 /\ cs = 1 /\ eeprom.clock = 0 THEN << >>
    ELSE IF cs = 0 /\ Whole(frame) THEN << >> ELSE frame

Extended(f, din) ==
    IF Whole(f) /\ Command(f) = "read" THEN f
    ELSE LET g == IF Whole(f) THEN << >> ELSE f
         IN  IF g = << >> /\ din = 0 THEN << >> ELSE Append(g, din)

Completed == Whole(frame') /\ frame' # frame

(* What follows a cut is not followed until the chip is emptied.           *)
NoteStore(cs, din, clk) ==
    LET edge == Rising([eeprom EXCEPT !.cs = cs], clk)
        emptied == eeprom.cs = 0 /\ cs = 1 /\ eeprom.clock = 0 IN
    /\ cut' = (~emptied /\ (cut \/ (eeprom.cs = 1 /\ cs = 0 /\ Kept(cs) # << >>)))
    /\ frame' = IF cut' THEN << >>
                ELSE IF edge THEN Extended(Kept(cs), din) ELSE Kept(cs)
    /\ unlocked' = IF cut' THEN eeprom'.write_enable
                   ELSE IF Completed /\ Command(frame') = "disable" THEN FALSE
                   ELSE unlocked \/ (Len(frame') = 5 /\ Command(frame') = "enable")
    /\ read' = IF ~Whole(frame') \/ Command(frame') # "read" THEN NoRead
               ELSE IF Completed THEN [NoRead EXCEPT !.first = AddressOf(frame')]
               ELSE IF edge THEN [read EXCEPT !.bits = (@ + 1) % (Words * WordBits)]
               ELSE read

-----------------------------------------------------------------------------
WithinBounds(c) ==
    /\ c.generation <= MaxStores
    /\ \E w \in Sent : \A i \in AddressFrame + 1 .. Len(c.input) :
         i <= DataFrame => c.input[i] = w[i - AddressFrame]

(* A store to IO1, with any lines; the bank and mode bits are left out.    *)
Store(cs, din, clk) ==
    /\ eeprom' = Lines(cs, din, clk)
    /\ WithinBounds(eeprom')
    /\ NoteStore(cs, din, clk)

(* A read of IO1.                                                          *)
Poll ==
    /\ eeprom.cs = 1
    /\ eeprom' = Polled(eeprom)
    /\ UNCHANGED <<frame, cut, unlocked, read>>

(* The cartridge's reset.                                                  *)
Reset ==
    /\ eeprom' = WriteSelect(eeprom, 0)
    /\ NoteStore(0, 0, eeprom.clock)

Next ==
    \/ \E cs, din, clk \in Bit : Store(cs, din, clk)
    \/ Poll \/ Reset

Spec == Init /\ [][Next]_vars

-----------------------------------------------------------------------------
(* The array changes by whole frames, all of them, and by nothing else:    *)
(* staged recognition (write_clock) does what the frame says, whatever     *)
(* was deselected or asked before it.                                      *)
FramesAreObeyed ==
    [][~cut' => eeprom'.data = IF Completed /\ unlocked THEN Effect(frame', eeprom.data)
                             ELSE eeprom.data]_vars

(* A read gives the words from its address on, first bit first, and goes   *)
(* round (write_clock).                                                    *)
BitAt(n) == eeprom.data[(read.first + (n \div WordBits)) % Words][(n % WordBits) + 1]
ReadsAreStored ==
    eeprom.command = "readdata" /\ ~cut =>
      eeprom.data_out = BitAt((read.bits - 1) % (Words * WordBits))

-----------------------------------------------------------------------------
(* "Write/erase require a prior EWEN" (m93c86.rs): the frame of which is   *)
(* enough in part.                                                         *)
OnlyWholeFramesUnlock ==
    [][eeprom'.write_enable /\ ~eeprom.write_enable => Completed]_vars
=============================================================================
