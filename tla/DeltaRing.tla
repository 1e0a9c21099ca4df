------------------------------ MODULE DeltaRing ------------------------------
(***************************************************************************)
(* The always-on full-delta undo ring of the reverse debugger              *)
(* (crates/trx64-core/src/delta_ring.rs).  Two circular slabs: `entries`   *)
(* holds one header per retired instruction (the CPU state before it and   *)
(* the window of its writes), `writes` holds every byte it overwrote.      *)
(* `entry_head` and `write_head` count what was ever put in, less what     *)
(* reverse-step took back, and are reduced modulo the slab size at each    *)
(* access.                                                                 *)
(*                                                                         *)
(* Between begin and commit the code is one CPU step under one borrow, so  *)
(* no other operation is enabled while an instruction is in flight.        *)
(*                                                                         *)
(* The last five variables are history the code does not keep: what really *)
(* retired, and how far each slab was ever filled since it was emptied.    *)
(*                                                                         *)
(* A definition named for a slip (RetainedOneShort, PopRewindsTooFar) is   *)
(* the one after it with that slip, which some property must notice.       *)
(***************************************************************************)
EXTENDS Integers, Sequences

CONSTANTS
    Header,        \* CPU pre-states (pc, registers, composite P, cycle)
    WriteRec,      \* one recorded store: address, byte before, byte after
    NoHeader,      \* the header of a slot no instruction has used
    NoWrite,       \* the record of a write slot no store has used
    Caps,          \* the <<entry_cap, writes_cap>> pairs revdepth may ask for
    StartMod,      \* write_start is a u32: 2^32 in the code
    MaxBurst,      \* bound: stores of one instruction
    MaxHead,       \* bound: instructions retired since the ring was emptied
    MaxWriteHead   \* bound: stores recorded since the ring was emptied

ASSUME CapsAssumption == Caps # {} /\ Caps \subseteq (Nat \ {0}) \X (Nat \ {0})
ASSUME BoundAssumption == /\ MaxBurst \in Nat
                          /\ MaxHead \in Nat
                          /\ MaxWriteHead \in Nat
ASSUME StartModAssumption == StartMod \in Nat \ {0}

VARIABLES
    ecap, wcap,                \* slab lengths
    entries, writes,           \* the slabs
    entry_head, write_head,
    cur, in_flight,            \* the instruction between begin and commit
    log, curws,                \* history: retired instructions, writes in flight
    entry_peak, write_peak,    \* history: high-water marks of the two heads
    overrun                    \* history: an entry was popped that the slab
                               \* no longer held

ring == <<ecap, wcap, entries, writes, entry_head, write_head, cur, in_flight>>
history == <<log, curws, entry_peak, write_peak, overrun>>
vars == <<ring, history>>

Entry == [pre : Header \cup {NoHeader}, write_start : Nat, write_count : Nat]
Retired == [pre : Header, start : Nat, ws : Seq(WriteRec)]
NoEntry == [pre |-> NoHeader, write_start |-> 0, write_count |-> 0]

Larger(a, b) == IF a >= b THEN a ELSE b
Smaller(a, b) == IF a <= b THEN a ELSE b

-----------------------------------------------------------------------------
(* Empty slabs of capacity c: with_capacity, resize.                       *)
Empty(c) ==
    [entries |-> [s \in 0 .. c[1] - 1 |-> NoEntry],
     writes  |-> [s \in 0 .. c[2] - 1 |-> NoWrite]]

Init ==
    \E c \in Caps :
        /\ ecap = c[1] /\ wcap = c[2]
        /\ entries = Empty(c).entries /\ writes = Empty(c).writes
        /\ entry_head = 0 /\ write_head = 0
        /\ cur = NoEntry /\ in_flight = FALSE
        /\ log = << >> /\ curws = << >>
        /\ entry_peak = 0 /\ write_peak = 0 /\ overrun = FALSE

(* A new timeline begins: nothing that retired before is owed to anyone.   *)
ForgetHistory ==
    /\ log' = << >> /\ curws' = << >>
    /\ entry_peak' = 0 /\ write_peak' = 0 /\ overrun' = FALSE

-----------------------------------------------------------------------------
(* The hot path, in the order execute_one calls it.                        *)

Begin(h) ==
    /\ ~in_flight
    /\ entry_head < MaxHead
    /\ cur' = [pre |-> h, write_start |-> write_head % StartMod, write_count |-> 0]
    /\ in_flight' = TRUE
    /\ UNCHANGED <<ecap, wcap, entries, writes, entry_head, write_head, history>>

RecordWrite(w) ==
    /\ in_flight
    /\ cur.write_count < MaxBurst
    /\ write_head < MaxWriteHead
    /\ writes' = [writes EXCEPT ![write_head % wcap] = w]
    /\ write_head' = write_head + 1
    /\ cur' = [cur EXCEPT !.write_count = @ + 1]
    /\ curws' = Append(curws, w)
    /\ write_peak' = Larger(write_peak, write_head + 1)
    /\ UNCHANGED <<ecap, wcap, entries, entry_head, in_flight,
                   log, entry_peak, overrun>>

(* The core call ran no cycle, so it stored nothing either.                *)
Abort ==
    /\ in_flight
    /\ cur.write_count = 0
    /\ in_flight' = FALSE
    /\ UNCHANGED <<ecap, wcap, entries, writes, entry_head, write_head, cur, history>>

Commit ==
    /\ in_flight
    /\ entries' = [entries EXCEPT ![entry_head % ecap] = cur]
    /\ entry_head' = entry_head + 1
    /\ in_flight' = FALSE
    /\ log' = Append(log, [pre   |-> cur.pre,
                           start |-> write_head - Len(curws),
                           ws    |-> curws])
    /\ curws' = << >>
    /\ entry_peak' = Larger(entry_peak, entry_head + 1)
    /\ UNCHANGED <<ecap, wcap, writes, write_head, cur, write_peak, overrun>>

-----------------------------------------------------------------------------
(* What the readers compute.                                               *)

RetainedOneShort == Smaller(entry_head, ecap - 1)

(* len(): how many entries the ring says it retains.                       *)
Retained == Smaller(entry_head, ecap)

(* The entry `back` places behind the newest, as every walk finds it.      *)
EntryAt(back) == entries[(entry_head - 1 - back) % ecap]

Newest == EntryAt(0)

WritesReadableLate(e) ==
    e.write_count = 0 \/ e.write_start + 1 >= Larger(write_head - wcap, 0)

(* writes_readable: the slab has not wrapped over the entry's first write. *)
WritesReadable(e) ==
    \/ e.write_count = 0
    \/ e.write_start >= Larger(write_head - wcap, 0)

(* writes_for: the entry's writes in stored order, or none if unreadable.  *)
WritesFor(e) ==
    IF e.write_count = 0 \/ ~WritesReadable(e) THEN << >>
    ELSE [k \in 1 .. e.write_count |-> writes[(e.write_start + k - 1) % wcap]]

-----------------------------------------------------------------------------
PopRewindsTooFar ==
    /\ ~in_flight
    /\ entry_head > 0
    /\ entry_head' = entry_head - 1
    /\ write_head' = Larger(write_head - Newest.write_count - 1, 0)
    /\ log' = SubSeq(log, 1, Len(log) - 1)
    /\ overrun' = (overrun \/ entry_head + ecap <= entry_peak)
    /\ UNCHANGED <<ecap, wcap, entries, writes, cur, in_flight,
                   curws, entry_peak, write_peak>>

(* pop_newest, called by reverse_step and by nothing else.  The popped     *)
(* slot's contents decide how far the write cursor is rewound.             *)
PopNewest ==
    /\ ~in_flight
    /\ entry_head > 0
    /\ entry_head' = entry_head - 1
    /\ write_head' = Larger(write_head - Newest.write_count, 0)
    /\ log' = SubSeq(log, 1, Len(log) - 1)
    /\ overrun' = (overrun \/ entry_head + ecap <= entry_peak)
    /\ UNCHANGED <<ecap, wcap, entries, writes, cur, in_flight,
                   curws, entry_peak, write_peak>>

(* clear: a cold reset drops the history and keeps the slabs as they are.  *)
Clear ==
    /\ ~in_flight
    /\ entry_head' = 0 /\ write_head' = 0
    /\ in_flight' = FALSE
    /\ ForgetHistory
    /\ UNCHANGED <<ecap, wcap, entries, writes, cur>>

(* resize: revdepth rebuilds both slabs and drops the history.             *)
Resize(c) ==
    /\ ~in_flight
    /\ ecap' = c[1] /\ wcap' = c[2]
    /\ entries' = Empty(c).entries /\ writes' = Empty(c).writes
    /\ entry_head' = 0 /\ write_head' = 0
    /\ cur' = NoEntry /\ in_flight' = FALSE
    /\ ForgetHistory

Next ==
    \/ \E h \in Header : Begin(h)
    \/ \E w \in WriteRec : RecordWrite(w)
    \/ Abort
    \/ Commit
    \/ PopNewest
    \/ Clear
    \/ \E c \in Caps : Resize(c)

Spec == Init /\ [][Next]_vars

-----------------------------------------------------------------------------
(* The type invariant.                                                     *)
TypeOK ==
    /\ ecap \in Nat \ {0} /\ wcap \in Nat \ {0}
    /\ entries \in [0 .. ecap - 1 -> Entry]
    /\ writes \in [0 .. wcap - 1 -> WriteRec \cup {NoWrite}]
    /\ entry_head \in Nat /\ write_head \in Nat
    /\ cur \in Entry /\ (in_flight => cur.pre \in Header)
    /\ in_flight \in BOOLEAN
    /\ log \in Seq(Retired) /\ curws \in Seq(WriteRec)
    /\ entry_peak \in Nat /\ write_peak \in Nat
    /\ overrun \in BOOLEAN

(* How the header of a retired instruction is stored.                      *)
Stored(r) == [pre         |-> r.pre,
              write_start |-> r.start % StartMod,
              write_count |-> Len(r.ws)]

(* An instruction's header has not been overwritten, by a later one or by  *)
(* one since undone.                                                       *)
EntryKept(j) == j + ecap > entry_peak
WriteKept(i) == i + wcap >= write_peak

(* Every header and every write that no newer one can have overwritten is  *)
(* in its slot, however retiring, undoing and retiring again interleave.   *)
(* The rewind of the two cursors in pop_newest is what could break it: one *)
(* write too many or too few and the next instruction overwrites bytes     *)
(* that an older, still retained one needs for its undo.                   *)
KeptIntact ==
    ~overrun =>
        \A j \in 1 .. Len(log) :
            /\ EntryKept(j) => entries[(j - 1) % ecap] = Stored(log[j])
            /\ \A k \in 1 .. Len(log[j].ws) :
                  WriteKept(log[j].start + k - 1) =>
                      writes[(log[j].start + k - 1) % wcap] = log[j].ws[k]

(* len() counts only entries that retired and were not undone: the header  *)
(* every walk finds `back` places behind the newest is the one that        *)
(* retired there.                                                          *)
RetainedHeadersAreHistory ==
    \A back \in 0 .. Retained - 1 : EntryAt(back) = Stored(log[Len(log) - back])

(* An entry that retired and whose writes are called readable still has    *)
(* them: writes_for is empty rather than wrong.                            *)
ReadableWritesAreOwn ==
    \A back \in 0 .. Retained - 1 :
        (EntryAt(back) = Stored(log[Len(log) - back]) /\ WritesReadable(EntryAt(back)))
            => WritesFor(EntryAt(back)) = log[Len(log) - back].ws

(* Execution has caught up with the furthest point it was undone from.     *)
CaughtUp == ~overrun /\ entry_head = entry_peak /\ write_head = write_peak

(* The two windows the ring reports (len, writes_readable) show only what  *)
(* retired, in order, whenever nothing undone is still ahead: the two wrap *)
(* tests are right for forward execution.                                  *)
ForwardWindowIsHistory ==
    CaughtUp => RetainedHeadersAreHistory /\ ReadableWritesAreOwn

(* The newest entry's writes are readable whenever they fit the slab,      *)
(* whatever wrapped or was undone before: who_wrote and a dump never stop  *)
(* at the very first entry.                                                *)
NewestReadable ==
    (~in_flight /\ ~overrun /\ entry_head > 0 /\ Newest.write_count <= wcap)
        => WritesReadable(Newest)

(* The windows the ring reports (len, writes_readable, writes_for) show    *)
(* nothing that did not retire, and are never empty while there is an      *)
(* instruction to undo.                                                    *)
WindowsAreTrue == ForwardWindowIsHistory /\ NewestReadable

-----------------------------------------------------------------------------
(* What the invariants rest on.                                            *)

(* The counters agree with what retired.                                   *)
CountersAgree ==
    /\ Len(log) = entry_head
    /\ entry_head <= entry_peak
    /\ write_head <= write_peak
    /\ Len(curws) <= write_head
    /\ in_flight => cur.write_count = Len(curws)
    /\ ~in_flight => curws = << >>

(* The write windows follow each other without gap or overlap up to the    *)
(* instruction in flight.                                                  *)
EndOf(j) == log[j].start + Len(log[j].ws)

WindowsContiguous ==
    /\ \A i, j \in 1 .. Len(log) : i < j => EndOf(i) <= log[j].start
    /\ \A j \in 1 .. Len(log) - 1 : EndOf(j) = log[j + 1].start
    /\ Len(log) > 0 => EndOf(Len(log)) = write_head - Len(curws)
    /\ in_flight => cur.write_start = (write_head - Len(curws)) % StartMod

FlightKept ==
    \A k \in 1 .. Len(curws) :
        WriteKept(write_head - Len(curws) + k - 1) =>
            writes[(write_head - Len(curws) + k - 1) % wcap] = curws[k]

IInv == /\ TypeOK
        /\ CountersAgree
        /\ ~overrun => WindowsContiguous /\ FlightKept
        /\ KeptIntact

-----------------------------------------------------------------------------
(* The refinement: read through the slabs as the code reads them, the kept *)
(* part of the ring is the undo stack.                                     *)

FullyKept(j) ==
    /\ EntryKept(j)
    /\ Len(log[j].ws) = 0 \/ WriteKept(log[j].start)

(* The j-th and everything after it can be undone: an instruction without  *)
(* writes, though kept, is no use below one whose writes are gone.         *)
Held(j) == EntryKept(j) /\ WriteKept(log[j].start)

(* How many of the newest instructions can be undone.                      *)
Depth ==
    IF overrun THEN 0
    ELSE CHOOSE d \in 0 .. Len(log) :
            /\ \A b \in 0 .. d - 1 : Held(Len(log) - b)
            /\ d < Len(log) => ~Held(Len(log) - d)

(* The d-th newest instruction, decoded from the slabs.                    *)
Decoded(back) ==
    LET e == EntryAt(back)
    IN  [pre |-> e.pre,
         ws  |-> [k \in 1 .. e.write_count |->
                     writes[(e.write_start + k - 1) % wcap]]]

Stack == [n \in 1 .. Depth |-> Decoded(Depth - n)]

Undoable == INSTANCE UndoStack
    WITH stack <- Stack,
         Instr <- [pre : Header,
                   ws : UNION {[1 .. n -> WriteRec] : n \in 0 .. MaxBurst}]

(* The ring implements the undo stack: what pops off is what retired last, *)
(* whole, and wrapping costs only the oldest.                              *)
ImplementsUndoStack == Undoable!Spec
==============================================================================
