----------------------------- MODULE RingQueries -----------------------------
(***************************************************************************)
(* What the reverse debugger asks of the undo ring: who wrote an address   *)
(* (delta_ring.rs who_wrote), whether an empty answer may be due to lost   *)
(* history (lib.rs ring_exhaustion), and the copy of the ring a .c64rering *)
(* file carries (to_dump, from_dump).                                      *)
(* Headers are whatever identifies an instruction; a write is a record     *)
(* [addr, old, new].                                                       *)
(* A definition named for a slip is the one after it with that slip.       *)
(***************************************************************************)
EXTENDS DeltaRing, SequencesExt

CONSTANTS Addr, MaxHits

(* How many of the newest entries a backward walk passes before the first  *)
(* whose writes are gone.                                                  *)
ReadableDepth ==
    CHOOSE d \in 0 .. Retained :
        /\ \A back \in 0 .. d - 1 : WritesReadable(EntryAt(back))
        /\ d < Retained => ~WritesReadable(EntryAt(d))

(* The last and the first of an instruction's writes to a, or 0.           *)
LastTo(ws, a) == SelectLastInSeq(ws, LAMBDA w : w.addr = a)
FirstTo(ws, a) == SelectInSeq(ws, LAMBDA w : w.addr = a)

(* The instructions of a walk that wrote a, in its order, and of each its  *)
(* last write to a.                                                        *)
Writers(walk, a) ==
    LET wrote == {n \in DOMAIN walk : LastTo(walk[n].ws, a) # 0}
        place(k) == CHOOSE n \in wrote : Cardinality({m \in wrote : m <= n}) = k
    IN  [k \in 1 .. Cardinality(wrote) |->
            LET r == walk[place(k)]
            IN  [pre |-> r.pre, w |-> r.ws[LastTo(r.ws, a)]]]

FirstOf(hits, limit) == SubSeq(hits, 1, Smaller(limit, Len(hits)))

(* What a backward walk reads of an entry.                                 *)
Read(e) == [pre |-> e.pre, ws |-> WritesFor(e)]

(* The last `limit` writers of a, newest first.                            *)
WhoWrote(a, limit) ==
    FirstOf(Writers([n \in 1 .. ReadableDepth |-> Read(EntryAt(n - 1))], a), limit)

(* entries_wrapped.                                                        *)
EntriesWrapped == entry_head > ecap

(* ring_exhaustion: is a miss reported as possibly older than the ring?    *)
RingExhausted(found) == ~found /\ EntriesWrapped

-----------------------------------------------------------------------------

(* to_dump: the retained entries oldest first, each with the writes that   *)
(* could still be read.                                                    *)
Dump == [k \in 1 .. Retained |-> Read(EntryAt(Retained - k))]

(* from_dump: the entries replayed into empty slabs of the same size.  How *)
(* many writes are in when each entry's begin, and after the last.         *)
StartIn ==
    LET start[k \in 1 .. Len(Dump) + 1] ==
            IF k = 1 THEN 0 ELSE start[k - 1] + Len(Dump[k - 1].ws)
    IN  start

LoadedWriteHead == StartIn[Len(Dump) + 1]

LoadedEntries ==
    [s \in 0 .. ecap - 1 |->
        IF s < Len(Dump)
        THEN [pre         |-> Dump[s + 1].pre,
              write_start |-> StartIn[s + 1] % StartMod,
              write_count |-> Len(Dump[s + 1].ws)]
        ELSE NoEntry]

(* The i-th write replayed, counted from 0.                                *)
Replayed(i) ==
    LET k == CHOOSE n \in 1 .. Len(Dump) : StartIn[n] <= i /\ i < StartIn[n + 1]
    IN  Dump[k].ws[i - StartIn[k] + 1]

LoadedWrites ==
    LET into(s) == {i \in 0 .. LoadedWriteHead - 1 : i % wcap = s}
    IN  [s \in 0 .. wcap - 1 |->
            IF into(s) = {} THEN NoWrite ELSE Replayed(Max(into(s)))]

-----------------------------------------------------------------------------
(* The same question asked of what really retired, down to a given depth.  *)
TrueWriters(a, depth) ==
    Writers([n \in 1 .. depth |->
                LET r == log[Len(log) + 1 - n] IN [pre |-> r.pre, ws |-> r.ws]], a)

(* In a forward execution who_wrote names the true last writers, newest    *)
(* first, and misses none that the two slabs still hold whole.             *)
WhoWroteExact ==
    (CaughtUp /\ ~in_flight) =>
        \A a \in Addr, limit \in 1 .. MaxHits :
            WhoWrote(a, limit) = FirstOf(TrueWriters(a, Depth), limit)

(* "When the ring still has headroom a miss is a genuine never happened":  *)
(* an empty answer not reported as ring exhaustion means that nothing      *)
(* since the ring was emptied wrote the address.                           *)
MissIsGenuine ==
    (CaughtUp /\ ~in_flight) =>
        \A a \in Addr :
            (WhoWrote(a, 1) = << >> /\ ~RingExhausted(FALSE))
                => TrueWriters(a, Len(log)) = << >>
=============================================================================
