--------------------------- MODULE DeltaRing_proofs ---------------------------
(***************************************************************************)
(* Proofs about the undo ring, for every slab size, every bound and every  *)
(* set of headers and writes.                                              *)
(***************************************************************************)
EXTENDS ReverseDebug, UndoRing, WellFoundedInduction, FiniteSetTheorems, TLAPS

(* Two counters less than a slab apart fall into different slots.          *)
LEMMA SlotsDiffer ==
    ASSUME NEW c \in Nat \ {0}, NEW i \in Nat, NEW j \in Nat, i < j, j < i + c
    PROVE  i % c # j % c
<1>1. i = c * (i \div c) + (i % c) /\ j = c * (j \div c) + (j % c)
  OBVIOUS
<1>2. i \div c \in Int /\ j \div c \in Int
  OBVIOUS
<1>3. SUFFICES ASSUME i % c = j % c PROVE FALSE
  OBVIOUS
<1>4. j - i = c * (j \div c) - c * (i \div c)
  BY <1>1, <1>3
<1>5. c * (j \div c) - c * (i \div c) = c * ((j \div c) - (i \div c))
  BY <1>2
<1> DEFINE d == (j \div c) - (i \div c)
<1>6. d \in Int /\ j - i = c * d
  BY <1>2, <1>4, <1>5
<1>7. CASE d <= 0
  <2>1. c * d <= 0
    BY <1>6, <1>7
  <2> QED
    BY <1>6, <2>1
<1>8. CASE d >= 1
  <2>1. c * d >= c
    BY <1>6, <1>8
  <2> QED
    BY <1>6, <2>1
<1> QED
  BY <1>6, <1>7, <1>8

(* A counter reduced by the slab length names a slot.                      *)
LEMMA SlotInSlab ==
    ASSUME NEW c \in Nat \ {0}, NEW i \in Nat
    PROVE  i % c \in 0 .. c - 1
  OBVIOUS

-----------------------------------------------------------------------------
(* Types and counters.                                                     *)

Counters == TypeOK /\ CountersAgree

(* Of two writes, if the slab still holds the older it holds the newer.    *)
LEMMA LaterIsKept ==
    ASSUME TypeOK, NEW n \in Nat, WriteKept(n), NEW k \in Nat, k >= 1
    PROVE  WriteKept(n + k - 1)
<1>1. n + wcap >= write_peak /\ wcap \in Nat /\ write_peak \in Nat
  BY DEF WriteKept, TypeOK
<1> QED
  BY <1>1 DEF WriteKept

LEMMA EmptySlabs ==
    ASSUME NEW c \in Caps
    PROVE  /\ c[1] \in Nat \ {0} /\ c[2] \in Nat \ {0}
           /\ Empty(c).entries \in [0 .. c[1] - 1 -> Entry]
           /\ Empty(c).writes \in [0 .. c[2] - 1 -> WriteRec \cup {NoWrite}]
<1>1. c[1] \in Nat \ {0} /\ c[2] \in Nat \ {0}
  BY CapsAssumption
<1>2. NoEntry \in Entry
  BY DEF NoEntry, Entry
<1> QED
  BY <1>1, <1>2 DEF Empty

LEMMA InitCounters == Init => Counters
<1> SUFFICES ASSUME Init PROVE Counters
  OBVIOUS
<1>1. PICK c \in Caps : /\ ecap = c[1] /\ wcap = c[2]
                       /\ entries = Empty(c).entries /\ writes = Empty(c).writes
  BY DEF Init
<1>2. NoEntry \in Entry
  BY DEF NoEntry, Entry
<1>3. entries \in [0 .. ecap - 1 -> Entry] /\ writes \in [0 .. wcap - 1 -> WriteRec \cup {NoWrite}]
      /\ ecap \in Nat \ {0} /\ wcap \in Nat \ {0}
  BY <1>1, EmptySlabs
<1>4. /\ entry_head = 0 /\ write_head = 0 /\ cur = NoEntry /\ in_flight = FALSE
      /\ log = << >> /\ curws = << >>
      /\ entry_peak = 0 /\ write_peak = 0 /\ overrun = FALSE
  BY DEF Init
<1>5. log \in Seq(Retired) /\ curws \in Seq(WriteRec)
  BY <1>4
<1>6. TypeOK
  BY <1>2, <1>3, <1>4, <1>5 DEF TypeOK
<1>7. CountersAgree
  BY <1>4 DEF CountersAgree
<1> QED
  BY <1>6, <1>7 DEF Counters

LEMMA BeginCounters ==
    ASSUME Counters, NEW h \in Header, Begin(h)
    PROVE  Counters'
<1>1. cur' \in Entry /\ cur'.pre \in Header /\ cur'.write_count = 0
  BY StartModAssumption, SlotInSlab DEF Begin, Entry, Counters, TypeOK
<1>2. TypeOK'
  BY <1>1 DEF Begin, Counters, TypeOK, history
<1>3. CountersAgree'
  BY <1>1 DEF Begin, Counters, CountersAgree, history, TypeOK
<1> QED
  BY <1>2, <1>3 DEF Counters

LEMMA RecordWriteCounters ==
    ASSUME Counters, NEW w \in WriteRec, RecordWrite(w)
    PROVE  Counters'
<1> USE DEF Counters, RecordWrite
<1>1. cur' = [cur EXCEPT !.write_count = @ + 1] /\ cur \in Entry
  BY DEF TypeOK
<1>2. cur' \in Entry /\ cur'.pre = cur.pre /\ cur'.write_count = cur.write_count + 1
  BY <1>1 DEF Entry
<1>3. curws' \in Seq(WriteRec) /\ Len(curws') = Len(curws) + 1
  BY DEF TypeOK
<1>4. write_head' \in Nat /\ write_peak' \in Nat /\ write_head' <= write_peak'
  BY DEF TypeOK, Larger
<1>5. writes' \in [0 .. wcap - 1 -> WriteRec \cup {NoWrite}]
  BY DEF TypeOK
<1>6. TypeOK'
  BY <1>2, <1>3, <1>4, <1>5 DEF TypeOK
<1>7. in_flight' /\ entry_head' = entry_head /\ write_head' = write_head + 1
  OBVIOUS
<1>8. cur.write_count = Len(curws) /\ Len(curws) \in Nat /\ Len(curws) <= write_head
  BY DEF TypeOK, CountersAgree
<1>9. CountersAgree'
  BY <1>2, <1>3, <1>4, <1>7, <1>8 DEF TypeOK, CountersAgree
<1> QED
  BY <1>6, <1>9

LEMMA CommitCounters ==
    ASSUME Counters, Commit
    PROVE  Counters'
<1> USE DEF Counters, Commit
<1> DEFINE r == [pre   |-> cur.pre,
                 start |-> write_head - Len(curws),
                 ws    |-> curws]
<1>1. r \in Retired
  BY DEF TypeOK, CountersAgree, Retired
<1>2. log' \in Seq(Retired) /\ Len(log') = Len(log) + 1
  BY <1>1 DEF TypeOK
<1>3. entries' \in [0 .. ecap - 1 -> Entry]
  BY DEF TypeOK
<1>4. entry_peak' \in Nat /\ entry_head' <= entry_peak' /\ entry_head' \in Nat
  BY DEF TypeOK, Larger
<1>5. curws' \in Seq(WriteRec) /\ Len(curws') = 0
  OBVIOUS
<1>6. TypeOK'
  BY <1>2, <1>3, <1>4, <1>5 DEF TypeOK
<1>7. CountersAgree'
  BY <1>2, <1>4, <1>5 DEF TypeOK, CountersAgree
<1> QED
  BY <1>6, <1>7

LEMMA PopNewestCounters ==
    ASSUME Counters, PopNewest
    PROVE  Counters'
<1> USE DEF Counters, PopNewest
<1>1. Newest \in Entry
  <2>1. (entry_head - 1 - 0) % ecap \in 0 .. ecap - 1
    BY SlotInSlab DEF TypeOK
  <2> QED
    BY <2>1 DEF TypeOK, Newest, EntryAt
<1>2. Newest.write_count \in Nat
  BY <1>1 DEF Entry
<1>3. write_head' \in Nat /\ write_head' <= write_head
  BY <1>2 DEF TypeOK, Larger
<1>4. entry_head' \in Nat /\ entry_head' = entry_head - 1
  BY DEF TypeOK
<1>5. log' \in Seq(Retired) /\ Len(log') = Len(log) - 1
  BY DEF TypeOK, CountersAgree
<1>6. overrun' \in BOOLEAN
  BY DEF TypeOK
<1>7. TypeOK'
  BY <1>3, <1>4, <1>5, <1>6 DEF TypeOK
<1>8. CountersAgree'
  <2>1. curws' = << >> /\ Len(curws') = 0
    BY DEF CountersAgree
  <2> QED
    BY <1>3, <1>4, <1>5, <2>1 DEF TypeOK, CountersAgree
<1> QED
  BY <1>7, <1>8

LEMMA ResetCounters ==
    ASSUME Counters, Clear \/ \E c \in Caps : Resize(c)
    PROVE  Counters'
<1>1. ForgetHistory /\ entry_head' = 0 /\ write_head' = 0 /\ in_flight' = FALSE
  BY DEF Clear, Resize, Counters, TypeOK
<1>2. CountersAgree'
  BY <1>1 DEF CountersAgree, ForgetHistory
<1>3. CASE Clear
  <2>1. TypeOK'
    <3>1. log' \in Seq(Retired) /\ curws' \in Seq(WriteRec)
      BY <1>1 DEF ForgetHistory
    <3>2. /\ ecap' \in Nat \ {0} /\ wcap' \in Nat \ {0}
          /\ entries' \in [0 .. ecap' - 1 -> Entry]
          /\ writes' \in [0 .. wcap' - 1 -> WriteRec \cup {NoWrite}]
          /\ cur' \in Entry
      BY <1>3 DEF Clear, Counters, TypeOK
    <3> QED
      BY <1>1, <3>1, <3>2 DEF TypeOK, ForgetHistory
  <2> QED
    BY <1>2, <2>1 DEF Counters
<1>4. CASE \E c \in Caps : Resize(c)
  <2>1. PICK c \in Caps : Resize(c)
    BY <1>4
  <2>2. NoEntry \in Entry
    BY DEF NoEntry, Entry
  <2>3. /\ ecap' \in Nat \ {0} /\ wcap' \in Nat \ {0}
        /\ entries' \in [0 .. ecap' - 1 -> Entry]
        /\ writes' \in [0 .. wcap' - 1 -> WriteRec \cup {NoWrite}]
    BY <2>1, EmptySlabs DEF Resize
  <2>4. cur' \in Entry
    BY <2>1, <2>2 DEF Resize
  <2>5. TypeOK'
    <3>1. log' \in Seq(Retired) /\ curws' \in Seq(WriteRec)
      BY <1>1 DEF ForgetHistory
    <3> QED
      BY <1>1, <2>3, <2>4, <3>1 DEF TypeOK, ForgetHistory
  <2> QED
    BY <1>2, <2>5 DEF Counters
<1> QED
  BY <1>3, <1>4

LEMMA NextCounters == Counters /\ [Next]_vars => Counters'
<1> SUFFICES ASSUME Counters, [Next]_vars PROVE Counters'
  OBVIOUS
<1>1. CASE \E h \in Header : Begin(h)
  BY <1>1, BeginCounters
<1>2. CASE \E w \in WriteRec : RecordWrite(w)
  BY <1>2, RecordWriteCounters
<1>3. CASE Abort
  <2>1. curws = << >>
    BY <1>3 DEF Abort, Counters, CountersAgree, TypeOK
  <2> QED
    BY <1>3, <2>1 DEF Abort, Counters, CountersAgree, TypeOK, history
<1>4. CASE Commit
  BY <1>4, CommitCounters
<1>5. CASE PopNewest
  BY <1>5, PopNewestCounters
<1>6. CASE Clear \/ \E c \in Caps : Resize(c)
  BY <1>6, ResetCounters
<1>7. CASE UNCHANGED vars
  BY <1>7 DEF vars, ring, history, Counters, CountersAgree, TypeOK
<1> QED
  BY <1>1, <1>2, <1>3, <1>4, <1>5, <1>6, <1>7 DEF Next

(* Every reachable state of the ring is well-typed, and its heads count    *)
(* exactly the instructions and stores still on the timeline.              *)
THEOREM TypeCorrect == Spec => []TypeOK
<1>1. Counters => TypeOK
  BY DEF Counters
<1> QED
  BY <1>1, InitCounters, NextCounters, PTL DEF Spec

-----------------------------------------------------------------------------
(* The slabs hold what retired.  The invariant is IInv: KeptIntact is not  *)
(* inductive, because what a new write may overwrite depends on where the  *)
(* windows of all retained instructions lie (WindowsContiguous) and on the *)
(* writes of the instruction in flight (FlightKept), which commit turns    *)
(* into retained ones.                                                     *)

Kept == (~overrun => WindowsContiguous /\ FlightKept) /\ KeptIntact

(* No retired instruction's window reaches past the one in flight.         *)
LEMMA WindowsEnd ==
    ASSUME Counters, WindowsContiguous, NEW j \in 1 .. Len(log)
    PROVE  /\ log[j] \in Retired
           /\ EndOf(j) = log[j].start + Len(log[j].ws)
           /\ EndOf(j) <= write_head - Len(curws)
<1>1. \A i \in 1 .. Len(log) : log[i] \in Retired
  BY DEF Counters, TypeOK
<1>2. \A i \in 1 .. Len(log) : log[i].start \in Nat /\ Len(log[i].ws) \in Nat
  BY <1>1 DEF Retired
<1>3. Len(log) \in 1 .. Len(log)
  BY DEF Counters, TypeOK
<1>4. EndOf(Len(log)) = write_head - Len(curws)
  BY <1>3 DEF WindowsContiguous
<1>5. CASE j = Len(log)
  BY <1>1, <1>4, <1>5 DEF EndOf, Counters, TypeOK
<1>6. CASE j < Len(log)
  <2>1. EndOf(j) <= log[Len(log)].start
    BY <1>3, <1>6 DEF WindowsContiguous
  <2>2. log[Len(log)].start <= EndOf(Len(log))
    BY <1>2, <1>3 DEF EndOf
  <2>3. EndOf(j) \in Nat /\ EndOf(Len(log)) \in Nat /\ log[Len(log)].start \in Nat
    BY <1>2, <1>3 DEF EndOf
  <2> QED
    BY <1>1, <1>4, <2>1, <2>2, <2>3 DEF EndOf
<1>7. Len(log) \in Nat
  BY DEF Counters, TypeOK
<1> QED
  BY <1>5, <1>6, <1>7

LEMMA BeginKept ==
    ASSUME Counters, Kept, NEW h \in Header, Begin(h)
    PROVE  Kept'
<1>1. curws = << >> /\ Len(curws) = 0
  BY DEF Begin, Counters, CountersAgree
<1>2. /\ UNCHANGED <<ecap, wcap, entries, writes, entry_head, write_head, history>>
      /\ cur'.write_start = write_head % StartMod
  BY DEF Begin
<1>3. write_head - Len(curws) = write_head
  BY <1>1 DEF Counters, TypeOK
<1>4. KeptIntact'
  BY <1>2 DEF Kept, KeptIntact, history, EntryKept, WriteKept, Stored
<1>5. ~overrun => FlightKept'
  BY <1>2 DEF Kept, FlightKept, WriteKept, history
<1>6. ~overrun => WindowsContiguous'
  BY <1>2, <1>3 DEF Kept, WindowsContiguous, EndOf, history
<1> QED
  BY <1>2, <1>4, <1>5, <1>6 DEF Kept, history

(* A store overwrites no kept write: the slot it takes belonged to a write *)
(* a whole slab older.                                                     *)
LEMMA RecordWriteKept ==
    ASSUME Counters, Kept, NEW w \in WriteRec, RecordWrite(w)
    PROVE  Kept'
<1> USE DEF Counters
<1> SUFFICES ASSUME ~overrun
             PROVE  WindowsContiguous' /\ FlightKept' /\ KeptIntact'
  BY DEF Kept, RecordWrite, KeptIntact
<1>1. WindowsContiguous /\ FlightKept /\ KeptIntact
  BY DEF Kept
<1>2. /\ Len(curws') = Len(curws) + 1 /\ Len(curws) \in Nat
      /\ curws'[Len(curws) + 1] = w
      /\ \A k \in 1 .. Len(curws) : curws'[k] = curws[k]
  BY DEF RecordWrite, TypeOK
<1>3. write_head' - Len(curws') = write_head - Len(curws)
  BY <1>2 DEF RecordWrite, TypeOK
<1>4. write_head' = write_head + 1 /\ write_head' <= write_peak' /\ write_peak <= write_peak'
      /\ write_peak' \in Nat
  BY DEF RecordWrite, TypeOK, Larger
<1>5. ASSUME NEW i \in Nat, i < write_head, i + wcap >= write_peak'
      PROVE  WriteKept(i) /\ writes'[i % wcap] = writes[i % wcap]
  <2>1. wcap \in Nat \ {0} /\ write_head \in Nat /\ write_head < i + wcap
    BY <1>4, <1>5 DEF TypeOK
  <2>2. WriteKept(i)
    BY <1>4, <1>5 DEF WriteKept, TypeOK
  <2>3. i % wcap # write_head % wcap
    BY <2>1, <1>5, SlotsDiffer
  <2>4. i % wcap \in 0 .. wcap - 1
    BY SlotInSlab DEF TypeOK
  <2> QED
    BY <2>2, <2>3, <2>4 DEF RecordWrite, TypeOK
<1>6. WindowsContiguous'
  <2>1. log' = log /\ cur'.write_start = cur.write_start /\ in_flight' = in_flight
    BY DEF RecordWrite, TypeOK, Entry
  <2> QED
    BY <1>1, <1>3, <2>1 DEF WindowsContiguous, EndOf
<1>7. FlightKept'
  <2> SUFFICES ASSUME NEW k \in 1 .. Len(curws'),
                      write_head - Len(curws) + k - 1 + wcap >= write_peak'
               PROVE  writes'[(write_head - Len(curws) + k - 1) % wcap] = curws'[k]
    BY <1>3 DEF FlightKept, RecordWrite, WriteKept
  <2>1. CASE k = Len(curws) + 1
    <3>1. write_head - Len(curws) + k - 1 = write_head
      BY <2>1, <1>2 DEF TypeOK
    <3>2. write_head % wcap \in 0 .. wcap - 1
      BY SlotInSlab DEF TypeOK
    <3> QED
      BY <1>2, <2>1, <3>1, <3>2 DEF RecordWrite, TypeOK
  <2>2. CASE k \in 1 .. Len(curws)
    <3> DEFINE i == write_head - Len(curws) + k - 1
    <3>1. i \in Nat /\ i < write_head
      BY <2>2, <1>2 DEF TypeOK, CountersAgree
    <3>2. i + wcap >= write_peak'
      OBVIOUS
    <3>3. WriteKept(i) /\ writes'[i % wcap] = writes[i % wcap]
      BY <3>1, <3>2, <1>5
    <3> QED
      BY <1>1, <1>2, <2>2, <3>3 DEF FlightKept
  <2> QED
    BY <1>2, <2>1, <2>2
<1>8. KeptIntact'
  <2>1. UNCHANGED <<ecap, wcap, entries, log, entry_peak, overrun>>
    BY DEF RecordWrite
  <2>2. ASSUME NEW j \in 1 .. Len(log), NEW k \in 1 .. Len(log[j].ws),
               log[j].start + k - 1 + wcap >= write_peak'
        PROVE  writes'[(log[j].start + k - 1) % wcap] = log[j].ws[k]
    <3> DEFINE i == log[j].start + k - 1
    <3>1. log[j] \in Retired /\ log[j].start + Len(log[j].ws) <= write_head - Len(curws)
      BY <1>1, WindowsEnd
    <3>2. i \in Nat /\ i < write_head
      <4>1. /\ log[j].start \in Nat /\ Len(log[j].ws) \in Nat
            /\ Len(curws) \in Nat /\ write_head \in Nat
        BY <3>1, <1>2 DEF Retired, TypeOK
      <4> QED
        BY <3>1, <4>1
    <3>3. i + wcap >= write_peak'
      BY <2>2
    <3>4. WriteKept(i) /\ writes'[i % wcap] = writes[i % wcap]
      BY <3>2, <3>3, <1>5
    <3> QED
      BY <1>1, <3>4 DEF KeptIntact
  <2> QED
    BY <1>1, <2>1, <2>2 DEF KeptIntact, EntryKept, WriteKept, Stored
<1> QED
  BY <1>6, <1>7, <1>8

(* Commit publishes the writes in flight as the windows of a new           *)
(* instruction, and its header takes a slot a whole slab old.              *)
LEMMA CommitKept ==
    ASSUME Counters, Kept, Commit
    PROVE  Kept'
<1> USE DEF Counters
<1> SUFFICES ASSUME ~overrun
             PROVE  WindowsContiguous' /\ FlightKept' /\ KeptIntact'
  BY DEF Kept, Commit, KeptIntact
<1>1. WindowsContiguous /\ FlightKept /\ KeptIntact
  BY DEF Kept
<1> DEFINE n == Len(log)
           r == [pre   |-> cur.pre,
                 start |-> write_head - Len(curws),
                 ws    |-> curws]
<1>2. /\ r \in Retired /\ log' = Append(log, r) /\ n \in Nat
      /\ r.start = write_head - Len(curws) /\ r.ws = curws /\ r.pre = cur.pre
  BY DEF Commit, TypeOK, CountersAgree, Retired
<1>3. /\ Len(log') = n + 1 /\ log'[n + 1] = r
      /\ \A j \in 1 .. n : log'[j] = log[j]
  BY <1>2 DEF TypeOK
<1>4. Len(curws) \in Nat /\ Len(curws') = 0 /\ write_head' = write_head /\ write_head \in Nat
  BY DEF Commit, TypeOK
<1>5. \A j \in 1 .. n : /\ log[j] \in Retired
                        /\ log[j].start + Len(log[j].ws) <= write_head - Len(curws)
  BY <1>1, WindowsEnd
<1>6. FlightKept'
  BY <1>4 DEF FlightKept
<1>7. WindowsContiguous'
  <2>1. ASSUME NEW i \in 1 .. n + 1, NEW j \in 1 .. n + 1, i < j
        PROVE  log'[i].start + Len(log'[i].ws) <= log'[j].start
    <3>1. i \in 1 .. n /\ log'[i] = log[i]
      BY <2>1, <1>2, <1>3
    <3>2. CASE j = n + 1
      BY <3>1, <3>2, <1>2, <1>3, <1>5
    <3>3. CASE j \in 1 .. n
      BY <3>1, <3>3, <2>1, <1>1, <1>3 DEF WindowsContiguous, EndOf
    <3> QED
      BY <3>2, <3>3, <1>2
  <2>2. ASSUME NEW j \in 1 .. n
        PROVE  log'[j].start + Len(log'[j].ws) = log'[j + 1].start
    <3>1. log'[j] = log[j]
      BY <1>3
    <3>2. CASE j = n
      <4>1. EndOf(n) = write_head - Len(curws)
        BY <3>2, <1>1 DEF WindowsContiguous
      <4> QED
        BY <3>1, <3>2, <4>1, <1>2, <1>3 DEF EndOf
    <3>3. CASE j < n
      <4>1. j \in 1 .. n - 1 /\ j + 1 \in 1 .. n
        BY <3>3, <1>2
      <4> QED
        BY <3>1, <4>1, <1>1, <1>3 DEF WindowsContiguous, EndOf
    <3> QED
      BY <3>2, <3>3, <1>2
  <2>3. log'[n + 1].start + Len(log'[n + 1].ws) = write_head' - Len(curws')
    BY <1>2, <1>3, <1>4
  <2>4. Len(log') - 1 = n
    BY <1>2, <1>3
  <2>5. ~in_flight'
    BY DEF Commit
  <2> QED
    BY <1>3, <2>1, <2>2, <2>3, <2>4, <2>5 DEF WindowsContiguous, EndOf
<1>8. /\ entries' = [entries EXCEPT ![n % ecap] = cur]
      /\ UNCHANGED <<ecap, wcap, writes, write_peak, overrun>>
      /\ entry_peak' >= n + 1 /\ entry_peak' >= entry_peak /\ entry_peak' \in Nat
  BY DEF Commit, CountersAgree, TypeOK, Larger
<1>9. Stored(r) = cur
  <2>1. cur = [pre |-> cur.pre, write_start |-> cur.write_start, write_count |-> cur.write_count]
    BY DEF TypeOK, Entry
  <2>2. cur.write_start = r.start % StartMod /\ cur.write_count = Len(curws)
    BY <1>1, <1>2 DEF WindowsContiguous, CountersAgree, Commit
  <2> QED
    BY <2>1, <2>2, <1>2 DEF Stored
<1>10. ASSUME NEW j \in 1 .. n + 1, j + ecap > entry_peak'
       PROVE  entries'[(j - 1) % ecap] = Stored(log'[j])
  <2>1. j - 1 \in Nat /\ ecap \in Nat \ {0} /\ n \in Nat
    BY <1>2 DEF TypeOK
  <2>2. (j - 1) % ecap \in 0 .. ecap - 1
    BY <2>1, SlotInSlab
  <2>3. CASE j = n + 1
    BY <1>3, <1>8, <1>9, <2>1, <2>2, <2>3 DEF TypeOK
  <2>4. CASE j \in 1 .. n
    <3>1. EntryKept(j)
      BY <1>8, <1>10, <2>1 DEF EntryKept, TypeOK
    <3>2. j - 1 < n /\ n < (j - 1) + ecap
      BY <1>8, <1>10, <2>1, <2>4
    <3>3. (j - 1) % ecap # n % ecap
      BY <2>1, <3>2, SlotsDiffer
    <3>4. entries'[(j - 1) % ecap] = entries[(j - 1) % ecap]
      BY <1>8, <2>2, <3>3 DEF TypeOK
    <3>5. entries[(j - 1) % ecap] = Stored(log[j])
      BY <1>1, <2>4, <3>1 DEF KeptIntact
    <3> QED
      BY <1>3, <2>4, <3>4, <3>5
  <2> QED
    BY <1>2, <2>3, <2>4
<1>11. ASSUME NEW j \in 1 .. n + 1, NEW k \in 1 .. Len(log'[j].ws),
              WriteKept(log'[j].start + k - 1)
       PROVE  writes[(log'[j].start + k - 1) % wcap] = log'[j].ws[k]
  <2>1. CASE j = n + 1
    BY <1>1, <1>2, <1>3, <1>11, <2>1 DEF FlightKept
  <2>2. CASE j \in 1 .. n
    BY <1>1, <1>3, <1>11, <2>2 DEF KeptIntact
  <2> QED
    BY <1>2, <2>1, <2>2
<1>12. KeptIntact'
  BY <1>3, <1>8, <1>10, <1>11 DEF KeptIntact, EntryKept, WriteKept, Stored
<1> QED
  BY <1>6, <1>7, <1>12

(* Undoing the newest kept instruction rewinds the write cursor to its     *)
(* first write exactly, so what is recorded next overwrites no older one.  *)
LEMMA PopNewestKept ==
    ASSUME Counters, Kept, PopNewest
    PROVE  Kept'
<1> USE DEF Counters
<1> SUFFICES ASSUME ~overrun'
             PROVE  WindowsContiguous' /\ FlightKept' /\ KeptIntact'
  BY DEF Kept, KeptIntact
<1> DEFINE n == Len(log)
<1>1. ~overrun /\ ~(entry_head + ecap <= entry_peak)
  BY DEF PopNewest, TypeOK
<1>2. WindowsContiguous /\ FlightKept /\ KeptIntact
  BY <1>1 DEF Kept
<1>3. n = entry_head /\ n \in Nat \ {0} /\ n \in 1 .. n
  BY DEF PopNewest, TypeOK, CountersAgree
<1>4. curws = << >> /\ Len(curws) = 0
  BY DEF PopNewest, CountersAgree
<1>5. log[n] \in Retired
  BY <1>3 DEF TypeOK
<1>6. Newest = Stored(log[n])
  <2>1. EntryKept(n)
    BY <1>1, <1>3 DEF EntryKept, TypeOK
  <2>2. Newest = entries[(n - 1) % ecap]
    BY <1>3 DEF Newest, EntryAt
  <2> QED
    BY <1>2, <1>1, <1>3, <2>1, <2>2 DEF KeptIntact
<1>7. log[n].start + Len(log[n].ws) = write_head
  BY <1>2, <1>3, <1>4 DEF WindowsContiguous, EndOf, TypeOK
<1>8. write_head' = log[n].start
  <2>1. Newest.write_count = Len(log[n].ws)
    BY <1>6 DEF Stored
  <2> QED
    BY <1>5, <1>7, <2>1 DEF PopNewest, Larger, Retired
<1>9. /\ Len(log') = n - 1 /\ \A j \in 1 .. n - 1 : log'[j] = log[j]
  BY <1>3 DEF PopNewest, TypeOK
<1>10. UNCHANGED <<ecap, wcap, entries, writes, curws, entry_peak, write_peak, in_flight>>
  BY DEF PopNewest
<1>11. ~in_flight
  BY DEF PopNewest
<1>12. FlightKept'
  BY <1>4, <1>10 DEF FlightKept
<1>13. KeptIntact'
  <2>1. ASSUME NEW j \in 1 .. n - 1
        PROVE  /\ j + ecap > entry_peak => entries[(j - 1) % ecap] = Stored(log[j])
               /\ \A k \in 1 .. Len(log[j].ws) :
                     log[j].start + k - 1 + wcap >= write_peak =>
                         writes[(log[j].start + k - 1) % wcap] = log[j].ws[k]
    <3>1. j \in 1 .. Len(log)
      BY <1>3
    <3> QED
      BY <1>1, <1>2, <3>1 DEF KeptIntact, EntryKept, WriteKept
  <2>2. ASSUME NEW j \in 1 .. n - 1
        PROVE  Stored(log[j])' = Stored(log[j]) /\ log'[j] = log[j]
    BY <1>9 DEF Stored
  <2>3. ASSUME NEW j \in 1 .. n - 1, EntryKept(j)'
        PROVE  (entries[(j - 1) % ecap] = Stored(log[j]))'
    <3>1. j + ecap > entry_peak
      BY <1>10, <2>3 DEF EntryKept
    <3> QED
      BY <1>10, <2>1, <2>2, <3>1
  <2>4. ASSUME NEW j \in 1 .. n - 1, NEW k \in 1 .. Len(log'[j].ws),
               WriteKept(log[j].start + k - 1)'
        PROVE  (writes[(log[j].start + k - 1) % wcap] = log[j].ws[k])'
    <3>1. log'[j] = log[j]
      BY <2>2
    <3>2. log[j].start + k - 1 + wcap >= write_peak
      BY <1>10, <2>4, <3>1 DEF WriteKept
    <3> QED
      BY <1>10, <2>1, <3>1, <3>2
  <2> QED
    BY <1>9, <2>3, <2>4 DEF KeptIntact
<1>14. WindowsContiguous'
  <2>1. ASSUME NEW i \in 1 .. n - 1, NEW j \in 1 .. n - 1, i < j
        PROVE  log'[i].start + Len(log'[i].ws) <= log'[j].start
    <3>1. i \in 1 .. n /\ j \in 1 .. n
      BY <1>3
    <3> QED
      BY <3>1, <2>1, <1>2, <1>9 DEF WindowsContiguous, EndOf
  <2>2. ASSUME NEW j \in 1 .. n - 2
        PROVE  log'[j].start + Len(log'[j].ws) = log'[j + 1].start
    <3>1. j \in 1 .. n - 1 /\ j + 1 \in 1 .. n - 1
      BY <1>3
    <3> QED
      BY <3>1, <1>2, <1>9 DEF WindowsContiguous, EndOf
  <2>3. ASSUME n - 1 > 0
        PROVE  log'[n - 1].start + Len(log'[n - 1].ws) = write_head' - Len(curws')
    <3>1. n - 1 \in 1 .. n - 1
      BY <1>3, <2>3
    <3>2. log[n - 1].start + Len(log[n - 1].ws) = log[(n - 1) + 1].start
      BY <3>1, <1>2 DEF WindowsContiguous, EndOf
    <3>3. (n - 1) + 1 = n
      BY <1>3
    <3>4. Len(curws') = 0 /\ write_head' \in Nat
      BY <1>4, <1>5, <1>8, <1>10 DEF Retired
    <3> QED
      BY <1>8, <1>9, <3>1, <3>2, <3>3, <3>4
  <2>4. Len(log') = n - 1 /\ Len(log') - 1 = n - 2
    BY <1>3, <1>9
  <2> QED
    BY <1>10, <1>11, <2>1, <2>2, <2>3, <2>4 DEF WindowsContiguous, EndOf
<1> QED
  BY <1>12, <1>13, <1>14

LEMMA AbortKept ==
    ASSUME Counters, Kept, Abort
    PROVE  Kept'
<1>1. UNCHANGED <<ecap, wcap, entries, writes, entry_head, write_head, cur, history>>
      /\ in_flight' = FALSE
  BY DEF Abort
<1>2. ~overrun => WindowsContiguous'
  BY <1>1 DEF Kept, WindowsContiguous, EndOf, history
<1>3. ~overrun => FlightKept'
  BY <1>1 DEF Kept, FlightKept, WriteKept, history
<1>4. KeptIntact'
  BY <1>1 DEF Kept, KeptIntact, EntryKept, WriteKept, Stored, history
<1> QED
  BY <1>1, <1>2, <1>3, <1>4 DEF Kept, history

(* An empty ring owes nothing.                                             *)
LEMMA EmptyKept ==
    ASSUME log = << >>, curws = << >>, ~in_flight
    PROVE  Kept
<1>1. Len(log) = 0 /\ Len(curws) = 0
  OBVIOUS
<1>2. WindowsContiguous
  BY <1>1 DEF WindowsContiguous
<1>3. FlightKept /\ KeptIntact
  BY <1>1 DEF FlightKept, KeptIntact
<1> QED
  BY <1>2, <1>3 DEF Kept

LEMMA ResetKept ==
    ASSUME Clear \/ \E c \in Caps : Resize(c)
    PROVE  Kept'
<1>1. log' = << >> /\ curws' = << >> /\ ~in_flight'
  BY DEF Clear, Resize, ForgetHistory
<1>2. Len(log') = 0 /\ Len(curws') = 0
  BY <1>1
<1>3. WindowsContiguous'
  BY <1>1, <1>2 DEF WindowsContiguous
<1>4. FlightKept' /\ KeptIntact'
  BY <1>2 DEF FlightKept, KeptIntact
<1> QED
  BY <1>3, <1>4 DEF Kept

LEMMA NextKept == Counters /\ Kept /\ [Next]_vars => Kept'
<1> SUFFICES ASSUME Counters, Kept, [Next]_vars PROVE Kept'
  OBVIOUS
<1>1. CASE \E h \in Header : Begin(h)
  BY <1>1, BeginKept
<1>2. CASE \E w \in WriteRec : RecordWrite(w)
  BY <1>2, RecordWriteKept
<1>3. CASE Abort
  BY <1>3, AbortKept
<1>4. CASE Commit
  BY <1>4, CommitKept
<1>5. CASE PopNewest
  BY <1>5, PopNewestKept
<1>6. CASE Clear \/ \E c \in Caps : Resize(c)
  BY <1>6, ResetKept
<1>7. CASE UNCHANGED vars
  <2>1. UNCHANGED <<ecap, wcap, entries, writes, entry_head, write_head, cur,
                    in_flight, log, curws, entry_peak, write_peak, overrun>>
    BY <1>7 DEF vars, ring, history
  <2>2. (~overrun => WindowsContiguous)' = (~overrun => WindowsContiguous)
    BY <2>1 DEF WindowsContiguous, EndOf
  <2>3. FlightKept' = FlightKept
    BY <2>1 DEF FlightKept, WriteKept
  <2>4. KeptIntact' = KeptIntact
    BY <2>1 DEF KeptIntact, EntryKept, WriteKept, Stored
  <2> QED
    BY <2>1, <2>2, <2>3, <2>4 DEF Kept
<1> QED
  BY <1>1, <1>2, <1>3, <1>4, <1>5, <1>6, <1>7 DEF Next

(* Whatever the slab sizes and however retiring, undoing and retiring      *)
(* again interleave, every header and every write that no newer one can    *)
(* have overwritten is in its slot.                                        *)
THEOREM KeptIsIntact == Spec => []KeptIntact
<1>1. Init => Kept
  BY EmptyKept DEF Init
<1>2. Kept => KeptIntact
  BY DEF Kept
<1> QED
  BY <1>1, <1>2, InitCounters, NextCounters, NextKept, PTL DEF Spec

-----------------------------------------------------------------------------
(* What the readers report.  Here the width of write_start matters: the    *)
(* theorems hold while fewer stores were recorded than a u32 counts.       *)

Unwrapped == write_head <= MaxWriteHead

(* A slot holds the header of the instruction the ring looks for in it, or *)
(* one that ran after it and was undone since.                             *)
SlotsCurrent ==
    ~overrun =>
        \A j \in 1 .. Len(log) :
            LET e == entries[(j - 1) % ecap]
            IN  e = Stored(log[j]) \/ EndOf(j) <= e.write_start

LEMMA StoredWhole ==
    ASSUME StartMod > MaxWriteHead, NEW s \in 0 .. MaxWriteHead
    PROVE  s % StartMod = s
  BY StartModAssumption, BoundAssumption

LEMMA NextUnwrapped == Counters /\ Unwrapped /\ [Next]_vars => Unwrapped'
<1> SUFFICES ASSUME Counters, Unwrapped, [Next]_vars PROVE Unwrapped'
  OBVIOUS
<1>1. CASE \E w \in WriteRec : RecordWrite(w)
  BY <1>1, BoundAssumption DEF RecordWrite, Counters, TypeOK, Unwrapped
<1>2. CASE PopNewest
  <2>1. Newest \in Entry
    <3>1. entry_head - 1 - 0 \in Nat /\ ecap \in Nat \ {0}
      BY <1>2 DEF Counters, TypeOK, PopNewest
    <3>2. (entry_head - 1 - 0) % ecap \in 0 .. ecap - 1
      BY <3>1, SlotInSlab
    <3> QED
      BY <3>2 DEF Counters, TypeOK, Newest, EntryAt
  <2>2. PICK c : c = Newest.write_count
    OBVIOUS
  <2>3. c \in Nat /\ write_head' = Larger(write_head - c, 0)
    BY <1>2, <2>1, <2>2 DEF PopNewest, Entry
  <2> QED
    BY <2>3, BoundAssumption DEF Counters, TypeOK, Unwrapped, Larger
<1>3. CASE UNCHANGED write_head
  BY <1>3 DEF Unwrapped
<1>4. CASE write_head' = 0
  BY <1>4, BoundAssumption DEF Unwrapped
<1> QED
  BY <1>1, <1>2, <1>3, <1>4
  DEF Next, Begin, Abort, Commit, Clear, Resize, vars, ring

LEMMA CommitSlots ==
    ASSUME StartMod > MaxWriteHead, Counters, Kept, Unwrapped, SlotsCurrent, Commit
    PROVE  SlotsCurrent'
<1> USE DEF Counters
<1> SUFFICES ASSUME ~overrun, NEW j \in 1 .. Len(log')
             PROVE  \/ entries'[(j - 1) % ecap] = Stored(log'[j])
                    \/ EndOf(j)' <= entries'[(j - 1) % ecap].write_start
  BY DEF SlotsCurrent, Commit, Stored
<1> DEFINE n == Len(log)
           r == [pre   |-> cur.pre,
                 start |-> write_head - Len(curws),
                 ws    |-> curws]
<1>1. WindowsContiguous
  BY DEF Kept
<1>2. /\ n \in Nat /\ Len(log') = n + 1 /\ log'[n + 1] = r
      /\ \A i \in 1 .. n : log'[i] = log[i]
  BY DEF Commit, TypeOK
<1>3. /\ r.start = write_head - Len(curws) /\ r.ws = curws /\ r.pre = cur.pre
      /\ r.start \in 0 .. MaxWriteHead
  BY BoundAssumption DEF Unwrapped, TypeOK, CountersAgree
<1>4. cur.write_start = r.start % StartMod /\ cur.write_count = Len(curws)
  BY <1>1, <1>3 DEF WindowsContiguous, CountersAgree, Commit
<1>5. cur.write_start = r.start
  BY <1>3, <1>4, StoredWhole
<1>6. Stored(r) = cur
  <2>1. cur = [pre |-> cur.pre, write_start |-> cur.write_start, write_count |-> cur.write_count]
    BY DEF TypeOK, Entry
  <2> QED
    BY <2>1, <1>3, <1>4 DEF Stored
<1>7. entries' = [entries EXCEPT ![n % ecap] = cur] /\ ecap' = ecap
  BY DEF Commit, CountersAgree
<1>8. (j - 1) % ecap \in 0 .. ecap - 1
  <2>1. j - 1 \in Nat /\ ecap \in Nat \ {0}
    BY <1>2 DEF TypeOK
  <2> QED
    BY <2>1, SlotInSlab
<1>9. CASE j = n + 1
  BY <1>2, <1>6, <1>7, <1>8, <1>9 DEF TypeOK
<1>10. CASE j \in 1 .. n
  <2>1. log'[j] = log[j] /\ EndOf(j)' = EndOf(j)
    BY <1>2, <1>10 DEF EndOf
  <2>2. CASE (j - 1) % ecap = n % ecap
    <3>1. entries'[(j - 1) % ecap] = cur
      BY <1>7, <1>8, <2>2 DEF TypeOK
    <3>2. EndOf(j) <= write_head - Len(curws)
      BY <1>1, <1>10, WindowsEnd
    <3> QED
      BY <3>1, <3>2, <2>1, <1>3, <1>5
  <2>3. CASE (j - 1) % ecap # n % ecap
    <3>1. entries'[(j - 1) % ecap] = entries[(j - 1) % ecap]
      BY <1>7, <1>8, <2>3 DEF TypeOK
    <3> QED
      BY <3>1, <2>1, <1>10 DEF SlotsCurrent
  <2> QED
    BY <2>2, <2>3
<1> QED
  BY <1>2, <1>9, <1>10

LEMMA PopNewestSlots ==
    ASSUME Counters, SlotsCurrent, PopNewest
    PROVE  SlotsCurrent'
<1> USE DEF Counters
<1> SUFFICES ASSUME ~overrun'
             PROVE  \A j \in 1 .. Len(log') :
                       \/ entries'[(j - 1) % ecap'] = Stored(log'[j])
                       \/ EndOf(j)' <= entries'[(j - 1) % ecap'].write_start
  BY DEF SlotsCurrent, Stored
<1>1. ~overrun /\ UNCHANGED <<ecap, entries>>
  BY DEF PopNewest, TypeOK
<1>2. Len(log) \in Nat \ {0} /\ Len(log') = Len(log) - 1
      /\ \A j \in 1 .. Len(log) - 1 : log'[j] = log[j] /\ j \in 1 .. Len(log)
  BY DEF PopNewest, TypeOK, CountersAgree
<1> QED
  BY <1>1, <1>2 DEF SlotsCurrent, EndOf, Stored

LEMMA NextSlots ==
    ASSUME StartMod > MaxWriteHead, Counters, Kept, Unwrapped, SlotsCurrent, [Next]_vars
    PROVE  SlotsCurrent'
<1>1. CASE Commit
  BY <1>1, CommitSlots
<1>2. CASE PopNewest
  BY <1>2, PopNewestSlots
<1>3. CASE UNCHANGED <<ecap, entries, log, overrun>>
  BY <1>3 DEF SlotsCurrent, EndOf, Stored
<1>4. CASE log' = << >>
  <2>1. Len(log') = 0
    BY <1>4
  <2> QED
    BY <2>1 DEF SlotsCurrent
<1> QED
  BY <1>1, <1>2, <1>3, <1>4
  DEF Next, Begin, RecordWrite, Abort, Clear, Resize, ForgetHistory, vars, ring, history

LEMMA InitSlots == Init => Unwrapped /\ SlotsCurrent
<1> SUFFICES ASSUME Init PROVE Unwrapped /\ SlotsCurrent
  OBVIOUS
<1>1. write_head = 0 /\ Len(log) = 0
  BY DEF Init
<1> QED
  BY <1>1, BoundAssumption DEF Unwrapped, SlotsCurrent

(* A retired instruction's window, stored whole.                           *)
LEMMA StoredStart ==
    ASSUME StartMod > MaxWriteHead, Counters, WindowsContiguous, Unwrapped,
           NEW j \in 1 .. Len(log)
    PROVE  /\ Stored(log[j]).pre = log[j].pre
           /\ Stored(log[j]).write_start = log[j].start
           /\ Stored(log[j]).write_count = Len(log[j].ws)
<1>1. log[j] \in Retired /\ log[j].start + Len(log[j].ws) <= write_head - Len(curws)
  BY WindowsEnd
<1>2. log[j].start \in 0 .. MaxWriteHead
  BY <1>1, BoundAssumption DEF Retired, Unwrapped, Counters, TypeOK
<1> QED
  BY <1>2, StoredWhole DEF Stored

LEMMA ForwardWindow ==
    ASSUME StartMod > MaxWriteHead, Counters, Kept, Unwrapped
    PROVE  ForwardWindowIsHistory
<1> USE DEF Counters
<1> SUFFICES ASSUME ~overrun, entry_head = entry_peak, write_head = write_peak,
                    NEW back \in 0 .. Retained - 1
             PROVE  /\ EntryAt(back) = Stored(log[Len(log) - back])
                    /\ WritesReadable(EntryAt(back))
                           => WritesFor(EntryAt(back)) = log[Len(log) - back].ws
  BY DEF ForwardWindowIsHistory, CaughtUp, RetainedHeadersAreHistory, ReadableWritesAreOwn
<1> DEFINE j == Len(log) - back
<1>1. WindowsContiguous /\ KeptIntact
  BY DEF Kept
<1>2. back \in Nat /\ back < entry_head /\ back < ecap /\ Len(log) = entry_head
  BY DEF Retained, Smaller, TypeOK, CountersAgree
<1>3. j \in 1 .. Len(log) /\ EntryKept(j)
  BY <1>2 DEF TypeOK, EntryKept
<1>4. EntryAt(back) = Stored(log[j])
  <2>1. entry_head - 1 - back = j - 1
    BY <1>2 DEF TypeOK
  <2> QED
    BY <1>1, <1>3, <2>1 DEF KeptIntact, EntryAt
<1>5. log[j] \in Retired
  BY <1>3 DEF TypeOK
<1>6. /\ EntryAt(back).write_start = log[j].start
      /\ EntryAt(back).write_count = Len(log[j].ws)
  BY <1>1, <1>3, <1>4, StoredStart
<1> DEFINE e == EntryAt(back)
<1>7. CASE Len(log[j].ws) = 0
  <2>1. log[j].ws = << >>
    BY <1>5, <1>7 DEF Retired
  <2> QED
    BY <1>4, <1>6, <1>7, <2>1 DEF WritesFor
<1>8. ASSUME Len(log[j].ws) # 0, WritesReadable(e)
      PROVE  WritesFor(e) = log[j].ws
  <2>1. log[j].start >= write_head - wcap
    BY <1>5, <1>6, <1>8 DEF WritesReadable, Larger, TypeOK, Retired
  <2>2. ASSUME NEW k \in 1 .. Len(log[j].ws)
        PROVE  writes[(log[j].start + k - 1) % wcap] = log[j].ws[k]
    <3>1. WriteKept(log[j].start)
      BY <2>1, <1>5 DEF WriteKept, TypeOK, Retired
    <3>2. log[j].start \in Nat
      BY <1>5 DEF Retired
    <3>3. WriteKept(log[j].start + k - 1)
      BY <3>1, <3>2, LaterIsKept
    <3> QED
      BY <3>3, <1>1, <1>3 DEF KeptIntact
  <2>3. WritesFor(e) = [k \in 1 .. Len(log[j].ws) |->
                          writes[(log[j].start + k - 1) % wcap]]
    BY <1>6, <1>8 DEF WritesFor
  <2>4. log[j].ws = [k \in 1 .. Len(log[j].ws) |-> log[j].ws[k]]
    BY <1>5 DEF Retired
  <2> QED
    BY <2>2, <2>3, <2>4
<1> QED
  BY <1>4, <1>7, <1>8

LEMMA NewestHasWrites ==
    ASSUME StartMod > MaxWriteHead, Counters, Kept, Unwrapped, SlotsCurrent
    PROVE  NewestReadable
<1> USE DEF Counters
<1> SUFFICES ASSUME ~in_flight, ~overrun, entry_head > 0, Newest.write_count <= wcap
             PROVE  WritesReadable(Newest)
  BY DEF NewestReadable
<1> DEFINE n == Len(log)
<1>1. n = entry_head /\ n \in 1 .. n /\ n \in Nat
  BY DEF TypeOK, CountersAgree
<1>2. Newest = entries[(n - 1) % ecap]
  BY <1>1 DEF Newest, EntryAt
<1>3. Newest \in Entry
  <2>1. n - 1 \in Nat /\ ecap \in Nat \ {0}
    BY <1>1 DEF TypeOK
  <2>2. (n - 1) % ecap \in 0 .. ecap - 1
    BY <2>1, SlotInSlab
  <2> QED
    BY <1>2, <2>2 DEF TypeOK
<1>4. WindowsContiguous /\ Len(curws) = 0
  BY DEF Kept, CountersAgree
<1>5. EndOf(n) = write_head
  BY <1>1, <1>4 DEF WindowsContiguous, TypeOK
<1>6. log[n] \in Retired /\ EndOf(n) = log[n].start + Len(log[n].ws)
  BY <1>1 DEF TypeOK, EndOf
<1>7. Newest.write_start >= write_head - wcap
  <2>1. CASE Newest = Stored(log[n])
    <3>1. Newest.write_start = log[n].start /\ Newest.write_count = Len(log[n].ws)
      BY <1>1, <1>4, <2>1, StoredStart
    <3>2. log[n].start \in Nat /\ Len(log[n].ws) \in Nat /\ wcap \in Nat
      BY <1>6 DEF Retired, TypeOK
    <3> QED
      BY <3>1, <3>2, <1>5, <1>6
  <2>2. CASE EndOf(n) <= Newest.write_start
    BY <2>2, <1>3, <1>5 DEF Entry, TypeOK
  <2> QED
    BY <1>1, <1>2, <2>1, <2>2 DEF SlotsCurrent
<1>8. Newest.write_start \in Nat
  BY <1>3 DEF Entry
<1> QED
  BY <1>7, <1>8 DEF WritesReadable, Larger, TypeOK

(* As long as write_start does not wrap, len() and writes_for() report     *)
(* what retired and nothing else, for a forward execution of any length.   *)
THEOREM ForwardWindowCorrect ==
    ASSUME StartMod > MaxWriteHead
    PROVE  Spec => []ForwardWindowIsHistory
<1>1. Counters /\ Kept /\ Unwrapped => ForwardWindowIsHistory
  BY ForwardWindow
<1>2. Init => Kept
  BY EmptyKept DEF Init
<1> QED
  BY <1>1, <1>2, InitCounters, InitSlots, NextCounters, NextKept, NextUnwrapped, PTL DEF Spec

(* As long as write_start does not wrap, the instruction a reverse-step    *)
(* would undo has its writes, unless it alone overfilled the slab.         *)
THEOREM NewestAlwaysReadable ==
    ASSUME StartMod > MaxWriteHead
    PROVE  Spec => []NewestReadable
<1>1. Counters /\ Kept /\ Unwrapped /\ SlotsCurrent => NewestReadable
  BY NewestHasWrites
<1>2. Init => Kept
  BY EmptyKept DEF Init
<1>3. Counters /\ Kept /\ Unwrapped /\ SlotsCurrent /\ [Next]_vars => SlotsCurrent'
  BY NextSlots
<1> QED
  BY <1>1, <1>2, <1>3, InitCounters, InitSlots, NextCounters, NextKept, NextUnwrapped, PTL
  DEF Spec

(* As long as write_start does not wrap, what len(), writes_readable() and *)
(* writes_for() report is true, for slabs of any size.                     *)
THEOREM WindowsAreAlwaysTrue ==
    ASSUME StartMod > MaxWriteHead
    PROVE  Spec => []WindowsAreTrue
<1>1. ForwardWindowIsHistory /\ NewestReadable => WindowsAreTrue
  BY DEF WindowsAreTrue
<1> QED
  BY <1>1, ForwardWindowCorrect, NewestAlwaysReadable, PTL

-----------------------------------------------------------------------------
(* Least and greatest elements, which the walks and searches choose.       *)

Less == OpToRel(<, Nat)

LEMMA LessWellFounded == IsWellFoundedOn(Less, Nat)
  BY NatLessThanWellFounded DEF Less

LEMMA LessIsLess == \A x, y \in Nat : <<y, x>> \in Less <=> y < x
  BY DEF Less, OpToRel

(* Every nonempty set of naturals has a least element.                     *)
LEMMA LeastElement ==
    ASSUME NEW T \in SUBSET Nat, T # {}
    PROVE  \E x \in T : \A y \in T : x <= y
<1>1. \E x \in T : \A y \in T : ~(<<y, x>> \in Less)
  <2>1. IsWellFoundedOn(Less, Nat) /\ T \subseteq Nat /\ \E t : t \in T
    BY LessWellFounded
  <2> QED
    BY <2>1, WFMin
<1>2. PICK x \in T : \A y \in T : ~(<<y, x>> \in Less)
  BY <1>1
<1>3. ASSUME NEW y \in T PROVE x <= y
  <2>1. x \in Nat /\ y \in Nat /\ ~(y < x)
    BY <1>2, LessIsLess
  <2> QED
    BY <2>1
<1> QED
  BY <1>3

(* ... and a greatest one, when it is bounded.                             *)
LEMMA GreatestElement ==
    ASSUME NEW n \in Nat, NEW T \in SUBSET (0 .. n), T # {}
    PROVE  \E x \in T : \A y \in T : x >= y
<1> DEFINE U == {n - t : t \in T}
<1>1. U \in SUBSET Nat /\ U # {}
  OBVIOUS
<1> HIDE DEF U
<1>2. PICK u \in U : \A v \in U : u <= v
  BY <1>1, LeastElement
<1>3. PICK x \in T : u = n - x
  BY <1>2 DEF U
<1>4. ASSUME NEW y \in T PROVE x >= y
  <2>1. n - y \in U
    BY DEF U
  <2>2. u <= n - y
    BY <1>2, <2>1
  <2>3. x \in Int /\ y \in Int
    OBVIOUS
  <2> QED
    BY <1>3, <2>2, <2>3
<1> QED
  BY <1>4

(* Induction over the numbers up to a bound, as a fact about a set.        *)
LEMMA Counting ==
    ASSUME NEW m \in Nat, NEW S, 0 \in S, \A n \in 0 .. m - 1 : n \in S => n + 1 \in S
    PROVE  \A n \in 0 .. m : n \in S
<1> DEFINE T == {n \in 0 .. m : n \notin S}
<1>1. SUFFICES ASSUME T # {} PROVE FALSE
  OBVIOUS
<1>2. PICK k \in T : \A y \in T : k <= y
  <2>1. T \in SUBSET Nat
    OBVIOUS
  <2> QED
    BY <1>1, <2>1, LeastElement
<1>3. k # 0 /\ k \in 0 .. m
  BY <1>2
<1>4. k - 1 \in 0 .. m - 1 /\ k - 1 \in 0 .. m /\ ~(k <= k - 1)
  BY <1>3
<1>5. k - 1 \in S
  BY <1>2, <1>4
<1>6. k - 1 + 1 \in S
  BY <1>4, <1>5
<1> QED
  BY <1>2, <1>3, <1>6

-----------------------------------------------------------------------------
(* The first and the last write of an instruction to an address.           *)

LEMMA FirstToIs ==
    ASSUME NEW S, NEW ws \in Seq(S), NEW a
    PROVE  \/ FirstTo(ws, a) = 0 /\ \A k \in 1 .. Len(ws) : ws[k].addr # a
           \/ /\ FirstTo(ws, a) \in 1 .. Len(ws) /\ ws[FirstTo(ws, a)].addr = a
              /\ \A k \in 1 .. FirstTo(ws, a) - 1 : ws[k].addr # a
<1> DEFINE I == {k \in 1 .. Len(ws) : ws[k].addr = a}
<1>1. FirstTo(ws, a) = IF I # {} THEN Min(I) ELSE 0
  BY DEF FirstTo, SelectInSeq
<1>2. I \in SUBSET Nat
  OBVIOUS
<1>3. CASE I = {}
  BY <1>1, <1>3
<1>4. CASE I # {}
  <2> HIDE DEF I
  <2>1. \E x \in I : \A y \in I : x <= y
    BY <1>2, <1>4, LeastElement
  <2>2. FirstTo(ws, a) \in I /\ \A y \in I : FirstTo(ws, a) <= y
    BY <1>1, <1>4, <2>1 DEF Min
  <2> QED
    BY <2>2 DEF I
<1> QED
  BY <1>3, <1>4

LEMMA LastToIs ==
    ASSUME NEW S, NEW ws \in Seq(S), NEW a
    PROVE  \/ LastTo(ws, a) = 0 /\ \A k \in 1 .. Len(ws) : ws[k].addr # a
           \/ /\ LastTo(ws, a) \in 1 .. Len(ws) /\ ws[LastTo(ws, a)].addr = a
              /\ \A k \in LastTo(ws, a) + 1 .. Len(ws) : ws[k].addr # a
<1> DEFINE I == {k \in 1 .. Len(ws) : ws[k].addr = a}
<1>1. LastTo(ws, a) = IF I # {} THEN Max(I) ELSE 0
  BY DEF LastTo, SelectLastInSeq
<1>2. I \in SUBSET (0 .. Len(ws)) /\ Len(ws) \in Nat
  OBVIOUS
<1>3. CASE I = {}
  BY <1>1, <1>3
<1>4. CASE I # {}
  <2> HIDE DEF I
  <2>1. \E x \in I : \A y \in I : x >= y
    BY <1>2, <1>4, GreatestElement
  <2>2. LastTo(ws, a) \in I /\ \A y \in I : LastTo(ws, a) >= y
    BY <1>1, <1>4, <2>1 DEF Max
  <2> QED
    BY <2>2 DEF I
<1> QED
  BY <1>3, <1>4

(* The description determines the index.                                   *)
LEMMA FirstToUnique ==
    ASSUME NEW S, NEW ws \in Seq(S), NEW a, NEW f \in 1 .. Len(ws),
           ws[f].addr = a, \A k \in 1 .. f - 1 : ws[k].addr # a
    PROVE  FirstTo(ws, a) = f
<1>1. Len(ws) \in Nat
  OBVIOUS
<1> QED
  BY FirstToIs, <1>1

LEMMA LastToUnique ==
    ASSUME NEW S, NEW ws \in Seq(S), NEW a, NEW l \in 1 .. Len(ws),
           ws[l].addr = a, \A k \in l + 1 .. Len(ws) : ws[k].addr # a
    PROVE  LastTo(ws, a) = l
<1>1. Len(ws) \in Nat
  OBVIOUS
<1> QED
  BY LastToIs, <1>1

(* One more write: it is the last to its address, the first if there was   *)
(* none, and no other address is touched.                                  *)
LEMMA AppendedWrite ==
    ASSUME NEW S, NEW ws \in Seq(S), NEW w \in S, NEW a
    PROVE  LET ext == Append(ws, w)
           IN  /\ \A k \in 1 .. Len(ws) : ext[k] = ws[k]
               /\ ext[Len(ws) + 1] = w
               /\ w.addr = a => /\ LastTo(ext, a) = Len(ws) + 1
                                /\ FirstTo(ext, a) = IF FirstTo(ws, a) = 0 THEN Len(ws) + 1
                                                     ELSE FirstTo(ws, a)
               /\ w.addr # a => /\ LastTo(ext, a) = LastTo(ws, a)
                                /\ FirstTo(ext, a) = FirstTo(ws, a)
<1> DEFINE ext == Append(ws, w)
           n == Len(ws)
<1>1. /\ ext \in Seq(S) /\ Len(ext) = n + 1 /\ n \in Nat
      /\ \A k \in 1 .. n : ext[k] = ws[k]
      /\ ext[n + 1] = w
  OBVIOUS
<1> HIDE DEF ext, n
<1>2. ASSUME w.addr = a PROVE LastTo(ext, a) = n + 1
  BY <1>1, <1>2, LastToUnique
<1>3. ASSUME w.addr = a
      PROVE  FirstTo(ext, a) = IF FirstTo(ws, a) = 0 THEN n + 1 ELSE FirstTo(ws, a)
  <2>1. CASE FirstTo(ws, a) = 0
    <3>1. \A k \in 1 .. n : ws[k].addr # a
      BY <2>1, FirstToIs DEF n
    <3> QED
      BY <1>1, <1>3, <2>1, <3>1, FirstToUnique
  <2>2. CASE FirstTo(ws, a) # 0
    <3>1. /\ FirstTo(ws, a) \in 1 .. n /\ ws[FirstTo(ws, a)].addr = a
          /\ \A k \in 1 .. FirstTo(ws, a) - 1 : ws[k].addr # a
      BY <2>2, FirstToIs DEF n
    <3> DEFINE f == FirstTo(ws, a)
    <3>2. f \in 1 .. Len(ext) /\ ext[f].addr = a /\ \A k \in 1 .. f - 1 : ext[k].addr # a
      BY <1>1, <3>1
    <3> HIDE DEF f
    <3>3. FirstTo(ext, a) = f
      BY <1>1, <3>2, FirstToUnique
    <3> QED
      BY <2>2, <3>3 DEF f
  <2> QED
    BY <2>1, <2>2
<1>4. ASSUME w.addr # a PROVE LastTo(ext, a) = LastTo(ws, a)
  <2>1. CASE LastTo(ws, a) = 0
    <3>1. \A k \in 1 .. n : ws[k].addr # a
      BY <2>1, LastToIs DEF n
    <3>2. \A k \in 1 .. Len(ext) : ext[k].addr # a
      BY <1>1, <1>4, <3>1
    <3> QED
      BY <1>1, <2>1, <3>2, LastToIs
  <2>2. CASE LastTo(ws, a) # 0
    <3>1. /\ LastTo(ws, a) \in 1 .. n /\ ws[LastTo(ws, a)].addr = a
          /\ \A k \in LastTo(ws, a) + 1 .. n : ws[k].addr # a
      BY <2>2, LastToIs DEF n
    <3> DEFINE f == LastTo(ws, a)
    <3>2. f \in 1 .. Len(ext) /\ ext[f].addr = a /\ \A k \in f + 1 .. Len(ext) : ext[k].addr # a
      BY <1>1, <1>4, <3>1
    <3> HIDE DEF f
    <3>3. LastTo(ext, a) = f
      BY <1>1, <3>2, LastToUnique
    <3> QED
      BY <3>3 DEF f
  <2> QED
    BY <2>1, <2>2
<1>5. ASSUME w.addr # a PROVE FirstTo(ext, a) = FirstTo(ws, a)
  <2>1. CASE FirstTo(ws, a) = 0
    <3>1. \A k \in 1 .. n : ws[k].addr # a
      BY <2>1, FirstToIs DEF n
    <3>2. \A k \in 1 .. Len(ext) : ext[k].addr # a
      BY <1>1, <1>5, <3>1
    <3> QED
      BY <1>1, <2>1, <3>2, FirstToIs
  <2>2. CASE FirstTo(ws, a) # 0
    <3>1. /\ FirstTo(ws, a) \in 1 .. n /\ ws[FirstTo(ws, a)].addr = a
          /\ \A k \in 1 .. FirstTo(ws, a) - 1 : ws[k].addr # a
      BY <2>2, FirstToIs DEF n
    <3> DEFINE f == FirstTo(ws, a)
    <3>2. f \in 1 .. Len(ext) /\ ext[f].addr = a /\ \A k \in 1 .. f - 1 : ext[k].addr # a
      BY <1>1, <3>1
    <3> HIDE DEF f
    <3>3. FirstTo(ext, a) = f
      BY <1>1, <3>2, FirstToUnique
    <3> QED
      BY <3>3 DEF f
  <2> QED
    BY <2>1, <2>2
<1> QED
  BY <1>1, <1>2, <1>3, <1>4, <1>5 DEF ext, n

-----------------------------------------------------------------------------
(* The reverse debugger: the ring it feeds is DeltaRing's, and its own     *)
(* state keeps its types.                                                  *)

LEMMA MachineDrivesRing ==
    ASSUME MachineTypeOK, [MachineNext]_allvars
    PROVE  [Next]_vars
<1>1. CASE Fetch
  BY <1>1 DEF Fetch, MachineTypeOK, Next
<1>2. CASE \E a \in Addr, v \in Byte : Store(a, v)
  <2>1. PICK a \in Addr, v \in Byte : Store(a, v)
    BY <1>2
  <2> DEFINE w == [addr |-> a, old |-> IF a \in IoAddr THEN 0 ELSE ram[a], new |-> v]
  <2>2. ram[a] \in Byte
    BY DEF MachineTypeOK
  <2>3. w \in WriteRec
    BY <2>2, MemoryAssumption
  <2>4. RecordWrite(w)
    BY <2>1 DEF Store
  <2> QED
    BY <2>3, <2>4 DEF Next
<1>3. CASE NothingRan
  BY <1>3 DEF NothingRan, Next
<1>4. CASE \E c \in Header : Retire(c)
  BY <1>4 DEF Retire, Next
<1>5. CASE UndoOne
  BY <1>5 DEF UndoOne, Next
<1>6. CASE \E c \in Header : ColdReset(c)
  BY <1>6 DEF ColdReset, Next
<1>7. CASE \E c \in Caps : SetReverseDepth(c)
  BY <1>7 DEF SetReverseDepth, Next
<1>8. CASE UNCHANGED vars
  BY <1>8
<1> QED
  BY <1>1, <1>2, <1>3, <1>4, <1>5, <1>6, <1>7, <1>8
  DEF MachineNext, Dma, ReverseStep, RestoreCheckpoint, allvars

(* What a pop reads of an entry, the cursor already rewound.               *)
LEMMA ReadAfterPop ==
    ASSUME Counters, PopNewest
    PROVE  /\ Newest \in Entry
           /\ \A e \in Entry :
                 WritesFor(e)' =
                     IF e.write_count = 0 \/ ~(e.write_start >= Larger(write_head' - wcap, 0))
                     THEN << >>
                     ELSE [k \in 1 .. e.write_count |-> writes[(e.write_start + k - 1) % wcap]]
<1>1. (entry_head - 1 - 0) % ecap \in 0 .. ecap - 1
  <2>1. entry_head - 1 - 0 \in Nat /\ ecap \in Nat \ {0}
    BY DEF PopNewest, Counters, TypeOK
  <2> QED
    BY <2>1, SlotInSlab
<1>2. Newest \in Entry
  BY <1>1 DEF Counters, TypeOK, Newest, EntryAt
<1>3. writes' = writes /\ wcap' = wcap
  BY DEF PopNewest
<1>4. ASSUME NEW e \in Entry
      PROVE  WritesFor(e)' =
                 IF e.write_count = 0 \/ ~(e.write_start >= Larger(write_head' - wcap, 0))
                 THEN << >>
                 ELSE [k \in 1 .. e.write_count |-> writes[(e.write_start + k - 1) % wcap]]
  BY <1>3 DEF WritesFor, WritesReadable
<1> QED
  BY <1>2, <1>4

(* Memory stays memory when such writes are put back, whatever they are.   *)
LEMMA UndoneRamTyped ==
    ASSUME Counters, PopNewest, NEW e \in Entry, NEW m \in [Addr -> Byte]
    PROVE  UndoWrites(WritesFor(e)', m) \in [Addr -> Byte]
<1> DEFINE ws == WritesFor(e)'
           Slot == WriteRec \cup {NoWrite}
<1>1. ws \in Seq(Slot)
  <2>1. CASE ws = << >>
    BY <2>1
  <2>2. CASE ws = [k \in 1 .. e.write_count |-> writes[(e.write_start + k - 1) % wcap]]
    <3>1. e.write_count \in Nat /\ e.write_start \in Nat
      BY DEF Entry
    <3>2. ASSUME NEW k \in 1 .. e.write_count
          PROVE  writes[(e.write_start + k - 1) % wcap] \in Slot
      <4>1. e.write_start + k - 1 \in Nat /\ wcap \in Nat \ {0}
        BY <3>1 DEF Counters, TypeOK
      <4>2. (e.write_start + k - 1) % wcap \in 0 .. wcap - 1
        BY <4>1, SlotInSlab
      <4> QED
        BY <4>2 DEF Counters, TypeOK
    <3>3. ws \in [1 .. e.write_count -> Slot]
      BY <2>2, <3>2
    <3> QED
      BY <3>1, <3>3
  <2> QED
    BY <2>1, <2>2, ReadAfterPop
<1>2. ASSUME NEW s \in Slot PROVE s.old \in Byte
  BY MemoryAssumption
<1> HIDE DEF ws, Slot
<1>3. ASSUME NEW a \in Addr
      PROVE  (IF FirstTo(ws, a) = 0 THEN m[a] ELSE ws[FirstTo(ws, a)].old) \in Byte
  <2>1. CASE FirstTo(ws, a) = 0
    BY <2>1
  <2>2. CASE FirstTo(ws, a) # 0
    <3>1. FirstTo(ws, a) \in 1 .. Len(ws)
      BY <1>1, <2>2, FirstToIs
    <3>2. ws[FirstTo(ws, a)] \in Slot
      BY <1>1, <3>1
    <3> QED
      BY <1>2, <2>2, <3>2
  <2> QED
    BY <2>1, <2>2
<1> QED
  BY <1>3 DEF UndoWrites, ws

LEMMA PoppedHeaderReal ==
    ASSUME Counters, SlotsFilled, PopNewest
    PROVE  Newest.pre \in Header
<1>1. entry_head - 1 \in 0 .. entry_head - 1
  BY DEF PopNewest, Counters, TypeOK
<1>2. entry_head - 1 - 0 = entry_head - 1
  BY DEF Counters, TypeOK
<1> QED
  BY <1>1, <1>2 DEF SlotsFilled, Newest, EntryAt

LEMMA NextMachineTypes ==
    ASSUME Counters, MachineTypeOK, SlotsFilled, [MachineNext]_allvars
    PROVE  MachineTypeOK'
<1> DEFINE Moment == [cpu : Header, ram : [Addr -> Byte]]
<1>1. NoRam \in [Addr -> Byte]
  BY MemoryAssumption DEF NoRam
<1>2. << >> \in Seq(Moment) /\ {} \subseteq Addr
  OBVIOUS
<1>3. CASE Fetch
  BY <1>3 DEF Fetch, MachineTypeOK, machine
<1>4. CASE \E a \in Addr, v \in Byte : Store(a, v)
  BY <1>4 DEF Store, MachineTypeOK, ghosts
<1>5. CASE \E a \in Addr, v \in Byte : Dma(a, v)
  BY <1>5 DEF Dma, MachineTypeOK
<1>6. CASE NothingRan
  BY <1>1, <1>6 DEF NothingRan, MachineTypeOK, machine
<1>7. CASE \E c \in Header : Retire(c)
  <2>1. PICK c \in Header : Retire(c)
    BY <1>7
  <2>2. cur.pre \in Header
    BY <2>1 DEF Retire, Commit, Counters, TypeOK
  <2>3. State(cur.pre, flight_ram) \in Moment
    BY <2>2 DEF State, MachineTypeOK
  <2>4. timeline' \in Seq(Moment)
    BY <2>1, <2>3 DEF Retire, MachineTypeOK
  <2> QED
    BY <1>1, <2>1, <2>4 DEF Retire, MachineTypeOK
<1>8. CASE \E n \in StepSizes : ReverseStep(n)
  <2>1. UNCHANGED <<machine, ghosts>>
    BY <1>8 DEF ReverseStep
  <2>2. undo_left' \in Nat
    <3>1. PICK n \in StepSizes : undo_left' = Smaller(n, Retained)
      BY <1>8 DEF ReverseStep
    <3> QED
      BY <3>1, StepsAssumption DEF Retained, Smaller, Counters, TypeOK
  <2> QED
    BY <2>1, <2>2 DEF MachineTypeOK, machine, ghosts
<1>9. CASE UndoOne
  <2>1. PICK e \in {Newest} : /\ PopNewest
                              /\ ram' = UndoWrites(WritesFor(e)', ram)
                              /\ cpu' = e.pre
    BY <1>9 DEF UndoOne
  <2>2. e \in Entry /\ e.pre \in Header
    BY <2>1, ReadAfterPop, PoppedHeaderReal
  <2>3. cpu' \in Header /\ ram' \in [Addr -> Byte]
    BY <2>1, <2>2, UndoneRamTyped DEF MachineTypeOK
  <2>4. timeline' \in Seq(Moment)
    <3>1. CASE timeline = << >>
      BY <1>2, <1>9, <3>1 DEF UndoOne
    <3>2. CASE timeline # << >>
      <4>1. timeline' = SubSeq(timeline, 1, Len(timeline) - 1)
        BY <1>9, <3>2 DEF UndoOne, Front
      <4>2. timeline \in Seq(Moment)
        BY DEF MachineTypeOK
      <4>3. Len(timeline) - 1 \in Nat /\ Len(timeline) - 1 <= Len(timeline)
        BY <3>2, <4>2
      <4> HIDE DEF Moment
      <4> QED
        BY <4>1, <4>2, <4>3
    <3> QED
      BY <3>1, <3>2
  <2>5. lost' \in BOOLEAN /\ undo_left' \in Nat
    BY <1>9 DEF UndoOne, MachineTypeOK
  <2> QED
    BY <1>9, <2>3, <2>4, <2>5 DEF UndoOne, MachineTypeOK
<1>10. CASE \E c \in Header : ColdReset(c)
  BY <1>2, <1>10 DEF ColdReset, NewTimeline, MachineTypeOK
<1>11. CASE \E c \in Caps : SetReverseDepth(c)
  BY <1>2, <1>11 DEF SetReverseDepth, NewTimeline, MachineTypeOK, machine
<1>12. CASE \E c \in Header, m \in [Addr -> Byte] : RestoreCheckpoint(c, m)
  BY <1>2, <1>12 DEF RestoreCheckpoint, NewTimeline, MachineTypeOK
<1>13. CASE UNCHANGED allvars
  BY <1>13 DEF allvars, machine, ghosts, MachineTypeOK
<1> QED
  BY <1>3, <1>4, <1>5, <1>6, <1>7, <1>8, <1>9, <1>10, <1>11, <1>12, <1>13 DEF MachineNext

(* A commit fills one slot more; a pop and a reset leave fewer to read.    *)
LEMMA NextSlotsFilled ==
    ASSUME Counters, SlotsFilled, [Next]_vars
    PROVE  SlotsFilled'
<1>1. CASE Commit
  <2>1. /\ entries' = [entries EXCEPT ![entry_head % ecap] = cur]
        /\ entry_head' = entry_head + 1 /\ ecap' = ecap /\ cur.pre \in Header
    BY <1>1 DEF Commit, Counters, TypeOK
  <2>2. ecap \in Nat \ {0} /\ entry_head \in Nat /\ DOMAIN entries = 0 .. ecap - 1
    BY DEF Counters, TypeOK
  <2>3. ASSUME NEW i \in 0 .. entry_head
        PROVE  entries'[i % ecap].pre \in Header
    <3>1. i % ecap \in 0 .. ecap - 1
      BY <2>2, SlotInSlab
    <3>2. CASE i % ecap = entry_head % ecap
      BY <2>1, <2>2, <3>1, <3>2
    <3>3. CASE i % ecap # entry_head % ecap
      <4>1. i \in 0 .. entry_head - 1
        BY <2>2, <3>3
      <4> QED
        BY <2>1, <2>2, <3>1, <3>3, <4>1 DEF SlotsFilled
    <3> QED
      BY <3>2, <3>3
  <2>4. entry_head' - 1 = entry_head
    BY <2>1, <2>2
  <2> QED
    BY <2>1, <2>3, <2>4 DEF SlotsFilled
<1>2. CASE PopNewest
  <2>1. entry_head' = entry_head - 1 /\ entries' = entries /\ ecap' = ecap
    BY <1>2 DEF PopNewest
  <2>2. \A i \in 0 .. entry_head' - 1 : i \in 0 .. entry_head - 1
    BY <1>2, <2>1 DEF PopNewest, Counters, TypeOK
  <2> QED
    BY <2>1, <2>2 DEF SlotsFilled
<1>3. CASE UNCHANGED <<entries, entry_head, ecap>>
  BY <1>3 DEF SlotsFilled
<1>4. CASE entry_head' = 0
  BY <1>4 DEF SlotsFilled
<1> QED
  BY <1>1, <1>2, <1>3, <1>4
  DEF Next, Begin, RecordWrite, Abort, Clear, Resize, vars, ring

-----------------------------------------------------------------------------
(* Undoing is exact.  The invariant is TimelineInLog: the log's newest     *)
(* entries are the timeline's instructions, and the writes of each lead    *)
(* from the memory before it to the memory after it and back.  ReverseExact*)
(* alone says nothing of the older instructions, which undoing reaches     *)
(* next, nor of the writes in flight, which commit makes an entry of.      *)

(* What a pop reads of an instruction the slabs hold whole is that         *)
(* instruction.                                                            *)
LEMMA PopReadsNewest ==
    ASSUME StartMod > MaxWriteHead, Counters, Kept, Unwrapped,
           PopNewest, ~overrun', FullyKept(Len(log))
    PROVE  /\ Newest.pre = log[Len(log)].pre
           /\ \A e \in {Newest} : WritesFor(e)' = log[Len(log)].ws
<1> USE DEF Counters
<1> DEFINE n == Len(log)
           r == log[n]
<1>1. ~overrun /\ ~in_flight /\ WindowsContiguous /\ KeptIntact
  BY DEF PopNewest, Kept, TypeOK
<1>2. n \in Nat /\ n > 0 /\ n = entry_head /\ n \in 1 .. n /\ Len(curws) = 0
  BY <1>1 DEF PopNewest, TypeOK, CountersAgree
<1>3. r \in Retired /\ r.start \in Nat /\ Len(r.ws) \in Nat /\ r.ws \in Seq(WriteRec)
  <2>1. r \in Retired
    BY <1>2 DEF TypeOK
  <2> HIDE DEF r
  <2> QED
    BY <2>1 DEF Retired
<1>4. Newest = Stored(r)
  <2>1. Newest = entries[(n - 1) % ecap]
    BY <1>2 DEF Newest, EntryAt
  <2> QED
    BY <1>1, <1>2, <2>1 DEF KeptIntact, FullyKept
<1>5. Newest.pre = r.pre /\ Newest.write_start = r.start /\ Newest.write_count = Len(r.ws)
  BY <1>1, <1>2, <1>4, StoredStart
<1>6. r.start + Len(r.ws) = write_head
  BY <1>1, <1>2 DEF WindowsContiguous, EndOf, TypeOK
<1>7. write_head' = r.start
  BY <1>3, <1>5, <1>6 DEF PopNewest, Larger
<1>8. r.start >= Larger(write_head' - wcap, 0)
  BY <1>3, <1>7 DEF Larger, TypeOK
<1>9. CASE Len(r.ws) = 0
  <2>1. r.ws = << >>
    BY <1>3, <1>9
  <2> QED
    BY <1>5, <1>9, <2>1, ReadAfterPop
<1>10. CASE Len(r.ws) # 0
  <2>1. r.start + wcap >= write_peak
    BY <1>10 DEF FullyKept, WriteKept
  <2>2. ASSUME NEW k \in 1 .. Len(r.ws)
        PROVE  writes[(r.start + k - 1) % wcap] = r.ws[k]
    <3>1. WriteKept(r.start + k - 1)
      BY <2>1, <1>3, LaterIsKept DEF WriteKept
    <3> QED
      BY <3>1, <1>1, <1>2 DEF KeptIntact
  <2>3. r.ws = [k \in 1 .. Len(r.ws) |-> r.ws[k]]
    BY <1>3
  <2>4. ASSUME NEW e \in {Newest} PROVE WritesFor(e)' = r.ws
    <3>1. WritesFor(e)' = [k \in 1 .. Len(r.ws) |-> writes[(r.start + k - 1) % wcap]]
      BY <1>5, <1>8, <1>10, ReadAfterPop
    <3> QED
      BY <2>2, <2>3, <3>1
  <2> QED
    BY <1>5, <2>4
<1> QED
  BY <1>9, <1>10

(* No writes lead nowhere.                                                 *)
LEMMA EmptyLeads ==
    ASSUME NEW m
    PROVE  LeadBothWays(<< >>, m, m)
<1>1. << >> \in Seq(WriteRec) /\ Len(<< >>) = 0
  OBVIOUS
<1>2. ASSUME NEW a PROVE FirstTo(<< >>, a) = 0 /\ LastTo(<< >>, a) = 0
  <2>1. FirstTo(<< >>, a) = 0 \/ FirstTo(<< >>, a) \in 1 .. Len(<< >>)
    BY <1>1, FirstToIs
  <2>2. LastTo(<< >>, a) = 0 \/ LastTo(<< >>, a) \in 1 .. Len(<< >>)
    BY <1>1, LastToIs
  <2> QED
    BY <1>1, <2>1, <2>2
<1> QED
  BY <1>2 DEF LeadBothWays, UndoWrites, RedoWrites

(* Only the bytes the debugger answers for matter.                         *)
LEMMA LeadsAgree ==
    ASSUME NEW ws, NEW before, NEW after, NEW other,
           LeadBothWays(ws, before, after),
           \A a \in Addr \ (IoAddr \cup tainted) : after[a] = other[a]
    PROVE  LeadBothWays(ws, before, other)
  BY DEF LeadBothWays, UndoWrites, RedoWrites

LEMMA StoreLeads ==
    ASSUME Counters, MachineTypeOK, LeadBothWays(curws, flight_ram, ram),
           NEW a \in Addr, NEW v \in Byte, Store(a, v)
    PROVE  LeadBothWays(curws', flight_ram, ram')
<1> DEFINE w == [addr |-> a, old |-> IF a \in IoAddr THEN 0 ELSE ram[a], new |-> v]
           n == Len(curws)
<1>1. w \in WriteRec /\ curws \in Seq(WriteRec) /\ n \in Nat
  <2>1. ram[a] \in Byte
    BY DEF MachineTypeOK
  <2> QED
    BY <2>1, MemoryAssumption DEF Counters, TypeOK
<1>2. curws' = Append(curws, w) /\ ram' = [ram EXCEPT ![a] = v] /\ tainted' = tainted
  BY DEF Store, RecordWrite, ghosts
<1>3. w.addr = a /\ w.new = v /\ (a \notin IoAddr => w.old = ram[a])
  OBVIOUS
<1> HIDE DEF w, n
<1>4. SUFFICES ASSUME NEW b \in Addr \ (IoAddr \cup tainted)
               PROVE  /\ UndoWrites(curws', ram')[b] = flight_ram[b]
                      /\ RedoWrites(curws', flight_ram)[b] = ram'[b]
  BY <1>2 DEF LeadBothWays
<1>5. /\ (IF FirstTo(curws, b) = 0 THEN ram[b] ELSE curws[FirstTo(curws, b)].old) = flight_ram[b]
      /\ (IF LastTo(curws, b) = 0 THEN flight_ram[b] ELSE curws[LastTo(curws, b)].new) = ram[b]
  BY DEF LeadBothWays, UndoWrites, RedoWrites
<1>6. /\ FirstTo(curws, b) # 0 => FirstTo(curws, b) \in 1 .. n
      /\ LastTo(curws, b) # 0 => LastTo(curws, b) \in 1 .. n
  BY <1>1, FirstToIs, LastToIs DEF n
<1>7. /\ \A k \in 1 .. n : curws'[k] = curws[k]
      /\ curws'[n + 1] = w
      /\ b = a => /\ LastTo(curws', b) = n + 1
                  /\ FirstTo(curws', b) = IF FirstTo(curws, b) = 0 THEN n + 1
                                          ELSE FirstTo(curws, b)
      /\ b # a => /\ LastTo(curws', b) = LastTo(curws, b)
                  /\ FirstTo(curws', b) = FirstTo(curws, b)
  BY <1>1, <1>2, <1>3, AppendedWrite DEF n
<1>8. /\ UndoWrites(curws', ram')[b] =
            IF FirstTo(curws', b) = 0 THEN ram'[b] ELSE curws'[FirstTo(curws', b)].old
      /\ RedoWrites(curws', flight_ram)[b] =
            IF LastTo(curws', b) = 0 THEN flight_ram[b] ELSE curws'[LastTo(curws', b)].new
  BY DEF UndoWrites, RedoWrites
<1>9. ram'[b] = IF b = a THEN v ELSE ram[b]
  BY <1>2 DEF MachineTypeOK
<1>10. n + 1 # 0
  BY <1>1
<1>11. CASE b = a
  BY <1>3, <1>5, <1>6, <1>7, <1>8, <1>9, <1>10, <1>11
<1>12. CASE b # a
  BY <1>3, <1>5, <1>6, <1>7, <1>8, <1>9, <1>12
<1> QED
  BY <1>11, <1>12

(* A step that moves neither the log nor the timeline nor what any         *)
(* instruction left behind.                                                *)
LEMMA TimelineStays ==
    ASSUME TimelineInLog, UNCHANGED <<log, timeline>>, tainted \subseteq tainted',
           \A j \in 1 .. Len(timeline) : LeftBehind(j)' = LeftBehind(j),
           (in_flight => LeadBothWays(curws, flight_ram, ram))'
    PROVE  TimelineInLog'
<1>1. ASSUME NEW j \in 1 .. Len(timeline)
      PROVE  LeadBothWays(EntryOf(j).ws, timeline[j].ram, LeftBehind(j))'
  <2>1. LeadBothWays(EntryOf(j).ws, timeline[j].ram, LeftBehind(j))
    BY DEF TimelineInLog
  <2>2. EntryOf(j)' = EntryOf(j) /\ LeftBehind(j)' = LeftBehind(j)
    BY DEF EntryOf
  <2> DEFINE ws == EntryOf(j).ws
             before == timeline[j].ram
             after == LeftBehind(j)
  <2>3. \A a \in Addr \ (IoAddr \cup tainted) :
           UndoWrites(ws, after)[a] = before[a] /\ RedoWrites(ws, before)[a] = after[a]
    BY <2>1 DEF LeadBothWays
  <2> HIDE DEF ws, before, after
  <2>4. \A a \in Addr \ (IoAddr \cup tainted') :
           UndoWrites(ws, after)[a] = before[a] /\ RedoWrites(ws, before)[a] = after[a]
    BY <2>3
  <2>5. ws = EntryOf(j)'.ws /\ before = timeline'[j].ram /\ after = LeftBehind(j)'
    BY <2>2 DEF ws, before, after
  <2> QED
    BY <2>4, <2>5 DEF LeadBothWays, UndoWrites, RedoWrites
<1>2. \A j \in 1 .. Len(timeline) : EntryOf(j)' = EntryOf(j)
  BY DEF EntryOf
<1> QED
  BY <1>1, <1>2 DEF TimelineInLog

(* A sequence without its last element.                                    *)
LEMMA ButLast ==
    ASSUME NEW S, NEW s \in Seq(S), Len(s) >= 1
    PROVE  /\ Len(SubSeq(s, 1, Len(s) - 1)) = Len(s) - 1
           /\ \A j \in 1 .. Len(s) - 1 : SubSeq(s, 1, Len(s) - 1)[j] = s[j]
<1>1. Len(s) - 1 \in Nat
  OBVIOUS
<1> QED
  BY <1>1

LEMMA EmptyTimeline ==
    ASSUME Counters', MachineTypeOK', timeline' = << >>, ~in_flight'
    PROVE  TimelineInLog'
<1>1. Len(timeline') = 0 /\ Len(log') >= 0
  BY DEF Counters, TypeOK
<1> QED
  BY <1>1 DEF TimelineInLog

LEMMA RetireTimeline ==
    ASSUME Counters, MachineTypeOK, TimelineInLog, NEW c \in Header, Retire(c)
    PROVE  TimelineInLog'
<1> DEFINE n == Len(log)
           t == Len(timeline)
           r == [pre |-> cur.pre, start |-> write_head - Len(curws), ws |-> curws]
           s == State(cur.pre, flight_ram)
<1>1. /\ log' = Append(log, r) /\ timeline' = Append(timeline, s)
      /\ tainted' = tainted /\ ram' = ram /\ in_flight /\ ~in_flight'
  BY DEF Retire, Commit
<1>2. /\ n \in Nat /\ t \in Nat /\ t <= n
      /\ Len(log') = n + 1 /\ Len(timeline') = t + 1
      /\ \A j \in 1 .. n : log'[j] = log[j]
      /\ \A j \in 1 .. t : timeline'[j] = timeline[j]
      /\ log'[n + 1] = r /\ timeline'[t + 1] = s
  BY <1>1 DEF Counters, TypeOK, MachineTypeOK, TimelineInLog
<1>3. r.pre = cur.pre /\ r.ws = curws /\ s.cpu = cur.pre /\ s.ram = flight_ram
  BY DEF State
<1> HIDE DEF n, t, r, s
<1>4. \A j \in 1 .. t + 1 : EntryOf(j)' = log'[n - t + j]
  <2>1. \A j \in 1 .. t + 1 : Len(log') - Len(timeline') + j = n - t + j
    BY <1>2
  <2> QED
    BY <2>1 DEF EntryOf
<1>5. ASSUME NEW j \in 1 .. t
      PROVE  /\ EntryOf(j)' = EntryOf(j) /\ LeftBehind(j)' = LeftBehind(j)
             /\ timeline'[j] = timeline[j]
  <2>1. n - t + j \in 1 .. n
    BY <1>2
  <2>2. EntryOf(j)' = EntryOf(j)
    BY <1>2, <1>4, <2>1 DEF EntryOf, n, t
  <2>3. LeftBehind(j)' = timeline'[j + 1].ram
    BY <1>2 DEF LeftBehind
  <2>4. CASE j < t
    <3>1. j + 1 \in 1 .. t
      BY <1>2, <2>4
    <3> QED
      BY <1>2, <2>2, <2>3, <2>4, <3>1 DEF LeftBehind, t
  <2>5. CASE j = t
    <3>1. LeftBehind(j) = flight_ram
      BY <1>1, <1>2, <2>5 DEF LeftBehind, t
    <3> QED
      BY <1>2, <1>3, <2>2, <2>3, <2>5, <3>1
  <2> QED
    BY <1>2, <2>4, <2>5
<1>6. ASSUME NEW j \in 1 .. t + 1, j = t + 1
      PROVE  EntryOf(j)' = r /\ LeftBehind(j)' = ram
  <2>1. n - t + j = n + 1 /\ ~(j < t + 1)
    BY <1>2, <1>6
  <2>2. EntryOf(j)' = r
    BY <1>2, <1>4, <2>1
  <2> QED
    BY <1>1, <1>2, <2>1, <2>2 DEF LeftBehind
<1>7. ASSUME NEW j \in 1 .. t + 1
      PROVE  /\ timeline'[j].cpu = EntryOf(j)'.pre
             /\ LeadBothWays(EntryOf(j)'.ws, timeline'[j].ram, LeftBehind(j)')
  <2>1. CASE j \in 1 .. t
    BY <2>1, <1>5 DEF TimelineInLog, t
  <2>2. CASE j = t + 1
    <3>1. EntryOf(j)' = r /\ LeftBehind(j)' = ram
      BY <2>2, <1>6
    <3>2. timeline'[j] = s
      BY <2>2, <1>2
    <3>3. LeadBothWays(curws, flight_ram, ram)
      BY <1>1 DEF TimelineInLog
    <3> QED
      BY <1>3, <3>1, <3>2, <3>3
  <2> QED
    BY <1>2, <2>1, <2>2
<1>8. ASSUME NEW j \in 1 .. Len(timeline')
      PROVE  /\ timeline'[j].cpu = EntryOf(j)'.pre
             /\ LeadBothWays(EntryOf(j).ws, timeline[j].ram, LeftBehind(j))'
  <2>1. j \in 1 .. t + 1
    BY <1>2
  <2>2. LeadBothWays(EntryOf(j)'.ws, timeline'[j].ram, LeftBehind(j)')
    BY <1>7, <2>1
  <2> DEFINE ws == EntryOf(j)'.ws
             before == timeline'[j].ram
             after == LeftBehind(j)'
  <2>3. \A a \in Addr \ (IoAddr \cup tainted) :
           UndoWrites(ws, after)[a] = before[a] /\ RedoWrites(ws, before)[a] = after[a]
    BY <2>2 DEF LeadBothWays
  <2> HIDE DEF ws, before, after
  <2>4. \A a \in Addr \ (IoAddr \cup tainted') :
           UndoWrites(ws, after)[a] = before[a] /\ RedoWrites(ws, before)[a] = after[a]
    BY <2>3, <1>1
  <2>5. LeadBothWays(EntryOf(j).ws, timeline[j].ram, LeftBehind(j))'
    BY <2>4 DEF LeadBothWays, UndoWrites, RedoWrites, ws, before, after
  <2> QED
    BY <1>7, <2>1, <2>5
<1>9. Len(timeline') <= Len(log')
  BY <1>2
<1> QED
  BY <1>1, <1>8, <1>9 DEF TimelineInLog

(* The instruction undone is the timeline's last: what it wrote leads back *)
(* to the memory before it.                                                *)
LEMMA UndoExact ==
    ASSUME StartMod > MaxWriteHead, Counters, Kept, Unwrapped, MachineTypeOK,
           TimelineInLog, UndoingOwnHistory
    PROVE  /\ cpu' = Last(timeline).cpu
           /\ \A a \in Addr \ (IoAddr \cup tainted) : ram'[a] = Last(timeline).ram[a]
<1> DEFINE n == Len(log)
           t == Len(timeline)
<1>1. UndoOne /\ ~lost' /\ timeline # << >>
  BY DEF UndoingOwnHistory
<1>2. PopNewest /\ ~overrun' /\ FullyKept(n) /\ ~in_flight
  BY <1>1 DEF UndoOne, PopNewest
<1>3. PICK e \in {Newest} : ram' = UndoWrites(WritesFor(e)', ram) /\ cpu' = e.pre
  BY <1>1 DEF UndoOne
<1>4. cpu' = log[n].pre /\ ram' = UndoWrites(log[n].ws, ram)
  BY <1>2, <1>3, PopReadsNewest
<1>5. t \in Nat /\ t \in 1 .. t /\ Last(timeline) = timeline[t] /\ n \in Nat
  BY <1>1 DEF MachineTypeOK, Last, Counters, TypeOK
<1>6. EntryOf(t) = log[n] /\ LeftBehind(t) = ram
  <2>1. n - t + t = n /\ ~(t < t)
    BY <1>5
  <2> QED
    BY <1>2, <2>1 DEF EntryOf, LeftBehind
<1>7. timeline[t].cpu = log[n].pre /\ LeadBothWays(log[n].ws, timeline[t].ram, ram)
  BY <1>5, <1>6 DEF TimelineInLog
<1> QED
  BY <1>4, <1>5, <1>7 DEF LeadBothWays

LEMMA UndoTimeline ==
    ASSUME StartMod > MaxWriteHead, Counters, Kept, Unwrapped, MachineTypeOK,
           Counters', MachineTypeOK', TimelineInLog, UndoOne, ~lost'
    PROVE  TimelineInLog'
<1>1. CASE timeline = << >>
  <2>1. timeline' = << >> /\ ~in_flight'
    BY <1>1 DEF UndoOne, PopNewest
  <2> QED
    BY <2>1, EmptyTimeline
<1>2. CASE timeline # << >>
  <2> DEFINE n == Len(log)
             t == Len(timeline)
  <2>1. /\ log' = SubSeq(log, 1, n - 1) /\ timeline' = SubSeq(timeline, 1, t - 1)
        /\ tainted' = tainted /\ ~in_flight /\ ~in_flight'
    BY <1>2 DEF UndoOne, PopNewest, Front
  <2>2. t \in Nat /\ t >= 1 /\ n \in Nat /\ t <= n
    <3>1. timeline \in Seq([cpu : Header, ram : [Addr -> Byte]]) /\ log \in Seq(Retired)
      BY DEF MachineTypeOK, Counters, TypeOK
    <3>2. t \in Nat /\ n \in Nat /\ t # 0
      BY <1>2, <3>1
    <3> QED
      BY <3>2 DEF TimelineInLog
  <2>3. /\ Len(log') = n - 1 /\ Len(timeline') = t - 1
        /\ \A j \in 1 .. n - 1 : log'[j] = log[j]
        /\ \A j \in 1 .. t - 1 : timeline'[j] = timeline[j]
    <3>1. timeline \in Seq([cpu : Header, ram : [Addr -> Byte]]) /\ log \in Seq(Retired)
      BY DEF MachineTypeOK, Counters, TypeOK
    <3>2. Len(log) >= 1 /\ Len(timeline) >= 1
      BY <2>2
    <3>3. Len(log') = n - 1 /\ \A j \in 1 .. n - 1 : log'[j] = log[j]
      BY <2>1, <3>1, <3>2, ButLast
    <3>4. Len(timeline') = t - 1 /\ \A j \in 1 .. t - 1 : timeline'[j] = timeline[j]
      BY <2>1, <3>1, <3>2, ButLast
    <3> QED
      BY <3>3, <3>4
  <2>4. \A a \in Addr \ (IoAddr \cup tainted) : ram'[a] = timeline[t].ram[a]
    BY <1>2, UndoExact DEF UndoingOwnHistory, Last
  <2> HIDE DEF n, t
  <2>5. ASSUME NEW j \in 1 .. t - 1
        PROVE  /\ EntryOf(j)' = EntryOf(j)
               /\ \A a \in Addr \ (IoAddr \cup tainted) : LeftBehind(j)[a] = LeftBehind(j)'[a]
    <3>1. n - t + j \in 1 .. n - 1 /\ Len(log') - Len(timeline') + j = n - t + j
      BY <2>2, <2>3
    <3>2. EntryOf(j)' = EntryOf(j)
      BY <2>3, <3>1 DEF EntryOf, n, t
    <3>3. LeftBehind(j) = timeline[j + 1].ram
      BY <2>2 DEF LeftBehind, t
    <3>4. CASE j < t - 1
      <4>1. j + 1 \in 1 .. t - 1
        BY <2>2, <3>4
      <4>2. LeftBehind(j)' = timeline'[j + 1].ram
        BY <2>3, <3>4 DEF LeftBehind
      <4> QED
        BY <2>3, <3>2, <3>3, <4>1, <4>2
    <3>5. CASE j = t - 1
      <4>1. LeftBehind(j)' = ram' /\ j + 1 = t
        BY <2>1, <2>2, <2>3, <3>5 DEF LeftBehind
      <4> QED
        BY <2>4, <3>2, <3>3, <4>1
    <3> QED
      BY <2>2, <3>4, <3>5
  <2>6. ASSUME NEW j \in 1 .. Len(timeline')
        PROVE  /\ timeline'[j].cpu = EntryOf(j)'.pre
               /\ LeadBothWays(EntryOf(j).ws, timeline[j].ram, LeftBehind(j))'
    <3>1. j \in 1 .. t - 1 /\ j \in 1 .. Len(timeline)
      BY <2>2, <2>3 DEF t
    <3>2. timeline[j].cpu = EntryOf(j).pre
          /\ LeadBothWays(EntryOf(j).ws, timeline[j].ram, LeftBehind(j))
      BY <3>1 DEF TimelineInLog
    <3>3. LeadBothWays(EntryOf(j)'.ws, timeline'[j].ram, LeftBehind(j)')
      BY <2>3, <2>5, <3>1, <3>2, LeadsAgree
    <3>4. LeadBothWays(EntryOf(j).ws, timeline[j].ram, LeftBehind(j))'
      BY <2>1, <3>3 DEF LeadBothWays, UndoWrites, RedoWrites
    <3> QED
      BY <2>3, <2>5, <3>1, <3>2, <3>4
  <2>7. Len(timeline') <= Len(log')
    BY <2>2, <2>3
  <2> QED
    BY <2>1, <2>6, <2>7 DEF TimelineInLog
<1> QED
  BY <1>1, <1>2

LEMMA NextTimeline ==
    ASSUME StartMod > MaxWriteHead, Counters, Kept, Unwrapped, MachineTypeOK,
           Counters', MachineTypeOK', ~lost => TimelineInLog, [MachineNext]_allvars
    PROVE  ~lost' => TimelineInLog'
<1> SUFFICES ASSUME ~lost' PROVE TimelineInLog'
  OBVIOUS
<1>1. CASE Fetch
  <2>1. /\ ~lost /\ TimelineInLog /\ ~in_flight /\ in_flight' /\ flight_ram' = ram /\ ram' = ram
        /\ UNCHANGED <<log, timeline, tainted, curws>> /\ curws = << >>
    BY <1>1 DEF Fetch, Begin, history, machine, Counters, CountersAgree
  <2>2. \A j \in 1 .. Len(timeline) : LeftBehind(j)' = LeftBehind(j)
    BY <2>1 DEF LeftBehind
  <2>3. LeadBothWays(curws, flight_ram, ram)'
    <3>1. LeadBothWays(<< >>, ram, ram)
      BY EmptyLeads
    <3> QED
      BY <2>1, <3>1 DEF LeadBothWays, UndoWrites, RedoWrites
  <2> QED
    BY <2>1, <2>2, <2>3, TimelineStays
<1>2. CASE \E a \in Addr, v \in Byte : Store(a, v)
  <2>1. PICK a \in Addr, v \in Byte : Store(a, v)
    BY <1>2
  <2>2. /\ ~lost /\ TimelineInLog /\ in_flight /\ in_flight' = in_flight /\ flight_ram' = flight_ram
        /\ UNCHANGED <<log, timeline, tainted>>
    BY <2>1 DEF Store, RecordWrite, ghosts
  <2>3. \A j \in 1 .. Len(timeline) : LeftBehind(j)' = LeftBehind(j)
    BY <2>2 DEF LeftBehind
  <2>4. LeadBothWays(curws, flight_ram, ram)'
    <3>1. LeadBothWays(curws', flight_ram, ram')
      BY <2>1, <2>2, StoreLeads DEF TimelineInLog
    <3> QED
      BY <2>2, <3>1 DEF LeadBothWays, UndoWrites, RedoWrites
  <2> QED
    BY <2>2, <2>3, <2>4, TimelineStays
<1>3. CASE \E a \in Addr, v \in Byte : Dma(a, v)
  <2>1. PICK a \in Addr, v \in Byte : Dma(a, v)
    BY <1>3
  <2>2. /\ ~lost /\ TimelineInLog /\ in_flight /\ tainted' = tainted \cup {a}
        /\ ram' = [ram EXCEPT ![a] = v]
        /\ UNCHANGED <<log, timeline, in_flight, curws, flight_ram>>
    BY <2>1 DEF Dma, vars, ring, history
  <2>3. \A j \in 1 .. Len(timeline) : LeftBehind(j)' = LeftBehind(j)
    BY <2>2 DEF LeftBehind
  <2>4. LeadBothWays(curws, flight_ram, ram)'
    <3>1. LeadBothWays(curws, flight_ram, ram)
      BY <2>2 DEF TimelineInLog
    <3>2. ASSUME NEW b \in Addr \ (IoAddr \cup tainted')
          PROVE  b \in Addr \ (IoAddr \cup tainted) /\ ram'[b] = ram[b]
      BY <2>2 DEF MachineTypeOK
    <3> QED
      BY <2>2, <3>1, <3>2 DEF LeadBothWays, UndoWrites, RedoWrites
  <2> QED
    BY <2>2, <2>3, <2>4, TimelineStays
<1>4. CASE NothingRan
  <2>1. /\ ~lost /\ TimelineInLog /\ in_flight /\ ~in_flight' /\ ram = flight_ram /\ ram' = ram
        /\ UNCHANGED <<log, timeline, tainted>>
    BY <1>4 DEF NothingRan, Abort, history, machine
  <2>2. \A j \in 1 .. Len(timeline) : LeftBehind(j)' = LeftBehind(j)
    BY <2>1 DEF LeftBehind
  <2> QED
    BY <2>1, <2>2, TimelineStays
<1>5. CASE \E c \in Header : Retire(c)
  BY <1>5, RetireTimeline DEF Retire
<1>6. CASE UndoOne
  <2>1. ~lost
    BY <1>6 DEF UndoOne, MachineTypeOK
  <2> QED
    BY <1>6, <2>1, UndoTimeline
<1>7. CASE timeline' = << >> /\ ~in_flight'
  BY <1>7, EmptyTimeline
<1>8. CASE UNCHANGED <<log, timeline, tainted, lost, in_flight, curws, ram, flight_ram>>
  <2>1. \A j \in 1 .. Len(timeline) : LeftBehind(j)' = LeftBehind(j)
    BY <1>8 DEF LeftBehind
  <2>2. (in_flight => LeadBothWays(curws, flight_ram, ram))'
    BY <1>8 DEF TimelineInLog, LeadBothWays, UndoWrites, RedoWrites
  <2> QED
    BY <1>8, <2>1, <2>2, TimelineStays
<1> QED
  BY <1>1, <1>2, <1>3, <1>4, <1>5, <1>6, <1>7, <1>8
  DEF MachineNext, ReverseStep, ColdReset, SetReverseDepth, RestoreCheckpoint, NewTimeline,
      Clear, Resize, allvars, vars, ring, history, machine, ghosts

LEMMA InitMachine ==
    MachineInit => Init /\ MachineTypeOK /\ SlotsFilled /\ TimelineInLog
<1> SUFFICES ASSUME MachineInit PROVE Init /\ MachineTypeOK /\ SlotsFilled /\ TimelineInLog
  OBVIOUS
<1>1. NoRam \in [Addr -> Byte]
  BY MemoryAssumption DEF NoRam
<1>2. /\ Init /\ cpu \in Header /\ ram = NoRam /\ undo_left = 0 /\ flight_ram = NoRam
      /\ timeline = << >> /\ tainted = {} /\ lost = FALSE
  BY DEF MachineInit
<1>3. timeline \in Seq([cpu : Header, ram : [Addr -> Byte]]) /\ Len(timeline) = 0
  BY <1>2
<1>4. MachineTypeOK
  BY <1>1, <1>2, <1>3 DEF MachineTypeOK
<1>5. entry_head = 0 /\ Len(log) = 0 /\ ~in_flight
  BY <1>2 DEF Init
<1> QED
  BY <1>2, <1>3, <1>4, <1>5 DEF SlotsFilled, TimelineInLog

(* What holds of the machine: the ring's invariant and its own.            *)
Whole == Counters /\ Kept /\ Unwrapped /\ MachineInv

LEMMA InitWhole == MachineInit => Whole
<1>1. Init => Kept
  BY EmptyKept DEF Init
<1> QED
  BY <1>1, InitMachine, InitCounters, InitSlots DEF Whole, MachineInv

LEMMA NextWhole ==
    ASSUME StartMod > MaxWriteHead, Whole, [MachineNext]_allvars
    PROVE  Whole'
<1>1. Counters /\ Kept /\ Unwrapped /\ MachineTypeOK /\ SlotsFilled /\ (~lost => TimelineInLog)
  BY DEF Whole, MachineInv
<1>2. [Next]_vars
  BY <1>1, MachineDrivesRing
<1>3. Counters' /\ Kept' /\ Unwrapped' /\ SlotsFilled'
  BY <1>1, <1>2, NextCounters, NextKept, NextUnwrapped, NextSlotsFilled
<1>4. MachineTypeOK'
  BY <1>1, NextMachineTypes
<1>5. ~lost' => TimelineInLog'
  BY <1>1, <1>3, <1>4, NextTimeline
<1> QED
  BY <1>3, <1>4, <1>5 DEF Whole, MachineInv

(* The machine drives the ring as DeltaRing says it may be driven: what    *)
(* holds of every ring holds of the one under the reverse debugger.        *)
THEOREM MachineRingIsARing == MachineSpec => Spec
<1> DEFINE Typed == Counters /\ MachineTypeOK /\ SlotsFilled
<1>1. Typed /\ [MachineNext]_allvars => [Next]_vars
  BY MachineDrivesRing
<1>2. MachineInit => Init /\ Typed
  BY InitMachine, InitCounters
<1>3. Typed /\ [MachineNext]_allvars => Typed'
  BY MachineDrivesRing, NextCounters, NextMachineTypes, NextSlotsFilled
<1> QED
  BY <1>1, <1>2, <1>3, PTL DEF MachineSpec, Spec

(* As long as write_start does not wrap, undoing an instruction of this    *)
(* timeline that the ring holds whole puts back the CPU and every RAM byte *)
(* the CPU alone changed, for slabs, memories and executions of any size.  *)
THEOREM ReverseIsExact ==
    ASSUME StartMod > MaxWriteHead
    PROVE  MachineSpec => ReverseExact
<1>1. ASSUME Whole, [MachineNext]_allvars
      PROVE  [UndoingOwnHistory =>
                 /\ cpu' = Last(timeline).cpu
                 /\ \A a \in Addr \ (IoAddr \cup tainted) :
                       ram'[a] = Last(timeline).ram[a]]_allvars
  <2> SUFFICES ASSUME UndoingOwnHistory
               PROVE  /\ cpu' = Last(timeline).cpu
                      /\ \A a \in Addr \ (IoAddr \cup tainted) :
                            ram'[a] = Last(timeline).ram[a]
    OBVIOUS
  <2>1. ~lost
    BY <1>1 DEF UndoingOwnHistory, UndoOne, Whole, MachineInv, MachineTypeOK
  <2> QED
    BY <1>1, <2>1, UndoExact DEF Whole, MachineInv
<1>2. Whole /\ [MachineNext]_allvars => Whole'
  BY NextWhole
<1> QED
  BY <1>1, <1>2, InitWhole, PTL DEF MachineSpec, ReverseExact

-----------------------------------------------------------------------------
(* Who wrote a byte.                                                       *)

(* A backward walk stops at the first entry whose writes are gone.         *)
LEMMA ReadableDepthIs ==
    ASSUME Counters
    PROVE  /\ ReadableDepth \in 0 .. Retained /\ Retained \in 0 .. Len(log)
           /\ \A back \in 0 .. ReadableDepth - 1 : WritesReadable(EntryAt(back))
           /\ ReadableDepth < Retained => ~WritesReadable(EntryAt(ReadableDepth))
<1> DEFINE Stops == {d \in 0 .. Retained : d < Retained => ~WritesReadable(EntryAt(d))}
           Fits(d) == /\ \A back \in 0 .. d - 1 : WritesReadable(EntryAt(back))
                      /\ d < Retained => ~WritesReadable(EntryAt(d))
<1>1. Retained \in Nat /\ Retained <= Len(log)
  BY DEF Retained, Smaller, Counters, TypeOK, CountersAgree
<1>2. Stops \in SUBSET Nat /\ Retained \in Stops
  BY <1>1
<1>3. PICK d \in Stops : \A s \in Stops : d <= s
  <2> HIDE DEF Stops
  <2>1. Stops # {}
    BY <1>2
  <2> QED
    BY <1>2, <2>1, LeastElement
<1>4. \A back \in 0 .. d - 1 : WritesReadable(EntryAt(back))
  <2> SUFFICES ASSUME NEW back \in 0 .. d - 1, ~WritesReadable(EntryAt(back)) PROVE FALSE
    OBVIOUS
  <2>1. back \in Stops /\ back < d
    BY <1>1
  <2> QED
    BY <1>3, <2>1
<1>5. d \in 0 .. Retained /\ Fits(d)
  BY <1>4
<1>6. ReadableDepth = CHOOSE x \in 0 .. Retained : Fits(x)
  BY DEF ReadableDepth
<1> HIDE DEF Fits
<1>7. ReadableDepth \in 0 .. Retained /\ Fits(ReadableDepth)
  BY <1>5, <1>6
<1> QED
  BY <1>1, <1>7 DEF Fits

(* In a forward execution the walk reads what retired.                     *)
TrueEntry(n) == LET r == log[Len(log) + 1 - n] IN [pre |-> r.pre, ws |-> r.ws]

LEMMA WalkReadsHistory ==
    ASSUME StartMod > MaxWriteHead, Counters, Kept, Unwrapped, CaughtUp,
           NEW n \in 1 .. ReadableDepth
    PROVE  Read(EntryAt(n - 1)) = TrueEntry(n)
<1>1. n - 1 \in 0 .. Retained - 1 /\ WritesReadable(EntryAt(n - 1)) /\ Len(log) \in Nat
  BY ReadableDepthIs DEF Counters, TypeOK
<1>2. RetainedHeadersAreHistory /\ ReadableWritesAreOwn
  BY ForwardWindow DEF ForwardWindowIsHistory
<1> DEFINE b == n - 1
<1>3. b \in 0 .. Retained - 1 /\ Len(log) - b = Len(log) + 1 - n
  BY <1>1
<1> HIDE DEF b
<1>4. EntryAt(b) = Stored(log[Len(log) - b])
  BY <1>2, <1>3 DEF RetainedHeadersAreHistory
<1>5. WritesFor(EntryAt(b)) = log[Len(log) - b].ws
  BY <1>1, <1>2, <1>3, <1>4 DEF ReadableWritesAreOwn, b
<1>6. EntryAt(b).pre = log[Len(log) - b].pre
  BY <1>4 DEF Stored
<1> QED
  BY <1>3, <1>5, <1>6 DEF Read, TrueEntry, b

(* The first of a walk's writers is the nearest entry that wrote a.        *)
LEMMA FirstWriter ==
    ASSUME NEW N \in Nat, NEW walk, DOMAIN walk = 1 .. N, NEW a
    PROVE  LET wrote == {n \in 1 .. N : LastTo(walk[n].ws, a) # 0}
           IN  /\ wrote = {} => Writers(walk, a) = << >>
               /\ FirstOf(Writers(walk, a), 1) # << >> => wrote # {}
               /\ \A n \in wrote :
                     (\A m \in wrote : n <= m) =>
                         FirstOf(Writers(walk, a), 1)[1].w
                             = walk[n].ws[LastTo(walk[n].ws, a)]
<1> DEFINE wrote == {n \in 1 .. N : LastTo(walk[n].ws, a) # 0}
           upto(n) == {m \in wrote : m <= n}
           place(k) == CHOOSE n \in wrote : Cardinality(upto(n)) = k
           hit(k) == [pre |-> walk[place(k)].pre,
                      w |-> walk[place(k)].ws[LastTo(walk[place(k)].ws, a)]]
           c == Cardinality(wrote)
           hits == Writers(walk, a)
<1>1. hits = [k \in 1 .. c |-> hit(k)]
  BY DEF Writers
<1>2. IsFiniteSet(wrote) /\ c \in Nat /\ (c = 0 <=> wrote = {})
  <2>1. IsFiniteSet(1 .. N)
    BY FS_Interval
  <2>2. IsFiniteSet(wrote)
    BY <2>1, FS_Subset
  <2> QED
    BY <2>2, FS_CardinalityType, FS_EmptySet
<1>3. ASSUME NEW n \in wrote, \A m \in wrote : n <= m
      PROVE  place(1) = n
  <2>1. wrote \subseteq Nat
    OBVIOUS
  <2> HIDE DEF wrote
  <2>2. upto(n) = {n}
    <3>1. n <= n
      BY <2>1
    <3>2. \A m \in wrote : m <= n => m = n
      BY <1>3, <2>1
    <3> QED
      BY <3>1, <3>2
  <2>3. Cardinality(upto(n)) = 1
    BY <2>2, FS_Singleton
  <2>4. place(1) \in wrote /\ Cardinality(upto(place(1))) = 1
    BY <2>3
  <2>5. PICK p \in wrote : p = place(1) /\ Cardinality(upto(p)) = 1
    BY <2>4
  <2>6. IsFiniteSet(upto(p))
    BY <1>2, FS_Subset
  <2>7. PICK x : upto(p) = {x}
    BY <2>5, <2>6, FS_Singleton
  <2>8. p \in upto(p) /\ n \in upto(p)
    <3>1. p \in Nat /\ p <= p
      BY <2>1
    <3> QED
      BY <1>3, <3>1
  <2> QED
    BY <2>5, <2>7, <2>8
<1> HIDE DEF wrote, place, hits, c
<1> DEFINE S == {hit(k) : k \in 1 .. c}
<1>4. hits \in Seq(S) /\ Len(hits) = c
  <2>1. hits \in [1 .. c -> S]
    BY <1>1
  <2>2. \A m \in Nat : \A g \in [1 .. m -> S] : g \in Seq(S) /\ Len(g) = m
    OBVIOUS
  <2> QED
    BY <1>2, <2>1, <2>2
<1>5. FirstOf(hits, 1) = SubSeq(hits, 1, IF 1 <= c THEN 1 ELSE c)
  BY <1>4 DEF FirstOf, Smaller
<1>6. ASSUME wrote = {} PROVE hits = << >> /\ FirstOf(hits, 1) = << >>
  <2>1. c = 0
    BY <1>2, <1>6
  <2> QED
    BY <1>4, <1>5, <2>1
<1>7. ASSUME NEW n \in wrote, \A m \in wrote : n <= m
      PROVE  FirstOf(hits, 1)[1].w = walk[n].ws[LastTo(walk[n].ws, a)]
  <2>1. 1 <= c /\ 1 \in 1 .. c
    BY <1>2, <1>7
  <2>2. FirstOf(hits, 1) = SubSeq(hits, 1, 1)
    BY <1>5, <2>1
  <2>3. FirstOf(hits, 1)[1] = hits[1]
    BY <1>4, <2>1, <2>2
  <2>4. hits[1] = hit(1)
    BY <1>1, <2>1
  <2>5. hit(1).w = walk[place(1)].ws[LastTo(walk[place(1)].ws, a)]
    OBVIOUS
  <2>6. place(1) = n
    BY <1>3, <1>7
  <2> QED
    BY <2>3, <2>4, <2>5, <2>6
<1> QED
  BY <1>6, <1>7 DEF wrote, hits

(* The memory the nearest writer left behind at a is the byte there now:   *)
(* no instruction after it wrote a.                                        *)
LEMMA NearestWriterExplains ==
    ASSUME Counters, MachineTypeOK, TimelineInLog, ~in_flight,
           NEW a \in Addr \ (IoAddr \cup tainted),
           NEW p \in 1 .. Len(timeline),
           LastTo(TrueEntry(p).ws, a) # 0,
           \A m \in 1 .. p - 1 : LastTo(TrueEntry(m).ws, a) = 0
    PROVE  ram[a] = TrueEntry(p).ws[LastTo(TrueEntry(p).ws, a)].new
<1> DEFINE t == Len(timeline)
<1>1. t \in Nat /\ Len(log) \in Nat /\ p \in Nat /\ p >= 1 /\ p <= t
  BY DEF MachineTypeOK, Counters, TypeOK
<1> HIDE DEF t
<1>2. ASSUME NEW m \in 1 .. t
      PROVE  /\ t + 1 - m \in 1 .. t
             /\ (IF LastTo(TrueEntry(m).ws, a) = 0 THEN timeline[t + 1 - m].ram[a]
                 ELSE TrueEntry(m).ws[LastTo(TrueEntry(m).ws, a)].new)
                    = LeftBehind(t + 1 - m)[a]
  <2> DEFINE j == t + 1 - m
  <2>1. j \in 1 .. t /\ Len(log) - t + j = Len(log) + 1 - m
    BY <1>1
  <2>2. EntryOf(j).ws = TrueEntry(m).ws
    BY <2>1 DEF EntryOf, TrueEntry, t
  <2>3. LeadBothWays(EntryOf(j).ws, timeline[j].ram, LeftBehind(j))
    BY <2>1 DEF TimelineInLog, t
  <2>4. RedoWrites(TrueEntry(m).ws, timeline[j].ram)[a] = LeftBehind(j)[a]
    BY <2>2, <2>3 DEF LeadBothWays
  <2> HIDE DEF j
  <2>5. (IF LastTo(TrueEntry(m).ws, a) = 0 THEN timeline[j].ram[a]
         ELSE TrueEntry(m).ws[LastTo(TrueEntry(m).ws, a)].new) = LeftBehind(j)[a]
    BY <2>4 DEF RedoWrites
  <2> QED
    BY <2>1, <2>5 DEF j
<1>3. LeftBehind(t) = ram
  BY <1>1 DEF LeftBehind, t
<1>4. \A m \in 1 .. p : LeftBehind(t + 1 - m)[a] = ram[a]
  <2> DEFINE Bad == {m \in 1 .. p : LeftBehind(t + 1 - m)[a] # ram[a]}
  <2>1. SUFFICES ASSUME Bad # {} PROVE FALSE
    OBVIOUS
  <2>2. Bad \in SUBSET Nat
    BY <1>1
  <2>3. PICK m \in Bad : \A k \in Bad : m <= k
    <3> HIDE DEF Bad
    <3> QED
      BY <2>1, <2>2, LeastElement
  <2>4. m \in 1 .. p /\ LeftBehind(t + 1 - m)[a] # ram[a]
    OBVIOUS
  <2>5. m # 1
    <3>1. t + 1 - 1 = t
      BY <1>1
    <3> QED
      BY <1>3, <2>4, <3>1
  <2>6. m - 1 \in 1 .. p - 1 /\ m - 1 \in 1 .. p /\ m - 1 \in 1 .. t /\ m - 1 \notin Bad
    <3>1. m - 1 \in 1 .. p - 1 /\ m - 1 \in 1 .. p /\ m - 1 \in 1 .. t /\ ~(m <= m - 1)
      BY <1>1, <2>4, <2>5
    <3> QED
      BY <2>3, <3>1
  <2>7. LeftBehind(t + 1 - (m - 1))[a] = ram[a]
    BY <2>6
  <2>8. LastTo(TrueEntry(m - 1).ws, a) = 0
    BY <2>6
  <2>9. timeline[t + 1 - (m - 1)].ram[a] = ram[a]
    BY <1>2, <2>6, <2>7, <2>8
  <2>10. LeftBehind(t + 1 - m) = timeline[t + 1 - (m - 1)].ram
    <3>1. t + 1 - m < t /\ t + 1 - m + 1 = t + 1 - (m - 1)
      BY <1>1, <2>4, <2>5
    <3> QED
      BY <3>1 DEF LeftBehind, t
  <2> QED
    BY <2>4, <2>9, <2>10
<1>5. p \in 1 .. t /\ p \in 1 .. p
  BY <1>1
<1> QED
  BY <1>2, <1>4, <1>5

LEMMA FirstHitExplains ==
    ASSUME StartMod > MaxWriteHead, Whole
    PROVE  WhoWroteExplainsRam
<1> SUFFICES ASSUME CaughtUp, ~lost, ~in_flight,
                    NEW a \in Addr \ (IoAddr \cup tainted),
                    WhoWrote(a, 1) # << >>, TrueWriters(a, Len(timeline)) # << >>
             PROVE  ram[a] = WhoWrote(a, 1)[1].w.new
  BY DEF WhoWroteExplainsRam
<1>1. Counters /\ Kept /\ Unwrapped /\ MachineTypeOK /\ TimelineInLog
  BY DEF Whole, MachineInv
<1> DEFINE d == ReadableDepth
           t == Len(timeline)
           walk == [n \in 1 .. d |-> Read(EntryAt(n - 1))]
           past == [n \in 1 .. t |-> TrueEntry(n)]
           Seen == {n \in 1 .. d : LastTo(walk[n].ws, a) # 0}
           Real == {n \in 1 .. t : LastTo(past[n].ws, a) # 0}
<1>2. d \in Nat /\ t \in Nat
  BY <1>1, ReadableDepthIs DEF MachineTypeOK, Retained, Smaller, Counters, TypeOK
<1>3. \A n \in 1 .. d : walk[n] = TrueEntry(n)
  BY <1>1, WalkReadsHistory
<1>4. WhoWrote(a, 1) = FirstOf(Writers(walk, a), 1)
  BY DEF WhoWrote
<1>5. TrueWriters(a, t) = Writers(past, a)
  BY DEF TrueWriters, TrueEntry
<1>6. Seen # {} /\ \A n \in Seen : (\A m \in Seen : n <= m) =>
          FirstOf(Writers(walk, a), 1)[1].w = walk[n].ws[LastTo(walk[n].ws, a)]
  <2>1. DOMAIN walk = 1 .. d
    OBVIOUS
  <2> HIDE DEF walk, d
  <2> QED
    BY <1>2, <1>4, <2>1, FirstWriter
<1>7. Real # {}
  <2>1. DOMAIN past = 1 .. t
    OBVIOUS
  <2> HIDE DEF past
  <2> QED
    BY <1>2, <1>5, <2>1, FirstWriter DEF t
<1>8. PICK p \in Seen : \A m \in Seen : p <= m
  <2>1. Seen \in SUBSET Nat
    BY <1>2
  <2> HIDE DEF Seen
  <2> QED
    BY <1>6, <2>1, LeastElement
<1>9. PICK q \in Real : TRUE
  BY <1>7
<1> HIDE DEF walk, d, t
<1>10. /\ p \in 1 .. d /\ LastTo(TrueEntry(p).ws, a) # 0
       /\ q \in 1 .. t /\ LastTo(TrueEntry(q).ws, a) # 0
  BY <1>3, <1>9
<1>11. p <= q
  <2>1. q < p => q \in Seen
    BY <1>2, <1>3, <1>10
  <2> QED
    BY <1>2, <1>8, <1>10, <2>1
<1>12. p \in 1 .. t
  BY <1>2, <1>10, <1>11
<1>13. ASSUME NEW m \in 1 .. p - 1
       PROVE  LastTo(TrueEntry(m).ws, a) = 0
  <2>1. m \in 1 .. d /\ ~(p <= m)
    BY <1>2, <1>10
  <2> QED
    BY <1>3, <1>8, <2>1
<1>14. ram[a] = TrueEntry(p).ws[LastTo(TrueEntry(p).ws, a)].new
  BY <1>1, <1>10, <1>12, <1>13, NearestWriterExplains DEF t
<1>15. WhoWrote(a, 1)[1].w = TrueEntry(p).ws[LastTo(TrueEntry(p).ws, a)]
  BY <1>3, <1>4, <1>6, <1>8, <1>10
<1> QED
  BY <1>14, <1>15

(* As long as write_start does not wrap, the first write who_wrote names   *)
(* is the one that put the byte into RAM that is there now.                *)
THEOREM WhoWroteIsRight ==
    ASSUME StartMod > MaxWriteHead
    PROVE  MachineSpec => []WhoWroteExplainsRam
<1>1. Whole => WhoWroteExplainsRam
  BY FirstHitExplains
<1>2. Whole /\ [MachineNext]_allvars => Whole'
  BY NextWhole
<1> QED
  BY <1>1, <1>2, InitWhole, PTL DEF MachineSpec

-----------------------------------------------------------------------------
(* How far undoing reaches.                                                *)

(* Depth counts the newest instructions up to the first not held.          *)
DepthSpec(d) == /\ d \in 0 .. Len(log)
                /\ \A b \in 0 .. d - 1 : Held(Len(log) - b)
                /\ d < Len(log) => ~Held(Len(log) - d)

LEMMA DepthIs == Counters /\ ~overrun => \E d : Depth = d /\ DepthSpec(d)
<1> SUFFICES ASSUME Counters, ~overrun PROVE DepthSpec(Depth)
  OBVIOUS
<1> DEFINE N == Len(log)
           Stops == {d \in 0 .. N : d < N => ~Held(N - d)}
           Fits(d) == /\ \A b \in 0 .. d - 1 : Held(N - b)
                      /\ d < N => ~Held(N - d)
<1>1. N \in Nat
  BY DEF Counters, TypeOK
<1>2. Stops \in SUBSET Nat /\ N \in Stops
  BY <1>1
<1>3. PICK d \in Stops : \A s \in Stops : d <= s
  <2> HIDE DEF Stops
  <2>1. Stops # {}
    BY <1>2
  <2> QED
    BY <1>2, <2>1, LeastElement
<1>4. \A b \in 0 .. d - 1 : Held(N - b)
  <2> SUFFICES ASSUME NEW b \in 0 .. d - 1, ~Held(N - b) PROVE FALSE
    OBVIOUS
  <2>1. b \in Stops /\ b < d
    BY <1>1
  <2> QED
    BY <1>3, <2>1
<1>5. d \in 0 .. N /\ Fits(d)
  BY <1>4
<1>6. Depth = CHOOSE x \in 0 .. N : Fits(x)
  BY DEF Depth
<1> HIDE DEF Fits
<1>7. Depth \in 0 .. N /\ Fits(Depth)
  BY <1>5, <1>6
<1> QED
  BY <1>7 DEF Fits, DepthSpec

LEMMA DepthOnly ==
    Counters /\ ~overrun => \A d : DepthSpec(d) => Depth = d
<1> SUFFICES ASSUME Counters, ~overrun, NEW d, DepthSpec(d) PROVE Depth = d
  OBVIOUS
<1>1. DepthSpec(Depth)
  BY DepthIs
<1>2. Len(log) \in Nat /\ Depth \in Int /\ d \in Int
  BY <1>1 DEF DepthSpec, Counters, TypeOK
<1>3. CASE Depth < d
  <2>1. Depth \in 0 .. d - 1 /\ Depth < Len(log)
    BY <1>1, <1>2, <1>3 DEF DepthSpec
  <2> QED
    BY <1>1, <2>1 DEF DepthSpec
<1>4. CASE d < Depth
  <2>1. d \in 0 .. Depth - 1 /\ d < Len(log)
    BY <1>1, <1>2, <1>4 DEF DepthSpec
  <2> QED
    BY <1>1, <2>1 DEF DepthSpec
<1> QED
  BY <1>2, <1>3, <1>4

LEMMA DepthNext ==
    ASSUME Counters', ~overrun'
    PROVE  /\ \E d : Depth' = d /\ DepthSpec(d)'
           /\ \A d : DepthSpec(d)' => Depth' = d
<1>1. (Counters /\ ~overrun => \E d : Depth = d /\ DepthSpec(d))'
  BY DepthIs, PTL
<1>2. (Counters /\ ~overrun => \A d : DepthSpec(d) => Depth = d)'
  BY DepthOnly, PTL
<1> QED
  BY <1>1, <1>2

(* In a forward execution the two walks end at the same entry: one without *)
(* writes ends where the next begins, so it is never the one where reading *)
(* stops.                                                                  *)
LEMMA DepthIsReadable ==
    ASSUME StartMod > MaxWriteHead, Counters, Kept, Unwrapped, CaughtUp, ~in_flight
    PROVE  ReadableDepth = Depth
<1> DEFINE N == Len(log)
           R == ReadableDepth
           D == Depth
<1>1. /\ ~overrun /\ WindowsContiguous /\ N \in Nat /\ N = entry_head /\ N = entry_peak
      /\ write_head = write_peak /\ write_head \in Nat /\ Len(curws) = 0
      /\ ecap \in Nat /\ wcap \in Nat \ {0}
  BY DEF CaughtUp, Kept, Counters, TypeOK, CountersAgree
<1>2. DepthSpec(D)
  BY <1>1, DepthIs
<1>3. /\ R \in 0 .. Retained /\ R \in Int /\ D \in Int /\ D <= N
      /\ \A b \in 0 .. R - 1 : WritesReadable(EntryAt(b))
      /\ R < Retained => ~WritesReadable(EntryAt(R))
  BY <1>1, <1>2, ReadableDepthIs DEF DepthSpec, Retained, Smaller
<1>4. \A b \in 0 .. Retained - 1 : EntryAt(b) = Stored(log[N - b])
  BY <1>1, ForwardWindow DEF ForwardWindowIsHistory, RetainedHeadersAreHistory
<1>5. \A b \in Nat : b < N => (b < Retained <=> EntryKept(N - b))
  BY <1>1 DEF Retained, Smaller, EntryKept
<1>6. ASSUME NEW b \in Nat, b < Retained
      PROVE  /\ N - b \in 1 .. N /\ log[N - b] \in Retired
             /\ log[N - b].start \in Nat /\ Len(log[N - b].ws) \in Nat
             /\ EntryAt(b).write_start = log[N - b].start
             /\ EntryAt(b).write_count = Len(log[N - b].ws)
  <2>1. N - b \in 1 .. N
    BY <1>1, <1>6 DEF Retained, Smaller
  <2>2. log[N - b] \in Retired
    BY <2>1 DEF Counters, TypeOK
  <2>3. b \in 0 .. Retained - 1
    BY <1>1, <1>6 DEF Retained, Smaller
  <2>4. EntryAt(b) = Stored(log[N - b])
    BY <1>4, <2>3
  <2> QED
    BY <1>1, <2>1, <2>2, <2>4, StoredStart DEF Retired
<1>7. CASE R < D
  <2>1. R \in 0 .. D - 1 /\ R \in Nat /\ R < N
    BY <1>3, <1>7
  <2>2. EntryKept(N - R) /\ WriteKept(log[N - R].start)
    BY <1>2, <2>1 DEF DepthSpec, Held
  <2>3. R < Retained
    BY <1>5, <2>1, <2>2
  <2>4. EntryAt(R).write_start + wcap >= write_head
    BY <1>1, <1>6, <2>1, <2>2, <2>3 DEF WriteKept
  <2>5. EntryAt(R).write_start \in Nat
    BY <1>6, <2>1, <2>3
  <2>6. WritesReadable(EntryAt(R))
    BY <1>1, <2>4, <2>5 DEF WritesReadable, Larger
  <2> QED
    BY <1>3, <2>3, <2>6
<1>8. CASE D < R
  <2>1. D \in 0 .. R - 1 /\ D \in Nat /\ D < N /\ D < Retained
    BY <1>1, <1>2, <1>3, <1>8 DEF DepthSpec, Retained, Smaller
  <2> DEFINE j == N - D
  <2>2. ~Held(j) /\ EntryKept(j) /\ WritesReadable(EntryAt(D))
    BY <1>2, <1>3, <1>5, <2>1 DEF DepthSpec
  <2>3. /\ j \in 1 .. N /\ log[j].start \in Nat /\ Len(log[j].ws) \in Nat
        /\ EntryAt(D).write_start = log[j].start
        /\ EntryAt(D).write_count = Len(log[j].ws)
    BY <1>6, <2>1
  <2> HIDE DEF j
  <2>4. log[j].start + wcap < write_head
    BY <1>1, <2>2, <2>3 DEF Held, WriteKept
  <2>5. Len(log[j].ws) = 0
    BY <1>1, <2>2, <2>3, <2>4 DEF WritesReadable, Larger
  <2>6. EndOf(j) = log[j].start
    BY <2>3, <2>5 DEF EndOf
  <2>7. CASE j = N
    <3>1. EndOf(N) = write_head
      BY <1>1, <2>1, <2>3, <2>7 DEF WindowsContiguous
    <3> QED
      BY <1>1, <2>3, <2>4, <2>6, <2>7, <3>1
  <2>8. CASE j # N
    <3>1. D >= 1 /\ D - 1 \in 0 .. D - 1 /\ j + 1 = N - (D - 1) /\ j \in 1 .. N - 1
      BY <1>1, <2>1, <2>3, <2>8 DEF j
    <3>2. WriteKept(log[j + 1].start)
      BY <1>2, <3>1 DEF DepthSpec, Held
    <3>3. log[j + 1].start = log[j].start
      BY <1>1, <2>6, <3>1 DEF WindowsContiguous
    <3> QED
      BY <1>1, <2>3, <2>4, <3>2, <3>3 DEF WriteKept
  <2> QED
    BY <2>7, <2>8
<1> QED
  BY <1>3, <1>7, <1>8

LEMMA QueriesExact ==
    ASSUME StartMod > MaxWriteHead, Counters, Kept, Unwrapped
    PROVE  WhoWroteExact
<1> SUFFICES ASSUME CaughtUp, ~in_flight, NEW a \in Addr, NEW limit \in 1 .. MaxHits
             PROVE  WhoWrote(a, limit) = FirstOf(TrueWriters(a, Depth), limit)
  BY DEF WhoWroteExact
<1>1. ReadableDepth = Depth
  BY DepthIsReadable
<1>2. \A n \in 1 .. Depth : Read(EntryAt(n - 1)) = TrueEntry(n)
  BY <1>1, WalkReadsHistory
<1>3. [n \in 1 .. ReadableDepth |-> Read(EntryAt(n - 1))] = [n \in 1 .. Depth |-> TrueEntry(n)]
  BY <1>1, <1>2
<1> QED
  BY <1>3 DEF WhoWrote, TrueWriters, TrueEntry

(* As long as write_start does not wrap, who_wrote in a forward execution  *)
(* names the true last writers of every address, newest first, and misses  *)
(* none that the slabs still hold.                                         *)
THEOREM WhoWroteIsExact ==
    ASSUME StartMod > MaxWriteHead
    PROVE  Spec => []WhoWroteExact
<1>1. Counters /\ Kept /\ Unwrapped => WhoWroteExact
  BY QueriesExact
<1>2. Init => Kept
  BY EmptyKept DEF Init
<1> QED
  BY <1>1, <1>2, InitCounters, InitSlots, NextCounters, NextKept, NextUnwrapped, PTL DEF Spec

-----------------------------------------------------------------------------
(* A ring written to a file and read back.                                 *)

(* What a walk reads of a retained entry is an instruction.                *)
LEMMA ReadIs ==
    ASSUME Counters, NEW back \in 0 .. Retained - 1
    PROVE  /\ EntryAt(back) \in Entry
           /\ Read(EntryAt(back)).ws \in Seq(WriteRec \cup {NoWrite})
           /\ ~WritesReadable(EntryAt(back)) => Read(EntryAt(back)).ws = << >>
           /\ Read(EntryAt(back)).ws \in {<< >>, WritesFor(EntryAt(back))}
<1>1. /\ ecap \in Nat \ {0} /\ wcap \in Nat \ {0} /\ entry_head \in Nat
      /\ entries \in [0 .. ecap - 1 -> Entry]
      /\ writes \in [0 .. wcap - 1 -> WriteRec \cup {NoWrite}]
  BY DEF Counters, TypeOK
<1>2. PICK i : i = entry_head - 1 - back
  OBVIOUS
<1>3. i \in Nat
  BY <1>1, <1>2 DEF Retained, Smaller
<1>4. i % ecap \in 0 .. ecap - 1
  BY <1>1, <1>3, SlotInSlab
<1>5. PICK e \in Entry : e = EntryAt(back)
  BY <1>1, <1>2, <1>4 DEF EntryAt
<1>6. e.write_start \in Nat /\ e.write_count \in Nat
  BY DEF Entry
<1>7. PICK ws : ws = [k \in 1 .. e.write_count |-> writes[(e.write_start + k - 1) % wcap]]
  OBVIOUS
<1>8. ASSUME NEW k \in 1 .. e.write_count
      PROVE  writes[(e.write_start + k - 1) % wcap] \in WriteRec \cup {NoWrite}
  <2>1. e.write_start + k - 1 \in Nat
    BY <1>6
  <2>2. (e.write_start + k - 1) % wcap \in 0 .. wcap - 1
    BY <1>1, <2>1, SlotInSlab
  <2> QED
    BY <1>1, <2>2
<1>9. ws \in Seq(WriteRec \cup {NoWrite}) /\ << >> \in Seq(WriteRec \cup {NoWrite})
  BY <1>6, <1>7, <1>8
<1>10. WritesFor(e) = IF e.write_count = 0 \/ ~WritesReadable(e) THEN << >> ELSE ws
  BY <1>7 DEF WritesFor
<1>11. Read(e).ws = WritesFor(e)
  BY DEF Read
<1> QED
  BY <1>5, <1>9, <1>10, <1>11

(* The dump has what the walk reads, oldest first.                         *)
LEMMA DumpIs ==
    ASSUME Counters
    PROVE  /\ Retained \in Nat /\ Retained <= ecap /\ Retained <= entry_head /\ Len(Dump) = Retained
           /\ \A k \in 1 .. Retained :
                /\ Dump[k] = Read(EntryAt(Retained - k))
                /\ Dump[k].ws \in Seq(WriteRec \cup {NoWrite})
                /\ Len(Dump[k].ws) \in Nat
<1>1. Retained \in Nat /\ Retained <= ecap /\ Retained <= entry_head
  BY DEF Retained, Smaller, Counters, TypeOK
<1>2. Len(Dump) = Retained /\ \A k \in 1 .. Retained : Dump[k] = Read(EntryAt(Retained - k))
  BY <1>1 DEF Dump
<1>3. ASSUME NEW k \in 1 .. Retained
      PROVE  Dump[k].ws \in Seq(WriteRec \cup {NoWrite}) /\ Len(Dump[k].ws) \in Nat
  <2>1. Retained - k \in 0 .. Retained - 1
    BY <1>1
  <2>2. Dump[k].ws \in Seq(WriteRec \cup {NoWrite})
    BY <1>2, <2>1, ReadIs
  <2> QED
    BY <2>2
<1> QED
  BY <1>1, <1>2, <1>3

(* The function StartIn defines by recursion exists: a least number up to  *)
(* which there is none would be the successor of one up to which there is. *)
LEMMA StartInIs ==
    ASSUME Counters
    PROVE  /\ StartIn[1] = 0
           /\ \A k \in 1 .. Retained : StartIn[k + 1] = StartIn[k] + Len(Dump[k].ws)
           /\ \A k \in 1 .. Retained + 1 : StartIn[k] \in Nat
           /\ LoadedWriteHead = StartIn[Retained + 1]
<1> DEFINE Def(g, m) == [k \in 1 .. m + 1 |-> IF k = 1 THEN 0 ELSE g[k - 1] + Len(Dump[k - 1].ws)]
           S == {m \in Nat : \E g : g = Def(g, m)}
<1>1. Retained \in Nat /\ Len(Dump) = Retained
  BY DumpIs
<1>2. \A m \in 0 .. Retained : m \in S
  <2>1. 0 \in S
    <3>1. PICK g : g = [k \in 1 .. 1 |-> 0]
      OBVIOUS
    <3>2. g = Def(g, 0)
      BY <3>1
    <3> QED
      BY <3>2
  <2>2. ASSUME NEW m \in 0 .. Retained - 1, m \in S
        PROVE  m + 1 \in S
    <3>1. PICK g : g = Def(g, m)
      BY <2>2
    <3>2. PICK h : h = [k \in 1 .. m + 2 |-> IF k = m + 2 THEN g[m + 1] + Len(Dump[m + 1].ws)
                                             ELSE g[k]]
      OBVIOUS
    <3>3. ASSUME NEW k \in 1 .. m + 2
          PROVE  h[k] = IF k = 1 THEN 0 ELSE h[k - 1] + Len(Dump[k - 1].ws)
      <4>1. CASE k = m + 2
        <5>1. k - 1 = m + 1 /\ k # 1 /\ k - 1 \in 1 .. m + 2 /\ k - 1 # m + 2
          BY <2>2, <4>1
        <5>2. h[k] = g[m + 1] + Len(Dump[m + 1].ws) /\ h[k - 1] = g[m + 1]
          BY <3>2, <4>1, <5>1
        <5> QED
          BY <5>1, <5>2
      <4>2. CASE k = 1
        <5>1. 1 \in 1 .. m + 1 /\ 1 # m + 2
          BY <2>2
        <5> QED
          BY <3>1, <3>2, <4>2, <5>1
      <4>3. CASE k # 1 /\ k # m + 2
        <5>1. k \in 1 .. m + 1 /\ k - 1 \in 1 .. m + 2 /\ k - 1 # m + 2
          BY <2>2, <4>3
        <5>2. h[k] = g[k] /\ h[k - 1] = g[k - 1]
          BY <3>2, <4>3, <5>1
        <5>3. g[k] = g[k - 1] + Len(Dump[k - 1].ws)
          BY <3>1, <4>3, <5>1
        <5> QED
          BY <4>3, <5>2, <5>3
      <4> QED
        BY <4>1, <4>2, <4>3
    <3>4. m + 1 \in Nat /\ m + 1 + 1 = m + 2
      BY <2>2
    <3>5. h = Def(h, m + 1)
      BY <3>2, <3>3, <3>4
    <3> QED
      BY <3>4, <3>5
  <2> HIDE DEF S
  <2> QED
    BY <1>1, <2>1, <2>2, Counting
<1> DEFINE A == CHOOSE g : g = Def(g, Retained)
<1>3. A = Def(A, Retained)
  <2>1. \E g : g = Def(g, Retained)
    BY <1>1, <1>2
  <2> QED
    BY <2>1
<1>4. StartIn = A
  BY <1>1 DEF StartIn
<1> HIDE DEF A
<1>5. A[1] = 0
  BY <1>1, <1>3
<1>6. ASSUME NEW k \in 1 .. Retained
      PROVE  A[k + 1] = A[k] + Len(Dump[k].ws)
  <2>1. PICK j : j = k + 1
    OBVIOUS
  <2>2. j \in 1 .. Retained + 1 /\ j # 1 /\ j - 1 = k
    BY <1>1, <2>1
  <2>3. A[j] = A[j - 1] + Len(Dump[j - 1].ws)
    BY <1>3, <2>2
  <2> QED
    BY <2>1, <2>2, <2>3
<1>7. \A k \in 1 .. Retained + 1 : A[k] \in Nat
  <2> DEFINE N == {m \in Nat : A[m + 1] \in Nat}
  <2>1. 0 \in N
    BY <1>5
  <2>2. ASSUME NEW m \in 0 .. Retained - 1, m \in N
        PROVE  m + 1 \in N
    <3>1. m + 1 \in 1 .. Retained /\ Len(Dump[m + 1].ws) \in Nat
      BY <1>1, <2>2, DumpIs
    <3>2. A[m + 1 + 1] = A[m + 1] + Len(Dump[m + 1].ws)
      BY <1>6, <3>1
    <3> QED
      BY <2>2, <3>1, <3>2
  <2> HIDE DEF N
  <2>3. \A m \in 0 .. Retained : m \in N
    BY <1>1, <2>1, <2>2, Counting
  <2>4. ASSUME NEW k \in 1 .. Retained + 1
        PROVE  A[k] \in Nat
    <3>1. k - 1 \in 0 .. Retained /\ k - 1 + 1 = k
      BY <1>1
    <3>2. k - 1 \in N
      BY <2>3, <3>1
    <3> QED
      BY <3>1, <3>2 DEF N
  <2> QED
    BY <2>4
<1>8. LoadedWriteHead = A[Retained + 1]
  BY <1>1, <1>4 DEF LoadedWriteHead
<1> QED
  BY <1>4, <1>5, <1>6, <1>7, <1>8

(* In a forward execution the writes a copy replays are those of the       *)
(* newest windows, end to end, and so fit the slab they were read from.    *)
LEMMA CopyFits ==
    ASSUME StartMod > MaxWriteHead, Counters, Kept, Unwrapped, CaughtUp, ~in_flight
    PROVE  LoadedWriteHead \in Nat /\ LoadedWriteHead <= wcap /\ LoadedWriteHead <= write_head
<1>0. PICK N, R, B : N = Len(log) /\ R = Retained /\ B = Larger(write_head - wcap, 0)
  OBVIOUS
<1> DEFINE Fitting == {m \in Nat : m = 0 \/ StartIn[m + 1] <= Larger(EndOf(N - R + m) - B, 0)}
<1>1. /\ wcap \in Nat \ {0} /\ write_head \in Nat /\ N \in Nat /\ N = entry_head
      /\ WindowsContiguous /\ curws = << >>
  BY <1>0 DEF Counters, TypeOK, CountersAgree, Kept, CaughtUp
<1>2. R \in Nat /\ R <= N
  BY <1>0, <1>1, DumpIs
<1>3. B \in Nat /\ write_head - B <= wcap
  BY <1>0, <1>1 DEF Larger
<1>4. ASSUME NEW j \in 1 .. N
      PROVE  /\ log[j].start \in Nat /\ Len(log[j].ws) \in Nat
             /\ EndOf(j) = log[j].start + Len(log[j].ws)
  <2>1. log[j] \in Retired /\ EndOf(j) = log[j].start + Len(log[j].ws)
    BY <1>0, <1>1, WindowsEnd
  <2> QED
    BY <2>1 DEF Retired
<1>5. ASSUME NEW k \in 1 .. R, NEW j, j = N - R + k
      PROVE  /\ j \in 1 .. N
             /\ \/ Len(Dump[k].ws) = 0
                \/ /\ Len(Dump[k].ws) = Len(log[j].ws)
                   /\ log[j].start >= B
  <2>1. PICK back : back = R - k
    OBVIOUS
  <2>2. back \in 0 .. R - 1 /\ j \in 1 .. N /\ N - back = j
    BY <1>1, <1>2, <1>5, <2>1
  <2>3. PICK e : e = EntryAt(back)
    OBVIOUS
  <2>4. RetainedHeadersAreHistory /\ ReadableWritesAreOwn
    BY ForwardWindow DEF ForwardWindowIsHistory
  <2>5. e = Stored(log[j])
    BY <1>0, <2>2, <2>3, <2>4 DEF RetainedHeadersAreHistory
  <2>6. WritesReadable(e) => WritesFor(e) = log[j].ws
    BY <1>0, <2>2, <2>3, <2>4, <2>5 DEF ReadableWritesAreOwn
  <2>7. e.write_start = log[j].start /\ e.write_count = Len(log[j].ws)
    BY <1>0, <1>1, <2>2, <2>5, StoredStart
  <2>8. Dump[k] = Read(e) /\ Dump[k].ws = WritesFor(e)
    <3>1. Dump[k] = Read(EntryAt(R - k))
      BY <1>0, DumpIs
    <3> QED
      BY <2>1, <2>3, <3>1 DEF Read
  <2>9. CASE e.write_count = 0 \/ ~WritesReadable(e)
    <3>1. Dump[k].ws = << >>
      BY <2>8, <2>9 DEF WritesFor
    <3> QED
      BY <2>1, <2>2, <3>1
  <2>10. CASE e.write_count # 0 /\ WritesReadable(e)
    <3>1. e.write_start >= B
      BY <1>0, <2>10 DEF WritesReadable
    <3> QED
      BY <2>1, <2>2, <2>6, <2>7, <2>8, <2>10, <3>1
  <2> QED
    BY <2>9, <2>10
<1>6. ASSUME NEW m \in 0 .. R - 1, m \in Fitting
      PROVE  m + 1 \in Fitting
  <2>1. PICK k, j : k = m + 1 /\ j = N - R + k
    OBVIOUS
  <2>2. k \in 1 .. R /\ j \in 1 .. N
    BY <1>1, <1>2, <2>1
  <2>3. PICK c : c = Len(Dump[k].ws)
    OBVIOUS
  <2>4. c \in Nat /\ (c = 0 \/ (c = Len(log[j].ws) /\ log[j].start >= B))
    BY <1>0, <1>5, <2>1, <2>2, <2>3, DumpIs
  <2>5. PICK s, t : s = StartIn[k] /\ t = StartIn[k + 1]
    OBVIOUS
  <2>6. s \in Nat /\ t = s + c
    <3>1. k \in 1 .. R + 1
      BY <1>2, <2>2
    <3> QED
      BY <1>0, <2>2, <2>3, <2>5, <3>1, StartInIs
  <2>7. PICK b, len : b = log[j].start /\ len = Len(log[j].ws)
    OBVIOUS
  <2>8. b \in Nat /\ len \in Nat /\ EndOf(j) = b + len
    BY <1>4, <2>2, <2>7
  <2>9. s <= Larger(b - B, 0)
    <3>1. CASE m = 0
      <4>1. s = 0
        <5>1. k = 1
          BY <2>1, <3>1
        <5> QED
          BY <2>5, <5>1, StartInIs
      <4> QED
        BY <1>3, <2>8, <4>1 DEF Larger
    <3>2. CASE m # 0
      <4>1. s <= Larger(EndOf(N - R + m) - B, 0)
        BY <1>6, <2>1, <2>5, <3>2
      <4>2. N - R + m \in 1 .. N - 1 /\ N - R + m + 1 = j
        BY <1>1, <1>2, <2>1, <3>2
      <4>3. EndOf(N - R + m) = b
        <5>1. PICK i : i = N - R + m
          OBVIOUS
        <5>2. EndOf(i) = log[i + 1].start
          BY <1>0, <1>1, <4>2, <5>1 DEF WindowsContiguous
        <5> QED
          BY <2>7, <4>2, <5>1, <5>2
      <4> QED
        BY <4>1, <4>3
    <3> QED
      BY <3>1, <3>2
  <2>10. t <= Larger(b + len - B, 0)
    <3>1. c \in Nat /\ (c = 0 \/ (c = len /\ b >= B))
      BY <2>4, <2>7
    <3>2. s \in Nat /\ t = s + c /\ b \in Nat /\ len \in Nat /\ B \in Nat
      BY <1>3, <2>6, <2>8
    <3> QED
      BY <2>9, <3>1, <3>2 DEF Larger
  <2>11. k \in Nat /\ k = m + 1
    BY <2>1, <2>2
  <2>12. PICK i : i = EndOf(j)
    OBVIOUS
  <2>13. t <= Larger(i - B, 0)
    BY <1>3, <2>8, <2>10, <2>12 DEF Larger
  <2>14. StartIn[k + 1] <= Larger(EndOf(N - R + k) - B, 0)
    BY <1>1, <1>2, <1>3, <2>1, <2>2, <2>5, <2>12, <2>13
  <2>15. k \in Fitting
    BY <2>11, <2>14
  <2> QED
    BY <2>11, <2>15
<1>7. R \in Fitting
  <2>1. 0 \in Fitting
    OBVIOUS
  <2> HIDE DEF Fitting
  <2>2. \A m \in 0 .. R : m \in Fitting
    BY <1>2, <1>6, <2>1, Counting
  <2> QED
    BY <1>2, <2>2
<1>8. PICK t : t = LoadedWriteHead
  OBVIOUS
<1>9. t \in Nat /\ t = StartIn[R + 1] /\ (R = 0 => t = 0)
  <2>1. R + 1 \in 1 .. R + 1 /\ (R = 0 => R + 1 = 1)
    BY <1>2
  <2> QED
    BY <1>0, <1>8, <2>1, StartInIs
<1>10. CASE R = 0
  BY <1>1, <1>8, <1>9, <1>10
<1>11. CASE R # 0
  <2>1. EndOf(N) = write_head
    <3>1. Len(curws) = 0 /\ N > 0
      BY <1>1, <1>2, <1>11
    <3> QED
      BY <1>0, <1>1, <3>1 DEF WindowsContiguous
  <2>2. N - R + R = N
    BY <1>1, <1>2
  <2>3. t <= Larger(write_head - B, 0)
    BY <1>7, <1>9, <1>11, <2>1, <2>2
  <2> QED
    BY <1>1, <1>3, <1>8, <1>9, <2>3 DEF Larger
<1> QED
  BY <1>10, <1>11

(* A place within the slab is its own slot.                                *)
LEMMA OwnSlot ==
    ASSUME NEW w \in Nat \ {0}, NEW i \in 0 .. w - 1
    PROVE  i % w = i
  OBVIOUS

(* Writes replayed later start no earlier.                                 *)
LEMMA StartInGrows ==
    ASSUME Counters, NEW k \in 1 .. Retained + 1
    PROVE  \A j \in 1 .. Retained + 1 : k <= j => StartIn[k] <= StartIn[j]
<1> DEFINE Later == {m \in Nat : k + m \in 1 .. Retained + 1 => StartIn[k] <= StartIn[k + m]}
<1>1. Retained \in Nat /\ k \in Nat
  BY DumpIs
<1>2. 0 \in Later
  <2>1. StartIn[k] \in Nat /\ k + 0 = k
    BY <1>1, StartInIs
  <2> QED
    BY <2>1
<1>3. ASSUME NEW m \in 0 .. Retained - 1, m \in Later
      PROVE  m + 1 \in Later
  <2>1. SUFFICES ASSUME k + (m + 1) \in 1 .. Retained + 1
                 PROVE  StartIn[k] <= StartIn[k + (m + 1)]
    BY <1>3
  <2>2. PICK i : i = k + m
    OBVIOUS
  <2>3. i \in 1 .. Retained /\ i \in 1 .. Retained + 1 /\ k + (m + 1) = i + 1
    BY <1>1, <1>3, <2>1, <2>2
  <2>4. StartIn[k] <= StartIn[i]
    BY <1>3, <2>2, <2>3
  <2>5. StartIn[i + 1] = StartIn[i] + Len(Dump[i].ws)
    BY <2>3, StartInIs
  <2>6. StartIn[i] \in Nat /\ StartIn[k] \in Nat /\ Len(Dump[i].ws) \in Nat
    BY <2>3, StartInIs, DumpIs
  <2> QED
    BY <2>3, <2>4, <2>5, <2>6
<1> HIDE DEF Later
<1>4. \A m \in 0 .. Retained : m \in Later
  BY <1>1, <1>2, <1>3, Counting
<1>5. ASSUME NEW j \in 1 .. Retained + 1, k <= j
      PROVE  StartIn[k] <= StartIn[j]
  <2>1. j - k \in 0 .. Retained /\ k + (j - k) = j
    BY <1>1, <1>5
  <2>2. j - k \in Later
    BY <1>4, <2>1
  <2> QED
    BY <2>1, <2>2 DEF Later
<1> QED
  BY <1>5

(* The writes replayed are those of the dump, end to end.                  *)
LEMMA ReplayedIs ==
    ASSUME Counters, NEW k \in 1 .. Retained, NEW i \in 1 .. Len(Dump[k].ws)
    PROVE  /\ StartIn[k] \in Nat /\ StartIn[k] + i <= LoadedWriteHead
           /\ Replayed(StartIn[k] + i - 1) = Dump[k].ws[i]
<1>1. /\ Retained \in Nat /\ Len(Dump) = Retained
      /\ LoadedWriteHead = StartIn[Retained + 1]
  BY DumpIs, StartInIs
<1>2. PICK s, t, c, j : s = StartIn[k] /\ t = StartIn[k + 1] /\ c = Len(Dump[k].ws) /\ j = i
  OBVIOUS
<1>3. PICK p : p = s + j - 1
  OBVIOUS
<1>4. s \in Nat /\ c \in Nat /\ t = s + c
  <2>1. k \in 1 .. Retained + 1
    BY <1>1
  <2> QED
    BY <1>2, <2>1, StartInIs, DumpIs
<1>5. t <= StartIn[Retained + 1]
  <2>1. k + 1 \in 1 .. Retained + 1 /\ Retained + 1 \in 1 .. Retained + 1 /\ k + 1 <= Retained + 1
    BY <1>1
  <2> QED
    BY <1>2, <2>1, StartInGrows
<1>6. j \in Nat /\ j >= 1 /\ j <= c
  BY <1>2, <1>4
<1>7. /\ s \in Nat /\ t \in Nat /\ p \in Nat
      /\ s <= p /\ p + 1 <= t /\ s + j = p + 1 /\ p - s + 1 = j
  BY <1>3, <1>4, <1>6
<1>8. ASSUME NEW n \in 1 .. Retained, StartIn[n] <= p, p < StartIn[n + 1]
      PROVE  n = k
  <2>0. n \in 1 .. Retained + 1 /\ n + 1 \in 1 .. Retained + 1 /\ k \in 1 .. Retained + 1
        /\ k + 1 \in 1 .. Retained + 1
    BY <1>1
  <2>1. PICK u, v : u = StartIn[n] /\ v = StartIn[n + 1]
    OBVIOUS
  <2>2. u \in Nat /\ v \in Nat
    BY <2>0, <2>1, StartInIs
  <2>3. CASE n + 1 <= k
    <3>1. v <= s
      BY <1>2, <2>0, <2>1, <2>3, StartInGrows
    <3> QED
      BY <1>7, <1>8, <2>1, <2>2, <3>1
  <2>4. CASE k + 1 <= n
    <3>1. t <= u
      BY <1>2, <2>0, <2>1, <2>4, StartInGrows
    <3> QED
      BY <1>7, <1>8, <2>1, <2>2, <3>1
  <2> QED
    BY <1>1, <2>3, <2>4
<1>9. StartIn[k] <= p /\ p < StartIn[k + 1]
  BY <1>2, <1>7
<1>10. (CHOOSE n \in 1 .. Retained : StartIn[n] <= p /\ p < StartIn[n + 1]) = k
  <2> DEFINE In(n) == StartIn[n] <= p /\ p < StartIn[n + 1]
  <2>1. In(k) /\ \A n \in 1 .. Retained : In(n) => n = k
    BY <1>8, <1>9
  <2> HIDE DEF In
  <2>2. (CHOOSE n \in 1 .. Retained : In(n)) = k
    BY <2>1
  <2> QED
    BY <2>2 DEF In
<1>11. Replayed(p) = Dump[k].ws[p - s + 1]
  BY <1>1, <1>2, <1>10 DEF Replayed
<1>12. s + j <= LoadedWriteHead
  <2>1. PICK l : l = LoadedWriteHead
    OBVIOUS
  <2>2. l \in Nat /\ t <= l
    <3>1. Retained + 1 \in 1 .. Retained + 1
      BY <1>1
    <3> QED
      BY <1>1, <1>5, <2>1, <3>1, StartInIs
  <2> QED
    BY <1>7, <2>1, <2>2
<1> QED
  BY <1>2, <1>3, <1>7, <1>11, <1>12

(* A copy that fits the slab has each instruction where the ring looks for *)
(* it, and whole.                                                          *)
LEMMA CopyReads ==
    ASSUME Counters, LoadedWriteHead <= wcap, LoadedWriteHead < StartMod,
           NEW back \in 0 .. Retained - 1
    PROVE  /\ Loaded!WritesReadable(Loaded!EntryAt(back))
           /\ Loaded!Read(Loaded!EntryAt(back)) = Read(EntryAt(back))
<1>1. /\ ecap \in Nat \ {0} /\ wcap \in Nat \ {0} /\ StartMod \in Nat \ {0}
      /\ Retained \in Nat /\ Retained <= ecap /\ Len(Dump) = Retained
  BY DumpIs, StartModAssumption DEF Counters, TypeOK
<1>2. PICK k, D, e, st, c : /\ k = Retained - back /\ D = Dump[k]
                            /\ e = Loaded!EntryAt(back)
                            /\ st = StartIn[k] /\ c = Len(D.ws)
  OBVIOUS
<1>3. k \in 1 .. Retained /\ k \in 1 .. Retained + 1 /\ Retained - k = back
  BY <1>1, <1>2
<1>4. D = Read(EntryAt(back)) /\ D.ws \in Seq(WriteRec \cup {NoWrite}) /\ c \in Nat
  BY <1>2, <1>3, DumpIs
<1>5. st \in Nat /\ st < StartMod
  <2>1. PICK l : l = LoadedWriteHead
    OBVIOUS
  <2>2. Retained + 1 \in 1 .. Retained + 1 /\ k <= Retained + 1
    BY <1>1, <1>3
  <2>3. st \in Nat /\ l \in Nat /\ st <= l
    BY <1>2, <1>3, <2>1, <2>2, StartInIs, StartInGrows
  <2> QED
    BY <1>1, <2>1, <2>3
<1>6. e = [pre |-> D.pre, write_start |-> st, write_count |-> c]
  <2>1. k - 1 \in 0 .. ecap - 1 /\ Retained - 1 - back = k - 1 /\ k - 1 + 1 = k /\ k - 1 < Retained
    BY <1>1, <1>2, <1>3
  <2>2. (k - 1) % ecap = k - 1
    BY <1>1, <2>1, OwnSlot
  <2>3. e = LoadedEntries[k - 1]
    BY <1>1, <1>2, <2>1, <2>2 DEF Loaded!EntryAt
  <2>4. LoadedEntries[k - 1] = [pre |-> D.pre, write_start |-> st % StartMod, write_count |-> c]
    BY <1>1, <1>2, <2>1 DEF LoadedEntries
  <2>5. st % StartMod = st
    <3>1. st \in 0 .. StartMod - 1
      BY <1>1, <1>5
    <3> QED
      BY <1>1, <3>1, OwnSlot
  <2> QED
    BY <2>3, <2>4, <2>5
<1>7. Loaded!WritesReadable(e)
  <2>1. PICK l : l = LoadedWriteHead
    OBVIOUS
  <2>2. l \in Nat
    <3>1. Retained + 1 \in 1 .. Retained + 1
      BY <1>1
    <3> QED
      BY <2>1, <3>1, StartInIs
  <2>3. Loaded!Larger(l - wcap, 0) = 0
    BY <1>1, <2>1, <2>2 DEF Loaded!Larger
  <2>4. e.write_start >= 0
    BY <1>5, <1>6
  <2> QED
    BY <2>1, <2>3, <2>4 DEF Loaded!WritesReadable
<1>8. ASSUME NEW i \in 1 .. c
      PROVE  LoadedWrites[(st + i - 1) % wcap] = D.ws[i]
  <2>1. PICK p, l : p = st + i - 1 /\ l = LoadedWriteHead
    OBVIOUS
  <2>2. st + i <= l /\ Replayed(p) = D.ws[i]
    BY <1>2, <1>3, <2>1, ReplayedIs
  <2>3. i \in Nat /\ i >= 1
    BY <1>4
  <2>4. l \in Nat
    <3>1. Retained + 1 \in 1 .. Retained + 1
      BY <1>1
    <3> QED
      BY <2>1, <3>1, StartInIs
  <2>5. p \in 0 .. wcap - 1 /\ p \in 0 .. l - 1
    BY <1>1, <1>5, <2>1, <2>2, <2>3, <2>4
  <2>6. p % wcap = p
    BY <1>1, <2>5, OwnSlot
  <2>7. {j \in 0 .. l - 1 : j % wcap = p} = {p}
    <3>1. ASSUME NEW j \in 0 .. l - 1, j % wcap = p
          PROVE  j = p
      <4>1. j \in 0 .. wcap - 1
        BY <1>1, <2>1, <2>4, <3>1
      <4> QED
        BY <1>1, <3>1, <4>1, OwnSlot
    <3> QED
      BY <2>5, <2>6, <3>1
  <2>8. Max({p}) = p
    BY <2>5 DEF Max
  <2>9. LoadedWrites[p] = Replayed(p)
    BY <2>1, <2>5, <2>7, <2>8 DEF LoadedWrites
  <2> QED
    BY <2>1, <2>2, <2>6, <2>9
<1>9. Loaded!WritesFor(e) = D.ws
  <2>1. CASE c = 0
    <3>1. D.ws = << >>
      BY <1>2, <1>4, <2>1
    <3>2. e.write_count = 0
      BY <1>6, <2>1
    <3> QED
      BY <3>1, <3>2 DEF Loaded!WritesFor
  <2>2. CASE c # 0
    <3>1. e.write_count = c /\ e.write_start = st
      BY <1>6
    <3>2. Loaded!WritesFor(e) = [i \in 1 .. c |-> LoadedWrites[(st + i - 1) % wcap]]
      BY <1>7, <2>2, <3>1 DEF Loaded!WritesFor
    <3>3. D.ws = [i \in 1 .. c |-> D.ws[i]]
      BY <1>2, <1>4
    <3> QED
      BY <1>8, <3>2, <3>3
  <2> QED
    BY <2>1, <2>2
<1>10. Loaded!Read(e) = [pre |-> D.pre, ws |-> D.ws]
  BY <1>6, <1>9 DEF Loaded!Read
<1>11. D = [pre |-> D.pre, ws |-> D.ws]
  BY <1>4 DEF Read
<1> QED
  BY <1>2, <1>4, <1>7, <1>10, <1>11

(* A copy of the ring has as many entries.                                 *)
LEMMA CopyRetains ==
    ASSUME Counters
    PROVE  Loaded!Retained = Retained
<1>1. Retained \in Nat /\ Retained <= ecap /\ Len(Dump) = Retained /\ ecap \in Nat
  BY DumpIs DEF Counters, TypeOK
<1> QED
  BY <1>1 DEF Loaded!Retained, Loaded!Smaller

(* All of what a copy retains can be read.                                 *)
LEMMA CopyIsReadable ==
    ASSUME Counters, LoadedWriteHead <= wcap, LoadedWriteHead < StartMod
    PROVE  Loaded!ReadableDepth = Retained
<1>1. Retained \in Nat /\ Loaded!Retained = Retained
  BY DumpIs, CopyRetains
<1> DEFINE Until(d) == /\ \A back \in 0 .. d - 1 : Loaded!WritesReadable(Loaded!EntryAt(back))
                       /\ d < Retained => ~Loaded!WritesReadable(Loaded!EntryAt(d))
<1>2. Until(Retained)
  BY <1>1, CopyReads
<1>3. ASSUME NEW d \in 0 .. Retained, Until(d)
      PROVE  d = Retained
  <2>1. SUFFICES ASSUME d # Retained PROVE FALSE
    OBVIOUS
  <2>2. d \in 0 .. Retained - 1 /\ d < Retained
    BY <1>1, <2>1
  <2> QED
    BY <1>3, <2>2, CopyReads
<1>4. Loaded!ReadableDepth = CHOOSE d \in 0 .. Retained : Until(d)
  BY <1>1 DEF Loaded!ReadableDepth
<1>5. Retained \in 0 .. Retained
  BY <1>1
<1> HIDE DEF Until
<1> QED
  BY <1>2, <1>3, <1>4, <1>5

(* In a forward execution, what lies below the readable part of the ring   *)
(* gives a copy no write.                                                  *)
LEMMA BelowIsEmpty ==
    ASSUME StartMod > MaxWriteHead, Counters, Kept, Unwrapped, CaughtUp,
           NEW back \in ReadableDepth .. Retained - 1
    PROVE  Read(EntryAt(back)).ws = << >>
<1>1. PICK N, d, B : N = Len(log) /\ d = ReadableDepth /\ B = Larger(write_head - wcap, 0)
  OBVIOUS
<1>2. /\ d \in 0 .. Retained /\ Retained \in 0 .. N /\ N \in Nat
      /\ d < Retained => ~WritesReadable(EntryAt(d))
  BY <1>1, ReadableDepthIs DEF Counters, TypeOK
<1>3. WindowsContiguous /\ RetainedHeadersAreHistory
  BY ForwardWindow DEF CaughtUp, Kept, ForwardWindowIsHistory
<1>4. back \in 0 .. Retained - 1 /\ d \in 0 .. Retained - 1 /\ d <= back
  BY <1>1, <1>2
<1>5. ASSUME NEW b \in 0 .. Retained - 1
      PROVE  /\ N - b \in 1 .. N
             /\ EntryAt(b).write_start = log[N - b].start
             /\ EntryAt(b).write_count = Len(log[N - b].ws)
             /\ log[N - b].start \in Nat /\ Len(log[N - b].ws) \in Nat
             /\ EndOf(N - b) = log[N - b].start + Len(log[N - b].ws)
  <2>1. PICK j : j = N - b
    OBVIOUS
  <2>2. j \in 1 .. N
    BY <1>2, <2>1
  <2>3. EntryAt(b) = Stored(log[j])
    BY <1>1, <1>3, <2>1 DEF RetainedHeadersAreHistory
  <2>4. log[j] \in Retired /\ EndOf(j) = log[j].start + Len(log[j].ws)
    BY <1>1, <1>3, <2>2, WindowsEnd
  <2>5. log[j].start \in Nat /\ Len(log[j].ws) \in Nat
    BY <2>4 DEF Retired
  <2>6. Stored(log[j]).write_start = log[j].start /\ Stored(log[j]).write_count = Len(log[j].ws)
    BY <1>1, <1>3, <2>2, StoredStart
  <2> QED
    BY <2>1, <2>2, <2>3, <2>4, <2>5, <2>6
<1>6. EntryAt(d).write_start < B
  <2>1. EntryAt(d).write_start \in Nat
    BY <1>4, <1>5
  <2>2. ~(EntryAt(d).write_start >= B) /\ B \in Nat
    BY <1>1, <1>2, <1>4 DEF WritesReadable, Larger, Counters, TypeOK
  <2> QED
    BY <2>1, <2>2
<1>7. WritesFor(EntryAt(back)) = << >>
  <2>1. CASE back = d
    BY <1>1, <1>2, <1>4, <2>1 DEF WritesFor
  <2>2. CASE back # d
    <3>1. PICK i, j : i = N - back /\ j = N - d
      OBVIOUS
    <3>2. i \in 1 .. N /\ j \in 1 .. N /\ i < j
      BY <1>2, <1>4, <2>2, <3>1
    <3>3. EndOf(i) <= log[j].start
      BY <1>1, <1>3, <3>2 DEF WindowsContiguous
    <3>4. PICK s, c, t : s = log[i].start /\ c = Len(log[i].ws) /\ t = log[j].start
      OBVIOUS
    <3>5. /\ s \in Nat /\ c \in Nat /\ t \in Nat /\ s + c <= t /\ t < B
          /\ EntryAt(back).write_start = s /\ EntryAt(back).write_count = c
      BY <1>4, <1>5, <1>6, <3>1, <3>3, <3>4
    <3>6. B \in Nat
      BY <1>1 DEF Larger, Counters, TypeOK
    <3>7. c = 0 \/ ~(s >= B)
      BY <3>5, <3>6
    <3> QED
      BY <1>1, <3>5, <3>7 DEF WritesFor, WritesReadable
  <2> QED
    BY <2>1, <2>2
<1> QED
  BY <1>7 DEF Read

(* Counted from the least, the k-th of a set of numbers is one of them.    *)
LEMMA PlaceIs ==
    ASSUME NEW R \in Nat, NEW W \in SUBSET (1 .. R), NEW k \in 1 .. Cardinality(W)
    PROVE  \E n \in W : Cardinality({m \in W : m <= n}) = k
<1> DEFINE upto(n) == {m \in W : m <= n}
           Named == {n \in Nat : \A i \in 1 .. Cardinality(upto(n)) :
                                    \E j \in W : Cardinality(upto(j)) = i}
<1>1. \A n : IsFiniteSet(upto(n)) /\ Cardinality(upto(n)) \in Nat
  <2>1. IsFiniteSet(1 .. R)
    BY FS_Interval
  <2>2. IsFiniteSet(W)
    BY <2>1, FS_Subset
  <2>3. \A n : upto(n) \in SUBSET W
    OBVIOUS
  <2> QED
    BY <2>2, <2>3, FS_Subset, FS_CardinalityType
<1>2. \A m \in W : m \in Nat /\ m >= 1 /\ m <= R
  OBVIOUS
<1>3. 0 \in Named
  <2>1. upto(0) = {}
    <3>1. \A m \in W : ~(m <= 0)
      BY <1>2
    <3> QED
      BY <3>1
  <2>2. Cardinality(upto(0)) = 0
    BY <2>1, FS_EmptySet
  <2>3. \A i \in 1 .. Cardinality(upto(0)) : \E j \in W : Cardinality(upto(j)) = i
    BY <2>2
  <2> QED
    BY <2>3
<1>4. ASSUME NEW n \in 0 .. R - 1, n \in Named
      PROVE  n + 1 \in Named
  <2>1. PICK p : p = n + 1
    OBVIOUS
  <2>2. CASE p \notin W
    <3>1. upto(p) = upto(n)
      <4>1. \A m \in W : m <= p <=> m <= n
        BY <1>4, <1>2, <2>1, <2>2
      <4> QED
        BY <4>1
    <3> QED
      BY <1>4, <2>1, <3>1
  <2>3. CASE p \in W
    <3>1. upto(p) = upto(n) \cup {p} /\ p \notin upto(n)
      <4>1. \A m \in W : m <= p <=> (m <= n \/ m = p)
        BY <1>4, <1>2, <2>1
      <4>2. ~(p <= n) /\ p <= p
        BY <1>4, <2>1
      <4> QED
        BY <2>3, <4>1, <4>2
    <3>2. PICK c : c = Cardinality(upto(n))
      OBVIOUS
    <3>3. c \in Nat /\ Cardinality(upto(p)) = c + 1
      <4>1. PICK u : u = upto(n)
        OBVIOUS
      <4>2. IsFiniteSet(u) /\ Cardinality(u) \in Nat /\ p \notin u
        BY <1>1, <3>1, <4>1
      <4>3. Cardinality(u \cup {p}) = Cardinality(u) + 1
        BY <4>2, FS_AddElement
      <4>4. upto(p) = u \cup {p}
        BY <3>1, <4>1
      <4> QED
        BY <3>2, <4>1, <4>2, <4>3, <4>4
    <3>4. ASSUME NEW i \in 1 .. c + 1
          PROVE  \E j \in W : Cardinality(upto(j)) = i
      <4>1. CASE i = c + 1
        BY <2>3, <3>3, <4>1
      <4>2. CASE i # c + 1
        <5>1. i \in 1 .. c
          BY <3>3, <4>2
        <5> QED
          BY <1>4, <3>2, <5>1
      <4> QED
        BY <4>1, <4>2
    <3>5. \A i \in 1 .. Cardinality(upto(p)) : \E j \in W : Cardinality(upto(j)) = i
      BY <3>3, <3>4
    <3>6. p \in Nat
      BY <1>4, <2>1
    <3>7. p \in Named
      BY <3>5, <3>6
    <3> QED
      BY <2>1, <3>7
  <2> QED
    BY <2>2, <2>3
<1>5. R \in Named
  <2> HIDE DEF Named
  <2>1. \A n \in 0 .. R : n \in Named
    BY <1>3, <1>4, Counting
  <2> QED
    BY <2>1
<1>6. upto(R) = W
  BY <1>2
<1> HIDE DEF upto
<1>7. \E j \in W : Cardinality(upto(j)) = k
  BY <1>5, <1>6
<1> QED
  BY <1>7 DEF upto

(* Entries without writes below a walk name no writer.                     *)
LEMMA WritersOfPart ==
    ASSUME NEW R \in Nat, NEW d \in 0 .. R, NEW f, NEW a,
           \A n \in d + 1 .. R : f[n].ws = << >>
    PROVE  Writers([n \in 1 .. R |-> f[n]], a) = Writers([n \in 1 .. d |-> f[n]], a)
<1> DEFINE long == [n \in 1 .. R |-> f[n]]
           short == [n \in 1 .. d |-> f[n]]
           W == {n \in 1 .. d : LastTo(f[n].ws, a) # 0}
           place(k) == CHOOSE n \in W : Cardinality({m \in W : m <= n}) = k
<1>1. LastTo(<< >>, a) = 0
  <2>1. PICK ws : ws = << >>
    OBVIOUS
  <2>2. ws \in Seq({}) /\ Len(ws) = 0
    BY <2>1
  <2>3. LastTo(ws, a) = 0 \/ LastTo(ws, a) \in 1 .. Len(ws)
    BY <2>2, LastToIs
  <2> QED
    BY <2>1, <2>2, <2>3
<1>2. {n \in DOMAIN long : LastTo(long[n].ws, a) # 0} = W
  <2>1. ASSUME NEW n \in 1 .. R, LastTo(f[n].ws, a) # 0
        PROVE  n \in 1 .. d
    BY <1>1, <2>1
  <2> QED
    BY <2>1
<1>3. {n \in DOMAIN short : LastTo(short[n].ws, a) # 0} = W
  OBVIOUS
<1>4. ASSUME NEW k \in 1 .. Cardinality(W)
      PROVE  place(k) \in 1 .. d /\ place(k) \in 1 .. R
  <2>1. W \in SUBSET (1 .. R)
    OBVIOUS
  <2> HIDE DEF W
  <2>2. \E n \in W : Cardinality({m \in W : m <= n}) = k
    BY <2>1, PlaceIs
  <2>3. place(k) \in W
    BY <2>2
  <2> QED
    BY <2>3 DEF W
<1> HIDE DEF W
<1>5. \A k \in 1 .. Cardinality(W) : long[place(k)] = f[place(k)] /\ short[place(k)] = f[place(k)]
  <2> HIDE DEF place
  <2> SUFFICES ASSUME NEW k \in 1 .. Cardinality(W)
               PROVE  long[place(k)] = f[place(k)] /\ short[place(k)] = f[place(k)]
    OBVIOUS
  <2>1. PICK n : n = place(k)
    OBVIOUS
  <2>2. n \in 1 .. d /\ n \in 1 .. R
    BY <1>4, <2>1
  <2> QED
    BY <2>1, <2>2
<1>6. Writers(long, a) = [k \in 1 .. Cardinality(W) |->
          [pre |-> long[place(k)].pre, w |-> long[place(k)].ws[LastTo(long[place(k)].ws, a)]]]
  BY <1>2, Zenon DEF Writers
<1>7. Writers(short, a) = [k \in 1 .. Cardinality(W) |->
          [pre |-> short[place(k)].pre, w |-> short[place(k)].ws[LastTo(short[place(k)].ws, a)]]]
  BY <1>3, Zenon DEF Writers
<1> HIDE DEF long, short, place
<1>8. Writers(long, a) = Writers(short, a)
  BY <1>5, <1>6, <1>7
<1> QED
  BY <1>8 DEF long, short

(* The copy and the ring look through a walk alike.                        *)
LEMMA SameWriters ==
    ASSUME NEW walk, NEW a, NEW limit
    PROVE  /\ Loaded!Writers(walk, a) = Writers(walk, a)
           /\ \A hits : Loaded!FirstOf(hits, limit) = FirstOf(hits, limit)
<1>1. \A ws : Loaded!LastTo(ws, a) = LastTo(ws, a)
  BY DEF Loaded!LastTo, LastTo, Loaded!SelectLastInSeq, SelectLastInSeq, Loaded!Max, Max
<1>2. \A S : Loaded!Cardinality(S) = Cardinality(S)
  BY DEF Loaded!Cardinality, Cardinality
<1>3. Loaded!Writers(walk, a) = Writers(walk, a)
  BY <1>1, <1>2 DEF Loaded!Writers, Writers
<1>4. \A hits : Loaded!FirstOf(hits, limit) = FirstOf(hits, limit)
  BY DEF Loaded!FirstOf, FirstOf, Loaded!Smaller, Smaller
<1> QED
  BY <1>3, <1>4

(* A copy of a ring with nothing undone ahead answers as the ring does.    *)
LEMMA CopyAnswers ==
    ASSUME StartMod > MaxWriteHead, Counters, Kept, Unwrapped
    PROVE  ReloadAnswersAlike
<1> SUFFICES ASSUME CaughtUp, ~in_flight
             PROVE  /\ \A a \in Addr, limit \in 1 .. MaxHits :
                          Loaded!WhoWrote(a, limit) = WhoWrote(a, limit)
                    /\ entry_head > 0 =>
                          /\ Loaded!Newest.pre = Newest.pre
                          /\ Loaded!WritesFor(Loaded!Newest) = WritesFor(Newest)
  BY DEF ReloadAnswersAlike
<1>1. LoadedWriteHead <= wcap /\ LoadedWriteHead < StartMod
  <2>1. PICK l : l = LoadedWriteHead
    OBVIOUS
  <2>2. l \in Nat /\ l <= wcap /\ l <= write_head
    BY <2>1, CopyFits
  <2> QED
    BY <2>1, <2>2, BoundAssumption, StartModAssumption DEF Unwrapped, Counters, TypeOK
<1>2. /\ Retained \in Nat /\ ReadableDepth \in 0 .. Retained
      /\ Loaded!ReadableDepth = Retained /\ Loaded!Retained = Retained
  BY <1>1, DumpIs, ReadableDepthIs, CopyIsReadable, CopyRetains
<1>3. ASSUME NEW a \in Addr, NEW limit \in 1 .. MaxHits
      PROVE  Loaded!WhoWrote(a, limit) = WhoWrote(a, limit)
  <2> DEFINE g == [n \in 1 .. Retained |-> Read(EntryAt(n - 1))]
             long == [n \in 1 .. Retained |-> g[n]]
             short == [n \in 1 .. ReadableDepth |-> g[n]]
  <2>1. [n \in 1 .. Loaded!ReadableDepth |-> Loaded!Read(Loaded!EntryAt(n - 1))] = long
    <3>1. ASSUME NEW n \in 1 .. Retained
          PROVE  Loaded!Read(Loaded!EntryAt(n - 1)) = Read(EntryAt(n - 1))
      <4>1. PICK b : b = n - 1
        OBVIOUS
      <4>2. b \in 0 .. Retained - 1
        BY <1>2, <4>1
      <4> QED
        BY <1>1, <4>1, <4>2, CopyReads
    <3> QED
      BY <1>2, <3>1
  <2>2. [n \in 1 .. ReadableDepth |-> Read(EntryAt(n - 1))] = short
    BY <1>2
  <2>3. \A n \in ReadableDepth + 1 .. Retained : g[n].ws = << >>
    <3>1. ASSUME NEW n \in ReadableDepth + 1 .. Retained
          PROVE  Read(EntryAt(n - 1)).ws = << >>
      <4>1. PICK b : b = n - 1
        OBVIOUS
      <4>2. b \in ReadableDepth .. Retained - 1
        BY <1>2, <4>1
      <4> QED
        BY <4>1, <4>2, BelowIsEmpty
    <3> QED
      BY <1>2, <3>1
  <2> HIDE DEF g
  <2>4. Writers(long, a) = Writers(short, a)
    BY <1>2, <2>3, WritersOfPart
  <2>5. Loaded!WhoWrote(a, limit) = Loaded!FirstOf(Loaded!Writers(long, a), limit)
    BY <2>1 DEF Loaded!WhoWrote
  <2>6. WhoWrote(a, limit) = FirstOf(Writers(short, a), limit)
    BY <2>2 DEF WhoWrote
  <2> HIDE DEF long, short
  <2> QED
    BY <2>4, <2>5, <2>6, SameWriters
<1>4. ASSUME entry_head > 0
      PROVE  /\ Loaded!Newest.pre = Newest.pre
             /\ Loaded!WritesFor(Loaded!Newest) = WritesFor(Newest)
  <2>1. 0 \in 0 .. Retained - 1
    BY <1>4 DEF Retained, Smaller, Counters, TypeOK
  <2>2. Loaded!Read(Loaded!Newest) = Read(Newest)
    BY <1>1, <2>1, CopyReads DEF Loaded!Newest, Newest
  <2> QED
    BY <2>2 DEF Loaded!Read, Read
<1> QED
  BY <1>3, <1>4

(* As long as write_start does not wrap, the ring names the true writers   *)
(* of every address, and a copy of it read back from a file names the same *)
(* and would undo the same instruction next.                               *)
THEOREM AnswersAreAlwaysHistory ==
    ASSUME StartMod > MaxWriteHead
    PROVE  Spec => []AnswersAreHistory
<1>1. Counters /\ Kept /\ Unwrapped => AnswersAreHistory
  BY QueriesExact, CopyAnswers DEF AnswersAreHistory
<1>2. Init => Kept
  BY EmptyKept DEF Init
<1> QED
  BY <1>1, <1>2, InitCounters, InitSlots, NextCounters, NextKept, NextUnwrapped, PTL DEF Spec

-----------------------------------------------------------------------------
(* The ring implements the undo stack.  Read through the slabs, the        *)
(* instructions the ring holds are the newest Depth of the log, and every  *)
(* action moves that window as UndoStack says: a store or a commit may     *)
(* drop some of the oldest, and a pop takes exactly the newest off.        *)

Instruction(r) == [pre |-> r.pre, ws |-> r.ws]
Recent(l, d) == [n \in 1 .. d |-> Instruction(l[Len(l) - d + n])]

(* No instruction in flight has stored more than it may.                   *)
BurstBounded == in_flight => cur.write_count <= MaxBurst

LEMMA NextBurst == Counters /\ BurstBounded /\ [Next]_vars => BurstBounded'
<1> SUFFICES ASSUME Counters, BurstBounded, [Next]_vars PROVE BurstBounded'
  OBVIOUS
<1>1. CASE \E h \in Header : Begin(h)
  BY <1>1, BoundAssumption DEF Begin, BurstBounded
<1>2. CASE \E w \in WriteRec : RecordWrite(w)
  <2>1. cur.write_count < MaxBurst /\ cur' = [cur EXCEPT !.write_count = @ + 1] /\ cur \in Entry
    BY <1>2 DEF RecordWrite, Counters, TypeOK
  <2>2. cur'.write_count = cur.write_count + 1 /\ cur.write_count \in Nat
    BY <2>1 DEF Entry
  <2> QED
    BY <2>1, <2>2, BoundAssumption DEF BurstBounded
<1>3. CASE ~in_flight'
  BY <1>3 DEF BurstBounded
<1>4. CASE UNCHANGED <<cur, in_flight>>
  BY <1>4 DEF BurstBounded
<1> QED
  BY <1>1, <1>2, <1>3, <1>4
  DEF Next, Abort, Commit, PopNewest, Clear, Resize, vars, ring, Counters, TypeOK

LEMMA StackIs ==
    StartMod > MaxWriteHead /\ Counters /\ Kept /\ Unwrapped =>
        Stack = IF overrun THEN << >> ELSE Recent(log, Depth)
<1> SUFFICES ASSUME Counters, Kept, Unwrapped, StartMod > MaxWriteHead
             PROVE  Stack = IF overrun THEN << >> ELSE Recent(log, Depth)
  OBVIOUS
<1>1. CASE overrun
  <2>1. Depth = 0
    BY <1>1 DEF Depth
  <2> QED
    BY <1>1, <2>1 DEF Stack
<1>2. CASE ~overrun
  <2>1. WindowsContiguous /\ KeptIntact /\ DepthSpec(Depth)
    BY <1>2, DepthIs DEF Kept
  <2>2. Len(log) \in Nat /\ Len(log) = entry_head /\ Depth \in 0 .. Len(log)
    BY <2>1 DEF DepthSpec, Counters, TypeOK, CountersAgree
  <2>3. ASSUME NEW n \in 1 .. Depth
        PROVE  Decoded(Depth - n) = Instruction(log[Len(log) - Depth + n])
    <3> DEFINE b == Depth - n
               j == Len(log) - b
    <3>1. b \in 0 .. Depth - 1 /\ j \in 1 .. Len(log) /\ j = Len(log) - Depth + n
      BY <2>2
    <3>2. Held(j)
      BY <2>1, <3>1 DEF DepthSpec
    <3>3. log[j] \in Retired
      BY <3>1 DEF Counters, TypeOK
    <3> DEFINE e == EntryAt(b)
    <3>4. e = Stored(log[j])
      <4>1. entry_head - 1 - b = j - 1
        BY <2>2, <3>1
      <4> HIDE DEF b, j
      <4> QED
        BY <1>2, <2>1, <3>1, <3>2, <4>1 DEF KeptIntact, Held, EntryAt
    <3>5. e.pre = log[j].pre /\ e.write_start = log[j].start /\ e.write_count = Len(log[j].ws)
      BY <2>1, <3>1, <3>4, StoredStart
    <3> HIDE DEF b, j, e
    <3>6. log[j].start \in Nat /\ log[j].ws \in Seq(WriteRec) /\ Len(log[j].ws) \in Nat
      BY <3>3 DEF Retired
    <3>7. ASSUME NEW k \in 1 .. Len(log[j].ws)
          PROVE  writes[(log[j].start + k - 1) % wcap] = log[j].ws[k]
      <4>1. WriteKept(log[j].start + k - 1)
        <5>1. TypeOK /\ WriteKept(log[j].start)
          BY <3>2 DEF Held, Counters
        <5>2. k \in Nat /\ k >= 1
          BY <3>6
        <5> QED
          BY <3>6, <5>1, <5>2, LaterIsKept
      <4> QED
        BY <1>2, <2>1, <3>1, <4>1 DEF KeptIntact
    <3>8. log[j].ws = [k \in 1 .. Len(log[j].ws) |-> log[j].ws[k]]
      BY <3>6
    <3>9. [k \in 1 .. e.write_count |-> writes[(e.write_start + k - 1) % wcap]] = log[j].ws
      BY <3>5, <3>7, <3>8
    <3>10. Decoded(b) = [pre |-> e.pre,
                         ws  |-> [k \in 1 .. e.write_count |->
                                     writes[(e.write_start + k - 1) % wcap]]]
      BY DEF Decoded, e
    <3>11. Decoded(b) = Instruction(log[j])
      BY <3>5, <3>9, <3>10 DEF Instruction
    <3> QED
      BY <3>1, <3>11 DEF b, j
  <2> QED
    BY <1>2, <2>3 DEF Stack, Recent
<1> QED
  BY <1>1, <1>2

LEMMA RecentIsSeq ==
    ASSUME NEW l \in Seq(Retired), NEW d \in 0 .. Len(l)
    PROVE  Recent(l, d) \in Seq({Instruction(r) : r \in Retired}) /\ Len(Recent(l, d)) = d
<1> DEFINE I == {Instruction(r) : r \in Retired}
<1>1. Len(l) \in Nat /\ d \in Nat
  OBVIOUS
<1>2. ASSUME NEW n \in 1 .. d PROVE Instruction(l[Len(l) - d + n]) \in I
  <2>1. Len(l) - d + n \in 1 .. Len(l)
    BY <1>1
  <2>2. l[Len(l) - d + n] \in Retired
    BY <2>1
  <2> QED
    BY <2>2
<1>3. Recent(l, d) \in [1 .. d -> I]
  BY <1>2 DEF Recent
<1> HIDE DEF I
<1> QED
  BY <1>1, <1>3 DEF I

(* A shorter window onto the same log is a suffix of a longer one.         *)
LEMMA RecentSuffix ==
    ASSUME NEW l \in Seq(Retired), NEW d \in 0 .. Len(l), NEW c \in 0 .. d
    PROVE  Recent(l, c) \in Undoable!Suffixes(Recent(l, d))
<1> DEFINE s == Recent(l, d)
           I == {Instruction(r) : r \in Retired}
<1>1. Len(l) \in Nat /\ d \in Nat /\ c \in Nat /\ c <= d /\ c \in 0 .. Len(l)
  OBVIOUS
<1>2. /\ s \in Seq(I) /\ Len(s) = d
      /\ Recent(l, c) \in Seq(I) /\ Len(Recent(l, c)) = c
  BY <1>1, RecentIsSeq
<1>3. CASE c = 0
  <2>1. Recent(l, c) = << >>
    BY <1>2, <1>3
  <2> QED
    BY <2>1 DEF Undoable!Suffixes
<1>4. CASE c > 0
  <2> DEFINE a == d - c + 1
  <2>1. a \in 1 .. d /\ d - a + 1 = c
    BY <1>1, <1>4
  <2>2. \A n \in 1 .. c : Recent(l, c)[n] = s[a + n - 1]
    <3>1. ASSUME NEW n \in 1 .. c PROVE Recent(l, c)[n] = s[a + n - 1]
      <4>1. a + n - 1 \in 1 .. d /\ Len(l) - d + (a + n - 1) = Len(l) - c + n
        BY <1>1, <2>1
      <4> QED
        BY <4>1 DEF Recent
    <3> QED
      BY <3>1
  <2> HIDE DEF a, s, I
  <2>3. SubSeq(s, a, d) \in Seq(I) /\ Len(SubSeq(s, a, d)) = c
        /\ \A n \in 1 .. c : SubSeq(s, a, d)[n] = s[a + n - 1]
    BY <1>1, <1>2, <2>1
  <2>4. Recent(l, c) = SubSeq(s, a, d)
    <3>1. \A x, y \in Seq(I) :
            Len(x) = Len(y) /\ (\A n \in 1 .. Len(x) : x[n] = y[n]) => x = y
      OBVIOUS
    <3>2. Recent(l, c) \in Seq(I) /\ Len(Recent(l, c)) = c
      BY <1>2
    <3> QED
      BY <2>2, <2>3, <3>1, <3>2
  <2>5. Recent(l, c) \in {SubSeq(s, k, Len(s)) : k \in 1 .. Len(s)}
    BY <1>2, <2>1, <2>4
  <2> QED
    BY <2>5 DEF Undoable!Suffixes, s
<1> QED
  BY <1>1, <1>3, <1>4

LEMMA RecentAppend ==
    ASSUME NEW l \in Seq(Retired), NEW r \in Retired, NEW d \in 0 .. Len(l)
    PROVE  Recent(Append(l, r), d + 1) = Append(Recent(l, d), Instruction(r))
<1> DEFINE m == Append(l, r)
           s == Recent(l, d)
           I == {Instruction(x) : x \in Retired}
<1>1. /\ Len(l) \in Nat /\ d \in Nat /\ m \in Seq(Retired) /\ Len(m) = Len(l) + 1
      /\ m[Len(l) + 1] = r /\ \A j \in 1 .. Len(l) : m[j] = l[j]
      /\ d + 1 \in 0 .. Len(l) + 1
  OBVIOUS
<1>2. s \in Seq(I) /\ Len(s) = d /\ Instruction(r) \in I
  BY RecentIsSeq
<1>3. Recent(m, d + 1) \in Seq(I) /\ Len(Recent(m, d + 1)) = d + 1
  BY <1>1, RecentIsSeq
<1>4. ASSUME NEW n \in 1 .. d + 1
      PROVE  Recent(m, d + 1)[n] = IF n = d + 1 THEN Instruction(r) ELSE s[n]
  <2>1. Len(m) - (d + 1) + n = Len(l) - d + n
    BY <1>1
  <2>2. Recent(m, d + 1)[n] = Instruction(m[Len(l) - d + n])
    BY <2>1 DEF Recent
  <2>3. CASE n = d + 1
    <3>1. Len(l) - d + n = Len(l) + 1
      BY <1>1, <2>3
    <3> QED
      BY <1>1, <2>2, <2>3, <3>1
  <2>4. CASE n # d + 1
    <3>1. n \in 1 .. d /\ Len(l) - d + n \in 1 .. Len(l)
      BY <1>1, <2>4
    <3> QED
      BY <1>1, <2>2, <2>4, <3>1 DEF Recent
  <2> QED
    BY <2>3, <2>4
<1> HIDE DEF m, s, I
<1>5. /\ Append(s, Instruction(r)) \in Seq(I) /\ Len(Append(s, Instruction(r))) = d + 1
      /\ \A n \in 1 .. d + 1 :
            Append(s, Instruction(r))[n] = IF n = d + 1 THEN Instruction(r) ELSE s[n]
  BY <1>1, <1>2
<1>6. Recent(m, d + 1) = Append(s, Instruction(r))
  BY <1>3, <1>4, <1>5
<1> QED
  BY <1>6 DEF m, s

LEMMA RecentButLast ==
    ASSUME NEW l \in Seq(Retired), NEW d \in 1 .. Len(l)
    PROVE  Recent(SubSeq(l, 1, Len(l) - 1), d - 1) = SubSeq(Recent(l, d), 1, d - 1)
<1> DEFINE m == SubSeq(l, 1, Len(l) - 1)
           s == Recent(l, d)
           I == {Instruction(x) : x \in Retired}
<1>1. /\ Len(l) \in Nat /\ d \in Nat /\ d >= 1 /\ Len(l) >= 1 /\ m \in Seq(Retired)
      /\ d \in 0 .. Len(l)
  OBVIOUS
<1>2. Len(m) = Len(l) - 1 /\ \A j \in 1 .. Len(l) - 1 : m[j] = l[j]
  BY <1>1, ButLast
<1>3. s \in Seq(I) /\ Len(s) = d
  BY <1>1, RecentIsSeq
<1>4. d - 1 \in 0 .. Len(m)
  BY <1>1, <1>2
<1>5. Recent(m, d - 1) \in Seq(I) /\ Len(Recent(m, d - 1)) = d - 1
  BY <1>1, <1>4, RecentIsSeq
<1>6. ASSUME NEW n \in 1 .. d - 1 PROVE Recent(m, d - 1)[n] = s[n]
  <2>1. /\ Len(m) - (d - 1) + n = Len(l) - d + n /\ n \in 1 .. d
        /\ Len(l) - d + n \in 1 .. Len(l) - 1
    BY <1>1, <1>2
  <2> QED
    BY <1>2, <2>1 DEF Recent
<1> HIDE DEF m, s, I
<1>7. /\ SubSeq(s, 1, d - 1) \in Seq(I) /\ Len(SubSeq(s, 1, d - 1)) = d - 1
      /\ \A n \in 1 .. d - 1 : SubSeq(s, 1, d - 1)[n] = s[n]
  BY <1>1, <1>3
<1>8. Recent(m, d - 1) = SubSeq(s, 1, d - 1)
  BY <1>5, <1>6, <1>7
<1> QED
  BY <1>8 DEF m, s

LEMMA StackNext ==
    ASSUME StartMod > MaxWriteHead, Counters', Kept', Unwrapped'
    PROVE  Stack' = IF overrun' THEN << >> ELSE Recent(log', Depth')
<1>1. (StartMod > MaxWriteHead /\ Counters /\ Kept /\ Unwrapped =>
          Stack = IF overrun THEN << >> ELSE Recent(log, Depth))'
  BY StackIs, PTL
<1> QED
  BY <1>1 DEF Recent

(* A step over which the log stays and the held part of it only shrinks.   *)
LEMMA HeldShrinks ==
    ASSUME StartMod > MaxWriteHead, Counters, Kept, Unwrapped, Counters', Kept', Unwrapped',
           log' = log, overrun' = overrun, \A j \in 1 .. Len(log) : Held(j)' => Held(j)
    PROVE  Stack' \in Undoable!Suffixes(Stack)
<1>1. /\ Stack = IF overrun THEN << >> ELSE Recent(log, Depth)
      /\ Stack' = IF overrun' THEN << >> ELSE Recent(log', Depth')
  BY StackIs, StackNext
<1>2. CASE overrun
  BY <1>1, <1>2 DEF Undoable!Suffixes
<1>3. CASE ~overrun
  <2>1. PICK c : Depth' = c /\ DepthSpec(c)'
    BY <1>3, DepthNext
  <2>2. PICK d : Depth = d /\ DepthSpec(d)
    BY <1>3, DepthIs
  <2>3. log \in Seq(Retired) /\ Len(log) \in Nat
    BY DEF Counters, TypeOK
  <2>4. c \in 0 .. Len(log) /\ d \in 0 .. Len(log) /\ (d < Len(log) => ~Held(Len(log) - d))
    BY <2>1, <2>2 DEF DepthSpec
  <2>5. c <= d
    <3>1. SUFFICES ASSUME d < c PROVE FALSE
      BY <2>4
    <3>2. d \in 0 .. c - 1 /\ d < Len(log)
      BY <2>3, <2>4, <3>1
    <3>3. Held(Len(log) - d)'
      BY <2>1, <3>2 DEF DepthSpec, Held, EntryKept, WriteKept
    <3>4. PICK i \in 1 .. Len(log) : i = Len(log) - d
      BY <2>3, <2>4, <3>2
    <3>5. Held(i)'
      BY <3>3, <3>4 DEF Held, EntryKept, WriteKept
    <3>6. Held(Len(log) - d)
      BY <3>4, <3>5
    <3> QED
      BY <2>4, <3>2, <3>6
  <2>6. Recent(log, c) \in Undoable!Suffixes(Recent(log, d))
    BY <2>3, <2>4, <2>5, RecentSuffix
  <2> QED
    BY <1>1, <1>3, <2>1, <2>2, <2>6
<1> QED
  BY <1>2, <1>3

LEMMA CommitStack ==
    ASSUME StartMod > MaxWriteHead, Counters, Kept, Unwrapped, BurstBounded,
           Counters', Kept', Unwrapped', Commit
    PROVE  Undoable!Next
<1> DEFINE N == Len(log)
           r == [pre   |-> cur.pre,
                 start |-> write_head - Len(curws),
                 ws    |-> curws]
           i == Instruction(r)
<1>1. /\ log' = Append(log, r) /\ overrun' = overrun
      /\ write_peak' = write_peak /\ ecap' = ecap /\ wcap' = wcap
      /\ entry_peak' >= entry_peak /\ entry_peak' \in Int /\ entry_peak \in Int /\ ecap \in Int
      /\ in_flight
  BY DEF Commit, Larger, Counters, TypeOK
<1>2. log \in Seq(Retired) /\ r \in Retired /\ N \in Nat
  BY DEF Commit, Counters, TypeOK, CountersAgree, Retired
<1>3. i \in [pre : Header, ws : UNION {[1 .. n -> WriteRec] : n \in 0 .. MaxBurst}]
  <2>1. cur.pre \in Header /\ curws \in Seq(WriteRec) /\ Len(curws) = cur.write_count
    BY <1>1 DEF Counters, TypeOK, CountersAgree
  <2>2. Len(curws) \in 0 .. MaxBurst
    BY <1>1, <2>1, BoundAssumption DEF BurstBounded
  <2>3. curws \in [1 .. Len(curws) -> WriteRec]
    BY <2>1
  <2>4. i = [pre |-> cur.pre, ws |-> curws]
    BY DEF Instruction
  <2> QED
    BY <2>1, <2>2, <2>3, <2>4
<1>4. Stack = IF overrun THEN << >> ELSE Recent(log, Depth)
  BY StackIs
<1>5. Stack' = IF overrun THEN << >> ELSE Recent(log', Depth')
  BY <1>1, StackNext
<1>6. CASE overrun
  BY <1>5, <1>6 DEF Undoable!Next, Undoable!Forget, Undoable!Suffixes
<1>7. CASE ~overrun
  <2>1. PICK c : Depth' = c /\ DepthSpec(c)'
    BY <1>1, <1>7, DepthNext
  <2>2. PICK d : Depth = d /\ DepthSpec(d)
    BY <1>7, DepthIs
  <2> HIDE DEF r, i
  <2>3. /\ Append(log, r) \in Seq(Retired) /\ Len(Append(log, r)) = N + 1
        /\ \A j \in 1 .. N : Append(log, r)[j] = log[j]
    BY <1>2
  <2>4. c \in 0 .. N + 1 /\ d \in 0 .. N /\ (d < N => ~Held(N - d))
    BY <1>1, <2>1, <2>2, <2>3 DEF DepthSpec
  <2>5. c <= d + 1
    <3>1. SUFFICES ASSUME d + 1 < c PROVE FALSE
      BY <1>2, <2>4
    <3>2. d + 1 \in 0 .. c - 1 /\ d < N
      BY <1>2, <2>4, <3>1
    <3>3. PICK k \in 1 .. N : k = N - d /\ k = N + 1 - (d + 1)
      BY <1>2, <2>4, <3>2
    <3>4. Len(log') - (d + 1) = k
      BY <1>1, <1>2, <2>3, <2>4, <3>3
    <3>5. Held(k)'
      BY <2>1, <3>2, <3>4 DEF DepthSpec, Held, EntryKept, WriteKept
    <3>6. k + ecap > entry_peak' /\ log'[k].start + wcap >= write_peak
      BY <1>1, <3>5 DEF Held, EntryKept, WriteKept
    <3>7. Held(k)
      BY <1>1, <2>3, <3>3, <3>6 DEF Held, EntryKept, WriteKept
    <3> QED
      BY <2>4, <3>2, <3>3, <3>7
  <2>6. c \in 0 .. d + 1 /\ d + 1 \in 0 .. N + 1
    BY <1>2, <2>4, <2>5
  <2>7. Recent(Append(log, r), c) \in Undoable!Suffixes(Recent(Append(log, r), d + 1))
    BY <2>3, <2>6, RecentSuffix
  <2>8. Recent(Append(log, r), d + 1) = Append(Recent(log, d), i)
    BY <1>2, <2>4, RecentAppend DEF i
  <2>9. Stack' \in Undoable!Suffixes(Append(Stack, i))
    BY <1>1, <1>4, <1>5, <1>7, <2>1, <2>2, <2>7, <2>8
  <2> QED
    BY <1>3, <2>9 DEF Undoable!Next, Undoable!Push
<1> QED
  BY <1>6, <1>7

LEMMA RetiredStart ==
    ASSUME Counters, NEW j \in 1 .. Len(log)
    PROVE  log[j].start \in Nat /\ Len(log[j].ws) \in Nat
<1>1. log[j] \in Retired
  BY DEF Counters, TypeOK
<1> QED
  BY <1>1 DEF Retired

(* A pop takes the newest off, or finds nothing held: then nothing older   *)
(* is held either, its writes lying further back still.                    *)
LEMMA PopStack ==
    ASSUME StartMod > MaxWriteHead, Counters, Kept, Unwrapped,
           Counters', Kept', Unwrapped', PopNewest
    PROVE  [Undoable!Next]_Stack
<1> DEFINE N == Len(log)
<1>1. /\ log' = SubSeq(log, 1, N - 1) /\ overrun' = (overrun \/ entry_head + ecap <= entry_peak)
      /\ UNCHANGED <<write_peak, entry_peak, ecap, wcap>>
      /\ log \in Seq(Retired) /\ N \in Nat /\ N >= 1 /\ N = entry_head
      /\ ecap \in Int /\ wcap \in Int /\ entry_peak \in Int /\ write_peak \in Int
  BY DEF PopNewest, Counters, TypeOK, CountersAgree
<1>2. Stack = IF overrun THEN << >> ELSE Recent(log, Depth)
  BY StackIs
<1>3. Stack' = IF overrun' THEN << >> ELSE Recent(log', Depth')
  BY StackNext
<1>4. CASE overrun'
  BY <1>3, <1>4 DEF Undoable!Next, Undoable!Forget, Undoable!Suffixes
<1>5. CASE ~overrun'
  <2>1. ~overrun /\ EntryKept(N) /\ WindowsContiguous
    <3>1. ~overrun /\ ~(N + ecap <= entry_peak)
      BY <1>1, <1>5
    <3> QED
      BY <1>1, <3>1 DEF EntryKept, Kept
  <2>2. PICK d : Depth = d /\ DepthSpec(d)
    BY <2>1, DepthIs
  <2>3. /\ d \in 0 .. N /\ (d < N => ~Held(N - d))
        /\ \A b \in 0 .. d - 1 : Held(N - b)
    BY <2>2 DEF DepthSpec
  <2>4. Len(log') = N - 1 /\ \A j \in 1 .. N - 1 : log'[j] = log[j]
    BY <1>1, ButLast
  <2>5. ASSUME NEW b \in 0 .. N - 2
        PROVE  /\ Held(Len(log) - b)' <=> Held(N - 1 - b)
               /\ Held(Len(log) - (b + 1)) <=> Held(N - 1 - b)
    <3>1. N - 1 - b \in 1 .. N - 1 /\ Len(log') - b = N - 1 - b /\ N - (b + 1) = N - 1 - b
      BY <1>1, <2>4
    <3> QED
      BY <1>1, <2>4, <3>1 DEF Held, EntryKept, WriteKept
  <2>6. ASSUME NEW c \in 0 .. N - 1,
               \A b \in 0 .. c - 1 : Held(N - 1 - b), c < N - 1 => ~Held(N - 1 - c)
        PROVE  Depth' = c
    <3>1. \A b \in 0 .. c - 1 : b \in 0 .. N - 2
      BY <1>1
    <3>2. \A b \in 0 .. c - 1 : Held(Len(log) - b)'
      BY <2>5, <2>6, <3>1
    <3>3. c < Len(log') => ~Held(Len(log) - c)'
      <4>1. c < Len(log') => c \in 0 .. N - 2
        BY <1>1, <2>4
      <4> QED
        BY <2>4, <2>5, <2>6, <4>1
    <3>4. c \in 0 .. Len(log')
      BY <2>4
    <3>5. DepthSpec(c)'
      BY <3>2, <3>3, <3>4 DEF DepthSpec
    <3> QED
      BY <1>5, <3>5, DepthNext
  <2>7. CASE d = 0
    <3>1. ~Held(N)
      <4>1. 0 < N /\ N - 0 = N
        BY <1>1
      <4> QED
        BY <2>3, <2>7, <4>1
    <3>2. log[N].start + wcap < write_peak
      BY <1>1, <2>1, <3>1, RetiredStart DEF Held, WriteKept
    <3>3. N > 1 => ~Held(N - 1 - 0)
      <4> SUFFICES ASSUME N > 1 PROVE ~Held(N - 1)
        BY <1>1
      <4>1. log[N - 1].start <= log[N].start /\ log[N - 1].start \in Int /\ log[N].start \in Int
        <5>1. N - 1 \in 1 .. N - 1 /\ N - 1 \in 1 .. N /\ N \in 1 .. N /\ N - 1 + 1 = N
          BY <1>1
        <5>2. log[N - 1].start \in Nat /\ Len(log[N - 1].ws) \in Nat /\ log[N].start \in Nat
          BY <5>1, RetiredStart
        <5>3. log[N - 1].start + Len(log[N - 1].ws) = log[N].start
          BY <2>1, <5>1 DEF WindowsContiguous, EndOf
        <5> QED
          BY <5>2, <5>3
      <4> QED
        BY <1>1, <3>2, <4>1 DEF Held, WriteKept
    <3>4. Depth' = 0
      <4>1. 0 \in 0 .. N - 1 /\ (0 < N - 1 => N > 1)
        BY <1>1
      <4> QED
        BY <2>6, <3>3, <4>1
    <3>5. Stack = << >> /\ Stack' = << >>
      BY <1>2, <1>3, <1>5, <2>1, <2>2, <2>7, <3>4 DEF Recent
    <3> QED
      BY <3>5
  <2>8. CASE d # 0
    <3>1. d - 1 \in 0 .. N - 1 /\ d \in 1 .. N
      BY <1>1, <2>3, <2>8
    <3>2. ASSUME NEW b \in 0 .. (d - 1) - 1 PROVE Held(N - 1 - b)
      <4>1. b \in 0 .. N - 2 /\ b + 1 \in 0 .. d - 1
        BY <1>1, <3>1
      <4> QED
        BY <2>3, <2>5, <4>1
    <3>3. ASSUME d - 1 < N - 1 PROVE ~Held(N - 1 - (d - 1))
      <4>1. d < N /\ N - 1 - (d - 1) = N - d
        BY <1>1, <3>1, <3>3
      <4> QED
        BY <2>3, <4>1
    <3>4. Depth' = d - 1
      BY <2>6, <3>1, <3>2, <3>3
    <3>5. Recent(log', d - 1) = SubSeq(Recent(log, d), 1, d - 1)
      BY <1>1, <3>1, RecentButLast
    <3>6. Len(Recent(log, d)) = d /\ Recent(log, d) \in Seq({Instruction(r) : r \in Retired})
      BY <1>1, <2>3, RecentIsSeq
    <3>7. Stack = Recent(log, d) /\ Stack' = SubSeq(Recent(log, d), 1, d - 1)
      BY <1>2, <1>3, <1>5, <2>1, <2>2, <3>4, <3>5
    <3>8. Stack # << >> /\ Stack' = SubSeq(Stack, 1, Len(Stack) - 1)
      BY <2>8, <3>6, <3>7
    <3> QED
      BY <3>8 DEF Undoable!Next, Undoable!Undo
  <2> QED
    BY <2>7, <2>8
<1> QED
  BY <1>4, <1>5

LEMMA EmptiedStack ==
    ASSUME StartMod > MaxWriteHead, Counters', Kept', Unwrapped', log' = << >>
    PROVE  Stack' = << >>
<1>1. Stack' = IF overrun' THEN << >> ELSE Recent(log', Depth')
  BY StackNext
<1>2. CASE overrun'
  BY <1>1, <1>2
<1>3. CASE ~overrun'
  <2>1. PICK c : Depth' = c /\ DepthSpec(c)'
    BY <1>3, DepthNext
  <2>2. c \in 0 .. 0
    BY <2>1 DEF DepthSpec
  <2> QED
    BY <1>1, <1>3, <2>1, <2>2 DEF Recent
<1> QED
  BY <1>2, <1>3

LEMMA NextStack ==
    ASSUME StartMod > MaxWriteHead, Counters, Kept, Unwrapped, BurstBounded,
           Counters', Kept', Unwrapped', [Next]_vars
    PROVE  [Undoable!Next]_Stack
<1>1. ASSUME Stack' \in Undoable!Suffixes(Stack) PROVE [Undoable!Next]_Stack
  BY <1>1 DEF Undoable!Next, Undoable!Forget
<1>2. CASE UNCHANGED <<log, overrun, entry_peak, ecap, wcap>> /\ write_peak' >= write_peak
  <2>1. wcap \in Int /\ write_peak \in Int /\ write_peak' \in Int
    BY DEF Counters, TypeOK
  <2>2. ASSUME NEW j \in 1 .. Len(log), Held(j)' PROVE Held(j)
    <3>1. log[j].start \in Nat
      BY RetiredStart
    <3> QED
      BY <1>2, <2>1, <2>2, <3>1 DEF Held, EntryKept, WriteKept
  <2> QED
    BY <1>1, <1>2, <2>2, HeldShrinks
<1>3. CASE Commit
  BY <1>3, CommitStack
<1>4. CASE PopNewest
  BY <1>4, PopStack
<1>5. CASE log' = << >>
  <2>1. Stack' \in Undoable!Suffixes(Stack)
    BY <1>5, EmptiedStack DEF Undoable!Suffixes
  <2> QED
    BY <1>1, <2>1
<1>6. write_peak \in Int /\ write_head \in Int
  BY DEF Counters, TypeOK
<1>7. (\E w \in WriteRec : RecordWrite(w)) => write_peak' >= write_peak
  BY <1>6 DEF RecordWrite, Larger
<1>8. write_peak' = write_peak => write_peak' >= write_peak
  BY <1>6
<1> QED
  BY <1>2, <1>3, <1>4, <1>5, <1>7, <1>8
  DEF Next, Begin, RecordWrite, Abort, Clear, Resize, ForgetHistory, vars, ring, history

(* As long as write_start does not wrap, the two slabs implement a stack   *)
(* of whole instructions that undoing pops from the new end and capacity   *)
(* shortens from the old one, for slabs and executions of any size.        *)
THEOREM RingIsUndoStack ==
    ASSUME StartMod > MaxWriteHead
    PROVE  Spec => ImplementsUndoStack
<1> DEFINE Inv == Counters /\ Kept /\ Unwrapped /\ BurstBounded
<1>1. Init => Inv /\ Undoable!Init
  <2> SUFFICES ASSUME Init PROVE Inv /\ Undoable!Init
    OBVIOUS
  <2>1. Counters /\ Kept /\ Unwrapped /\ BurstBounded
    BY InitCounters, InitSlots, EmptyKept DEF Init, BurstBounded
  <2>2. Len(log) = 0 /\ ~overrun
    BY DEF Init
  <2>3. PICK d : Depth = d /\ DepthSpec(d)
    BY <2>1, <2>2, DepthIs
  <2>4. d \in 0 .. 0
    BY <2>2, <2>3 DEF DepthSpec
  <2>5. Stack = << >>
    BY <2>1, <2>2, <2>3, <2>4, StackIs DEF Recent
  <2> QED
    BY <2>1, <2>5 DEF Undoable!Init
<1>2. Inv /\ [Next]_vars => Inv'
  BY NextCounters, NextKept, NextUnwrapped, NextBurst
<1>3. Inv /\ Inv' /\ [Next]_vars => [Undoable!Next]_Stack
  BY NextStack
<1> HIDE DEF Inv
<1> QED
  BY <1>1, <1>2, <1>3, PTL DEF Spec, ImplementsUndoStack, Undoable!Spec

-----------------------------------------------------------------------------
(* The addresses the detector looks at, those run from a position of the   *)
(* trace on, and the positions where one of them ran.                      *)
RecentPcs == {recent[i].pc : i \in 1 .. Len(recent)}
PcsFrom(m) == {trace[i] : i \in m .. Len(trace)}
VisitsAt(pc, m) == {i \in m .. Len(trace) : trace[i] = pc}

(* What the detector looks at is the end of the trace, Window + 1          *)
(* instructions of it when there are that many.                            *)
RecentIsEnd ==
    /\ trace \in Seq(Pc)
    /\ recent \in Seq(Detector!Instr)
    /\ Len(recent) = IF Len(trace) > Window THEN Window + 1 ELSE Len(trace)
    /\ \A i \in 1 .. Len(recent) :
          recent[i] = [pc |-> trace[Len(trace) - Len(recent) + i],
                       at |-> Len(trace) - Len(recent) + i]

(* From m on nothing ran outside a few addresses, and the candidate's      *)
(* anchor more often than the detector counts.                             *)
Circling(m, A) ==
    /\ IsFiniteSet(A) /\ Cardinality(A) <= Window + 1
    /\ m \in 1 .. Len(trace)
    /\ PcsFrom(m) \subseteq A /\ RecentPcs \subseteq A
    /\ Cardinality(VisitsAt(cand_dst, m)) > loop_iters

Circles == \E m, A : Circling(m, A)

CandidateCircles ==
    /\ loop_iters \in Nat
    /\ loop_onset = None /\ cand_dst # None => Circles

DetectorInv == RecentIsEnd /\ CandidateCircles

(* Enough rounds are counted for a pin, and the trace shows them.          *)
Counted == loop_iters \in Nat /\ Detector!EnoughRounds(loop_iters)
Evident == Detector!Circled(cand_dst)

PinsEvident == (loop_onset = None /\ (loop_onset # None)')
                   => (loop_onset.dst \in SelfBranch \/ Detector!Circled(loop_onset.dst))'

(* The detector looks at no more than there is.                            *)
LEMMA RecentLength ==
    ASSUME RecentIsEnd
    PROVE  /\ Len(recent) \in Nat /\ Len(trace) \in Nat /\ Window \in Nat
           /\ Len(recent) <= Window + 1 /\ Len(recent) <= Len(trace)
           /\ DOMAIN recent = 1 .. Len(recent)
<1>1. Window \in Nat
  BY DetectorAssumption DEF Detector!LoopAssumption
<1>2. recent \in Seq(Detector!Instr) /\ trace \in Seq(Pc)
  BY DEF RecentIsEnd
<1>3. Len(recent) \in Nat /\ Len(trace) \in Nat /\ DOMAIN recent = 1 .. Len(recent)
  BY <1>2
<1> QED
  BY <1>1, <1>3 DEF RecentIsEnd

(* The record at a place of the window is of the trace at one place.       *)
LEMMA RecentIs ==
    ASSUME RecentIsEnd, NEW i \in 1 .. Len(recent), NEW j,
           j = Len(trace) - Len(recent) + i
    PROVE  recent[i].pc = trace[j] /\ recent[i].at = j
<1>1. recent[i] = [pc |-> trace[j], at |-> j]
  BY DEF RecentIsEnd
<1> QED
  BY <1>1

(* Visits are positions of the trace, finitely many.                       *)
LEMMA VisitsAreFinite ==
    ASSUME trace \in Seq(Pc), NEW m \in Nat, NEW pc
    PROVE  IsFiniteSet(VisitsAt(pc, m)) /\ Cardinality(VisitsAt(pc, m)) \in Nat
<1>1. IsFiniteSet(m .. Len(trace))
  BY FS_Interval
<1>2. VisitsAt(pc, m) \subseteq m .. Len(trace)
  BY DEF VisitsAt
<1> QED
  BY <1>1, <1>2, FS_Subset, FS_CardinalityType

(* What the detector looks at are finitely many addresses, as many as it   *)
(* looks at instructions at most.                                          *)
LEMMA RecentIsSmall ==
    ASSUME RecentIsEnd
    PROVE  IsFiniteSet(RecentPcs) /\ Cardinality(RecentPcs) <= Window + 1
<1>1. Len(recent) \in Nat /\ Len(recent) <= Window + 1
  BY RecentLength
<1>2. IsFiniteSet(1 .. Len(recent)) /\ Cardinality(1 .. Len(recent)) = Len(recent)
  BY <1>1, FS_Interval
<1> DEFINE f == [i \in 1 .. Len(recent) |-> recent[i].pc]
<1>3. f \in Surjection(1 .. Len(recent), RecentPcs)
  BY DEF Surjection, RecentPcs
<1>4. IsFiniteSet(RecentPcs) /\ Cardinality(RecentPcs) <= Len(recent)
  BY <1>2, <1>3, FS_Surjection
<1>5. Window \in Nat /\ Cardinality(RecentPcs) \in Nat
  BY <1>4, FS_CardinalityType, DetectorAssumption DEF Detector!LoopAssumption
<1> QED
  BY <1>1, <1>4, <1>5

(* An instruction that retires is the last of both, and the window drops   *)
(* the oldest when it is full.                                             *)
LEMMA RetireIs ==
    ASSUME RecentIsEnd, NEW p \in Pc, NEW e, e = [pc |-> p, at |-> Len(trace) + 1],
           trace' = Append(trace, p), Detector!PushRecent(e)
    PROVE  /\ RecentIsEnd'
           /\ Len(trace') = Len(trace) + 1 /\ trace'[Len(trace) + 1] = p
           /\ \A i \in 1 .. Len(trace) : trace'[i] = trace[i]
           /\ RecentPcs' \subseteq RecentPcs \cup {p}
<1>1. /\ trace \in Seq(Pc) /\ recent \in Seq(Detector!Instr)
      /\ Len(recent) \in Nat /\ Len(trace) \in Nat
      /\ Len(recent) <= Window + 1 /\ Len(recent) <= Len(trace)
  BY RecentLength DEF RecentIsEnd
<1>2. Window \in Nat
  BY RecentLength
<1>3. /\ trace' \in Seq(Pc)
      /\ Len(trace') = Len(trace) + 1 /\ trace'[Len(trace) + 1] = p
      /\ \A i \in 1 .. Len(trace) : trace'[i] = trace[i]
  BY <1>1
<1>4. e \in Detector!Instr /\ e.pc = p
  BY <1>1 DEF Detector!Instr
<1> DEFINE k == IF Len(recent) > Window THEN 1 ELSE 0
<1> DEFINE n == Len(recent) - k
<1>5. k \in {0, 1} /\ n \in Nat /\ n <= Window /\ n + k = Len(recent)
  BY <1>1, <1>2
<1>6. /\ recent' \in Seq(Detector!Instr) /\ Len(recent') = n + 1
      /\ recent'[n + 1] = e
      /\ \A i \in 1 .. n : recent'[i] = recent[i + k]
  <2>1. CASE Len(recent) > Window
    <3>1. recent # << >>
      BY <1>1, <1>2, <2>1
    <3>2. recent' = Append(Tail(recent), e) /\ k = 1
      BY <2>1 DEF Detector!PushRecent
    <3>3. /\ Tail(recent) \in Seq(Detector!Instr) /\ Len(Tail(recent)) = n
          /\ \A i \in 1 .. n : Tail(recent)[i] = recent[i + 1]
      BY <1>1, <3>1, <3>2
    <3>4. PICK t : t = Tail(recent)
      OBVIOUS
    <3>5. recent' = Append(t, e) /\ t \in Seq(Detector!Instr) /\ Len(t) = n
      BY <3>2, <3>3, <3>4
    <3>6. /\ recent' \in Seq(Detector!Instr) /\ Len(recent') = n + 1
          /\ recent'[n + 1] = e /\ \A i \in 1 .. n : recent'[i] = t[i]
      BY <1>4, <3>5
    <3> QED
      BY <3>2, <3>3, <3>4, <3>6
  <2>2. CASE ~(Len(recent) > Window)
    <3>1. recent' = Append(recent, e) /\ k = 0 /\ n = Len(recent)
      BY <1>1, <2>2 DEF Detector!PushRecent
    <3>2. PICK t, l : t = recent /\ l = Len(t)
      OBVIOUS
    <3>3. t \in Seq(Detector!Instr) /\ l \in Nat /\ recent' = Append(t, e)
      BY <1>1, <3>1, <3>2
    <3>4. /\ recent' \in Seq(Detector!Instr) /\ Len(recent') = l + 1
          /\ recent'[l + 1] = e /\ \A i \in 1 .. l : recent'[i] = t[i]
      BY <1>4, <3>2, <3>3
    <3>5. k = 0 /\ n = l /\ \A i \in 1 .. l : i + k = i
      BY <3>1, <3>2, <3>3
    <3> QED
      BY <3>2, <3>4, <3>5
  <2> QED
    BY <2>1, <2>2
<1> HIDE DEF k, n
<1> DEFINE Ran(j) == [pc |-> trace[j], at |-> j]
<1>7. \A i \in 1 .. n : recent[i + k] = Ran(Len(trace) - n + i)
  <2> SUFFICES ASSUME NEW i \in 1 .. n PROVE recent[i + k] = Ran(Len(trace) - n + i)
    OBVIOUS
  <2>1. i \in Nat /\ 1 <= i /\ i <= n /\ k \in Nat
    BY <1>5
  <2>2. PICK j : j = i + k
    OBVIOUS
  <2>3. j \in 1 .. Len(recent) /\ Len(trace) - Len(recent) + j = Len(trace) - n + i
    <3>1. PICK l, t : l = Len(recent) /\ t = Len(trace)
      OBVIOUS
    <3>2. l \in Nat /\ t \in Nat /\ n \in Nat /\ n + k = l
      BY <1>1, <1>5, <3>1
    <3>3. j \in 1 .. l /\ t - l + j = t - n + i
      BY <2>1, <2>2, <3>2
    <3> QED
      BY <3>1, <3>3
  <2>4. recent[j] = Ran(Len(trace) - Len(recent) + j)
    BY <2>3 DEF RecentIsEnd
  <2> QED
    BY <2>2, <2>3, <2>4
<1>8. \A i \in 1 .. Len(recent') :
         recent'[i] = [pc |-> trace'[Len(trace') - Len(recent') + i],
                       at |-> Len(trace') - Len(recent') + i]
  <2> SUFFICES ASSUME NEW i \in 1 .. Len(recent')
               PROVE  recent'[i] = [pc |-> trace'[Len(trace') - Len(recent') + i],
                                    at |-> Len(trace') - Len(recent') + i]
    OBVIOUS
  <2>1. Len(trace') - Len(recent') = Len(trace) - n
    BY <1>1, <1>3, <1>5, <1>6
  <2>2. CASE i = n + 1
    <3>1. Len(trace) - n + i = Len(trace) + 1
      BY <1>1, <1>5, <2>2
    <3> QED
      BY <1>3, <1>4, <1>6, <2>1, <2>2, <3>1
  <2>3. CASE i # n + 1
    <3>1. i \in 1 .. n
      BY <1>5, <1>6, <2>3
    <3>2. Len(trace) - n + i \in 1 .. Len(trace)
      BY <1>1, <1>5, <3>1
    <3> QED
      BY <1>3, <1>6, <1>7, <2>1, <3>1, <3>2
  <2> QED
    BY <2>2, <2>3
<1>9. RecentIsEnd'
  <2>1. Len(recent') = IF Len(trace') > Window THEN Window + 1 ELSE Len(trace')
    <3>1. Len(recent) = IF Len(trace) > Window THEN Window + 1 ELSE Len(trace)
      BY DEF RecentIsEnd
    <3> QED
      BY <1>1, <1>2, <1>3, <1>6, <3>1 DEF n, k
  <2> QED
    BY <1>3, <1>6, <1>8, <2>1 DEF RecentIsEnd
<1>10. RecentPcs' \subseteq RecentPcs \cup {p}
  <2> SUFFICES ASSUME NEW i \in 1 .. Len(recent'), i # n + 1
               PROVE  \E j \in 1 .. Len(recent) : recent'[i].pc = recent[j].pc
    BY <1>4, <1>6 DEF RecentPcs
  <2>1. i \in 1 .. n /\ i + k \in 1 .. Len(recent)
    BY <1>5, <1>6
  <2> QED
    BY <1>6, <2>1
<1> QED
  BY <1>3, <1>9, <1>10

(* An address that was among them leaves the machine circling, and one     *)
(* more visit at the anchor is one more to count.                          *)
LEMMA CirclingOn ==
    ASSUME RecentIsEnd, loop_iters \in Nat, NEW p \in Pc, NEW m, NEW A, p \in A,
           Circling(m, A), cand_dst' = cand_dst,
           Len(trace') = Len(trace) + 1, trace'[Len(trace) + 1] = p,
           \A i \in 1 .. Len(trace) : trace'[i] = trace[i],
           RecentPcs' \subseteq RecentPcs \cup {p}, RecentIsEnd',
           loop_iters' = loop_iters + (IF p = cand_dst THEN 1 ELSE 0)
    PROVE  Circling(m, A)'
<1>1. trace \in Seq(Pc) /\ Len(trace) \in Nat /\ m \in 1 .. Len(trace)
  BY DEF RecentIsEnd, Circling
<1>2. m \in 1 .. Len(trace') /\ m \in Nat /\ m .. Len(trace') = (m .. Len(trace)) \cup {Len(trace) + 1}
  BY <1>1
<1>3. \A i \in m .. Len(trace) : i \in 1 .. Len(trace) /\ i # Len(trace) + 1
  BY <1>1
<1>4. PcsFrom(m)' \subseteq A
  BY <1>2, <1>3 DEF PcsFrom, Circling
<1>5. RecentPcs' \subseteq A
  BY DEF Circling
<1>6. VisitsAt(cand_dst, m)' = VisitsAt(cand_dst, m)
                               \cup (IF p = cand_dst THEN {Len(trace) + 1} ELSE {})
  BY <1>2, <1>3 DEF VisitsAt
<1>7. /\ IsFiniteSet(VisitsAt(cand_dst, m)) /\ Cardinality(VisitsAt(cand_dst, m)) \in Nat
      /\ Len(trace) + 1 \notin VisitsAt(cand_dst, m)
  BY <1>1, <1>2, <1>3, VisitsAreFinite DEF VisitsAt
<1>8. Cardinality(VisitsAt(cand_dst, m)') =
         Cardinality(VisitsAt(cand_dst, m)) + (IF p = cand_dst THEN 1 ELSE 0)
  <2>1. CASE p = cand_dst
    BY <1>6, <1>7, <2>1, FS_AddElement
  <2>2. CASE p # cand_dst
    BY <1>6, <1>7, <2>2
  <2> QED
    BY <2>1, <2>2
<1>9. Cardinality(VisitsAt(cand_dst, m)) > loop_iters
  BY DEF Circling
<1>10. Cardinality(VisitsAt(cand_dst, m)') > loop_iters'
  BY <1>7, <1>8, <1>9
<1> QED
  BY <1>2, <1>4, <1>5, <1>10 DEF Circling

(* The first address seen twice starts a candidate: it has been at the     *)
(* anchor twice, within the window.                                        *)
LEMMA CirclingBegins ==
    ASSUME RecentIsEnd, NEW p \in Pc, Detector!InRecent(p),
           cand_dst' = p, loop_iters' = 1,
           Len(trace') = Len(trace) + 1, trace'[Len(trace) + 1] = p,
           \A i \in 1 .. Len(trace) : trace'[i] = trace[i],
           RecentPcs' \subseteq RecentPcs \cup {p}, RecentIsEnd'
    PROVE  Circles'
<1>1. /\ Len(recent) \in Nat /\ Len(trace) \in Nat /\ Len(recent) <= Len(trace)
      /\ DOMAIN recent = 1 .. Len(recent)
  BY RecentLength
<1>2. PICK k \in 1 .. Len(recent) : recent[k].pc = p
  BY <1>1 DEF Detector!InRecent
<1>3. PICK A : A = RecentPcs
  OBVIOUS
<1>4. PICK m : m = Len(trace) - Len(recent) + k
  OBVIOUS
<1>5. IsFiniteSet(A) /\ Cardinality(A) <= Window + 1
  BY <1>3, RecentIsSmall
<1>6. m \in 1 .. Len(trace) /\ m \in Nat /\ trace[m] = p
  <2>1. m \in 1 .. Len(trace) /\ m \in Nat
    BY <1>1, <1>2, <1>4
  <2> QED
    BY <1>2, <1>4, <2>1, RecentIs
<1>7. p \in A
  BY <1>2, <1>3 DEF RecentPcs
<1>8. RecentPcs' \subseteq A
  BY <1>3, <1>7
<1>9. m .. Len(trace') = (m .. Len(trace)) \cup {Len(trace) + 1} /\ m \in 1 .. Len(trace')
  BY <1>1, <1>6
<1>10. PcsFrom(m)' \subseteq A
  <2>1. ASSUME NEW j \in m .. Len(trace) PROVE trace'[j] \in A
    <3>1. PICK i : i = j - (Len(trace) - Len(recent))
      OBVIOUS
    <3>2. /\ i \in 1 .. Len(recent) /\ Len(trace) - Len(recent) + i = j
          /\ j \in 1 .. Len(trace)
      BY <1>1, <1>2, <1>4, <1>6, <3>1
    <3>3. recent[i].pc = trace[j]
      BY <3>2, RecentIs
    <3> QED
      BY <1>3, <3>2, <3>3 DEF RecentPcs
  <2> QED
    BY <1>7, <1>9, <2>1 DEF PcsFrom
<1>11. Cardinality(VisitsAt(cand_dst, m)') > loop_iters'
  <2>1. PICK S : S = {m}
    OBVIOUS
  <2>2. IsFiniteSet(S) /\ Cardinality(S) = 1
    BY <2>1, FS_Singleton
  <2>3. Len(trace) + 1 \notin S
    BY <1>1, <1>6, <2>1
  <2>4. PICK T : T = S \cup {Len(trace) + 1}
    OBVIOUS
  <2>5. IsFiniteSet(T) /\ Cardinality(T) = 2
    BY <2>2, <2>3, <2>4, FS_AddElement
  <2>6. T \subseteq VisitsAt(cand_dst, m)'
    BY <1>6, <1>9, <2>1, <2>4 DEF VisitsAt
  <2>7. IsFiniteSet(VisitsAt(cand_dst, m)') /\ Cardinality(VisitsAt(cand_dst, m)') \in Nat
    <3>1. IsFiniteSet(m .. Len(trace'))
      BY <1>1, <1>6, FS_Interval
    <3>2. VisitsAt(cand_dst, m)' \subseteq m .. Len(trace')
      BY DEF VisitsAt
    <3> QED
      BY <3>1, <3>2, FS_Subset, FS_CardinalityType
  <2> QED
    BY <2>5, <2>6, <2>7, FS_Subset
<1> QED
  BY <1>5, <1>8, <1>9, <1>10, <1>11 DEF Circles, Circling

(* Circling and counted often enough is the evidence asked for.            *)
LEMMA CirclingIsCircled ==
    RecentIsEnd /\ Circles /\ Counted => Evident
<1> SUFFICES ASSUME RecentIsEnd, NEW m, NEW A, Circling(m, A), loop_iters \in Nat,
                    Detector!EnoughRounds(loop_iters)
             PROVE  Detector!Circled(cand_dst)
  BY DEF Circles, Counted, Evident
<1>1. /\ trace \in Seq(Pc) /\ Len(trace) \in Nat /\ DOMAIN trace = 1 .. Len(trace)
      /\ m \in 1 .. Len(trace) /\ m \in Nat
  BY DEF RecentIsEnd, Circling
<1>2. \A S : Detector!Cardinality(S) = Cardinality(S)
  BY DEF Detector!Cardinality, Cardinality
<1>3. /\ Cardinality(VisitsAt(cand_dst, m)) > loop_iters
      /\ Cardinality(VisitsAt(cand_dst, m)) \in Nat
  BY <1>1, VisitsAreFinite DEF Circling
<1>4. Detector!Visits(cand_dst, m) > Threshold
  <2>1. Threshold \in Nat /\ loop_iters >= Threshold
    BY DetectorAssumption DEF Detector!LoopAssumption, Detector!EnoughRounds
  <2>2. Detector!Visits(cand_dst, m) = Cardinality(VisitsAt(cand_dst, m))
    BY <1>2 DEF Detector!Visits, VisitsAt
  <2> QED
    BY <1>3, <2>1, <2>2
<1>5. PICK P : P = Detector!Pcs(Detector!From(m))
  OBVIOUS
<1>6. P \subseteq A
  <2>1. PICK s : s = SubSeq(trace, m, Len(trace))
    OBVIOUS
  <2>2. /\ s \in Seq(Pc) /\ DOMAIN s = 1 .. Len(trace) - m + 1
        /\ \A i \in 1 .. Len(trace) - m + 1 : s[i] = trace[m + i - 1]
    BY <1>1, <2>1
  <2>3. P = {s[i] : i \in DOMAIN s}
    BY <1>5, <2>1 DEF Detector!Pcs, Detector!From, Detector!ToSet
  <2>4. ASSUME NEW i \in 1 .. Len(trace) - m + 1 PROVE s[i] \in A
    <3>1. PICK j : j = m + i - 1
      OBVIOUS
    <3>2. j \in m .. Len(trace)
      BY <1>1, <3>1
    <3>3. s[i] = trace[j]
      BY <2>2, <3>1
    <3> QED
      BY <3>2, <3>3 DEF Circling, PcsFrom
  <2> QED
    BY <2>2, <2>3, <2>4
<1>7. Cardinality(P) <= Window + 1
  <2>1. IsFiniteSet(A) /\ Cardinality(A) <= Window + 1
    BY DEF Circling
  <2>2. IsFiniteSet(P) /\ Cardinality(P) <= Cardinality(A)
    BY <1>6, <2>1, FS_Subset
  <2>3. Cardinality(P) \in Nat /\ Cardinality(A) \in Nat /\ Window \in Nat
    BY <2>1, <2>2, FS_CardinalityType, DetectorAssumption DEF Detector!LoopAssumption
  <2> QED
    BY <2>1, <2>2, <2>3
<1> QED
  BY <1>1, <1>2, <1>4, <1>5, <1>7 DEF Detector!Circled

(* The detector keeps it with every instruction and every clear, and pins  *)
(* on evidence (detect_loop_onset).                                        *)
LEMMA DetectorPins ==
    DetectorInv /\ [Detector!Next]_(Detector!vars) => DetectorInv' /\ PinsEvident
<1> SUFFICES ASSUME DetectorInv, [Detector!Next]_(Detector!vars)
             PROVE  DetectorInv' /\ PinsEvident
  OBVIOUS
<1> USE DEF DetectorInv
<1>1. CASE UNCHANGED Detector!vars
  <2>1. /\ UNCHANGED <<trace, recent, loop_onset, cand_dst, loop_iters>>
    BY <1>1 DEF Detector!vars
  <2>2. RecentIsEnd'
    BY <2>1 DEF RecentIsEnd
  <2>3. CandidateCircles'
    BY <2>1 DEF CandidateCircles, Circles, Circling, PcsFrom, RecentPcs, VisitsAt
  <2> QED
    BY <2>1, <2>2, <2>3 DEF PinsEvident
<1>2. CASE Detector!Clear
  <2>1. /\ trace' = << >> /\ recent' = << >> /\ loop_onset' = None
        /\ cand_dst' = None /\ loop_iters' = 0
    BY <1>2 DEF Detector!Clear
  <2>2. RecentIsEnd'
    BY <2>1, DetectorAssumption DEF RecentIsEnd, Detector!LoopAssumption
  <2> QED
    BY <2>1, <2>2 DEF CandidateCircles, PinsEvident
<1>3. ASSUME NEW p \in Pc, Detector!Retire(p) PROVE DetectorInv' /\ PinsEvident
  <2>1. PICK e : /\ e = [pc |-> p, at |-> Len(trace) + 1]
                 /\ trace' = Append(trace, p) /\ Detector!PushRecent(e)
                 /\ \/ Detector!AlreadyPinned(e) \/ Detector!SelfLoop(e)
                    \/ Detector!BackAtAnchor(e) \/ Detector!InsideBody(e)
                    \/ Detector!FirstRepeat(e) \/ Detector!Escaped(e)
    BY <1>3 DEF Detector!Retire
  <2>2. e.pc = p
    BY <2>1
  <2>3. /\ RecentIsEnd'
        /\ Len(trace') = Len(trace) + 1 /\ trace'[Len(trace) + 1] = p
        /\ \A i \in 1 .. Len(trace) : trace'[i] = trace[i]
        /\ RecentPcs' \subseteq RecentPcs \cup {p}
    BY <2>1, RetireIs
  <2>4. loop_iters \in Nat /\ (loop_onset = None /\ cand_dst # None => Circles)
    BY DEF CandidateCircles
  <2>5. p # None
    BY DetectorAssumption DEF Detector!LoopAssumption
  <2>6. CASE Detector!AlreadyPinned(e)
    <3>1. loop_onset # None /\ loop_onset' = loop_onset /\ loop_iters' = loop_iters
      BY <2>6 DEF Detector!AlreadyPinned
    <3> QED
      BY <2>3, <2>4, <3>1 DEF CandidateCircles, PinsEvident
  <2>7. CASE Detector!SelfLoop(e)
    <3>1. /\ p \in SelfBranch /\ loop_iters' = loop_iters
          /\ loop_onset' = [src |-> IF recent = << >> THEN e ELSE Detector!Last(recent),
                            dst |-> p]
      BY <2>2, <2>7 DEF Detector!SelfLoop
    <3>2. loop_onset' # None
      <4>1. (IF recent = << >> THEN e ELSE Detector!Last(recent)) \in Detector!Instr
        <5>1. e \in Detector!Instr
          BY <2>1 DEF Detector!Instr, RecentIsEnd
        <5>2. recent # << >> => Detector!Last(recent) \in Detector!Instr
          BY DEF Detector!Last, RecentIsEnd
        <5> QED
          BY <5>1, <5>2
      <4>2. loop_onset' \in Detector!Onset
        BY <3>1, <4>1 DEF Detector!Onset
      <4> QED
        BY <4>2, DetectorAssumption DEF Detector!LoopAssumption
    <3> QED
      BY <2>3, <2>4, <3>1, <3>2 DEF CandidateCircles, PinsEvident
  <2>8. CASE Detector!BackAtAnchor(e)
    <3>1. /\ loop_onset = None /\ cand_dst = p /\ cand_dst' = cand_dst
          /\ loop_iters' = loop_iters + 1
          /\ loop_onset' = IF Detector!EnoughRounds(loop_iters')
                           THEN [src |-> cand_src, dst |-> p] ELSE None
      BY <2>2, <2>8 DEF Detector!BackAtAnchor, Detector!Searching
    <3>2. PICK m, A : Circling(m, A)
      BY <2>4, <2>5, <3>1 DEF Circles
    <3>3. p \in A
      <4>1. Cardinality(VisitsAt(p, m)) > loop_iters
        BY <3>1, <3>2 DEF Circling
      <4>2. VisitsAt(p, m) # {}
        BY <2>4, <4>1, FS_EmptySet
      <4> QED
        BY <3>2, <4>2 DEF VisitsAt, Circling, PcsFrom
    <3>4. loop_iters' = loop_iters + (IF p = cand_dst THEN 1 ELSE 0)
      BY <3>1
    <3>5. Circling(m, A)'
      BY <2>3, <2>4, <3>1, <3>2, <3>3, <3>4, CirclingOn
    <3>6. Circles'
      BY <3>5 DEF Circles
    <3>7. CandidateCircles'
      BY <2>4, <3>1, <3>6 DEF CandidateCircles
    <3>8. Detector!EnoughRounds(loop_iters') => PinsEvident
      <4> SUFFICES ASSUME Detector!EnoughRounds(loop_iters') PROVE PinsEvident
        OBVIOUS
      <4>1. Counted'
        BY <2>4, <3>1 DEF Counted
      <4>2. RecentIsEnd' /\ Circles' /\ Counted' => Evident'
        BY CirclingIsCircled, PTL
      <4>3. Evident'
        BY <2>3, <3>6, <4>1, <4>2
      <4>4. loop_onset'.dst = cand_dst'
        BY <3>1
      <4> QED
        BY <4>3, <4>4 DEF PinsEvident, Evident
    <3>9. ~Detector!EnoughRounds(loop_iters') => PinsEvident
      BY <3>1 DEF PinsEvident
    <3> QED
      BY <2>3, <3>7, <3>8, <3>9
  <2>9. CASE Detector!InsideBody(e)
    <3>1. /\ loop_onset' = None /\ loop_onset = None /\ loop_iters' = loop_iters
          /\ cand_dst' = cand_dst /\ cand_dst # None /\ cand_dst # p
          /\ Detector!InRecent(p)
      BY <2>2, <2>9 DEF Detector!InsideBody, Detector!Searching
    <3>2. PICK m, A : Circling(m, A)
      BY <2>4, <3>1 DEF Circles
    <3>3. p \in A
      <4>1. DOMAIN recent = 1 .. Len(recent)
        BY DEF RecentIsEnd
      <4>2. p \in RecentPcs
        BY <3>1, <4>1 DEF Detector!InRecent, RecentPcs
      <4> QED
        BY <3>2, <4>2 DEF Circling
    <3>4. loop_iters' = loop_iters + (IF p = cand_dst THEN 1 ELSE 0)
      BY <2>4, <3>1
    <3>5. Circling(m, A)'
      BY <2>3, <2>4, <3>1, <3>2, <3>3, <3>4, CirclingOn
    <3> QED
      BY <2>3, <2>4, <3>1, <3>5 DEF CandidateCircles, Circles, PinsEvident
  <2>10. CASE Detector!FirstRepeat(e)
    <3>1. /\ loop_onset' = None /\ loop_iters' = 1 /\ cand_dst' = p
          /\ Detector!InRecent(p)
      BY <2>2, <2>10 DEF Detector!FirstRepeat, Detector!Searching
    <3>2. Circles'
      BY <2>3, <3>1, CirclingBegins
    <3> QED
      BY <2>3, <3>1, <3>2 DEF CandidateCircles, PinsEvident
  <2>11. CASE Detector!Escaped(e)
    <3>1. loop_onset' = None /\ loop_iters' = 0 /\ cand_dst' = None
      BY <2>11 DEF Detector!Escaped, Detector!Searching
    <3> QED
      BY <2>3, <3>1 DEF CandidateCircles, PinsEvident
  <2> QED
    BY <2>1, <2>6, <2>7, <2>8, <2>9, <2>10, <2>11
<1> QED
  BY <1>1, <1>2, <1>3 DEF Detector!Next

(* Whatever runs, and however often the ring is cleared or resized: a loop *)
(* is pinned only if it branches to itself or the PC came back to it       *)
(* Threshold times within Window + 1 addresses, for any window and any     *)
(* threshold (delta_ring.rs, detect_loop_onset).                           *)
THEOREM OnsetIsEvident == UndoSpec => OnsetIsTightLoop
<1>1. UndoInit => DetectorInv
  <2> SUFFICES ASSUME UndoInit PROVE DetectorInv
    OBVIOUS
  <2>1. /\ trace = << >> /\ recent = << >> /\ cand_dst = None /\ loop_iters = 0
    BY DEF UndoInit, Detector!Init
  <2>2. RecentIsEnd
    BY <2>1, DetectorAssumption DEF RecentIsEnd, Detector!LoopAssumption
  <2> QED
    BY <2>1, <2>2 DEF DetectorInv, CandidateCircles
<1>2. DetectorInv /\ [SlabStep \/ DetectorStep]_<<half, vars, detector>>
         => DetectorInv' /\ [PinsEvident]_(Detector!vars)
  <2>1. [SlabStep \/ DetectorStep]_<<half, vars, detector>> => [Detector!Next]_(Detector!vars)
    BY DEF SlabStep, DetectorStep, detector, Detector!vars
  <2> QED
    BY <2>1, DetectorPins
<1>3. OnsetIsTightLoop <=> [][PinsEvident]_(Detector!vars)
  BY DEF OnsetIsTightLoop, Detector!OnsetIsTightLoop, PinsEvident
<1> QED
  BY <1>1, <1>2, <1>3, PTL DEF UndoSpec

-----------------------------------------------------------------------------
(* After position x the trace goes round a body of n distinct addresses.   *)
Looping(n, x) ==
    /\ \A i \in x + n + 1 .. Len(trace) : trace[i] = trace[i - n]
    /\ \A i, j \in x + 1 .. Len(trace) : i < j /\ j < i + n => trace[i] # trace[j]

(* The address at x has never come round within the window.                *)
Fresh(x) ==
    \A j \in 1 .. x : trace[j] = trace[x] =>
        \A i \in 1 .. j - 1 : j - Window - 1 <= i => trace[i] # trace[j]

(* What the detector has counted and pinned is of the trace, and a         *)
(* candidate's anchor came round within the window.                        *)
Evidence ==
    /\ loop_iters \in Nat /\ (loop_onset = None => loop_iters < Threshold)
    /\ cand_dst # None =>
          /\ cand_src \in Detector!Instr /\ cand_src.at <= Len(trace)
          /\ \E j \in 1 .. Len(trace) : \E i \in 1 .. j - 1 :
                j - Window - 1 <= i /\ trace[i] = cand_dst /\ trace[j] = cand_dst
    /\ loop_onset # None => loop_onset \in Detector!Onset /\ loop_onset.src.at <= Len(trace)

(* The candidate's anchor ran within the last n instructions, and was      *)
(* counted on each way round but the first.                                *)
Chased(n, x) ==
    \E l \in x + 1 .. Len(trace) :
        trace[l] = cand_dst /\ Len(trace) < l + n /\ n * loop_iters >= l - x - 1

Follows(n, x) ==
    Fresh(x) /\ loop_onset = None =>
        \/ cand_dst = None /\ Len(trace) <= x + n
        \/ cand_dst # None /\ Chased(n, x)

(* Once round there is a candidate, and its entry, pinned or not, ran      *)
(* before the loop.                                                        *)
Enters(n, x) ==
    /\ loop_onset = None /\ Len(trace) > x + n => cand_dst # None
    /\ x > 0 /\ loop_onset = None /\ cand_dst # None => cand_src.at <= x
    /\ x > 0 /\ loop_onset # None /\ loop_onset.dst \notin SelfBranch
          => loop_onset.src.at <= x

LoopsSeen ==
    \A n \in 2 .. Window, x \in 0 .. Len(trace) :
        Looping(n, x) => Follows(n, x) /\ Enters(n, x)

LoopInv == RecentIsEnd /\ Evidence /\ LoopsSeen

(* An address is looked at if it ran within the last Window + 1.           *)
LEMMA InRecentIs ==
    ASSUME RecentIsEnd, NEW p
    PROVE  Detector!InRecent(p) <=>
              \E i \in 1 .. Len(trace) : Len(trace) - Window <= i /\ trace[i] = p
<1>1. /\ Len(recent) \in Nat /\ Len(trace) \in Nat /\ Window \in Nat
      /\ Len(recent) <= Window + 1 /\ Len(recent) <= Len(trace)
      /\ DOMAIN recent = 1 .. Len(recent)
      /\ Len(recent) = IF Len(trace) > Window THEN Window + 1 ELSE Len(trace)
  BY RecentLength DEF RecentIsEnd
<1>2. ASSUME NEW k \in 1 .. Len(recent), recent[k].pc = p
      PROVE  \E i \in 1 .. Len(trace) : Len(trace) - Window <= i /\ trace[i] = p
  <2>1. PICK i : i = Len(trace) - Len(recent) + k
    OBVIOUS
  <2>2. i \in 1 .. Len(trace) /\ Len(trace) - Window <= i
    BY <1>1, <2>1
  <2> QED
    <3>1. recent[k].pc = trace[i]
      BY <2>1, RecentIs
    <3> QED
      BY <1>2, <2>2, <3>1
<1>3. ASSUME NEW i \in 1 .. Len(trace), Len(trace) - Window <= i, trace[i] = p
      PROVE  \E k \in 1 .. Len(recent) : recent[k].pc = p
  <2>1. PICK k : k = i - (Len(trace) - Len(recent))
    OBVIOUS
  <2>2. k \in 1 .. Len(recent) /\ i = Len(trace) - Len(recent) + k
    <3>1. PICK l, t : l = Len(recent) /\ t = Len(trace)
      OBVIOUS
    <3>2. /\ l \in Nat /\ t \in Nat /\ Window \in Nat /\ l <= t
          /\ l = IF t > Window THEN Window + 1 ELSE t
      BY <1>1, <3>1
    <3>3. i \in 1 .. t /\ t - Window <= i /\ k = i - (t - l)
      BY <1>3, <2>1, <3>1
    <3>4. k \in 1 .. l /\ i = t - l + k
      BY <3>2, <3>3
    <3> QED
      BY <3>1, <3>4
  <2> QED
    <3>1. recent[k].pc = trace[i]
      BY <2>2, RecentIs
    <3> QED
      BY <1>3, <2>2, <3>1
<1> QED
  BY <1>1, <1>2, <1>3 DEF Detector!InRecent

(* A candidate starts from the newest earlier visit of its anchor, and its *)
(* entry is the instruction before that, if the window holds it.           *)
LEMMA FirstRepeatIs ==
    ASSUME RecentIsEnd, NEW e, Detector!FirstRepeat(e)
    PROVE  \E g \in 1 .. Len(trace) :
              /\ Len(trace) - Window <= g /\ trace[g] = e.pc
              /\ cand_src' \in Detector!Instr /\ cand_src'.at <= g
              /\ g > 1 /\ g > Len(trace) - Window => cand_src'.at <= g - 1
<1>1. /\ Len(recent) \in Nat /\ Len(trace) \in Nat /\ Window \in Nat
      /\ Len(recent) <= Window + 1 /\ Len(recent) <= Len(trace)
      /\ DOMAIN recent = 1 .. Len(recent)
      /\ Len(recent) = IF Len(trace) > Window THEN Window + 1 ELSE Len(trace)
      /\ recent \in Seq(Detector!Instr)
  BY RecentLength DEF RecentIsEnd
<1>2. PICK I : I = {i \in 1 .. Len(recent) : recent[i].pc = e.pc}
  OBVIOUS
<1>3. I # {} /\ I \in SUBSET (0 .. Len(recent))
  BY <1>1, <1>2 DEF Detector!FirstRepeat, Detector!InRecent
<1>4. \E b \in I : \A y \in I : b >= y
  BY <1>1, <1>3, GreatestElement
<1>5. PICK b : b = Detector!SelectLastInSeq(recent, LAMBDA p : p.pc = e.pc)
  OBVIOUS
<1>6. b \in I
  BY <1>2, <1>3, <1>4, <1>5 DEF Detector!SelectLastInSeq, Detector!Max
<1>7. PICK s : s = Detector!Max({1, b - 1})
  OBVIOUS
<1>8. s = IF b - 1 >= 1 THEN b - 1 ELSE 1
  <2>1. b \in Nat /\ 1 <= b
    BY <1>1, <1>2, <1>6
  <2>2. \E m \in {1, b - 1} : \A y \in {1, b - 1} : m >= y
    BY <2>1
  <2>3. s \in {1, b - 1} /\ \A y \in {1, b - 1} : s >= y
    BY <1>7, <2>2 DEF Detector!Max
  <2>4. s >= 1 /\ s >= b - 1
    BY <2>3
  <2> QED
    BY <2>1, <2>3, <2>4
<1>9. cand_src' = recent[s]
  BY <1>5, <1>7 DEF Detector!FirstRepeat
<1>10. b \in 1 .. Len(recent) /\ s \in 1 .. Len(recent) /\ s <= b /\ recent[b].pc = e.pc
  BY <1>1, <1>2, <1>6, <1>8
<1>11. PICK g, h : g = Len(trace) - Len(recent) + b /\ h = Len(trace) - Len(recent) + s
  OBVIOUS
<1>12. /\ g \in 1 .. Len(trace) /\ Len(trace) - Window <= g /\ h <= g
       /\ g > 1 /\ g > Len(trace) - Window => h <= g - 1
  <2>1. PICK l, t : l = Len(recent) /\ t = Len(trace)
    OBVIOUS
  <2>2. /\ l \in Nat /\ t \in Nat /\ Window \in Nat /\ l <= t
        /\ l = IF t > Window THEN Window + 1 ELSE t
    BY <1>1, <2>1
  <2>3. b \in 1 .. l /\ s \in 1 .. l /\ s <= b /\ g = t - l + b /\ h = t - l + s
    BY <1>10, <1>11, <2>1
  <2>4. g \in 1 .. t /\ t - Window <= g /\ h <= g
    BY <2>2, <2>3
  <2>5. ASSUME g > 1, g > t - Window PROVE h <= g - 1
    <3>1. b > 1
      BY <2>2, <2>3, <2>5
    <3> QED
      BY <1>8, <2>2, <2>3, <3>1
  <2> QED
    BY <2>1, <2>4, <2>5
<1>13. trace[g] = e.pc /\ cand_src'.at = h
  BY <1>9, <1>10, <1>11, RecentIs
<1>14. cand_src' \in Detector!Instr
  BY <1>1, <1>9, <1>10
<1> QED
  BY <1>12, <1>13, <1>14

(* A record is not None.                                                   *)
LEMMA OnsetIsSome ==
    ASSUME NEW s \in Detector!Instr, NEW p \in Pc
    PROVE  /\ [src |-> s, dst |-> p] \in Detector!Onset
           /\ [src |-> s, dst |-> p] # None
<1>1. [src |-> s, dst |-> p] \in Detector!Onset
  BY DEF Detector!Onset
<1> QED
  BY <1>1, DetectorAssumption DEF Detector!LoopAssumption

(* What becomes of the candidate and the pinned record when an instruction *)
(* retires, whichever branch it takes.                                     *)
Stays == UNCHANGED <<cand_dst, cand_src, loop_iters>>

Outcome(p) ==
    \/ /\ loop_onset # None /\ Stays /\ loop_onset' = loop_onset
    \/ /\ loop_onset = None /\ Stays
       /\ loop_onset' \in Detector!Onset /\ loop_onset' # None
       /\ loop_onset'.dst \in SelfBranch /\ loop_onset'.src.at <= Len(trace) + 1
    \/ /\ loop_onset = None /\ cand_dst = p /\ UNCHANGED <<cand_dst, cand_src>>
       /\ loop_iters' = loop_iters + 1
       /\ \/ loop_onset' = None /\ loop_iters' < Threshold
          \/ /\ loop_onset' # None /\ loop_onset' \in Detector!Onset
             /\ loop_onset'.src = cand_src
    \/ /\ loop_onset = None /\ loop_onset' = None /\ Stays
       /\ cand_dst \notin {None, p} /\ Detector!InRecent(p)
    \/ /\ loop_onset = None /\ loop_onset' = None
       /\ cand_dst = None /\ cand_dst' = p /\ loop_iters' = 1
       /\ \E g \in 1 .. Len(trace) :
             /\ Len(trace) - Window <= g /\ trace[g] = p
             /\ cand_src' \in Detector!Instr /\ cand_src'.at <= g
             /\ g > 1 /\ g > Len(trace) - Window => cand_src'.at <= g - 1
    \/ /\ loop_onset = None /\ loop_onset' = None
       /\ cand_dst # p /\ ~Detector!InRecent(p)
       /\ cand_dst' = None /\ loop_iters' = 0

LEMMA OutcomeIs ==
    ASSUME RecentIsEnd, Evidence, NEW p \in Pc, NEW e,
           e = [pc |-> p, at |-> Len(trace) + 1],
           \/ Detector!AlreadyPinned(e) \/ Detector!SelfLoop(e)
           \/ Detector!BackAtAnchor(e) \/ Detector!InsideBody(e)
           \/ Detector!FirstRepeat(e) \/ Detector!Escaped(e)
    PROVE  Outcome(p)
<1>1. e.pc = p /\ e.at = Len(trace) + 1 /\ e \in Detector!Instr /\ p # None
  <2>1. Len(trace) \in Nat
    BY RecentLength
  <2> QED
    BY <2>1, DetectorAssumption DEF Detector!Instr, Detector!LoopAssumption
<1>2. CASE Detector!AlreadyPinned(e)
  BY <1>2 DEF Detector!AlreadyPinned, Outcome, Stays
<1>3. CASE Detector!SelfLoop(e)
  <2>1. PICK s : s = IF recent = << >> THEN e ELSE Detector!Last(recent)
    OBVIOUS
  <2>2. s \in Detector!Instr /\ s.at <= Len(trace) + 1
    <3>1. CASE recent = << >>
      BY <1>1, <2>1, <3>1, RecentLength
    <3>2. CASE recent # << >>
      <4>1. recent \in Seq(Detector!Instr) /\ Len(recent) \in 1 .. Len(recent)
        BY <3>2 DEF RecentIsEnd
      <4>2. s = recent[Len(recent)] /\ s \in Detector!Instr
        BY <2>1, <3>2, <4>1 DEF Detector!Last
      <4>3. Len(trace) - Len(recent) + Len(recent) = Len(trace)
        BY RecentLength
      <4>4. s.at = Len(trace)
        BY <4>1, <4>2, <4>3, RecentIs
      <4> QED
        BY <4>2, <4>4, RecentLength
    <3> QED
      BY <3>1, <3>2
  <2>3. loop_onset' = [src |-> s, dst |-> p] /\ p \in SelfBranch /\ loop_onset = None /\ Stays
    BY <1>1, <1>3, <2>1 DEF Detector!SelfLoop, Stays
  <2>4. loop_onset' \in Detector!Onset /\ loop_onset' # None
    BY <2>2, <2>3, OnsetIsSome
  <2>5. loop_onset'.dst = p /\ loop_onset'.src = s
    BY <2>3
  <2> QED
    BY <2>2, <2>3, <2>4, <2>5 DEF Outcome
<1>4. CASE Detector!BackAtAnchor(e)
  <2>1. /\ loop_onset = None /\ cand_dst = p /\ UNCHANGED <<cand_dst, cand_src>>
        /\ loop_iters' = loop_iters + 1
        /\ loop_onset' = IF Detector!EnoughRounds(loop_iters')
                         THEN [src |-> cand_src, dst |-> p] ELSE None
    BY <1>1, <1>4 DEF Detector!BackAtAnchor, Detector!Searching
  <2>2. [src |-> cand_src, dst |-> p] # None /\ [src |-> cand_src, dst |-> p] \in Detector!Onset
    BY <1>1, <2>1, OnsetIsSome DEF Evidence
  <2>3. CASE Detector!EnoughRounds(loop_iters')
    BY <2>1, <2>2, <2>3 DEF Outcome
  <2>4. CASE ~Detector!EnoughRounds(loop_iters')
    <3>1. loop_iters' < Threshold
      BY <2>1, <2>4, DetectorAssumption
      DEF Detector!EnoughRounds, Detector!LoopAssumption, Evidence
    <3> QED
      BY <2>1, <2>4, <3>1 DEF Outcome
  <2> QED
    BY <2>3, <2>4
<1>5. CASE Detector!InsideBody(e)
  BY <1>1, <1>5 DEF Detector!InsideBody, Detector!Searching, Outcome, Stays
<1>6. CASE Detector!FirstRepeat(e)
  <2>1. /\ loop_onset = None /\ loop_onset' = None
        /\ cand_dst = None /\ cand_dst' = p /\ loop_iters' = 1
    BY <1>1, <1>6 DEF Detector!FirstRepeat, Detector!Searching
  <2>2. \E g \in 1 .. Len(trace) :
           /\ Len(trace) - Window <= g /\ trace[g] = p
           /\ cand_src' \in Detector!Instr /\ cand_src'.at <= g
           /\ g > 1 /\ g > Len(trace) - Window => cand_src'.at <= g - 1
    BY <1>1, <1>6, FirstRepeatIs
  <2> QED
    BY <2>1, <2>2 DEF Outcome
<1>7. CASE Detector!Escaped(e)
  BY <1>1, <1>7 DEF Detector!Escaped, Detector!Searching, Outcome
<1> QED
  BY <1>2, <1>3, <1>4, <1>5, <1>6, <1>7

(* The trace grows by one instruction.                                     *)
Grows(p) ==
    /\ Len(trace) \in Nat /\ Window \in Nat
    /\ Len(trace') = Len(trace) + 1 /\ trace'[Len(trace) + 1] = p
    /\ \A i \in 1 .. Len(trace) : trace'[i] = trace[i]

(* What has been counted and pinned stays of the trace.                    *)
LEMMA EvidenceNext ==
    ASSUME Evidence, NEW p \in Pc, Grows(p), Outcome(p)
    PROVE  Evidence'
<1>1. /\ Len(trace) \in Nat /\ Window \in Nat
      /\ Len(trace') = Len(trace) + 1 /\ trace'[Len(trace) + 1] = p
      /\ \A i \in 1 .. Len(trace) : trace'[i] = trace[i]
  BY DEF Grows
<1>2. loop_iters \in Nat /\ Threshold \in Nat /\ Threshold > 1
  BY DetectorAssumption DEF Evidence, Detector!LoopAssumption
<1>3. loop_iters' \in Nat /\ (loop_onset' = None => loop_iters' < Threshold)
  BY <1>2 DEF Outcome, Evidence, Stays
<1> DEFINE Around(tr, c) == \E j \in 1 .. Len(tr) : \E i \in 1 .. j - 1 :
                               j - Window - 1 <= i /\ tr[i] = c /\ tr[j] = c
<1>4. ASSUME cand_dst' = cand_dst, cand_src' = cand_src, cand_dst # None
      PROVE  /\ cand_src' \in Detector!Instr /\ cand_src'.at <= Len(trace')
             /\ Around(trace', cand_dst')
  <2>1. cand_src \in Detector!Instr /\ cand_src.at <= Len(trace) /\ cand_src.at \in Nat
    BY <1>4 DEF Evidence, Detector!Instr
  <2>2. PICK j, i : /\ j \in 1 .. Len(trace) /\ i \in 1 .. j - 1
                    /\ j - Window - 1 <= i /\ trace[i] = cand_dst /\ trace[j] = cand_dst
    BY <1>4 DEF Evidence
  <2>3. i \in 1 .. Len(trace) /\ j \in 1 .. Len(trace')
    BY <1>1, <2>2
  <2> QED
    BY <1>1, <1>4, <2>1, <2>2, <2>3
<1>5. ASSUME cand_dst = None, cand_dst' = p,
             NEW g \in 1 .. Len(trace), Len(trace) - Window <= g, trace[g] = p,
             cand_src' \in Detector!Instr, cand_src'.at <= g
      PROVE  cand_src'.at <= Len(trace') /\ Around(trace', cand_dst')
  <2>1. cand_src'.at \in Nat
    BY <1>5 DEF Detector!Instr
  <2>2. PICK j : j = Len(trace) + 1
    OBVIOUS
  <2>3. j \in 1 .. Len(trace') /\ g \in 1 .. j - 1 /\ j - Window - 1 <= g
    BY <1>1, <1>5, <2>2
  <2>4. trace'[g] = cand_dst' /\ trace'[j] = cand_dst'
    BY <1>1, <1>5, <2>2
  <2> QED
    BY <1>1, <1>5, <2>1, <2>3, <2>4
<1>6. cand_dst' # None => /\ cand_src' \in Detector!Instr /\ cand_src'.at <= Len(trace')
                          /\ Around(trace', cand_dst')
  <2> HIDE DEF Around
  <2> QED
    BY <1>4, <1>5 DEF Outcome, Stays
<1>7. loop_onset' # None =>
         loop_onset' \in Detector!Onset /\ loop_onset'.src.at <= Len(trace')
  <2>1. loop_onset # None /\ loop_onset' = loop_onset =>
           loop_onset' \in Detector!Onset /\ loop_onset'.src.at <= Len(trace')
    <3>1. ASSUME loop_onset # None
          PROVE  /\ loop_onset \in Detector!Onset /\ loop_onset.src.at <= Len(trace)
                 /\ loop_onset.src.at \in Nat
      BY <3>1 DEF Evidence, Detector!Onset, Detector!Instr
    <3> QED
      BY <1>1, <3>1
  <2>2. cand_dst # None => cand_src.at \in Nat /\ cand_src.at <= Len(trace')
    <3>1. cand_dst # None => cand_src \in Detector!Instr /\ cand_src.at <= Len(trace)
      BY DEF Evidence
    <3> QED
      BY <1>1, <3>1 DEF Detector!Instr
  <2>3. p # None
    BY DetectorAssumption DEF Detector!LoopAssumption
  <2> QED
    BY <1>1, <2>1, <2>2, <2>3 DEF Outcome
<1> QED
  BY <1>3, <1>6, <1>7 DEF Evidence

(* When an instruction runs at a new address, a candidate is dropped.      *)
LEMMA LoopBegins ==
    ASSUME RecentIsEnd, Evidence, Evidence', NEW p \in Pc, Grows(p), Outcome(p),
           NEW n \in 2 .. Window, NEW x, x = Len(trace) + 1
    PROVE  Follows(n, x)' /\ Enters(n, x)'
<1>1. /\ Len(trace) \in Nat /\ Window \in Nat /\ n \in Nat /\ x \in Nat /\ n > 1
      /\ Len(trace') = x /\ trace'[x] = p
      /\ \A i \in 1 .. Len(trace) : trace'[i] = trace[i]
  BY DEF Grows
<1>2. Enters(n, x)'
  <2>1. ~(Len(trace') > x + n)
    BY <1>1
  <2> QED
    BY <1>1, <2>1 DEF Enters, Evidence
<1>3. ASSUME Fresh(x)', loop_onset' = None PROVE cand_dst' = None /\ Len(trace') <= x + n
  <2>1. \A j \in 1 .. x : trace'[j] = trace'[x] =>
            \A i \in 1 .. j - 1 : j - Window - 1 <= i => trace'[i] # trace'[x]
    BY <1>3 DEF Fresh
  <2>2. ~Detector!InRecent(p)
    <3>1. ASSUME NEW i \in 1 .. Len(trace), Len(trace) - Window <= i PROVE trace[i] # p
      <4>1. x \in 1 .. x /\ i \in 1 .. x - 1 /\ x - Window - 1 <= i
        BY <1>1, <3>1
      <4> QED
        BY <1>1, <2>1, <4>1
    <3> QED
      BY <3>1, InRecentIs
  <2>3. cand_dst # p
    <3>1. SUFFICES ASSUME cand_dst = p PROVE FALSE
      OBVIOUS
    <3>2. p # None
      BY DetectorAssumption DEF Detector!LoopAssumption
    <3>3. PICK j, i : /\ j \in 1 .. Len(trace) /\ i \in 1 .. j - 1
                      /\ j - Window - 1 <= i /\ trace[i] = p /\ trace[j] = p
      BY <3>1, <3>2 DEF Evidence
    <3>4. j \in 1 .. x /\ i \in 1 .. Len(trace)
      BY <1>1, <3>3
    <3> QED
      BY <1>1, <2>1, <3>3, <3>4
  <2>4. ~\E g \in 1 .. Len(trace) : Len(trace) - Window <= g /\ trace[g] = p
    BY <2>2, InRecentIs
  <2>5. cand_dst' = None
    BY <1>3, <2>2, <2>3, <2>4 DEF Outcome
  <2> QED
    BY <1>1, <2>5
<1> QED
  BY <1>2, <1>3 DEF Follows

(* Once round, the instruction that retires is one the detector looks at.  *)
LEMMA RoundIsLookedAt ==
    ASSUME RecentIsEnd, NEW p \in Pc, Grows(p), NEW n \in 2 .. Window,
           NEW x \in 0 .. Len(trace), Looping(n, x)', Len(trace) >= x + n
    PROVE  Detector!InRecent(p)
<1>1. /\ Len(trace) \in Nat /\ Window \in Nat /\ n \in Nat /\ x \in Nat /\ n > 1 /\ n <= Window
      /\ Len(trace') = Len(trace) + 1 /\ trace'[Len(trace) + 1] = p
      /\ \A i \in 1 .. Len(trace) : trace'[i] = trace[i]
  BY DEF Grows
<1>2. PICK j, i : j = Len(trace) + 1 /\ i = j - n
  OBVIOUS
<1>3. /\ j \in x + n + 1 .. Len(trace') /\ i \in 1 .. Len(trace)
      /\ Len(trace) - Window <= i
  BY <1>1, <1>2
<1>4. trace'[j] = trace'[i]
  BY <1>2, <1>3 DEF Looping
<1> QED
  BY <1>1, <1>2, <1>3, <1>4, InRecentIs

(* As the loop goes on the candidate's anchor is one of its instructions,  *)
(* and counted whenever it comes round.                                    *)
LEMMA LoopIsFollowed ==
    ASSUME RecentIsEnd, Evidence, NEW p \in Pc, Grows(p), Outcome(p),
           NEW n \in 2 .. Window, NEW x \in 0 .. Len(trace),
           Looping(n, x)', Follows(n, x), Fresh(x)', loop_onset' = None
    PROVE  \/ cand_dst' = None /\ Len(trace') <= x + n
           \/ cand_dst' # None /\ Chased(n, x)'
<1>1. /\ Len(trace) \in Nat /\ Window \in Nat /\ n \in Nat /\ x \in Nat /\ n > 1
      /\ x <= Len(trace)
      /\ Len(trace') = Len(trace) + 1 /\ trace'[Len(trace) + 1] = p
      /\ \A i \in 1 .. Len(trace) : trace'[i] = trace[i]
  BY DEF Grows
<1>2. p # None
  BY DetectorAssumption DEF Detector!LoopAssumption
<1>3. Fresh(x)
  <2>1. ASSUME NEW j \in 1 .. x, trace[j] = trace[x],
               NEW i \in 1 .. j - 1, j - Window - 1 <= i
        PROVE  trace[i] # trace[x]
    <3>1. /\ j \in 1 .. Len(trace) /\ i \in 1 .. Len(trace) /\ x \in 1 .. Len(trace)
      BY <1>1
    <3>2. trace'[j] = trace'[x] => trace'[i] # trace'[x]
      BY <2>1 DEF Fresh
    <3> QED
      BY <1>1, <2>1, <3>1, <3>2
  <2> QED
    BY <2>1 DEF Fresh
<1>4. loop_onset = None
  BY DEF Outcome
<1>5. \/ cand_dst = None /\ Len(trace) <= x + n
      \/ cand_dst # None /\ Chased(n, x)
  BY <1>3, <1>4 DEF Follows
<1>6. CASE cand_dst' = None
  <2>1. ~Detector!InRecent(p)
    BY <1>2, <1>4, <1>6 DEF Outcome, Stays
  <2>2. ~(Len(trace) >= x + n)
    BY <2>1, RoundIsLookedAt
  <2> QED
    BY <1>1, <1>6, <2>2
<1>7. CASE cand_dst' # None /\ loop_iters' = 1 /\ cand_dst' = p /\ cand_dst = None
  <2>1. PICK l : l = Len(trace) + 1
    OBVIOUS
  <2>2. l \in x + 1 .. Len(trace') /\ Len(trace') < l + n /\ trace'[l] = cand_dst'
    BY <1>1, <1>7, <2>1
  <2>3. n * loop_iters' >= l - x - 1
    BY <1>1, <1>5, <1>7, <2>1
  <2> QED
    BY <1>7, <2>2, <2>3 DEF Chased
<1>8. CASE cand_dst' # None /\ cand_dst' = cand_dst
  <2>1. PICK l \in x + 1 .. Len(trace) :
           trace[l] = cand_dst /\ Len(trace) < l + n /\ n * loop_iters >= l - x - 1
    BY <1>5, <1>8 DEF Chased
  <2>2. loop_iters \in Nat
    BY DEF Evidence
  <2>3. CASE p = cand_dst /\ loop_iters' = loop_iters + 1
    <3>1. PICK k : k = Len(trace) + 1
      OBVIOUS
    <3>2. k \in x + 1 .. Len(trace') /\ Len(trace') < k + n /\ trace'[k] = cand_dst'
      BY <1>1, <1>8, <2>3, <3>1
    <3>3. PICK m : m = n * loop_iters
      OBVIOUS
    <3>4. n * loop_iters' = m + n /\ m \in Nat
      BY <1>1, <2>2, <2>3, <3>3
    <3>5. m + n >= k - x - 1
      BY <1>1, <2>1, <3>1, <3>3, <3>4
    <3> QED
      BY <1>8, <3>2, <3>4, <3>5 DEF Chased
  <2>4. CASE p # cand_dst /\ loop_iters' = loop_iters
    <3>1. l \in x + 1 .. Len(trace') /\ l \in 1 .. Len(trace) /\ trace'[l] = cand_dst'
      BY <1>1, <1>8, <2>1
    <3>2. Len(trace') # l + n
      <4>1. SUFFICES ASSUME Len(trace') = l + n PROVE FALSE
        OBVIOUS
      <4>2. PICK j : j = l + n
        OBVIOUS
      <4>3. j \in x + n + 1 .. Len(trace') /\ j - n = l /\ j = Len(trace) + 1
        BY <1>1, <2>1, <4>1, <4>2
      <4>4. trace'[j] = trace'[l]
        BY <4>3 DEF Looping
      <4> QED
        BY <1>1, <2>1, <2>4, <3>1, <4>3, <4>4
    <3>3. Len(trace') < l + n
      <4>1. /\ Len(trace) \in Nat /\ n \in Nat /\ l \in Int
            /\ Len(trace') = Len(trace) + 1 /\ Len(trace) < l + n
        BY <1>1, <2>1
      <4> QED
        BY <3>2, <4>1
    <3> QED
      BY <1>8, <2>1, <2>4, <3>1, <3>3 DEF Chased
  <2>5. \/ p = cand_dst /\ loop_iters' = loop_iters + 1
        \/ p # cand_dst /\ loop_iters' = loop_iters
    BY <1>2, <1>4, <1>8 DEF Outcome, Stays
  <2> QED
    BY <2>3, <2>4, <2>5
<1> QED
  BY <1>2, <1>4, <1>6, <1>7, <1>8 DEF Outcome, Stays

(* The entry of a candidate or of a pinned loop stays outside a loop that  *)
(* was not entered by the first instruction of all.                        *)
LEMMA EntryStaysOutside ==
    ASSUME RecentIsEnd, Evidence, NEW p \in Pc, Grows(p), Outcome(p),
           NEW n \in 2 .. Window, NEW x \in 0 .. Len(trace),
           Looping(n, x)', Enters(n, x)
    PROVE  Enters(n, x)'
<1>1. /\ Len(trace) \in Nat /\ Window \in Nat /\ n \in Nat /\ x \in Nat /\ n > 1
      /\ n <= Window /\ x <= Len(trace)
      /\ Len(trace') = Len(trace) + 1 /\ trace'[Len(trace) + 1] = p
      /\ \A i \in 1 .. Len(trace) : trace'[i] = trace[i]
  BY DEF Grows
<1>2. p # None
  BY DetectorAssumption DEF Detector!LoopAssumption
<1>3. loop_onset' = None /\ Len(trace') > x + n => cand_dst' # None
  <2>1. SUFFICES ASSUME loop_onset' = None, Len(trace') > x + n PROVE cand_dst' # None
    OBVIOUS
  <2>2. Len(trace) >= x + n
    BY <1>1, <2>1
  <2>3. Detector!InRecent(p)
    BY <2>2, RoundIsLookedAt
  <2> QED
    BY <1>2, <2>1, <2>3 DEF Outcome, Stays
<1>4. ASSUME x > 0, loop_onset = None, cand_dst = None, NEW g \in 1 .. Len(trace),
             Len(trace) - Window <= g, trace[g] = p,
             cand_src' \in Detector!Instr, cand_src'.at <= g,
             g > 1 /\ g > Len(trace) - Window => cand_src'.at <= g - 1
      PROVE  cand_src'.at <= x
  <2>1. Len(trace) <= x + n
    BY <1>1, <1>4 DEF Enters
  <2>2. cand_src'.at \in Nat
    BY <1>4 DEF Detector!Instr
  <2>3. CASE g <= x
    BY <1>1, <1>4, <2>2, <2>3
  <2>4. CASE g > x
    <3>1. PICK j : j = Len(trace) + 1
      OBVIOUS
    <3>2. g \in x + 1 .. Len(trace') /\ j \in x + 1 .. Len(trace') /\ g < j
      BY <1>1, <2>4, <3>1
    <3>3. trace'[g] = trace'[j]
      <4>1. trace'[g] = trace[g] /\ g \in Nat
        BY <1>1, <1>4
      <4> QED
        BY <1>1, <1>4, <3>1, <4>1
    <3>4. ~(j < g + n)
      BY <3>2, <3>3 DEF Looping
    <3>5. g = x + 1 /\ g > 1 /\ g > Len(trace) - Window
      BY <1>1, <1>4, <2>1, <2>4, <3>1, <3>4
    <3> QED
      BY <1>1, <1>4, <2>2, <3>5
  <2> QED
    BY <1>1, <2>3, <2>4
<1>5. x > 0 /\ loop_onset' = None /\ cand_dst' # None => cand_src'.at <= x
  BY <1>2, <1>4 DEF Outcome, Stays, Enters
<1>6. x > 0 /\ loop_onset' # None /\ loop_onset'.dst \notin SelfBranch
         => loop_onset'.src.at <= x
  BY <1>2 DEF Outcome, Stays, Enters
<1> QED
  BY <1>3, <1>5, <1>6 DEF Enters

(* The invariant is kept by every instruction and by clearing.             *)
LEMMA LoopInvNext ==
    LoopInv /\ [Detector!Next]_(Detector!vars) => LoopInv'
<1> SUFFICES ASSUME LoopInv, [Detector!Next]_(Detector!vars) PROVE LoopInv'
  OBVIOUS
<1> USE DEF LoopInv
<1>1. CASE UNCHANGED Detector!vars
  <2>1. UNCHANGED <<trace, recent, loop_onset, cand_dst, cand_src, loop_iters>>
    BY <1>1 DEF Detector!vars
  <2>2. RecentIsEnd' /\ Evidence'
    BY <2>1 DEF RecentIsEnd, Evidence
  <2>3. ASSUME NEW n, NEW x
        PROVE  /\ Looping(n, x)' <=> Looping(n, x)
               /\ Follows(n, x)' <=> Follows(n, x)
               /\ Enters(n, x)' <=> Enters(n, x)
    BY <2>1 DEF Looping, Follows, Enters, Fresh, Chased
  <2> QED
    BY <2>1, <2>2, <2>3 DEF LoopsSeen
<1>2. CASE Detector!Clear
  <2>1. /\ trace' = << >> /\ recent' = << >> /\ loop_onset' = None
        /\ cand_dst' = None /\ loop_iters' = 0
    BY <1>2 DEF Detector!Clear
  <2>2. /\ Window \in Nat /\ Threshold \in Nat /\ Threshold > 1
    BY DetectorAssumption DEF Detector!LoopAssumption
  <2>3. Len(trace') = 0
    BY <2>1
  <2>4. RecentIsEnd'
    BY <2>1, <2>2 DEF RecentIsEnd
  <2>5. Evidence'
    BY <2>1, <2>2 DEF Evidence
  <2>6. LoopsSeen'
    <3> SUFFICES ASSUME NEW n \in 2 .. Window, NEW x \in 0 .. Len(trace')
                 PROVE  Follows(n, x)' /\ Enters(n, x)'
      BY DEF LoopsSeen
    <3>1. x = 0 /\ n \in Nat
      BY <2>2, <2>3
    <3> QED
      BY <2>1, <2>3, <3>1 DEF Follows, Enters
  <2> QED
    BY <2>4, <2>5, <2>6
<1>3. ASSUME NEW p \in Pc, Detector!Retire(p) PROVE LoopInv'
  <2>1. PICK e : /\ e = [pc |-> p, at |-> Len(trace) + 1]
                 /\ trace' = Append(trace, p) /\ Detector!PushRecent(e)
                 /\ \/ Detector!AlreadyPinned(e) \/ Detector!SelfLoop(e)
                    \/ Detector!BackAtAnchor(e) \/ Detector!InsideBody(e)
                    \/ Detector!FirstRepeat(e) \/ Detector!Escaped(e)
    BY <1>3 DEF Detector!Retire
  <2>2. RecentIsEnd' /\ Grows(p)
    BY <2>1, RetireIs, RecentLength DEF Grows
  <2>3. Outcome(p)
    BY <2>1, OutcomeIs
  <2>4. Evidence'
    BY <2>2, <2>3, EvidenceNext
  <2>5. LoopsSeen'
    <3> SUFFICES ASSUME NEW n \in 2 .. Window, NEW x \in 0 .. Len(trace'), Looping(n, x)'
                 PROVE  Follows(n, x)' /\ Enters(n, x)'
      BY DEF LoopsSeen
    <3>1. /\ Len(trace) \in Nat /\ Window \in Nat /\ Len(trace') = Len(trace) + 1
          /\ \A i \in 1 .. Len(trace) : trace'[i] = trace[i]
      BY <2>2 DEF Grows
    <3>2. CASE x = Len(trace) + 1
      BY <2>2, <2>3, <2>4, <3>2, LoopBegins
    <3>3. CASE x # Len(trace) + 1
      <4>1. x \in 0 .. Len(trace) /\ x \in Nat /\ n \in Nat
        BY <3>1, <3>3
      <4>2. Looping(n, x)
        <5>1. \A i \in x + n + 1 .. Len(trace) :
                 /\ i \in x + n + 1 .. Len(trace') /\ i \in 1 .. Len(trace)
                 /\ i - n \in 1 .. Len(trace)
          BY <3>1, <4>1
        <5>2. \A i \in x + 1 .. Len(trace) :
                 i \in x + 1 .. Len(trace') /\ i \in 1 .. Len(trace)
          BY <3>1, <4>1
        <5> QED
          BY <3>1, <5>1, <5>2 DEF Looping
      <4>3. Follows(n, x) /\ Enters(n, x)
        BY <4>1, <4>2 DEF LoopsSeen
      <4>4. Follows(n, x)'
        BY <2>2, <2>3, <4>1, <4>3, LoopIsFollowed DEF Follows
      <4> QED
        BY <2>2, <2>3, <4>1, <4>3, <4>4, EntryStaysOutside
    <3> QED
      BY <3>2, <3>3
  <2> QED
    BY <2>2, <2>4, <2>5
<1> QED
  BY <1>1, <1>2, <1>3 DEF Detector!Next

(* The rounds of a loop that the trace ends in are a loop after the        *)
(* instruction before them: their body has as many addresses as it is      *)
(* long.                                                                   *)
LEMMA LoopsOverIs ==
    ASSUME trace \in Seq(Pc), NEW n \in 2 .. Window, NEW r \in Nat, r > 1,
           Detector!LoopsOver(n, r), NEW x, x = Len(trace) - n * r
    PROVE  x \in 0 .. Len(trace) /\ Len(trace) = x + n * r /\ Looping(n, x)
<1>1. /\ Window \in Nat /\ n \in Nat /\ n > 1 /\ Len(trace) \in Nat
      /\ DOMAIN trace = 1 .. Len(trace)
  BY DetectorAssumption DEF Detector!LoopAssumption
<1>2. PICK L : L = Len(trace)
  OBVIOUS
<1>3. PICK m : m = n * (r - 1)
  OBVIOUS
<1>4. m \in Nat /\ n * r = m + n /\ m >= n
  <2>1. r - 1 \in Nat /\ r - 1 >= 1
    OBVIOUS
  <2>2. m \in Nat /\ n * r = m + n
    BY <1>1, <1>3, <2>1
  <2>3. m = n * (r - 2) + n /\ n * (r - 2) \in Nat
    <3>1. PICK q : q = r - 2
      OBVIOUS
    <3>2. q \in Nat /\ m = n * (q + 1)
      BY <1>3, <2>1, <3>1
    <3>3. n * (q + 1) = n * q + n /\ n * q \in Nat
      BY <1>1, <3>2
    <3> QED
      BY <3>1, <3>2, <3>3
  <2> QED
    BY <1>1, <2>2, <2>3
<1>5. L >= m + n /\ Cardinality(Detector!Body(n)) = n
      /\ \A i \in L - m + 1 .. L : trace[i] = trace[i - n]
  <2>1. Detector!Cardinality(Detector!Body(n)) = Cardinality(Detector!Body(n))
    BY DEF Detector!Cardinality, Cardinality
  <2> QED
    BY <1>2, <1>3, <1>4, <2>1 DEF Detector!LoopsOver
<1>6. x \in Nat /\ x <= L /\ L = x + n + m /\ L \in Nat
  <2>1. x = L - (m + n)
    BY <1>2, <1>4
  <2>2. L \in Nat /\ m \in Nat /\ n \in Nat /\ L >= m + n
    BY <1>1, <1>2, <1>4, <1>5
  <2> QED
    BY <2>1, <2>2
<1>7. \A i \in x + n + 1 .. L : trace[i] = trace[i - n]
  <2>1. L - m + 1 = x + n + 1
    BY <1>1, <1>4, <1>6
  <2> QED
    BY <1>5, <2>1
<1>8. \A i, j \in L - n + 1 .. L : i < j => trace[i] # trace[j]
  <2>1. PICK q : q = L - n + 1
    OBVIOUS
  <2>2. q \in 1 .. Len(trace) /\ q \in Nat /\ Len(trace) - q + 1 = n
    BY <1>1, <1>2, <1>4, <1>6, <2>1
  <2>3. PICK s : s = SubSeq(trace, q, Len(trace))
    OBVIOUS
  <2>4. /\ s \in Seq(Pc) /\ DOMAIN s = 1 .. n
        /\ \A i \in 1 .. n : s[i] = trace[q + i - 1]
    <3>1. /\ s \in Seq(Pc) /\ DOMAIN s = 1 .. Len(trace) - q + 1
          /\ \A i \in 1 .. Len(trace) - q + 1 : s[i] = trace[q + i - 1]
      BY <1>1, <2>2, <2>3
    <3> QED
      BY <2>2, <3>1
  <2>5. PICK B : B = Detector!Body(n)
    OBVIOUS
  <2>5a. B = {s[i] : i \in 1 .. n}
    <3>1. B = {s[i] : i \in DOMAIN s}
      BY <1>2, <2>1, <2>3, <2>5
      DEF Detector!Body, Detector!Pcs, Detector!From, Detector!ToSet
    <3> QED
      BY <2>4, <3>1
  <2>6. s \in Surjection(1 .. n, B)
    BY <2>4, <2>5a DEF Surjection
  <2>7. IsFiniteSet(1 .. n) /\ Cardinality(1 .. n) = n
    BY <1>1, FS_Interval
  <2>8. s \in Injection(1 .. n, B)
    BY <1>5, <2>5, <2>6, <2>7, FS_Surjection
  <2> SUFFICES ASSUME NEW i \in L - n + 1 .. L, NEW j \in L - n + 1 .. L, i < j,
                      trace[i] = trace[j]
               PROVE  FALSE
    OBVIOUS
  <2>9. PICK a, b : a = i - q + 1 /\ b = j - q + 1
    OBVIOUS
  <2>10. /\ a \in 1 .. n /\ b \in 1 .. n /\ a # b
         /\ i = q + a - 1 /\ j = q + b - 1
    <3>1. q \in Nat /\ L \in Nat /\ n \in Nat /\ q = L - n + 1
      BY <1>1, <1>6, <2>1, <2>2
    <3>2. i \in q .. L /\ j \in q .. L
      BY <2>1
    <3> QED
      BY <2>9, <3>1, <3>2
  <2>11. s[a] = s[b]
    BY <2>4, <2>10
  <2> QED
    BY <2>4, <2>8, <2>10, <2>11 DEF Injection, IsInjective
<1>9. \A i, j \in x + 1 .. L : i < j /\ j < i + n => trace[i] # trace[j]
  <2> DEFINE Twice(i, j) == /\ i \in x + 1 .. L /\ i < j /\ j < i + n
                            /\ trace[i] = trace[j]
  <2> DEFINE T == {j \in x + 1 .. L : \E i \in x + 1 .. L : Twice(i, j)}
  <2>1. SUFFICES ASSUME T # {} PROVE FALSE
    OBVIOUS
  <2>2. T \in SUBSET (0 .. L)
    BY <1>6
  <2>3. PICK j \in T : \A y \in T : j >= y
    <3> HIDE DEF T
    <3> QED
      BY <1>6, <2>1, <2>2, GreatestElement
  <2>4. PICK i : Twice(i, j) /\ i \in x + 1 .. L /\ j \in x + 1 .. L
    BY <2>3
  <2>5. /\ i \in Nat /\ j \in Nat /\ x + 1 <= i /\ i < j /\ j < i + n /\ j <= L
        /\ trace[i] = trace[j]
    BY <1>6, <2>4
  <2>6. x \in Nat /\ L \in Nat /\ n \in Nat /\ L - n >= x
    BY <1>1, <1>4, <1>6
  <2>7. CASE j <= L - n
    <3>1. PICK k, l : k = i + n /\ l = j + n
      OBVIOUS
    <3>2. /\ k \in x + n + 1 .. L /\ l \in x + n + 1 .. L /\ k - n = i /\ l - n = j
          /\ k < l /\ l < k + n /\ k \in x + 1 .. L /\ l \in x + 1 .. L /\ ~(j >= l)
      <4>1. n > 1
        BY <1>1
      <4> HIDE DEF Twice
      <4> QED
        BY <2>5, <2>7, <2>6, <3>1, <4>1
    <3>3. trace[k] = trace[i] /\ trace[l] = trace[j]
      BY <1>7, <3>2
    <3>4. l \in T
      BY <2>5, <3>2, <3>3
    <3> QED
      BY <2>3, <3>2, <3>4
  <2>8. CASE j > L - n /\ i > L - n
    <3>1. i \in L - n + 1 .. L /\ j \in L - n + 1 .. L
      BY <2>5, <2>8, <2>6
    <3> QED
      BY <1>8, <2>5, <3>1
  <2>9. CASE j > L - n /\ i <= L - n
    <3>1. PICK k : k = i + n
      OBVIOUS
    <3>2. /\ k \in x + n + 1 .. L /\ k - n = i /\ j < k
          /\ k \in L - n + 1 .. L /\ j \in L - n + 1 .. L
      BY <2>5, <2>9, <2>6, <3>1
    <3>3. trace[k] = trace[i]
      BY <1>7, <3>2
    <3> QED
      BY <1>8, <2>5, <3>2, <3>3
  <2> QED
    BY <1>1, <1>6, <2>5, <2>7, <2>8, <2>9
<1> QED
  BY <1>2, <1>4, <1>6, <1>7, <1>9 DEF Looping

(* What the invariant says of a loop that has gone round often enough.     *)
LEMMA LoopInvPins == LoopInv => LoopIsPinned
<1> SUFFICES ASSUME LoopInv PROVE LoopIsPinned
  OBVIOUS
<1>1. /\ trace \in Seq(Pc) /\ Len(trace) \in Nat /\ Window \in Nat
      /\ Threshold \in Nat /\ Threshold > 1 /\ Detector!Enough = Threshold + 1
      /\ Detector!Enough \in Nat /\ Detector!Enough > 1
  BY DetectorAssumption
  DEF LoopInv, RecentIsEnd, Detector!LoopAssumption, Detector!Enough
<1>2. ASSUME NEW n \in 2 .. Window, Detector!LoopsOver(n, Detector!Enough), NEW x,
             x = Len(trace) - n * Detector!Enough
      PROVE  /\ x \in 0 .. Len(trace) /\ n \in Nat /\ n > 1
             /\ Len(trace) = x + n * Threshold + n /\ n * Threshold \in Nat
             /\ Follows(n, x) /\ Enters(n, x)
  <2>1. /\ x \in 0 .. Len(trace) /\ Len(trace) = x + n * Detector!Enough
        /\ Looping(n, x)
    BY <1>1, <1>2, LoopsOverIs
  <2>2. n \in Nat /\ n > 1
    BY <1>1
  <2>3. n * Detector!Enough = n * Threshold + n /\ n * Threshold \in Nat
    BY <1>1, <2>2
  <2>4. Follows(n, x) /\ Enters(n, x)
    BY <2>1 DEF LoopInv, LoopsSeen
  <2> QED
    BY <1>1, <2>1, <2>2, <2>3, <2>4
<1>3. Detector!FreshLoopIsPinned
  <2> SUFFICES ASSUME NEW n \in 2 .. Window, Detector!LoopsOver(n, Detector!Enough),
                      Detector!EnteredFresh(n), loop_onset = None
               PROVE  FALSE
    BY DEF Detector!FreshLoopIsPinned, Detector!Bodies
  <2>1. PICK x : x = Len(trace) - n * Detector!Enough
    OBVIOUS
  <2>2. /\ x \in 0 .. Len(trace) /\ n \in Nat /\ n > 1
        /\ Len(trace) = x + n * Threshold + n /\ n * Threshold \in Nat
        /\ Follows(n, x)
    BY <1>2, <2>1
  <2>3. Fresh(x)
    <3> SUFFICES ASSUME NEW j \in 1 .. x, trace[j] = trace[x],
                        NEW i \in 1 .. j - 1, j - Window - 1 <= i
                 PROVE  trace[i] # trace[x]
      BY DEF Fresh
    <3>1. Detector!Unseen(j)
      BY <2>1 DEF Detector!EnteredFresh
    <3>2. PICK d : d = Detector!Max({1, j - Window - 1})
      OBVIOUS
    <3>3. d \in {1, j - Window - 1}
      <4>1. \E a \in {1, j - Window - 1} : \A y \in {1, j - Window - 1} : a >= y
        BY <1>1
      <4> QED
        BY <3>2, <4>1 DEF Detector!Max
    <3>4. i \in d .. j - 1
      BY <1>1, <3>3
    <3> QED
      BY <3>1, <3>2, <3>4 DEF Detector!Unseen
  <2>4. n * Threshold >= n
    <3>1. n * Threshold = n * (Threshold - 1) + n /\ n * (Threshold - 1) \in Nat
      BY <1>1, <2>2
    <3> QED
      BY <2>2, <3>1
  <2>5. ~(Len(trace) <= x + n)
    BY <1>1, <2>2, <2>4
  <2>6. PICK l \in x + 1 .. Len(trace) : Len(trace) < l + n /\ n * loop_iters >= l - x - 1
    BY <2>2, <2>3, <2>5 DEF Follows, Chased
  <2>7. loop_iters \in Nat /\ loop_iters < Threshold
    BY DEF LoopInv, Evidence
  <2>8. PICK k, a, b : k = Threshold - loop_iters - 1 /\ a = n * loop_iters /\ b = n * k
    OBVIOUS
  <2>9. k \in Nat /\ Threshold = loop_iters + (k + 1)
    BY <1>1, <2>7, <2>8
  <2>10. a \in Nat /\ b \in Nat
    BY <2>2, <2>7, <2>8, <2>9
  <2>11. n * Threshold = a + (b + n)
    <3>1. n * (loop_iters + (k + 1)) = n * loop_iters + n * (k + 1)
      BY <2>2, <2>7, <2>9
    <3>2. n * (k + 1) = n * k + n
      BY <2>2, <2>9
    <3> QED
      BY <2>8, <2>9, <3>1, <3>2
  <2>12. PICK t : t = Len(trace)
    OBVIOUS
  <2>13. /\ x \in Nat /\ n \in Nat /\ t \in Nat /\ l \in Nat
         /\ t = x + (a + (b + n)) + n /\ t < l + n /\ a >= l - x - 1
    BY <1>1, <2>2, <2>6, <2>8, <2>11, <2>12
  <2> QED
    BY <2>2, <2>10, <2>13
<1>4. Detector!TightLoopEntryIsOutside
  <2> SUFFICES ASSUME NEW n \in 2 .. Window, Detector!LoopsOver(n, Detector!Enough),
                      Len(trace) > n * Detector!Enough, loop_onset # None,
                      loop_onset.dst \notin SelfBranch
               PROVE  loop_onset.src.at <= Len(trace) - n * Detector!Enough
    BY DEF Detector!TightLoopEntryIsOutside, Detector!EntryBefore, Detector!Bodies
  <2>1. PICK x : x = Len(trace) - n * Detector!Enough
    OBVIOUS
  <2>2. /\ x \in 0 .. Len(trace) /\ n \in Nat /\ n * Threshold \in Nat
        /\ Len(trace) = x + n * Threshold + n /\ Enters(n, x)
    BY <1>2, <2>1
  <2>3. n * Detector!Enough = n * Threshold + n
    BY <1>1, <2>2
  <2>4. x > 0
    BY <1>1, <2>2, <2>3
  <2> QED
    BY <2>1, <2>2, <2>4 DEF Enters
<1> QED
  BY <1>3, <1>4 DEF LoopIsPinned, Detector!LoopIsPinned

(* Whatever runs, and however often the ring is cleared or resized: a loop *)
(* of no more addresses than the window has instructions is pinned once it *)
(* has gone round often enough, if it was entered from an address that had *)
(* never come round itself; and what is pinned as its entry ran before it, *)
(* for any window and any threshold (delta_ring.rs, detect_loop_onset).    *)
THEOREM LoopsArePinned == UndoSpec => []LoopIsPinned
<1>1. UndoInit => LoopInv
  <2> SUFFICES ASSUME UndoInit PROVE LoopInv
    OBVIOUS
  <2>1. /\ trace = << >> /\ recent = << >> /\ cand_dst = None /\ loop_iters = 0
        /\ loop_onset = None
    BY DEF UndoInit, Detector!Init
  <2>2. /\ Window \in Nat /\ Threshold \in Nat /\ Threshold > 1 /\ Len(trace) = 0
    BY <2>1, DetectorAssumption DEF Detector!LoopAssumption
  <2>3. RecentIsEnd /\ Evidence
    BY <2>1, <2>2 DEF RecentIsEnd, Evidence
  <2>4. LoopsSeen
    <3> SUFFICES ASSUME NEW n \in 2 .. Window, NEW x \in 0 .. Len(trace)
                 PROVE  Follows(n, x) /\ Enters(n, x)
      BY DEF LoopsSeen
    <3>1. x = 0 /\ n \in Nat
      BY <2>2
    <3> QED
      BY <2>1, <2>2, <3>1 DEF Follows, Enters
  <2> QED
    BY <2>3, <2>4 DEF LoopInv
<1>2. LoopInv /\ [SlabStep \/ DetectorStep]_<<half, vars, detector>> => LoopInv'
  <2>1. [SlabStep \/ DetectorStep]_<<half, vars, detector>> => [Detector!Next]_(Detector!vars)
    BY DEF SlabStep, DetectorStep, detector, Detector!vars
  <2> QED
    BY <2>1, LoopInvNext
<1> QED
  BY <1>1, <1>2, LoopInvPins, PTL DEF UndoSpec
===============================================================================
