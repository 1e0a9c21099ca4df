------------------------ MODULE FlightRecorder_proofs ------------------------
(***************************************************************************)
(* Proofs about the flight recorder, for every slab, every set of anchor   *)
(* sizes, any disks and any number of versions kept; and about the traces  *)
(* of runs, for any clients, paths and failures.                           *)
(***************************************************************************)
EXTENDS Recordings, SequenceTheorems, TLAPS

(* Two bytes written less than a slab apart fall into different positions. *)
LEMMA PositionsDiffer ==
    ASSUME NEW c \in Nat \ {0}, NEW i \in Nat, NEW j \in Nat, i < j, j < i + c
    PROVE  i % c # j % c
<1>1. i = c * (i \div c) + (i % c) /\ j = c * (j \div c) + (j % c)
  OBVIOUS
<1>2. i \div c \in Int /\ j \div c \in Int
  OBVIOUS
<1>3. SUFFICES ASSUME i % c = j % c PROVE FALSE
  OBVIOUS
<1> DEFINE d == (j \div c) - (i \div c)
<1>4. d \in Int /\ j - i = c * d
  <2>1. c * (j \div c) - c * (i \div c) = c * ((j \div c) - (i \div c))
    BY <1>2
  <2> QED
    BY <1>1, <1>2, <1>3, <2>1
<1> HIDE DEF d
<1>5. d <= 0 => c * d <= 0
  BY <1>4
<1>6. d >= 1 => c * d >= c
  BY <1>4
<1> QED
  BY <1>4, <1>5, <1>6

LEMMA Divided ==
    ASSUME NEW c \in Nat \ {0}, NEW m \in Nat
    PROVE  m = c * (m \div c) + (m % c) /\ m \div c \in Int /\ m % c \in 0 .. c - 1
  OBVIOUS

(* The bytes of a record that does not reach the slab's end.               *)
LEMMA Contiguous ==
    ASSUME NEW c \in Nat \ {0}, NEW a \in Nat, NEW k \in Nat, (a % c) + k < c
    PROVE  (a + k) % c = (a % c) + k
<1> DEFINE q == a \div c
           p == a % c
<1>1. a = c * q + p /\ q \in Nat /\ p \in 0 .. c - 1
  OBVIOUS
<1> DEFINE r == (a + k) \div c
           s == (a + k) % c
<1>2. a + k = c * r + s /\ r \in Nat /\ s \in 0 .. c - 1
  OBVIOUS
<1> HIDE DEF q, p, r, s
<1>3. c * r - c * q = c * (r - q) /\ r - q \in Int
  BY <1>1, <1>2
<1>4. (a + k) - a = c * (r - q) + s - p
  BY <1>1, <1>2, <1>3
<1>5. r - q >= 1 => c * (r - q) >= c
  BY <1>3
<1>6. r - q <= -1 => c * (r - q) <= -c
  BY <1>3
<1>7. p + k < c
  BY DEF p
<1>8. r - q = 0
  BY <1>1, <1>2, <1>3, <1>4, <1>5, <1>6, <1>7
<1>9. c * (r - q) = 0
  BY <1>8
<1>10. s = p + k
  BY <1>1, <1>2, <1>4, <1>9
<1> QED
  BY <1>10 DEF s, p

LEMMA MultipleOf ==
    ASSUME NEW c \in Nat \ {0}, NEW a \in Nat
    PROVE  a + (c - (a % c)) \in Nat /\ (a + (c - (a % c))) % c = 0
           /\ a + (c - (a % c)) > a
<1> DEFINE q == a \div c
           p == a % c
<1>1. a = c * q + p /\ q \in Nat /\ p \in 0 .. c - 1
  OBVIOUS
<1> HIDE DEF q, p
<1>2. c * (q + 1) = c * q + c
  BY <1>1
<1>3. a + (c - p) = c * (q + 1)
  BY <1>1, <1>2
<1>4. (c * (q + 1)) % c = 0
  <2> DEFINE m == c * (q + 1)
             u == m \div c
             v == m % c
  <2>1. m \in Nat
    BY <1>1
  <2>2. m = c * u + v /\ u \in Int /\ v \in 0 .. c - 1
    BY <2>1, Divided
  <2> HIDE DEF u, v
  <2>3. c * (q + 1) - c * u = c * ((q + 1) - u) /\ (q + 1) - u \in Int
    BY <1>1, <2>2
  <2>4. v = c * ((q + 1) - u)
    BY <2>2, <2>3
  <2>5. (q + 1) - u >= 1 => c * ((q + 1) - u) >= c
    BY <2>3
  <2>6. (q + 1) - u <= -1 => c * ((q + 1) - u) <= -c
    BY <2>3
  <2>7. (q + 1) - u = 0
    BY <2>2, <2>3, <2>4, <2>5, <2>6
  <2>8. c * ((q + 1) - u) = 0
    BY <2>7
  <2>9. v = 0
    BY <2>4, <2>8
  <2> QED
    BY <2>9 DEF v
<1> QED
  BY <1>1, <1>3, <1>4 DEF p

-----------------------------------------------------------------------------
(* What a recorder and its entries are.                                    *)

AnchorEntry == [seq : Nat, abs : Nat, phys : Positions, len : Nat \ {0}, disk_gen : Nat,
                wasDisk : Contents, wasProfile : Profiles]
Recorder == [lastGen : Int, slab : [Positions -> {Empty} \cup (Nat \X Nat)], writeAbs : Nat,
             entries : SUBSET AnchorEntry, versions : Seq([gen : Nat, bytes : Disks]),
             nextSeq : Nat]

(* An entry whose bytes are where it says, within the slab's reach.        *)
InPlace(r, e) ==
    /\ e.phys = e.abs % Capacity /\ e.phys + e.len <= Capacity
    /\ e.abs + e.len <= r.writeAbs /\ e.abs >= r.writeAbs - Capacity
    /\ \A k \in 0 .. e.len - 1 : r.slab[e.phys + k] = <<e.seq, k>>
Intact(r) == \A e \in r.entries : InPlace(r, e)

Typed == /\ recorder \in Recorder
         /\ disk \in Contents /\ profile \in Profiles
         /\ diskGen \in Nat /\ diskHash \in Contents

LEMMA NewIsEmpty ==
    /\ NewRecorder \in Recorder /\ NewRecorder.entries = {} /\ NewRecorder.versions = << >>
    /\ NewRecorder.lastGen = -1
  BY DEF NewRecorder, Recorder

(* Where a record goes: behind all that was written, in one run.           *)
LEMMA StartFits ==
    ASSUME NEW r \in Recorder, NEW len \in Nat \ {0}, len <= Capacity
    PROVE  /\ Start(r, len) \in Nat /\ Start(r, len) >= r.writeAbs
           /\ Start(r, len) % Capacity \in Positions
           /\ (Start(r, len) % Capacity) + len <= Capacity
<1> USE RecorderAssumption
<1> DEFINE w == r.writeAbs
<1>1. w \in Nat
  BY DEF Recorder
<1>2. w % Capacity \in 0 .. Capacity - 1
  BY <1>1, Divided
<1>3. CASE (w % Capacity) + len > Capacity
  <2>1. Start(r, len) = w + (Capacity - (w % Capacity))
    BY <1>3 DEF Start
  <2>2. Start(r, len) \in Nat /\ Start(r, len) % Capacity = 0 /\ Start(r, len) > w
    BY <1>1, <2>1, MultipleOf
  <2> QED
    BY <1>1, <2>2 DEF Positions
<1>4. CASE ~((w % Capacity) + len > Capacity)
  <2>1. Start(r, len) = w
    BY <1>4 DEF Start
  <2> QED
    BY <1>1, <1>2, <1>4, <2>1 DEF Positions
<1> QED
  BY <1>3, <1>4

LEMMA EntryIsTyped ==
    ASSUME Typed, NEW r \in Recorder, NEW len \in Nat \ {0}, len <= Capacity, NEW gen \in Nat
    PROVE  Entry(r, len, gen) \in AnchorEntry
<1>1. r.nextSeq \in Nat
  BY DEF Recorder
<1> QED
  BY <1>1, StartFits DEF Entry, AnchorEntry, Typed

LEMMA PutAnchorFields ==
    ASSUME Typed, NEW r \in Recorder, NEW len \in Nat \ {0}, len <= Capacity, NEW gen \in Nat,
           NEW e, e = Entry(r, len, gen), NEW s, s = PutAnchor(r, len, gen)
    PROVE  /\ s \in Recorder
           /\ s.entries = {x \in r.entries \cup {e} : Alive(x, e.abs + len)}
           /\ s.writeAbs = e.abs + len
           /\ \A p \in Positions : s.slab[p] = IF p \in e.phys .. e.phys + len - 1
                                              THEN <<e.seq, p - e.phys>> ELSE r.slab[p]
           /\ s.versions = r.versions /\ s.lastGen = r.lastGen
<1> DEFINE slab == [p \in Positions |-> IF p \in e.phys .. e.phys + len - 1
                                        THEN <<e.seq, p - e.phys>> ELSE r.slab[p]]
           entries == {x \in r.entries \cup {e} : Alive(x, e.abs + len)}
<1>1. s = [r EXCEPT !.slab = slab, !.writeAbs = e.abs + len, !.entries = entries,
                    !.nextSeq = r.nextSeq + 1]
  BY DEF PutAnchor, Recorder
<1>2. e \in AnchorEntry
  BY EntryIsTyped
<1>3. slab \in [Positions -> {Empty} \cup (Nat \X Nat)]
  <2>1. ASSUME NEW p \in Positions, p \in e.phys .. e.phys + len - 1
        PROVE  <<e.seq, p - e.phys>> \in Nat \X Nat
    BY <1>2, <2>1 DEF AnchorEntry, Positions
  <2>2. \A p \in Positions : r.slab[p] \in {Empty} \cup (Nat \X Nat)
    BY DEF Recorder
  <2> QED
    BY <2>1, <2>2
<1>4. entries \in SUBSET AnchorEntry
  BY <1>2 DEF Recorder
<1>5. e.abs + len \in Nat /\ r.nextSeq + 1 \in Nat
  BY <1>2 DEF AnchorEntry, Recorder
<1> HIDE DEF slab, entries
<1>6. s \in Recorder
  BY <1>1, <1>3, <1>4, <1>5 DEF Recorder
<1>7. /\ s.entries = entries /\ s.writeAbs = e.abs + len /\ s.slab = slab
      /\ s.versions = r.versions /\ s.lastGen = r.lastGen
  BY <1>1 DEF Recorder
<1>8. \A p \in Positions : s.slab[p] = IF p \in e.phys .. e.phys + len - 1
                                      THEN <<e.seq, p - e.phys>> ELSE r.slab[p]
  BY <1>7 DEF slab
<1>9. s.entries = {x \in r.entries \cup {e} : Alive(x, e.abs + len)}
  BY <1>7 DEF entries
<1>10. /\ s \in Recorder /\ s.writeAbs = e.abs + len
       /\ s.versions = r.versions /\ s.lastGen = r.lastGen
  BY <1>6, <1>7
<1> QED
  BY <1>8, <1>9, <1>10

(* Writing an anchor leaves the bytes of every entry it keeps where they   *)
(* are.                                                                    *)
LEMMA PutAnchorIntact ==
    ASSUME Typed, NEW r \in Recorder, Intact(r), NEW len \in Nat \ {0}, len <= Capacity,
           NEW gen \in Nat
    PROVE  Intact(PutAnchor(r, len, gen))
<1> USE RecorderAssumption
<1> DEFINE e == Entry(r, len, gen)
           s == PutAnchor(r, len, gen)
<1>1. /\ s.entries = {x \in r.entries \cup {e} : Alive(x, e.abs + len)}
      /\ s.writeAbs = e.abs + len
      /\ \A p \in Positions : s.slab[p] = IF p \in e.phys .. e.phys + len - 1
                                         THEN <<e.seq, p - e.phys>> ELSE r.slab[p]
  <2> HIDE DEF e, s
  <2> QED
    BY PutAnchorFields DEF e, s
<1>2. /\ e.abs \in Nat /\ e.abs >= r.writeAbs /\ e.phys = e.abs % Capacity
      /\ e.phys \in Positions /\ e.phys + len <= Capacity /\ e.len = len
  BY StartFits DEF Entry
<1>3. InPlace(s, e)
  <2>1. \A k \in 0 .. len - 1 : e.phys + k \in Positions /\ (e.phys + k) - e.phys = k
                                /\ e.phys + k \in e.phys .. e.phys + len - 1
    BY <1>2 DEF Positions
  <2>2. \A k \in 0 .. e.len - 1 : s.slab[e.phys + k] = <<e.seq, k>>
    BY <1>1, <1>2, <2>1
  <2>3. e.abs + e.len <= s.writeAbs /\ e.abs >= s.writeAbs - Capacity
    BY <1>1, <1>2 DEF Positions
  <2> QED
    BY <1>2, <2>2, <2>3 DEF InPlace
<1>4. ASSUME NEW x \in r.entries, Alive(x, e.abs + len) PROVE InPlace(s, x)
  <2>1. /\ x.abs \in Nat /\ x.len \in Nat \ {0} /\ x.phys \in Positions /\ r.writeAbs \in Nat
    BY DEF Recorder, AnchorEntry
  <2>2. InPlace(r, x)
    BY DEF Intact
  <2>3. x.abs >= (e.abs + len) - Capacity
    BY <1>4 DEF Alive
  <2>4. ASSUME NEW k \in 0 .. x.len - 1, x.phys + k \in e.phys .. e.phys + len - 1 PROVE FALSE
    <3> DEFINE j == (x.phys + k) - e.phys
    <3>1. j \in 0 .. len - 1 /\ k \in Nat /\ e.phys + j = x.phys + k
      BY <1>2, <2>1, <2>4 DEF Positions
    <3> HIDE DEF j
    <3>2. (x.abs + k) % Capacity = x.phys + k
      BY <2>1, <2>2, <3>1, Contiguous DEF InPlace
    <3>3. (e.abs + j) % Capacity = e.phys + j
      BY <1>2, <3>1, Contiguous
    <3>4. x.abs + k < e.abs + j /\ e.abs + j < (x.abs + k) + Capacity
      BY <1>2, <2>1, <2>2, <2>3, <3>1 DEF InPlace
    <3>5. x.abs + k \in Nat /\ e.abs + j \in Nat
      BY <1>2, <2>1, <3>1
    <3> QED
      BY <3>1, <3>2, <3>3, <3>4, <3>5, PositionsDiffer
  <2>5. \A k \in 0 .. x.len - 1 : x.phys + k \in Positions
    BY <2>1, <2>2 DEF InPlace, Positions
  <2>6. \A k \in 0 .. x.len - 1 : s.slab[x.phys + k] = <<x.seq, k>>
    BY <1>1, <2>2, <2>4, <2>5 DEF InPlace
  <2>7. x.abs + x.len <= s.writeAbs /\ x.abs >= s.writeAbs - Capacity
    BY <1>1, <1>2, <2>1, <2>2, <2>3 DEF InPlace
  <2> QED
    BY <2>2, <2>6, <2>7 DEF InPlace
<1> QED
  BY <1>1, <1>3, <1>4 DEF Intact

(* What is written of a capture: the anchor, or nothing.                   *)
LEMMA WriteAnchorKeeps ==
    ASSUME Typed, NEW r \in Recorder, NEW len \in Sizes, NEW gen \in Nat,
           NEW w, w = WriteAnchor(r, len, gen)
    PROVE  /\ w \in Recorder
           /\ Intact(r) => Intact(w)
           /\ \A x \in w.entries : x \in r.entries \/ (x.disk_gen = gen /\ x.wasDisk = disk)
           /\ w.versions = r.versions /\ w.lastGen = r.lastGen
<1>1. len \in Nat \ {0}
  BY RecorderAssumption
<1>2. Entry(r, len, gen).disk_gen = gen /\ Entry(r, len, gen).wasDisk = disk
  BY DEF Entry
<1>3. CASE len <= Slot /\ len <= Capacity
  <2> DEFINE e == Entry(r, len, gen)
             s == PutAnchor(r, len, gen)
  <2>1. /\ s \in Recorder /\ s.entries = {x \in r.entries \cup {e} : Alive(x, e.abs + len)}
        /\ s.versions = r.versions /\ s.lastGen = r.lastGen
    BY <1>1, <1>3, PutAnchorFields
  <2>2. Intact(r) => Intact(s)
    BY <1>1, <1>3, PutAnchorIntact
  <2>3. WriteAnchor(r, len, gen) = s
    BY <1>3 DEF WriteAnchor
  <2> QED
    BY <1>2, <2>1, <2>2, <2>3
<1>4. CASE ~(len <= Slot /\ len <= Capacity)
  BY <1>4 DEF WriteAnchor
<1> QED
  BY <1>3, <1>4

-----------------------------------------------------------------------------
(* The disk's versions.                                                    *)

AtMost(n, k) == IF n <= k THEN n ELSE k

(* The versions are the last generations, all of those there were if they  *)
(* are few, the newest the disk last seen; an entry's disk is that of its  *)
(* generation.                                                             *)
VersionsOK(r, gen, hash) ==
    /\ Len(r.versions) = AtMost(gen, MediumKeep)
    /\ \A i \in 1 .. Len(r.versions) : r.versions[i].gen = gen - Len(r.versions) + i
    /\ gen = 0 <=> hash = NoDisk
    /\ gen > 0 => r.versions[Len(r.versions)].bytes = hash
    /\ r.lastGen = IF gen = 0 THEN -1 ELSE gen
EntriesOK(r, gen) ==
    \A e \in r.entries :
        /\ e.disk_gen \in 0 .. gen /\ (e.disk_gen = 0 <=> e.wasDisk = NoDisk)
        /\ \A i \in 1 .. Len(r.versions) :
               r.versions[i].gen = e.disk_gen => r.versions[i].bytes = e.wasDisk

LEMMA VersionsTyped ==
    ASSUME NEW r \in Recorder
    PROVE  /\ r.versions \in Seq([gen : Nat, bytes : Disks]) /\ Len(r.versions) \in Nat
           /\ DOMAIN r.versions = 1 .. Len(r.versions)
           /\ \A i \in 1 .. Len(r.versions) : r.versions[i].gen \in Nat
<1> DEFINE V == [gen : Nat, bytes : Disks]
<1>1. r.versions \in Seq(V)
  BY DEF Recorder
<1>2. \A v \in V : v.gen \in Nat
  OBVIOUS
<1> HIDE DEF V
<1>3. /\ Len(r.versions) \in Nat /\ DOMAIN r.versions = 1 .. Len(r.versions)
      /\ \A i \in 1 .. Len(r.versions) : r.versions[i] \in V
  BY <1>1
<1> QED
  BY <1>1, <1>2, <1>3 DEF V

LEMMA TrimKeeps ==
    ASSUME NEW V, NEW list \in Seq(V)
    PROVE  /\ Trim(list) \in Seq(V) /\ Len(Trim(list)) = AtMost(Len(list), MediumKeep)
           /\ \A i \in 1 .. Len(Trim(list)) :
                 Trim(list)[i] = list[Len(list) - Len(Trim(list)) + i]
<1> USE RecorderAssumption
<1>n. PICK n : n = Len(list)
  OBVIOUS
<1>m. PICK m : m = AtMost(n, MediumKeep)
  OBVIOUS
<1>1. n \in Nat /\ \A i \in 1 .. n : list[i] \in V
  BY <1>n
<1>2. CASE n > MediumKeep
  <2> DEFINE first == n - MediumKeep + 1
  <2>1. Trim(list) = SubSeq(list, first, n) /\ m = MediumKeep
    BY <1>n, <1>m, <1>1, <1>2 DEF Trim, AtMost
  <2>2. first \in 1 .. n /\ n - first + 1 = MediumKeep
    BY <1>1, <1>2
  <2> HIDE DEF first
  <2>3. \A i \in first .. n : list[i] \in V
    BY <1>1, <2>2
  <2>4. /\ SubSeq(list, first, n) \in Seq(V)
        /\ Len(SubSeq(list, first, n)) = n - first + 1
        /\ \A i \in 1 .. n - first + 1 : SubSeq(list, first, n)[i] = list[first + i - 1]
    BY <1>1, <2>2, <2>3, SubSeqProperties
  <2>5. \A i \in 1 .. m : first + i - 1 = n - m + i
    BY <1>1, <2>1, <2>2
  <2> QED
    BY <1>n, <1>m, <2>1, <2>2, <2>4, <2>5
<1>3. CASE n <= MediumKeep
  <2>1. Trim(list) = list /\ m = n
    BY <1>n, <1>m, <1>1, <1>3 DEF Trim, AtMost
  <2>2. \A i \in 1 .. m : n - m + i = i
    BY <1>1, <2>1
  <2> QED
    BY <1>n, <1>m, <2>1, <2>2
<1> QED
  BY <1>1, <1>2, <1>3

LEMMA AppendVersion ==
    ASSUME NEW r \in Recorder, NEW gen \in Nat, disk \in Disks, NEW n, n = Len(r.versions),
           NEW new, new = [gen |-> gen + 1, bytes |-> disk],
           NEW list, list = Append(r.versions, new)
    PROVE  /\ list \in Seq([gen : Nat, bytes : Disks]) /\ Len(list) = n + 1
           /\ list[n + 1] = new /\ \A i \in 1 .. n : list[i] = r.versions[i]
<1> DEFINE V == [gen : Nat, bytes : Disks]
<1>1. new \in V
  OBVIOUS
<1>2. r.versions \in Seq(V)
  BY VersionsTyped
<1> HIDE DEF V
<1>3. /\ list \in Seq(V) /\ Len(list) = n + 1
      /\ list[n + 1] = new /\ \A i \in 1 .. n : list[i] = r.versions[i]
  BY <1>1, <1>2, AppendProperties
<1> QED
  BY <1>3 DEF V

(* A generation that is new is appended, and the oldest one let go.        *)
LEMMA ShipNew ==
    ASSUME NEW r \in Recorder, NEW gen \in Nat, NEW hash, VersionsOK(r, gen, hash),
           disk \in Disks, NEW s, s = ShipDisk(r, gen + 1)
    PROVE  /\ s \in Recorder /\ s.entries = r.entries /\ s.writeAbs = r.writeAbs
           /\ s.slab = r.slab /\ s.lastGen = gen + 1
           /\ s.versions = Trim(Append(r.versions, [gen |-> gen + 1, bytes |-> disk]))
<1> DEFINE new == [gen |-> gen + 1, bytes |-> disk]
           list == Trim(Append(r.versions, new))
<1>1. ~Stored(r, gen + 1)
  <2> DEFINE n == Len(r.versions)
  <2>1. n \in Nat /\ DOMAIN r.versions = 1 .. n
    BY VersionsTyped
  <2>2. \A i \in 1 .. n : r.versions[i].gen = gen - n + i
    BY DEF VersionsOK
  <2> HIDE DEF n
  <2>3. \A i \in 1 .. n : gen - n + i # gen + 1
    BY <2>1
  <2> QED
    BY <2>1, <2>2, <2>3 DEF Stored
<1>2. gen + 1 # r.lastGen
  BY DEF VersionsOK
<1>3. s = [r EXCEPT !.lastGen = gen + 1, !.versions = list]
  BY <1>1, <1>2 DEF ShipDisk, Recorder
<1>4. Append(r.versions, new) \in Seq([gen : Nat, bytes : Disks])
  BY AppendVersion
<1>5. list \in Seq([gen : Nat, bytes : Disks])
  BY <1>4, TrimKeeps
<1> HIDE DEF list
<1>6. /\ r.slab \in [Positions -> {Empty} \cup (Nat \X Nat)] /\ r.writeAbs \in Nat
      /\ r.entries \in SUBSET AnchorEntry /\ r.nextSeq \in Nat
  BY DEF Recorder
<1>7. s = [lastGen |-> gen + 1, slab |-> r.slab, writeAbs |-> r.writeAbs,
           entries |-> r.entries, versions |-> list, nextSeq |-> r.nextSeq]
  BY <1>3 DEF Recorder
<1>8. s \in Recorder
  BY <1>5, <1>6, <1>7 DEF Recorder
<1>9. /\ s.entries = r.entries /\ s.writeAbs = r.writeAbs /\ s.slab = r.slab
      /\ s.lastGen = gen + 1 /\ s.versions = list
  BY <1>7
<1> QED
  BY <1>8, <1>9 DEF list

LEMMA VersionsGrow ==
    ASSUME NEW r \in Recorder, NEW s \in Recorder, NEW gen \in Nat, NEW hash,
           VersionsOK(r, gen, hash), EntriesOK(r, gen), disk \in Disks,
           NEW new, new = [gen |-> gen + 1, bytes |-> disk],
           NEW list, list = Append(r.versions, new), s.versions = Trim(list),
           s.lastGen = gen + 1, NEW n, n = Len(r.versions), NEW m, m = AtMost(n + 1, MediumKeep),
           \A x \in s.entries : x \in r.entries \/ (x.disk_gen = gen + 1 /\ x.wasDisk = disk)
    PROVE  VersionsOK(s, gen + 1, disk) /\ EntriesOK(s, gen + 1)
<1> USE RecorderAssumption
<1>1. n \in Nat /\ n = AtMost(gen, MediumKeep) /\ disk # NoDisk
  BY VersionsTyped DEF VersionsOK
<1>v. PICK V : V = [gen : Nat, bytes : Disks]
  OBVIOUS
<1>2. /\ list \in Seq(V) /\ Len(list) = n + 1 /\ list[n + 1] = new
      /\ \A i \in 1 .. n : list[i] = r.versions[i]
  <2>1. r.versions \in Seq(V)
    BY <1>v, VersionsTyped
  <2>2. new \in [gen : Nat, bytes : Disks]
    OBVIOUS
  <2>3. new \in V
    BY <1>v, <2>2
  <2> QED
    BY <2>1, <2>3, AppendProperties
<1>3. \A i \in 1 .. n + 1 : list[i].gen = gen - n + i
  <2>1. \A i \in 1 .. n : r.versions[i].gen = gen - n + i
    BY DEF VersionsOK
  <2>2. new.gen = gen - n + (n + 1)
    BY <1>1
  <2>3. \A i \in 1 .. n + 1 : i \in 1 .. n \/ i = n + 1
    BY <1>1
  <2> QED
    BY <1>2, <2>1, <2>2, <2>3
<1>4. m = AtMost(gen + 1, MediumKeep) /\ m \in 1 .. n + 1
  BY <1>1 DEF AtMost
<1>5. /\ Len(s.versions) = m
      /\ \A i \in 1 .. m : s.versions[i] = list[n + 1 - m + i]
  <2>1. m = AtMost(Len(list), MediumKeep)
    BY <1>2
  <2>2. /\ Len(Trim(list)) = m
        /\ \A i \in 1 .. m : Trim(list)[i] = list[Len(list) - m + i]
    <3>1. list \in Seq(V)
      BY <1>2
    <3>2. /\ Len(Trim(list)) = AtMost(Len(list), MediumKeep)
          /\ \A i \in 1 .. Len(Trim(list)) :
                Trim(list)[i] = list[Len(list) - Len(Trim(list)) + i]
      BY <3>1, TrimKeeps, ZenonT(30)
    <3>3. Len(Trim(list)) = m
      BY <2>1, <3>2
    <3>4. ASSUME NEW i \in 1 .. m PROVE Trim(list)[i] = list[Len(list) - m + i]
      <4>1. Trim(list)[i] = list[Len(list) - Len(Trim(list)) + i]
        BY <3>2, <3>3
      <4> QED
        BY <3>3, <4>1
    <3> QED
      BY <3>3, <3>4
  <2>3. ASSUME NEW i \in 1 .. m PROVE s.versions[i] = list[n + 1 - m + i]
    <3>1. s.versions[i] = list[Len(list) - m + i]
      BY <2>2
    <3>2. Len(list) - m + i = n + 1 - m + i
      <4>1. Len(list) = n + 1
        BY <1>2
      <4>2. n \in Int /\ m \in Int
        BY <1>1, <1>4
      <4> QED
        BY <4>1, <4>2
    <3> QED
      BY <3>1, <3>2
  <2> QED
    BY <2>2, <2>3
<1>6. \A i \in 1 .. m : n + 1 - m + i \in 1 .. n + 1
  BY <1>1, <1>4
<1>7. \A i \in 1 .. m : s.versions[i].gen = (gen + 1) - m + i
  <2> SUFFICES ASSUME NEW i \in 1 .. m PROVE s.versions[i].gen = (gen + 1) - m + i
    OBVIOUS
  <2>1. PICK j : j = n + 1 - m + i
    OBVIOUS
  <2>2. j \in 1 .. n + 1 /\ s.versions[i] = list[j]
    BY <1>5, <1>6, <2>1
  <2>3. gen - n + j = (gen + 1) - m + i
    BY <1>1, <1>4, <2>1, SMTT(30)
  <2> QED
    BY <1>3, <2>2, <2>3
<1>8. s.versions[m].bytes = disk
  BY <1>1, <1>2, <1>4, <1>5, SMTT(30)
<1>9. VersionsOK(s, gen + 1, disk)
  <2>1. Len(s.versions) = AtMost(gen + 1, MediumKeep)
    BY <1>4, <1>5
  <2>2. gen + 1 # 0 /\ gen + 1 > 0
    OBVIOUS
  <2> QED
    BY <1>1, <1>5, <1>7, <1>8, <2>1, <2>2 DEF VersionsOK
<1>10. ASSUME NEW e \in s.entries, NEW i \in 1 .. m, s.versions[i].gen = e.disk_gen
       PROVE  s.versions[i].bytes = e.wasDisk
  <2>1. PICK j \in 1 .. n + 1 : s.versions[i] = list[j] /\ list[j].gen = gen - n + j
    BY <1>3, <1>5, <1>6
  <2>2. CASE e \in r.entries
    <3>1. e.disk_gen \in 0 .. gen
      BY <2>2 DEF EntriesOK
    <3>2. j \in 1 .. n
      <4>1. gen - n + j = e.disk_gen
        BY <1>10, <2>1
      <4>2. gen - n + j <= gen
        BY <3>1, <4>1
      <4> QED
        BY <1>1, <4>2
    <3>3. list[j] = r.versions[j]
      BY <1>2, <3>2
    <3> QED
      BY <1>10, <2>1, <2>2, <3>2, <3>3, SMTT(30) DEF EntriesOK
  <2>3. CASE e.disk_gen = gen + 1 /\ e.wasDisk = disk
    <3>1. j = n + 1
      <4>1. gen - n + j = gen + 1
        BY <1>10, <2>1, <2>3
      <4> QED
        BY <1>1, <4>1
    <3> QED
      BY <1>2, <2>1, <2>3, <3>1
  <2> QED
    BY <2>2, <2>3
<1>11. ASSUME NEW e \in s.entries
       PROVE  e.disk_gen \in 0 .. gen + 1 /\ (e.disk_gen = 0 <=> e.wasDisk = NoDisk)
  BY <1>1, <1>11 DEF EntriesOK
<1> QED
  BY <1>5, <1>9, <1>10, <1>11 DEF EntriesOK

(* The same versions, and entries of the disk last seen, or of none.       *)
LEMMA VersionsStay ==
    ASSUME NEW r \in Recorder, NEW s \in Recorder, NEW gen \in Nat, NEW hash,
           VersionsOK(r, gen, hash), EntriesOK(r, gen),
           s.versions = r.versions, s.lastGen = r.lastGen, NEW n, n = Len(r.versions),
           \A x \in s.entries :
              \/ x \in r.entries
              \/ x.disk_gen = 0 /\ x.wasDisk = NoDisk
              \/ x.disk_gen = gen /\ x.wasDisk = hash
    PROVE  VersionsOK(s, gen, hash) /\ EntriesOK(s, gen)
<1> USE RecorderAssumption
<1>1. n \in Nat /\ n <= gen
  BY VersionsTyped DEF VersionsOK, AtMost
<1>2. VersionsOK(s, gen, hash)
  BY DEF VersionsOK
<1>3. ASSUME NEW e \in s.entries, NEW i \in 1 .. n, s.versions[i].gen = e.disk_gen
      PROVE  s.versions[i].bytes = e.wasDisk
  <2>1. s.versions[i].gen = gen - n + i /\ i \in 1 .. n
    BY <1>3 DEF VersionsOK
  <2>2. CASE e \in r.entries
    BY <1>3, <2>2 DEF EntriesOK
  <2>3. CASE e.disk_gen = 0
    <3>1. gen - n + i >= 1
      BY <1>1
    <3>2. gen - n + i = 0
      BY <1>3, <2>1, <2>3
    <3> QED
      BY <3>1, <3>2
  <2>4. CASE e.disk_gen = gen /\ e.wasDisk = hash
    <3>1. i = n /\ gen > 0
      <4>1. gen - n + i = gen
        BY <1>3, <2>1, <2>4
      <4> QED
        BY <1>1, <4>1
    <3> QED
      BY <2>4, <3>1 DEF VersionsOK
  <2> QED
    BY <1>3, <2>2, <2>3, <2>4
<1>4. ASSUME NEW e \in s.entries
      PROVE  e.disk_gen \in 0 .. gen /\ (e.disk_gen = 0 <=> e.wasDisk = NoDisk)
  BY <1>4 DEF EntriesOK, VersionsOK
<1> QED
  BY <1>2, <1>3, <1>4 DEF EntriesOK

-----------------------------------------------------------------------------
(* A capture, and the steps.                                               *)

Kept(r, gen, hash) ==
    r \in Recorder /\ Intact(r) /\ VersionsOK(r, gen, hash) /\ EntriesOK(r, gen)

LEMMA CaptureKeeps ==
    ASSUME Typed, NEW r, NEW gen \in Nat, NEW hash \in Contents, Kept(r, gen, hash),
           NEW len \in Sizes, CaptureInto(r, len, gen, hash)
    PROVE  diskGen' \in Nat /\ diskHash' \in Contents /\ Kept(recorder', diskGen', diskHash')
<1> USE DEF Kept
<1>1. CASE disk = NoDisk
  <2>1. recorder' = WriteAnchor(r, len, 0) /\ diskGen' = gen /\ diskHash' = hash
    BY <1>1 DEF CaptureInto
  <2>2. /\ recorder' \in Recorder /\ Intact(recorder')
        /\ recorder'.versions = r.versions /\ recorder'.lastGen = r.lastGen
        /\ \A x \in recorder'.entries :
              x \in r.entries \/ (x.disk_gen = 0 /\ x.wasDisk = NoDisk)
    BY <1>1, <2>1, WriteAnchorKeeps
  <2>3. VersionsOK(recorder', gen, hash) /\ EntriesOK(recorder', gen)
    BY <2>2, VersionsStay
  <2> QED
    BY <2>1, <2>2, <2>3
<1>2. CASE disk # NoDisk /\ disk = hash
  <2>1. gen > 0 /\ r.lastGen = gen
    BY <1>2 DEF VersionsOK
  <2>2. PICK w : w = WriteAnchor(r, len, gen)
    OBVIOUS
  <2>3. /\ w \in Recorder /\ Intact(w) /\ w.versions = r.versions /\ w.lastGen = r.lastGen
        /\ \A x \in w.entries : x \in r.entries \/ (x.disk_gen = gen /\ x.wasDisk = disk)
    BY <2>2, WriteAnchorKeeps
  <2>4. recorder' = ShipDisk(w, gen) /\ diskGen' = gen /\ diskHash' = disk
    BY <1>2, <2>2 DEF CaptureInto, Bumped
  <2>5. recorder' = w
    BY <2>1, <2>3, <2>4 DEF ShipDisk
  <2>6. VersionsOK(w, gen, hash) /\ EntriesOK(w, gen)
    BY <1>2, <2>3, VersionsStay
  <2> QED
    BY <1>2, <2>3, <2>4, <2>5, <2>6
<1>3. CASE disk # NoDisk /\ disk # hash
  <2>1. disk \in Disks
    BY <1>3 DEF Typed, Contents
  <2>2. PICK w : w = WriteAnchor(r, len, gen + 1)
    OBVIOUS
  <2>3. /\ w \in Recorder /\ Intact(w) /\ w.versions = r.versions /\ w.lastGen = r.lastGen
        /\ \A x \in w.entries : x \in r.entries \/ (x.disk_gen = gen + 1 /\ x.wasDisk = disk)
    BY <2>2, WriteAnchorKeeps
  <2>4. recorder' = ShipDisk(w, gen + 1) /\ diskGen' = gen + 1 /\ diskHash' = disk
    BY <1>3, <2>2 DEF CaptureInto, Bumped
  <2>5. VersionsOK(w, gen, hash)
    BY <2>3 DEF VersionsOK
  <2>6. /\ recorder' \in Recorder /\ recorder'.entries = w.entries
        /\ recorder'.writeAbs = w.writeAbs /\ recorder'.slab = w.slab
        /\ recorder'.lastGen = gen + 1
        /\ recorder'.versions = Trim(Append(r.versions, [gen |-> gen + 1, bytes |-> disk]))
    BY <2>1, <2>3, <2>4, <2>5, ShipNew
  <2>7. Intact(recorder')
    BY <2>3, <2>6 DEF Intact, InPlace
  <2>8. VersionsOK(recorder', gen + 1, disk) /\ EntriesOK(recorder', gen + 1)
    BY <2>1, <2>3, <2>6, VersionsGrow
  <2> QED
    BY <2>4, <2>6, <2>7, <2>8 DEF Typed
<1> QED
  BY <1>1, <1>2, <1>3

(* Without a recorder there is no store; a new one has seen no disk.       *)
RecorderOK == IF active THEN Kept(recorder, diskGen, diskHash) ELSE recorder = NewRecorder

LEMMA NewKept == Kept(NewRecorder, 0, NoHash)
  BY NewIsEmpty, RecorderAssumption
     DEF Kept, Intact, VersionsOK, EntriesOK, AtMost, NoHash

LEMMA InitRecorder == Init => Typed /\ RecorderOK
  BY NewIsEmpty DEF Init, Typed, RecorderOK, Contents, NoHash

LEMMA StepRecorder == Typed /\ RecorderOK /\ [Next]_vars => Typed' /\ RecorderOK'
<1> SUFFICES ASSUME Typed, RecorderOK, [Next]_vars PROVE Typed' /\ RecorderOK'
  OBVIOUS
<1>1. ASSUME active, active', UNCHANGED machine, NEW len \in Sizes,
             CaptureInto(recorder, len, diskGen, diskHash)
      PROVE  Typed' /\ RecorderOK'
  BY <1>1, CaptureKeeps DEF Typed, RecorderOK, Kept, machine
<1>2. CASE StartNew
  <2>1. PICK len \in Sizes : CaptureInto(NewRecorder, len, 0, NoHash)
    BY <1>2 DEF StartNew
  <2>2. NoHash \in Contents
    BY DEF NoHash, Contents
  <2>3. diskGen' \in Nat /\ diskHash' \in Contents /\ Kept(recorder', diskGen', diskHash')
    BY <2>1, <2>2, NewKept, CaptureKeeps
  <2> QED
    BY <1>2, <2>3 DEF StartNew, machine, Typed, RecorderOK, Kept
<1>3. CASE StartAgain \/ CaptureNow
  BY <1>1, <1>3 DEF StartAgain, CaptureNow
<1>4. CASE Frame
  BY <1>1, <1>4 DEF Frame, gens, machine, Typed, RecorderOK
<1>5. CASE Stop
  BY <1>5, NewIsEmpty DEF Stop, machine, Typed, RecorderOK, NoHash, Contents
<1>6. CASE ProjectSet
  BY <1>6, NewIsEmpty DEF ProjectSet, gens, Typed, RecorderOK, Contents
<1>7. CASE ChangeDisk \/ ChangeProfile
  BY <1>7 DEF ChangeDisk, ChangeProfile, gens, Typed, RecorderOK
<1>8. CASE UNCHANGED vars
  BY <1>8 DEF vars, machine, gens, Typed, RecorderOK
<1> QED
  BY <1>2, <1>3, <1>4, <1>5, <1>6, <1>7, <1>8 DEF Next

-----------------------------------------------------------------------------
(* The theorems.                                                           *)

(* Every anchor in the index can be read back whole, for any sizes of      *)
(* anchor and slab (anchor_store.rs:12).                                   *)
THEOREM AnchorsStayIntact == Spec => []AnchorsIntact
<1>1. RecorderOK => AnchorsIntact
  BY NewIsEmpty DEF RecorderOK, Kept, Intact, InPlace, AnchorsIntact
<1> QED
  BY <1>1, InitRecorder, StepRecorder, PTL DEF Spec

(* The version an entry's generation names, if it is still there.          *)
LEMMA VersionFound ==
    ASSUME Kept(recorder, diskGen, diskHash), Typed, NEW e \in recorder.entries, e.disk_gen > 0
    PROVE  \/ Version(e.disk_gen) = e.wasDisk
           \/ Version(e.disk_gen) = Lost /\ diskGen - e.disk_gen >= MediumKeep
<1> USE RecorderAssumption
<1>1. PICK n : n = Len(recorder.versions)
  OBVIOUS
<1>2. /\ n \in Nat /\ DOMAIN recorder.versions = 1 .. n
      /\ \A i \in 1 .. n : recorder.versions[i].gen = diskGen - n + i
  BY <1>1, VersionsTyped DEF Kept, VersionsOK
<1>3. /\ e.disk_gen \in 1 .. diskGen
      /\ \A i \in 1 .. n : recorder.versions[i].gen = e.disk_gen
                              => recorder.versions[i].bytes = e.wasDisk
  BY <1>1 DEF Kept, EntriesOK, Typed
<1>4. CASE \E i \in 1 .. n : recorder.versions[i].gen = e.disk_gen
  BY <1>2, <1>3, <1>4 DEF Version
<1>5. CASE ~ \E i \in 1 .. n : recorder.versions[i].gen = e.disk_gen
  <2>1. Version(e.disk_gen) = Lost
    BY <1>2, <1>5 DEF Version
  <2>2. PICK i : i = e.disk_gen - diskGen + n
    OBVIOUS
  <2>3. i \notin 1 .. n
    <3> SUFFICES ASSUME i \in 1 .. n PROVE FALSE
      OBVIOUS
    <3>1. diskGen - n + i = e.disk_gen
      BY <1>2, <1>3, <2>2 DEF Typed
    <3> QED
      BY <1>2, <1>5, <3>1
  <2>4. e.disk_gen <= diskGen - n
    BY <1>2, <1>3, <2>2, <2>3 DEF Typed
  <2>5. n # diskGen
    BY <1>2, <1>3, <2>4
  <2>6. n = MediumKeep
    BY <1>1, <2>5 DEF Kept, VersionsOK, AtMost
  <2> QED
    BY <1>2, <1>3, <2>1, <2>4, <2>6 DEF Typed
<1> QED
  BY <1>4, <1>5

(* A dump has the disk of the anchor's moment, or none, once the disk has  *)
(* changed as often as there are versions kept (medium_source.rs:32).      *)
THEOREM DumpsAreOfTheirMoment == Spec => []DumpIsOfItsMoment
<1>1. Typed /\ RecorderOK => DumpIsOfItsMoment
  <2> SUFFICES ASSUME Typed, RecorderOK, NEW e \in recorder.entries
               PROVE  \/ DumpedDisk(e) = e.wasDisk
                      \/ DumpedDisk(e) = Lost /\ diskGen - e.disk_gen >= MediumKeep
    BY DEF DumpIsOfItsMoment
  <2>1. Kept(recorder, diskGen, diskHash)
    BY NewIsEmpty DEF RecorderOK
  <2>2. e.disk_gen \in Nat /\ (e.disk_gen = 0 => e.wasDisk = NoDisk)
    BY <2>1 DEF Kept, EntriesOK
  <2> QED
    BY <2>1, <2>2, VersionFound DEF DumpedDisk
<1> QED
  BY <1>1, InitRecorder, StepRecorder, PTL DEF Spec

------------------------------------------------------------------------------
(* The traces of runs.                                                     *)

(* A function on 1 .. n is a sequence of n elements.                       *)
LEMMA FunctionIsSequence ==
    ASSUME NEW S, NEW n \in Nat, NEW g \in [1 .. n -> S]
    PROVE  g \in Seq(S) /\ Len(g) = n
OBVIOUS

(* A prefix of a sequence and what comes after it.                         *)
LEMMA ReadOn ==
    ASSUME NEW S, NEW f \in Seq(S), NEW k \in 0 .. Len(f)
    PROVE  SubSeq(f, 1, k) \o SubSeq(f, k + 1, Len(f)) = f
<1>1. SubSeq(f, 1, k) \o SubSeq(f, k + 1, Len(f)) = SubSeq(f, 1, Len(f))
  <2>1. /\ Len(f) \in Nat /\ 1 \in 1 .. Len(f) + 1 /\ k \in 1 - 1 .. Len(f)
        /\ Len(f) \in k .. Len(f)
    OBVIOUS
  <2> QED
    BY <2>1, ConcatAdjacentSubSeq, Zenon
<1> QED
  BY <1>1, SubSeqFull

(* What of a trace has been spilled and what has not, in one.              *)
SoFar(t, f) == IF t.spilled = 0 THEN << >> ELSE f

(* A trace whose spilled frames are in a file.                             *)
Spillable(t) ==
    /\ t \in Traces!Recording /\ t.path \in Paths
    /\ file[t.path] \in Seq(Traces!Frame) \union {None}
    /\ t.spilled # 0 => file[t.path] # None

(* Whatever a spill does, it forgets no frame and counts them all; one     *)
(* that is forced and does not fail leaves them all in the file.           *)
LEMMA SpillKeeps ==
    ASSUME NEW t, Spillable(t), NEW force \in BOOLEAN, NEW s \in Traces!Spills(t, force)
    PROVE  /\ s.trace \in Traces!Recording
           /\ s.trace.run = t.run /\ s.trace.path = t.path /\ s.trace.marks = t.marks
           /\ s.trace.spilled + Len(s.trace.buf) = t.spilled + Len(t.buf)
           /\ s.file \in Seq(Traces!Frame) \union {None}
           /\ s.trace.spilled # 0 \/ file[t.path] # None => s.file # None
           /\ s.torn \in BOOLEAN /\ s.failed \in BOOLEAN
           /\ ~s.torn => SoFar(s.trace, s.file) \o s.trace.buf = SoFar(t, file[t.path]) \o t.buf
           /\ force /\ ~s.failed /\ (t.spilled # 0 \/ t.buf # << >>) =>
                s.file = SoFar(t, file[t.path]) \o t.buf
<1> DEFINE f == file[t.path]
<1>1. /\ t.run \in Nat /\ t.spilled \in Nat /\ t.marks \in Nat /\ t.buf \in Seq(Traces!Frame)
      /\ SoFar(t, f) \in Seq(Traces!Frame) /\ None \notin Seq(Traces!Frame)
      /\ Traces!SpilledSoFar(t) = SoFar(t, f)
  BY TracesAssumption DEF Spillable, SoFar, Traces!Recording, Traces!SpilledSoFar,
     Traces!StoreAssumption
<1>2. CASE s = Traces!Kept(t)
  <2>1. s.trace = t /\ s.file = f /\ s.failed = FALSE /\ s.torn = FALSE
    BY <1>2 DEF Traces!Kept
  <2>2. ASSUME force, t.spilled # 0 \/ t.buf # << >>
        PROVE  s.file = SoFar(t, f) \o t.buf
    <3>1. ~Traces!SpillDue(t, force)
      <4>1. SUFFICES ASSUME Traces!SpillDue(t, force) PROVE FALSE
        OBVIOUS
      <4>2. s \in {Traces!Written(t)} \union Traces!Broken(t)
        BY <4>1 DEF Traces!Spills
      <4>3. s # Traces!Written(t)
        <5>1. t.buf # << >>
          BY <4>1 DEF Traces!SpillDue
        <5>2. Traces!Written(t).trace.buf = << >>
          BY <1>1 DEF Traces!Written, Traces!Recording, Spillable
        <5> QED
          BY <2>1, <5>1, <5>2
      <4>4. \A x \in Traces!Broken(t) : x.failed = TRUE
        BY DEF Traces!Broken, Traces!Kept
      <4> QED
        BY <2>1, <4>2, <4>3, <4>4
    <3>2. t.buf = << >> /\ t.spilled # 0
      BY <2>2, <3>1 DEF Traces!SpillDue
    <3> QED
      BY <1>1, <2>1, <3>2 DEF SoFar
  <2> QED
    BY <1>1, <2>1, <2>2 DEF Spillable
<1>3. CASE s = Traces!Written(t)
  <2>1. s.file = SoFar(t, f) \o t.buf /\ s.failed = FALSE /\ s.torn = FALSE
    BY <1>1, <1>3 DEF Traces!Written
  <2>2. /\ s.trace \in Traces!Recording /\ s.trace.run = t.run /\ s.trace.path = t.path
        /\ s.trace.marks = t.marks /\ s.trace.buf = << >>
        /\ s.trace.spilled = t.spilled + Len(t.buf)
    <3>1. Len(t.buf) \in Nat /\ t.path \in Paths /\ << >> \in Seq(Traces!Frame)
      BY <1>1 DEF Spillable
    <3>2. t \in [run : Nat, path : Paths, buf : Seq(Traces!Frame), spilled : Nat, marks : Nat]
      BY DEF Spillable, Traces!Recording
    <3>3. s.trace = [t EXCEPT !.spilled = @ + Len(t.buf), !.buf = << >>]
      BY <1>3 DEF Traces!Written
    <3>4. s.trace = [run |-> t.run, path |-> t.path, buf |-> << >>,
                     spilled |-> t.spilled + Len(t.buf), marks |-> t.marks]
      BY <3>2, <3>3
    <3> QED
      BY <1>1, <3>1, <3>4 DEF Traces!Recording
  <2>3. /\ SoFar(t, f) \o t.buf \in Seq(Traces!Frame) /\ s.file \in Seq(Traces!Frame)
        /\ Len(s.trace.buf) = 0 /\ Len(t.buf) \in Nat /\ s.file # None
    <3>1. SoFar(t, f) \o t.buf \in Seq(Traces!Frame)
      BY <1>1
    <3>2. s.file \in Seq(Traces!Frame)
      BY <2>1, <3>1
    <3>3. s.file # None
      BY <1>1, <3>2
    <3>4. Len(s.trace.buf) = 0
      BY <2>2
    <3>5. Len(t.buf) \in Nat
      BY <1>1
    <3> QED
      BY <3>1, <3>2, <3>3, <3>4, <3>5
  <2>4. SoFar(s.trace, s.file) \o s.trace.buf = SoFar(t, f) \o t.buf
    <3>1. CASE s.trace.spilled = 0
      <4>1. t.spilled = 0 /\ Len(t.buf) = 0
        BY <1>1, <2>2, <2>3, <3>1
      <4>2. t.buf = << >>
        BY <1>1, <4>1
      <4> QED
        BY <2>2, <3>1, <4>1, <4>2 DEF SoFar
    <3>2. CASE s.trace.spilled # 0
      <4>1. SoFar(s.trace, s.file) = SoFar(t, f) \o t.buf
        BY <2>1, <3>2 DEF SoFar
      <4> QED
        BY <2>2, <2>3, <4>1
    <3> QED
      BY <3>1, <3>2
  <2>5. s.trace.spilled + Len(s.trace.buf) = t.spilled + Len(t.buf)
    BY <1>1, <2>2, <2>3
  <2> QED
    BY <2>1, <2>2, <2>3, <2>4, <2>5
<1>4. CASE s \in Traces!Broken(t)
  <2>1. CASE s = [Traces!Kept(t) EXCEPT !.failed = TRUE]
    <3>1. s.trace = t /\ s.file = f /\ s.failed = TRUE /\ s.torn = FALSE
      BY <2>1 DEF Traces!Kept
    <3> QED
      BY <1>1, <3>1 DEF Spillable
  <2>2. ASSUME NEW n \in 0 .. Len(t.buf) - 1,
               s = [trace |-> t,
                    file |-> Traces!SpilledSoFar(t) \o SubSeq(t.buf, 1, n)
                                                    \o <<<<t.run, -1>>>>,
                    failed |-> TRUE, torn |-> t.spilled # 0]
        PROVE  /\ s.trace = t /\ s.failed = TRUE /\ s.torn = (t.spilled # 0)
               /\ s.file \in Seq(Traces!Frame)
    <3>1. <<t.run, -1>> \in Traces!Frame
      BY <1>1 DEF Traces!Frame
    <3>2. SubSeq(t.buf, 1, n) \in Seq(Traces!Frame) /\ <<<<t.run, -1>>>> \in Seq(Traces!Frame)
      BY <1>1, <3>1
    <3>3. s.file = SoFar(t, f) \o SubSeq(t.buf, 1, n) \o <<<<t.run, -1>>>>
      BY <1>1, <2>2
    <3> QED
      BY <1>1, <2>2, <3>2, <3>3
  <2>3. CASE s.trace = t /\ s.failed = TRUE /\ s.torn = (t.spilled # 0)
             /\ s.file \in Seq(Traces!Frame)
    BY <1>1, <2>3 DEF SoFar, Spillable
  <2> QED
    BY <1>4, <2>1, <2>2, <2>3 DEF Traces!Broken
<1> QED
  BY <1>2, <1>3, <1>4 DEF Traces!Spills
------------------------------------------------------------------------------
(* A build takes a step: what it has read follows the file.                *)
LEMMA JobSteps ==
    ASSUME Traces!IInv, NEW j \in DOMAIN jobs, NEW job \in Traces!Job,
           jobs' = [jobs EXCEPT ![j] = job],
           job.path = jobs[j].path, jobs[j].state = "building",
           job.size # 0 => file[jobs[j].path] # None,
           store' \in [Paths -> Traces!Store \union {None}], failures' \in Nat,
           UNCHANGED <<trace, file, registry, client, runs, torn, early>>
    PROVE  /\ Traces!TypeOK' /\ Traces!LastRunRecords'
           /\ Traces!RequestsKnown' /\ Traces!RunIsInFile'
           /\ \A p \in Paths : Traces!Active(p)' => Traces!Active(p)
<1>1. /\ Traces!TypeOK /\ Traces!LastRunRecords
      /\ Traces!RequestsKnown /\ Traces!RunIsInFile
  BY DEF Traces!IInv
<1>2. /\ jobs \in Seq(Traces!Job) /\ jobs' \in Seq(Traces!Job) /\ Len(jobs') = Len(jobs)
      /\ DOMAIN jobs = 1 .. Len(jobs) /\ DOMAIN jobs' = 1 .. Len(jobs)
      /\ \A i \in DOMAIN jobs : jobs'[i] = IF i = j THEN job ELSE jobs[i]
  BY <1>1 DEF Traces!TypeOK
<1>3. Traces!TypeOK'
  BY <1>1, <1>2 DEF Traces!TypeOK
<1>4. Traces!LastRunRecords'
  BY <1>1 DEF Traces!LastRunRecords
<1>5. Traces!RequestsKnown'
  BY <1>1, <1>2 DEF Traces!RequestsKnown
<1>6. Traces!RunIsInFile'
  BY <1>1 DEF Traces!RunIsInFile, Traces!LastOn, Traces!Frames, Traces!SpilledSoFar
<1>7. ASSUME NEW p \in Paths, Traces!Active(p)' PROVE Traces!Active(p)
  BY <1>1, <1>2, <1>7 DEF Traces!Active, Traces!TypeOK
<1> QED
  BY <1>3, <1>4, <1>5, <1>6, <1>7

(* The parts of a run and of a job.                                        *)
LEMMA RunPath ==
    ASSUME Traces!TypeOK, NEW r \in DOMAIN runs
    PROVE  /\ runs[r] \in Traces!Run /\ r \in 1 .. Len(runs) /\ runs[r].path \in Paths
           /\ runs[r].frames \in Nat /\ runs[r].marks \in Nat
           /\ runs[r].ended \in {"no", "stopped", "waited", "replaced"}
<1>1. runs \in Seq(Traces!Run)
  BY DEF Traces!TypeOK
<1>2. runs[r] \in Traces!Run /\ r \in 1 .. Len(runs)
  BY <1>1
<1> QED
  BY <1>2 DEF Traces!Run

(* At first nothing is recorded and nothing is built.                      *)
LEMMA TracesInit == Traces!Init => Traces!IInv
<1> SUFFICES ASSUME Traces!Init PROVE Traces!IInv
  OBVIOUS
<1>1. Traces!TypeOK
  BY DEF Traces!Init, Traces!TypeOK, Traces!Free, Traces!Run, Traces!Job,
     Traces!Request
<1>2. Traces!LastRunRecords /\ Traces!RequestsKnown
  BY DEF Traces!Init, Traces!LastRunRecords, Traces!RequestsKnown, Traces!Free
<1>3. Traces!RunIsInFile /\ Traces!IndexFollowsFile
  BY DEF Traces!Init, Traces!RunIsInFile, Traces!IndexFollowsFile
<1> QED
  BY <1>1, <1>2, <1>3 DEF Traces!IInv

(* What a run has recorded that ended whole is its file, in whole frames.  *)
LEMMA EndedIsFile ==
    ASSUME Traces!IInv, NEW r \in DOMAIN runs, Traces!LastOn(r), r \notin torn,
           runs[r].ended \in {"stopped", "waited"}
    PROVE  /\ file[runs[r].path] = Traces!Frames(r)
           /\ file[runs[r].path] \in Seq(Traces!Frame)
           /\ Traces!Wholes(file[runs[r].path]) = file[runs[r].path]
<1>1. Traces!TypeOK /\ Traces!LastRunRecords /\ Traces!RunIsInFile
  BY DEF Traces!IInv
<1>2. ~(trace # None /\ trace.run = r)
  BY <1>1 DEF Traces!LastRunRecords
<1>3. file[runs[r].path] = Traces!Frames(r)
  BY <1>1, <1>2 DEF Traces!RunIsInFile
<1>4. r \in Nat /\ runs[r].frames \in Nat
  <2>1. runs \in Seq(Traces!Run)
    BY <1>1 DEF Traces!TypeOK
  <2>2. r \in 1 .. Len(runs) /\ runs[r] \in Traces!Run
    BY <2>1
  <2> QED
    BY <2>2 DEF Traces!Run
<1>5. /\ Traces!Frames(r) \in Seq(Traces!Frame) /\ Len(Traces!Frames(r)) = runs[r].frames
      /\ \A i \in 1 .. runs[r].frames : Traces!Frames(r)[i] = <<r, i - 1>>
  <2>1. \A i \in 1 .. runs[r].frames : <<r, i - 1>> \in Traces!Frame
    BY <1>4 DEF Traces!Frame
  <2>2. Traces!Frames(r) = [i \in 1 .. runs[r].frames |-> <<r, i - 1>>]
    BY DEF Traces!Frames
  <2>3. /\ Traces!Frames(r) \in [1 .. runs[r].frames -> Traces!Frame]
        /\ \A i \in 1 .. runs[r].frames : Traces!Frames(r)[i] = <<r, i - 1>>
    BY <2>1, <2>2
  <2>4. Traces!Frames(r) \in Seq(Traces!Frame) /\ Len(Traces!Frames(r)) = runs[r].frames
    BY <1>4, <2>3, FunctionIsSequence
  <2> QED
    BY <2>3, <2>4
<1>6. Traces!Frames(r) # << >> => Traces!Last(Traces!Frames(r))[2] >= 0
  BY <1>4, <1>5 DEF Traces!Last
<1>7. Traces!Wholes(file[runs[r].path]) = file[runs[r].path]
  <2>1. CASE Traces!Frames(r) = << >>
    BY <1>3, <2>1 DEF Traces!Wholes
  <2>2. CASE Traces!Frames(r) # << >>
    BY <1>3, <1>4, <1>5, <1>6, <2>2 DEF Traces!Wholes, Traces!Last
  <2> QED
    BY <2>1, <2>2
<1> QED
  BY <1>3, <1>5, <1>7

(* The build of a path with a trace to keep track of: its job is the one   *)
(* registered, so the run has ended, and the job's file is the run's.      *)
LEMMA BuildIsAfterEnd ==
    ASSUME Traces!IInv, NEW j \in DOMAIN jobs, jobs[j].state = "building",
           NEW r \in DOMAIN runs \ early, Traces!LastOn(r), jobs[j].path = runs[r].path
    PROVE  runs[r].ended # "no"
<1>1. /\ Traces!TypeOK /\ Traces!RequestsKnown /\ Traces!IndexFollowsRun(r)
  BY DEF Traces!IInv, Traces!IndexFollowsFile
<1>2. registry[jobs[j].path] = j /\ j # 0
  BY <1>1 DEF Traces!RequestsKnown, Traces!TypeOK
<1>3. Traces!Active(runs[r].path)
  BY <1>2 DEF Traces!Active
<1> QED
  BY <1>1, <1>3 DEF Traces!IndexFollowsRun

(* A step of a build keeps all of it that concerns other runs.             *)
LEMMA BuildKeeps ==
    ASSUME Traces!IInv, NEW j \in DOMAIN jobs, NEW job \in Traces!Job,
           jobs' = [jobs EXCEPT ![j] = job],
           job.path = jobs[j].path, jobs[j].state = "building",
           job.size # 0 => file[jobs[j].path] # None,
           store' \in [Paths -> Traces!Store \union {None}], failures' \in Nat,
           UNCHANGED <<trace, file, registry, client, runs, torn, early>>,
           \A p \in Paths : p # jobs[j].path => store'[p] = store[p],
           \A r \in DOMAIN runs \ (early \union torn) :
             /\ Traces!LastOn(r) /\ runs[r].ended \in {"stopped", "waited"}
             /\ runs[r].path = jobs[j].path
             => /\ store'[runs[r].path] # None =>
                     store'[runs[r].path].frames = Traces!Frames(r)
                /\ job.state = "building" /\ job.size # 0 => Traces!TakesInFile(job)
    PROVE  Traces!IInv'
<1>1. Traces!TypeOK
  BY DEF Traces!IInv
<1>2. /\ Traces!TypeOK' /\ Traces!LastRunRecords' /\ Traces!RequestsKnown'
      /\ Traces!RunIsInFile' /\ \A p \in Paths : Traces!Active(p)' => Traces!Active(p)
  BY JobSteps
<1>3. /\ DOMAIN jobs' = DOMAIN jobs
      /\ \A i \in DOMAIN jobs : jobs'[i] = IF i = j THEN job ELSE jobs[i]
  BY <1>1 DEF Traces!TypeOK
<1>4. Traces!IndexFollowsFile'
  <2>1. SUFFICES ASSUME NEW r \in DOMAIN runs \ early, Traces!LastOn(r)
                 PROVE  Traces!IndexFollowsRun(r)'
    BY DEF Traces!IndexFollowsFile, Traces!LastOn
  <2>2. Traces!IndexFollowsRun(r)
    BY <2>1 DEF Traces!IInv, Traces!IndexFollowsFile
  <2>3. runs[r].path \in Paths
    BY <1>1, RunPath
  <2>4. ASSUME runs[r].ended = "no"
        PROVE  store'[runs[r].path] = None /\ ~Traces!Active(runs[r].path)'
    <3>1. runs[r].path # jobs[j].path
      BY <2>1, <2>4, BuildIsAfterEnd
    <3> QED
      BY <1>2, <2>2, <2>3, <2>4, <3>1 DEF Traces!IndexFollowsRun
  <2>5. ASSUME runs[r].ended \in {"stopped", "waited"}, r \notin torn,
               store'[runs[r].path] # None
        PROVE  store'[runs[r].path].frames = Traces!Frames(r)
    BY <2>1, <2>2, <2>3, <2>5 DEF Traces!IndexFollowsRun
  <2>6. ASSUME runs[r].ended \in {"stopped", "waited"}, r \notin torn,
               NEW i \in DOMAIN jobs, jobs'[i].path = runs[r].path,
               jobs'[i].state = "building", jobs'[i].size # 0
        PROVE  Traces!TakesInFile(jobs[i])'
    <3>1. CASE i = j
      <4>1. Traces!TakesInFile(job)
        BY <1>3, <2>1, <2>6, <3>1
      <4> QED
        BY <1>3, <3>1, <4>1 DEF Traces!TakesInFile
    <3>2. CASE i # j
      BY <1>3, <2>2, <2>6, <3>2 DEF Traces!IndexFollowsRun, Traces!TakesInFile
    <3> QED
      BY <3>1, <3>2
  <2>7. (runs[r].path = runs'[r].path) /\ Traces!Frames(r)' = Traces!Frames(r)
    BY DEF Traces!Frames
  <2> QED
    BY <1>3, <2>4, <2>5, <2>6, <2>7 DEF Traces!IndexFollowsRun
<1> QED
  BY <1>2, <1>4 DEF Traces!IInv

(* The parts of a job, and of its file.                                    *)
LEMMA JobParts ==
    ASSUME Traces!TypeOK, NEW j \in DOMAIN jobs
    PROVE  /\ jobs \in Seq(Traces!Job) /\ jobs[j] \in Traces!Job /\ j \in 1 .. Len(jobs)
           /\ jobs[j].path \in Paths /\ jobs[j].size \in Nat /\ jobs[j].marks \in Nat
           /\ jobs[j].read \in Seq(Traces!Frame)
           /\ file[jobs[j].path] \in Seq(Traces!Frame) \union {None}
<1>1. jobs \in Seq(Traces!Job)
  BY DEF Traces!TypeOK
<1>2. jobs[j] \in Traces!Job /\ j \in 1 .. Len(jobs)
  BY <1>1
<1>3. /\ jobs[j].path \in Paths /\ jobs[j].size \in Nat /\ jobs[j].marks \in Nat
      /\ jobs[j].read \in Seq(Traces!Frame)
  BY <1>2 DEF Traces!Job
<1> QED
  BY <1>1, <1>2, <1>3 DEF Traces!TypeOK

LEMMA BuilderOpensKeeps ==
    ASSUME Traces!IInv, NEW j \in DOMAIN jobs, Traces!BuilderOpens(j)
    PROVE  Traces!IInv'
<1> DEFINE f == file[jobs[j].path]
<1>1. /\ Traces!TypeOK /\ jobs[j] \in Traces!Job /\ jobs \in Seq(Traces!Job)
      /\ f \in Seq(Traces!Frame) /\ f # << >> /\ jobs[j].state = "building"
  <2>1. Traces!TypeOK /\ f # << >>
    BY DEF Traces!IInv, Traces!BuilderOpens, Traces!Wholes
  <2> QED
    BY <2>1, JobParts DEF Traces!BuilderOpens
<1>2. PICK split :
        /\ split \in BOOLEAN
        /\ jobs' = [jobs EXCEPT ![j] = Traces!HasRead(@, Len(f), SubSeq(f, 1, 1), split)]
  BY DEF Traces!BuilderOpens
<1> DEFINE job == Traces!HasRead(jobs[j], Len(f), SubSeq(f, 1, 1), split)
<1>3. jobs' = [jobs EXCEPT ![j] = job]
  BY <1>2
<1>4. Len(f) \in Nat /\ Len(f) >= 1 /\ SubSeq(f, 1, 1) \in Seq(Traces!Frame)
      /\ Len(SubSeq(f, 1, 1)) = 1
  BY <1>1
<1>5. /\ job \in Traces!Job /\ job.path = jobs[j].path /\ job.size = Len(f)
      /\ job.read = SubSeq(f, 1, 1)
  <2>1. ASSUME NEW n \in Nat, NEW x \in Seq(Traces!Frame)
        PROVE  /\ Traces!HasRead(jobs[j], n, x, split) \in Traces!Job
               /\ Traces!HasRead(jobs[j], n, x, split).path = jobs[j].path
               /\ Traces!HasRead(jobs[j], n, x, split).size = n
               /\ Traces!HasRead(jobs[j], n, x, split).read = x
    <3>1. jobs[j] \in Traces!Job /\ split \in BOOLEAN
      BY <1>1, <1>2
    <3> QED
      BY <3>1 DEF Traces!Job, Traces!HasRead
  <2> QED
    BY <1>4, <2>1
<1> HIDE DEF job
<1>6. UNCHANGED <<trace, file, store, registry, client, failures, runs, torn, early>>
  BY DEF Traces!BuilderOpens, Traces!traced, Traces!history
<1>7. store' \in [Paths -> Traces!Store \union {None}] /\ failures' \in Nat
  BY <1>1, <1>6 DEF Traces!TypeOK
<1>8. Traces!TakesInFile(job)
  BY <1>4, <1>5 DEF Traces!TakesInFile
<1>9. ASSUME NEW r \in DOMAIN runs \ (early \union torn), Traces!LastOn(r),
              runs[r].ended \in {"stopped", "waited"}, store'[runs[r].path] # None
       PROVE  store'[runs[r].path].frames = Traces!Frames(r)
  BY <1>6, <1>9 DEF Traces!IInv, Traces!IndexFollowsFile, Traces!IndexFollowsRun
<1> QED
  BY <1>1, <1>3, <1>5, <1>6, <1>7, <1>8, <1>9, BuildKeeps DEF Traces!BuilderOpens

LEMMA BuilderReadsKeeps ==
    ASSUME Traces!IInv, NEW j \in DOMAIN jobs, Traces!BuilderReads(j)
    PROVE  Traces!IInv'
<1> DEFINE f == file[jobs[j].path]
           n == Traces!Smaller(Len(f), jobs[j].size)
           next == SubSeq(f, Len(jobs[j].read) + 1, n)
<1>1. /\ Traces!TypeOK /\ jobs[j] \in Traces!Job /\ jobs \in Seq(Traces!Job)
      /\ f \in Seq(Traces!Frame) /\ jobs[j].state = "building" /\ jobs[j].size # 0
      /\ jobs[j].size \in Nat /\ jobs[j].read \in Seq(Traces!Frame)
  <2>1. Traces!TypeOK /\ f # None /\ jobs[j].state = "building" /\ jobs[j].size # 0
    BY DEF Traces!IInv, Traces!BuilderReads, Traces!RequestsKnown
  <2> QED
    BY <2>1, JobParts
<1>2. PICK split :
        /\ split \in BOOLEAN
        /\ jobs' = [jobs EXCEPT ![j] =
                      Traces!HasRead(@, @.size, @.read \o next, split)]
  BY DEF Traces!BuilderReads
<1> DEFINE job == Traces!HasRead(jobs[j], jobs[j].size, jobs[j].read \o next, split)
<1>3. jobs' = [jobs EXCEPT ![j] = job]
  BY <1>2
<1>4. next \in Seq(Traces!Frame) /\ jobs[j].read \o next \in Seq(Traces!Frame)
  <2>1. n \in Nat /\ n <= Len(f) /\ Len(jobs[j].read) \in Nat
    BY <1>1 DEF Traces!Smaller
  <2>2. next \in Seq(Traces!Frame)
    BY <1>1, <2>1
  <2> QED
    BY <1>1, <2>2
<1>5. /\ job \in Traces!Job /\ job.path = jobs[j].path /\ job.size = jobs[j].size
      /\ job.read = jobs[j].read \o next
  <2>1. ASSUME NEW m \in Nat, NEW x \in Seq(Traces!Frame)
        PROVE  /\ Traces!HasRead(jobs[j], m, x, split) \in Traces!Job
               /\ Traces!HasRead(jobs[j], m, x, split).path = jobs[j].path
               /\ Traces!HasRead(jobs[j], m, x, split).size = m
               /\ Traces!HasRead(jobs[j], m, x, split).read = x
    <3>1. jobs[j] \in Traces!Job /\ split \in BOOLEAN
      BY <1>1, <1>2
    <3> QED
      BY <3>1 DEF Traces!Job, Traces!HasRead
  <2> QED
    BY <1>1, <1>4, <2>1
<1> HIDE DEF job
<1>6. UNCHANGED <<trace, file, store, registry, client, failures, runs, torn, early>>
  BY DEF Traces!BuilderReads, Traces!traced, Traces!history
<1>7. store' \in [Paths -> Traces!Store \union {None}] /\ failures' \in Nat
  BY <1>1, <1>6 DEF Traces!TypeOK
<1>8. ASSUME NEW r \in DOMAIN runs \ (early \union torn), Traces!LastOn(r),
             runs[r].ended \in {"stopped", "waited"}
      PROVE  /\ store'[runs[r].path] # None =>
                  store'[runs[r].path].frames = Traces!Frames(r)
             /\ jobs[j].path = runs[r].path => Traces!TakesInFile(jobs[j])
  BY <1>1, <1>6, <1>8 DEF Traces!IInv, Traces!IndexFollowsFile, Traces!IndexFollowsRun
<1>9. ASSUME Traces!TakesInFile(jobs[j])
      PROVE  Traces!TakesInFile(job)
  <2>1. /\ jobs[j].size = Len(f) /\ Len(jobs[j].read) \in 0 .. Len(f)
        /\ jobs[j].read = SubSeq(f, 1, Len(jobs[j].read))
    BY <1>1, <1>9 DEF Traces!TakesInFile
  <2>2. n = Len(f)
    BY <2>1 DEF Traces!Smaller
  <2>3. jobs[j].read \o next = f
    BY <1>1, <2>1, <2>2, ReadOn
  <2>4. job.read = f /\ job.size = Len(f)
    BY <1>5, <2>1, <2>3
  <2>5. SubSeq(f, 1, Len(f)) = f /\ Len(f) \in Nat
    BY <1>1, SubSeqFull
  <2>6. job.read = SubSeq(file[job.path], 1, Len(job.read))
    BY <1>5, <2>4, <2>5, Zenon
  <2>7. job.size = Len(file[job.path]) /\ Len(job.read) <= job.size
    <3>1. job.size = Len(file[job.path]) /\ Len(job.read) = job.size
      BY <1>5, <2>4, Zenon
    <3>2. job.size \in Nat
      BY <2>4, <2>5, Zenon
    <3> QED
      BY <3>1, <3>2
  <2> QED
    BY <2>6, <2>7 DEF Traces!TakesInFile
<1> QED
  BY <1>1, <1>3, <1>5, <1>6, <1>7, <1>8, <1>9, BuildKeeps
     DEF Traces!IInv, Traces!RequestsKnown

(* A build that is over is of the same path and has nothing open.          *)
LEMMA SettledJob ==
    ASSUME NEW job \in Traces!Job, NEW state \in {"done", "failed"}
    PROVE  /\ Traces!Settled(job, state) \in Traces!Job
           /\ Traces!Settled(job, state).path = job.path
           /\ Traces!Settled(job, state).size = 0
BY DEF Traces!Settled, Traces!Job

(* A store has frames of the kind that were read.                          *)
LEMMA WholesTyped ==
    ASSUME NEW read \in Seq(Traces!Frame)
    PROVE  Traces!Wholes(read) \in Seq(Traces!Frame)
BY DEF Traces!Wholes, Traces!Front

LEMMA BuilderPublishesKeeps ==
    ASSUME Traces!IInv, NEW j \in DOMAIN jobs, Traces!BuilderPublishes(j)
    PROVE  Traces!IInv'
<1> DEFINE f == file[jobs[j].path]
           s == [frames |-> Traces!Wholes(jobs[j].read), marks |-> jobs[j].marks]
           job == Traces!Settled(jobs[j], "done")
<1>1. /\ Traces!TypeOK /\ jobs[j] \in Traces!Job /\ jobs \in Seq(Traces!Job)
      /\ f \in Seq(Traces!Frame) /\ jobs[j].state = "building" /\ jobs[j].size # 0
      /\ jobs[j].size \in Nat /\ jobs[j].read \in Seq(Traces!Frame)
      /\ jobs[j].marks \in Nat /\ jobs[j].path \in Paths
  <2>1. Traces!TypeOK /\ f # None /\ jobs[j].state = "building" /\ jobs[j].size # 0
    BY DEF Traces!IInv, Traces!BuilderPublishes, Traces!RequestsKnown
  <2> QED
    BY <2>1, JobParts
<1>2. /\ jobs' = [jobs EXCEPT ![j] = job]
      /\ job \in Traces!Job /\ job.path = jobs[j].path /\ job.size = 0
  BY <1>1, SettledJob DEF Traces!BuilderPublishes
<1>3. /\ UNCHANGED <<trace, file, registry, client, failures, runs, torn, early>>
      /\ store' = [store EXCEPT ![jobs[j].path] = s]
      /\ \/ Len(jobs[j].read) = jobs[j].size
         \/ Len(jobs[j].read) >= Len(f)
  BY DEF Traces!BuilderPublishes, Traces!traced, Traces!history
<1>4. s \in Traces!Store
  BY <1>1, WholesTyped DEF Traces!Store
<1>5. s.frames = Traces!Wholes(jobs[j].read)
  OBVIOUS
<1> HIDE DEF job, s
<1>6. /\ store' \in [Paths -> Traces!Store \union {None}]
      /\ \A p \in Paths : p # jobs[j].path => store'[p] = store[p]
      /\ store'[jobs[j].path] = s /\ failures' \in Nat
  BY <1>1, <1>3, <1>4 DEF Traces!TypeOK
<1>7. ASSUME NEW r \in DOMAIN runs \ (early \union torn), Traces!LastOn(r),
             runs[r].ended \in {"stopped", "waited"}, runs[r].path = jobs[j].path
      PROVE  store'[runs[r].path].frames = Traces!Frames(r)
  <2>1. Traces!TakesInFile(jobs[j])
    BY <1>1, <1>7 DEF Traces!IInv, Traces!IndexFollowsFile, Traces!IndexFollowsRun
  <2>2. Len(jobs[j].read) = Len(f)
    BY <1>1, <1>3, <2>1 DEF Traces!TakesInFile
  <2>3. jobs[j].read = SubSeq(f, 1, Len(f))
    BY <2>1, <2>2 DEF Traces!TakesInFile
  <2>4. jobs[j].read = f
    BY <1>1, <2>3, SubSeqFull
  <2>5. Traces!Wholes(f) = Traces!Frames(r)
    BY <1>7, EndedIsFile
  <2> QED
    BY <1>5, <1>6, <1>7, <2>4, <2>5
<1> QED
  BY <1>1, <1>2, <1>3, <1>6, <1>7, BuildKeeps

LEMMA BuilderFailsKeeps ==
    ASSUME Traces!IInv, NEW j \in DOMAIN jobs, Traces!BuilderFails(j)
    PROVE  Traces!IInv'
<1> DEFINE job == Traces!Settled(jobs[j], "failed")
<1>1. Traces!TypeOK /\ jobs[j] \in Traces!Job /\ jobs[j].state = "building"
  BY JobParts DEF Traces!IInv, Traces!BuilderFails
<1>2. /\ jobs' = [jobs EXCEPT ![j] = job]
      /\ job \in Traces!Job /\ job.path = jobs[j].path /\ job.size = 0
  BY <1>1, SettledJob DEF Traces!BuilderFails
<1> HIDE DEF job
<1>3. UNCHANGED <<trace, file, store, registry, client, runs, torn, early>>
  BY DEF Traces!BuilderFails, Traces!traced, Traces!history
<1>4. store' \in [Paths -> Traces!Store \union {None}] /\ failures' \in Nat
  BY <1>1, <1>3 DEF Traces!TypeOK, Traces!BuilderFails
<1>5. ASSUME NEW r \in DOMAIN runs \ (early \union torn), Traces!LastOn(r),
             runs[r].ended \in {"stopped", "waited"}, store'[runs[r].path] # None
      PROVE  store'[runs[r].path].frames = Traces!Frames(r)
  BY <1>3, <1>5 DEF Traces!IInv, Traces!IndexFollowsFile, Traces!IndexFollowsRun
<1> QED
  BY <1>1, <1>2, <1>3, <1>4, <1>5, BuildKeeps
------------------------------------------------------------------------------
(* The parts of a request.                                                 *)
LEMMA RequestParts ==
    ASSUME Traces!TypeOK, NEW c \in Clients
    PROVE  /\ client[c] \in Traces!Request /\ client[c].path \in Paths \union {None}
           /\ client[c].run \in Nat /\ client[c].marks \in Nat
           /\ \A p \in Paths : registry[p] \in Nat
BY DEF Traces!TypeOK, Traces!Request

(* A step of a request alone stands for the run it stood for, or for none. *)
LEMMA RequestKeeps ==
    ASSUME Traces!IInv, NEW c \in Clients, NEW request \in Traces!Request,
           client' = [client EXCEPT ![c] = request],
           request.run \in {0, client[c].run},
           request.at \in {"ensure", "start"} => request.path # None,
           UNCHANGED <<trace, file, store, jobs, registry, failures, runs, torn, early>>
    PROVE  Traces!IInv'
<1>1. Traces!TypeOK'
  BY DEF Traces!IInv, Traces!TypeOK
<1>2. Traces!LastRunRecords'
  BY DEF Traces!IInv, Traces!LastRunRecords
<1>3. Traces!RequestsKnown'
  BY DEF Traces!IInv, Traces!TypeOK, Traces!RequestsKnown
<1>4. Traces!RunIsInFile'
  BY DEF Traces!IInv, Traces!RunIsInFile, Traces!LastOn, Traces!Frames,
     Traces!SpilledSoFar
<1>5. Traces!IndexFollowsFile'
  BY DEF Traces!IInv, Traces!IndexFollowsFile, Traces!IndexFollowsRun, Traces!LastOn,
     Traces!Frames, Traces!Active, Traces!TakesInFile
<1> QED
  BY <1>1, <1>2, <1>3, <1>4, <1>5 DEF Traces!IInv

LEMMA RequestSteps ==
    ASSUME Traces!IInv, NEW c \in Clients,
           \/ \E p \in Paths : Traces!Read(c, p)
           \/ Traces!Ensure(c) \/ Traces!Waited(c) \/ Traces!Reply(c)
    PROVE  Traces!IInv'
<1>1. Traces!TypeOK /\ client[c] \in Traces!Request
  BY RequestParts DEF Traces!IInv
<1>2. UNCHANGED <<trace, file, store, jobs, registry, failures, runs, torn, early>>
  BY DEF Traces!Read, Traces!Ensure, Traces!Waited, Traces!Reply, Traces!traced,
     Traces!indexed, Traces!history
<1>3. ASSUME NEW p \in Paths, Traces!Read(c, p)
      PROVE  Traces!IInv'
  <2>1. PICK request : /\ request = [Traces!Free EXCEPT !.at = "start", !.path = p]
                       /\ client' = [client EXCEPT ![c] = request]
    BY <1>3 DEF Traces!Read
  <2>2. /\ request \in Traces!Request /\ request.run = 0 /\ request.path # None
    BY <2>1, TracesAssumption DEF Traces!Free, Traces!Request, Traces!StoreAssumption
  <2> QED
    BY <1>2, <2>1, <2>2, RequestKeeps
<1>4. CASE Traces!Ensure(c)
  <2> DEFINE q == client[c].path
             at == IF Traces!Active(q) THEN "wait"
                   ELSE IF Traces!Missing(q) THEN "start" ELSE "reply"
             job == IF Traces!Active(q) THEN registry[q] ELSE 0
  <2>1. at \in {"wait", "start", "reply"} /\ job \in Nat /\ q \in Paths
    BY <1>1, <1>4, RequestParts DEF Traces!Ensure, Traces!IInv, Traces!RequestsKnown
  <2>2. PICK request : /\ request = [client[c] EXCEPT !.at = at, !.job = job]
                       /\ client' = [client EXCEPT ![c] = request]
    BY <1>4 DEF Traces!Ensure
  <2>3. /\ request \in Traces!Request /\ request.run = client[c].run /\ request.path = q
    BY <1>1, <2>1, <2>2 DEF Traces!Request
  <2>4. q # None
    BY <2>1, TracesAssumption DEF Traces!StoreAssumption
  <2> QED
    BY <1>2, <2>2, <2>3, <2>4, RequestKeeps
<1>5. CASE Traces!Waited(c)
  <2>1. PICK request : /\ request = [client[c] EXCEPT !.at = "reply", !.job = 0]
                       /\ client' = [client EXCEPT ![c] = request]
    BY <1>5 DEF Traces!Waited
  <2>2. /\ request \in Traces!Request /\ request.run = client[c].run
        /\ request.at = "reply"
    BY <1>1, <2>1 DEF Traces!Request
  <2> QED
    BY <1>2, <2>1, <2>2, RequestKeeps
<1>6. CASE Traces!Reply(c)
  <2>1. /\ Traces!Free \in Traces!Request /\ Traces!Free.run = 0
        /\ Traces!Free.at = "free"
    BY DEF Traces!Free, Traces!Request
  <2>2. client' = [client EXCEPT ![c] = Traces!Free]
    BY <1>6 DEF Traces!Reply
  <2> QED
    BY <1>2, <2>1, <2>2, RequestKeeps
<1> QED
  BY <1>3, <1>4, <1>5, <1>6

(* start_background_index adds one build at most, which has read nothing.  *)
LEMMA IndexStarts ==
    ASSUME Traces!TypeOK, Traces!RequestsKnown, NEW p \in Paths, NEW marks \in Nat,
           Traces!StartIndex(p, marks)
    PROVE  /\ jobs' \in Seq(Traces!Job) /\ DOMAIN jobs \subseteq DOMAIN jobs'
           /\ registry' \in [Paths -> 0 .. Len(jobs')]
           /\ \A i \in DOMAIN jobs : jobs'[i] = jobs[i]
           /\ \A i \in DOMAIN jobs' \ DOMAIN jobs : jobs'[i].size = 0
           /\ \A i \in DOMAIN jobs' :
                jobs'[i].state = "building" => registry'[jobs'[i].path] = i
           /\ \A q \in Paths \ {p} : Traces!Active(q)' => Traces!Active(q)
<1>1. jobs \in Seq(Traces!Job) /\ registry \in [Paths -> 0 .. Len(jobs)]
  BY DEF Traces!TypeOK
<1>2. CASE Traces!Joins(p)
  <2>1. UNCHANGED <<jobs, registry>>
    BY <1>2 DEF Traces!StartIndex
  <2> QED
    BY <1>1, <2>1 DEF Traces!Active, Traces!RequestsKnown
<1>3. CASE ~Traces!Joins(p)
  <2> DEFINE job == [path |-> p, state |-> "building", size |-> 0, read |-> << >>,
                     split |-> FALSE, marks |-> marks]
  <2>1. jobs' = Append(jobs, job) /\ registry' = [registry EXCEPT ![p] = Len(jobs) + 1]
    BY <1>3 DEF Traces!StartIndex
  <2>2. job \in Traces!Job /\ job.size = 0 /\ job.path = p
    BY DEF Traces!Job
  <2> HIDE DEF job
  <2>3. /\ jobs' \in Seq(Traces!Job) /\ Len(jobs') = Len(jobs) + 1 /\ Len(jobs) \in Nat
        /\ DOMAIN jobs = 1 .. Len(jobs) /\ DOMAIN jobs' = 1 .. Len(jobs) + 1
        /\ \A i \in 1 .. Len(jobs) : jobs'[i] = jobs[i]
        /\ jobs'[Len(jobs) + 1] = job
    BY <1>1, <2>1, <2>2
  <2>4. /\ registry' \in [Paths -> 0 .. Len(jobs')] /\ registry'[p] = Len(jobs) + 1
        /\ \A q \in Paths \ {p} : registry'[q] = registry[q] /\ registry[q] \in 0 .. Len(jobs)
    BY <1>1, <2>1, <2>3
  <2>5. ASSUME NEW i \in 1 .. Len(jobs), jobs[i].state = "building"
        PROVE  registry'[jobs[i].path] = i
    <3>1. registry[jobs[i].path] = i /\ jobs[i].path \in Paths
      BY <2>3, <2>5, JobParts DEF Traces!RequestsKnown
    <3>2. jobs[i].path # p
      BY <1>3, <2>3, <2>5, <3>1 DEF Traces!Joins, Traces!Active
    <3> QED
      BY <2>4, <3>1, <3>2
  <2>6. ASSUME NEW q \in Paths \ {p}, Traces!Active(q)' PROVE Traces!Active(q)
    BY <2>3, <2>4, <2>6 DEF Traces!Active
  <2> QED
    BY <2>2, <2>3, <2>4, <2>5, <2>6
<1> QED
  BY <1>2, <1>3

LEMMA StartBuildKeeps ==
    ASSUME Traces!IInv, NEW c \in Clients, Traces!StartBuild(c)
    PROVE  Traces!IInv'
<1> DEFINE p == client[c].path
<1>1. /\ Traces!TypeOK /\ Traces!RequestsKnown /\ client[c] \in Traces!Request
      /\ client[c].at = "start"
  BY RequestParts DEF Traces!IInv, Traces!StartBuild
<1>2. /\ p \in Paths /\ client[c].marks \in Nat
      /\ Traces!StartIndex(p, client[c].marks)
  BY <1>1, RequestParts DEF Traces!RequestsKnown, Traces!StartBuild
<1>3. /\ jobs' \in Seq(Traces!Job) /\ DOMAIN jobs \subseteq DOMAIN jobs'
      /\ registry' \in [Paths -> 0 .. Len(jobs')]
      /\ \A i \in DOMAIN jobs : jobs'[i] = jobs[i]
      /\ \A i \in DOMAIN jobs' \ DOMAIN jobs : jobs'[i].size = 0
      /\ \A i \in DOMAIN jobs' :
           jobs'[i].state = "building" => registry'[jobs'[i].path] = i
      /\ \A q \in Paths \ {p} : Traces!Active(q)' => Traces!Active(q)
  BY <1>1, <1>2, IndexStarts
<1>4. UNCHANGED <<trace, file, store, failures, runs, torn>>
  BY DEF Traces!StartBuild, Traces!traced
<1>5. PICK request :
        /\ client' = [client EXCEPT ![c] = request] /\ request \in Traces!Request
        /\ request.run \in {0, client[c].run} /\ request.at \in {"free", "wait"}
  <2>1. CASE client[c].run = 0
    <3>1. client' = [client EXCEPT ![c] = Traces!Free]
      BY <2>1 DEF Traces!StartBuild
    <3>2. /\ Traces!Free \in Traces!Request /\ Traces!Free.run = 0
          /\ Traces!Free.at = "free"
      BY DEF Traces!Free, Traces!Request
    <3> QED
      BY <3>1, <3>2
  <2>2. CASE client[c].run # 0
    <3>1. PICK request : /\ request = [client[c] EXCEPT !.at = "wait",
                                                        !.job = Traces!JobFor(p)]
                         /\ client' = [client EXCEPT ![c] = request]
      BY <2>2 DEF Traces!StartBuild
    <3>2. Traces!JobFor(p) \in Nat
      BY <1>1, <1>2 DEF Traces!JobFor, Traces!TypeOK
    <3>3. /\ request \in Traces!Request /\ request.run = client[c].run
          /\ request.at = "wait"
      BY <1>1, <3>1, <3>2 DEF Traces!Request
    <3> QED
      BY <3>1, <3>3
  <2> QED
    BY <2>1, <2>2
<1>6. /\ early \subseteq early' /\ early' \subseteq DOMAIN runs
      /\ \A r \in DOMAIN runs \ early' :
           Traces!LastOn(r) /\ runs[r].ended = "no" => runs[r].path # p
  BY <1>1 DEF Traces!StartBuild, Traces!TypeOK
<1>7. Traces!TypeOK'
  BY <1>1, <1>3, <1>4, <1>5, <1>6 DEF Traces!TypeOK
<1>8. Traces!LastRunRecords'
  BY <1>4 DEF Traces!IInv, Traces!LastRunRecords
<1>9. Traces!RequestsKnown'
  <2>1. ASSUME NEW i \in DOMAIN jobs', jobs'[i].size # 0
        PROVE  file[jobs'[i].path] # None
    BY <1>1, <1>3, <2>1 DEF Traces!RequestsKnown
  <2>2. ASSUME NEW d \in Clients
        PROVE  /\ client'[d].at \in {"ensure", "start"} => client'[d].path # None
               /\ client'[d].run # 0 =>
                     client'[d].run \in DOMAIN runs /\ runs[client'[d].run].ended = "waited"
    BY <1>1, <1>5 DEF Traces!RequestsKnown, Traces!TypeOK
  <2> QED
    BY <1>3, <1>4, <2>1, <2>2 DEF Traces!RequestsKnown
<1>10. Traces!RunIsInFile'
  BY <1>4 DEF Traces!IInv, Traces!RunIsInFile, Traces!LastOn, Traces!Frames,
     Traces!SpilledSoFar
<1>11. Traces!IndexFollowsFile'
  <2>1. SUFFICES ASSUME NEW r \in DOMAIN runs \ early', Traces!LastOn(r)
                 PROVE  Traces!IndexFollowsRun(r)'
    BY <1>4 DEF Traces!IndexFollowsFile, Traces!LastOn
  <2>2. Traces!IndexFollowsRun(r) /\ runs[r].path \in Paths
    BY <1>1, <1>6, <2>1, RunPath DEF Traces!IInv, Traces!IndexFollowsFile
  <2>3. ASSUME runs[r].ended = "no"
        PROVE  store[runs[r].path] = None /\ ~Traces!Active(runs[r].path)'
    BY <1>3, <1>4, <1>6, <2>1, <2>2, <2>3 DEF Traces!IndexFollowsRun
  <2>4. ASSUME runs[r].ended \in {"stopped", "waited"}, r \notin torn,
               NEW i \in DOMAIN jobs', jobs'[i].path = runs[r].path,
               jobs'[i].state = "building", jobs'[i].size # 0
        PROVE  Traces!TakesInFile(jobs[i])'
    <3>1. i \in DOMAIN jobs /\ jobs'[i] = jobs[i]
      BY <1>3, <2>4
    <3> QED
      BY <1>4, <2>2, <2>4, <3>1 DEF Traces!IndexFollowsRun, Traces!TakesInFile
  <2>5. Traces!Frames(r)' = Traces!Frames(r)
    BY <1>4 DEF Traces!Frames
  <2> QED
    BY <1>4, <2>2, <2>3, <2>4, <2>5 DEF Traces!IndexFollowsRun
<1> QED
  BY <1>7, <1>8, <1>9, <1>10, <1>11 DEF Traces!IInv
------------------------------------------------------------------------------
(* The trace under way, and the run it records.                            *)
LEMMA TraceParts ==
    ASSUME Traces!IInv, trace # None
    PROVE  /\ trace \in Traces!Recording /\ trace.path \in Paths
           /\ trace.spilled \in Nat /\ trace.marks \in Nat /\ trace.buf \in Seq(Traces!Frame)
           /\ trace.run \in DOMAIN runs /\ trace.run = Len(runs)
           /\ runs[trace.run].path = trace.path /\ runs[trace.run].ended = "no"
           /\ runs[trace.run].frames = trace.spilled + Len(trace.buf)
           /\ Traces!LastOn(trace.run) /\ file[trace.path] \in Seq(Traces!Frame) \union {None}
           /\ trace.spilled # 0 => file[trace.path] # None
<1>1. Traces!TypeOK /\ Traces!LastRunRecords
  BY DEF Traces!IInv
<1>2. trace \in Traces!Recording /\ runs \in Seq(Traces!Run)
  BY <1>1 DEF Traces!TypeOK
<1>3. /\ trace.path \in Paths /\ trace.spilled \in Nat /\ trace.marks \in Nat
      /\ trace.buf \in Seq(Traces!Frame)
  BY <1>2 DEF Traces!Recording
<1>4. /\ trace.run \in DOMAIN runs /\ trace.run = Len(runs) /\ DOMAIN runs = 1 .. Len(runs)
  BY <1>1, <1>2 DEF Traces!LastRunRecords
<1>5. Traces!LastOn(trace.run)
  BY <1>2, <1>4 DEF Traces!LastOn
<1> QED
  BY <1>1, <1>2, <1>3, <1>4, <1>5 DEF Traces!LastRunRecords, Traces!TypeOK

(* A step of the trace under way, or of its end, keeps all of it that      *)
(* concerns other runs.                                                    *)
LEMMA OthersKeep ==
    ASSUME Traces!IInv, trace # None,
           DOMAIN runs' = DOMAIN runs,
           \A r \in DOMAIN runs : runs'[r].path = runs[r].path,
           \A r \in DOMAIN runs \ {trace.run} : runs'[r] = runs[r],
           trace' = None \/ trace'.run = trace.run,
           \A q \in Paths \ {trace.path} : file'[q] = file[q],
           UNCHANGED <<store, early>>, torn \subseteq torn',
           DOMAIN jobs \subseteq DOMAIN jobs',
           \A i \in DOMAIN jobs : jobs'[i] = jobs[i],
           \A i \in DOMAIN jobs' \ DOMAIN jobs : jobs'[i].size = 0,
           \A q \in Paths \ {trace.path} : Traces!Active(q)' => Traces!Active(q),
           NEW r \in DOMAIN runs \ {trace.run}, Traces!LastOn(r)'
    PROVE  /\ r \notin torn' /\ runs'[r].ended # "replaced" =>
                Traces!Frames(r)' = file'[runs'[r].path]
           /\ r \notin early' => Traces!IndexFollowsRun(r)'
           /\ trace' = None \/ trace'.run # r
<1>1. /\ Traces!LastOn(r) /\ runs[r].path \in Paths \ {trace.path}
      /\ runs'[r] = runs[r] /\ Traces!TypeOK
  <2>1. /\ Traces!TypeOK /\ runs[r].path \in Paths /\ r \in 1 .. Len(runs)
        /\ trace.run \in DOMAIN runs /\ trace.run = Len(runs)
        /\ runs[trace.run].path = trace.path
    BY RunPath, TraceParts DEF Traces!IInv
  <2>2. Traces!LastOn(r)
    BY DEF Traces!LastOn
  <2>3. trace.run > r
    BY <2>1
  <2> QED
    BY <2>1, <2>2, <2>3 DEF Traces!LastOn
<1>2. Traces!Frames(r)' = Traces!Frames(r) /\ file'[runs[r].path] = file[runs[r].path]
  BY <1>1 DEF Traces!Frames
<1>3. ASSUME r \notin torn', runs'[r].ended # "replaced"
      PROVE  Traces!Frames(r)' = file'[runs'[r].path]
  BY <1>1, <1>2, <1>3 DEF Traces!IInv, Traces!RunIsInFile
<1>4. ASSUME r \notin early'
      PROVE  Traces!IndexFollowsRun(r)'
  <2>1. Traces!IndexFollowsRun(r)
    BY <1>1, <1>4 DEF Traces!IInv, Traces!IndexFollowsFile
  <2>2. Traces!Active(runs[r].path)' => Traces!Active(runs[r].path)
    BY <1>1
  <2>3. ASSUME runs[r].ended \in {"stopped", "waited"}, r \notin torn,
               NEW i \in DOMAIN jobs', jobs'[i].path = runs[r].path,
               jobs'[i].state = "building", jobs'[i].size # 0
        PROVE  Traces!TakesInFile(jobs[i])'
    <3>1. i \in DOMAIN jobs /\ jobs'[i] = jobs[i]
      BY <2>3
    <3> QED
      BY <1>2, <2>1, <2>3, <3>1 DEF Traces!IndexFollowsRun, Traces!TakesInFile
  <2> QED
    BY <1>1, <1>2, <2>1, <2>2, <2>3 DEF Traces!IndexFollowsRun
<1> QED
  BY <1>1, <1>3, <1>4

LEMMA MarkKeeps ==
    ASSUME Traces!IInv, Traces!Mark
    PROVE  Traces!IInv'
<1>1. /\ trace # None /\ Traces!TypeOK /\ Traces!LastRunRecords /\ Traces!RequestsKnown
      /\ UNCHANGED <<file, store, jobs, registry, client, failures, torn, early>>
  BY DEF Traces!Mark, Traces!IInv, Traces!indexed
<1>2. /\ trace \in Traces!Recording /\ trace.run \in DOMAIN runs
      /\ runs[trace.run].ended = "no" /\ runs[trace.run] \in Traces!Run
      /\ runs \in Seq(Traces!Run) /\ trace.run = Len(runs)
      /\ runs[trace.run].path = trace.path
      /\ runs[trace.run].frames = trace.spilled + Len(trace.buf)
  BY <1>1, TraceParts, RunPath DEF Traces!TypeOK
<1>3. /\ trace' \in Traces!Recording /\ trace' # None
      /\ trace'.run = trace.run /\ trace'.path = trace.path
      /\ trace'.buf = trace.buf /\ trace'.spilled = trace.spilled
  <2>1. trace' = [trace EXCEPT !.marks = @ + 1]
    BY DEF Traces!Mark
  <2>2. /\ trace' \in Traces!Recording
        /\ trace'.run = trace.run /\ trace'.path = trace.path
        /\ trace'.buf = trace.buf /\ trace'.spilled = trace.spilled
    BY <1>2, <2>1 DEF Traces!Recording
  <2> QED
    BY <2>2, TracesAssumption DEF Traces!StoreAssumption
<1>4. PICK run : /\ run = [runs[trace.run] EXCEPT !.marks = @ + 1]
                 /\ runs' = [runs EXCEPT ![trace.run] = run]
  BY DEF Traces!Mark
<1>5. /\ run \in Traces!Run /\ run.path = runs[trace.run].path
      /\ run.frames = runs[trace.run].frames /\ run.ended = "no"
  <2>1. run = [runs[trace.run] EXCEPT !.marks = @ + 1]
    BY <1>4
  <2>2. runs[trace.run] \in Traces!Run /\ runs[trace.run].ended = "no"
    BY <1>2
  <2> QED
    BY <2>1, <2>2 DEF Traces!Run
<1>6. /\ runs' \in Seq(Traces!Run) /\ DOMAIN runs' = DOMAIN runs /\ Len(runs') = Len(runs)
      /\ runs' # << >> /\ runs'[trace.run] = run
      /\ \A r \in DOMAIN runs \ {trace.run} : runs'[r] = runs[r]
      /\ \A r \in DOMAIN runs : runs'[r].path = runs[r].path
      /\ \A r \in DOMAIN runs : runs'[r].frames = runs[r].frames
      /\ \A r \in DOMAIN runs : runs'[r].ended = runs[r].ended
  <2>1. runs' = [runs EXCEPT ![trace.run] = run]
    BY <1>4
  <2> QED
    BY <1>2, <1>5, <2>1
<1>7. Traces!TypeOK'
  BY <1>1, <1>3, <1>6 DEF Traces!TypeOK
<1>8. Traces!LastRunRecords'
  BY <1>1, <1>2, <1>3, <1>5, <1>6 DEF Traces!LastRunRecords
<1>9. Traces!RequestsKnown'
  BY <1>1, <1>6 DEF Traces!RequestsKnown
<1>10. /\ \A r \in DOMAIN runs : Traces!LastOn(r)' <=> Traces!LastOn(r)
       /\ \A r \in DOMAIN runs : Traces!Frames(r)' = Traces!Frames(r)
  BY <1>6 DEF Traces!LastOn, Traces!Frames
<1>11. Traces!RunIsInFile'
  <2>1. SUFFICES ASSUME NEW r \in DOMAIN runs \ torn, Traces!LastOn(r),
                        runs[r].ended # "replaced"
                 PROVE  Traces!Frames(r) = IF trace' # None /\ trace'.run = r
                                           THEN Traces!SpilledSoFar(trace)' \o trace'.buf
                                           ELSE file[runs[r].path]
    BY <1>1, <1>6, <1>10 DEF Traces!RunIsInFile
  <2>2. Traces!SpilledSoFar(trace)' = Traces!SpilledSoFar(trace)
    BY <1>1, <1>3 DEF Traces!SpilledSoFar
  <2> QED
    BY <1>1, <1>3, <2>1, <2>2 DEF Traces!IInv, Traces!RunIsInFile
<1>12. Traces!IndexFollowsFile'
  <2>1. SUFFICES ASSUME NEW r \in DOMAIN runs \ early, Traces!LastOn(r)
                 PROVE  Traces!IndexFollowsRun(r)'
    BY <1>1, <1>6, <1>10 DEF Traces!IndexFollowsFile
  <2>2. Traces!IndexFollowsRun(r)
    BY <2>1 DEF Traces!IInv, Traces!IndexFollowsFile
  <2> QED
    BY <1>1, <1>6, <1>10, <2>2 DEF Traces!IndexFollowsRun, Traces!Active, Traces!TakesInFile
<1> QED
  BY <1>7, <1>8, <1>9, <1>11, <1>12 DEF Traces!IInv

(* A trace begins: its run is the last, and whatever recorded before it is *)
(* replaced.                                                               *)
LEMMA BeginKeeps ==
    ASSUME Traces!IInv, NEW p \in Paths, Traces!Begin(p),
           NEW past \in Seq(Traces!Run), Len(past) = Len(runs),
           \A r \in DOMAIN runs : /\ past[r].path = runs[r].path
                                  /\ past[r].frames = runs[r].frames,
           \A r \in DOMAIN runs :
             past[r].ended = IF trace # None /\ trace.run = r THEN "replaced"
                             ELSE runs[r].ended,
           runs' = Append(past, Traces!NewRun(p))
    PROVE  Traces!IInv'
<1> DEFINE n == Len(runs) + 1
<1>1. /\ Traces!TypeOK /\ Traces!LastRunRecords /\ Traces!RequestsKnown
      /\ runs \in Seq(Traces!Run) /\ Len(runs) \in Nat /\ DOMAIN runs = 1 .. Len(runs)
  BY DEF Traces!IInv, Traces!TypeOK
<1>2. /\ trace' = [run |-> n, path |-> p, buf |-> << >>, spilled |-> 0, marks |-> 0]
      /\ early' = IF store[p] # None \/ Traces!Active(p) THEN early \union {n} ELSE early
      /\ UNCHANGED <<file, store, jobs, registry, client, failures, torn>>
  BY DEF Traces!Begin, Traces!indexed
<1>3. /\ trace' \in Traces!Recording /\ trace' # None /\ trace'.run = n /\ trace'.path = p
      /\ trace'.buf = << >> /\ trace'.spilled = 0
  <2>1. /\ trace' \in Traces!Recording /\ trace'.run = n /\ trace'.path = p
        /\ trace'.buf = << >> /\ trace'.spilled = 0
    BY <1>1, <1>2 DEF Traces!Recording
  <2> QED
    BY <2>1, TracesAssumption DEF Traces!StoreAssumption
<1>4. /\ Traces!NewRun(p) \in Traces!Run /\ Traces!NewRun(p).path = p
      /\ Traces!NewRun(p).frames = 0 /\ Traces!NewRun(p).ended = "no"
  BY DEF Traces!NewRun, Traces!Run
<1>5. /\ runs' \in Seq(Traces!Run) /\ Len(runs') = n /\ DOMAIN runs' = 1 .. n
      /\ \A r \in 1 .. Len(runs) : runs'[r] = past[r]
      /\ runs'[n] = Traces!NewRun(p)
  BY <1>1, <1>4
<1>6. /\ \A r \in DOMAIN runs : /\ runs'[r].path = runs[r].path
                                /\ runs'[r].frames = runs[r].frames
      /\ \A r \in DOMAIN runs :
           runs'[r].ended = IF trace # None /\ trace.run = r THEN "replaced"
                            ELSE runs[r].ended
      /\ runs'[n].path = p /\ runs'[n].frames = 0 /\ runs'[n].ended = "no"
  BY <1>1, <1>4, <1>5
<1>7. DOMAIN runs \subseteq DOMAIN runs' /\ n \in DOMAIN runs' /\ n \notin DOMAIN runs
      /\ \A r \in DOMAIN runs' : r \in DOMAIN runs \/ r = n
  BY <1>1, <1>5
<1>8. \A r \in DOMAIN runs : runs'[r].ended = "no" => FALSE
  BY <1>1, <1>6 DEF Traces!LastRunRecords
<1>9. Traces!TypeOK'
  <2>1. torn' \subseteq DOMAIN runs' /\ early' \subseteq DOMAIN runs'
    BY <1>1, <1>2, <1>7 DEF Traces!TypeOK
  <2> QED
    BY <1>1, <1>2, <1>3, <1>5, <2>1 DEF Traces!TypeOK
<1>10. Traces!LastRunRecords'
  <2>1. runs' # << >> /\ trace'.spilled + Len(trace'.buf) = 0
    BY <1>1, <1>3, <1>5
  <2>2. \A r \in DOMAIN runs' : runs'[r].ended = "no" <=> trace'.run = r
    BY <1>3, <1>6, <1>7, <1>8
  <2> QED
    BY <1>3, <1>5, <1>6, <2>1, <2>2 DEF Traces!LastRunRecords
<1>11. Traces!RequestsKnown'
  <2>1. ASSUME NEW d \in Clients, client[d].run # 0
        PROVE  client[d].run \in DOMAIN runs' /\ runs'[client[d].run].ended = "waited"
    <3>1. client[d].run \in DOMAIN runs /\ runs[client[d].run].ended = "waited"
      BY <1>1, <2>1 DEF Traces!RequestsKnown
    <3> QED
      BY <1>1, <1>6, <1>7, <3>1 DEF Traces!LastRunRecords
  <2> QED
    BY <1>1, <1>2, <2>1 DEF Traces!RequestsKnown
<1>12. ASSUME NEW r \in DOMAIN runs, Traces!LastOn(r)'
       PROVE  /\ Traces!LastOn(r) /\ runs[r].path # p
              /\ Traces!Frames(r)' = Traces!Frames(r)
  <2>1. n > r
    BY <1>1
  <2>2. runs[r].path # p
    BY <1>6, <1>7, <1>12, <2>1 DEF Traces!LastOn
  <2>3. Traces!LastOn(r)
    BY <1>6, <1>7, <1>12 DEF Traces!LastOn
  <2> QED
    BY <1>6, <2>2, <2>3 DEF Traces!Frames
<1>13. Traces!RunIsInFile'
  <2>1. SUFFICES ASSUME NEW r \in DOMAIN runs', r \notin torn, Traces!LastOn(r)',
                        runs'[r].ended # "replaced"
                 PROVE  Traces!Frames(r)' =
                          IF trace' # None /\ trace'.run = r
                          THEN Traces!SpilledSoFar(trace)' \o trace'.buf
                          ELSE file[runs'[r].path]
    BY <1>2 DEF Traces!RunIsInFile
  <2>2. CASE r = n
    <3>1. Traces!Frames(r)' = << >>
      BY <1>6, <2>2 DEF Traces!Frames
    <3>2. Traces!SpilledSoFar(trace)' = << >>
      BY <1>3 DEF Traces!SpilledSoFar
    <3> QED
      BY <1>3, <2>2, <3>1, <3>2
  <2>3. CASE r \in DOMAIN runs
    <3>1. /\ Traces!LastOn(r) /\ ~(trace # None /\ trace.run = r) /\ trace'.run # r
          /\ runs[r].ended # "replaced"
      BY <1>3, <1>6, <1>7, <1>12, <2>1, <2>3
    <3>2. Traces!Frames(r) = file[runs[r].path]
      BY <2>1, <2>3, <3>1 DEF Traces!IInv, Traces!RunIsInFile
    <3> QED
      BY <1>6, <1>12, <2>1, <2>3, <3>1, <3>2
  <2> QED
    BY <1>7, <2>2, <2>3
<1>14. Traces!IndexFollowsFile'
  <2>1. SUFFICES ASSUME NEW r \in DOMAIN runs', r \notin early', Traces!LastOn(r)'
                 PROVE  Traces!IndexFollowsRun(r)'
    BY DEF Traces!IndexFollowsFile
  <2>2. CASE r = n
    BY <1>2, <1>6, <2>1, <2>2 DEF Traces!IndexFollowsRun, Traces!Active
  <2>3. CASE r \in DOMAIN runs
    <3>1. Traces!IndexFollowsRun(r)
      BY <1>2, <1>12, <2>1, <2>3 DEF Traces!IInv, Traces!IndexFollowsFile
    <3>2. /\ runs'[r].path = runs[r].path /\ runs'[r].ended # "no"
          /\ runs'[r].ended \in {"stopped", "waited"} => runs'[r].ended = runs[r].ended
          /\ Traces!Frames(r)' = Traces!Frames(r)
      BY <1>6, <1>8, <1>12, <2>1, <2>3
    <3> QED
      BY <1>2, <3>1, <3>2 DEF Traces!IndexFollowsRun, Traces!TakesInFile
  <2> QED
    BY <1>7, <2>2, <2>3
<1> QED
  BY <1>9, <1>10, <1>11, <1>13, <1>14 DEF Traces!IInv

LEMMA StartTraceKeeps ==
    ASSUME Traces!IInv, NEW p \in Paths, Traces!StartTrace(p)
    PROVE  Traces!IInv'
<1>1. trace = None /\ Traces!Begin(p) /\ runs \in Seq(Traces!Run)
  BY DEF Traces!StartTrace, Traces!IInv, Traces!TypeOK
<1>2. runs' = Append(runs, Traces!NewRun(p))
  BY DEF Traces!StartTrace
<1> QED
  BY <1>1, <1>2, BeginKeeps

LEMMA CreateTracedKeeps ==
    ASSUME Traces!IInv, NEW p \in Paths, Traces!CreateTraced(p)
    PROVE  Traces!IInv'
<1>1. CASE trace = None
  BY <1>1, StartTraceKeeps DEF Traces!CreateTraced, Traces!StartTrace
<1>2. CASE trace # None
  <2> DEFINE past == [runs EXCEPT ![trace.run] = [@ EXCEPT !.ended = "replaced"]]
  <2>1. Traces!Begin(p) /\ runs' = Append(past, Traces!NewRun(p))
    BY <1>2 DEF Traces!CreateTraced
  <2>2. /\ runs \in Seq(Traces!Run) /\ runs[trace.run] \in Traces!Run
        /\ trace.run \in DOMAIN runs
    BY <1>2, TraceParts, RunPath DEF Traces!IInv, Traces!TypeOK
  <2>3. PICK run : run = [runs[trace.run] EXCEPT !.ended = "replaced"]
    OBVIOUS
  <2>4. /\ run \in Traces!Run /\ run.path = runs[trace.run].path
        /\ run.frames = runs[trace.run].frames /\ run.ended = "replaced"
    BY <2>2, <2>3 DEF Traces!Run
  <2>5. past = [runs EXCEPT ![trace.run] = run]
    BY <2>3
  <2> HIDE DEF past
  <2>6. /\ past \in Seq(Traces!Run) /\ Len(past) = Len(runs)
        /\ past[trace.run] = run
        /\ \A r \in DOMAIN runs \ {trace.run} : past[r] = runs[r]
    BY <2>2, <2>4, <2>5
  <2>7. /\ \A r \in DOMAIN runs : /\ past[r].path = runs[r].path
                                  /\ past[r].frames = runs[r].frames
        /\ \A r \in DOMAIN runs :
             past[r].ended = IF trace # None /\ trace.run = r THEN "replaced"
                             ELSE runs[r].ended
    BY <1>2, <2>4, <2>6
  <2> QED
    BY <2>1, <2>6, <2>7, BeginKeeps
<1> QED
  BY <1>1, <1>2

(* The first n frames of run r.                                            *)
FramesTo(r, n) == [i \in 1 .. n |-> <<r, i - 1>>]

LEMMA FramesGrow ==
    ASSUME NEW r \in Nat, NEW n \in Nat
    PROVE  /\ FramesTo(r, n) \in Seq(Traces!Frame) /\ Len(FramesTo(r, n)) = n
           /\ FramesTo(r, n) \o <<<<r, n>>>> = FramesTo(r, n + 1)
<1>1. \A m \in Nat : /\ FramesTo(r, m) \in Seq(Traces!Frame) /\ Len(FramesTo(r, m)) = m
                     /\ \A i \in 1 .. m : FramesTo(r, m)[i] = <<r, i - 1>>
  <2>1. SUFFICES ASSUME NEW m \in Nat
                 PROVE  /\ FramesTo(r, m) \in [1 .. m -> Traces!Frame]
                        /\ \A i \in 1 .. m : FramesTo(r, m)[i] = <<r, i - 1>>
    BY FunctionIsSequence
  <2>2. \A i \in 1 .. m : <<r, i - 1>> \in Traces!Frame
    BY DEF Traces!Frame
  <2> QED
    BY <2>2 DEF FramesTo
<1>2. <<r, n>> \in Traces!Frame
  BY DEF Traces!Frame
<1> DEFINE s == FramesTo(r, n)  u == FramesTo(r, n + 1)  x == <<r, n>>
<1>3. /\ s \in Seq(Traces!Frame) /\ Len(s) = n /\ u \in Seq(Traces!Frame) /\ Len(u) = n + 1
      /\ \A i \in 1 .. n : s[i] = u[i]
      /\ u[n + 1] = x
  <2>1. /\ s \in Seq(Traces!Frame) /\ Len(s) = n
        /\ \A i \in 1 .. n : s[i] = <<r, i - 1>>
    BY <1>1
  <2>2. n + 1 \in Nat
    OBVIOUS
  <2>3. /\ u \in Seq(Traces!Frame) /\ Len(u) = n + 1
        /\ \A i \in 1 .. n + 1 : u[i] = <<r, i - 1>>
    BY <1>1, <2>2, Zenon
  <2> HIDE DEF s, u
  <2>4. u[n + 1] = <<r, n>>
    <3>1. n + 1 \in 1 .. n + 1 /\ (n + 1) - 1 = n
      OBVIOUS
    <3> QED
      BY <2>3, <3>1
  <2>5. \A i \in 1 .. n : s[i] = u[i]
    <3>1. \A i \in 1 .. n : i \in 1 .. n + 1
      OBVIOUS
    <3> QED
      BY <2>1, <2>3, <3>1, Zenon
  <2> QED
    BY <2>1, <2>3, <2>4, <2>5
<1>4. s \o <<x>> = u
  <2> HIDE DEF s, u, x
  <2>1. x \in Traces!Frame
    BY <1>2 DEF x
  <2> QED
    BY <1>3, <2>1
<1> QED
  BY <1>1, <1>4

LEMMA FramesBegin ==
    ASSUME NEW r \in Nat
    PROVE  /\ FramesTo(r, 0) = << >>
           /\ FramesTo(r, 1) = <<<<r, 0>>>>
           /\ FramesTo(r, 2) = <<<<r, 0>>, <<r, 1>>>>
<1>1. FramesTo(r, 0) = << >>
  BY DEF FramesTo
<1>2. FramesTo(r, 1) = << >> \o <<<<r, 0>>>>
  <2>1. FramesTo(r, 0) \o <<<<r, 0>>>> = FramesTo(r, 0 + 1)
    BY FramesGrow
  <2>2. 0 + 1 = 1
    OBVIOUS
  <2> QED
    BY <1>1, <2>1, <2>2, Zenon
<1>3. FramesTo(r, 1) = <<<<r, 0>>>>
  BY <1>2
<1>4. FramesTo(r, 2) = <<<<r, 0>>>> \o <<<<r, 1>>>>
  <2>1. FramesTo(r, 1) \o <<<<r, 1>>>> = FramesTo(r, 1 + 1)
    BY FramesGrow
  <2>2. 1 + 1 = 2
    OBVIOUS
  <2> QED
    BY <1>3, <2>1, <2>2, Zenon
<1> QED
  BY <1>1, <1>3, <1>4

(* The entry of one run changes, not its path.                             *)
LEMMA RunChanged ==
    ASSUME Traces!TypeOK, NEW r0 \in DOMAIN runs, NEW run \in Traces!Run,
           run.path = runs[r0].path, runs' = [runs EXCEPT ![r0] = run]
    PROVE  /\ runs' \in Seq(Traces!Run) /\ DOMAIN runs' = DOMAIN runs
           /\ Len(runs') = Len(runs) /\ runs' # << >> /\ runs'[r0] = run
           /\ \A r \in DOMAIN runs \ {r0} : runs'[r] = runs[r]
           /\ \A r \in DOMAIN runs : runs'[r].path = runs[r].path
           /\ \A r \in DOMAIN runs : Traces!LastOn(r)' <=> Traces!LastOn(r)
<1>1. runs \in Seq(Traces!Run)
  BY DEF Traces!TypeOK
<1>2. /\ runs' \in Seq(Traces!Run) /\ DOMAIN runs' = DOMAIN runs
      /\ Len(runs') = Len(runs) /\ runs' # << >> /\ runs'[r0] = run
      /\ \A r \in DOMAIN runs \ {r0} : runs'[r] = runs[r]
  BY <1>1
<1>3. \A r \in DOMAIN runs : runs'[r].path = runs[r].path
  BY <1>2
<1> QED
  BY <1>2, <1>3 DEF Traces!LastOn

(* run_cycle_budget appends the next frames of the run, the header first.  *)
LEMMA PendingIsNext ==
    ASSUME Traces!IInv, trace # None
    PROVE  /\ Traces!Pending(trace) \in Traces!Recording
           /\ Traces!Pending(trace).run = trace.run
           /\ Traces!Pending(trace).path = trace.path
           /\ Traces!Pending(trace).marks = trace.marks
           /\ Traces!Pending(trace).spilled = trace.spilled
           /\ Traces!Pending(trace).buf # << >>
           /\ trace.run \notin torn =>
                SoFar(Traces!Pending(trace), file[trace.path]) \o Traces!Pending(trace).buf
                  = FramesTo(trace.run, trace.spilled + Len(Traces!Pending(trace).buf))
<1> DEFINE n == trace.spilled + Len(trace.buf)
           r == trace.run
           new == IF n = 0 THEN <<<<r, 0>>, <<r, 1>>>> ELSE <<<<r, n>>>>
           t == Traces!Pending(trace)
           f == file[trace.path]
<1>1. /\ trace \in Traces!Recording /\ r \in Nat /\ n \in Nat /\ trace.spilled \in Nat
      /\ trace.buf \in Seq(Traces!Frame) /\ Len(trace.buf) \in Nat
      /\ SoFar(trace, f) \in Seq(Traces!Frame)
  <2>1. /\ trace \in Traces!Recording /\ trace.spilled \in Nat
        /\ trace.buf \in Seq(Traces!Frame) /\ r \in DOMAIN runs /\ runs \in Seq(Traces!Run)
        /\ f \in Seq(Traces!Frame) \union {None}
        /\ trace.spilled # 0 => f # None
    BY TraceParts DEF Traces!IInv, Traces!TypeOK
  <2>2. r \in Nat /\ Len(trace.buf) \in Nat
    BY <2>1
  <2>3. SoFar(trace, f) \in Seq(Traces!Frame)
    BY <2>1 DEF SoFar
  <2> QED
    BY <2>1, <2>2, <2>3
<1>2. /\ new \in Seq(Traces!Frame) /\ Len(new) = IF n = 0 THEN 2 ELSE 1
  <2>1. <<r, 0>> \in Traces!Frame /\ <<r, 1>> \in Traces!Frame /\ <<r, n>> \in Traces!Frame
    BY <1>1 DEF Traces!Frame
  <2> QED
    BY <2>1
<1>3. /\ t \in Traces!Recording /\ t.run = r /\ t.path = trace.path
      /\ t.marks = trace.marks /\ t.spilled = trace.spilled /\ t.buf = trace.buf \o new
  <2>1. t = [trace EXCEPT !.buf = trace.buf \o new]
    BY DEF Traces!Pending
  <2>2. trace.buf \o new \in Seq(Traces!Frame)
    BY <1>1, <1>2
  <2> HIDE DEF new, t
  <2> QED
    BY <1>1, <2>1, <2>2 DEF Traces!Recording
<1>4. t.buf # << >>
  BY <1>1, <1>2, <1>3
<1>5. ASSUME r \notin torn
      PROVE  SoFar(t, f) \o t.buf = FramesTo(r, trace.spilled + Len(t.buf))
  <2>1. FramesTo(r, n) = SoFar(trace, f) \o trace.buf
    <3>1. /\ r \in DOMAIN runs /\ Traces!LastOn(r) /\ runs[r].ended = "no"
          /\ runs[r].frames = n
      BY TraceParts
    <3>2. Traces!Frames(r) = Traces!SpilledSoFar(trace) \o trace.buf
      BY <1>5, <3>1 DEF Traces!IInv, Traces!RunIsInFile
    <3> QED
      BY <3>1, <3>2 DEF Traces!Frames, FramesTo, Traces!SpilledSoFar, SoFar
  <2>2. SoFar(t, f) = SoFar(trace, f)
    BY <1>3 DEF SoFar
  <2>3. SoFar(t, f) \o t.buf = FramesTo(r, n) \o new
    <3>1. SoFar(trace, f) \o (trace.buf \o new) = (SoFar(trace, f) \o trace.buf) \o new
      <4>1. \A a, b, c \in Seq(Traces!Frame) : a \o (b \o c) = (a \o b) \o c
        BY ConcatAssociative
      <4> HIDE DEF new, f
      <4> QED
        BY <1>1, <1>2, <4>1, Zenon
    <3> QED
      BY <1>3, <2>1, <2>2, <3>1
  <2>4. trace.spilled + Len(t.buf) = n + Len(new)
    <3>1. Len(t.buf) = Len(trace.buf) + Len(new) /\ Len(new) \in Nat
      <4> HIDE DEF new, t
      <4>1. \A a, b \in Seq(Traces!Frame) : Len(a \o b) = Len(a) + Len(b) /\ Len(b) \in Nat
        OBVIOUS
      <4> QED
        BY <1>1, <1>2, <1>3, <4>1
    <3>2. n = trace.spilled + Len(trace.buf)
      OBVIOUS
    <3> HIDE DEF n, new, t
    <3> QED
      BY <1>1, <3>1, <3>2
  <2>5. FramesTo(r, n) \o new = FramesTo(r, n + Len(new))
    <3>1. CASE n = 0
      <4>1. FramesTo(r, n) = << >> /\ new = FramesTo(r, 2) /\ n + Len(new) = 2
        BY <1>1, <1>2, <3>1, FramesBegin
      <4>2. << >> \o new = new
        BY <1>2
      <4> QED
        BY <4>1, <4>2
    <3>2. CASE n # 0
      <4>1. new = <<<<r, n>>>> /\ n + Len(new) = n + 1
        BY <1>2, <3>2
      <4> QED
        BY <1>1, <4>1, FramesGrow
    <3> QED
      BY <3>1, <3>2
  <2> QED
    BY <2>3, <2>4, <2>5
<1> QED
  BY <1>3, <1>4, <1>5

(* finalize_trace writes the header of a trace that has recorded nothing.  *)
LEMMA HeadedIsWhole ==
    ASSUME Traces!IInv, trace # None
    PROVE  /\ Traces!Headed(trace) \in Traces!Recording
           /\ Traces!Headed(trace).run = trace.run
           /\ Traces!Headed(trace).path = trace.path
           /\ Traces!Headed(trace).spilled = trace.spilled
           /\ trace.spilled # 0 \/ Traces!Headed(trace).buf # << >>
           /\ trace.run \notin torn =>
                SoFar(Traces!Headed(trace), file[trace.path]) \o Traces!Headed(trace).buf
                  = FramesTo(trace.run, trace.spilled + Len(Traces!Headed(trace).buf))
<1> DEFINE r == trace.run
           t == Traces!Headed(trace)
           f == file[trace.path]
<1>1. /\ trace \in Traces!Recording /\ trace.spilled \in Nat
      /\ trace.buf \in Seq(Traces!Frame) /\ r \in Nat
      /\ r \in DOMAIN runs /\ Traces!LastOn(r) /\ runs[r].ended = "no"
      /\ runs[r].frames = trace.spilled + Len(trace.buf)
  BY TraceParts DEF Traces!IInv, Traces!TypeOK
<1>2. CASE trace.spilled = 0 /\ trace.buf = << >>
  <2> DEFINE new == <<<<r, 0>>>>
  <2>1. new \in Seq(Traces!Frame) /\ Len(new) = 1 /\ new # << >>
    <3>1. <<r, 0>> \in Traces!Frame
      BY <1>1 DEF Traces!Frame
    <3> QED
      BY <3>1
  <2>2. t = [trace EXCEPT !.buf = new]
    BY <1>2 DEF Traces!Headed
  <2>3. new = FramesTo(r, 1)
    BY <1>1, FramesBegin
  <2> HIDE DEF new, t
  <2>4. /\ t \in Traces!Recording /\ t.run = r /\ t.path = trace.path
        /\ t.spilled = trace.spilled /\ t.buf = new
    BY <1>1, <2>1, <2>2 DEF Traces!Recording
  <2>5. SoFar(t, f) = << >> /\ << >> \o new = new /\ trace.spilled + Len(t.buf) = 1
    BY <1>2, <2>1, <2>4 DEF SoFar
  <2> QED
    BY <2>1, <2>3, <2>4, <2>5 DEF t
<1>3. CASE ~(trace.spilled = 0 /\ trace.buf = << >>)
  <2>1. t = trace
    BY <1>3 DEF Traces!Headed
  <2>2. ASSUME r \notin torn
        PROVE  SoFar(trace, f) \o trace.buf = FramesTo(r, trace.spilled + Len(trace.buf))
    <3>1. Traces!Frames(r) = Traces!SpilledSoFar(trace) \o trace.buf
      BY <1>1, <2>2 DEF Traces!IInv, Traces!RunIsInFile
    <3> QED
      BY <1>1, <3>1 DEF Traces!Frames, FramesTo, Traces!SpilledSoFar, SoFar
  <2> QED
    BY <1>1, <1>3, <2>1, <2>2
<1> QED
  BY <1>2, <1>3

LEMMA RecordKeeps ==
    ASSUME Traces!IInv, Traces!Record
    PROVE  Traces!IInv'
<1> DEFINE t == Traces!Pending(trace)
           r0 == trace.run
           f == file[trace.path]
           N == trace.spilled + Len(t.buf)
<1>1. /\ trace # None /\ Traces!TypeOK /\ Traces!LastRunRecords /\ Traces!RequestsKnown
      /\ UNCHANGED <<store, jobs, registry, client, early>>
  BY DEF Traces!Record, Traces!IInv, Traces!indexed
<1>2. /\ t \in Traces!Recording /\ t.run = r0 /\ t.path = trace.path
      /\ t.spilled = trace.spilled /\ t.buf # << >>
      /\ r0 \notin torn => SoFar(t, f) \o t.buf = FramesTo(r0, N)
  BY <1>1, PendingIsNext
<1>3. /\ trace.path \in Paths /\ f \in Seq(Traces!Frame) \union {None}
      /\ r0 \in DOMAIN runs /\ runs[r0].ended = "no" /\ runs[r0].path = trace.path
      /\ runs[r0] \in Traces!Run /\ runs # << >> /\ r0 = Len(runs)
  BY <1>1, TraceParts, RunPath DEF Traces!LastRunRecords
<1>3a. trace.spilled # 0 => f # None
  BY <1>1, TraceParts
<1>4. PICK s \in Traces!Spills(t, FALSE) :
        /\ trace' = s.trace /\ Traces!After(t, s)
        /\ runs' = [runs EXCEPT ![t.run].frames = t.spilled + Len(t.buf)]
        /\ torn' = IF s.torn THEN torn \union {t.run} ELSE torn
  BY DEF Traces!Record
<1> HIDE DEF t, N
<1>5. Spillable(t)
  BY <1>2, <1>3, <1>3a DEF Spillable
<1>6. /\ s.trace \in Traces!Recording /\ s.trace.run = r0 /\ s.trace.path = trace.path
      /\ s.trace.spilled + Len(s.trace.buf) = t.spilled + Len(t.buf)
      /\ s.file \in Seq(Traces!Frame) \union {None}
      /\ s.trace.spilled # 0 \/ f # None => s.file # None
      /\ s.torn \in BOOLEAN
      /\ ~s.torn => SoFar(s.trace, s.file) \o s.trace.buf = SoFar(t, f) \o t.buf
  BY <1>2, <1>4, <1>5, SpillKeeps, ZenonT(30)
<1>7. /\ trace' \in Traces!Recording /\ trace' # None
      /\ trace'.run = r0 /\ trace'.path = trace.path
      /\ N \in Nat /\ N = trace'.spilled + Len(trace'.buf)
  <2>1. trace' = s.trace /\ s.trace # None
    BY <1>4, <1>6, TracesAssumption DEF Traces!StoreAssumption
  <2>2. t.spilled \in Nat /\ Len(t.buf) \in Nat
    BY <1>2 DEF Traces!Recording
  <2> QED
    BY <1>2, <1>6, <2>1, <2>2 DEF N
<1>8. PICK run : /\ run = [runs[r0] EXCEPT !.frames = N]
                 /\ runs' = [runs EXCEPT ![r0] = run]
  BY <1>2, <1>4 DEF N
<1>9. /\ run \in Traces!Run /\ run.path = runs[r0].path /\ run.frames = N
      /\ run.ended = "no"
  <2>1. run = [runs[r0] EXCEPT !.frames = N]
    BY <1>8
  <2> QED
    BY <1>3, <1>7, <2>1 DEF Traces!Run
<1>10. runs' = [runs EXCEPT ![r0] = run]
  BY <1>8
<1>11. /\ runs' \in Seq(Traces!Run) /\ DOMAIN runs' = DOMAIN runs
       /\ Len(runs') = Len(runs) /\ runs' # << >> /\ runs'[r0] = run
       /\ \A r \in DOMAIN runs \ {r0} : runs'[r] = runs[r]
       /\ \A r \in DOMAIN runs : runs'[r].path = runs[r].path
       /\ \A r \in DOMAIN runs : Traces!LastOn(r)' <=> Traces!LastOn(r)
  BY <1>1, <1>3, <1>9, <1>10, RunChanged
<1>12. /\ file' \in [Paths -> Seq(Traces!Frame) \union {None}]
       /\ file'[trace.path] = s.file /\ failures' \in Nat
       /\ \A q \in Paths \ {trace.path} : file'[q] = file[q]
       /\ \A q \in Paths : file[q] # None => file'[q] # None
  <2>1. /\ file' = [file EXCEPT ![trace.path] = s.file]
        /\ failures' \in {failures, failures + 1}
    BY <1>2, <1>4 DEF Traces!After
  <2> QED
    BY <1>1, <1>3, <1>6, <2>1 DEF Traces!TypeOK
<1>13. torn \subseteq torn' /\ torn' \subseteq DOMAIN runs
       /\ (r0 \notin torn' => r0 \notin torn /\ ~s.torn)
  BY <1>1, <1>2, <1>3, <1>4 DEF Traces!TypeOK
<1>14. Traces!TypeOK'
  BY <1>1, <1>7, <1>11, <1>12, <1>13 DEF Traces!TypeOK
<1>15. Traces!LastRunRecords'
  <2>1. trace'.spilled # 0 => file'[trace'.path] # None
    BY <1>4, <1>6, <1>7, <1>12
  <2> QED
    BY <1>1, <1>3, <1>7, <1>9, <1>11, <2>1 DEF Traces!LastRunRecords
<1>16. Traces!RequestsKnown'
  <2>1. ASSUME NEW i \in DOMAIN jobs, jobs[i].size # 0
        PROVE  file'[jobs[i].path] # None
    BY <1>1, <1>12, <2>1, JobParts DEF Traces!RequestsKnown
  <2>2. ASSUME NEW d \in Clients, client[d].run # 0
        PROVE  client[d].run \in DOMAIN runs /\ runs'[client[d].run].ended = "waited"
    BY <1>1, <1>3, <1>11, <2>2 DEF Traces!RequestsKnown
  <2> QED
    BY <1>1, <1>11, <2>1, <2>2 DEF Traces!RequestsKnown
<1>17. ASSUME NEW r \in DOMAIN runs \ {r0}, Traces!LastOn(r)'
       PROVE  /\ r \notin torn' /\ runs'[r].ended # "replaced" =>
                   Traces!Frames(r)' = file'[runs'[r].path]
              /\ r \notin early' => Traces!IndexFollowsRun(r)'
              /\ trace' = None \/ trace'.run # r
  <2>1. \A q \in Paths \ {trace.path} : Traces!Active(q)' => Traces!Active(q)
    BY <1>1 DEF Traces!Active
  <2> QED
    BY <1>1, <1>7, <1>11, <1>12, <1>13, <1>17, <2>1, OthersKeep
<1>18. Traces!RunIsInFile'
  <2>1. SUFFICES ASSUME NEW r \in DOMAIN runs, r \notin torn', Traces!LastOn(r)',
                        runs'[r].ended # "replaced"
                 PROVE  Traces!Frames(r)' =
                          IF trace' # None /\ trace'.run = r
                          THEN Traces!SpilledSoFar(trace)' \o trace'.buf
                          ELSE file'[runs'[r].path]
    BY <1>11 DEF Traces!RunIsInFile
  <2>2. CASE r = r0
    <3>1. Traces!Frames(r0)' = FramesTo(r0, N)
      BY <1>7, <1>9, <1>11 DEF Traces!Frames, FramesTo
    <3>2. Traces!SpilledSoFar(trace)' = SoFar(s.trace, s.file)
      BY <1>4, <1>7, <1>12 DEF Traces!SpilledSoFar, SoFar
    <3>3. FramesTo(r0, N) = SoFar(s.trace, s.file) \o s.trace.buf
      BY <1>2, <1>6, <1>13, <2>1, <2>2
    <3> QED
      BY <1>4, <1>7, <2>2, <3>1, <3>2, <3>3
  <2>3. CASE r # r0
    BY <1>17, <2>1, <2>3
  <2> QED
    BY <2>2, <2>3
<1>19. Traces!IndexFollowsFile'
  <2>1. SUFFICES ASSUME NEW r \in DOMAIN runs, r \notin early', Traces!LastOn(r)'
                 PROVE  Traces!IndexFollowsRun(r)'
    BY <1>11 DEF Traces!IndexFollowsFile
  <2>2. CASE r = r0
    <3>1. Traces!IndexFollowsRun(r)
      BY <1>1, <1>11, <2>1 DEF Traces!IInv, Traces!IndexFollowsFile
    <3>2. store'[runs'[r].path] = None /\ ~Traces!Active(runs[r].path)'
      BY <1>1, <1>3, <1>11, <2>2, <3>1 DEF Traces!IndexFollowsRun, Traces!Active
    <3>3. runs'[r].ended = "no"
      BY <1>9, <1>11, <2>2
    <3> QED
      BY <3>2, <3>3 DEF Traces!IndexFollowsRun
  <2>3. CASE r # r0
    BY <1>17, <2>1, <2>3
  <2> QED
    BY <2>2, <2>3
<1> QED
  BY <1>14, <1>15, <1>16, <1>18, <1>19 DEF Traces!IInv

(* A trace ends with a forced spill: all of its run is in its file, or the *)
(* write failed; and no index of it is under way that has read of it.      *)
LEMMA EndKeeps ==
    ASSUME Traces!IInv, trace # None, NEW end \in {"stopped", "waited"},
           Traces!Finalize(end), UNCHANGED <<store, early>>,
           jobs' \in Seq(Traces!Job), DOMAIN jobs \subseteq DOMAIN jobs',
           registry' \in [Paths -> 0 .. Len(jobs')],
           \A i \in DOMAIN jobs : jobs'[i] = jobs[i],
           \A i \in DOMAIN jobs' \ DOMAIN jobs : jobs'[i].size = 0,
           \A i \in DOMAIN jobs' :
             jobs'[i].state = "building" => registry'[jobs'[i].path] = i,
           \A q \in Paths \ {trace.path} : Traces!Active(q)' => Traces!Active(q),
           client' \in [Clients -> Traces!Request],
           \A d \in Clients :
             /\ client'[d].at \in {"ensure", "start"} => client'[d].path # None
             /\ \/ client'[d].run \in {0, client[d].run}
                \/ client'[d].run = trace.run /\ end = "waited"
    PROVE  Traces!IInv'
<1> DEFINE t == Traces!Headed(trace)
           f == file[trace.path]
           N == trace.spilled + Len(t.buf)
<1>1. /\ Traces!TypeOK /\ Traces!LastRunRecords /\ Traces!RequestsKnown
  BY DEF Traces!IInv
<1>2. PICK r0 : r0 = trace.run
  OBVIOUS
<1>3. /\ t \in Traces!Recording /\ t.run = r0 /\ t.path = trace.path
      /\ t.spilled = trace.spilled
      /\ t.spilled # 0 \/ t.buf # << >>
      /\ r0 \notin torn => SoFar(t, f) \o t.buf = FramesTo(r0, N)
  BY <1>2, HeadedIsWhole
<1>4. /\ trace.path \in Paths /\ f \in Seq(Traces!Frame) \union {None}
      /\ r0 \in DOMAIN runs /\ runs[r0].ended = "no" /\ runs[r0].path = trace.path
      /\ runs[r0] \in Traces!Run /\ r0 = Len(runs) /\ Traces!LastOn(r0)
  BY <1>1, <1>2, TraceParts, RunPath
<1>5. trace.spilled # 0 => f # None
  BY TraceParts
<1>6. PICK s \in Traces!Spills(t, TRUE) :
        /\ trace' = None /\ Traces!After(t, s)
        /\ runs' = [runs EXCEPT ![t.run] =
                      [@ EXCEPT !.ended = end, !.frames = t.spilled + Len(t.buf)]]
        /\ torn' = IF s.failed THEN torn \union {t.run} ELSE torn
  BY DEF Traces!Finalize
<1> HIDE DEF t, N
<1>7. Spillable(t)
  BY <1>3, <1>4, <1>5 DEF Spillable
<1>8. /\ s.file \in Seq(Traces!Frame) \union {None}
      /\ f # None => s.file # None
      /\ s.failed \in BOOLEAN
      /\ ~s.failed => s.file = SoFar(t, f) \o t.buf
  <2>1. /\ s.file \in Seq(Traces!Frame) \union {None}
        /\ s.trace.spilled # 0 \/ file[t.path] # None => s.file # None
        /\ s.failed \in BOOLEAN
    BY <1>6, <1>7, SpillKeeps
  <2>2. TRUE /\ ~s.failed /\ (t.spilled # 0 \/ t.buf # << >>) =>
           s.file = SoFar(t, file[t.path]) \o t.buf
    BY <1>6, <1>7, SpillKeeps
  <2> QED
    BY <1>3, <2>1, <2>2
<1>9. N \in Nat /\ N = t.spilled + Len(t.buf)
  <2>1. t.spilled \in Nat /\ Len(t.buf) \in Nat
    BY <1>3 DEF Traces!Recording
  <2> QED
    BY <1>3, <2>1 DEF N
<1>10. PICK run : /\ run = [runs[r0] EXCEPT !.ended = end, !.frames = N]
                  /\ runs' = [runs EXCEPT ![r0] = run]
  BY <1>3, <1>6, <1>9
<1>11. /\ run \in Traces!Run /\ run.path = runs[r0].path /\ run.frames = N
       /\ run.ended = end
  <2>1. run = [runs[r0] EXCEPT !.ended = end, !.frames = N]
    BY <1>10
  <2> QED
    BY <1>4, <1>9, <2>1 DEF Traces!Run
<1>12. runs' = [runs EXCEPT ![r0] = run]
  BY <1>10
<1>13. /\ runs' \in Seq(Traces!Run) /\ DOMAIN runs' = DOMAIN runs
       /\ runs'[r0] = run
       /\ \A r \in DOMAIN runs \ {r0} : runs'[r] = runs[r]
       /\ \A r \in DOMAIN runs : runs'[r].path = runs[r].path
       /\ \A r \in DOMAIN runs : Traces!LastOn(r)' <=> Traces!LastOn(r)
  BY <1>1, <1>4, <1>11, <1>12, RunChanged
<1>14. /\ file' \in [Paths -> Seq(Traces!Frame) \union {None}]
       /\ file'[trace.path] = s.file /\ failures' \in Nat
       /\ \A q \in Paths \ {trace.path} : file'[q] = file[q]
       /\ \A q \in Paths : file[q] # None => file'[q] # None
  <2>1. /\ file' = [file EXCEPT ![trace.path] = s.file]
        /\ failures' \in {failures, failures + 1}
    BY <1>3, <1>6 DEF Traces!After
  <2> QED
    BY <1>1, <1>4, <1>8, <2>1 DEF Traces!TypeOK
<1>15. torn \subseteq torn' /\ torn' \subseteq DOMAIN runs
       /\ (r0 \notin torn' => r0 \notin torn /\ ~s.failed)
  BY <1>1, <1>3, <1>4, <1>6 DEF Traces!TypeOK
<1>16. trace' = None
  BY <1>6
<1>17. Traces!TypeOK'
  BY <1>1, <1>13, <1>14, <1>15, <1>16 DEF Traces!TypeOK
<1>18. Traces!LastRunRecords'
  BY <1>1, <1>2, <1>11, <1>13, <1>16 DEF Traces!LastRunRecords
<1>19. Traces!RequestsKnown'
  <2>1. ASSUME NEW i \in DOMAIN jobs', jobs'[i].size # 0
        PROVE  file'[jobs'[i].path] # None
    BY <1>1, <1>14, <2>1, JobParts DEF Traces!RequestsKnown
  <2>2. ASSUME NEW d \in Clients, client'[d].run # 0
        PROVE  /\ client'[d].run \in DOMAIN runs
               /\ runs'[client'[d].run].ended = "waited"
    BY <1>1, <1>2, <1>4, <1>11, <1>13, <2>2 DEF Traces!RequestsKnown
  <2> QED
    BY <1>13, <2>1, <2>2 DEF Traces!RequestsKnown
<1>20. ASSUME NEW r \in DOMAIN runs \ {r0}, Traces!LastOn(r)'
       PROVE  /\ r \notin torn' /\ runs'[r].ended # "replaced" =>
                   Traces!Frames(r)' = file'[runs'[r].path]
              /\ r \notin early' => Traces!IndexFollowsRun(r)'
  BY <1>1, <1>2, <1>13, <1>14, <1>15, <1>16, <1>20, OthersKeep
<1>21. r0 \notin torn' => Traces!Frames(r0)' = file'[runs'[r0].path]
  <2>1. Traces!Frames(r0)' = FramesTo(r0, N)
    BY <1>11, <1>13 DEF Traces!Frames, FramesTo
  <2> QED
    BY <1>3, <1>4, <1>8, <1>13, <1>14, <1>15, <2>1, ZenonT(30)
<1>22. Traces!RunIsInFile'
  BY <1>13, <1>16, <1>20, <1>21 DEF Traces!RunIsInFile
<1>23. r0 \notin early' => Traces!IndexFollowsRun(r0)'
  <2>1. SUFFICES ASSUME r0 \notin early' PROVE Traces!IndexFollowsRun(r0)'
    OBVIOUS
  <2>2. store[runs[r0].path] = None /\ ~Traces!Active(runs[r0].path)
    BY <1>4, <2>1 DEF Traces!IInv, Traces!IndexFollowsFile, Traces!IndexFollowsRun
  <2>3. ASSUME NEW i \in DOMAIN jobs', jobs'[i].path = runs[r0].path,
               jobs'[i].state = "building", jobs'[i].size # 0
        PROVE  FALSE
    <3>1. i \in DOMAIN jobs /\ jobs'[i] = jobs[i]
      BY <2>3
    <3>2. registry[jobs[i].path] = i /\ i # 0
      BY <1>1, <2>3, <3>1 DEF Traces!RequestsKnown, Traces!TypeOK
    <3> QED
      BY <2>2, <2>3, <3>1, <3>2 DEF Traces!Active
  <2> QED
    BY <1>11, <1>13, <2>2, <2>3 DEF Traces!IndexFollowsRun
<1>24. Traces!IndexFollowsFile'
  BY <1>13, <1>20, <1>23 DEF Traces!IndexFollowsFile
<1> QED
  BY <1>17, <1>18, <1>19, <1>22, <1>24 DEF Traces!IInv

LEMMA StopKeeps ==
    ASSUME Traces!IInv, Traces!Stop
    PROVE  Traces!IInv'
<1>1. /\ trace # None /\ Traces!Finalize("stopped")
      /\ Traces!StartIndex(trace.path, Traces!MarksOf(trace))
      /\ UNCHANGED <<store, client, early>>
  BY DEF Traces!Stop
<1>2. /\ Traces!TypeOK /\ Traces!RequestsKnown /\ trace.path \in Paths
      /\ Traces!MarksOf(trace) \in Nat
  BY <1>1, TraceParts DEF Traces!IInv, Traces!MarksOf
<1>3. /\ jobs' \in Seq(Traces!Job) /\ DOMAIN jobs \subseteq DOMAIN jobs'
      /\ registry' \in [Paths -> 0 .. Len(jobs')]
      /\ \A i \in DOMAIN jobs : jobs'[i] = jobs[i]
      /\ \A i \in DOMAIN jobs' \ DOMAIN jobs : jobs'[i].size = 0
      /\ \A i \in DOMAIN jobs' :
           jobs'[i].state = "building" => registry'[jobs'[i].path] = i
      /\ \A q \in Paths \ {trace.path} : Traces!Active(q)' => Traces!Active(q)
  BY <1>1, <1>2, IndexStarts
<1>4. /\ client' \in [Clients -> Traces!Request]
      /\ \A d \in Clients :
           /\ client'[d].at \in {"ensure", "start"} => client'[d].path # None
           /\ client'[d].run \in {0, client[d].run}
  BY <1>1, <1>2 DEF Traces!TypeOK, Traces!RequestsKnown
<1> QED
  BY <1>1, <1>3, <1>4, EndKeeps

LEMMA StopAndWaitKeeps ==
    ASSUME Traces!IInv, NEW c \in Clients, Traces!StopAndWait(c)
    PROVE  Traces!IInv'
<1> DEFINE request == [at |-> "ensure", path |-> trace.path, run |-> trace.run,
                       marks |-> Traces!MarksOf(trace), job |-> 0]
<1>1. /\ trace # None /\ Traces!Finalize("waited")
      /\ client' = [client EXCEPT ![c] = request]
      /\ UNCHANGED <<store, jobs, registry, early>>
  BY DEF Traces!StopAndWait, Traces!indexed
<1>2. /\ Traces!TypeOK /\ Traces!RequestsKnown /\ trace.path \in Paths
      /\ trace.run \in Nat /\ Traces!MarksOf(trace) \in Nat
  BY <1>1, TraceParts DEF Traces!IInv, Traces!MarksOf, Traces!TypeOK
<1>3. /\ request \in Traces!Request /\ request.run = trace.run
      /\ request.path # None
  BY <1>2, TracesAssumption DEF Traces!Request, Traces!StoreAssumption
<1> HIDE DEF request
<1>4. /\ client' \in [Clients -> Traces!Request]
      /\ \A d \in Clients :
           /\ client'[d].at \in {"ensure", "start"} => client'[d].path # None
           /\ client'[d].run \in {0, client[d].run} \/ client'[d].run = trace.run
  BY <1>1, <1>2, <1>3 DEF Traces!TypeOK, Traces!RequestsKnown
<1>5. /\ jobs' \in Seq(Traces!Job) /\ registry' \in [Paths -> 0 .. Len(jobs')]
      /\ \A i \in DOMAIN jobs' :
           jobs'[i].state = "building" => registry'[jobs'[i].path] = i
      /\ \A q \in Paths \ {trace.path} : Traces!Active(q)' => Traces!Active(q)
  BY <1>1, <1>2 DEF Traces!TypeOK, Traces!RequestsKnown, Traces!Active
<1> QED
  BY <1>1, <1>4, <1>5, EndKeeps

LEMMA NextTraces == Traces!IInv /\ [Traces!Next]_(Traces!vars) => Traces!IInv'
<1> SUFFICES ASSUME Traces!IInv, [Traces!Next]_(Traces!vars) PROVE Traces!IInv'
  OBVIOUS
<1>1. ASSUME NEW p \in Paths, Traces!StartTrace(p) \/ Traces!CreateTraced(p)
      PROVE  Traces!IInv'
  BY <1>1, StartTraceKeeps, CreateTracedKeeps
<1>2. CASE Traces!Record
  BY <1>2, RecordKeeps
<1>3. CASE Traces!Mark
  BY <1>3, MarkKeeps
<1>4. CASE Traces!Stop
  BY <1>4, StopKeeps
<1>5. ASSUME NEW j \in DOMAIN jobs, Traces!Build(j)
      PROVE  Traces!IInv'
  BY <1>5, BuilderOpensKeeps, BuilderReadsKeeps, BuilderPublishesKeeps, BuilderFailsKeeps
     DEF Traces!Build
<1>6. ASSUME NEW c \in Clients, Traces!StopAndWait(c) \/ Traces!Serve(c)
      PROVE  Traces!IInv'
  BY <1>6, StopAndWaitKeeps, StartBuildKeeps, RequestSteps DEF Traces!Serve
<1>7. ASSUME NEW c \in Clients, NEW p \in Paths, Traces!Read(c, p)
      PROVE  Traces!IInv'
  BY <1>7, RequestSteps
<1>8. CASE UNCHANGED Traces!vars
  <2>1. UNCHANGED <<trace, file, store, jobs, registry, client, failures, runs, torn, early>>
    BY <1>8 DEF Traces!vars, Traces!traced, Traces!indexed, Traces!history
  <2>2. Traces!TypeOK' /\ Traces!LastRunRecords' /\ Traces!RequestsKnown'
    BY <2>1 DEF Traces!IInv, Traces!TypeOK, Traces!LastRunRecords, Traces!RequestsKnown
  <2>3. Traces!RunIsInFile'
    BY <2>1 DEF Traces!IInv, Traces!RunIsInFile, Traces!LastOn, Traces!Frames,
       Traces!SpilledSoFar
  <2>4. Traces!IndexFollowsFile'
    BY <2>1 DEF Traces!IInv, Traces!IndexFollowsFile, Traces!IndexFollowsRun,
       Traces!LastOn, Traces!Frames, Traces!Active, Traces!TakesInFile
  <2> QED
    BY <2>2, <2>3, <2>4 DEF Traces!IInv
<1> QED
  BY <1>1, <1>2, <1>3, <1>4, <1>5, <1>6, <1>7, <1>8 DEF Traces!Next

(* What a run has recorded is in its file and its buffer, once and in      *)
(* order, and in the file alone once it has ended: whatever the writes     *)
(* that fail and whoever asks for an index (TraceState::spill,             *)
(* finalize_trace).                                                        *)
THEOREM RunsAreInTheirFiles == Traces!Spec => []RunIsInFile
<1>1. Traces!Init => Traces!IInv
  BY TracesInit
<1>2. Traces!IInv /\ [Traces!Next]_(Traces!vars) => Traces!IInv'
  BY NextTraces
<1>3. Traces!IInv => RunIsInFile
  BY DEF Traces!IInv, RunIsInFile
<1> QED
  BY <1>1, <1>2, <1>3, PTL DEF Traces!Spec

(* A stop that waited for the index answers when the store has all of the  *)
(* run, unless its path was indexed before the run ended (trace/run/stop,  *)
(* ensure_inner).                                                          *)
THEOREM WaitedIndexesAreWhole == Traces!Spec => WaitedIndexIsWhole
<1>1. Traces!Init => Traces!IInv
  BY TracesInit
<1>2. Traces!IInv /\ [Traces!Next]_(Traces!vars) => Traces!IInv'
  BY NextTraces
<1>3. ASSUME Traces!IInv, NEW c \in Clients, NEW r \in DOMAIN runs \ early,
             Traces!Answers(c, r)
      PROVE  store[runs[r].path].frames = Traces!Frames(r)
  <2>1. r # 0 /\ client[c].run = r /\ Traces!LastOn(r) /\ r \notin torn
        /\ store[runs[r].path] # None
    BY <1>3 DEF Traces!Answers, Traces!IInv, Traces!TypeOK
  <2>2. runs[r].ended = "waited"
    BY <1>3, <2>1 DEF Traces!IInv, Traces!RequestsKnown
  <2> QED
    BY <1>3, <2>1, <2>2 DEF Traces!IInv, Traces!IndexFollowsFile, Traces!IndexFollowsRun
<1>4. Traces!IInv =>
        [\A c \in Clients, r \in DOMAIN runs \ early :
           Traces!Answers(c, r) => store[runs[r].path].frames = Traces!Frames(r)]_(Traces!vars)
  BY <1>3
<1> QED
  BY <1>1, <1>2, <1>4, PTL DEF Traces!Spec, WaitedIndexIsWhole, Traces!WaitedIndexIsWhole
==============================================================================
