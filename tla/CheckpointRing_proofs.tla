------------------------- MODULE CheckpointRing_proofs -------------------------
(***************************************************************************)
(* Proofs about the checkpoint ring, for every set of windows, every size  *)
(* of an anchor and of a slot, and every set of media.                     *)
(***************************************************************************)
EXTENDS CheckpointRing, FiniteSetTheorems, TLAPS

-----------------------------------------------------------------------------
(* Arithmetic of the byte budget.                                          *)

LEMMA Quotient ==
    ASSUME NEW a \in Nat, NEW s \in Nat \ {0}
    PROVE  a \div s \in Nat /\ s * (a \div s) <= a /\ a < s * (a \div s) + s
  OBVIOUS

LEMMA QuotientAtLeast ==
    ASSUME NEW k \in Nat, NEW a \in Nat, NEW s \in Nat \ {0}, s * k <= a
    PROVE  a \div s >= k
<1> DEFINE q == a \div s
<1>1. q \in Nat /\ a < s * q + s
  BY Quotient
<1>2. SUFFICES ASSUME q + 1 <= k PROVE FALSE
  BY <1>1
<1>3. s * (q + 1) <= s * k
  BY <1>1, <1>2
<1>4. s * (q + 1) = s * q + s
  BY <1>1
<1> QED
  <2> HIDE DEF q
  <2> QED
    BY <1>1, <1>3, <1>4

LEMMA QuotientsAdd ==
    ASSUME NEW a \in Nat, NEW d \in Nat, NEW s \in Nat \ {0}
    PROVE  (a \div s) + (d \div s) <= (a + d) \div s
<1> DEFINE p == a \div s
           q == d \div s
<1>1. p \in Nat /\ q \in Nat /\ s * p <= a /\ s * q <= d
  BY Quotient
<1>2. s * (p + q) = s * p + s * q
  BY <1>1
<1> HIDE DEF p, q
<1>3. s * (p + q) <= a + d
  BY <1>1, <1>2
<1>4. (a + d) \div s >= p + q
  BY <1>1, <1>3, QuotientAtLeast
<1> QED
  BY <1>4 DEF p, q

(* An anchor's estimate is a slot at least, so a budget for k anchors more *)
(* brings k slots.                                                         *)
LEMMA SlotPerAnchor ==
    ASSUME NEW k \in Nat
    PROVE  k * AnchorBytes \in Nat /\ (k * AnchorBytes) \div SlotBytes >= k
<1> USE SizeAssumption
<1>1. k * AnchorBytes \in Nat /\ SlotBytes * k <= k * AnchorBytes
  OBVIOUS
<1> QED
  BY <1>1, QuotientAtLeast

LEMMA BudgetSlots ==
    ASSUME NEW m \in Nat \ {0}
    PROVE  /\ BudgetFor(m) \in Nat
           /\ SlotsOf(BudgetFor(m)) = BudgetFor(m) \div SlotBytes
           /\ SlotsOf(BudgetFor(m)) \in Nat /\ SlotsOf(BudgetFor(m)) >= m
<1> USE SizeAssumption
<1>1. m + HeadRoom \in Nat
  OBVIOUS
<1>2. BudgetFor(m) \in Nat /\ BudgetFor(m) \div SlotBytes >= m + HeadRoom
  BY <1>1, SlotPerAnchor DEF BudgetFor
<1>3. BudgetFor(m) \div SlotBytes \in Nat
  BY <1>2, Quotient
<1> QED
  BY <1>2, <1>3 DEF SlotsOf, Bigger

LEMMA BudgetGrows ==
    ASSUME NEW m \in Nat \ {0}, NEW cap \in Nat \ {0}
    PROVE  /\ cap > m => /\ BudgetFor(cap) > BudgetFor(m)
                         /\ BudgetFor(cap) - BudgetFor(m) = (cap - m) * AnchorBytes
           /\ cap <= m => BudgetFor(cap) <= BudgetFor(m)
<1> USE SizeAssumption
<1> DEFINE A == AnchorBytes
           c == cap + HeadRoom
           n == m + HeadRoom
<1>1. A \in Nat \ {0} /\ c \in Nat /\ n \in Nat /\ c - n = cap - m
  OBVIOUS
<1> HIDE DEF A, c, n
<1>2. c * A - n * A = (c - n) * A
  BY <1>1
<1>3. c > n => (c - n) * A > 0
  BY <1>1
<1>4. c <= n => (c - n) * A <= 0
  BY <1>1
<1>5. c * A \in Int /\ n * A \in Int
  BY <1>1
<1>6. BudgetFor(cap) = c * A /\ BudgetFor(m) = n * A
  BY DEF BudgetFor, A, c, n
<1>7. (cap - m) * AnchorBytes = (c - n) * A
  BY <1>1 DEF A
<1>8. (c - n) * A \in Int
  BY <1>1
<1> QED
  BY <1>1, <1>2, <1>3, <1>4, <1>5, <1>6, <1>7, <1>8

-----------------------------------------------------------------------------
(* The limits.                                                             *)

(* The budget is the one of the largest window ever asked for, and brought *)
(* a slot at least for each of its anchors.                                *)
LimitsOf(m) ==
    /\ max_entries \in Nat \ {0} /\ max_entries <= m
    /\ budget_bytes = BudgetFor(m)
    /\ slot_count \in Nat /\ slot_count >= m /\ slot_count <= SlotsOf(BudgetFor(m))
LimitsOK == \E m \in Nat \ {0} : LimitsOf(m)

LEMMA InitLimits == Init => LimitsOK
<1> SUFFICES ASSUME NEW cap \in Windows, max_entries = cap, budget_bytes = BudgetFor(cap),
                    slot_count = SlotsOf(BudgetFor(cap))
             PROVE  LimitsOK
  BY DEF Init
<1>1. cap \in Nat \ {0}
  BY SizeAssumption
<1>2. LimitsOf(cap)
  BY <1>1, BudgetSlots DEF LimitsOf
<1> QED
  BY <1>1, <1>2 DEF LimitsOK

(* What a step does to the limits.                                         *)
LEMMA LimitCases ==
    ASSUME [Next]_vars
    PROVE  \/ UNCHANGED limits
           \/ \E cap \in Windows : SetMaxEntries(cap)
           \/ Reload
<1>1. CASE Next
  BY <1>1 DEF Next, Operation, Capture, SetMark, DropMark, Pin, Unpin, Relabelled, TruncateAfter,
              RestoreAndRun, Clear
<1>2. CASE UNCHANGED vars
  BY <1>2 DEF vars, limits
<1> QED
  BY <1>1, <1>2

LEMMA ExtraSlotsFit ==
    ASSUME NEW m \in Nat \ {0}, LimitsOf(m), NEW cap \in Windows
    PROVE  /\ ExtraSlots(cap) \in Nat
           /\ cap > m => /\ slot_count + ExtraSlots(cap) >= cap
                         /\ slot_count + ExtraSlots(cap) <= SlotsOf(BudgetFor(cap))
                         /\ Bigger(BudgetFor(cap), budget_bytes) = BudgetFor(cap)
           /\ cap <= m => /\ ExtraSlots(cap) = 0
                          /\ Bigger(BudgetFor(cap), budget_bytes) = budget_bytes
<1> USE SizeAssumption DEF LimitsOf
<1>1. cap \in Nat \ {0} /\ BudgetFor(cap) \in Nat /\ BudgetFor(m) \in Nat
  BY BudgetSlots
<1>2. CASE cap > m
  <2> DEFINE d == BudgetFor(cap) - BudgetFor(m)
  <2>1. BudgetFor(cap) > BudgetFor(m) /\ d = (cap - m) * AnchorBytes
    BY <1>1, <1>2, BudgetGrows
  <2>2. d \in Nat /\ BudgetFor(m) + d = BudgetFor(cap)
    BY <1>1, <2>1
  <2>3. d \div SlotBytes >= cap - m
    BY <1>1, <1>2, <2>1, SlotPerAnchor
  <2>4. d \div SlotBytes \in Nat
    BY <2>2, Quotient
  <2>5. (BudgetFor(m) \div SlotBytes) + (d \div SlotBytes) <= BudgetFor(cap) \div SlotBytes
    BY <1>1, <2>2, QuotientsAdd
  <2>6. ExtraSlots(cap) = d \div SlotBytes
    BY <2>1 DEF ExtraSlots
  <2>7. /\ SlotsOf(BudgetFor(m)) = BudgetFor(m) \div SlotBytes /\ SlotsOf(BudgetFor(m)) \in Nat
        /\ SlotsOf(BudgetFor(cap)) = BudgetFor(cap) \div SlotBytes
        /\ SlotsOf(BudgetFor(cap)) \in Nat
    BY <1>1, BudgetSlots
  <2>8. Bigger(BudgetFor(cap), budget_bytes) = BudgetFor(cap)
    BY <1>1, <2>1 DEF Bigger
  <2> HIDE DEF d
  <2> QED
    BY <1>1, <1>2, <2>3, <2>4, <2>5, <2>6, <2>7, <2>8
<1>3. CASE cap <= m
  <2>1. BudgetFor(cap) <= BudgetFor(m)
    BY <1>1, <1>3, BudgetGrows
  <2> QED
    BY <1>1, <1>3, <2>1 DEF ExtraSlots, Bigger
<1> QED
  BY <1>1, <1>2, <1>3

LEMMA StepLimits == LimitsOK /\ [Next]_vars => LimitsOK'
<1> SUFFICES ASSUME LimitsOK, [Next]_vars PROVE LimitsOK'
  OBVIOUS
<1>1. PICK m \in Nat \ {0} : LimitsOf(m)
  BY DEF LimitsOK
<1>2. CASE UNCHANGED limits
  BY <1>1, <1>2 DEF limits, LimitsOK, LimitsOf, BudgetFor, SlotsOf
<1>3. ASSUME NEW cap \in Windows, SetMaxEntries(cap) PROVE LimitsOK'
  <2>1. cap \in Nat \ {0}
    BY SizeAssumption
  <2>2. /\ max_entries' = cap /\ slot_count' = slot_count + ExtraSlots(cap)
        /\ budget_bytes' = Bigger(BudgetFor(cap), budget_bytes)
    BY <1>3 DEF SetMaxEntries
  <2>3. CASE cap > m
    <3>1. LimitsOf(cap)'
      BY <1>1, <2>1, <2>2, <2>3, ExtraSlotsFit DEF LimitsOf
    <3> QED
      BY <2>1, <3>1 DEF LimitsOK
  <2>4. CASE cap <= m
    <3>1. LimitsOf(m)'
      BY <1>1, <2>1, <2>2, <2>4, ExtraSlotsFit DEF LimitsOf
    <3> QED
      BY <3>1 DEF LimitsOK
  <2> QED
    BY <2>1, <2>3, <2>4
<1>4. CASE Reload
  <2>1. LimitsOf(m)'
    BY <1>1, <1>4, BudgetSlots DEF Reload, LimitsOf
  <2> QED
    BY <2>1 DEF LimitsOK
<1> QED
  BY <1>2, <1>3, <1>4, LimitCases

(* The byte budget never decides the window: there is a slot for every     *)
(* anchor the entry cap allows, however often the cap was changed and the  *)
(* growth rounded down (checkpoint_ring.rs:325).                           *)
THEOREM CapAlwaysDecides == Spec => []CapDecides
<1>1. LimitsOK => CapDecides
  BY DEF LimitsOK, LimitsOf, CapDecides
<1> QED
  BY <1>1, InitLimits, StepLimits, PTL DEF Spec

-----------------------------------------------------------------------------
(* The anchors held.                                                       *)

AnchorsOK ==
    /\ seq \in Nat
    /\ Held \subseteq 0 .. seq - 1
    /\ anchors \in [Held -> Anchor]

LEMMA HeldIsFinite ==
    ASSUME AnchorsOK
    PROVE  /\ IsFiniteSet(Held) /\ Cardinality(Held) \in Nat
           /\ \A part \in SUBSET Held : IsFiniteSet(part) /\ Cardinality(part) \in Nat
<1>1. IsFiniteSet(0 .. seq - 1)
  BY FS_Interval DEF AnchorsOK
<1>2. \A part \in SUBSET Held : IsFiniteSet(part)
  BY <1>1, FS_Subset DEF AnchorsOK
<1> QED
  BY <1>2, FS_CardinalityType

(* What a step does to the anchors, and what of them it removes.           *)
Shrinks(gone) ==
    /\ gone \subseteq Held
    /\ anchors' \in [Held \ gone -> Anchor]
    /\ \A i \in Held \ gone : anchors'[i].blobs = anchors[i].blobs
    /\ free_slots' = free_slots + Cardinality(gone)
    /\ disk_pool' = PoolWithout(gone)
    /\ seq' = seq

Relabels ==
    /\ anchors' \in [Held -> Anchor]
    /\ \A i \in Held : anchors'[i].blobs = anchors[i].blobs
    /\ UNCHANGED <<seq, slots>>

LEMMA RelabelledKeeps ==
    ASSUME AnchorsOK, NEW i \in Held, NEW name \in Name \cup {NoName}, NEW pin \in BOOLEAN,
           Relabelled(i, name, pin)
    PROVE  Relabels /\ UNCHANGED limits
<1>1. anchors' = [anchors EXCEPT ![i].label = name, ![i].pinned = pin]
  BY DEF Relabelled
<1>2. anchors[i] \in Anchor
  BY DEF AnchorsOK
<1>3. anchors'[i] = [anchors[i] EXCEPT !.label = name, !.pinned = pin]
  BY <1>1 DEF AnchorsOK
<1>4. anchors'[i] \in Anchor /\ anchors'[i].blobs = anchors[i].blobs
  BY <1>2, <1>3 DEF Anchor
<1>5. \A j \in Held \ {i} : anchors'[j] = anchors[j]
  BY <1>1 DEF AnchorsOK
<1>6. anchors' \in [Held -> Anchor]
  BY <1>1, <1>4, <1>5 DEF AnchorsOK
<1> QED
  BY <1>4, <1>5, <1>6 DEF Relabelled, Relabels

LEMMA WithoutShrinks ==
    ASSUME AnchorsOK, NEW gone \in SUBSET Held
    PROVE  /\ Without(gone) \in [Held \ gone -> Anchor]
           /\ \A i \in Held \ gone : Without(gone)[i].blobs = anchors[i].blobs
  BY DEF Without, AnchorsOK

LEMMA StepCases ==
    ASSUME AnchorsOK, [Next]_vars
    PROVE  \/ \E blobs \in [BlobSlots -> Blob \cup {NoBlob}] : Capture(blobs)
           \/ \E cap \in Windows : SetMaxEntries(cap)
           \/ Relabels /\ UNCHANGED limits
           \/ \E gone \in SUBSET Unpinned : Shrinks(gone) /\ UNCHANGED limits
           \/ Clear
           \/ Reload
<1>1. CASE Operation
  <2>1. ASSUME NEW i \in Held, NEW name \in Name, SetMark(i, name)
        PROVE  Relabels /\ UNCHANGED limits
    BY <2>1, RelabelledKeeps DEF SetMark
  <2>2. ASSUME NEW name \in Name, DropMark(name) PROVE Relabels /\ UNCHANGED limits
    BY <2>2, RelabelledKeeps DEF DropMark, WithLabel
  <2>3. ASSUME NEW i \in Held PROVE anchors[i].label \in Name \cup {NoName}
    BY <2>3 DEF AnchorsOK, Anchor
  <2>4. ASSUME NEW x \in Held \cup Name, Pin(x) PROVE Relabels /\ UNCHANGED limits
    BY <2>3, <2>4, RelabelledKeeps DEF Pin, Resolved, WithLabel
  <2>5. ASSUME NEW i \in Held, Unpin(i) PROVE Relabels /\ UNCHANGED limits
    BY <2>3, <2>5, RelabelledKeeps DEF Unpin
  <2>6. ASSUME NEW x \in Held, TruncateAfter(x)
        PROVE  \E gone \in SUBSET Unpinned : Shrinks(gone) /\ UNCHANGED limits
    <3>1. After(x) \in SUBSET Unpinned /\ After(x) \in SUBSET Held
      BY DEF After, Unpinned
    <3>2. Shrinks(After(x)) /\ UNCHANGED limits
      BY <2>6, <3>1, WithoutShrinks DEF TruncateAfter, Remove, Shrinks
    <3> QED
      BY <3>1, <3>2
  <2> QED
    BY <1>1, <2>1, <2>2, <2>4, <2>5, <2>6 DEF Operation
<1>2. ASSUME NEW x \in Held \cup Name, RestoreAndRun(x)
      PROVE  \E gone \in SUBSET Unpinned : Shrinks(gone) /\ UNCHANGED limits
  <2>1. After(x) \in SUBSET Unpinned /\ After(x) \in SUBSET Held
    BY DEF After, Unpinned
  <2>2. anchors' = [i \in Held \ After(x) |->
                      IF i = resumed' THEN [anchors[i] EXCEPT !.pinned = TRUE] ELSE anchors[i]]
    BY <1>2 DEF RestoreAndRun
  <2>3. \A i \in Held : /\ anchors[i] \in Anchor
                        /\ [anchors[i] EXCEPT !.pinned = TRUE] \in Anchor
                        /\ [anchors[i] EXCEPT !.pinned = TRUE].blobs = anchors[i].blobs
    BY DEF AnchorsOK, Anchor
  <2>4. /\ anchors' \in [Held \ After(x) -> Anchor]
        /\ \A i \in Held \ After(x) : anchors'[i].blobs = anchors[i].blobs
    BY <2>2, <2>3
  <2>5. Shrinks(After(x)) /\ UNCHANGED limits
    BY <1>2, <2>1, <2>4 DEF RestoreAndRun, Shrinks
  <2> QED
    BY <2>1, <2>5
<1>3. CASE UNCHANGED vars
  BY <1>3 DEF vars, Relabels, AnchorsOK, limits, slots, Held
<1> QED
  BY <1>1, <1>2, <1>3 DEF Next

(* A capture keeps what it did not evict and adds one anchor with the next *)
(* number.                                                                 *)
LEMMA CaptureAdds ==
    ASSUME AnchorsOK, NEW blobs \in [BlobSlots -> Blob \cup {NoBlob}], Capture(blobs)
    PROVE  /\ Evicted \in SUBSET Unpinned /\ Evicted \in SUBSET Held /\ seq \notin Held
           /\ Held' = (Held \ Evicted) \cup {seq}
           /\ anchors'[seq].blobs = blobs
           /\ \A i \in Held \ Evicted : anchors'[i] = anchors[i]
           /\ AnchorsOK'
<1>1. Evicted \in SUBSET Unpinned /\ Evicted \in SUBSET Held /\ seq \notin Held
  BY DEF Evicted, OldestUnpinned, Unpinned, AnchorsOK
<1> DEFINE new == [label |-> NoName, pinned |-> FALSE, blobs |-> blobs]
<1>2. new \in Anchor
  BY DEF Anchor
<1>3. anchors' = [i \in (Held \ Evicted) \cup {seq} |-> IF i = seq THEN new ELSE anchors[i]]
      /\ seq' = seq + 1
  BY DEF Capture
<1>4. anchors'[seq] = new /\ \A i \in Held \ Evicted : anchors'[i] = anchors[i]
  BY <1>1, <1>3
<1>5. Held' = (Held \ Evicted) \cup {seq}
  BY <1>3 DEF Held
<1>6. anchors' \in [Held' -> Anchor]
  BY <1>2, <1>3, <1>4, <1>5 DEF AnchorsOK
<1>7. seq' \in Nat /\ Held' \subseteq 0 .. seq' - 1
  BY <1>1, <1>3, <1>5 DEF AnchorsOK
<1>8. AnchorsOK'
  BY <1>6, <1>7 DEF AnchorsOK
<1>9. anchors'[seq].blobs = blobs
  BY <1>4
<1> QED
  BY <1>1, <1>4, <1>5, <1>8, <1>9

LEMMA SetMaxShrinks ==
    ASSUME AnchorsOK, NEW cap \in Windows, SetMaxEntries(cap)
    PROVE  LET gone == OldestUnpinned(Cardinality(Held) - cap)
           IN  /\ gone \in SUBSET Unpinned /\ gone \in SUBSET Held
               /\ anchors' \in [Held \ gone -> Anchor]
               /\ \A i \in Held \ gone : anchors'[i].blobs = anchors[i].blobs
               /\ seq' = seq
  BY WithoutShrinks DEF SetMaxEntries, OldestUnpinned, Unpinned

LEMMA InitAnchors == Init => AnchorsOK
  BY DEF Init, AnchorsOK, Held

LEMMA StepAnchors == AnchorsOK /\ [Next]_vars => AnchorsOK'
<1> SUFFICES ASSUME AnchorsOK, [Next]_vars PROVE AnchorsOK'
  OBVIOUS
<1>1. ASSUME NEW gone \in SUBSET Held, anchors' \in [Held \ gone -> Anchor], seq' = seq
      PROVE  AnchorsOK'
  BY <1>1 DEF AnchorsOK, Held
<1>2. CASE Clear
  BY <1>2 DEF Clear, AnchorsOK, Held
<1>3. CASE Reload
  BY <1>3, HeldIsFinite DEF Reload, SeqAfterReload, Bigger, AnchorsOK, Held
<1>4. CASE Relabels
  BY <1>4 DEF Relabels, AnchorsOK, Held
<1>5. ASSUME NEW gone \in SUBSET Unpinned, Shrinks(gone) PROVE AnchorsOK'
  BY <1>1, <1>5 DEF Shrinks
<1>6. ASSUME NEW cap \in Windows, SetMaxEntries(cap) PROVE AnchorsOK'
  BY <1>1, <1>6, SetMaxShrinks
<1> QED
  BY <1>2, <1>3, <1>4, <1>5, <1>6, CaptureAdds, StepCases

(* A pinned anchor is lost to no eviction, truncation or change of the     *)
(* window: only clearing the whole ring takes it (checkpoint_ring.rs:339). *)
THEOREM PinsAreKept == Spec => PinsSurvive
<1>1. AnchorsOK /\ [Next]_vars => [Pinned \subseteq Held' \/ Clear]_vars
  <2> SUFFICES ASSUME AnchorsOK, [Next]_vars, ~Clear PROVE Pinned \subseteq Held'
    OBVIOUS
  <2>1. Pinned \subseteq Held /\ Pinned \cap Unpinned = {}
    BY DEF Pinned, Unpinned
  <2>2. ASSUME NEW blobs \in [BlobSlots -> Blob \cup {NoBlob}], Capture(blobs)
        PROVE  Pinned \subseteq Held'
    BY <2>1, <2>2, CaptureAdds
  <2>3. ASSUME NEW cap \in Windows, SetMaxEntries(cap) PROVE Pinned \subseteq Held'
    BY <2>1, <2>3, SetMaxShrinks DEF Held
  <2>4. CASE Relabels
    BY <2>1, <2>4 DEF Relabels, Held
  <2>5. ASSUME NEW gone \in SUBSET Unpinned, Shrinks(gone) PROVE Pinned \subseteq Held'
    BY <2>1, <2>5 DEF Shrinks, Held
  <2>6. CASE Reload
    BY <2>1, <2>6 DEF Reload, Held
  <2> QED
    BY <2>2, <2>3, <2>4, <2>5, <2>6, StepCases
<1> QED
  BY <1>1, InitAnchors, StepAnchors, PTL DEF Spec, PinsSurvive

-----------------------------------------------------------------------------
(* The slots.                                                              *)

SlotsOK == free_slots \in Nat /\ free_slots + Cardinality(Held) = slot_count

(* Of unpinned anchors one is the oldest, and the first to be evicted.     *)
LEMMA OneIsOldest ==
    ASSUME AnchorsOK, Unpinned # {}, NEW n \in Int, n >= 1
    PROVE  OldestUnpinned(n) # {}
<1>1. Unpinned \subseteq Nat
  <2>1. Held \subseteq 0 .. seq - 1 /\ 0 .. seq - 1 \subseteq Nat
    BY DEF AnchorsOK
  <2>2. Unpinned \subseteq Held
    BY DEF Unpinned
  <2> QED
    BY <2>1, <2>2
<1>2. PICK i \in Unpinned : \A j \in Unpinned : ~ (<<j, i>> \in OpToRel(<, Nat))
  BY <1>1, NatLessThanWellFounded, WFMin
<1>3. \A j \in Unpinned : ~(j < i)
  BY <1>1, <1>2 DEF OpToRel
<1>4. {j \in Unpinned : j < i} = {}
  BY <1>3
<1>5. Cardinality({j \in Unpinned : j < i}) < n
  BY <1>4, FS_EmptySet
<1> QED
  BY <1>5 DEF OldestUnpinned

LEMMA HeldWithout ==
    ASSUME AnchorsOK, NEW gone \in SUBSET Held
    PROVE  /\ Cardinality(Held \ gone) = Cardinality(Held) - Cardinality(gone)
           /\ Cardinality(gone) \in Nat /\ Cardinality(Held) \in Nat
           /\ IsFiniteSet(Held \ gone)
<1>1. Held \cap gone = gone
  OBVIOUS
<1> QED
  BY <1>1, HeldIsFinite, FS_Difference, ZenonT(30)

LEMMA InitSlots == Init => SlotsOK
<1> SUFFICES ASSUME NEW cap \in Windows, anchors = << >>, free_slots = SlotsOf(BudgetFor(cap)),
                    slot_count = SlotsOf(BudgetFor(cap))
             PROVE  SlotsOK
  BY DEF Init
<1>1. cap \in Nat \ {0}
  BY SizeAssumption
<1>2. Held = {}
  BY DEF Held
<1> QED
  BY <1>1, <1>2, BudgetSlots, FS_EmptySet DEF SlotsOK

LEMMA StepSlots == AnchorsOK /\ LimitsOK /\ SlotsOK /\ [Next]_vars => SlotsOK'
<1> SUFFICES ASSUME AnchorsOK, LimitsOK, SlotsOK, [Next]_vars PROVE SlotsOK'
  OBVIOUS
<1> USE DEF SlotsOK
<1>1. PICK m \in Nat \ {0} : LimitsOf(m)
  BY DEF LimitsOK
<1>2. /\ slot_count \in Nat /\ slot_count <= SlotsOf(budget_bytes)
      /\ SlotsOf(budget_bytes) \in Nat
  BY <1>1, BudgetSlots DEF LimitsOf
<1>3. ASSUME NEW blobs \in [BlobSlots -> Blob \cup {NoBlob}], Capture(blobs) PROVE SlotsOK'
  <2>1. /\ free_slots' = free_slots + Cardinality(Evicted) - 1 /\ slot_count' = slot_count
        /\ free_slots > 0 \/ Unpinned # {}
    BY <1>3 DEF Capture, limits
  <2>2. /\ Evicted \in SUBSET Held /\ seq \notin Held
        /\ Held' = (Held \ Evicted) \cup {seq}
    BY <1>3, CaptureAdds
  <2>3. /\ Cardinality(Held \ Evicted) = Cardinality(Held) - Cardinality(Evicted)
        /\ Cardinality(Evicted) \in Nat /\ Cardinality(Held) \in Nat
        /\ IsFiniteSet(Held \ Evicted)
    BY <2>2, HeldWithout
  <2>4. Cardinality(Held') = Cardinality(Held \ Evicted) + 1
    BY <2>2, <2>3, FS_AddElement
  <2>5. free_slots = 0 => Cardinality(Evicted) # 0
    <3> SUFFICES ASSUME free_slots = 0 PROVE Cardinality(Evicted) # 0
      OBVIOUS
    <3> DEFINE n == Bigger(Cardinality(Held) + 1 - max_entries, 1)
    <3>1. n \in Int /\ n >= 1
      BY <1>1, <2>3 DEF Bigger, LimitsOf
    <3>2. Evicted = OldestUnpinned(n)
      BY DEF Evicted
    <3> HIDE DEF n
    <3>3. Evicted # {}
      BY <2>1, <3>1, <3>2, OneIsOldest
    <3> QED
      BY <2>2, <3>3, HeldIsFinite, FS_EmptySet
  <2>6. free_slots + Cardinality(Evicted) - 1 \in Nat
    BY <2>3, <2>5
  <2>7. Cardinality(Held') = Cardinality(Held) - Cardinality(Evicted) + 1
    BY <2>3, <2>4
  <2>8. free_slots' + Cardinality(Held') = slot_count'
    BY <1>2, <2>1, <2>3, <2>7
  <2> QED
    BY <2>1, <2>6, <2>8
<1>4. ASSUME NEW cap \in Windows, SetMaxEntries(cap) PROVE SlotsOK'
  <2> DEFINE gone == OldestUnpinned(Cardinality(Held) - cap)
  <2>1. gone \in SUBSET Held /\ Held' = Held \ gone
    BY <1>4, SetMaxShrinks DEF Held
  <2>2. /\ free_slots' = free_slots + ExtraSlots(cap) + Cardinality(gone)
        /\ slot_count' = slot_count + ExtraSlots(cap)
    BY <1>4 DEF SetMaxEntries
  <2>3. ExtraSlots(cap) \in Nat
    BY <1>1, ExtraSlotsFit
  <2> HIDE DEF gone
  <2> QED
    BY <1>2, <2>1, <2>2, <2>3, HeldWithout
<1>5. CASE Relabels /\ UNCHANGED limits
  BY <1>5 DEF Relabels, limits, slots, Held
<1>6. ASSUME NEW gone \in SUBSET Unpinned, Shrinks(gone), UNCHANGED limits PROVE SlotsOK'
  <2>1. gone \in SUBSET Held /\ Held' = Held \ gone
    BY <1>6 DEF Shrinks, Held
  <2> QED
    BY <1>2, <1>6, <2>1, HeldWithout DEF Shrinks, limits
<1>7. CASE Clear
  <2>1. Held' = {}
    BY <1>7 DEF Clear, Held
  <2> QED
    BY <1>2, <1>7, <2>1, FS_EmptySet DEF Clear, limits
<1>8. CASE Reload
  <2>1. Held' = Held
    BY <1>8 DEF Reload, Held
  <2> QED
    BY <1>2, <1>8, <2>1, HeldIsFinite DEF Reload, Bigger
<1> QED
  BY <1>3, <1>4, <1>5, <1>6, <1>7, <1>8, StepCases

(* Every slot is free or holds an anchor: none is leaked, whatever mixture *)
(* of evictions, truncations, window changes and reloads there was         *)
(* (checkpoint_ring.rs:564, 591).                                          *)
THEOREM SlotsAreAccounted == Spec => []SlotsAccounted
<1>1. SlotsOK => SlotsAccounted
  BY DEF SlotsOK, SlotsAccounted
<1> QED
  BY <1>1, InitLimits, InitAnchors, InitSlots, StepLimits, StepAnchors, StepSlots, PTL DEF Spec

-----------------------------------------------------------------------------
(* The pool.                                                               *)

(* The references of some anchors, and of the rest.                        *)
LEMMA RefsWithout ==
    ASSUME AnchorsOK, NEW gone \in SUBSET Held, NEW b \in Blob
    PROVE  /\ IsFiniteSet(RefsTo(b, Held)) /\ IsFiniteSet(RefsTo(b, gone))
           /\ IsFiniteSet(RefsTo(b, Held \ gone))
           /\ Cardinality(RefsTo(b, Held)) \in Nat /\ Cardinality(RefsTo(b, gone)) \in Nat
           /\ Cardinality(RefsTo(b, Held \ gone))
                = Cardinality(RefsTo(b, Held)) - Cardinality(RefsTo(b, gone))
<1>1. IsFiniteSet(Held \X BlobSlots)
  BY HeldIsFinite, FS_Product, SizeAssumption
<1>2. RefsTo(b, Held) \subseteq Held \X BlobSlots
  BY DEF RefsTo
<1>3. IsFiniteSet(RefsTo(b, Held))
  BY <1>1, <1>2, FS_Subset
<1>4. RefsTo(b, gone) \subseteq RefsTo(b, Held)
  BY DEF RefsTo
<1>5. RefsTo(b, Held \ gone) = RefsTo(b, Held) \ RefsTo(b, gone)
  BY DEF RefsTo
<1>6. RefsTo(b, Held) \cap RefsTo(b, gone) = RefsTo(b, gone)
  BY <1>4
<1>7. IsFiniteSet(RefsTo(b, gone))
  BY <1>3, <1>4, FS_Subset
<1> QED
  BY <1>3, <1>5, <1>6, <1>7, FS_Difference, FS_CardinalityType, ZenonT(30)

(* What removes anchors and takes their references off the pool keeps it   *)
(* exact.                                                                  *)
LEMMA PoolShrinks ==
    ASSUME AnchorsOK, PoolExact, NEW gone \in SUBSET Held, Held' = Held \ gone,
           \A i \in Held \ gone : anchors'[i].blobs = anchors[i].blobs,
           disk_pool' = PoolWithout(gone)
    PROVE  PoolExact'
<1> SUFFICES ASSUME NEW b \in Blob PROVE disk_pool'[b] = Cardinality(RefsTo(b, Held)')
  BY DEF PoolExact
<1>1. RefsTo(b, Held)' = RefsTo(b, Held \ gone)
  BY DEF RefsTo
<1>2. disk_pool'[b] = disk_pool[b] - Cardinality(RefsTo(b, gone))
  BY DEF PoolWithout
<1>3. disk_pool[b] = Cardinality(RefsTo(b, Held))
  BY DEF PoolExact
<1> QED
  BY <1>1, <1>2, <1>3, RefsWithout

LEMMA PoolCaptures ==
    ASSUME AnchorsOK, PoolExact, NEW blobs \in [BlobSlots -> Blob \cup {NoBlob}], Capture(blobs)
    PROVE  PoolExact'
<1> SUFFICES ASSUME NEW b \in Blob PROVE disk_pool'[b] = Cardinality(RefsTo(b, Held)')
  BY DEF PoolExact
<1> DEFINE kept == RefsTo(b, Held \ Evicted)
           slotsOfB == {s \in BlobSlots : blobs[s] = b}
           new == {seq} \X slotsOfB
<1>1. /\ Evicted \in SUBSET Held /\ seq \notin Held
      /\ Held' = (Held \ Evicted) \cup {seq} /\ anchors'[seq].blobs = blobs
      /\ \A i \in Held \ Evicted : anchors'[i] = anchors[i]
  BY CaptureAdds
<1>2. RefsTo(b, Held)' = kept \cup new
  <2>1. RefsTo(b, Held)' = {r \in Held' \X BlobSlots : anchors'[r[1]].blobs[r[2]] = b}
    BY DEF RefsTo
  <2>2. kept = {r \in (Held \ Evicted) \X BlobSlots : anchors'[r[1]].blobs[r[2]] = b}
    BY <1>1 DEF RefsTo
  <2>3. new = {r \in {seq} \X BlobSlots : anchors'[r[1]].blobs[r[2]] = b}
    BY <1>1
  <2> QED
    BY <1>1, <2>1, <2>2, <2>3
<1>3. kept \cap new = {}
  BY <1>1 DEF RefsTo
<1>4. IsFiniteSet(slotsOfB)
  BY SizeAssumption, FS_Subset
<1>5. IsFiniteSet(new) /\ Cardinality(new) = Cardinality(slotsOfB)
  <2>1. IsFiniteSet({seq}) /\ Cardinality({seq}) = 1
    BY FS_Singleton
  <2>2. IsFiniteSet(new) /\ Cardinality(new) = 1 * Cardinality(slotsOfB)
    BY <1>4, <2>1, FS_Product
  <2>3. Cardinality(slotsOfB) \in Nat
    BY <1>4, FS_CardinalityType
  <2> QED
    BY <2>2, <2>3
<1>6. /\ IsFiniteSet(kept)
      /\ Cardinality(kept) = Cardinality(RefsTo(b, Held)) - Cardinality(RefsTo(b, Evicted))
  BY <1>1, RefsWithout
<1>7. Cardinality(kept \cup new) = Cardinality(kept) + Cardinality(slotsOfB)
  <2>1. Cardinality(kept \cup new)
            = Cardinality(kept) + Cardinality(new) - Cardinality(kept \cap new)
    BY <1>5, <1>6, FS_Union
  <2>2. Cardinality(kept) \in Nat /\ Cardinality(slotsOfB) \in Nat
    BY <1>4, <1>6, FS_CardinalityType
  <2>3. Cardinality(kept \cap new) = 0
    BY <1>3, FS_EmptySet
  <2> HIDE DEF kept, new, slotsOfB
  <2> QED
    BY <1>5, <2>1, <2>2, <2>3
<1>8. disk_pool'[b] = disk_pool[b] - Cardinality(RefsTo(b, Evicted)) + Cardinality(slotsOfB)
  BY DEF Capture, PoolWithout
<1>9. disk_pool[b] = Cardinality(RefsTo(b, Held))
  BY DEF PoolExact
<1> QED
  BY <1>2, <1>6, <1>7, <1>8, <1>9

LEMMA NoRefs ==
    ASSUME NEW b, NEW ids, ids = {}
    PROVE  Cardinality(RefsTo(b, ids)) = 0
<1>1. RefsTo(b, ids) = {}
  BY DEF RefsTo
<1> QED
  BY <1>1, FS_EmptySet

LEMMA StepPool == AnchorsOK /\ PoolExact /\ [Next]_vars => PoolExact'
<1> SUFFICES ASSUME AnchorsOK, PoolExact, [Next]_vars PROVE PoolExact'
  OBVIOUS
<1>1. ASSUME NEW cap \in Windows, SetMaxEntries(cap) PROVE PoolExact'
  <2> DEFINE gone == OldestUnpinned(Cardinality(Held) - cap)
  <2>1. /\ gone \in SUBSET Held /\ Held' = Held \ gone
        /\ \A i \in Held \ gone : anchors'[i].blobs = anchors[i].blobs
    BY <1>1, SetMaxShrinks DEF Held
  <2>2. disk_pool' = PoolWithout(gone)
    BY <1>1 DEF SetMaxEntries
  <2> HIDE DEF gone
  <2> QED
    BY <2>1, <2>2, PoolShrinks
<1>2. CASE Relabels
  <2>1. Held' = Held /\ \A b \in Blob : RefsTo(b, Held)' = RefsTo(b, Held)
    BY <1>2 DEF Relabels, RefsTo, Held
  <2> QED
    BY <1>2, <2>1 DEF Relabels, slots, PoolExact
<1>3. ASSUME NEW gone \in SUBSET Unpinned, Shrinks(gone) PROVE PoolExact'
  <2>1. gone \in SUBSET Held /\ Held' = Held \ gone
    BY <1>3 DEF Shrinks, Held
  <2> QED
    BY <1>3, <2>1, PoolShrinks DEF Shrinks
<1>4. CASE Clear
  <2>1. Held' = {} /\ disk_pool' = [b \in Blob |-> 0]
    BY <1>4 DEF Clear, Held
  <2>2. \A b \in Blob : Cardinality(RefsTo(b, Held)') = 0
    <3> SUFFICES ASSUME NEW b \in Blob PROVE Cardinality(RefsTo(b, Held)') = 0
      OBVIOUS
    <3>1. RefsTo(b, Held)' = {}
      BY <2>1 DEF RefsTo
    <3> QED
      BY <3>1, FS_EmptySet
  <2> QED
    BY <2>1, <2>2 DEF PoolExact
<1>5. CASE Reload
  <2>1. \A b \in Blob : RefsTo(b, Held)' = RefsTo(b, Held)
    BY <1>5 DEF Reload, RefsTo, Held
  <2> QED
    BY <1>5, <2>1 DEF Reload, PoolExact
<1> QED
  BY <1>1, <1>2, <1>3, <1>4, <1>5, PoolCaptures, StepCases

(* The pool counts exactly the references of the anchors held: never fewer *)
(* than a restore needs, never more than are ever released                 *)
(* (checkpoint_ring.rs:493, 607).                                          *)
THEOREM PoolIsExact == Spec => []PoolExact
<1>1. Init => PoolExact
  <2>1. Init => Held = {} /\ disk_pool = [b \in Blob |-> 0]
    BY DEF Init, Held
  <2> QED
    BY <2>1, NoRefs DEF PoolExact
<1> QED
  BY <1>1, InitAnchors, StepAnchors, StepPool, PTL DEF Spec

(* No path out of the ring leaks a slot or an image, or frees one early    *)
(* (checkpoint_ring.rs:564, 607).                                          *)
THEOREM NothingEverLeaks == Spec => []NothingLeaks
<1>1. SlotsAccounted /\ PoolExact => NothingLeaks
  BY DEF NothingLeaks
<1> QED
  BY <1>1, SlotsAreAccounted, PoolIsExact, PTL
=============================================================================
