--------------------------- MODULE CheckpointRing ----------------------------
(***************************************************************************)
(* The bounded ring of machine checkpoints behind rewinding                *)
(* (crates/trx64-core/src/checkpoint_ring.rs): anchors evicted oldest      *)
(* first under two limits, pins and named marks that exempt an anchor, and *)
(* the pool that stores equal media images once.                           *)
(*                                                                         *)
(* An anchor is its `seq` (the code's id is cp_<frame>_<seq>).  The code's *)
(* vector is only ever appended to, with the seq counter, and filtered, so *)
(* its order is the order of the seqs; `anchors` maps the seqs it holds to *)
(* the rest of the entry.                                                  *)
(* A definition named for a slip is the one after it with that slip.       *)
(***************************************************************************)
EXTENDS Integers, FiniteSets

CONSTANTS
    Name,          \* names a mark may be given; none looks like an id
    NoName,
    Blob,          \* contents of media images, told apart by their hash
    NoBlob,
    BlobSlots,     \* the payload's pooled slots: POOLED_BLOB_SLOTS
    SlotBytes,     \* SLOT_BYTES, 64 KiB
    AnchorBytes,   \* ANCHOR_BYTES_ESTIMATE, 100 KiB
    HeadRoom,      \* the spare anchors of checkpoint_ring_budget_for: 16
    MaxMarks,      \* MAX_MARKS: 32
    Windows,       \* the entry caps a change of window or cadence asks for
    MaxSeq         \* bound: anchors ever captured

ASSUME NameAssumption == NoName \notin Name /\ NoBlob \notin Blob
                         /\ Name \cap Nat = {}
ASSUME SizeAssumption == /\ IsFiniteSet(BlobSlots)
                         /\ SlotBytes \in Nat \ {0}
                         /\ AnchorBytes \in Nat /\ AnchorBytes >= SlotBytes
                         /\ HeadRoom \in Nat /\ MaxMarks \in Nat
                         /\ Windows \subseteq Nat \ {0} /\ Windows # {}
                         /\ MaxSeq \in Nat

VARIABLES
    anchors,       \* held seq -> label, pinned, media hashes
    seq,           \* the seq the next anchor gets
    max_entries, budget_bytes,
    slot_count, free_slots,
    disk_pool,     \* hash -> references; 0 where the pool has no such blob
    resumed        \* history: the anchor the last operation, if it was a
                   \* restore with then=run, resumed from; else NoAnchor

vars == <<anchors, seq, max_entries, budget_bytes, slot_count, free_slots,
          disk_pool, resumed>>
limits == <<max_entries, budget_bytes, slot_count>>
slots == <<free_slots, disk_pool>>
NoAnchor == -1

Anchor == [label : Name \cup {NoName}, pinned : BOOLEAN,
           blobs : [BlobSlots -> Blob \cup {NoBlob}]]

Held == DOMAIN anchors
Pinned == {i \in Held : anchors[i].pinned}
Unpinned == Held \ Pinned
Marked == {i \in Held : anchors[i].label # NoName}
Bigger(a, b) == IF a >= b THEN a ELSE b

BudgetFor(cap) == (cap + HeadRoom) * AnchorBytes
SlotsOf(bytes) == Bigger(1, bytes \div SlotBytes)

(* The pooled slots of the anchors ids that hold blob b.                   *)
RefsTo(b, ids) == {r \in ids \X BlobSlots : anchors[r[1]].blobs[r[2]] = b}

Init ==
    \E cap \in Windows :
        /\ anchors = << >> /\ seq = 0
        /\ max_entries = cap /\ budget_bytes = BudgetFor(cap)
        /\ slot_count = SlotsOf(BudgetFor(cap))
        /\ free_slots = SlotsOf(BudgetFor(cap))
        /\ disk_pool = [b \in Blob |-> 0]
        /\ resumed = NoAnchor

-----------------------------------------------------------------------------
(* What a caller names an anchor by: an id, or a mark's name.              *)

WithLabel(n) == {i \in Held : anchors[i].label = n}

Resolved(x) == IF x \in Held THEN {x}
               ELSE IF x \in Name THEN WithLabel(x) ELSE {}

OldestHeld(n) == {i \in Held : Cardinality({j \in Held : j < i}) < n}

(* The n unpinned anchors captured first.                                  *)
OldestUnpinned(n) ==
    {i \in Unpinned : Cardinality({j \in Unpinned : j < i}) < n}

Without(gone) == [i \in Held \ gone |-> anchors[i]]
PoolWithout(gone) ==
    [b \in Blob |-> disk_pool[b] - Cardinality(RefsTo(b, gone))]

RemoveLeaksSlots(gone) ==
    /\ anchors' = Without(gone)
    /\ disk_pool' = PoolWithout(gone)
    /\ UNCHANGED free_slots
Remove(gone) ==
    /\ anchors' = Without(gone)
    /\ free_slots' = free_slots + Cardinality(gone)
    /\ disk_pool' = PoolWithout(gone)

-----------------------------------------------------------------------------

(* acquire_slot: room under the entry cap, then a slot.                    *)
Evicted ==
    OldestUnpinned(Bigger(Cardinality(Held) + 1 - max_entries,
                          IF free_slots = 0 THEN 1 ELSE 0))

(* A capture of a whole payload; one with a buffer of the wrong size, and  *)
(* one that finds every slot pinned, is refused with nothing changed.      *)
Capture(blobs) ==
    /\ seq < MaxSeq
    /\ free_slots > 0 \/ Unpinned # {}
    /\ anchors' = [i \in (Held \ Evicted) \cup {seq} |->
                      IF i = seq
                      THEN [label |-> NoName, pinned |-> FALSE,
                            blobs |-> blobs]
                      ELSE anchors[i]]
    /\ free_slots' = free_slots + Cardinality(Evicted) - 1
    /\ disk_pool' = [b \in Blob |->
                        PoolWithout(Evicted)[b]
                            + Cardinality({s \in BlobSlots : blobs[s] = b})]
    /\ seq' = seq + 1
    /\ UNCHANGED limits

NoExtraSlots(cap) == 0

(* set_max_entries: the byte budget grows with the cap, never shrinks.     *)
ExtraSlots(cap) ==
    IF BudgetFor(cap) > budget_bytes
    THEN (BudgetFor(cap) - budget_bytes) \div SlotBytes
    ELSE 0

SetMaxEntries(cap) ==
    LET gone == OldestUnpinned(Cardinality(Held) - cap)
    IN  /\ max_entries' = cap
        /\ budget_bytes' = Bigger(BudgetFor(cap), budget_bytes)
        /\ slot_count' = slot_count + ExtraSlots(cap)
        /\ anchors' = Without(gone)
        /\ free_slots' = free_slots + ExtraSlots(cap) + Cardinality(gone)
        /\ disk_pool' = PoolWithout(gone)
        /\ UNCHANGED seq

-----------------------------------------------------------------------------
(* Pins and marks.                                                         *)

Relabelled(i, name, pin) ==
    /\ anchors' = [anchors EXCEPT ![i].label = name, ![i].pinned = pin]
    /\ UNCHANGED <<seq, limits, slots>>

SetMark(i, name) ==
    /\ WithLabel(name) \subseteq {i}
    /\ Cardinality(Marked) < MaxMarks \/ i \in Marked
    /\ Relabelled(i, name, TRUE)

DropMark(name) ==
    \E i \in WithLabel(name) : Relabelled(i, NoName, FALSE)

Pin(x) ==
    \E i \in Resolved(x) : Relabelled(i, anchors[i].label, TRUE)

(* By id only: checkpoint/unpin and vic/inspect/close.                     *)
Unpin(i) == Relabelled(i, anchors[i].label, FALSE)

-----------------------------------------------------------------------------
(* A new timeline.                                                         *)

After(x) == IF x \in Held THEN {j \in Unpinned : j > x} ELSE {}

(* truncate_after(id, true), as every caller asks.                         *)
TruncateAfter(x) ==
    /\ x \in Held
    /\ Remove(After(x))
    /\ UNCHANGED <<seq, limits>>

(* checkpoint/restore with then=run: pin the anchor x names, truncate      *)
(* after x as it was given.                                                *)
RestoreAndRun(x) ==
    /\ resumed' \in Resolved(x)
    /\ anchors' = [i \in Held \ After(x) |->
                      IF i = resumed'
                      THEN [anchors[i] EXCEPT !.pinned = TRUE]
                      ELSE anchors[i]]
    /\ free_slots' = free_slots + Cardinality(After(x))
    /\ disk_pool' = PoolWithout(After(x))
    /\ UNCHANGED <<seq, limits>>

Clear ==
    /\ anchors' = << >>
    /\ free_slots' = slot_count
    /\ disk_pool' = [b \in Blob |-> 0]
    /\ UNCHANGED <<seq, limits>>

SeqAfterReload == Bigger(seq, Cardinality(Held))

(* to_dump and from_dump: the anchors return with their ids, labels and    *)
(* pins, the pool is filled and the slots are counted anew.                *)
Reload ==
    /\ slot_count' = SlotsOf(budget_bytes)
    /\ free_slots' = Bigger(SlotsOf(budget_bytes) - Cardinality(Held), 0)
    /\ disk_pool' = [b \in Blob |-> Cardinality(RefsTo(b, Held))]
    /\ seq' = SeqAfterReload
    /\ UNCHANGED <<anchors, max_entries, budget_bytes>>

Operation ==
    \/ \E blobs \in [BlobSlots -> Blob \cup {NoBlob}] : Capture(blobs)
    \/ \E cap \in Windows : SetMaxEntries(cap)
    \/ \E i \in Held, name \in Name : SetMark(i, name)
    \/ \E name \in Name : DropMark(name)
    \/ \E x \in Held \cup Name : Pin(x)
    \/ \E i \in Held : Unpin(i)
    \/ \E x \in Held : TruncateAfter(x)
    \/ Clear
    \/ Reload

Next ==
    \/ Operation /\ resumed' = NoAnchor
    \/ \E x \in Held \cup Name : RestoreAndRun(x)

Spec == Init /\ [][Next]_vars

-----------------------------------------------------------------------------
(* Ids are never minted twice: every anchor held is older than the next.   *)
TypeOK ==
    /\ seq \in Nat
    /\ Held \subseteq 0 .. seq - 1 /\ anchors \in [Held -> Anchor]
    /\ max_entries \in Nat \ {0} /\ budget_bytes \in Nat
    /\ slot_count \in Nat /\ free_slots \in Nat
    /\ disk_pool \in [Blob -> Nat]
    /\ resumed \in {NoAnchor} \cup Held

(* Every slot is free or holds an anchor, whatever mixture of evictions,   *)
(* truncations, window changes and reloads there was: a leaked slot would  *)
(* shrink the rewind window for good.                                      *)
SlotsAccounted == free_slots + Cardinality(Held) = slot_count

(* The pool counts exactly the references the held anchors make: fewer and *)
(* a restore finds its disk gone, more and the image is never released.    *)
PoolExact == \A b \in Blob : disk_pool[b] = Cardinality(RefsTo(b, Held))

(* Neither slots nor images are leaked or freed early, by any path out of  *)
(* the ring (drop_at).                                                     *)
NothingLeaks == SlotsAccounted /\ PoolExact

(* The byte budget is a ceiling that never decides the window: asking for  *)
(* more anchors always brings slots for them.                              *)
CapDecides == slot_count >= max_entries

(* A pinned anchor is lost to no eviction, truncation or window change:    *)
(* only clearing the whole ring takes it.                                  *)
PinsSurvive == [][Pinned \subseteq Held' \/ Clear]_vars

(* "A mark is a name on an anchor plus a pin, and the pin is what makes it *)
(* survive": a marked anchor goes only with the whole ring.                *)
MarksSurvive == [][Marked \subseteq Held' \/ Clear]_vars

(* "run: new timeline: pin the anchor and drop the future": right after,   *)
(* everything ahead of the anchor the machine resumed from is pinned.      *)
RunDropsTheFuture ==
    resumed # NoAnchor => \A i \in Unpinned : i < resumed
=============================================================================
