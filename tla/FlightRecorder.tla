--------------------------- MODULE FlightRecorder ---------------------------
(***************************************************************************)
(* The flight recorder (trx64-core/src/recorder/*.rs and the recorder/*    *)
(* requests of main.rs): a byte ring of anchors, the machine's state as of *)
(* some frame without its disk, beside a short list of the disk's          *)
(* versions.  An anchor names the version in the drive by a generation the *)
(* daemon counts up when the disk's hash changes, a version's bytes are    *)
(* shipped once, and recorder/dump puts the two together again.            *)
(*                                                                         *)
(* Everything here runs under the State lock, one request or one frame at  *)
(* a time, and the two rings between the producer and the store are        *)
(* drained by the call that fills them: what is left of them is the size   *)
(* of a slot.  A byte of the slab is <<the anchor's number, its position   *)
(* in the anchor>>.  The daemon never ships a cartridge's bytes and no     *)
(* anchor of its asks for them: a cartridge rides inside the anchor, whose *)
(* size it swells.  The index is appended to with the anchors' counter and *)
(* filtered, so it is the set of its entries.                              *)
(***************************************************************************)
EXTENDS Integers, Sequences

CONSTANTS
    Disks, NoDisk,      \* the contents the drive's disk can have; an empty drive
    Profiles,           \* the machines the session can be
    Sizes,              \* the sizes an anchor's body can have
    Slot,               \* the largest anchor a slot of the ring holds
    Capacity,           \* the bytes of the slab
    MediumKeep,         \* the disk's versions kept (3)
    Cadence,            \* frames between two anchors
    MaxAnchors,         \* anchors a recorder stores (a bound)
    MaxGen              \* versions of the disk it sees (a bound)

ASSUME RecorderAssumption ==
    /\ NoDisk \notin Disks
    /\ Sizes \subseteq Nat \ {0} /\ Slot \in Nat
    /\ Capacity \in Nat \ {0} /\ MediumKeep \in Nat \ {0} /\ Cadence \in Nat \ {0}

VARIABLES
    disk, profile,      \* the machine: the disk as written, what machine it is
    active,             \* is there a recorder
    diskGen, diskHash,  \* the session's generation of the disk and its hash
    since,              \* frames since the last anchor a frame fed
    recorder,           \* the recorder and its store
    reply               \* the number recorder/capture answered last

machine == <<disk, profile>>
gens == <<diskGen, diskHash>>
vars == <<machine, active, gens, since, recorder, reply>>

Empty == <<>>
NoSeq == -1
NoHash == NoDisk
Lost == "Lost"

Contents == Disks \cup {NoDisk}
Positions == 0 .. Capacity - 1

NewRecorder ==
    [lastGen |-> -1, slab |-> [p \in Positions |-> Empty], writeAbs |-> 0,
     entries |-> {}, versions |-> <<>>, nextSeq |-> 0]

TypeOK ==
    /\ disk \in Contents /\ profile \in Profiles
    /\ active \in BOOLEAN /\ since \in 0 .. Cadence - 1
    /\ diskGen \in 0 .. MaxGen /\ diskHash \in Contents
    /\ recorder.lastGen \in -1 .. MaxGen
    /\ DOMAIN recorder.slab = Positions
    /\ recorder.writeAbs \in Nat /\ recorder.nextSeq \in 0 .. MaxAnchors
    /\ reply \in NoSeq .. MaxAnchors

-----------------------------------------------------------------------------
(* The anchors' byte ring: put_anchor. *)

\* Where a record of so many bytes begins: past the tail gap if it would
\* straddle the slab's end.
Start(r, len) ==
    LET phys == r.writeAbs % Capacity
    IN  IF phys + len > Capacity THEN r.writeAbs + (Capacity - phys) ELSE r.writeAbs

\* Slip: an entry kept as long as a byte of it is within the slab's reach.
AliveInPart(e, frontier) == e.abs + e.len > frontier - Capacity

\* An entry is alive while it begins within the last Capacity bytes.
Alive(e, frontier) == e.abs >= frontier - Capacity

\* The entry of the anchor captured now.  What the machine was is history.
Entry(r, len, gen) ==
    [seq |-> r.nextSeq, abs |-> Start(r, len), phys |-> Start(r, len) % Capacity,
     len |-> len, disk_gen |-> gen, wasDisk |-> disk, wasProfile |-> profile]

PutAnchor(r, len, gen) ==
    LET e == Entry(r, len, gen)
        frontier == e.abs + len
    IN  [r EXCEPT
            !.slab = [p \in Positions |->
                         IF p \in e.phys .. e.phys + len - 1
                         THEN <<e.seq, p - e.phys>> ELSE @[p]],
            !.writeAbs = frontier,
            !.entries = {x \in @ \cup {e} : Alive(x, frontier)},
            !.nextSeq = @ + 1]

\* An anchor larger than a slot of the ring is not written.
WriteAnchor(r, len, gen) ==
    IF len <= Slot /\ len <= Capacity THEN PutAnchor(r, len, gen) ELSE r

-----------------------------------------------------------------------------
(* The disk's versions. *)

\* Slip: the disk's first change since the recorder began is not counted.
BumpedIfSeen(gen, hash) == IF hash # disk /\ hash # NoHash THEN gen + 1 ELSE gen

\* build_recorder_media: another hash is another generation.
Bumped(gen, hash) == IF hash # disk THEN gen + 1 ELSE gen

Trim(list) ==
    IF Len(list) > MediumKeep THEN SubSeq(list, Len(list) - MediumKeep + 1, Len(list)) ELSE list

Stored(r, gen) == \E i \in DOMAIN r.versions : r.versions[i].gen = gen

\* maybe_ship_medium and put_medium: the bytes of a generation not shipped yet.
ShipDisk(r, gen) ==
    IF gen = r.lastGen THEN r
    ELSE [r EXCEPT !.lastGen = gen,
                   !.versions = IF Stored(r, gen) THEN @
                                ELSE Trim(Append(@, [gen |-> gen, bytes |-> disk]))]

\* capture_anchor_now, of a recorder and the generation and hash it goes by.
\* No disk in the drive: the anchor says generation 0, and both stay.
CaptureInto(r, len, gen, hash) ==
    IF disk = NoDisk
    THEN /\ recorder' = WriteAnchor(r, len, 0)
         /\ diskGen' = gen /\ diskHash' = hash
    ELSE LET g == Bumped(gen, hash)
         IN  /\ g <= MaxGen
             /\ recorder' = ShipDisk(WriteAnchor(r, len, g), g)
             /\ diskGen' = g /\ diskHash' = disk

-----------------------------------------------------------------------------
(* Requests and frames.  An anchor's size is whatever the machine's state  *)
(* comes to: a cartridge in it adds its own.                               *)

Init ==
    /\ disk = NoDisk /\ profile \in Profiles
    /\ active = FALSE /\ since = 0
    /\ diskGen = 0 /\ diskHash = NoHash
    /\ recorder = NewRecorder
    /\ reply = NoSeq

Room == recorder.nextSeq < MaxAnchors

\* recorder/start: a recorder if there is none, generations of its own with
\* it, and the first anchor.
StartNew ==
    /\ ~active
    /\ active' = TRUE
    /\ \E len \in Sizes : CaptureInto(NewRecorder, len, 0, NoHash)
    /\ UNCHANGED <<machine, since, reply>>

StartAgain ==
    /\ active /\ Room
    /\ \E len \in Sizes : CaptureInto(recorder, len, diskGen, diskHash)
    /\ UNCHANGED <<machine, active, since, reply>>

Stop ==
    /\ active' = FALSE
    /\ diskGen' = 0 /\ diskHash' = NoHash
    /\ recorder' = NewRecorder
    /\ UNCHANGED <<machine, since, reply>>

\* recorder/capture answers with the number of the newest anchor stored.
Newest(r) ==
    IF r.entries = {} THEN NoSeq
    ELSE (CHOOSE e \in r.entries : \A x \in r.entries : x.seq <= e.seq).seq

CaptureNow ==
    /\ active /\ Room
    /\ \E len \in Sizes : CaptureInto(recorder, len, diskGen, diskHash)
    /\ reply' = Newest(recorder')
    /\ UNCHANGED <<machine, active, since>>

\* A frame of machine time, with a recorder: every Cadence of them feeds it.
Frame ==
    /\ active
    /\ IF since + 1 < Cadence
       THEN /\ since' = since + 1
            /\ UNCHANGED <<gens, recorder>>
       ELSE /\ since' = 0 /\ Room
            /\ \E len \in Sizes : CaptureInto(recorder, len, diskGen, diskHash)
    /\ UNCHANGED <<machine, active, reply>>

\* project/set drops the recorder and leaves its generation and hash; the
\* session is powered off and on, its drive empty.
ProjectSet ==
    /\ active' = FALSE
    /\ recorder' = NewRecorder
    /\ disk' = NoDisk
    /\ UNCHANGED <<profile, gens, since, reply>>

\* A disk inserted, written, taken out; another machine.
ChangeDisk ==
    /\ disk' \in Contents \ {disk}
    /\ UNCHANGED <<profile, active, gens, since, recorder, reply>>

ChangeProfile ==
    /\ profile' \in Profiles \ {profile}
    /\ UNCHANGED <<disk, active, gens, since, recorder, reply>>

Next ==
    \/ StartNew \/ StartAgain \/ Stop \/ CaptureNow \/ Frame
    \/ ProjectSet \/ ChangeDisk \/ ChangeProfile

Spec == Init /\ [][Next]_vars

-----------------------------------------------------------------------------
(* What recorder/dump makes of an anchor: reconstruct, and the name of the *)
(* machine the dump carries.                                               *)

Version(gen) ==
    IF \E i \in DOMAIN recorder.versions : recorder.versions[i].gen = gen
    THEN LET i == CHOOSE j \in DOMAIN recorder.versions : recorder.versions[j].gen = gen
         IN  recorder.versions[i].bytes
    ELSE Lost

DumpedDisk(e) == IF e.disk_gen > 0 THEN Version(e.disk_gen) ELSE NoDisk
DumpedProfile(e) == profile

-----------------------------------------------------------------------------
(* Correctness. *)

\* Whatever is in the index can be read back: the slab holds every byte of
\* it, and nothing has been written over (anchor_store.rs:12, "every stored
\* body is one contiguous physical run").
AnchorsIntact ==
    \A e \in recorder.entries : \A k \in 0 .. e.len - 1 : recorder.slab[e.phys + k] = <<e.seq, k>>

\* A dump has the disk of the anchor's moment under the machine of that
\* moment, never another's; and it is without only once the disk has changed
\* as many times since as there are versions kept (medium_source.rs:32,
\* "changes iff the medium bytes changed").
DumpIsOfItsMoment ==
    \A e \in recorder.entries :
        \/ DumpedDisk(e) = e.wasDisk
        \/ DumpedDisk(e) = Lost /\ diskGen - e.disk_gen >= MediumKeep

\* Not so: that a dump names the machine it was taken of (main.rs:17497, "the
\* dump says which machine it was").
DumpNamesItsMachine == \A e \in recorder.entries : DumpedProfile(e) = e.wasProfile

\* Not so: that recorder/capture answers with the anchor it captured
\* (main.rs:13406, "the just-captured anchor is the newest in the store").
\* One larger than a slot is not stored, and the answer is an earlier one's.
CaptureAnswersItsOwn ==
    [][CaptureNow => reply' \in {recorder.nextSeq, NoSeq}]_vars
=============================================================================
