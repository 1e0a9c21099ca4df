----------------------------- MODULE DiskPersist ------------------------------
(***************************************************************************)
(* How what the drive writes reaches the host file of its disk             *)
(* (trx64-daemon/src/main.rs, trx64-core/src/drive.rs and the power        *)
(* switch of trx64-session/src/lib.rs): the lazy writer of the run loop,   *)
(* and the doors that put a disk in, take it out, save it, switch the      *)
(* machine or end the daemon.  One drive position; the other has a copy of *)
(* everything.  Every action is what happens under the State lock; a file  *)
(* is read before a mount takes it, and media/persist writes after it gave *)
(* it up.  Restoring a checkpoint's copy of the disk is left out.          *)
(* A definition named for a slip is the one after it with that slip.       *)
(***************************************************************************)
EXTENDS MediaHost

VARIABLES
    drive,         \* the disk in the machine's drive, or None
    unreported,    \* disk_write_unreported, or a track still dirty
    inserted_disk, \* the disk in the registry while the machine is off, or None
    inserted_disk_unreported,
    disk_ap_pending, disk_ap_settled, disk_ap_seen_hash, disk_ap_done_hash

registry == <<inserted_disk, inserted_disk_unreported>>
writer == <<disk_ap_pending, disk_ap_settled, disk_ap_seen_hash, disk_ap_done_hash>>
vars == <<powered, drive, unreported, registry, host, writer, request,
          failures, exited, parted>>

Disk == [file : File \cup {NoFile}, bytes : Bytes]

ASSUME DiskAssumption == None \notin Disk

Init ==
    /\ HostInit
    /\ drive = None /\ unreported = FALSE
    /\ inserted_disk = None /\ inserted_disk_unreported = FALSE
    /\ disk_ap_pending = FALSE /\ disk_ap_settled = FALSE
    /\ disk_ap_seen_hash = None /\ disk_ap_done_hash = None

-----------------------------------------------------------------------------
(* The emulated drive writes a sector.                                     *)
DriveWrites(b) ==
    /\ ~exited /\ powered /\ drive # None
    /\ drive' = [drive EXCEPT !.bytes = b]
    /\ unreported' = TRUE
    /\ UNCHANGED <<powered, registry, host, writer, request, failures, exited, parted>>

(* autopersist_disk_at, from every iteration of the run loop.  A flush     *)
(* reports a write once; the report arms the writer.                       *)
Armed == disk_ap_pending \/ unreported
InRegistry == inserted_disk # None /\ drive = None

DisarmedWaiting == Armed /\ ~Backed(drive)
Disarmed == Armed /\ ~InRegistry /\ ~Backed(drive)

Changed == Armed /\ Backed(drive) /\ drive.bytes # disk_ap_seen_hash
AlreadyWritten == drive.bytes = disk_ap_done_hash

Settled ==
    /\ Armed /\ Backed(drive)
    /\ ~Changed /\ ~AlreadyWritten /\ disk_ap_settled

LoopDisk ==
    /\ ~exited
    /\ unreported' = FALSE
    /\ IF Settled
       THEN /\ WriteOut(drive)
            /\ disk_ap_pending' = (failures' # failures)
            /\ disk_ap_done_hash' = IF failures' = failures THEN drive.bytes
                                    ELSE disk_ap_done_hash
       ELSE /\ disk_ap_pending' = (Armed /\ ~Disarmed)
            /\ UNCHANGED <<host, failures, disk_ap_done_hash>>
    /\ IF Changed
       THEN disk_ap_seen_hash' = drive.bytes /\ disk_ap_settled' = FALSE
       ELSE UNCHANGED <<disk_ap_seen_hash, disk_ap_settled>>
    /\ UNCHANGED <<powered, drive, registry, request, exited, parted>>

(* The debounce time goes by.                                              *)
Settle ==
    /\ ~exited /\ ~disk_ap_settled
    /\ disk_ap_settled' = TRUE
    /\ UNCHANGED <<powered, drive, unreported, registry, host, disk_ap_pending,
                   disk_ap_seen_hash, disk_ap_done_hash, request, failures, exited, parted>>

-----------------------------------------------------------------------------
(* Doors.                                                                  *)

ReadDisk(kind, f) ==
    /\ ReadFile(kind, f)
    /\ UNCHANGED <<drive, unreported, registry, writer>>

Insert(d) == drive' = d /\ unreported' = FALSE
Removed == drive' = None /\ unreported' = FALSE

(* mount_disk_media_at: the outgoing disk is written, then replaced.       *)
MountWithoutEject ==
    /\ ~exited /\ request # None /\ request.kind = "mount"
    /\ UNCHANGED <<host, failures>>
    /\ Insert([file |-> request.file, bytes |-> request.bytes])
    /\ request' = None
    /\ parted' = (parted \/ ~powered \/ request.bytes # host'[request.file])
    /\ UNCHANGED <<powered, registry, writer, exited>>

MountDisk ==
    /\ ~exited /\ request # None /\ request.kind = "mount"
    /\ WriteOut(drive)
    /\ Insert([file |-> request.file, bytes |-> request.bytes])
    /\ request' = None
    /\ parted' = (parted \/ Failed \/ ~powered \/ request.bytes # host'[request.file])
    /\ UNCHANGED <<powered, registry, writer, exited>>

(* media/unmount of a drive.                                               *)
EjectDisk ==
    /\ ~exited /\ drive # None
    /\ WriteOut(drive)
    /\ Removed
    /\ parted' = (parted \/ Failed)
    /\ UNCHANGED <<powered, registry, writer, request, exited>>

(* media/ingress of a disk, by path or by its bytes.                       *)
IngressDisk(d) ==
    /\ Insert(d)
    /\ parted' = (parted \/ ~Saved(drive) \/ ~powered \/ ~Saved(d))
    /\ UNCHANGED <<powered, registry, host, writer, failures, exited>>

IngressFile ==
    /\ ~exited /\ request # None /\ request.kind = "ingress"
    /\ IngressDisk([file |-> request.file, bytes |-> request.bytes])
    /\ request' = None

IngressUpload(b) ==
    /\ ~exited
    /\ IngressDisk([file |-> NoFile, bytes |-> b])
    /\ UNCHANGED request

(* media/ingress of an eject.                                              *)
IngressEject ==
    /\ ~exited /\ drive # None
    /\ Removed
    /\ parted' = (parted \/ ~Saved(drive))
    /\ UNCHANGED <<powered, registry, host, writer, request, failures, exited>>

(* media/persist flushes and copies under the lock, and writes after it.   *)
PersistTake ==
    /\ ~exited /\ request = None
    /\ unreported' = FALSE
    /\ request' = IF Backed(drive)
                  THEN [kind |-> "persist", file |-> drive.file, bytes |-> drive.bytes]
                  ELSE None
    /\ UNCHANGED <<powered, drive, registry, host, writer, failures, exited, parted>>

Holding(d, f) == d # None /\ d.file = f
NewerThan(r) == \E d \in {drive, inserted_disk} :
                    Holding(d, r.file) /\ d.bytes # r.bytes

PersistWrite ==
    /\ ~exited /\ request # None /\ request.kind = "persist"
    /\ WriteOut(request)
    /\ request' = None
    /\ parted' = (parted \/ Failed \/ NewerThan(request))
    /\ UNCHANGED <<powered, drive, unreported, registry, writer, exited>>

(* Session::power_off and power_on: the disk waits in the registry.  What  *)
(* was put into the drive of a machine that is off goes with that machine. *)
PowerOffReported ==
    /\ ~exited /\ powered
    /\ inserted_disk' = drive /\ inserted_disk_unreported' = FALSE
    /\ Removed
    /\ powered' = FALSE
    /\ UNCHANGED <<host, writer, request, failures, exited, parted>>

PowerOff ==
    /\ ~exited /\ powered
    /\ inserted_disk' = drive /\ inserted_disk_unreported' = unreported
    /\ Removed
    /\ powered' = FALSE
    /\ UNCHANGED <<host, writer, request, failures, exited, parted>>

PowerOn ==
    /\ ~exited /\ ~powered
    /\ drive' = inserted_disk /\ unreported' = (inserted_disk # None /\ inserted_disk_unreported)
    /\ inserted_disk' = None /\ inserted_disk_unreported' = FALSE
    /\ powered' = TRUE
    /\ UNCHANGED <<host, writer, request, failures, exited, parted>>

(* project/set: powered on if need be, the disk written and taken out, and *)
(* a power cycle.                                                          *)
ProjectSet ==
    /\ ~exited
    /\ WriteOut(IF powered THEN drive ELSE inserted_disk)
    /\ powered' = TRUE
    /\ Removed
    /\ inserted_disk' = None /\ inserted_disk_unreported' = FALSE
    /\ parted' = (parted \/ Failed)
    /\ UNCHANGED <<writer, request, exited>>

(* shutdown_now: persist_media_before_exit, whoever asks for the exit.     *)
Shutdown ==
    /\ ~exited
    /\ WriteOut(drive)
    /\ unreported' = FALSE
    /\ exited' = TRUE
    /\ parted' = (parted \/ Failed)
    /\ UNCHANGED <<powered, drive, registry, writer, request>>

Next ==
    \/ \E b \in Bytes : DriveWrites(b)
    \/ LoopDisk
    \/ Settle
    \/ \E kind \in {"mount", "ingress"}, f \in File : ReadDisk(kind, f)
    \/ MountDisk
    \/ EjectDisk
    \/ IngressFile
    \/ \E b \in Bytes : IngressUpload(b)
    \/ IngressEject
    \/ PersistTake
    \/ PersistWrite
    \/ PowerOff
    \/ PowerOn
    \/ ProjectSet
    \/ Shutdown

(* The run loop iterates for as long as the daemon lives, and time passes; *)
(* a call that holds bytes to write goes on to write them.                 *)
Fairness == WF_vars(LoopDisk) /\ WF_vars(Settle) /\ WF_vars(PersistWrite)

Spec == Init /\ [][Next]_vars
FairSpec == Spec /\ Fairness

-----------------------------------------------------------------------------
TypeOK ==
    /\ HostTypeOK
    /\ drive \in Disk \cup {None} /\ inserted_disk \in Disk \cup {None}
    /\ unreported \in BOOLEAN /\ inserted_disk_unreported \in BOOLEAN
    /\ disk_ap_pending \in BOOLEAN /\ disk_ap_settled \in BOOLEAN
    /\ disk_ap_seen_hash \in Bytes \cup {None}
    /\ disk_ap_done_hash \in Bytes \cup {None}

(* The writer has it, or will be told of it, or a media/persist is writing *)
(* it.                                                                     *)
WillBeSaved(d, report) == disk_ap_pending \/ report \/ BeingSaved(d)

(* A disk in the drive or in the registry has nothing its file has not, or *)
(* somebody is still going to write it: no order of writes, polls, power   *)
(* cycles and doors takes a write's report without passing it on.          *)
NoWriteForgotten ==
    ~parted =>
        /\ Saved(drive) \/ WillBeSaved(drive, unreported)
        /\ Saved(inserted_disk) \/ WillBeSaved(inserted_disk, inserted_disk_unreported)

(* A daemon that ends with its machine on has kept every write.            *)
ExitSaves == (exited /\ powered /\ failures = 0) => Saved(drive)

(* No write is lost to a report nobody passes on, nor to the end of the    *)
(* daemon (autopersist_disk_at, shutdown_now).                             *)
NoWriteLost == NoWriteForgotten /\ ExitSaves

(* A disk that is nowhere any more left its contents in its file.          *)
Inside(f) == \E d \in {drive, inserted_disk} : Holding(d, f)
Last(f) == CHOOSE d \in {drive, inserted_disk} : Holding(d, f)
LeavesSaved ==
    [][\A f \in File : (~parted' /\ Inside(f) /\ ~Inside(f)')
          => host'[f] = Last(f).bytes]_vars

(* A write reaches the file by itself, unless its disk goes first, or the  *)
(* writer takes it for one it has written (see LazyWriteArrives).          *)
Waiting(d) == powered /\ ~exited /\ drive = d
LazyWriteArrivesFresh ==
    \A d \in [file : File, bytes : Bytes] :
        Waiting(d) ~> (Saved(d) \/ ~Waiting(d) \/ parted \/ disk_ap_done_hash = d.bytes)

-----------------------------------------------------------------------------
(* What the documentation promises and the code does not keep.             *)

(* "The run loop flushes + writes the backing file when a dirty track has  *)
(* been settled for the debounce window".                                  *)
LazyWriteArrives ==
    \A d \in [file : File, bytes : Bytes] :
        Waiting(d) ~> (Saved(d) \/ ~Waiting(d) \/ parted)

(* "A daemon that ends itself keeps the user's writes", machine on or off. *)
ExitKeepsWrites ==
    (exited /\ failures = 0) => Saved(drive) /\ Saved(inserted_disk)

(* "A disk change is an implicit eject: persist its dirty writes + detach  *)
(* BEFORE attaching the new one": what is mounted is what is in the file.  *)
MountShowsFile ==
    [][MountDisk => Saved(drive)']_vars

(* "So an eject can't lose them", whichever door it goes through.          *)
EjectKeepsWrites ==
    [][(IngressEject /\ Backed(drive)) => host'[drive.file] = drive.bytes]_vars

(* A media/persist under way never puts back older bytes over newer ones.  *)
NoWriteUndone == [][(PersistWrite /\ Saved(drive)) => Saved(drive)']_vars

(* "Re-attach whatever media is registered": a disk put in is still in     *)
(* after the machine is switched on.                                       *)
PowerOnKeepsDisk ==
    [][(PowerOn /\ drive # None) => drive' = drive]_vars
==============================================================================
