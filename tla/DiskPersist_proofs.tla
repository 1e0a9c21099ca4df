-------------------------- MODULE DiskPersist_proofs --------------------------
(***************************************************************************)
(* Proofs about the disk, for every set of files and contents and every    *)
(* number of failing writes.                                               *)
(***************************************************************************)
EXTENDS DiskPersist, TLAPS

-----------------------------------------------------------------------------
(* What a host write does and leaves alone, for any medium.                *)

IsMedium(m) ==
    m # None => m.file \in File \cup {NoFile} /\ m.bytes \in Bytes

(* A write reaches the medium's own file or fails; other files stay.       *)
LEMMA WriteOutcome ==
    ASSUME HostTypeOK, NEW m, IsMedium(m), WriteOut(m)
    PROVE  /\ host' \in [File -> Bytes] /\ failures' \in 0 .. MaxFailures
           /\ ~Failed /\ Backed(m) => host'[m.file] = m.bytes
           /\ \A f \in File : ~(Backed(m) /\ m.file = f) => host'[f] = host[f]
           /\ failures' = 0 => ~Failed
<1>1. host \in [File -> Bytes] /\ failures \in 0 .. MaxFailures /\ MaxFailures \in Nat
  BY HostAssumption DEF HostTypeOK
<1>2. Backed(m) => m.file \in File /\ m.bytes \in Bytes
  BY DEF Backed, IsMedium
<1>3. CASE host' = Written(m) /\ failures' = failures
  BY <1>1, <1>2, <1>3 DEF Written, Failed, Backed
<1>4. CASE WriteFails(m)
  BY <1>1, <1>4 DEF WriteFails, Failed, Backed
<1> QED
  BY <1>3, <1>4 DEF WriteOut

(* A request that has read a file is one the type allows.                  *)
LEMMA ReadTyped ==
    ASSUME HostTypeOK, NEW kind \in {"mount", "ingress"}, NEW f \in File, ReadFile(kind, f)
    PROVE  HostTypeOK' /\ request' \in Request
<1>1. host[f] \in Bytes
  BY DEF HostTypeOK
<1> QED
  BY <1>1 DEF HostTypeOK, ReadFile, Request

-----------------------------------------------------------------------------
(* The medium of this component.                                           *)

LEMMA DisksAreMedia ==
    ASSUME TypeOK
    PROVE  IsMedium(drive) /\ IsMedium(inserted_disk) /\ IsMedium(request)
BY DEF TypeOK, HostTypeOK, Disk, Request, IsMedium

LEMMA InitTyped == Init => TypeOK
<1>1. 0 \in 0 .. MaxFailures
  BY HostAssumption
<1> QED
  BY <1>1 DEF Init, HostInit, TypeOK, HostTypeOK

-----------------------------------------------------------------------------
(* Types.                                                                  *)

LEMMA LoopTyped == TypeOK /\ LoopDisk => TypeOK'
<1> SUFFICES ASSUME TypeOK, LoopDisk PROVE TypeOK'
  OBVIOUS
<1>1. HostTypeOK'
  <2>1. CASE Settled
    <3>1. WriteOut(drive)
      BY <2>1 DEF LoopDisk
    <3> QED
      BY <3>1, DisksAreMedia, WriteOutcome DEF TypeOK, LoopDisk, HostTypeOK
  <2>2. CASE ~Settled
    BY <2>2 DEF TypeOK, LoopDisk, HostTypeOK
  <2> QED
    BY <2>1, <2>2
<1>2. Backed(drive) => drive.bytes \in Bytes
  BY DisksAreMedia DEF IsMedium, Backed
<1>3. /\ disk_ap_seen_hash' \in Bytes \cup {None} /\ disk_ap_settled' \in BOOLEAN
  BY <1>2 DEF TypeOK, LoopDisk, Changed
<1>4. /\ disk_ap_done_hash' \in Bytes \cup {None} /\ disk_ap_pending' \in BOOLEAN
  BY <1>2 DEF TypeOK, LoopDisk, Settled
<1> QED
  BY <1>1, <1>3, <1>4 DEF TypeOK, LoopDisk, registry

LEMMA NextTyped == TypeOK /\ [Next]_vars => TypeOK'
<1> SUFFICES ASSUME TypeOK, [Next]_vars PROVE TypeOK'
  OBVIOUS
<1> USE DEF TypeOK, HostTypeOK, registry, writer
<1>1. ASSUME NEW b \in Bytes, DriveWrites(b) PROVE TypeOK'
  BY <1>1 DEF DriveWrites, Disk
<1>2. CASE LoopDisk
  BY <1>2, LoopTyped
<1>3. CASE Settle
  BY <1>3 DEF Settle
<1>4. ASSUME NEW kind \in {"mount", "ingress"}, NEW f \in File, ReadDisk(kind, f)
      PROVE  TypeOK'
  <2>1. HostTypeOK'
    BY <1>4, ReadTyped DEF ReadDisk
  <2> QED
    BY <1>4, <2>1 DEF ReadDisk
<1>5. CASE MountDisk
  <2>1. [file |-> request.file, bytes |-> request.bytes] \in Disk
    BY <1>5 DEF MountDisk, Request, Disk
  <2>2. host' \in [File -> Bytes] /\ failures' \in 0 .. MaxFailures
    BY <1>5, DisksAreMedia, WriteOutcome DEF MountDisk
  <2> QED
    BY <1>5, <2>1, <2>2 DEF MountDisk, Insert
<1>6. CASE EjectDisk
  <2>1. host' \in [File -> Bytes] /\ failures' \in 0 .. MaxFailures
    BY <1>6, DisksAreMedia, WriteOutcome DEF EjectDisk
  <2> QED
    BY <1>6, <2>1 DEF EjectDisk, Removed
<1>7. CASE IngressFile
  <2>1. [file |-> request.file, bytes |-> request.bytes] \in Disk
    BY <1>7 DEF IngressFile, Request, Disk
  <2> QED
    BY <1>7, <2>1 DEF IngressFile, IngressDisk, Insert
<1>8. ASSUME NEW b \in Bytes, IngressUpload(b) PROVE TypeOK'
  BY <1>8 DEF IngressUpload, IngressDisk, Insert, Disk
<1>9. CASE IngressEject
  BY <1>9 DEF IngressEject, Removed
<1>10. CASE PersistTake
  <2>1. Backed(drive) => [kind |-> "persist", file |-> drive.file, bytes |-> drive.bytes]
                           \in Request
    BY DEF Backed, Disk, Request
  <2> QED
    BY <1>10, <2>1 DEF PersistTake
<1>11. CASE PersistWrite
  <2>1. host' \in [File -> Bytes] /\ failures' \in 0 .. MaxFailures
    BY <1>11, DisksAreMedia, WriteOutcome DEF PersistWrite
  <2> QED
    BY <1>11, <2>1 DEF PersistWrite
<1>12. CASE PowerOff
  BY <1>12 DEF PowerOff, Removed
<1>13. CASE PowerOn
  BY <1>13 DEF PowerOn
<1>14. CASE ProjectSet
  <2>1. IsMedium(IF powered THEN drive ELSE inserted_disk)
    BY DisksAreMedia
  <2>2. host' \in [File -> Bytes] /\ failures' \in 0 .. MaxFailures
    BY <1>14, <2>1, WriteOutcome DEF ProjectSet
  <2> QED
    BY <1>14, <2>2 DEF ProjectSet, Removed
<1>15. CASE Shutdown
  <2>1. host' \in [File -> Bytes] /\ failures' \in 0 .. MaxFailures
    BY <1>15, DisksAreMedia, WriteOutcome DEF Shutdown
  <2> QED
    BY <1>15, <2>1 DEF Shutdown
<1>16. CASE UNCHANGED vars
  BY <1>16 DEF vars
<1> QED
  BY <1>1, <1>2, <1>3, <1>4, <1>5, <1>6, <1>7, <1>8, <1>9, <1>10, <1>11, <1>12, <1>13,
     <1>14, <1>15, <1>16 DEF Next

(* Every door, poll and power cycle keeps the types.                       *)
THEOREM DiskTypeCorrect == Spec => []TypeOK
BY InitTyped, NextTyped, PTL DEF Spec

-----------------------------------------------------------------------------
(* Where a disk can be, and that its writes are on somebody's list.        *)

(* The registry is for a machine that is off; a disk put into such a       *)
(* machine's drive is lost, which `parted' records.                        *)
RegistryWhenOff ==
    /\ powered => inserted_disk = None
    /\ ~powered /\ ~parted => drive = None

IInv == TypeOK /\ RegistryWhenOff /\ NoWriteForgotten

(* Nothing is brought back together once it has parted.                    *)
LEMMA PartedStays == [Next]_vars /\ ~parted' => ~parted
BY Zenon DEF Next, vars, DriveWrites, LoopDisk, Settle, ReadDisk, ReadFile, MountDisk, EjectDisk,
       IngressFile, IngressUpload, IngressDisk, IngressEject, PersistTake, PersistWrite,
       PowerOff, PowerOn, ProjectSet, Shutdown

LEMMA NextRegistry == TypeOK /\ RegistryWhenOff /\ [Next]_vars => RegistryWhenOff'
<1> SUFFICES ASSUME TypeOK, RegistryWhenOff, [Next]_vars PROVE RegistryWhenOff'
  OBVIOUS
<1> USE DEF RegistryWhenOff, registry, writer
<1>1. ASSUME NEW b \in Bytes, DriveWrites(b) PROVE RegistryWhenOff'
  BY <1>1 DEF DriveWrites
<1>2. CASE LoopDisk
  BY <1>2 DEF LoopDisk
<1>3. CASE Settle
  BY <1>3 DEF Settle
<1>4. ASSUME NEW kind \in {"mount", "ingress"}, NEW f \in File, ReadDisk(kind, f)
      PROVE  RegistryWhenOff'
  BY <1>4 DEF ReadDisk, ReadFile
<1>5. CASE MountDisk
  BY <1>5 DEF MountDisk
<1>6. CASE EjectDisk
  BY <1>6 DEF EjectDisk, Removed
<1>7. CASE IngressFile
  BY <1>7 DEF IngressFile, IngressDisk
<1>8. ASSUME NEW b \in Bytes, IngressUpload(b) PROVE RegistryWhenOff'
  BY <1>8 DEF IngressUpload, IngressDisk
<1>9. CASE IngressEject
  BY <1>9 DEF IngressEject, Removed
<1>10. CASE PersistTake
  BY <1>10 DEF PersistTake
<1>11. CASE PersistWrite
  BY <1>11 DEF PersistWrite
<1>12. CASE PowerOff
  BY <1>12 DEF PowerOff, Removed
<1>13. CASE PowerOn
  BY <1>13 DEF PowerOn
<1>14. CASE ProjectSet
  BY <1>14 DEF ProjectSet, Removed
<1>15. CASE Shutdown
  BY <1>15 DEF Shutdown
<1>16. CASE UNCHANGED vars
  BY <1>16 DEF vars
<1> QED
  BY <1>1, <1>2, <1>3, <1>4, <1>5, <1>6, <1>7, <1>8, <1>9, <1>10, <1>11, <1>12, <1>13,
     <1>14, <1>15, <1>16 DEF Next

(* An unsaved disk is backed, so no poll disarms its writer; writing the   *)
(* drive's disk touches no other disk.                                     *)
LEMMA LoopForgetsNothing ==
    ASSUME IInv, ~parted, LoopDisk
    PROVE  NoWriteForgotten'
<1>1. /\ Saved(drive) \/ WillBeSaved(drive, unreported)
      /\ Saved(inserted_disk) \/ WillBeSaved(inserted_disk, inserted_disk_unreported)
  BY DEF IInv, NoWriteForgotten
<1>2. UNCHANGED <<drive, registry, request, parted>>
  BY DEF LoopDisk
<1>3. drive = None \/ inserted_disk = None
  BY DEF IInv, RegistryWhenOff, TypeOK, HostTypeOK
<1>4. CASE Settled
  <2>1. WriteOut(drive) /\ HostTypeOK /\ IsMedium(drive)
    BY <1>4, DisksAreMedia DEF LoopDisk, IInv, TypeOK
  <2>2. drive # None /\ inserted_disk = None
    BY <1>3, <1>4 DEF Settled, Backed
  <2>3. Failed => disk_ap_pending'
    BY <1>4 DEF LoopDisk, Failed
  <2>4. ~Failed => Saved(drive)'
    BY <2>1, <1>2, WriteOutcome DEF Saved, Backed
  <2> QED
    BY <1>2, <2>2, <2>3, <2>4 DEF NoWriteForgotten, WillBeSaved, Saved, Backed, registry
<1>5. CASE ~Settled
  <2>1. host' = host /\ disk_ap_pending' = (Armed /\ ~Disarmed)
    BY <1>5 DEF LoopDisk
  <2>2. Saved(drive)' \/ WillBeSaved(drive, unreported)'
    BY <1>1, <1>2, <2>1 DEF Saved, Backed, WillBeSaved, BeingSaved, Armed, Disarmed
  <2>3. Saved(inserted_disk)' \/ WillBeSaved(inserted_disk, inserted_disk_unreported)'
    BY <1>1, <1>2, <1>3, <2>1
    DEF Saved, Backed, WillBeSaved, BeingSaved, Armed, Disarmed, InRegistry, registry
  <2> QED
    BY <2>2, <2>3 DEF NoWriteForgotten
<1> QED
  BY <1>4, <1>5

(* A write under way carries what its disk holds, or the disk has parted   *)
(* from it.                                                                *)
LEMMA PersistForgetsNothing ==
    ASSUME IInv, ~parted', PersistWrite
    PROVE  NoWriteForgotten'
<1>1. ~parted /\ ~Failed /\ ~NewerThan(request)
  BY DEF PersistWrite
<1>2. /\ Saved(drive) \/ WillBeSaved(drive, unreported)
      /\ Saved(inserted_disk) \/ WillBeSaved(inserted_disk, inserted_disk_unreported)
  BY <1>1 DEF IInv, NoWriteForgotten
<1>3. WriteOut(request) /\ HostTypeOK /\ IsMedium(request) /\ Backed(request)
  BY DisksAreMedia, HostAssumption DEF PersistWrite, IInv, TypeOK, HostTypeOK, Request, Backed
<1>4. /\ host'[request.file] = request.bytes
      /\ \A f \in File : request.file # f => host'[f] = host[f]
  BY <1>1, <1>3, WriteOutcome
<1>5. \A d \in {drive, inserted_disk} :
         d # None /\ d.file = request.file => d.bytes = request.bytes
  BY <1>1 DEF NewerThan, Holding
<1>6. \A d \in {drive, inserted_disk} :
         Backed(d) => d.file \in File
  BY DEF Backed, IInv, TypeOK, Disk
<1>7. UNCHANGED <<drive, unreported, registry, writer>>
  BY DEF PersistWrite
<1>8. \A d \in {drive, inserted_disk} :
         Saved(d) \/ BeingSaved(d) => (Backed(d) => host'[d.file] = d.bytes)
  BY <1>4, <1>5, <1>6 DEF Saved, BeingSaved, Backed
<1> QED
  BY <1>2, <1>7, <1>8 DEF NoWriteForgotten, WillBeSaved, Saved, Backed, registry, writer

(* A disk taken in is what its file holds, unless that counts as parted.   *)
LEMMA NextForgetsNothing == IInv /\ [Next]_vars => NoWriteForgotten'
<1> SUFFICES ASSUME IInv, [Next]_vars, ~parted' PROVE NoWriteForgotten'
  BY DEF NoWriteForgotten
<1>0. ~parted
  BY PartedStays
<1>a. /\ Saved(drive) \/ WillBeSaved(drive, unreported)
      /\ Saved(inserted_disk) \/ WillBeSaved(inserted_disk, inserted_disk_unreported)
  BY <1>0 DEF IInv, NoWriteForgotten
<1>b. TypeOK /\ HostTypeOK
  BY DEF IInv, TypeOK
<1>c. /\ powered => inserted_disk = None
      /\ ~powered => drive = None
  BY <1>0 DEF IInv, RegistryWhenOff
<1> USE DEF NoWriteForgotten, WillBeSaved, BeingSaved, Saved, Backed, registry, writer
<1>1. ASSUME NEW b \in Bytes, DriveWrites(b) PROVE NoWriteForgotten'
  BY <1>1, <1>c DEF DriveWrites
<1>2. CASE LoopDisk
  BY <1>0, <1>2, LoopForgetsNothing
<1>3. CASE Settle
  BY <1>3, <1>a DEF Settle
<1>4. ASSUME NEW kind \in {"mount", "ingress"}, NEW f \in File, ReadDisk(kind, f)
      PROVE  NoWriteForgotten'
  BY <1>4, <1>a DEF ReadDisk, ReadFile
<1>5. CASE MountDisk
  BY <1>5, <1>c DEF MountDisk, Insert
<1>6. CASE EjectDisk
  BY <1>6, <1>c DEF EjectDisk, Removed
<1>7. CASE IngressFile
  BY <1>7, <1>c DEF IngressFile, IngressDisk, Insert
<1>8. ASSUME NEW b \in Bytes, IngressUpload(b) PROVE NoWriteForgotten'
  BY <1>8, <1>c DEF IngressUpload, IngressDisk, Insert
<1>9. CASE IngressEject
  BY <1>9, <1>c DEF IngressEject, Removed
<1>10. CASE PersistTake
  <2>1. request = None
    BY <1>10 DEF PersistTake
  <2>2. Backed(drive) => [kind |-> "persist", file |-> drive.file, bytes |-> drive.bytes] # None
    BY <1>b, HostAssumption DEF TypeOK, Disk, Request
  <2>3. Backed(drive) => BeingSaved(drive)'
    BY <1>10, <2>2 DEF PersistTake
  <2> QED
    BY <1>10, <1>a, <2>1, <2>3 DEF PersistTake
<1>11. CASE PersistWrite
  BY <1>11, PersistForgetsNothing
<1>12. CASE PowerOff
  BY <1>12, <1>a, <1>c DEF PowerOff, Removed
<1>13. CASE PowerOn
  BY <1>13, <1>a, <1>c DEF PowerOn
<1>14. CASE ProjectSet
  BY <1>14 DEF ProjectSet, Removed
<1>15. CASE Shutdown
  <2>1. WriteOut(drive) /\ IsMedium(drive) /\ ~Failed
    BY <1>15, <1>b, DisksAreMedia DEF Shutdown
  <2>2. Saved(drive)'
    BY <1>15, <1>b, <2>1, WriteOutcome DEF Shutdown
  <2>3. CASE inserted_disk = None
    BY <1>15, <2>2, <2>3 DEF Shutdown
  <2>4. CASE drive = None
    <3>1. host' = host
      BY <2>1, <2>4 DEF WriteOut, Written, WriteFails
    <3> QED
      BY <1>15, <1>a, <2>4, <3>1 DEF Shutdown
  <2> QED
    BY <1>b, <1>c, <2>3, <2>4 DEF HostTypeOK
<1>16. CASE UNCHANGED vars
  BY <1>16, <1>a DEF vars
<1> QED
  BY <1>1, <1>2, <1>3, <1>4, <1>5, <1>6, <1>7, <1>8, <1>9, <1>10, <1>11, <1>12, <1>13,
     <1>14, <1>15, <1>16 DEF Next

(* No order of writes, polls, power cycles and doors takes a write's       *)
(* report without passing it on (autopersist_disk_at, Session::power_off   *)
(* and power_on, and every door).                                          *)
THEOREM NoWriteIsForgotten == Spec => []NoWriteForgotten
<1>1. Init => IInv
  BY InitTyped DEF Init, HostInit, IInv, RegistryWhenOff, NoWriteForgotten, Saved, Backed
<1>2. IInv /\ [Next]_vars => IInv'
  BY NextTyped, NextRegistry, NextForgetsNothing DEF IInv
<1>3. IInv => NoWriteForgotten
  BY DEF IInv
<1> QED
  BY <1>1, <1>2, <1>3, PTL DEF Spec

-----------------------------------------------------------------------------
(* The exit and the doors.                                                 *)

LEMMA NextExitSaves == TypeOK /\ ExitSaves /\ [Next]_vars => ExitSaves'
<1> SUFFICES ASSUME TypeOK, ExitSaves, [Next]_vars, exited', powered', failures' = 0
             PROVE  Saved(drive)'
  BY DEF ExitSaves
<1>1. CASE Shutdown
  <2>1. WriteOut(drive) /\ IsMedium(drive) /\ HostTypeOK
    BY <1>1, DisksAreMedia DEF Shutdown, TypeOK
  <2> QED
    BY <1>1, <2>1, WriteOutcome DEF Shutdown, Saved, Backed
<1>2. CASE UNCHANGED vars
  BY <1>2 DEF vars, ExitSaves, Saved, Backed
<1>3. CASE ~exited /\ Next /\ ~Shutdown
  <2>1. exited' = exited
    BY <1>3 DEF Next, DriveWrites, LoopDisk, Settle, ReadDisk, ReadFile, MountDisk, EjectDisk,
       IngressFile, IngressUpload, IngressDisk, IngressEject, PersistTake, PersistWrite,
       PowerOff, PowerOn, ProjectSet
  <2> QED
    BY <1>3, <2>1
<1>4. Next => ~exited
  BY DEF Next, DriveWrites, LoopDisk, Settle, ReadDisk, ReadFile, MountDisk, EjectDisk,
     IngressFile, IngressUpload, IngressDisk, IngressEject, PersistTake, PersistWrite,
     PowerOff, PowerOn, ProjectSet, Shutdown
<1> QED
  BY <1>1, <1>2, <1>3, <1>4

(* shutdown_now: a daemon that ends with its machine on has kept every     *)
(* write.                                                                  *)
THEOREM DaemonExitSaves == Spec => []ExitSaves
<1>1. Init => ExitSaves
  BY DEF Init, HostInit, ExitSaves
<1> QED
  BY <1>1, InitTyped, NextTyped, NextExitSaves, PTL DEF Spec

LEMMA LeavingIsSaved ==
    ASSUME TypeOK, RegistryWhenOff, [Next]_vars, ~parted',
           NEW f \in File, Inside(f), ~Inside(f)'
    PROVE  host'[f] = Last(f).bytes
<1> DEFINE d == IF powered THEN drive ELSE inserted_disk
<1>0. ~parted
  BY PartedStays
<1>1. /\ powered => inserted_disk = None
      /\ ~powered => drive = None
  BY <1>0 DEF RegistryWhenOff
<1>2. Holding(d, f) /\ \A e \in {drive, inserted_disk} : Holding(e, f) => e = d
  BY <1>1 DEF Inside, Holding
<1>3. Last(f) = d
  BY <1>2 DEF Last
<1>4. Backed(d) /\ d.file = f /\ IsMedium(d) /\ HostTypeOK
  BY <1>2, DisksAreMedia, HostAssumption DEF Holding, Backed, TypeOK
<1>5. ~(Holding(drive', f) \/ Holding(inserted_disk', f))
  BY DEF Inside, Holding
<1>6. SUFFICES host'[f] = d.bytes
  BY <1>3
<1> USE DEF Holding, registry, writer
<1>7. ASSUME WriteOut(d), ~Failed PROVE host'[f] = d.bytes
  BY <1>4, <1>7, WriteOutcome
<1>8. ASSUME host' = host, Saved(d) PROVE host'[f] = d.bytes
  BY <1>4, <1>8 DEF Saved
<1>9. ASSUME UNCHANGED <<drive, inserted_disk>> PROVE FALSE
  BY <1>2, <1>5, <1>9
<1>10. ASSUME NEW b \in Bytes, DriveWrites(b) PROVE FALSE
  <2>1. drive \in Disk /\ drive' = [drive EXCEPT !.bytes = b]
    BY <1>10 DEF DriveWrites, TypeOK
  <2>2. drive'.file = drive.file /\ drive' \in Disk /\ inserted_disk' = inserted_disk
    BY <1>10, <2>1 DEF DriveWrites, Disk
  <2>3. drive' # None
    BY <2>2, DiskAssumption
  <2> QED
    BY <1>2, <1>5, <2>2, <2>3
<1>11. CASE MountDisk
  <2>1. drive # None => d = drive
    BY <1>1
  <2>2. CASE powered
    BY <1>7, <1>11, <2>2 DEF MountDisk
  <2>3. CASE ~powered
    BY <1>11, <2>3 DEF MountDisk
  <2> QED
    BY <2>2, <2>3
<1>12. CASE EjectDisk
  <2>1. d = drive
    BY <1>1, <1>12 DEF EjectDisk, TypeOK, HostTypeOK
  <2> QED
    BY <1>7, <1>12, <2>1 DEF EjectDisk
<1>13. ASSUME NEW e, IngressDisk(e) PROVE host'[f] = d.bytes
  BY <1>8, <1>13 DEF IngressDisk
<1>14. CASE IngressEject
  <2>1. d = drive
    BY <1>1, <1>14 DEF IngressEject, TypeOK, HostTypeOK
  <2> QED
    BY <1>8, <1>14, <2>1 DEF IngressEject
<1>15. CASE PowerOff
  BY <1>2, <1>5, <1>15 DEF PowerOff
<1>16. CASE PowerOn
  BY <1>2, <1>5, <1>16 DEF PowerOn
<1>17. CASE ProjectSet
  BY <1>7, <1>17 DEF ProjectSet
<1>18. CASE LoopDisk \/ Settle \/ PersistTake \/ PersistWrite \/ Shutdown \/ UNCHANGED vars
  BY <1>9, <1>18 DEF LoopDisk, Settle, PersistTake, PersistWrite, Shutdown, vars
<1>19. ASSUME NEW kind \in {"mount", "ingress"}, NEW g \in File, ReadDisk(kind, g) PROVE FALSE
  BY <1>9, <1>19 DEF ReadDisk
<1> QED
  BY <1>10, <1>11, <1>12, <1>13, <1>14, <1>15, <1>16, <1>17, <1>18, <1>19
  DEF Next, IngressFile, IngressUpload

(* mount, unmount, project/set and the power switch: a disk that is        *)
(* nowhere any more left its contents in its file.                         *)
THEOREM DisksLeaveSaved == Spec => LeavesSaved
<1>1. TypeOK /\ RegistryWhenOff /\ [Next]_vars =>
        [\A f \in File : (~parted' /\ Inside(f) /\ ~Inside(f)') => host'[f] = Last(f).bytes]_vars
  BY LeavingIsSaved
<1>2. Init => RegistryWhenOff
  BY DEF Init, HostInit, RegistryWhenOff
<1> QED
  BY <1>1, <1>2, InitTyped, NextTyped, NextRegistry, PTL DEF Spec, LeavesSaved

(* No write is lost to a report nobody passes on, nor to the end of the    *)
(* daemon.                                                                 *)
THEOREM NoWriteIsLost == Spec => []NoWriteLost
<1>1. NoWriteForgotten /\ ExitSaves => NoWriteLost
  BY DEF NoWriteLost
<1> QED
  BY <1>1, NoWriteIsForgotten, DaemonExitSaves, PTL
===============================================================================
