------------------------------ MODULE MediaHost -------------------------------
(***************************************************************************)
(* What a disk and a cartridge have in common: the host file it is backed  *)
(* by, the requests that read or write that file outside the State lock,   *)
(* and the machine's power (trx64-daemon/src/main.rs).                     *)
(***************************************************************************)
EXTENDS Naturals, TLC

CONSTANTS
    File,          \* host files
    NoFile,        \* the backing path of an uploaded medium
    Bytes,         \* what a medium, or a file, may contain
    None,
    MaxFailures    \* bound: host writes that fail

Request == [kind : {"mount", "ingress", "persist"}, file : File, bytes : Bytes]

ASSUME HostAssumption == /\ NoFile \notin File
                         /\ None \notin Bytes \cup Request
                         /\ MaxFailures \in Nat

VARIABLES
    powered,
    host,          \* the files
    request,       \* the one request that has read a file, or not written it yet
    failures,
    exited,
    parted         \* history: a write failed; a file changed between being read
                   \* and mounted, or was written late with older bytes; or a
                   \* door that writes nothing took an unsaved medium out

HostInit ==
    /\ powered = TRUE
    /\ host \in [File -> Bytes]
    /\ request = None
    /\ failures = 0 /\ exited = FALSE /\ parted = FALSE

HostTypeOK ==
    /\ powered \in BOOLEAN /\ exited \in BOOLEAN /\ parted \in BOOLEAN
    /\ host \in [File -> Bytes]
    /\ request \in Request \cup {None}
    /\ failures \in 0 .. MaxFailures

Backed(m) == m # None /\ m.file # NoFile
Saved(m) == Backed(m) => host[m.file] = m.bytes

(* write_medium, or nothing for a medium without a path; the host may      *)
(* refuse.                                                                 *)
Written(m) == IF Backed(m) THEN [host EXCEPT ![m.file] = m.bytes] ELSE host
WriteFails(m) ==
    /\ Backed(m) /\ failures < MaxFailures
    /\ failures' = failures + 1
    /\ host' = host
WriteOut(m) == \/ host' = Written(m) /\ failures' = failures
               \/ WriteFails(m)
Failed == failures' # failures

(* media/mount, media/swap and media/ingress read the file, and only then  *)
(* take the lock.                                                          *)
ReadFile(kind, f) ==
    /\ ~exited /\ request = None
    /\ request' = [kind |-> kind, file |-> f, bytes |-> host[f]]
    /\ UNCHANGED <<powered, host, failures, exited, parted>>

(* A media/persist has m under way to its file.                            *)
BeingSaved(m) ==
    /\ request # None /\ request.kind = "persist"
    /\ request.file = m.file /\ request.bytes = m.bytes
==============================================================================
