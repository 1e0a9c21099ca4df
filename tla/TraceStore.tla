----------------------------- MODULE TraceStore ------------------------------
(***************************************************************************)
(* A recorded trace on its way to who reads it: the buffer that is spilled *)
(* into a .c64retrace while the run records (trx64-session/src/lib.rs,     *)
(* trx64-daemon/src/main.rs), and the threads that build the .duckdb next  *)
(* to it, for a stop or for the first who reads                            *)
(* (trx64-traceindex/src/ensure.rs, build.rs).                             *)
(*                                                                         *)
(* A frame is the run it belongs to and its number, the header number 0;   *)
(* a piece of one, which a failed write may leave, has the number -1.      *)
(* A store is the frames it was built from and how many of the user's      *)
(* marks it was given: those are not in the file.  Recording and ending a  *)
(* trace are done under the State lock, waiting for a store and building   *)
(* one are not.  The staleness check is off, as it is by default.          *)
(* A definition named for a slip is the one after it with that slip.       *)
(***************************************************************************)
EXTENDS Integers, SequencesExt

CONSTANTS
    Clients,
    Waiters,         \* bound: those of them that stop a trace and wait
    Paths,           \* where clients want their traces
    None,
    SpillFrames,     \* the pending frames that are worth a write
    MaxRuns, MaxFrames, MaxMarks,    \* bounds: traces, what each records
    MaxJobs,         \* bound: builds
    MaxFailures      \* bound: writes and builds that fail

Frame == Nat \X (Nat \union {-1})
Recording == [run : Nat, path : Paths, buf : Seq(Frame), spilled : Nat, marks : Nat]
(* Assumed by Recordings, which takes an instance of this module.          *)
StoreAssumption == /\ Waiters \subseteq Clients
                   /\ SpillFrames \in Nat \ {0}
                   /\ None \notin Seq(Frame) \union Recording \union Paths
                   /\ MaxRuns \in Nat /\ MaxFrames \in Nat /\ MaxMarks \in Nat
                   /\ MaxJobs \in Nat /\ MaxFailures \in Nat

VARIABLES
    trace,           \* session.trace, or None
    file,            \* the .c64retrace of a path, or None
    store,           \* its .duckdb, or None
    jobs, registry,  \* builds, and the last of each path, 0 for none
    client,          \* how far a client's request has come
    failures,
    runs,            \* history: path, frames and marks of each run, and its end
    torn,            \* history: runs a failed write left incomplete
    early            \* history: runs whose path had a store, or a build under
                     \* way, before they ended, or was built over afterwards

traced == <<trace, file>>
indexed == <<store, jobs, registry>>
history == <<runs, torn, early>>
vars == <<traced, indexed, client, failures, history>>

Free == [at |-> "free", path |-> None, run |-> 0, marks |-> 0, job |-> 0]

LastOn(r) == \A q \in DOMAIN runs : q > r => runs[q].path # runs[r].path

Init ==
    /\ trace = None /\ file = [p \in Paths |-> None]
    /\ store = [p \in Paths |-> None]
    /\ jobs = << >> /\ registry = [p \in Paths |-> 0]
    /\ client = [c \in Clients |-> Free] /\ failures = 0
    /\ runs = << >> /\ torn = {} /\ early = {}

-----------------------------------------------------------------------------
(* Building.                                                               *)

Active(p) == registry[p] # 0 /\ jobs[registry[p]].state = "building"

(* Whether a request for a build finds one to join.                        *)
Joins(p) == Active(p)

JobFor(p) == IF Joins(p) THEN registry[p] ELSE Len(jobs) + 1

(* All but a piece of a frame at the end.                                  *)
Wholes(frames) == IF frames # << >> /\ Last(frames)[2] < 0 THEN Front(frames) ELSE frames
Smaller(a, b) == IF a < b THEN a ELSE b

(* start_background_index.                                                 *)
StartIndex(p, marks) ==
    IF Joins(p) THEN UNCHANGED <<jobs, registry>>
    ELSE /\ Len(jobs) < MaxJobs
         /\ jobs' = Append(jobs, [path |-> p, state |-> "building", size |-> 0,
                                  read |-> << >>, split |-> FALSE, marks |-> marks])
         /\ registry' = [registry EXCEPT ![p] = Len(jobs) + 1]

(* A build that has read so much, with a piece of a frame in hand or not.  *)
HasRead(job, size, read, split) ==
    [job EXCEPT !.size = size, !.read = read, !.split = split]

(* The builder opens the file and reads its header; the end of the file is *)
(* where it was then.  A window of it may end inside a frame (split).      *)
BuilderOpens(j) ==
    LET f == file[jobs[j].path] IN
    /\ jobs[j].state = "building" /\ jobs[j].size = 0
    /\ f # None /\ Wholes(f) # << >>
    /\ \E split \in BOOLEAN :
         /\ split => Len(f) > 1
         /\ jobs' = [jobs EXCEPT ![j] = HasRead(@, Len(f), SubSeq(f, 1, 1), split)]
    /\ UNCHANGED <<traced, store, registry, client, failures, history>>

(* It streams the rest, or what there is of it if it was written anew.     *)
BuilderReads(j) ==
    LET f == file[jobs[j].path]
        next == SubSeq(f, Len(jobs[j].read) + 1, Smaller(Len(f), jobs[j].size)) IN
    /\ jobs[j].state = "building" /\ jobs[j].size # 0 /\ next # << >>
    /\ \E split \in BOOLEAN :
         /\ split => Len(f) < jobs[j].size
         /\ jobs' = [jobs EXCEPT ![j] = HasRead(@, @.size, @.read \o next, split)]
    /\ UNCHANGED <<traced, store, registry, client, failures, history>>

Settled(job, state) ==
    [path |-> job.path, state |-> state, size |-> 0, read |-> << >>, split |-> FALSE,
     marks |-> 0]

(* At the end of the file, where a piece of a frame is dropped, the store  *)
(* is renamed into its place.  A file that has become shorter ends where   *)
(* nothing is left over; with half a frame in hand the builder goes round. *)
BuilderPublishes(j) ==
    LET job == jobs[j] IN
    /\ job.state = "building" /\ job.size # 0
    /\ \/ Len(job.read) = job.size
       \/ Len(job.read) >= Len(file[job.path]) /\ ~job.split
    /\ store' = [store EXCEPT ![job.path] =
                    [frames |-> Wholes(job.read), marks |-> job.marks]]
    /\ jobs' = [jobs EXCEPT ![j] = Settled(@, "done")]
    /\ UNCHANGED <<traced, registry, client, failures, history>>

(* No file, no header, a piece of a frame before others, or a file written *)
(* anew in the middle.                                                     *)
Unreadable(j) ==
    LET job == jobs[j] f == file[job.path] IN
    \/ f = None
    \/ job.size = 0 /\ Wholes(f) = << >>
    \/ \E i \in 1 .. Len(job.read) - 1 :
         job.read[i][2] < 0 \/ job.read[i][1] # job.read[i + 1][1]

(* A failed build leaves nothing.                                          *)
BuilderFails(j) ==
    /\ jobs[j].state = "building"
    /\ IF Unreadable(j) THEN UNCHANGED failures
       ELSE failures < MaxFailures /\ failures' = failures + 1
    /\ jobs' = [jobs EXCEPT ![j] = Settled(@, "failed")]
    /\ UNCHANGED <<traced, store, registry, client, history>>

-----------------------------------------------------------------------------
(* Recording.                                                              *)

SpillDueBySize(t, force) == Len(t.buf) >= SpillFrames

SpillDue(t, force) == t.buf # << >> /\ (force \/ Len(t.buf) >= SpillFrames)

(* What a spill appends to: the first one creates the file.                *)
SpilledSoFar(t) == IF t.spilled = 0 THEN << >> ELSE file[t.path]

(* spill: the trace and its file afterwards.  A write that fails may have  *)
(* written nothing, or some frames and a piece of the next.                *)
Kept(t) == [trace |-> t, file |-> file[t.path], failed |-> FALSE, torn |-> FALSE]

WrittenAnew(t) ==
    [trace |-> [t EXCEPT !.spilled = @ + Len(t.buf), !.buf = << >>],
     file |-> t.buf, failed |-> FALSE, torn |-> FALSE]

Written(t) ==
    [trace |-> [t EXCEPT !.spilled = @ + Len(t.buf), !.buf = << >>],
     file |-> SpilledSoFar(t) \o t.buf, failed |-> FALSE, torn |-> FALSE]

Broken(t) ==
    {[Kept(t) EXCEPT !.failed = TRUE]} \union
    {[trace |-> t, file |-> SpilledSoFar(t) \o SubSeq(t.buf, 1, n) \o <<<<t.run, -1>>>>,
      failed |-> TRUE, torn |-> t.spilled # 0] : n \in 0 .. Len(t.buf) - 1}

Spills(t, force) ==
    IF ~SpillDue(t, force) THEN {Kept(t)}
    ELSE {Written(t)} \union (IF failures < MaxFailures THEN Broken(t) ELSE {})

(* What the spill s of run t leaves behind.                                *)
After(t, s) ==
    /\ file' = [file EXCEPT ![t.path] = s.file]
    /\ failures' = IF s.failed THEN failures + 1 ELSE failures

(* run_cycle_budget: the events of a step are appended, the header first.  *)
Pending(t) ==
    LET n == t.spilled + Len(t.buf)
    IN  [t EXCEPT !.buf = @ \o IF n = 0 THEN <<<<t.run, 0>>, <<t.run, 1>>>>
                                        ELSE <<<<t.run, n>>>>]

Record ==
    /\ trace # None /\ trace.spilled + Len(trace.buf) < MaxFrames
    /\ LET t == Pending(trace) IN
       \E s \in Spills(t, FALSE) :
         /\ trace' = s.trace /\ After(t, s)
         /\ runs' = [runs EXCEPT ![t.run].frames = t.spilled + Len(t.buf)]
         /\ torn' = IF s.torn THEN torn \union {t.run} ELSE torn
    /\ UNCHANGED <<indexed, client, early>>

(* trace/run/mark.                                                         *)
Mark ==
    /\ trace # None /\ trace.marks < MaxMarks
    /\ trace' = [trace EXCEPT !.marks = @ + 1]
    /\ runs' = [runs EXCEPT ![trace.run].marks = @ + 1]
    /\ UNCHANGED <<file, indexed, client, failures, torn, early>>

Begin(p) ==
    /\ Len(runs) < MaxRuns
    /\ trace' = [run |-> Len(runs) + 1, path |-> p, buf |-> << >>, spilled |-> 0,
                 marks |-> 0]
    /\ early' = IF store[p] # None \/ Active(p) THEN early \union {Len(runs) + 1}
                                                ELSE early
    /\ UNCHANGED <<file, indexed, client, failures, torn>>

NewRun(p) == [path |-> p, frames |-> 0, marks |-> 0, ended |-> "no"]

(* trace/start_domains, trace/run/start and the monitor's trace on refuse  *)
(* while a trace is active.                                                *)
StartTrace(p) ==
    /\ trace = None /\ Begin(p)
    /\ runs' = Append(runs, NewRun(p))

(* session/create with trace_out does not ask.                             *)
CreateTraced(p) ==
    /\ Begin(p)
    /\ runs' = Append(IF trace = None THEN runs
                      ELSE [runs EXCEPT ![trace.run] = [@ EXCEPT !.ended = "replaced"]],
                      NewRun(p))

MarksForgotten(t) == 0

(* What a stop hands to the build of its index.                            *)
MarksOf(t) == t.marks

(* The header is written with the first frames, or at the end.             *)
Headed(t) ==
    IF t.spilled = 0 /\ t.buf = << >> THEN [t EXCEPT !.buf = <<<<t.run, 0>>>>] ELSE t

(* finalize_trace: what is pending goes into the file.                     *)
Finalize(end) ==
    LET t == Headed(trace)
    IN  \E s \in Spills(t, TRUE) :
          /\ trace' = None /\ After(t, s)
          /\ runs' = [runs EXCEPT ![t.run] =
                         [@ EXCEPT !.ended = end, !.frames = t.spilled + Len(t.buf)]]
          /\ torn' = IF s.failed THEN torn \union {t.run} ELSE torn

(* trace/run/stop, the monitor's trace off, and power-off, which start the *)
(* index under the same lock.                                              *)
Stop ==
    /\ trace # None
    /\ Finalize("stopped")
    /\ StartIndex(trace.path, MarksOf(trace))
    /\ UNCHANGED <<store, client, early>>

(* trace/run/stop with wait_index, which lets go of the lock first.        *)
StopAndWait(c) ==
    /\ trace # None /\ client[c].at = "free" /\ c \in Waiters
    /\ Finalize("waited")
    /\ client' = [client EXCEPT ![c] = [at |-> "ensure", path |-> trace.path,
                      run |-> trace.run, marks |-> MarksOf(trace), job |-> 0]]
    /\ UNCHANGED <<indexed, early>>

-----------------------------------------------------------------------------
(* Reading and waiting, without the State lock.                            *)

Missing(p) == ~Active(p) /\ store[p] = None /\ file[p] # None

(* trace/read and trace/index: a build under way is waited for, a store    *)
(* that is there is trusted.  A reader's wait changes nothing and is       *)
(* bounded: only one that goes on to start a build is kept.                *)
Read(c, p) ==
    /\ client[c].at = "free" /\ Missing(p)
    /\ client' = [client EXCEPT ![c] = [Free EXCEPT !.at = "start", !.path = p]]
    /\ UNCHANGED <<traced, indexed, failures, history>>

(* ensure_inner, for a stop that waits.                                    *)
Ensure(c) ==
    LET p == client[c].path IN
    /\ client[c].at = "ensure"
    /\ client' = [client EXCEPT ![c] = [@ EXCEPT
           !.at = IF Active(p) THEN "wait" ELSE IF Missing(p) THEN "start" ELSE "reply",
           !.job = IF Active(p) THEN registry[p] ELSE 0]]
    /\ UNCHANGED <<traced, indexed, failures, history>>

StartBuild(c) ==
    LET p == client[c].path IN
    /\ client[c].at = "start"
    /\ StartIndex(p, client[c].marks)
    /\ client' = [client EXCEPT ![c] = IF @.run = 0 THEN Free
                                     ELSE [@ EXCEPT !.at = "wait", !.job = JobFor(p)]]
    /\ early' = early \union
                 {r \in DOMAIN runs : /\ runs[r].path = p /\ LastOn(r)
                                      /\ runs[r].ended = "no" \/ store[p] # None}
    /\ UNCHANGED <<traced, store, failures, runs, torn>>

Waited(c) ==
    /\ client[c].at = "wait" /\ jobs[client[c].job].state # "building"
    /\ client' = [client EXCEPT ![c] = [@ EXCEPT !.at = "reply", !.job = 0]]
    /\ UNCHANGED <<traced, indexed, failures, history>>

Reply(c) ==
    /\ client[c].at = "reply"
    /\ client' = [client EXCEPT ![c] = Free]
    /\ UNCHANGED <<traced, indexed, failures, history>>

-----------------------------------------------------------------------------
Build(j) == BuilderOpens(j) \/ BuilderReads(j) \/ BuilderPublishes(j) \/ BuilderFails(j)
Serve(c) == Ensure(c) \/ StartBuild(c) \/ Waited(c) \/ Reply(c)

Next ==
    \/ \E p \in Paths : StartTrace(p) \/ CreateTraced(p)
    \/ Record \/ Mark \/ Stop
    \/ \E j \in DOMAIN jobs : Build(j)
    \/ \E c \in Clients : StopAndWait(c) \/ Serve(c)
    \/ \E c \in Clients, p \in Paths : Read(c, p)

Spec == Init /\ [][Next]_vars
Fairness ==
    /\ \A j \in 1 .. MaxJobs : WF_vars(j \in DOMAIN jobs /\ Build(j))
    /\ \A c \in Clients : WF_vars(Serve(c))
FairSpec == Spec /\ Fairness

-----------------------------------------------------------------------------
Frames(r) == [i \in 1 .. runs[r].frames |-> <<r, i - 1>>]

(* What a run has recorded is in its file and its buffer, once and in      *)
(* order, and in the file alone once it has ended; even where writes fail  *)
(* (TraceState::spill), unless one left a part of what it was appending.   *)
RunIsInFile ==
    \A r \in DOMAIN runs \ torn :
      LastOn(r) /\ runs[r].ended # "replaced" =>
        Frames(r) = IF trace # None /\ trace.run = r
                    THEN SpilledSoFar(trace) \o trace.buf
                    ELSE file[runs[r].path]

Whole(r) == store[runs[r].path] = [frames |-> Frames(r), marks |-> runs[r].marks]

(* A stopped trace can be queried in the end, all of it and with its marks *)
(* (finalize_trace), unless somebody had its path indexed before it ended, *)
(* or the build fails.                                                     *)
Awaited(r) ==
    /\ r \in DOMAIN runs \ (torn \union early)
    /\ runs[r].ended = "stopped" /\ LastOn(r) /\ ~Whole(r)
    /\ \A j \in DOMAIN jobs : jobs[j].state # "failed"
StoppedTraceIsIndexed == \A r \in 1 .. MaxRuns : Awaited(r) ~> ~Awaited(r)

(* A stop that waited for the index answers when the store has all of the  *)
(* run (trace/run/stop), unless its path was indexed before it ended.      *)
Answers(c, r) ==
    /\ client[c].at = "reply" /\ client[c].run = r /\ LastOn(r) /\ r \notin torn
    /\ store[runs[r].path] # None /\ client'[c].at = "free"
WaitedIndexIsWhole ==
    [][\A c \in Clients, r \in DOMAIN runs \ early :
          Answers(c, r) => store[runs[r].path].frames = Frames(r)]_vars

-----------------------------------------------------------------------------
(* What the properties rest on.                                            *)
Job == [path : Paths, state : {"building", "done", "failed"}, size : Nat,
        read : Seq(Frame), split : BOOLEAN, marks : Nat]
Run == [path : Paths, frames : Nat, marks : Nat,
        ended : {"no", "stopped", "waited", "replaced"}]
Store == [frames : Seq(Frame), marks : Nat]
Request == [at : {"free", "ensure", "start", "wait", "reply"},
            path : Paths \union {None}, run : Nat, marks : Nat, job : Nat]

TypeOK ==
    /\ trace \in Recording \union {None}
    /\ file \in [Paths -> Seq(Frame) \union {None}]
    /\ store \in [Paths -> Store \union {None}]
    /\ jobs \in Seq(Job)
    /\ registry \in [Paths -> 0 .. Len(jobs)]
    /\ client \in [Clients -> Request]
    /\ failures \in Nat
    /\ runs \in Seq(Run)
    /\ torn \subseteq DOMAIN runs /\ early \subseteq DOMAIN runs

(* The trace under way is the last run, and the only one that has not      *)
(* ended; it counts what it has recorded.                                  *)
LastRunRecords ==
    /\ trace # None =>
          /\ runs # << >> /\ trace.run = Len(runs) /\ trace.path = runs[trace.run].path
          /\ runs[trace.run].frames = trace.spilled + Len(trace.buf)
          /\ trace.spilled # 0 => file[trace.path] # None
    /\ \A r \in DOMAIN runs : runs[r].ended = "no" <=> trace # None /\ trace.run = r

(* A build under way is its path's registered one, of a file that is       *)
(* there, and a request that stands for a run is that of a stop that waits *)
(* for its index.                                                          *)
RequestsKnown ==
    /\ \A j \in DOMAIN jobs :
          /\ jobs[j].state = "building" => registry[jobs[j].path] = j
          /\ jobs[j].size # 0 => file[jobs[j].path] # None
    /\ \A c \in Clients :
          /\ client[c].at \in {"ensure", "start"} => client[c].path # None
          /\ client[c].run # 0 =>
                client[c].run \in DOMAIN runs /\ runs[client[c].run].ended = "waited"

(* Nobody has begun an index of a run that still records; once it has      *)
(* ended, whoever builds one takes in the whole of its file.               *)
TakesInFile(job) ==
    /\ job.size = Len(file[job.path]) /\ Len(job.read) <= job.size
    /\ job.read = SubSeq(file[job.path], 1, Len(job.read))
IndexFollowsRun(r) ==
    /\ runs[r].ended = "no" => store[runs[r].path] = None /\ ~Active(runs[r].path)
    /\ runs[r].ended \in {"stopped", "waited"} /\ r \notin torn =>
          /\ store[runs[r].path] # None => store[runs[r].path].frames = Frames(r)
          /\ \A j \in DOMAIN jobs :
                jobs[j].path = runs[r].path /\ jobs[j].state = "building" /\ jobs[j].size # 0
                    => TakesInFile(jobs[j])
IndexFollowsFile == \A r \in DOMAIN runs \ early : LastOn(r) => IndexFollowsRun(r)

IInv == TypeOK /\ LastRunRecords /\ RequestsKnown /\ RunIsInFile /\ IndexFollowsFile

-----------------------------------------------------------------------------
(* What comments say of it, and the code does not do.                      *)

(* "BUILD the .duckdb index now ... so the finalized trace is immediately  *)
(* queryable" (trace/run/stop).                                            *)
EveryWaitedIndexIsWhole ==
    [][\A c \in Clients, r \in DOMAIN runs :
          Answers(c, r) => store[runs[r].path].frames = Frames(r)]_vars

(* "starting a trace while one is already active must THROW, not silently  *)
(* clobber the live capture" (trace/start_domains).                        *)
NothingClobbered == \A r \in DOMAIN runs : runs[r].ended # "replaced"

(* "On an error the frames stay pending" (TraceState::spill).              *)
FileHoldsNoMore ==
    trace # None /\ trace.spilled # 0 => Len(file[trace.path]) = trace.spilled

(* A finalize hands its marks "to WHICHEVER index path runs"               *)
(* (op_index_with).                                                        *)
WaitedMarksArrive ==
    [][\A c \in Clients, r \in DOMAIN runs \ early :
          Answers(c, r) => store[runs[r].path].marks = runs[r].marks]_vars

(* "mirroring the retired TS stop() which ALWAYS indexed".                 *)
AwaitedAtAll(r) ==
    /\ r \in DOMAIN runs \ torn
    /\ runs[r].ended = "stopped" /\ LastOn(r) /\ ~Whole(r)
    /\ \A j \in DOMAIN jobs : jobs[j].state # "failed"
EveryStoppedTraceIsIndexed == \A r \in 1 .. MaxRuns : AwaitedAtAll(r) ~> ~AwaitedAtAll(r)

(* "Waiting for the build however long it takes" (ensure_index).           *)
Unsettled(j) == j \in DOMAIN jobs /\ jobs[j].state = "building"
EveryBuildSettles == \A j \in 1 .. MaxJobs : Unsettled(j) ~> ~Unsettled(j)

(* A store that has all of its run keeps it.                               *)
IndexStays ==
    [][\A r \in DOMAIN runs \ torn : LastOn(r) /\ runs[r].ended \in {"stopped", "waited"}
          /\ Whole(r) => Whole(r)' \/ ~LastOn(r)']_vars
=============================================================================
