----------------------------- MODULE DaemonExit ------------------------------
(***************************************************************************)
(* How the daemon ends (trx64-daemon/src/idle.rs, main.rs): the idle clock *)
(* of --idle-exit, which requests and keep_alive push out and a watch      *)
(* polls once a second; the three doors to the exit work (a shutdown       *)
(* request, a signal, the idle watch); and the end of the process, which   *)
(* for a request comes after its reply has gone out.                       *)
(*                                                                         *)
(* The clock's instants are kept as the seconds since the last activity    *)
(* and the seconds a keep_alive still has to run.  The exit work is done   *)
(* under the State lock, so it is one step after the wait for its guard;   *)
(* what it saves is DiskPersist's and CartPersist's, here one flag.  What  *)
(* sets the machine going is a client, or the loop's idle release, which   *)
(* knows who drives by the stamp of the agent that does (BoundedRun has    *)
(* both in full; here any stop of a run may be that of its cap).  The      *)
(* daemon has started; an embedded host, which never ends, is not here.    *)
(* A definition named for a slip is the one after it with that slip.       *)
(***************************************************************************)
EXTENDS Integers

CONSTANTS
    Clients,
    Watch, Signal,    \* the idle watch and the signal watch
    NoOne,
    Armed,            \* --idle-exit was given
    Window,           \* its seconds
    Keeps,            \* the seconds a keep_alive may ask for
    AgentWindow,      \* the seconds after which an agent counts as gone
    MaxRequests       \* bound: client requests

ASSUME ExitAssumption == /\ {Watch, Signal, NoOne} \cap Clients = {}
                         /\ Watch # Signal /\ NoOne \notin {Watch, Signal} \union Nat
                         /\ Armed \in BOOLEAN
                         /\ Window \in Nat \ {0} /\ Keeps \subseteq Nat
                         /\ AgentWindow \in Nat \ {0}
                         /\ MaxRequests \in Nat

Doors == Clients \union {Watch, Signal}

VARIABLES
    up,                            \* the process lives
    idle_for, kept_for, kept_forever, holding,      \* IdleClock
    watch, found,                  \* the idle watch's round and what it saw
    client, av, writer,            \* a connection, its subscription, its
                                   \* writer task
    guard, done,                   \* SHUTDOWN_WORK: who holds it, the result
    exit,                          \* how far each door has come
    running, tracing, unsaved,     \* the session
    capped,                        \* its last stop was a run's cap ("budget")
    agent,                         \* the seconds since the agent that drives
                                   \* was heard of, or NoOne: a human drives
    requests,
    quiet_for,                     \* history: seconds since a request
    promised,                      \* history: seconds of the last keep_alive
                                   \* left, or NoOne for ever
    unseen,                        \* history: who came to watch, or Watch for
                                   \* a trace, since the round looked
    again                          \* history: who has set the machine going
                                   \* after the exit work, client or loop

clock == <<idle_for, kept_for, kept_forever, holding>>
round == <<watch, found>>
connections == <<client, av, writer>>
shutdown == <<guard, done, exit>>
release == <<capped, agent>>
session == <<running, tracing, unsaved, release>>
history == <<quiet_for, promised, unseen, again>>
vars == <<up, clock, round, connections, shutdown, session, requests, history>>

Init ==
    /\ up = TRUE
    /\ idle_for = 0 /\ kept_for = 0 /\ kept_forever = FALSE
    /\ holding = FALSE
    /\ watch = "sleeping" /\ found = FALSE
    /\ client = [c \in Clients |-> "off"]
    /\ av = [c \in Clients |-> FALSE] /\ writer = [c \in Clients |-> FALSE]
    /\ guard = NoOne /\ done = FALSE /\ exit = [d \in Doors |-> "no"]
    /\ running = TRUE /\ tracing = FALSE /\ unsaved = FALSE
    /\ capped = FALSE /\ agent = NoOne
    /\ requests = 0
    /\ quiet_for = 0 /\ promised = 0 /\ unseen = {} /\ again = {}

Least(a, b) == IF a < b THEN a ELSE b
Less(n) == IF n > 0 THEN n - 1 ELSE 0

(* A second passes; the watch's interval fires, unless a round is still on. *)
Tick ==
    /\ up
    /\ idle_for' = Least(idle_for + 1, Window)
    /\ kept_for' = Less(kept_for)
    /\ watch' = IF Armed /\ watch = "sleeping" THEN "looking" ELSE watch
    /\ quiet_for' = Least(quiet_for + 1, Window)
    /\ promised' = IF promised = NoOne THEN NoOne ELSE Less(promised)
    /\ agent' = IF agent = NoOne THEN NoOne ELSE Least(agent + 1, AgentWindow)
    /\ UNCHANGED <<up, kept_forever, holding, found, connections, shutdown,
                   running, tracing, unsaved, capped, requests, unseen, again>>

-----------------------------------------------------------------------------
(* Connections.                                                            *)

Connect(c) ==
    /\ up /\ client[c] = "off"
    /\ client' = [client EXCEPT ![c] = "on"]
    /\ \E picture \in BOOLEAN : av' = [av EXCEPT ![c] = picture]
    /\ writer' = [writer EXCEPT ![c] = TRUE]
    /\ unseen' = IF av'[c] THEN unseen \union {c} ELSE unseen
    /\ UNCHANGED <<up, clock, round, shutdown, session, requests, quiet_for,
                   promised, again>>

(* The peer goes: the writer task fails to send and ends.                  *)
PeerGone(c) ==
    /\ up /\ client[c] # "off" /\ writer[c]
    /\ writer' = [writer EXCEPT ![c] = FALSE]
    /\ UNCHANGED <<up, clock, round, client, av, shutdown, session, requests,
                   history>>

Closed(c) == /\ client' = [client EXCEPT ![c] = "off"]
             /\ av' = [av EXCEPT ![c] = FALSE]
             /\ writer' = [writer EXCEPT ![c] = FALSE]
             /\ unseen' = unseen \ {c}

Disconnect(c) ==
    /\ up /\ client[c] = "on"
    /\ Closed(c)
    /\ UNCHANGED <<up, clock, round, shutdown, session, requests, quiet_for,
                   promised, again>>

(* dispatch: every request is activity.                                    *)
Touch == idle_for' = 0

Request(c) ==
    /\ up /\ client[c] = "on" /\ writer[c]
    /\ requests < MaxRequests /\ requests' = requests + 1
    /\ Touch
    /\ quiet_for' = 0
    /\ UNCHANGED <<up, holding, round, av, writer, guard, done>>

(* note_operating_owner_for, by the request's method and its source: one   *)
(* that does not operate the machine, an agent's, a human's.               *)
Driven == {agent, 0, NoOne}

Plain(c) ==
    /\ Request(c)
    /\ agent' \in Driven
    /\ UNCHANGED <<kept_for, kept_forever, client, exit, running, tracing,
                   unsaved, capped, promised, unseen, again>>

KeepAlive(c) ==
    /\ Request(c)
    /\ \/ \E s \in Keeps : /\ kept_for' = s /\ kept_forever' = FALSE
                           /\ promised' = s
       \/ kept_for' = 0 /\ kept_forever' = TRUE /\ promised' = NoOne
    /\ UNCHANGED <<client, exit, session, unseen, again>>

(* What the exit work has stopped moves again.                             *)
Moves(who) == again' = IF done THEN again \union {who} ELSE again

(* debug/run and the like: with wait the connection's task stays in the    *)
(* request until the run stops.                                            *)
RunMachine(c) ==
    /\ Request(c)
    /\ running' = TRUE /\ capped' = FALSE /\ agent' \in Driven
    /\ \E wait \in BOOLEAN :
           client' = IF wait THEN [client EXCEPT ![c] = "parked"] ELSE client
    /\ Moves("client")
    /\ UNCHANGED <<kept_for, kept_forever, exit, tracing, unsaved, promised,
                   unseen>>

(* debug/step, run_inline: the machine advances inside the request, and    *)
(* goes on after it only if it was running.                                *)
StepMachine(c) ==
    /\ Request(c)
    /\ unsaved' \in {unsaved, TRUE}
    /\ \/ UNCHANGED <<running, capped>>
       \/ running' = FALSE /\ capped' \in BOOLEAN
    /\ agent' \in Driven
    /\ Moves("client")
    /\ UNCHANGED <<kept_for, kept_forever, client, exit, tracing, promised,
                   unseen>>

Unpark(c) ==
    /\ up /\ client[c] = "parked" /\ ~running
    /\ client' = [client EXCEPT ![c] = "on"]
    /\ UNCHANGED <<up, clock, round, av, writer, shutdown, session, requests,
                   history>>

TraceRun(c) ==
    /\ Request(c)
    /\ tracing' = ~tracing
    /\ unseen' = IF tracing' THEN unseen \union {Watch} ELSE unseen \ {Watch}
    /\ UNCHANGED <<kept_for, kept_forever, client, exit, running, unsaved,
                   release, promised, again>>

AskShutdown(c) ==
    /\ Request(c)
    /\ client' = [client EXCEPT ![c] = "shutting"]
    /\ exit' = [exit EXCEPT ![c] = "wants"]
    /\ UNCHANGED <<kept_for, kept_forever, session, promised, unseen, again>>

(* The run loop: the machine writes to a medium, the medium is saved, a    *)
(* stop, perhaps its cap's, ends the run.                                  *)
Machine == up /\ UNCHANGED <<up, clock, round, connections, shutdown, tracing,
                             requests, quiet_for, promised, unseen>>
WritesMedium == Machine /\ running /\ unsaved' = TRUE
                        /\ UNCHANGED <<running, capped, agent, again>>
AutoPersist == Machine /\ unsaved /\ unsaved' = FALSE
                       /\ UNCHANGED <<running, capped, agent, again>>
StopsRunning ==
    /\ Machine /\ running /\ running' = FALSE
    /\ capped' \in BOOLEAN
    /\ agent' = IF capped' /\ agent # NoOne THEN 0 ELSE agent
    /\ UNCHANGED <<unsaved, again>>

(* The viewers the hub knows: whose channel is open.                       *)
Subscribers == {c \in Clients : client[c] # "off" /\ av[c] /\ writer[c]}

(* release_idle_control_owner: the agent has gone, and a machine its cap   *)
(* has stopped is set going for who watches.  The viewers were counted     *)
(* before the lock was taken: one gone since is as one who goes right      *)
(* after.                                                                  *)
Releases ==
    /\ Machine /\ agent # NoOne /\ agent >= AgentWindow
    /\ agent' = NoOne
    /\ IF Subscribers # {} /\ ~running /\ capped
       THEN running' = TRUE /\ capped' = FALSE /\ Moves("loop")
       ELSE UNCHANGED <<running, capped, again>>
    /\ UNCHANGED unsaved

-----------------------------------------------------------------------------
(* The idle watch's round.                                                 *)

(* Under the State lock, which is given back before the hub is asked.      *)
LooksForTrace ==
    /\ up /\ watch = "looking"
    /\ found' = tracing
    /\ watch' = IF tracing THEN "holding" ELSE "counting"
    /\ unseen' = {}
    /\ UNCHANGED <<up, clock, connections, shutdown, session, requests,
                   quiet_for, promised, again>>

LooksForSubscribers ==
    /\ up /\ watch = "counting"
    /\ found' = (Subscribers # {})
    /\ watch' = "holding"
    /\ unseen' = unseen \ Clients
    /\ UNCHANGED <<up, clock, connections, shutdown, session, requests,
                   quiet_for, promised, again>>

(* Slip: every round counts as activity.                                   *)
RestartAlways == holding' = found /\ idle_for' = 0
Hold == holding' = found /\ idle_for' = IF found THEN 0 ELSE idle_for

HoldsClock ==
    /\ up /\ watch = "holding"
    /\ Hold
    /\ watch' = "deciding"
    /\ UNCHANGED <<up, kept_for, kept_forever, found, connections, shutdown,
                   session, requests, history>>

(* Slip: a keep_alive for ever is forgotten by the deadline.               *)
ExpiredOfNumbers == ~holding /\ idle_for >= Window /\ kept_for = 0
Expired ==
    /\ ~kept_forever /\ ~holding
    /\ idle_for >= Window /\ kept_for = 0

Decides ==
    /\ up /\ watch = "deciding"
    /\ IF Expired
       THEN watch' = "leaving" /\ exit' = [exit EXCEPT ![Watch] = "wants"]
       ELSE watch' = "sleeping" /\ UNCHANGED exit
    /\ UNCHANGED <<up, clock, found, connections, guard, done, session,
                   requests, history>>

WatchStep == LooksForTrace \/ LooksForSubscribers \/ HoldsClock \/ Decides

-----------------------------------------------------------------------------
(* The exit.                                                               *)

SignalArrives ==
    /\ up /\ exit[Signal] = "no"
    /\ exit' = [exit EXCEPT ![Signal] = "wants"]
    /\ UNCHANGED <<up, clock, round, connections, guard, done, session,
                   requests, history>>

(* Slip: whoever finds the work under way takes it for done.               *)
TryGuard(d) ==
    /\ up /\ exit[d] = "wants"
    /\ IF done \/ guard # NoOne
       THEN exit' = [exit EXCEPT ![d] = "late"] /\ UNCHANGED guard
       ELSE exit' = [exit EXCEPT ![d] = "working"] /\ guard' = d
    /\ UNCHANGED <<up, clock, round, connections, done, session, requests,
                   history>>

(* shutdown_now up to the look at what is done.                            *)
TakeGuard(d) ==
    /\ up /\ exit[d] = "wants" /\ guard = NoOne
    /\ IF done
       THEN exit' = [exit EXCEPT ![d] = "late"] /\ UNCHANGED guard
       ELSE exit' = [exit EXCEPT ![d] = "working"] /\ guard' = d
    /\ UNCHANGED <<up, clock, round, connections, done, session, requests,
                   history>>

Save == running' = FALSE /\ tracing' = FALSE /\ unsaved' = FALSE

ExitWork(d) ==
    /\ up /\ exit[d] = "working"
    /\ Save
    /\ done' = TRUE /\ guard' = NoOne
    /\ exit' = [exit EXCEPT ![d] = "worked"]
    /\ unseen' = unseen \ {Watch}
    /\ UNCHANGED <<up, clock, round, connections, release, requests, quiet_for,
                   promised, again>>

EndProcess == /\ up' = FALSE
              /\ UNCHANGED <<clock, round, connections, shutdown, session,
                             requests, history>>

(* exit_after_work: the first ends the process, a later one gives the      *)
(* first three seconds and then does.                                      *)
EndsItself(d) == up /\ d \in {Watch, Signal}
                 /\ exit[d] \in {"worked", "late"} /\ EndProcess

(* The reply is queued, flushed for at most two seconds, and the process   *)
(* ends ...                                                                *)
RepliesAndEnds(c) ==
    /\ up /\ client[c] = "shutting" /\ exit[c] \in {"worked", "late"}
    /\ writer[c]
    /\ EndProcess

(* ... unless the channel is closed: the connection ends, the process not. *)
ReplyFails(c) ==
    /\ up /\ client[c] = "shutting" /\ exit[c] \in {"worked", "late"}
    /\ ~writer[c]
    /\ Closed(c)
    /\ exit' = [exit EXCEPT ![c] = "no"]
    /\ UNCHANGED <<up, clock, round, guard, done, session, requests, quiet_for,
                   promised, again>>

ExitStep(d) == TakeGuard(d) \/ ExitWork(d) \/ EndsItself(d)
ShutdownStep(c) == RepliesAndEnds(c) \/ ReplyFails(c)

(* A process that is gone takes no step.                                   *)
Gone == ~up /\ UNCHANGED vars

Next ==
    \/ Tick
    \/ \E c \in Clients :
           \/ Connect(c) \/ PeerGone(c) \/ Disconnect(c)
           \/ Plain(c) \/ KeepAlive(c) \/ RunMachine(c)
           \/ StepMachine(c) \/ Unpark(c) \/ TraceRun(c) \/ AskShutdown(c) \/ ShutdownStep(c)
    \/ WritesMedium \/ AutoPersist \/ StopsRunning \/ Releases
    \/ WatchStep
    \/ SignalArrives
    \/ \E d \in Doors : ExitStep(d)
    \/ Gone

Spec == Init /\ [][Next]_vars

(* Time passes, the watch goes its rounds, and whoever is on the way out   *)
(* goes on.  Nothing makes a client, a signal or the machine do anything.  *)
FairSpec ==
    /\ Spec
    /\ WF_vars(Tick) /\ WF_vars(WatchStep)
    /\ WF_vars(\E d \in Doors : ExitStep(d))
    /\ \A c \in Clients : WF_vars(ShutdownStep(c))

-----------------------------------------------------------------------------
TypeOK ==
    /\ up \in BOOLEAN
    /\ idle_for \in 0 .. Window /\ kept_for \in Nat
    /\ kept_forever \in BOOLEAN /\ holding \in BOOLEAN
    /\ watch \in {"sleeping", "looking", "counting", "holding", "deciding",
                  "leaving"}
    /\ found \in BOOLEAN
    /\ client \in [Clients -> {"off", "on", "parked", "shutting"}]
    /\ av \in [Clients -> BOOLEAN] /\ writer \in [Clients -> BOOLEAN]
    /\ guard \in Doors \union {NoOne} /\ done \in BOOLEAN
    /\ exit \in [Doors -> {"no", "wants", "working", "worked", "late"}]
    /\ running \in BOOLEAN /\ tracing \in BOOLEAN /\ unsaved \in BOOLEAN
    /\ requests \in 0 .. MaxRequests
    /\ quiet_for \in 0 .. Window /\ promised \in Nat \union {NoOne}
    /\ unseen \subseteq Clients \union {Watch} /\ again \subseteq {"client", "loop"}
    /\ capped \in BOOLEAN /\ agent \in (0 .. AgentWindow) \union {NoOne}

(* Whichever door ends the process, the exit work is behind it: a later    *)
(* caller neither repeats it nor leaves while it goes on (main.rs:13884).  *)
ExitAfterWork ==
    /\ ~up => done /\ \A d \in Doors : exit[d] # "working"
    /\ done => \A d \in Doors : exit[d] # "working"

(* No write is lost at the end, unless the machine was set going again     *)
(* after the exit work: by a client that ran or stepped it, or, for who    *)
(* watches, by the loop's idle release (main.rs:13902, 15761).             *)
NothingLostByExit == ~up /\ unsaved => again # {}

(* The process ends on finished work and loses nothing (shutdown_now).     *)
ExitIsClean == ExitAfterWork /\ NothingLostByExit

(* The same without the exception.                                         *)
ExitKeepsAll == ~up => ~unsaved

(* "stop the autonomous run" (main.rs:13885): what no client asks for does *)
(* not run after the exit work.                                            *)
WorkStopsTheRun == done /\ "client" \notin again => ~running

(* When the watch decides to leave, no request came for the whole window,  *)
(* the last keep_alive has run out, and whoever is watching or tracing     *)
(* came after this round looked (idle.rs:3, main.rs:19250).                *)
IdleExitIsJust ==
    [][ exit[Watch] = "no" /\ exit'[Watch] = "wants" =>
            /\ quiet_for = Window /\ promised = 0
            /\ Subscribers \subseteq unseen
            /\ tracing => Watch \in unseen ]_vars

(* The idle exit interrupts no request.                                    *)
IdleExitCutsNobody ==
    [][ exit[Watch] = "no" /\ exit'[Watch] = "wants" =>
            \A c \in Clients : client[c] \in {"off", "on"} ]_vars

(* A daemon nobody uses any more ends (idle.rs:3).                         *)
Unused == Subscribers = {} /\ ~tracing /\ ~kept_forever
IdleDaemonEnds == Armed => ((<>[]Unused) => <>~up)

(* Once the exit work is done the process ends (main.rs:18608).            *)
WorkEndsProcess == done ~> ~up
=============================================================================
