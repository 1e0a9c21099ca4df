----------------------------- MODULE StreamHubs ------------------------------
(***************************************************************************)
(* The threads around the daemon's State lock (trx64-daemon/src/           *)
(* streaming.rs, main.rs): the run loop that owns the audio engine while   *)
(* somebody watches and pushes each presented frame, the A/V hub with its  *)
(* own lock, the connections that subscribe and leave, and the requests    *)
(* that pause, move, rebuild and switch the machine meanwhile.             *)
(*                                                                         *)
(* A lock is the thread that holds it.  What is done under one lock alone  *)
(* is one step; subscribe, which takes the second while it holds the       *)
(* first, and an iteration of the loop are several.  The notification hub  *)
(* has a lock of its own that is only ever taken last and given back at    *)
(* once, and is left out.  A picture is the master clock it was presented  *)
(* at and whether it was redrawn without the clock (a restore to the same  *)
(* cycle, a write); the clock runs round the positions 1 .. LastClk.       *)
(* A definition named for a slip is the one after it with that slip.       *)
(***************************************************************************)
EXTENDS Integers, FiniteSets

CONSTANTS
    Clients,       \* the connections that want the picture
    Models,        \* the machine models
    Loop,          \* the run loop's thread
    NoOne,
    LastClk,       \* bound: clock positions
    MaxRebuilds    \* bound: times machine_generation moves

Picture == [clk : 0 .. LastClk, redrawn : BOOLEAN]

ASSUME ThreadAssumption == /\ IsFiniteSet(Clients) /\ Loop \notin Clients
                           /\ NoOne \notin Clients \union {Loop}
                           /\ Models # {} /\ NoOne \notin Models \union Picture
                           /\ LastClk \in Nat \ {0} /\ MaxRebuilds \in Nat

VARIABLES
    hub_lock, state_lock,      \* who holds them
    subscribers,               \* HubInner.subscribers
    connection,                \* where each connection's task stands
    open,                      \* its outbound channel takes messages
    left,                      \* the count unsubscribe has still to store
    powered, running, picture, model,   \* the machine
    hooked,                    \* it reports its SID writes to the loop
    machine_generation,
    announced_model,
    force_present_frame,
    av_subscribers,
    at, live, av, generation, last_present_clk, frame,       \* the run loop
    shown, told,               \* a client's last frame and last av/hello
    missed                     \* history: clients greeted amid a switch, or
                               \* between whose two subscriptions an
                               \* av/hello went out

locks == <<hub_lock, state_lock>>
hub == <<subscribers, connection, open, left>>
machine == <<powered, running, picture, model, hooked, machine_generation>>
state == <<announced_model, force_present_frame, av_subscribers>>
loop == <<at, live, av, generation, last_present_clk, frame>>
clients == <<shown, told, missed>>
vars == <<locks, hub, machine, state, loop, clients>>

Somewhere == [clk : 1 .. LastClk, redrawn : BOOLEAN]
Reset == [clk |-> 0, redrawn |-> FALSE]

Init ==
    /\ hub_lock = NoOne /\ state_lock = NoOne
    /\ subscribers = {}
    /\ connection = [c \in Clients |-> "off"]
    /\ open = [c \in Clients |-> FALSE]
    /\ left = [c \in Clients |-> 0]
    /\ powered = TRUE /\ running = TRUE /\ picture = Reset /\ model \in Models
    /\ hooked = FALSE /\ machine_generation = 0
    /\ announced_model = model
    /\ force_present_frame = FALSE /\ av_subscribers = 0
    /\ at = "top" /\ live = 0 /\ av = FALSE /\ generation = 0
    /\ last_present_clk = 0 /\ frame = NoOne
    /\ shown = [c \in Clients |-> NoOne]
    /\ told = [c \in Clients |-> NoOne]
    /\ missed = {}

-----------------------------------------------------------------------------
(* A connection: StreamHub::subscribe, then NotifyHub::subscribe; at the   *)
(* end StreamHub::unsubscribe.                                             *)

Connect(c) ==
    /\ connection[c] = "off"
    /\ connection' = [connection EXCEPT ![c] = "entering"]
    /\ open' = [open EXCEPT ![c] = TRUE]
    /\ UNCHANGED <<locks, subscribers, left, machine, state, loop, clients>>

SubscribeTakesHub(c) ==
    /\ connection[c] = "entering" /\ hub_lock = NoOne
    /\ hub_lock' = c
    /\ connection' = [connection EXCEPT ![c] = "greeting"]
    /\ UNCHANGED <<state_lock, subscribers, open, left, machine, state, loop,
                   clients>>

GreetedAmidSwitch(c) ==
    missed' = IF model = announced_model THEN missed ELSE missed \union {c}

(* Slip: the hub's lock is given back before the client is in its list.    *)
GreetOutsideHub(c) ==
    /\ connection[c] = "greeting" /\ state_lock = NoOne
    /\ told' = [told EXCEPT ![c] = model]
    /\ force_present_frame' = TRUE
    /\ av_subscribers' = Cardinality(subscribers) + 1
    /\ connection' = [connection EXCEPT ![c] = "greeted"]
    /\ hub_lock' = NoOne
    /\ GreetedAmidSwitch(c)
    /\ UNCHANGED <<state_lock, subscribers, open, left, machine,
                   announced_model, loop, shown>>

Greet(c) ==
    /\ connection[c] = "greeting" /\ state_lock = NoOne
    /\ told' = [told EXCEPT ![c] = model]
    /\ force_present_frame' = TRUE
    /\ av_subscribers' = Cardinality(subscribers) + 1
    /\ connection' = [connection EXCEPT ![c] = "greeted"]
    /\ GreetedAmidSwitch(c)
    /\ UNCHANGED <<locks, subscribers, open, left, machine, announced_model,
                   loop, shown>>

Subscribed(c) ==
    /\ connection[c] = "greeted"
    /\ subscribers' = subscribers \union {c}
    /\ hub_lock' = NoOne
    /\ connection' = [connection EXCEPT ![c] = "subscribed"]
    /\ UNCHANGED <<state_lock, open, left, machine, state, loop, clients>>

(* The notification hub is read out of the State, then subscribed to.      *)
Register(c) ==
    /\ connection[c] = "subscribed" /\ state_lock = NoOne
    /\ connection' = [connection EXCEPT ![c] = "on"]
    /\ UNCHANGED <<locks, subscribers, open, left, machine, state, loop,
                   clients>>

(* The writer task ends: the peer is gone.                                 *)
ChannelCloses(c) ==
    /\ connection[c] \in {"subscribed", "on"} /\ open[c]
    /\ open' = [open EXCEPT ![c] = FALSE]
    /\ UNCHANGED <<locks, subscribers, connection, left, machine, state, loop,
                   clients>>

UnsubscribeTakesHub(c) ==
    /\ connection[c] = "on" /\ hub_lock = NoOne
    /\ subscribers' = subscribers \ {c}
    /\ left' = [left EXCEPT ![c] = Cardinality(subscribers')]
    /\ connection' = [connection EXCEPT ![c] = "leaving"]
    /\ UNCHANGED <<locks, open, machine, state, loop, clients>>

UnsubscribeTellsState(c) ==
    /\ connection[c] = "leaving" /\ state_lock = NoOne
    /\ av_subscribers' = left[c]
    /\ connection' = [connection EXCEPT ![c] = "off"]
    /\ open' = [open EXCEPT ![c] = FALSE]
    /\ left' = [left EXCEPT ![c] = 0]
    /\ shown' = [shown EXCEPT ![c] = NoOne]
    /\ told' = [told EXCEPT ![c] = NoOne]
    /\ missed' = missed \ {c}
    /\ UNCHANGED <<locks, subscribers, machine, announced_model,
                   force_present_frame, loop>>

-----------------------------------------------------------------------------
(* Requests, each under the State lock.                                    *)

(* NotifyHub::broadcast of the av/hello.                                   *)
Registered == {c \in Clients : connection[c] \in {"on", "leaving"}}

Announce ==
    /\ announced_model' = model
    /\ IF announced_model = model
       THEN UNCHANGED <<told, missed>>
       ELSE /\ told' = [c \in Clients |-> IF c \in Registered /\ open[c]
                                          THEN model ELSE told[c]]
            /\ missed' = (missed \ Registered) \union
                   {c \in Clients : connection[c] \in {"greeted", "subscribed"}
                                    /\ told[c] # model}

(* Every dispatch ends with it; the request's own work was another hold of *)
(* the lock.                                                               *)
SyncModelIdentity ==
    /\ state_lock = NoOne /\ announced_model # model
    /\ Announce
    /\ UNCHANGED <<locks, hub, machine, force_present_frame, av_subscribers,
                   loop, shown>>

(* A machine that is off is left alone until it is powered on.             *)
Request == /\ state_lock = NoOne
           /\ UNCHANGED <<locks, hub, announced_model, av_subscribers, loop,
                          clients>>

Pause == /\ Request /\ UNCHANGED powered
         /\ running /\ running' = FALSE
         /\ UNCHANGED <<picture, model, hooked, machine_generation,
                        force_present_frame>>

Run == /\ Request /\ UNCHANGED powered
       /\ powered /\ ~running /\ running' = TRUE
       /\ UNCHANGED <<picture, model, hooked, machine_generation,
                      force_present_frame>>

(* A monitor step or a tick of the transport: the paused machine moves.    *)
Move == /\ Request /\ UNCHANGED powered
        /\ powered /\ ~running
        /\ \E clk \in 1 .. LastClk \ {picture.clk} :
               picture' = [picture EXCEPT !.clk = clk]
        /\ UNCHANGED <<running, model, hooked, machine_generation,
                       force_present_frame>>

(* checkpoint/restore and a model switch: another picture, perhaps at the  *)
(* same cycle.                                                             *)
Restore == /\ Request /\ UNCHANGED powered
           /\ powered
           /\ picture' \in Somewhere
           /\ model' \in Models
           /\ force_present_frame' = TRUE
           /\ UNCHANGED <<running, hooked, machine_generation>>

(* do_power_off, do_power_on and power_cycle_for_restore: a fresh machine, *)
(* whose SID reports to nobody.                                            *)
Fresh == /\ Request
         /\ machine_generation < MaxRebuilds
         /\ hooked' = FALSE
         /\ machine_generation' = machine_generation + 1
         /\ UNCHANGED model

PowerOff == /\ Fresh
            /\ powered /\ powered' = FALSE
            /\ running' = FALSE /\ picture' = Reset
            /\ UNCHANGED force_present_frame

PowerOn == /\ Fresh
           /\ powered' = TRUE
           /\ running' = TRUE /\ picture' = Reset
           /\ force_present_frame' = TRUE

Undump == /\ Fresh
          /\ powered' = TRUE
          /\ running' = FALSE /\ picture' \in Somewhere
          /\ force_present_frame' = TRUE

(* export_session_audio borrows the hook, runs the machine and gives back  *)
(* none.                                                                   *)
ExportAudio ==
    /\ Fresh
    /\ powered /\ UNCHANGED powered
    /\ \E clk \in 1 .. LastClk : picture' = [picture EXCEPT !.clk = clk]
    /\ UNCHANGED <<running, force_present_frame>>

-----------------------------------------------------------------------------
(* The run loop.                                                           *)

OpenSubscribers == {c \in subscribers : open[c]}

(* Slip: asks the hub while it holds the State.                            *)
AskUnderState ==
    /\ at = "top" /\ state_lock = NoOne
    /\ state_lock' = Loop
    /\ at' = "asking"
    /\ UNCHANGED <<hub_lock, hub, machine, state, live, av, generation,
                   last_present_clk, frame, clients>>

Ask ==
    /\ at = "top"
    /\ at' = "asking"
    /\ UNCHANGED <<locks, hub, machine, state, live, av, generation,
                   last_present_clk, frame, clients>>

(* StreamHub::live.                                                        *)
Live ==
    /\ at = "asking" /\ hub_lock = NoOne
    /\ subscribers' = OpenSubscribers
    /\ live' = Cardinality(OpenSubscribers)
    /\ at' = IF live' > 0 /\ ~av THEN "install"
             ELSE IF live' = 0 /\ av THEN "remove" ELSE "enter"
    /\ UNCHANGED <<locks, connection, open, left, machine, state, av,
                   generation, last_present_clk, frame, clients>>

Install ==
    /\ at = "install" /\ state_lock = NoOne
    /\ hooked' = TRUE
    /\ av' = TRUE
    /\ generation' = machine_generation
    /\ last_present_clk' = picture.clk
    /\ at' = "enter"
    /\ UNCHANGED <<locks, hub, powered, running, picture, model,
                   machine_generation,
                   state, live, frame, clients>>

Remove ==
    /\ at = "remove" /\ state_lock = NoOne
    /\ hooked' = FALSE
    /\ av' = FALSE /\ generation' = 0 /\ last_present_clk' = 0
    /\ at' = "enter"
    /\ UNCHANGED <<locks, hub, powered, running, picture, model,
                   machine_generation,
                   state, live, frame, clients>>

(* Slip: the generation is not compared.                                   *)
KeepHook == UNCHANGED <<hooked, generation>>
Rehook ==
    IF av /\ machine_generation # generation
    THEN hooked' = TRUE /\ generation' = machine_generation
    ELSE UNCHANGED <<hooked, generation>>

(* The head of the iteration, under the State lock.                        *)
Enter ==
    /\ at = "enter" /\ state_lock = NoOne
    /\ state_lock' = Loop
    /\ av_subscribers' = live
    /\ Announce
    /\ Rehook
    /\ at' = "inside"
    /\ UNCHANGED <<hub_lock, hub, powered, running, picture, model,
                   machine_generation, force_present_frame, live, av, last_present_clk, frame,
                   shown>>

Present == frame' = picture'

(* loop_iteration and present_running.                                     *)
AdvanceRunning ==
    /\ running
    /\ picture' = [picture EXCEPT !.clk = (@ % LastClk) + 1]
    /\ IF av THEN Present /\ last_present_clk' = picture'.clk
       ELSE UNCHANGED <<frame, last_present_clk>>
    /\ running' \in BOOLEAN                \* a stop may end the run
    /\ UNCHANGED force_present_frame

PausedPresentDue == force_present_frame \/ picture.clk # last_present_clk

(* present_paused.                                                         *)
StandStill ==
    /\ ~running
    /\ UNCHANGED <<running, picture>>
    /\ IF av /\ PausedPresentDue
       THEN /\ Present
            /\ force_present_frame' = FALSE
            /\ last_present_clk' = picture.clk
       ELSE UNCHANGED <<frame, force_present_frame, last_present_clk>>

Iterate ==
    /\ at = "inside"
    /\ AdvanceRunning \/ StandStill
    /\ state_lock' = NoOne
    /\ at' = IF frame' = NoOne THEN "top" ELSE "push"
    /\ live' = 0
    /\ UNCHANGED <<hub_lock, hub, powered, model, hooked, machine_generation,
                   announced_model, av_subscribers, av, generation, clients>>

(* StreamHub::broadcast.                                                   *)
Push ==
    /\ at = "push" /\ hub_lock = NoOne
    /\ shown' = [c \in Clients |-> IF c \in OpenSubscribers THEN frame
                                   ELSE shown[c]]
    /\ subscribers' = OpenSubscribers
    /\ frame' = NoOne
    /\ at' = "top"
    /\ UNCHANGED <<locks, connection, open, left, machine, state, live, av,
                   generation, last_present_clk, told, missed>>

LoopStep ==
    Ask \/ Live \/ Install \/ Remove \/ Enter \/ Iterate \/ Push

(* The idle watch asks the hub too, and prunes what has closed.            *)
WatchAsks ==
    /\ hub_lock = NoOne
    /\ subscribers # OpenSubscribers
    /\ subscribers' = OpenSubscribers
    /\ UNCHANGED <<locks, connection, open, left, machine, state, loop,
                   clients>>

Next ==
    \/ \E c \in Clients : Connect(c) \/ SubscribeTakesHub(c) \/ Greet(c)
                          \/ Subscribed(c) \/ Register(c) \/ ChannelCloses(c)
                          \/ UnsubscribeTakesHub(c) \/ UnsubscribeTellsState(c)
    \/ SyncModelIdentity
    \/ Pause \/ Run \/ Move \/ Restore
    \/ PowerOff \/ PowerOn \/ Undump \/ ExportAudio
    \/ LoopStep
    \/ WatchAsks

Spec == Init /\ [][Next]_vars

-----------------------------------------------------------------------------
Threads == Clients \union {Loop}
ConnectionStates == {"off", "entering", "greeting", "greeted", "subscribed",
                     "on", "leaving"}
Counts == 0 .. Cardinality(Clients)

TypeOK ==
    /\ hub_lock \in Threads \union {NoOne}
    /\ state_lock \in Threads \union {NoOne}
    /\ subscribers \subseteq Clients
    /\ connection \in [Clients -> ConnectionStates]
    /\ open \in [Clients -> BOOLEAN] /\ left \in [Clients -> Counts]
    /\ powered \in BOOLEAN /\ running \in BOOLEAN /\ picture \in Picture /\ model \in Models
    /\ hooked \in BOOLEAN /\ machine_generation \in 0 .. MaxRebuilds
    /\ announced_model \in Models /\ force_present_frame \in BOOLEAN
    /\ av_subscribers \in Counts
    /\ at \in {"top", "asking", "install", "remove", "enter", "inside", "push"}
    /\ live \in Counts /\ av \in BOOLEAN /\ generation \in 0 .. MaxRebuilds
    /\ last_present_clk \in 0 .. LastClk
    /\ frame \in Picture \union {NoOne}
    /\ shown \in [Clients -> Picture \union {NoOne}]
    /\ told \in [Clients -> Models \union {NoOne}]
    /\ missed \subseteq Clients

(* subscribe asks for the State while it holds the hub: nobody who holds   *)
(* the State may be asking for the hub (streaming.rs:417).                 *)
AsksForHub(t) == IF t = Loop THEN at \in {"asking", "push"}
                 ELSE connection[t] = "entering"
AsksForState(t) == IF t = Loop THEN at \in {"install", "remove", "enter"}
                   ELSE connection[t] \in {"greeting", "subscribed", "leaving"}
NoStandoff ==
    ~ \E t, u \in Threads : /\ hub_lock = t /\ AsksForState(t)
                            /\ state_lock = u /\ AsksForHub(u)

(* While the loop is in an iteration with a consumer the machine reports   *)
(* its SID writes to it, whatever was rebuilt since it hooked itself on;   *)
(* and nobody collects the writes of a machine nobody listens to           *)
(* (streaming.rs:383, 446; main.rs:15316).                                 *)
HookFollowsConsumer ==
    /\ at = "inside" /\ av => hooked
    /\ hooked => av

(* A client is never left with the hello of another model than the one     *)
(* announced, except one that was between its two subscriptions when the   *)
(* announcement went out, or was greeted between a switch and its          *)
(* announcement (streaming.rs:20, main.rs:16915).                          *)
HelloIsCurrent ==
    \A c \in Clients : connection[c] = "on" /\ open[c] /\ c \notin missed
                           => told[c] \in {announced_model, model}

(* The same without the exception, as the protocol states it.              *)
HelloReachesAll ==
    \A c \in Clients : connection[c] = "on" /\ open[c]
                           => told[c] \in {announced_model, model}

(* Whoever watches a paused machine has its picture, or it is on the way,  *)
(* or the loop still owes it: for a client that came after the pause, for  *)
(* a machine that was moved, redrawn or rebuilt meanwhile, and whatever    *)
(* frame was in flight when it happened (streaming.rs:251, main.rs:592).   *)
Owed == force_present_frame \/ (av /\ picture.clk # last_present_clk)
PausedClientSeesMachine ==
    ~running => \A c \in OpenSubscribers :
                    shown[c] = picture \/ frame = picture \/ Owed

(* What a client was told and shown is the machine it watches (subscribe,  *)
(* sync_model_identity).                                                   *)
ClientsAreCurrent == HelloIsCurrent /\ PausedClientSeesMachine
=============================================================================
