--------------------------- MODULE StreamHubs_proofs ---------------------------
(***************************************************************************)
(* Proofs about the run loop, the hubs and the State lock, for any number  *)
(* of clients and models, any clock and any number of rebuilds.            *)
(***************************************************************************)
EXTENDS StreamHubs, FiniteSetTheorems, TLAPS

(* Who acts in a step: a connection, a request, the loop, the idle watch.  *)
Client(c) == \/ Connect(c) \/ SubscribeTakesHub(c) \/ Greet(c) \/ Subscribed(c) \/ Register(c)
             \/ ChannelCloses(c) \/ UnsubscribeTakesHub(c) \/ UnsubscribeTellsState(c)
Asked == Pause \/ Run \/ Move \/ Restore \/ PowerOff \/ PowerOn \/ Undump \/ ExportAudio

LEMMA StepCases ==
    ASSUME [Next]_vars
    PROVE  \/ \E c \in Clients : Client(c)
           \/ SyncModelIdentity \/ Asked \/ LoopStep \/ WatchAsks \/ UNCHANGED vars
  BY DEF Next, Client, Asked

(* A request of either kind has the State lock to itself and leaves all    *)
(* but the machine, and what the next frame owes, as it is.                *)
LEMMA AskedFrame ==
    ASSUME Asked
    PROVE  state_lock = NoOne
           /\ UNCHANGED <<hub_lock, state_lock, subscribers, connection, open, left,
                          announced_model, av_subscribers, at, live, av, generation,
                          last_present_clk, frame, shown, told, missed>>
<1>1. Asked => Request
  BY DEF Asked, Pause, Run, Move, Restore, PowerOff, PowerOn, Undump, ExportAudio, Fresh
<1> QED
  BY <1>1 DEF Request, locks, hub, loop, clients

-----------------------------------------------------------------------------
(* The State lock: only an iteration of the loop holds it across steps.    *)

StateLockHeld == /\ state_lock \in {NoOne, Loop}
                 /\ at = "inside" <=> state_lock = Loop

LEMMA InitStateLock == Init => StateLockHeld
  BY ThreadAssumption DEF Init, StateLockHeld

LEMMA StepStateLock == StateLockHeld /\ [Next]_vars => StateLockHeld'
<1> SUFFICES ASSUME StateLockHeld, [Next]_vars PROVE StateLockHeld'
  OBVIOUS
<1> USE ThreadAssumption DEF StateLockHeld
<1>1. ASSUME NEW c \in Clients, Client(c) PROVE StateLockHeld'
  BY <1>1 DEF Client, Connect, SubscribeTakesHub, Greet, Subscribed, Register, ChannelCloses,
              UnsubscribeTakesHub, UnsubscribeTellsState, locks, loop
<1>2. CASE SyncModelIdentity \/ WatchAsks \/ UNCHANGED vars
  BY <1>2 DEF SyncModelIdentity, WatchAsks, vars, locks, loop
<1>3. CASE Asked
  BY <1>3, AskedFrame
<1>4. CASE LoopStep
  BY <1>4 DEF LoopStep, Ask, Live, Install, Remove, Enter, Iterate, Push, locks
<1> QED
  BY <1>1, <1>2, <1>3, <1>4, StepCases

(* The hub's lock is asked for with the State in hand by nobody, so the    *)
(* subscriber that asks for the State with the hub in hand gets it         *)
(* (streaming.rs:417).                                                     *)
THEOREM LocksNeverCross == Spec => []NoStandoff
<1>1. StateLockHeld => NoStandoff
  BY ThreadAssumption DEF StateLockHeld, NoStandoff, Threads, AsksForHub
<1> QED
  BY <1>1, InitStateLock, StepStateLock, PTL DEF Spec

-----------------------------------------------------------------------------
(* The hook.                                                               *)

(* The loop knows which machine it hooked: no later one has its            *)
(* generation.                                                             *)
HookKnown ==
    /\ machine_generation \in Nat /\ generation \in Nat
    /\ generation <= machine_generation
    /\ hooked => av
    /\ av /\ generation = machine_generation => hooked
    /\ at = "inside" /\ av => hooked

LEMMA InitHook == Init => HookKnown
  BY DEF Init, HookKnown

LEMMA StepHook == StateLockHeld /\ HookKnown /\ [Next]_vars => HookKnown'
<1> SUFFICES ASSUME StateLockHeld, HookKnown, [Next]_vars PROVE HookKnown'
  OBVIOUS
<1>1. ASSUME machine_generation' = machine_generation, generation' = generation,
             hooked' <=> hooked, av' <=> av, at' = "inside" => at = "inside"
      PROVE  HookKnown'
  BY <1>1 DEF HookKnown
<1>2. ASSUME NEW c \in Clients, Client(c) PROVE HookKnown'
  BY <1>1, <1>2 DEF Client, Connect, SubscribeTakesHub, Greet, Subscribed, Register,
                    ChannelCloses, UnsubscribeTakesHub, UnsubscribeTellsState, machine, loop
<1>3. CASE SyncModelIdentity \/ WatchAsks \/ UNCHANGED vars
  BY <1>1, <1>3 DEF SyncModelIdentity, WatchAsks, vars, hub, machine, loop
<1>4. CASE Pause \/ Run \/ Move \/ Restore
  BY <1>1, <1>4 DEF Pause, Run, Move, Restore, Request, loop
<1>5. CASE Fresh
  <2>1. state_lock = NoOne /\ UNCHANGED <<at, av, generation>>
    BY <1>5 DEF Fresh, Request, loop
  <2>2. at # "inside"
    BY <2>1, ThreadAssumption DEF StateLockHeld
  <2> QED
    BY <1>5, <2>1, <2>2 DEF Fresh, HookKnown
<1>6. CASE Ask \/ Live \/ Iterate \/ Push
  BY <1>1, <1>6 DEF Ask, Live, Iterate, Push, machine, AdvanceRunning, StandStill
<1>7. CASE Install
  BY <1>7 DEF Install, HookKnown
<1>8. CASE Remove
  BY <1>8 DEF Remove, HookKnown
<1>9. CASE Enter
  BY <1>9 DEF Enter, Rehook, HookKnown
<1> QED
  BY <1>2, <1>3, <1>4, <1>5, <1>6, <1>7, <1>8, <1>9, StepCases
     DEF LoopStep, Asked, PowerOff, PowerOn, Undump, ExportAudio

(* Whatever was rebuilt since, an iteration with a consumer runs a machine *)
(* that reports its SID writes, and a machine nobody listens to reports    *)
(* none (streaming.rs:383, 446).                                           *)
THEOREM HookIsKept == Spec => []HookFollowsConsumer
<1>1. HookKnown => HookFollowsConsumer
  BY DEF HookKnown, HookFollowsConsumer
<1> QED
  BY <1>1, InitStateLock, InitHook, StepStateLock, StepHook, PTL DEF Spec

-----------------------------------------------------------------------------
(* The connections.                                                        *)

ConnectionsOK == connection \in [Clients -> ConnectionStates] /\ open \in [Clients -> BOOLEAN]

LEMMA InitConnections == Init => ConnectionsOK
  BY DEF Init, ConnectionsOK, ConnectionStates

LEMMA StepConnections == ConnectionsOK /\ [Next]_vars => ConnectionsOK'
<1> SUFFICES ASSUME ConnectionsOK, [Next]_vars PROVE ConnectionsOK'
  OBVIOUS
<1> USE DEF ConnectionsOK, ConnectionStates
<1>1. ASSUME NEW c \in Clients, Client(c) PROVE ConnectionsOK'
  BY <1>1 DEF Client, Connect, SubscribeTakesHub, Greet, Subscribed, Register, ChannelCloses,
              UnsubscribeTakesHub, UnsubscribeTellsState
<1>2. CASE SyncModelIdentity \/ WatchAsks \/ UNCHANGED vars
  BY <1>2 DEF SyncModelIdentity, WatchAsks, vars, hub
<1>3. CASE Asked
  BY <1>3, AskedFrame
<1>4. CASE LoopStep
  BY <1>4 DEF LoopStep, Ask, Live, Install, Remove, Enter, Iterate, Push, hub
<1> QED
  BY <1>1, <1>2, <1>3, <1>4, StepCases

-----------------------------------------------------------------------------
(* The av/hello.                                                           *)

(* Between its greeting and its leaving a client has the hello of the      *)
(* model that was announced, unless an announcement passed it by.          *)
HelloKept ==
    /\ told = [c \in Clients |-> told[c]]
    /\ \A c \in Clients : /\ connection[c] \in {"greeted", "subscribed", "on"}
                          /\ open[c] /\ c \notin missed
                          => told[c] = announced_model

LEMMA InitHello == Init => HelloKept
  BY DEF Init, HelloKept

LEMMA AnnounceHello ==
    ASSUME ConnectionsOK, HelloKept, Announce, connection' = connection, open' = open
    PROVE  HelloKept'
<1>1. CASE announced_model = model
  BY <1>1 DEF Announce, HelloKept
<1>2. CASE announced_model # model
  <2>1. /\ announced_model' = model
        /\ told' = [c \in Clients |-> IF c \in Registered /\ open[c] THEN model ELSE told[c]]
        /\ missed' = (missed \ Registered) \union
               {c \in Clients : connection[c] \in {"greeted", "subscribed"} /\ told[c] # model}
    BY <1>2 DEF Announce
  <2>2. \A c \in Clients : c \in Registered <=> connection[c] \in {"on", "leaving"}
    BY DEF Registered
  <2> QED
    BY <2>1, <2>2 DEF HelloKept
<1> QED
  BY <1>1, <1>2

LEMMA StepHello == ConnectionsOK /\ HelloKept /\ [Next]_vars => HelloKept'
<1> SUFFICES ASSUME ConnectionsOK, HelloKept, [Next]_vars PROVE HelloKept'
  OBVIOUS
<1>1. ASSUME NEW c \in Clients, Client(c) PROVE HelloKept'
  <2> USE DEF ConnectionsOK, HelloKept
  <2>1. CASE Connect(c) \/ SubscribeTakesHub(c) \/ ChannelCloses(c) \/ UnsubscribeTakesHub(c)
    BY <2>1 DEF Connect, SubscribeTakesHub, ChannelCloses, UnsubscribeTakesHub, state, clients
  <2>2. CASE Subscribed(c) \/ Register(c)
    BY <2>2 DEF Subscribed, Register, state, clients
  <2>3. CASE Greet(c)
    BY <2>3 DEF Greet, GreetedAmidSwitch
  <2>4. CASE UnsubscribeTellsState(c)
    BY <2>4 DEF UnsubscribeTellsState
  <2> QED
    BY <1>1, <2>1, <2>2, <2>3, <2>4 DEF Client
<1>2. CASE SyncModelIdentity \/ Enter
  BY <1>2, AnnounceHello DEF SyncModelIdentity, Enter, hub
<1>3. CASE WatchAsks \/ UNCHANGED vars
  BY <1>3 DEF WatchAsks, vars, hub, state, clients, HelloKept
<1>4. CASE Asked
  BY <1>4, AskedFrame DEF HelloKept
<1>5. CASE Ask \/ Live \/ Install \/ Remove \/ Iterate \/ Push
  BY <1>5 DEF Ask, Live, Install, Remove, Iterate, Push, hub, state, clients, HelloKept
<1> QED
  BY <1>1, <1>2, <1>3, <1>4, <1>5, StepCases DEF LoopStep

(* A client that no announcement passed by has the hello of the model      *)
(* announced (streaming.rs:20, main.rs:16915).                             *)
THEOREM HelloIsKept == Spec => []HelloIsCurrent
<1>1. HelloKept => HelloIsCurrent
  BY DEF HelloKept, HelloIsCurrent
<1> QED
  BY <1>1, InitConnections, InitHello, StepConnections, StepHello, PTL DEF Spec

-----------------------------------------------------------------------------
(* The pictures.                                                           *)

(* A machine that is off has no picture and does not run; only a machine   *)
(* that has been reset stands at clock 0.                                  *)
MachineOK ==
    /\ picture \in Picture
    /\ picture.clk = 0 => picture = Reset
    /\ ~powered => picture = Reset /\ ~running

LEMMA ClockMoves ==
    ASSUME NEW p \in Picture, NEW clk \in 1 .. LastClk
    PROVE  /\ [p EXCEPT !.clk = clk] \in Picture
           /\ [p EXCEPT !.clk = clk].clk # 0
           /\ [p EXCEPT !.clk = clk].redrawn = p.redrawn
  BY DEF Picture

LEMMA ClockGoesRound ==
    ASSUME NEW clk \in 0 .. LastClk
    PROVE  (clk % LastClk) + 1 \in 1 .. LastClk
  BY ThreadAssumption

LEMMA InitMachine == Init => MachineOK
  BY ThreadAssumption DEF Init, MachineOK, Picture, Reset

LEMMA StepMachine == MachineOK /\ [Next]_vars => MachineOK'
<1> SUFFICES ASSUME MachineOK, [Next]_vars PROVE MachineOK'
  OBVIOUS
<1> USE DEF MachineOK
<1>1. Reset \in Picture /\ Reset.clk = 0 /\ Somewhere \subseteq Picture
      /\ \A p \in Somewhere : p.clk # 0
  BY ThreadAssumption DEF Reset, Picture, Somewhere
<1>2. ASSUME NEW c \in Clients, Client(c) PROVE MachineOK'
  BY <1>2 DEF Client, Connect, SubscribeTakesHub, Greet, Subscribed, Register, ChannelCloses,
              UnsubscribeTakesHub, UnsubscribeTellsState, machine
<1>3. CASE SyncModelIdentity \/ WatchAsks \/ UNCHANGED vars
  BY <1>3 DEF SyncModelIdentity, WatchAsks, vars, hub, machine
<1>4. CASE Pause \/ Run
  BY <1>4 DEF Pause, Run
<1>5. CASE Move
  BY <1>5, ClockMoves DEF Move
<1>6. CASE Restore
  BY <1>1, <1>6 DEF Restore
<1>7. CASE PowerOff \/ PowerOn
  BY <1>1, <1>7 DEF PowerOff, PowerOn
<1>8. CASE Undump
  BY <1>1, <1>8 DEF Undump
<1>9. CASE ExportAudio
  BY <1>9, ClockMoves DEF ExportAudio
<1>10. CASE Ask \/ Live \/ Install \/ Remove \/ Enter \/ Push
  BY <1>10 DEF Ask, Live, Install, Remove, Enter, Push, hub, machine
<1>11. CASE Iterate
  <2>1. CASE AdvanceRunning
    <3>1. picture.clk \in 0 .. LastClk
      BY DEF Picture
    <3> QED
      BY <1>11, <2>1, <3>1, ClockGoesRound, ClockMoves DEF Iterate, AdvanceRunning
  <2>2. CASE StandStill
    BY <1>11, <2>2 DEF Iterate, StandStill
  <2> QED
    BY <1>11, <2>1, <2>2 DEF Iterate
<1> QED
  BY <1>2, <1>3, <1>4, <1>5, <1>6, <1>7, <1>8, <1>9, <1>10, <1>11, StepCases
     DEF LoopStep, Asked

(* The hub's lock and its list.                                            *)
HubOK ==
    /\ subscribers \subseteq Clients
    /\ \A c \in subscribers : connection[c] \in {"subscribed", "on"}
    /\ \A c \in Clients : connection[c] \in {"greeting", "greeted"} => hub_lock = c

LEMMA InitHub == Init => HubOK
  BY DEF Init, HubOK

LEMMA StepHub == ConnectionsOK /\ HubOK /\ [Next]_vars => HubOK'
<1> SUFFICES ASSUME ConnectionsOK, HubOK, [Next]_vars PROVE HubOK'
  OBVIOUS
<1> USE ThreadAssumption DEF ConnectionsOK, HubOK
<1>1. ASSUME NEW c \in Clients, Client(c) PROVE HubOK'
  <2>1. CASE Connect(c)
    BY <2>1 DEF Connect, locks
  <2>2. CASE SubscribeTakesHub(c)
    BY <2>2 DEF SubscribeTakesHub
  <2>3. CASE Greet(c)
    BY <2>3 DEF Greet, locks
  <2>4. CASE Subscribed(c)
    BY <2>4 DEF Subscribed
  <2>5. CASE Register(c) \/ ChannelCloses(c)
    BY <2>5 DEF Register, ChannelCloses, locks
  <2>6. CASE UnsubscribeTakesHub(c)
    BY <2>6 DEF UnsubscribeTakesHub, locks
  <2>7. CASE UnsubscribeTellsState(c)
    BY <2>7 DEF UnsubscribeTellsState, locks
  <2> QED
    BY <1>1, <2>1, <2>2, <2>3, <2>4, <2>5, <2>6, <2>7 DEF Client
<1>2. CASE SyncModelIdentity \/ WatchAsks \/ UNCHANGED vars
  BY <1>2 DEF SyncModelIdentity, WatchAsks, vars, locks, hub, OpenSubscribers
<1>3. CASE Asked
  BY <1>3, AskedFrame
<1>4. CASE LoopStep
  BY <1>4 DEF LoopStep, Ask, Live, Install, Remove, Enter, Iterate, Push, locks, hub,
              OpenSubscribers
<1> QED
  BY <1>1, <1>2, <1>3, <1>4, StepCases

(* Where the loop stands tells whether it has a frame and a consumer.      *)
LoopOK == /\ at = "push" <=> frame # NoOne
          /\ at = "install" => ~av

LEMMA InitLoop == Init => LoopOK
  BY DEF Init, LoopOK

LEMMA StepLoop == MachineOK /\ LoopOK /\ [Next]_vars => LoopOK'
<1> SUFFICES ASSUME MachineOK, LoopOK, [Next]_vars PROVE LoopOK'
  OBVIOUS
<1> USE DEF LoopOK
<1>1. ASSUME NEW c \in Clients, Client(c) PROVE LoopOK'
  BY <1>1 DEF Client, Connect, SubscribeTakesHub, Greet, Subscribed, Register, ChannelCloses,
              UnsubscribeTakesHub, UnsubscribeTellsState, loop
<1>2. CASE SyncModelIdentity \/ WatchAsks \/ UNCHANGED vars
  BY <1>2 DEF SyncModelIdentity, WatchAsks, vars, loop
<1>3. CASE Asked
  BY <1>3, AskedFrame
<1>4. CASE Ask \/ Live \/ Install \/ Remove \/ Enter \/ Push
  BY <1>4 DEF Ask, Live, Install, Remove, Enter, Push
<1>5. CASE Iterate
  BY <1>5 DEF Iterate
<1> QED
  BY <1>1, <1>2, <1>3, <1>4, <1>5, StepCases DEF LoopStep

(* The last frame a client has or will have, and when nothing more is owed *)
(* for it: the loop would notice the clock move, and a machine that is on  *)
(* is not redrawn without a frame being forced.                            *)
Latest(c) == IF frame # NoOne THEN frame ELSE shown[c]
Settled(p) ==
    /\ av /\ at # "remove"
    /\ p \in Picture /\ p.clk = last_present_clk
    /\ p.clk = 0 => p = Reset
    /\ powered => p.redrawn = picture.redrawn
Waits(c) == c \in OpenSubscribers \/ connection[c] = "greeted"
NothingForgotten ==
    /\ DOMAIN shown = Clients
    /\ \A c \in Clients : Waits(c) => force_present_frame \/ Settled(Latest(c))

LEMMA InitForgotten == Init => NothingForgotten
  BY DEF Init, NothingForgotten, Waits, OpenSubscribers

LEMMA StepForgotten ==
    ConnectionsOK /\ MachineOK /\ HubOK /\ LoopOK /\ NothingForgotten /\ [Next]_vars
        => NothingForgotten'
<1> SUFFICES ASSUME ConnectionsOK, MachineOK, HubOK, LoopOK, NothingForgotten, [Next]_vars
             PROVE  NothingForgotten'
  OBVIOUS
<1>1. DOMAIN shown = Clients
  BY DEF NothingForgotten
<1>2. ASSUME UNCHANGED <<subscribers, open, connection>>
      PROVE  \A c \in Clients : Waits(c)' => Waits(c)
  BY <1>2 DEF Waits, OpenSubscribers
<1>3. ASSUME UNCHANGED <<av, last_present_clk, frame, shown>>, powered' => powered,
             at' # "remove" \/ at = "remove",
             picture'.redrawn = picture.redrawn \/ ~powered'
      PROVE  \A c \in Clients : Settled(Latest(c)) => Settled(Latest(c))'
  BY <1>3 DEF Settled, Latest
<1>4. ASSUME force_present_frame', DOMAIN shown' = Clients PROVE NothingForgotten'
  BY <1>4 DEF NothingForgotten
<1>5. ASSUME UNCHANGED <<subscribers, open, connection, av, last_present_clk, frame, shown>>,
             force_present_frame => force_present_frame', powered' => powered,
             at' # "remove" \/ at = "remove",
             picture'.redrawn = picture.redrawn \/ ~powered'
      PROVE  NothingForgotten'
  BY <1>2, <1>3, <1>5 DEF NothingForgotten
<1>6. ASSUME NEW c \in Clients, Client(c) PROVE NothingForgotten'
  <2>1. UNCHANGED <<av, last_present_clk, frame, at, powered, picture>>
    BY <1>6 DEF Client, Connect, SubscribeTakesHub, Greet, Subscribed, Register, ChannelCloses,
                UnsubscribeTakesHub, UnsubscribeTellsState, loop, machine
  <2>2. CASE Greet(c)
    BY <1>1, <1>4, <2>2 DEF Greet
  <2>3. CASE UnsubscribeTellsState(c)
    <3>1. /\ shown' = [shown EXCEPT ![c] = NoOne] /\ force_present_frame' = force_present_frame
          /\ open' = [open EXCEPT ![c] = FALSE] /\ connection' = [connection EXCEPT ![c] = "off"]
          /\ subscribers' = subscribers
      BY <2>3 DEF UnsubscribeTellsState
    <3>2. ~Waits(c)'
      BY <3>1 DEF Waits, OpenSubscribers, ConnectionsOK
    <3>3. \A d \in Clients \ {c} : /\ Waits(d)' => Waits(d)
                                   /\ Settled(Latest(d)) => Settled(Latest(d))'
      BY <2>1, <3>1 DEF Waits, OpenSubscribers, ConnectionsOK, Settled, Latest
    <3> QED
      BY <1>1, <3>1, <3>2, <3>3 DEF NothingForgotten
  <2>4. ASSUME shown' = shown, force_present_frame' = force_present_frame,
               \A d \in Clients : Waits(d)' => Waits(d)
        PROVE  NothingForgotten'
    BY <1>3, <2>1, <2>4 DEF NothingForgotten
  <2>5. CASE Connect(c)
    BY <2>4, <2>5 DEF Connect, state, clients, Waits, OpenSubscribers, HubOK, ConnectionsOK
  <2>6. CASE SubscribeTakesHub(c) \/ Register(c)
    BY <2>4, <2>6 DEF SubscribeTakesHub, Register, state, clients, Waits, OpenSubscribers,
                      ConnectionsOK
  <2>7. CASE Subscribed(c)
    BY <2>4, <2>7 DEF Subscribed, state, clients, Waits, OpenSubscribers, ConnectionsOK
  <2>8. CASE ChannelCloses(c)
    BY <2>4, <2>8 DEF ChannelCloses, state, clients, Waits, OpenSubscribers, ConnectionsOK
  <2>9. CASE UnsubscribeTakesHub(c)
    BY <2>4, <2>9 DEF UnsubscribeTakesHub, state, clients, Waits, OpenSubscribers, ConnectionsOK
  <2> QED
    BY <1>6, <2>2, <2>3, <2>5, <2>6, <2>7, <2>8, <2>9 DEF Client
<1>7. CASE SyncModelIdentity \/ UNCHANGED vars
  BY <1>5, <1>7 DEF SyncModelIdentity, vars, hub, machine, loop, state, clients
<1>8. CASE Asked
  <2>1. UNCHANGED <<subscribers, open, connection, av, last_present_clk, frame, shown, at>>
    BY <1>8, AskedFrame
  <2>2. CASE Pause \/ Run
    BY <1>5, <2>1, <2>2 DEF Pause, Run
  <2>3. CASE Move
    BY <1>5, <2>1, <2>3, ClockMoves DEF Move, MachineOK
  <2>4. CASE Restore \/ PowerOn \/ Undump
    BY <1>1, <1>4, <2>1, <2>4 DEF Restore, PowerOn, Undump
  <2>5. CASE PowerOff
    BY <1>5, <2>1, <2>5 DEF PowerOff
  <2>6. CASE ExportAudio
    BY <1>5, <2>1, <2>6, ClockMoves DEF ExportAudio, MachineOK
  <2> QED
    BY <1>8, <2>2, <2>3, <2>4, <2>5, <2>6 DEF Asked
<1>9. CASE Ask
  BY <1>5, <1>9 DEF Ask, hub, machine, state, clients
<1>10. CASE Live
  <2>1. /\ subscribers' = OpenSubscribers /\ hub_lock = NoOne
        /\ live' = Cardinality(OpenSubscribers)
        /\ at' = IF live' > 0 /\ ~av THEN "install"
                 ELSE IF live' = 0 /\ av THEN "remove" ELSE "enter"
        /\ UNCHANGED <<connection, open, powered, picture, force_present_frame, av,
                       last_present_clk, frame, shown>>
    BY <1>10 DEF Live, machine, state, clients
  <2>2. \A c \in Clients : connection[c] # "greeted"
    BY <2>1, ThreadAssumption DEF HubOK
  <2>3. OpenSubscribers' = OpenSubscribers
    BY <2>1 DEF OpenSubscribers
  <2>4. CASE at' = "remove"
    <3>1. IsFiniteSet(OpenSubscribers)
      BY ThreadAssumption, FS_Subset DEF OpenSubscribers, HubOK
    <3>2. OpenSubscribers = {}
      BY <2>1, <2>4, <3>1, FS_EmptySet
    <3> QED
      BY <1>1, <2>1, <2>2, <2>3, <3>2 DEF NothingForgotten, Waits
  <2>5. CASE at' # "remove"
    BY <1>3, <2>1, <2>3, <2>5 DEF NothingForgotten, Waits
  <2> QED
    BY <2>4, <2>5
<1>11. CASE Install \/ Remove
  <2>1. /\ UNCHANGED <<subscribers, open, connection, shown>>
        /\ force_present_frame' = force_present_frame
    BY <1>11 DEF Install, Remove, hub, state, clients
  <2>2. \A c \in Clients : ~Settled(Latest(c))
    BY <1>11 DEF Install, Remove, Settled, LoopOK
  <2> QED
    BY <1>2, <2>1, <2>2 DEF NothingForgotten
<1>12. CASE Enter
  BY <1>5, <1>12 DEF Enter, hub
<1>13. CASE Iterate
  <2>1. /\ UNCHANGED <<subscribers, open, connection, shown, av, powered>>
        /\ at = "inside" /\ at' # "remove"
    BY <1>13 DEF Iterate, hub, clients
  <2>2. frame = NoOne
    BY <2>1 DEF LoopOK
  <2>3. MachineOK'
    BY StepMachine
  <2>4. CASE ~av
    <3>1. \A c \in Clients : ~Settled(Latest(c))
      BY <2>4 DEF Settled
    <3>2. force_present_frame' = force_present_frame
      BY <1>13, <2>4 DEF Iterate, AdvanceRunning, StandStill
    <3> QED
      BY <1>1, <1>2, <2>1, <3>1, <3>2 DEF NothingForgotten
  <2>5. ASSUME av, frame' = picture', last_present_clk' = picture'.clk PROVE NothingForgotten'
    <3>1. picture' \in Picture /\ picture' # NoOne /\ (picture'.clk = 0 => picture' = Reset)
      BY <2>3, ThreadAssumption DEF MachineOK
    <3>2. \A c \in Clients : Latest(c)' = picture'
      BY <2>5, <3>1 DEF Latest
    <3>3. \A c \in Clients : Settled(Latest(c))'
      BY <2>1, <2>5, <3>1, <3>2 DEF Settled
    <3> QED
      BY <1>1, <2>1, <3>3 DEF NothingForgotten
  <2>6. CASE av /\ running
    BY <1>13, <2>5, <2>6 DEF Iterate, AdvanceRunning, StandStill, Present
  <2>7. CASE av /\ ~running /\ PausedPresentDue
    BY <1>13, <2>5, <2>7 DEF Iterate, AdvanceRunning, StandStill, Present
  <2>8. CASE av /\ ~running /\ ~PausedPresentDue
    BY <1>5, <1>13, <2>1, <2>8 DEF Iterate, AdvanceRunning, StandStill
  <2> QED
    BY <2>4, <2>6, <2>7, <2>8
<1>14. CASE Push
  <2>1. /\ hub_lock = NoOne /\ at = "push" /\ at' = "top" /\ frame' = NoOne
        /\ subscribers' = OpenSubscribers
        /\ shown' = [c \in Clients |-> IF c \in OpenSubscribers THEN frame ELSE shown[c]]
        /\ UNCHANGED <<connection, open, powered, picture, force_present_frame, av,
                       last_present_clk>>
    BY <1>14 DEF Push, machine, state
  <2>2. frame # NoOne
    BY <2>1 DEF LoopOK
  <2>3. \A c \in Clients : connection[c] # "greeted"
    BY <2>1, ThreadAssumption DEF HubOK
  <2>4. ASSUME NEW c \in Clients, Waits(c)' PROVE force_present_frame' \/ Settled(Latest(c))'
    <3>1. c \in OpenSubscribers
      BY <2>1, <2>3, <2>4 DEF Waits, OpenSubscribers
    <3>2. Latest(c)' = Latest(c)
      BY <2>1, <2>2, <3>1 DEF Latest
    <3> QED
      BY <2>1, <3>1, <3>2 DEF NothingForgotten, Waits, Settled
  <2> QED
    BY <2>1, <2>4 DEF NothingForgotten
<1>15. CASE WatchAsks
  <2>1. /\ subscribers' = OpenSubscribers
        /\ UNCHANGED <<connection, open, powered, picture, force_present_frame, av, at,
                       last_present_clk, frame, shown>>
    BY <1>15 DEF WatchAsks, machine, state, loop, clients
  <2>2. \A c \in Clients : Waits(c)' => Waits(c)
    BY <2>1 DEF Waits, OpenSubscribers
  <2> QED
    BY <1>3, <2>1, <2>2 DEF NothingForgotten
<1> QED
  BY <1>6, <1>7, <1>8, <1>9, <1>10, <1>11, <1>12, <1>13, <1>14, <1>15, StepCases DEF LoopStep

(* Whoever watches a paused machine has its picture, or a frame with it is *)
(* on its way, or the loop still owes one (streaming.rs:251, main.rs:592). *)
THEOREM PausedPictureArrives == Spec => []PausedClientSeesMachine
<1>1. MachineOK /\ HubOK /\ NothingForgotten => PausedClientSeesMachine
  <2> SUFFICES ASSUME MachineOK, HubOK, NothingForgotten, ~Owed,
                      NEW c \in OpenSubscribers
               PROVE  shown[c] = picture \/ frame = picture
    BY DEF PausedClientSeesMachine
  <2>1. c \in Clients
    BY DEF OpenSubscribers, HubOK
  <2>2. Settled(Latest(c))
    BY <2>1 DEF NothingForgotten, Waits, Owed
  <2>3. Latest(c) \in Picture /\ picture \in Picture /\ Latest(c).clk = picture.clk
    BY <2>2 DEF Settled, Owed, MachineOK
  <2>4. CASE powered
    <3>1. Latest(c).redrawn = picture.redrawn
      BY <2>2, <2>4 DEF Settled
    <3>2. Latest(c) = picture
      BY <2>3, <3>1 DEF Picture
    <3> QED
      BY <3>2 DEF Latest
  <2>5. CASE ~powered
    <3>1. picture = Reset /\ picture.clk = 0
      BY <2>5 DEF MachineOK, Reset
    <3>2. Latest(c) = picture
      BY <2>2, <2>3, <3>1 DEF Settled
    <3> QED
      BY <3>2 DEF Latest
  <2> QED
    BY <2>4, <2>5
<1> QED
  BY <1>1, InitConnections, InitMachine, InitHub, InitLoop, InitForgotten,
     StepConnections, StepMachine, StepHub, StepLoop, StepForgotten, PTL DEF Spec

(* What a client was told and shown is the machine it watches              *)
(* (streaming.rs:20, 251).                                                 *)
THEOREM ClientsStayCurrent == Spec => []ClientsAreCurrent
<1>1. HelloIsCurrent /\ PausedClientSeesMachine => ClientsAreCurrent
  BY DEF ClientsAreCurrent
<1> QED
  BY <1>1, HelloIsKept, PausedPictureArrives, PTL
=============================================================================
