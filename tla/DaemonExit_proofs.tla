--------------------------- MODULE DaemonExit_proofs ---------------------------
(***************************************************************************)
(* Proofs about the daemon's end, for any clients, any window of the idle  *)
(* clock and any number of requests.                                       *)
(***************************************************************************)
EXTENDS DaemonExit, TLAPS

(* What a step of the process is, besides standing still.                  *)
Client(c) == \/ Connect(c) \/ PeerGone(c) \/ Disconnect(c) \/ Plain(c)
             \/ KeepAlive(c) \/ RunMachine(c) \/ StepMachine(c) \/ Unpark(c)
             \/ TraceRun(c) \/ AskShutdown(c) \/ ReplyFails(c)

LEMMA StepCases ==
    ASSUME [Next]_vars
    PROVE  \/ Tick
           \/ \E c \in Clients : Client(c)
           \/ WritesMedium \/ AutoPersist \/ StopsRunning \/ Releases
           \/ WatchStep \/ SignalArrives
           \/ \E d \in Doors : TakeGuard(d) \/ ExitWork(d)
           \/ (\E d \in Doors : EndsItself(d)) \/ (\E c \in Clients : RepliesAndEnds(c))
           \/ UNCHANGED vars
  BY DEF Next, Client, ExitStep, ShutdownStep, Gone

-----------------------------------------------------------------------------
(* The doors and the connections.                                          *)

WhereTheyStand ==
    /\ client \in [Clients -> {"off", "on", "parked", "shutting"}]
    /\ exit \in [Doors -> {"no", "wants", "working", "worked", "late"}]
    /\ av \in [Clients -> BOOLEAN] /\ writer \in [Clients -> BOOLEAN]

LEMMA InitWhere == Init => WhereTheyStand
  BY DEF Init, WhereTheyStand

LEMMA StepWhere == WhereTheyStand /\ [Next]_vars => WhereTheyStand'
<1> SUFFICES ASSUME WhereTheyStand, [Next]_vars PROVE WhereTheyStand'
  OBVIOUS
<1> USE DEF WhereTheyStand
<1>1. CASE Tick
  BY <1>1 DEF Tick, connections, shutdown
<1>2. ASSUME NEW c \in Clients, Client(c) PROVE WhereTheyStand'
  <2>1. CASE Connect(c) \/ PeerGone(c) \/ Disconnect(c) \/ Unpark(c)
    BY <2>1 DEF Connect, PeerGone, Disconnect, Unpark, Closed, shutdown
  <2>2. CASE ReplyFails(c)
    BY <2>2 DEF ReplyFails, Closed
  <2>3. CASE Plain(c) \/ KeepAlive(c) \/ TraceRun(c)
    BY <2>3 DEF Plain, KeepAlive, TraceRun, Request
  <2>4. CASE RunMachine(c) \/ StepMachine(c)
    BY <2>4 DEF RunMachine, StepMachine, Request
  <2>5. CASE AskShutdown(c)
    BY <2>5 DEF AskShutdown, Request
  <2> QED
    BY <1>2, <2>1, <2>2, <2>3, <2>4, <2>5 DEF Client
<1>3. CASE WritesMedium \/ AutoPersist \/ StopsRunning \/ Releases
  BY <1>3 DEF WritesMedium, AutoPersist, StopsRunning, Releases, Machine, connections, shutdown
<1>4. CASE WatchStep
  BY <1>4 DEF WatchStep, LooksForTrace, LooksForSubscribers, HoldsClock, Decides, connections,
              shutdown
<1>5. CASE SignalArrives
  BY <1>5 DEF SignalArrives, connections
<1>6. ASSUME NEW d \in Doors, TakeGuard(d) PROVE WhereTheyStand'
  BY <1>6 DEF TakeGuard, connections
<1>7. ASSUME NEW d \in Doors, ExitWork(d) PROVE WhereTheyStand'
  BY <1>7 DEF ExitWork, connections
<1>8. CASE EndProcess
  BY <1>8 DEF EndProcess, connections, shutdown
<1>9. CASE UNCHANGED vars
  BY <1>9 DEF vars, connections, shutdown
<1> QED
  BY <1>1, <1>2, <1>3, <1>4, <1>5, <1>6, <1>7, <1>8, <1>9, StepCases
     DEF EndsItself, RepliesAndEnds

-----------------------------------------------------------------------------
(* The guard of the exit work.                                             *)

(* Who works holds the guard and nothing is done yet; who is past the      *)
(* guard has found it done; a connection on its way out serves no other    *)
(* request.                                                                *)
Guarded ==
    /\ \A d \in Doors : exit[d] = "working" => guard = d /\ ~done
    /\ \A d \in Doors : exit[d] \in {"worked", "late"} => done
    /\ ~up => done
    /\ \A c \in Clients : client[c] # "shutting" => exit[c] = "no"

LEMMA InitGuarded == Init => Guarded
  BY ExitAssumption DEF Init, Guarded, Doors

LEMMA StepGuarded == WhereTheyStand /\ Guarded /\ [Next]_vars => Guarded'
<1> SUFFICES ASSUME WhereTheyStand, Guarded, [Next]_vars PROVE Guarded'
  OBVIOUS
<1> USE ExitAssumption
<1>1. Clients \subseteq Doors /\ Watch \in Doors /\ Signal \in Doors
      /\ Watch \notin Clients /\ Signal \notin Clients /\ NoOne \notin Doors
  BY DEF Doors
<1>2. ASSUME up' = up, guard' = guard, done' = done, exit' = exit,
             \A c \in Clients : client'[c] = "shutting" \/ client[c] # "shutting"
                                \/ exit[c] = "no"
      PROVE  Guarded'
  BY <1>2 DEF Guarded
<1>3. CASE Tick
  BY <1>2, <1>3 DEF Tick, connections, shutdown
<1>4. ASSUME NEW c \in Clients, Client(c) PROVE Guarded'
  <2>1. CASE Connect(c) \/ PeerGone(c) \/ Disconnect(c) \/ Unpark(c)
    BY <1>2, <2>1 DEF Connect, PeerGone, Disconnect, Unpark, Closed, WhereTheyStand, shutdown
  <2>2. CASE Plain(c) \/ KeepAlive(c) \/ RunMachine(c) \/ StepMachine(c) \/ TraceRun(c)
    BY <1>2, <2>2 DEF Plain, KeepAlive, RunMachine, StepMachine, TraceRun, Request, WhereTheyStand
  <2>3. CASE AskShutdown(c)
    BY <1>1, <2>3 DEF AskShutdown, Request, WhereTheyStand, Guarded
  <2>4. CASE ReplyFails(c)
    BY <1>1, <2>4 DEF ReplyFails, Closed, WhereTheyStand, Guarded
  <2> QED
    BY <1>4, <2>1, <2>2, <2>3, <2>4 DEF Client
<1>5. CASE WritesMedium \/ AutoPersist \/ StopsRunning \/ Releases
  BY <1>2, <1>5 DEF WritesMedium, AutoPersist, StopsRunning, Releases, Machine, connections, shutdown
<1>6. CASE LooksForTrace \/ LooksForSubscribers \/ HoldsClock
  BY <1>2, <1>6 DEF LooksForTrace, LooksForSubscribers, HoldsClock, connections, shutdown
<1>7. CASE Decides
  <2>1. CASE UNCHANGED exit
    BY <1>2, <1>7, <2>1 DEF Decides, connections
  <2>2. CASE exit' = [exit EXCEPT ![Watch] = "wants"]
    BY <1>1, <1>7, <2>2 DEF Decides, connections, Guarded, WhereTheyStand
  <2> QED
    BY <1>7, <2>1, <2>2 DEF Decides
<1>8. CASE SignalArrives
  BY <1>1, <1>8 DEF SignalArrives, connections, Guarded, WhereTheyStand
<1>9. ASSUME NEW d \in Doors, TakeGuard(d) PROVE Guarded'
  <2> USE DEF Guarded, WhereTheyStand
  <2>1. up' = up /\ done' = done /\ client' = client /\ exit[d] = "wants" /\ guard = NoOne
    BY <1>9 DEF TakeGuard, connections
  <2>2. \A c \in Clients : client[c] # "shutting" => d # c
    BY <2>1
  <2>3. CASE done
    <3>1. exit' = [exit EXCEPT ![d] = "late"] /\ guard' = guard
      BY <1>9, <2>3 DEF TakeGuard
    <3> QED
      BY <1>1, <2>1, <2>2, <2>3, <3>1
  <2>4. CASE ~done
    <3>1. exit' = [exit EXCEPT ![d] = "working"] /\ guard' = d
      BY <1>9, <2>4 DEF TakeGuard
    <3> QED
      BY <1>1, <2>1, <2>2, <2>4, <3>1
  <2> QED
    BY <2>3, <2>4
<1>10. ASSUME NEW d \in Doors, ExitWork(d) PROVE Guarded'
  BY <1>1, <1>10 DEF ExitWork, Save, connections, Guarded, WhereTheyStand
<1>11. CASE (\E d \in Doors : EndsItself(d)) \/ (\E c \in Clients : RepliesAndEnds(c))
  <2>1. done
    BY <1>1, <1>11 DEF EndsItself, RepliesAndEnds, Guarded
  <2> QED
    BY <1>11, <2>1 DEF EndsItself, RepliesAndEnds, EndProcess, connections, shutdown, Guarded
<1>12. CASE UNCHANGED vars
  BY <1>2, <1>12 DEF vars, connections, shutdown
<1> QED
  BY <1>3, <1>4, <1>5, <1>6, <1>7, <1>8, <1>9, <1>10, <1>11, <1>12, StepCases DEF WatchStep

(* Whichever of the doors ends the process, the exit work is behind it and *)
(* nobody is in the middle of it (main.rs:13884).                          *)
THEOREM ExitComesAfterWork == Spec => []ExitAfterWork
<1>1. WhereTheyStand /\ Guarded => ExitAfterWork
  BY DEF Guarded, ExitAfterWork
<1> QED
  BY <1>1, InitWhere, InitGuarded, StepWhere, StepGuarded, PTL DEF Spec

-----------------------------------------------------------------------------
(* What is unsaved at the end.                                             *)

(* Once the work is done the machine stands still and everything is saved, *)
(* but for a client, or the idle release, that has set it going again.     *)
StillOrMoved == done /\ (running \/ unsaved) => again # {}

LEMMA StepStill == StillOrMoved /\ [Next]_vars => StillOrMoved'
<1> SUFFICES ASSUME StillOrMoved, [Next]_vars PROVE StillOrMoved'
  OBVIOUS
<1>1. ASSUME done' = done, again' = again, running' => running,
             unsaved' => unsaved \/ running
      PROVE  StillOrMoved'
  BY <1>1 DEF StillOrMoved
<1>11. ASSUME NEW who, Moves(who), done' = done PROVE StillOrMoved'
  BY <1>11 DEF Moves, StillOrMoved
<1>2. CASE Tick
  BY <1>1, <1>2 DEF Tick, shutdown, session
<1>3. ASSUME NEW c \in Clients, Client(c) PROVE StillOrMoved'
  <2>1. CASE Connect(c) \/ PeerGone(c) \/ Disconnect(c) \/ Unpark(c) \/ ReplyFails(c)
    BY <1>1, <2>1 DEF Connect, PeerGone, Disconnect, Unpark, ReplyFails, shutdown, session, history
  <2>2. CASE Plain(c) \/ KeepAlive(c) \/ AskShutdown(c) \/ TraceRun(c)
    BY <1>1, <2>2 DEF Plain, KeepAlive, AskShutdown, TraceRun, Request, session
  <2>3. CASE RunMachine(c) \/ StepMachine(c)
    BY <1>11, <2>3 DEF RunMachine, StepMachine, Request
  <2> QED
    BY <1>3, <2>1, <2>2, <2>3 DEF Client
<1>4. CASE WritesMedium \/ AutoPersist \/ StopsRunning
  BY <1>1, <1>4 DEF WritesMedium, AutoPersist, StopsRunning, Machine, shutdown
<1>12. CASE Releases
  <2>1. done' = done /\ unsaved' = unsaved
    BY <1>12 DEF Releases, Machine, shutdown
  <2>2. Moves("loop") \/ (again' = again /\ running' = running)
    BY <1>12 DEF Releases
  <2> QED
    BY <1>1, <1>11, <2>1, <2>2
<1>5. CASE WatchStep
  BY <1>1, <1>5 DEF WatchStep, LooksForTrace, LooksForSubscribers, HoldsClock, Decides,
                    shutdown, session, history
<1>6. CASE SignalArrives
  BY <1>1, <1>6 DEF SignalArrives, session, history
<1>7. ASSUME NEW d \in Doors, TakeGuard(d) PROVE StillOrMoved'
  BY <1>1, <1>7 DEF TakeGuard, session, history
<1>8. ASSUME NEW d \in Doors, ExitWork(d) PROVE StillOrMoved'
  BY <1>8 DEF ExitWork, Save, StillOrMoved
<1>9. CASE EndProcess
  BY <1>1, <1>9 DEF EndProcess, shutdown, session, history
<1>10. CASE UNCHANGED vars
  BY <1>1, <1>10 DEF vars, shutdown, session, history
<1> QED
  BY <1>2, <1>3, <1>4, <1>5, <1>6, <1>7, <1>8, <1>9, <1>10, <1>12,
     StepCases DEF EndsItself, RepliesAndEnds

(* No write is lost by the end of the process, unless a client, or the     *)
(* loop's idle release, has set the machine going again after the exit     *)
(* work (main.rs:13902, 15761).                                            *)
THEOREM ExitLosesNothing == Spec => []NothingLostByExit
<1>1. Init => StillOrMoved
  BY DEF Init, StillOrMoved
<1>2. Guarded /\ StillOrMoved => NothingLostByExit
  BY DEF Guarded, StillOrMoved, NothingLostByExit
<1> QED
  BY <1>1, <1>2, InitWhere, InitGuarded, StepWhere, StepGuarded, StepStill, PTL DEF Spec

-----------------------------------------------------------------------------
(* The idle watch.                                                         *)

(* The clock is never ahead of the time that has passed without a request, *)
(* and keeps what the last keep_alive was promised.                        *)
ClockTrue ==
    /\ idle_for \in Nat /\ quiet_for \in Nat /\ kept_for \in Nat
    /\ idle_for <= quiet_for /\ quiet_for <= Window
    /\ ~kept_forever => promised = kept_for
    /\ kept_forever => promised = NoOne

LEMMA InitClock == Init => ClockTrue
  BY ExitAssumption DEF Init, ClockTrue

LEMMA StepClock == ClockTrue /\ [Next]_vars => ClockTrue'
<1> SUFFICES ASSUME ClockTrue, [Next]_vars PROVE ClockTrue'
  OBVIOUS
<1> USE ExitAssumption
<1>1. ASSUME UNCHANGED <<quiet_for, kept_for, promised>>, kept_forever' <=> kept_forever,
             idle_for' \in {0, idle_for}
      PROVE  ClockTrue'
  BY <1>1 DEF ClockTrue
<1>2. CASE Tick
  <2>1. /\ idle_for' = Least(idle_for + 1, Window) /\ quiet_for' = Least(quiet_for + 1, Window)
        /\ kept_for' = Less(kept_for)
        /\ promised' = IF promised = NoOne THEN NoOne ELSE Less(promised)
        /\ kept_forever' = kept_forever
    BY <1>2 DEF Tick
  <2>2. /\ idle_for' \in Nat /\ quiet_for' \in Nat /\ kept_for' \in Nat
        /\ idle_for' <= quiet_for' /\ quiet_for' <= Window
    BY <2>1 DEF Least, Less, ClockTrue
  <2>3. CASE kept_forever
    BY <2>1, <2>2, <2>3 DEF ClockTrue
  <2>4. CASE ~kept_forever
    BY <2>1, <2>2, <2>4 DEF ClockTrue
  <2> QED
    BY <2>3, <2>4
<1>3. ASSUME NEW c \in Clients, Client(c) PROVE ClockTrue'
  <2>1. CASE Connect(c) \/ PeerGone(c) \/ Disconnect(c) \/ Unpark(c) \/ ReplyFails(c)
    BY <1>1, <2>1 DEF Connect, PeerGone, Disconnect, Unpark, ReplyFails, clock, history
  <2>2. ASSUME Request(c) PROVE idle_for' = 0 /\ quiet_for' = 0
    BY <2>2 DEF Request, Touch
  <2>3. CASE \/ Plain(c) \/ RunMachine(c) \/ StepMachine(c) \/ TraceRun(c)
             \/ AskShutdown(c)
    <3>1. Request(c) /\ UNCHANGED <<kept_for, kept_forever, promised>>
      BY <2>3 DEF Plain, RunMachine, StepMachine, TraceRun, AskShutdown
    <3> QED
      BY <2>2, <3>1 DEF ClockTrue
  <2>4. CASE KeepAlive(c)
    <3>1. CASE \E s \in Keeps : kept_for' = s /\ kept_forever' = FALSE /\ promised' = s
      BY <2>2, <2>4, <3>1 DEF KeepAlive, ClockTrue
    <3>2. CASE kept_for' = 0 /\ kept_forever' = TRUE /\ promised' = NoOne
      BY <2>2, <2>4, <3>2 DEF KeepAlive, ClockTrue
    <3> QED
      BY <2>4, <3>1, <3>2 DEF KeepAlive
  <2> QED
    BY <1>3, <2>1, <2>3, <2>4 DEF Client
<1>4. CASE WritesMedium \/ AutoPersist \/ StopsRunning \/ Releases
  BY <1>1, <1>4 DEF WritesMedium, AutoPersist, StopsRunning, Releases, Machine, clock, history
<1>5. CASE LooksForTrace \/ LooksForSubscribers \/ Decides
  BY <1>1, <1>5 DEF LooksForTrace, LooksForSubscribers, Decides, clock, history
<1>6. CASE HoldsClock
  BY <1>1, <1>6 DEF HoldsClock, Hold, history
<1>7. CASE SignalArrives
  BY <1>1, <1>7 DEF SignalArrives, clock, history
<1>8. ASSUME NEW d \in Doors, TakeGuard(d) PROVE ClockTrue'
  BY <1>1, <1>8 DEF TakeGuard, clock, history
<1>9. ASSUME NEW d \in Doors, ExitWork(d) PROVE ClockTrue'
  BY <1>1, <1>9 DEF ExitWork, clock
<1>10. CASE EndProcess
  BY <1>1, <1>10 DEF EndProcess, clock, history
<1>11. CASE UNCHANGED vars
  BY <1>1, <1>11 DEF vars, clock, history
<1> QED
  BY <1>2, <1>3, <1>4, <1>5, <1>6, <1>7, <1>8, <1>9, <1>10, <1>11, StepCases
     DEF WatchStep, EndsItself, RepliesAndEnds

(* What a round has not found came after it looked.                        *)
TraceUnseen == tracing => Watch \in unseen
AllUnseen == Subscribers \subseteq unseen /\ TraceUnseen
RoundTrue ==
    /\ watch = "counting" => TraceUnseen
    /\ watch = "holding" /\ ~found => AllUnseen
    /\ watch = "deciding" /\ ~holding => AllUnseen

LEMMA StepRound == WhereTheyStand /\ RoundTrue /\ [Next]_vars => RoundTrue'
<1> SUFFICES ASSUME WhereTheyStand, RoundTrue, [Next]_vars PROVE RoundTrue'
  OBVIOUS
<1> USE ExitAssumption
<1>1. Watch \notin Clients /\ Subscribers \subseteq Clients
  BY DEF Subscribers
<1>2. ASSUME watch' = watch, found' <=> found, holding' <=> holding,
             TraceUnseen => TraceUnseen', AllUnseen => AllUnseen'
      PROVE  RoundTrue'
  BY <1>2 DEF RoundTrue
<1>3. ASSUME UNCHANGED <<client, av, writer>>, tracing' => tracing, unseen' = unseen
      PROVE  (TraceUnseen => TraceUnseen') /\ (AllUnseen => AllUnseen')
  BY <1>3 DEF TraceUnseen, AllUnseen, Subscribers
<1>4. CASE Tick
  <2>1. CASE watch' = "looking"
    BY <2>1 DEF RoundTrue
  <2>2. CASE watch' = watch
    BY <1>2, <1>3, <1>4, <2>2 DEF Tick, connections, session
  <2> QED
    BY <1>4, <2>1, <2>2 DEF Tick
<1>5. ASSUME NEW c \in Clients, Client(c) PROVE RoundTrue'
  <2>1. watch' = watch /\ (found' <=> found) /\ (holding' <=> holding)
    <3>1. CASE Request(c)
      BY <3>1 DEF Request, round
    <3>2. CASE \/ RunMachine(c) \/ StepMachine(c) \/ Plain(c) \/ KeepAlive(c)
               \/ TraceRun(c) \/ AskShutdown(c)
      BY <3>1, <3>2 DEF RunMachine, StepMachine, Plain, KeepAlive, TraceRun, AskShutdown
    <3>3. CASE Connect(c) \/ PeerGone(c) \/ Disconnect(c) \/ Unpark(c) \/ ReplyFails(c)
      BY <3>3 DEF Connect, PeerGone, Disconnect, Unpark, ReplyFails, round, clock
    <3> QED
      BY <1>5, <3>2, <3>3 DEF Client
  <2>2. CASE Connect(c)
    <3>1. Subscribers' \subseteq Subscribers \cup (IF av'[c] THEN {c} ELSE {})
      BY <2>2 DEF Connect, Subscribers, WhereTheyStand
    <3>2. unseen' = (IF av'[c] THEN unseen \cup {c} ELSE unseen) /\ tracing' = tracing
      BY <2>2 DEF Connect, session
    <3> QED
      BY <1>2, <2>1, <3>1, <3>2 DEF AllUnseen, TraceUnseen
  <2>3. CASE PeerGone(c)
    <3>1. Subscribers' \subseteq Subscribers /\ unseen' = unseen /\ tracing' = tracing
      BY <2>3 DEF PeerGone, Subscribers, WhereTheyStand, session, history
    <3> QED
      BY <1>2, <2>1, <3>1 DEF AllUnseen, TraceUnseen
  <2>4. CASE Disconnect(c) \/ ReplyFails(c)
    <3>1. Subscribers' \subseteq Subscribers \ {c}
      BY <2>4 DEF Disconnect, ReplyFails, Closed, Subscribers, WhereTheyStand
    <3>2. unseen' = unseen \ {c} /\ tracing' = tracing
      BY <2>4 DEF Disconnect, ReplyFails, Closed, session
    <3> QED
      BY <1>1, <1>2, <2>1, <3>1, <3>2 DEF AllUnseen, TraceUnseen
  <2>5. ASSUME Subscribers' = Subscribers, tracing' = tracing, unseen' = unseen
        PROVE  RoundTrue'
    BY <1>2, <2>1, <2>5 DEF AllUnseen, TraceUnseen
  <2>6. CASE Plain(c) \/ KeepAlive(c)
    <3>1. UNCHANGED <<client, av, writer>> /\ tracing' = tracing /\ unseen' = unseen
      BY <2>6 DEF Plain, KeepAlive, Request, session
    <3> QED
      BY <2>5, <3>1 DEF Subscribers
  <2>7. CASE RunMachine(c) \/ StepMachine(c)
    <3>1. Subscribers' = Subscribers
      BY <2>7 DEF RunMachine, StepMachine, Request, Subscribers, WhereTheyStand
    <3> QED
      BY <2>5, <2>7, <3>1 DEF RunMachine, StepMachine
  <2>8. CASE Unpark(c)
    <3>1. Subscribers' = Subscribers
      BY <2>8 DEF Unpark, Subscribers, WhereTheyStand
    <3> QED
      BY <2>5, <2>8, <3>1 DEF Unpark, session, history
  <2>9. CASE AskShutdown(c)
    <3>1. Subscribers' = Subscribers
      BY <2>9 DEF AskShutdown, Request, Subscribers, WhereTheyStand
    <3> QED
      BY <2>5, <2>9, <3>1 DEF AskShutdown, session
  <2>10. CASE TraceRun(c)
    <3>1. UNCHANGED <<client, av, writer>>
      BY <2>10 DEF TraceRun, Request
    <3>2. unseen' = IF tracing' THEN unseen \union {Watch} ELSE unseen \ {Watch}
      BY <2>10 DEF TraceRun
    <3> QED
      BY <1>1, <1>2, <2>1, <3>1, <3>2 DEF AllUnseen, TraceUnseen, Subscribers
  <2> QED
    BY <1>5, <2>2, <2>3, <2>4, <2>6, <2>7, <2>8, <2>9, <2>10 DEF Client
<1>6. CASE WritesMedium \/ AutoPersist \/ StopsRunning \/ Releases
  BY <1>2, <1>3, <1>6 DEF WritesMedium, AutoPersist, StopsRunning, Releases, Machine, clock, round,
                          connections, history
<1>7. CASE LooksForTrace
  <2>1. CASE tracing
    BY <1>7, <2>1 DEF LooksForTrace, RoundTrue
  <2>2. CASE ~tracing
    BY <1>7, <2>2 DEF LooksForTrace, RoundTrue, TraceUnseen, session
  <2> QED
    BY <2>1, <2>2
<1>8. CASE LooksForSubscribers
  <2>1. TraceUnseen'
    BY <1>1, <1>8 DEF LooksForSubscribers, RoundTrue, TraceUnseen, session
  <2>2. ~found' => Subscribers' = {}
    BY <1>8 DEF LooksForSubscribers, Subscribers, connections
  <2> QED
    BY <1>8, <2>1, <2>2 DEF LooksForSubscribers, RoundTrue, AllUnseen
<1>9. CASE HoldsClock
  <2>1. (holding' <=> found) /\ watch = "holding" /\ watch' = "deciding"
    BY <1>9 DEF HoldsClock, Hold
  <2>2. AllUnseen => AllUnseen'
    BY <1>3, <1>9 DEF HoldsClock, connections, session, history
  <2> QED
    BY <2>1, <2>2 DEF RoundTrue
<1>10. CASE Decides
  BY <1>10 DEF Decides, RoundTrue
<1>11. CASE SignalArrives
  BY <1>2, <1>3, <1>11 DEF SignalArrives, clock, round, connections, session, history
<1>12. ASSUME NEW d \in Doors, TakeGuard(d) PROVE RoundTrue'
  BY <1>2, <1>3, <1>12 DEF TakeGuard, clock, round, connections, session, history
<1>13. ASSUME NEW d \in Doors, ExitWork(d) PROVE RoundTrue'
  <2>1. ~tracing' /\ unseen' = unseen \ {Watch} /\ Subscribers' = Subscribers
        /\ watch' = watch /\ (found' <=> found) /\ (holding' <=> holding)
    BY <1>13 DEF ExitWork, Save, Subscribers, connections, round, clock
  <2> QED
    BY <1>1, <1>2, <2>1 DEF AllUnseen, TraceUnseen
<1>14. CASE EndProcess
  BY <1>2, <1>3, <1>14 DEF EndProcess, clock, round, connections, session, history
<1>15. CASE UNCHANGED vars
  BY <1>2, <1>3, <1>15 DEF vars, clock, round, connections, session, history
<1> QED
  BY <1>4, <1>5, <1>6, <1>7, <1>8, <1>9, <1>10, <1>11, <1>12, <1>13, <1>14, <1>15, StepCases
     DEF WatchStep, EndsItself, RepliesAndEnds

(* Only the watch's decision sends it to the exit.                         *)
LEMMA OnlyDecidesLeaves ==
    ASSUME WhereTheyStand, [Next]_vars, exit[Watch] = "no", exit'[Watch] = "wants"
    PROVE  Decides /\ Expired
<1> USE ExitAssumption DEF WhereTheyStand
<1>1. Watch \in Doors /\ Watch \notin Clients /\ Watch # Signal
  BY DEF Doors
<1>2. exit' # exit
  OBVIOUS
<1>3. ASSUME NEW c \in Clients, Client(c) PROVE FALSE
  <2>1. CASE AskShutdown(c) \/ ReplyFails(c)
    BY <1>1, <2>1 DEF AskShutdown, ReplyFails
  <2> QED
    BY <1>2, <1>3, <2>1 DEF Client, Connect, PeerGone, Disconnect, Plain, KeepAlive, RunMachine,
                            StepMachine, Unpark, TraceRun, shutdown
<1>4. ~Tick /\ ~WritesMedium /\ ~AutoPersist /\ ~StopsRunning /\ ~Releases
  BY <1>2 DEF Tick, WritesMedium, AutoPersist, StopsRunning, Releases, Machine, shutdown
<1>5. ~LooksForTrace /\ ~LooksForSubscribers /\ ~HoldsClock
  BY <1>2 DEF LooksForTrace, LooksForSubscribers, HoldsClock, shutdown
<1>6. ~SignalArrives
  BY <1>1 DEF SignalArrives
<1>7. ASSUME NEW d \in Doors, TakeGuard(d) PROVE FALSE
  BY <1>1, <1>7 DEF TakeGuard
<1>8. ASSUME NEW d \in Doors, ExitWork(d) PROVE FALSE
  BY <1>1, <1>8 DEF ExitWork
<1>9. ~EndProcess /\ ~UNCHANGED vars
  BY <1>2 DEF EndProcess, vars, shutdown
<1>10. Decides
  BY <1>3, <1>4, <1>5, <1>6, <1>7, <1>8, <1>9, StepCases DEF WatchStep, EndsItself, RepliesAndEnds
<1> QED
  BY <1>2, <1>10 DEF Decides

(* When the watch decides to leave, the window has gone by without a       *)
(* request, the last keep_alive has run out, and whoever is watching or    *)
(* tracing came after the round looked (main.rs:19254-19273, idle.rs:69).  *)
THEOREM IdleExitOnlyWhenIdle == Spec => IdleExitIsJust
<1>1. WhereTheyStand /\ ClockTrue /\ RoundTrue /\ [Next]_vars =>
        [ exit[Watch] = "no" /\ exit'[Watch] = "wants" =>
            /\ quiet_for = Window /\ promised = 0
            /\ Subscribers \subseteq unseen
            /\ tracing => Watch \in unseen ]_vars
  <2> SUFFICES ASSUME WhereTheyStand, ClockTrue, RoundTrue, [Next]_vars,
                      exit[Watch] = "no", exit'[Watch] = "wants"
               PROVE  /\ quiet_for = Window /\ promised = 0
                      /\ Subscribers \subseteq unseen
                      /\ tracing => Watch \in unseen
    OBVIOUS
  <2>1. Decides /\ Expired
    BY OnlyDecidesLeaves
  <2>2. quiet_for = Window /\ promised = 0
    BY <2>1, ExitAssumption DEF Expired, ClockTrue
  <2>3. AllUnseen
    BY <2>1 DEF Decides, Expired, RoundTrue
  <2> QED
    BY <2>2, <2>3 DEF AllUnseen, TraceUnseen
<1>2. Init => RoundTrue
  BY DEF Init, RoundTrue
<1> QED
  BY <1>1, <1>2, InitWhere, InitClock, StepWhere, StepClock, StepRound, PTL
     DEF Spec, IdleExitIsJust

(* The process ends on finished work, and loses nothing of a machine that  *)
(* nobody set going again after it (main.rs:13884, 15761).                 *)
THEOREM ExitStaysClean == Spec => []ExitIsClean
<1>1. ExitAfterWork /\ NothingLostByExit => ExitIsClean
  BY DEF ExitIsClean
<1> QED
  BY <1>1, ExitComesAfterWork, ExitLosesNothing, PTL
=============================================================================
