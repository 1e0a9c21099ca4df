----------------------------- MODULE BoundedRun ------------------------------
(***************************************************************************)
(* Bounded runs and who drives the machine (trx64-daemon/src/main.rs,      *)
(* streaming.rs): a client runs the machine for so many cycles, perhaps in *)
(* warp, and may wait for the stop; the run loop stops it on the cap; and  *)
(* a machine its agent has left is given back to the human, running.       *)
(*                                                                         *)
(* A request is two steps, since the hook that says who drives takes the   *)
(* State lock on its own, before the handler.  The machine's clock is kept *)
(* as the cycles left to the cap, wall-clock time as ticks.  The transport *)
(* does not hold the machine (that is RewindTransport's), and the machine  *)
(* is powered.  A breakpoint, a watchpoint and a JAM are one kind of stop. *)
(* A definition named for a slip is the one after it with that slip.       *)
(***************************************************************************)
EXTENDS Integers, FiniteSetsExt

CONSTANTS
    Clients,
    Agents,         \* the clients whose source is "llm"
    None,
    FrameCycles,    \* the cycles of a frame
    WarpFrames,     \* the frames of an iteration in warp
    Overrun,        \* the cycles an instruction may take past its target
    IdleWindow,     \* the ticks after which an agent counts as gone
    Lengths,        \* the cycles a client may ask for
    Stalls,         \* the lock may be held for longer than a tick
    MaxRequests     \* bound: client requests

(* Assumed by RunControl, which takes an instance of this module.           *)
RunAssumption == /\ Agents \subseteq Clients
                 /\ None \notin Int \union {"realtime", "warp"}
                 /\ FrameCycles \in Nat \ {0} /\ WarpFrames \in Nat \ {0}
                 /\ Overrun \in Nat /\ IdleWindow \in Nat \ {0, 1}
                 /\ Lengths \subseteq Nat /\ Stalls \in BOOLEAN
                 /\ MaxRequests \in Nat

VARIABLES
    machine,        \* running, the cycles left to the cap, the pace and the
                    \* one to go back to, the last stop; history: how far
                    \* the last cap was overrun
    owner, idle,    \* control_owner, the ticks since last_llm_activity
    watching,       \* av_subscribers > 0
    client,         \* the request a client waits for
    iterated,       \* the loop has iterated in this tick
    requests,
    chosen,         \* history: the pace last set by session/set_pacing
    kept,           \* history: the one last set while no run with a pace of
                    \* its own was under way
    held,           \* history: a client has stopped the machine, and
                    \* nobody has set it going since
    carried,        \* history: the cap was left armed by a stop
    mine            \* history: who waits for a bounded run still its own

history == <<chosen, kept, held, carried, mine>>
vars == <<machine, owner, idle, watching, client, iterated, requests, history>>

Paces == {"realtime", "warp"}
Stops == {"none", "pause", "step", "breakpoint", "budget"}
Machine == [running : BOOLEAN, left : Int \union {None}, pace : Paces,
            prev : Paces \union {None}, stop : Stops, over : Int]

\* The methods note_operating_owner_for knows, and those it does not.
Operating == {"session/run", "debug/run", "debug/pause", "debug/continue",
              "debug/step", "session/reset", "monitor pause", "monitor run"}
Others == {"session/play", "session/pause", "transport/toggle",
           "session/set_pacing", "debug/memory_access_map"}

Source(c) == IF c \in Agents THEN "llm" ELSE "human"

Init ==
    /\ machine = [running |-> TRUE, left |-> None, pace |-> "realtime",
                  prev |-> None, stop |-> "none", over |-> 0]
    /\ owner = "human" /\ idle = None /\ watching = FALSE
    /\ client = [c \in Clients |-> "none"] /\ iterated = FALSE
    /\ requests = 0
    /\ chosen = "realtime" /\ kept = "realtime"
    /\ held = FALSE /\ carried = FALSE /\ mine = {}

-----------------------------------------------------------------------------
(* What happens to a machine m.                                            *)

EndKeepingPace(m) == [m EXCEPT !.left = None, !.prev = None]

(* end_bounded_run: the pace goes back to the session.                     *)
EndBoundedRun(m) ==
    [m EXCEPT !.left = None, !.prev = None,
              !.pace = IF m.prev = None THEN @ ELSE m.prev]

Going(m) == [m EXCEPT !.running = TRUE, !.stop = "none"]
Stopped(m, reason) == [m EXCEPT !.running = FALSE, !.stop = reason]

(* start_run: no length is a free run, and then there is no pace of its    *)
(* own either.                                                             *)
StartRun(m, length, pace) ==
    LET r == Going(EndBoundedRun(m)) IN
    CASE length = None -> r
      [] length # None /\ pace \in {None, r.pace} -> [r EXCEPT !.left = length]
      [] OTHER -> [r EXCEPT !.left = length, !.prev = r.pace, !.pace = pace]

(* The cycles an advance means to make: no more than the cap allows.       *)
Target(m, budget) ==
    IF m.left = None THEN budget ELSE Min({budget, Max({0, m.left})})

CapPassed(m, cycles) == m.left # None /\ m.left < cycles
CapReached(m, cycles) == m.left # None /\ m.left <= cycles

(* The machine has advanced, perhaps onto a breakpoint.  The cap is looked *)
(* at last, and either ends the bounded run.                               *)
Advanced(m, cycles, hit) ==
    CASE CapReached(m, cycles) ->
             [EndBoundedRun(Stopped(m, "budget"))
                 EXCEPT !.over = cycles - Max({0, m.left})]
      [] hit /\ ~CapReached(m, cycles) ->
             EndBoundedRun(Stopped(m, "breakpoint"))
      [] OTHER -> IF m.left = None THEN m ELSE [m EXCEPT !.left = @ - cycles]

(* advance_frames: it ends at an instruction's end, or where it halts.     *)
Advances(m, budget) ==
    LET t == Target(m, budget)
        past == IF t = 0 THEN 0 ELSE Overrun
    IN  {Advanced(m, k, FALSE) : k \in t .. (t + past)}
            \union (IF t = 0 THEN {} ELSE {Advanced(m, k, TRUE) : k \in 0 .. t})

(* maybe_autopause_capped_run: the advance of an agent's bounded run is    *)
(* activity of its own.                                                    *)
RefreshNever(m, o, i) == i
Refreshed(m, o, i) == IF m.left # None /\ o = "llm" THEN 0 ELSE i

(* What the properties remember of a step.                                 *)
StillTheRun ==
    machine'.running =>
        /\ machine.running /\ machine.left # None /\ machine'.left # None
        /\ machine'.left <= machine.left

Remember ==
    /\ held' = (~machine'.running /\ (held \/ machine'.stop \in {"pause", "step"}))
    /\ carried' = /\ machine'.left # None \/ held'
                  /\ carried \/ (machine'.left # None /\ ~machine'.running)
    /\ mine' = {c \in Clients :
                  /\ client'[c] = "parked"
                  /\ IF client[c] = "parked" THEN c \in mine /\ StillTheRun
                                             ELSE machine'.left # None}

-----------------------------------------------------------------------------
(* The run loop.                                                           *)

ReleaseDueOnceStopped ==
    /\ owner = "llm" /\ idle # None /\ idle >= IdleWindow
    /\ ~machine.running

ReleaseDue == owner = "llm" /\ idle # None /\ idle >= IdleWindow

(* What a release sets going again: a machine its cap has stopped, while   *)
(* somebody watches.                                                       *)
LetsGo == watching /\ ~machine.running /\ machine.stop = "budget"

(* One iteration: release_idle_control_owner, then the advance.            *)
Iterate ==
    LET m == IF ReleaseDue /\ LetsGo THEN Going(machine) ELSE machine
        o == IF ReleaseDue THEN "human" ELSE owner
        i == IF ReleaseDue THEN None ELSE idle
        budget == IF m.pace = "warp" THEN FrameCycles * WarpFrames ELSE FrameCycles
    IN  /\ owner' = o /\ iterated' = TRUE
        /\ IF m.running
           THEN machine' \in Advances(m, budget) /\ idle' = Refreshed(m, o, i)
           ELSE machine' = m /\ idle' = i
        /\ UNCHANGED <<watching, client, requests, chosen, kept>> /\ Remember

-----------------------------------------------------------------------------
(* Requests.                                                               *)

(* A request arrives: note_operating_owner_for.                            *)
Request(c) ==
    /\ client[c] = "none" /\ requests < MaxRequests
    /\ requests' = requests + 1
    /\ \E method \in Operating \union Others :
         /\ client' = [client EXCEPT ![c] = method]
         /\ IF method \in Operating
            THEN /\ owner' = Source(c)
                 /\ idle' = IF c \in Agents THEN 0 ELSE idle
            ELSE UNCHANGED <<owner, idle>>
    /\ UNCHANGED <<machine, watching, iterated, chosen, kept>> /\ Remember

Reply(c) == client' = [client EXCEPT ![c] = "none"]
Park(c) == client' = [client EXCEPT ![c] = "parked"]
HandlerFrame == UNCHANGED <<watching, iterated, requests>> /\ Remember

(* A debug/* handler says once more who drives, without the stamp.         *)
Drives(c) == owner' = Source(c) /\ UNCHANGED idle

SessionRun(c) ==
    /\ client[c] = "session/run"
    /\ \E n \in Lengths, pace \in Paces : machine' = StartRun(machine, n, pace)
    /\ Park(c)
    /\ HandlerFrame /\ UNCHANGED <<owner, idle, chosen, kept>>

DebugRun(c) ==
    /\ client[c] = "debug/run"
    /\ \E n \in Lengths \union {None}, pace \in Paces \union {None} :
          machine' = StartRun(machine, n, pace)
    /\ Park(c) \/ Reply(c)
    /\ Drives(c) /\ HandlerFrame /\ UNCHANGED <<chosen, kept>>

DebugPause(c) ==
    /\ client[c] = "debug/pause"
    /\ machine' = EndBoundedRun(Stopped(machine, "pause"))
    /\ Reply(c) /\ Drives(c) /\ HandlerFrame /\ UNCHANGED <<chosen, kept>>

DebugContinue(c) ==
    /\ client[c] = "debug/continue"
    /\ machine' = Going(machine)
    /\ Reply(c) /\ Drives(c) /\ HandlerFrame /\ UNCHANGED <<chosen, kept>>

(* debug/step runs one instruction past any cap, which stays armed.        *)
DebugStep(c) ==
    /\ client[c] = "debug/step"
    /\ \E k \in 1 .. (Overrun + 1) :
          machine' = [Stopped(machine, "step") EXCEPT
                         !.left = IF @ = None THEN None ELSE @ - k]
    /\ Reply(c) /\ Drives(c) /\ HandlerFrame /\ UNCHANGED <<chosen, kept>>

SessionPause(c) ==
    /\ client[c] = "session/pause"
    /\ machine' = EndBoundedRun(Stopped(machine, "pause"))
    /\ Reply(c) /\ HandlerFrame /\ UNCHANGED <<owner, idle, chosen, kept>>

(* The monitor's pause, and the toggle's, leave the cap armed.             *)
Pause(c) ==
    /\ \/ client[c] = "monitor pause"
       \/ client[c] = "transport/toggle" /\ machine.running
    /\ machine' = Stopped(machine, "pause")
    /\ Reply(c) /\ HandlerFrame /\ UNCHANGED <<owner, idle, chosen, kept>>

(* The monitor's run, the toggle's, and session/play.                      *)
Play(c) ==
    /\ \/ client[c] \in {"monitor run", "session/play"}
       \/ client[c] = "transport/toggle" /\ ~machine.running
    /\ machine' = Going(machine)
    /\ Reply(c) /\ HandlerFrame /\ UNCHANGED <<owner, idle, chosen, kept>>

(* A reset, warm or cold, ends the bounded run and runs.                   *)
Reset(c) ==
    /\ client[c] = "session/reset"
    /\ machine' = Going(EndBoundedRun(machine))
    /\ Reply(c) /\ HandlerFrame /\ UNCHANGED <<owner, idle, chosen, kept>>

(* session/set_pacing.  It leaves what a run is to give back: a pace chosen *)
(* while a run has one of its own is written over at that run's end.       *)
SetPacing(c) ==
    /\ client[c] = "session/set_pacing"
    /\ \E pace \in Paces : /\ machine' = [machine EXCEPT !.pace = pace]
                           /\ chosen' = pace
                           /\ kept' = IF machine.prev = None THEN pace ELSE kept
    /\ Reply(c) /\ HandlerFrame /\ UNCHANGED <<owner, idle>>

(* debug/memory_access_map and its like: run_inline, which advances a      *)
(* paused machine too.                                                     *)
RunInline(c) ==
    /\ client[c] = "debug/memory_access_map"
    /\ \E n \in Lengths : machine' \in Advances(machine, n)
    /\ idle' = Refreshed(machine, owner, idle)
    /\ Reply(c) /\ HandlerFrame /\ UNCHANGED <<owner, chosen, kept>>

Handle(c) ==
    \/ SessionRun(c) \/ DebugRun(c) \/ DebugPause(c) \/ DebugContinue(c)
    \/ DebugStep(c) \/ SessionPause(c) \/ Pause(c) \/ Play(c) \/ Reset(c)
    \/ SetPacing(c) \/ RunInline(c)

(* park_until_stopped returns.                                             *)
Due(c) == client[c] = "parked" /\ ~machine.running
Return(c) ==
    /\ Due(c) /\ Reply(c) /\ UNCHANGED <<machine, owner, idle, chosen, kept>>
    /\ HandlerFrame

-----------------------------------------------------------------------------
(* A viewer comes or goes.                                                 *)
Watch ==
    /\ watching' = ~watching
    /\ UNCHANGED <<machine, owner, idle, client, iterated, requests, chosen, kept>>
    /\ Remember

(* Time passes.  Unless something stalls, every tick sees an iteration,    *)
(* and what has been asked is handled within it.                           *)
Tick ==
    /\ \/ Stalls
       \/ /\ iterated
          /\ \A c \in Clients : client[c] \in {"none", "parked"} /\ ~Due(c)
    /\ idle' = IF idle = None THEN None ELSE Min({IdleWindow, idle + 1})
    /\ iterated' = FALSE
    /\ UNCHANGED <<machine, owner, watching, client, requests, chosen, kept>>
    /\ Remember

Next ==
    \/ \E c \in Clients : Request(c) \/ Handle(c) \/ Return(c)
    \/ Iterate \/ Watch \/ Tick

Fairness ==
    /\ WF_vars(Iterate) /\ WF_vars(Tick)
    /\ \A c \in Clients : WF_vars(Handle(c) \/ Return(c))

Spec == Init /\ [][Next]_vars
FairSpec == Spec /\ Fairness

-----------------------------------------------------------------------------
TypeOK ==
    /\ machine \in Machine
    /\ owner \in {"human", "llm"} /\ idle \in (0 .. IdleWindow) \union {None}
    /\ client \in [Clients -> Operating \union Others \union {"none", "parked"}]
    /\ watching \in BOOLEAN /\ iterated \in BOOLEAN /\ requests \in 0 .. MaxRequests
    /\ chosen \in Paces /\ kept \in Paces
    /\ held \in BOOLEAN /\ carried \in BOOLEAN /\ mine \subseteq Clients

(* Whichever way a bounded run ends -- its cap, a breakpoint, a pause, a   *)
(* reset, another run -- the session is back at the pace it was in before  *)
(* the run asked for another (end_bounded_run).  A pace chosen during such *)
(* a run is not kept: ChosenPaceStays, below, is what the code does not do. *)
PaceGivenBack == machine.left = None => machine.pace = kept

(* However the advance is cut up, by iterations, warp and runs inside      *)
(* handlers, a bounded run stops on the first instruction boundary at its  *)
(* cap or past it (advance_frames).                                        *)
StopsOnItsCap == machine.over <= Overrun

(* A bounded run ends where it was asked to, and leaves the session at the *)
(* pace it found it in (advance_frames, end_bounded_run).                  *)
EndsAsAsked == PaceGivenBack /\ StopsOnItsCap

(* The machine is not taken from an agent while its bounded run advances   *)
(* (maybe_autopause_capped_run), unless the run was stopped and resumed.   *)
ReleasedMidRun ==
    /\ owner = "llm" /\ owner' = "human" /\ client' = client
    /\ machine.running /\ machine.left # None /\ ~carried
NoReleaseMidRun == [][~ReleasedMidRun]_vars

(* A machine that a client has stopped is not set going behind its back    *)
(* (release_idle_control_owner), unless the stop left a cap armed.         *)
ReleaseKeepsPause ==
    [][held /\ ~carried /\ client' = client => ~machine'.running]_vars

(* The idle release takes the machine neither from a run nor from a client *)
(* that stopped it (maybe_autopause_capped_run,                            *)
(* release_idle_control_owner).                                            *)
ReleaseIsJust == NoReleaseMidRun /\ ReleaseKeepsPause

(* An agent that has gone leaves the machine to the human in the end,      *)
(* whatever it left running (release_idle_control_owner).                  *)
OwnerGoesBack == owner = "llm" ~> owner = "human"

(* Who waits for its bounded run is answered, unless another client's run  *)
(* took the machine before it woke (park_until_stopped).                   *)
WaitedRunAnswers == \A c \in Clients : c \in mine ~> c \notin mine

-----------------------------------------------------------------------------
(* What the properties rest on.                                            *)

(* A pace of a run's own goes with its cap, and the session's is kept.     *)
PaceIsOwed ==
    /\ machine.prev # None => machine.left # None
    /\ kept = IF machine.prev = None THEN machine.pace ELSE machine.prev

(* A stop that leaves the cap armed is remembered, and the machine stopped *)
(* by a client does not look stopped by its cap.                           *)
StopsAreKnown ==
    /\ ~machine.running /\ machine.left # None => carried
    /\ held => ~machine.running /\ (carried \/ machine.stop # "budget")

(* An agent whose request is in hand, or whose run advances, is not idle.  *)
AgentIsThere ==
    /\ \A c \in Clients :
          client[c] \in Operating /\ (c \in Agents \/ owner = "llm") => idle = 0
    /\ owner = "llm" /\ machine.running /\ machine.left # None /\ ~carried
          => idle \in {0, 1} /\ (iterated => idle = 0)

IInv == /\ TypeOK /\ PaceIsOwed /\ StopsOnItsCap /\ StopsAreKnown
        /\ ~Stalls => AgentIsThere

-----------------------------------------------------------------------------
(* What comments say of it, and the code does not do.                      *)

(* "the call returns when the run has stopped" (debug/run): and is not left *)
(* waiting for a run that somebody starts before it has looked.            *)
WaitEndsWithItsRun ==
    [][\A c \in mine : ~machine.running /\ client'[c] = "parked"
          => ~machine'.running]_vars

(* "If the LLM left the machine paused by a capped run (a "budget" stop    *)
(* -- NOT a human pause / breakpoint / jam), resume the free-run".         *)
ReleaseKeepsEveryPause == [][held /\ client' = client => ~machine'.running]_vars

(* "so the idle-release does not fire MID-run".                            *)
NeverReleasedMidRun ==
    [][(owner = "llm" /\ owner' = "human" /\ client' = client)
          => ~machine.running \/ machine.left = None]_vars

(* session/set_pacing "stores mode unconditionally", which is "how fast    *)
(* the machine runs": the end of a bounded run that had a pace of its own  *)
(* takes the stored mode back.                                             *)
ChosenPaceStays == machine.left = None => machine.pace = chosen
=============================================================================
