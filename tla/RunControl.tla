----------------------------- MODULE RunControl ------------------------------
(* The two halves of what sets a machine going and stops it: the rewind    *)
(* transport, which holds one or lets go of it, and the bounded runs of a  *)
(* machine that it does not hold.  They are about different machines, so   *)
(* the second has variables of its own.                                    *)
EXTENDS RewindTransport

CONSTANTS Clients, Agents, FrameCycles, WarpFrames, Overrun, IdleWindow, Lengths,
          Stalls, MaxAsked

VARIABLES c64, owner, idle, watching, client, iterated, asked,
          chosen, kept, held, carried, mine

Bounded == INSTANCE BoundedRun
    WITH machine <- c64, requests <- asked, MaxRequests <- MaxAsked

ASSUME RunsAssumption == Bounded!RunAssumption

(* Bounded runs, with the transport standing by.                           *)
RunInit == Init /\ Bounded!Init
RunSpec == /\ RunInit /\ [][Bounded!Next /\ UNCHANGED vars]_<<vars, Bounded!vars>>
           /\ Bounded!Fairness

(* A bounded run ends where it was asked to, and leaves the session at the *)
(* pace it found it in (advance_frames, end_bounded_run).                  *)
EndsAsAsked == Bounded!EndsAsAsked

(* The idle release takes the machine neither from a run nor from a client *)
(* that stopped it (maybe_autopause_capped_run,                            *)
(* release_idle_control_owner).                                            *)
ReleaseIsJust == Bounded!ReleaseIsJust

(* An agent that has gone leaves the machine to the human in the end       *)
(* (release_idle_control_owner).                                           *)
OwnerGoesBack == Bounded!OwnerGoesBack

(* Who waits for its bounded run is answered (park_until_stopped).         *)
WaitedRunAnswers == Bounded!WaitedRunAnswers
==============================================================================
