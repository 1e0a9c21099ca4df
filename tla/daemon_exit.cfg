\* Requests, a subscriber, a signal and the idle watch on the way out.
SPECIFICATION FairSpec
CONSTANTS
    Clients = {c1}
    Watch = Watch
    Signal = Signal
    NoOne = NoOne
    Armed = TRUE
    Window = 1
    Keeps = {2}
    AgentWindow = 1
    MaxRequests = 3
INVARIANT
    ExitIsClean
PROPERTIES
    IdleExitIsJust
    IdleDaemonEnds
