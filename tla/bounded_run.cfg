\* Bounded runs, and who drives; the transport stands by.
SPECIFICATION RunSpec
CONSTANTS
    Clients = {ui, agent}
    Agents = {agent}
    None = None
    FrameCycles = 2
    WarpFrames = 2
    Overrun = 1
    IdleWindow = 2
    Lengths = {0, 3}
    Stalls = FALSE
    MaxAsked = 3
    Windows = {1}
    RunLengths = {1}
    MaxFrames = 1
    MaxAnchors = 1
    MaxRequests = 0
INVARIANT
    EndsAsAsked
PROPERTIES
    ReleaseIsJust
    OwnerGoesBack
    WaitedRunAnswers
