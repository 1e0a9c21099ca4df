\* Several clients, the run loop and the rewind transport: one timeline.
SPECIFICATION FairSpec
CONSTANTS
    None = None
    Windows = {1, 3}
    RunLengths = {1, 2}
    MaxFrames = 4
    MaxAnchors = 3
    MaxRequests = 4
INVARIANTS
    TransportKeepsOneTimeline
    TransportTells
PROPERTY
    PlaybackEnds
CHECK_DEADLOCK FALSE
