\* Traces on one path, recorded, spilled, stopped, indexed and read.
SPECIFICATION TraceSpec
CONSTANTS
    Clients = {c1, c2}
    Waiters = {c1}
    Paths = {p1}
    None = None
    SpillFrames = 2
    MaxRuns = 2
    MaxFrames = 4
    MaxMarks = 1
    MaxJobs = 2
    MaxFailures = 1
    Disks = {}
    NoDisk = NoDisk
    Profiles = {c64}
    Sizes = {}
    Slot = 1
    Capacity = 1
    MediumKeep = 1
    Cadence = 1
    MaxAnchors = 0
    MaxGen = 0
CHECK_DEADLOCK FALSE
INVARIANT
    RunIsInFile
PROPERTIES
    StoppedTraceIsIndexed
    WaitedIndexIsWhole
