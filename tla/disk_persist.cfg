\* The lazy writer against every door, with a write that may fail.
SPECIFICATION FairSpec
CONSTANTS
    f1 = f1  f2 = f2  x = x  y = y
    File = {f1, f2}
    NoFile = NoFile
    Bytes = {x, y}
    None = None
    MaxFailures = 1
INVARIANTS NoWriteLost
PROPERTY LeavesSaved LazyWriteArrivesFresh
CHECK_DEADLOCK FALSE
