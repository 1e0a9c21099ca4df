\* Wrapping, undoing and recording again, until both slabs have turned over;
\* who_wrote against what retired, and a reloaded ring against its source.
\* Every execution of ten instructions at four addresses, one a jump to itself.
SPECIFICATION UndoSpec
CONSTANTS
    h1 = h1  h2 = h2  a1 = a1  a2 = a2
    Header = {h1, h2}
    Addr = {a1, a2}
    WriteRec <- MCWriteRec
    NoHeader = NoHeader
    NoWrite <- MCNoWrite
    Caps <- MCCaps
    StartMod = 64
    MaxBurst = 2
    MaxHead = 3
    MaxWriteHead = 4
    MaxHits = 2
    p1 = p1  p2 = p2  p3 = p3  spin = spin
    Pc = {p1, p2, p3, spin}
    SelfBranch = {spin}
    Window = 3
    Threshold = 2
    None = None
    MaxTrace = 10
SYMMETRY UndoSymmetry
INVARIANTS KeptIntact WindowsAreTrue AnswersAreHistory LoopIsPinned
PROPERTIES ImplementsUndoStack OnsetIsTightLoop
