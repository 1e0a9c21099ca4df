\* A candidate anchored outside the loop that follows.
SPECIFICATION Spec
CONSTANTS
    p1 = p1  p2 = p2  p3 = p3  p4 = p4  spin = spin
    Pc = {p1, p2, p3}
    SelfBranch = {}
    Window = 2
    Threshold = 2
    None = None
    MaxTrace = 14
SYMMETRY Symmetry
INVARIANT TightLoopIsPinned
