\* Writes per instruction above the slabs' 5:4 ratio: the write slab wraps first.
SPECIFICATION Spec
CONSTANTS
    h1 = h1  h2 = h2  a1 = a1  a2 = a2
    Header = {h1}
    Addr = {a1, a2}
    WriteRec <- MCWriteRec
    NoHeader = NoHeader
    NoWrite <- MCNoWrite
    Caps <- MCRateCaps
    StartMod = 64
    MaxBurst = 2
    MaxHead = 4
    MaxWriteHead = 6
    MaxHits = 2
SYMMETRY Symmetry
INVARIANT MissIsGenuine
