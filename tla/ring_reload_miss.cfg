\* A ring saved after its entries wrapped and loaded again.
SPECIFICATION Spec
CONSTANTS
    h1 = h1  h2 = h2  a1 = a1  a2 = a2
    Header = {h1}
    Addr = {a1, a2}
    WriteRec <- MCWriteRec
    NoHeader = NoHeader
    NoWrite <- MCNoWrite
    Caps <- MCSmallCaps
    StartMod = 64
    MaxBurst = 2
    MaxHead = 4
    MaxWriteHead = 6
    MaxHits = 2
SYMMETRY Symmetry
INVARIANT LoadedMissIsGenuine
