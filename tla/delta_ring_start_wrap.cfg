\* write_start is a u32 of an unbounded count: scaled down to 2 bits.
SPECIFICATION Spec
CONSTANTS
    h1 = h1  h2 = h2  a1 = a1  a2 = a2
    Header = {h1, h2}
    Addr = {a1, a2}
    WriteRec <- MCWriteRec
    NoHeader = NoHeader
    NoWrite <- MCNoWrite
    Caps <- MCCaps
    StartMod = 4
    MaxBurst = 2
    MaxHead = 4
    MaxWriteHead = 6
    MaxHits = 2
SYMMETRY Symmetry
INVARIANT NewestReadable
