\* Instructions, reverse-steps, resets, restores and DMA in any order.
SPECIFICATION MachineSpec
CONSTANTS
    h1 = h1  h2 = h2  zp = zp
    Header = {h1, h2}
    Addr = {zp}
    IoAddr = {}
    Byte = {0, 1}
    StepSizes = {1, 2}
    WriteRec <- MCWriteRec
    NoHeader = NoHeader
    NoWrite <- MCNoWrite
    Caps <- MCTightCaps
    StartMod = 64
    MaxBurst = 2
    MaxHead = 2
    MaxWriteHead = 2
    MaxHits = 1
SYMMETRY Symmetry
INVARIANT WhoWroteExplainsRam
PROPERTY ReverseExact
