\* A store to an I/O chip, undone.
SPECIFICATION MachineSpec
CONSTANTS
    h1 = h1  h2 = h2  zp = zp  vic = vic
    Header = {h1, h2}
    Addr = {zp, vic}
    IoAddr = {vic}
    Byte = {0, 1}
    StepSizes = {1, 2}
    WriteRec <- MCWriteRec
    NoHeader = NoHeader
    NoWrite <- MCNoWrite
    Caps <- MCCaps
    StartMod = 64
    MaxBurst = 2
    MaxHead = 3
    MaxWriteHead = 3
    MaxHits = 1
PROPERTY ReverseRestoresIo
