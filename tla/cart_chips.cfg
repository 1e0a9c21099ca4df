\* Flash: two sectors, a part that programs at once and one that takes a cycle.
\* EEPROM: two words of two bytes of two bits,
\* and two words to send, neither of which is all ones.
SPECIFICATION ChipSpec
CONSTANTS
    f1 = f1
    File = {f1}
    NoFile = NoFile
    Bytes = {f1}
    None = None
    MaxFailures = 0
    MaxGen = 0
    Addrs <- MCAddrs
    SectorOf <- MCSectorOf
    Magic1 = "magic1"
    Magic2 = "magic2"
    IdAddrs = {"other"}
    EraseSectorTimeout = 2
    EraseSectorCycles = 2
    EraseChipCycles = 2
    ProgramCycles = {0, 1}
    GuardSteps = 4
    Images <- MCImages
    Stored <- MCCommands
    Programmed <- MCData
    MaxLate = 4
    AddressBits = 3
    ByteBits = 2
    Words = 2
    MaxStores = 1
    Sent <- MCSent
INVARIANT
    ReadsAreStored
PROPERTIES
    LateIsOnTime
    EraseOnlyNamed
    BusyEnds
    FramesAreObeyed
