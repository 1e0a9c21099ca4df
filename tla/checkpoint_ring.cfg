\* Two windows, so that either limit evicts and the slab grows once.
SPECIFICATION Spec
CONSTANTS
    n1 = n1  n2 = n2  b1 = b1  b2 = b2
    Name = {n1, n2}
    NoName = NoName
    Blob = {b1, b2}
    NoBlob = NoBlob
    BlobSlots = {1, 2}
    SlotBytes = 2
    AnchorBytes = 3
    HeadRoom = 0
    MaxMarks = 1
    Windows = {1, 2}
    MaxSeq = 4
SYMMETRY Symmetry
INVARIANTS NothingLeaks CapDecides
PROPERTY PinsSurvive
