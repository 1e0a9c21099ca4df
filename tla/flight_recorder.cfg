\* Anchors of two or three bytes, and one too large, in a slab of five; three
\* disks against two versions kept.
SPECIFICATION Spec
CONSTANTS
    Disks = {d1, d2, d3}
    NoDisk = NoDisk
    Profiles = {c64, u64}
    Sizes = {2, 3, 4}
    Slot = 3
    Capacity = 5
    MediumKeep = 2
    Cadence = 2
    MaxAnchors = 6
    MaxGen = 4
INVARIANTS
    AnchorsIntact
    DumpIsOfItsMoment
SYMMETRY Symmetric
