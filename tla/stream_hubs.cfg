\* Two watchers, the run loop and requests around the State lock.
SPECIFICATION FewSpec
CONSTANTS
    Clients = {c1, c2}
    Models = {pal, ntsc}
    Loop = Loop
    NoOne = NoOne
    LastClk = 1
    MaxRebuilds = 1
INVARIANTS
    NoStandoff
    HookFollowsConsumer
    ClientsAreCurrent
SYMMETRY Symmetric
