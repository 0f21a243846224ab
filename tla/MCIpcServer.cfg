SPECIFICATION FairSpec
CONSTANTS
    Viewers <- TwoViewers
    Reader = "v1"
    None = None
    NSlots = 2
    NSubs = 1
    WriteCap = 3
    SockCap = 1
    RingCap = 1
    ReqCap = 1
INVARIANTS
    StreamIntact
    TablesExact
PROPERTY
    SlowViewerHarmless
    DeadSlotFreed
