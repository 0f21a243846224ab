SPECIFICATION FairSpec
CONSTANTS
    Main = "main"
    Others <- TxThreads
    RingSize = 2
    MaxEvents = 2
    NoEvent = NoEvent
INVARIANTS
    TrailInOrder
    CompleteAtExit
PROPERTY
    ExitTerminates
