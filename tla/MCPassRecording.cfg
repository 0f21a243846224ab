SPECIFICATION Spec
CONSTANTS
    Passes <- const_Passes
    Preroll <- const_Preroll
    Postroll <- const_Postroll
    MaxTime <- const_MaxTime
INVARIANTS
    WholePassRecorded
    PassFileClosed
    RecordingConsistent
    FinalisedAtExit
