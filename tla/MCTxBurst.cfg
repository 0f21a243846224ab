SPECIFICATION FairSpec
CONSTANTS
    r1 = r1
    r2 = r2
    None = None
    Requests <- const_Requests
    Tracked <- const_Tracked
INVARIANTS
    ReportTruthful
    QuietBetweenBursts
    DeviceUseSafe
    RecordedOnlyIfSent
PROPERTIES
    SlotPromise
    RequestResolved
    CloseTerminates
