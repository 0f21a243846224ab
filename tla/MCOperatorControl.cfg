SPECIFICATION FairSpec
CONSTANTS
    p1 = p1
    p2 = p2
    p3 = p3
    None = None
    Procs <- const_Procs
CHECK_DEADLOCK FALSE
INVARIANTS
    OneRotatorMaster
    OperatorIsFound
PROPERTIES
    NobodyStuck
    YieldHonoured
