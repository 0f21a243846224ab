SPECIFICATION FairSpec
CONSTANTS
    Null = Null
    j1 = j1
    j2 = j2
    night = night
    byhand = byhand
    Jobs = {j1, j2}
    Invs = {night, byhand}
    InvOf <- MCInvOf
    Files <- MCFiles
    Origin <- MCOrigin
    FirstPart <- MCFirstPart
    Whole <- MCWhole
    OldRows <- MCOldRows
    OldVersion = 1
    MaxFaults = 1
INVARIANTS MarkedMeansStored OpenMeansMigrated
PROPERTIES NoPayloadVanishes EveryFileDone
CHECK_DEADLOCK FALSE
