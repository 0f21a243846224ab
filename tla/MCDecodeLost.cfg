SPECIFICATION Spec
CONSTANTS
    Null = Null
    j1 = j1
    j2 = j2
    night = night
    byhand = byhand
    Jobs = {j1, j2}
    Invs = {night, byhand}
    InvOf <- MCInvOf
    Files <- MCFiles
    Origin <- MCOrigin
    FirstPart <- MCWhole
    Whole <- MCWhole
    OldRows <- NoRows
    OldVersion = 1
    MaxFaults = 1
INVARIANT MarkedIsStored
CHECK_DEADLOCK FALSE
