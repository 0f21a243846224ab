SPECIFICATION FairSpec
CONSTANTS
    Turn = 12
    MinAz <- MCMinAz
    MaxAz = 17
    Tol = 0
    Slew = 1
    EchoLen = 1
    Starts = {7}
    SkyStarts = {1}
    SkyStep = 3
    PassLen = 2
    Grid <- BackGrid
    Jogs = {1}
    Modes = {"sat", "fixed", "scan"}
    MaxEvents = 2
    MaxPasses = 1
    None = None
INVARIANTS
    HomeUnwinds
    StopIsFinal
    PassTracked
PROPERTIES
    HomeReached
    ScanEnds
