SPECIFICATION Spec
CONSTANTS
    Turn = 12
    MinAz <- MCMinAz
    MaxAz = 17
    Tol = 0
    Slew = 1
    EchoLen = 1
    Starts = {7}
    SkyStarts = {1}
    SkyStep = 3
    PassLen = 2
    Grid <- BackGrid
    Jogs = {1}
    Modes = {"sat"}
    MaxEvents = 1
    MaxPasses = 1
    None = None
INVARIANT
    LatchClearedAtLos
