SPECIFICATION Spec
CONSTANTS
    Configs <- const_Configs
    MaxCommands <- const_MaxCommands
    MaxRepeats <- const_MaxRepeats
    Interval <- const_Interval
INVARIANTS
    NoTxBlocksKeying
