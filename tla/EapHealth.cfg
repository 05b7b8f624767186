SPECIFICATION FairSpec
CONSTANTS
    N = 2
    ProbeRoom = 1
    Period = 2
    MaxCmd = 2
INVARIANTS TypeOK VerdictIsFair
PROPERTIES OpenRoundEnds
CHECK_DEADLOCK FALSE
