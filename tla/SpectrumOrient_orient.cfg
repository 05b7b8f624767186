SPECIFICATION LiveSpec
CONSTANTS
    NumDrones = 1
    Amps = {1}
    RemainTimes = 2
    CntMax = 3
    RptInterval = 0
    MaxQueue = 2
    MaxCmd = 3
    MaxHit = 0
    MaxFail = 0
INVARIANTS FreqFollowsOrientation
PROPERTIES OrientationEnds
CHECK_DEADLOCK FALSE
