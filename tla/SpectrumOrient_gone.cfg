SPECIFICATION Spec
CONSTANTS
    NumDrones = 1
    Amps = {1}
    RemainTimes = 2
    CntMax = 3
    RptInterval = 0
    MaxQueue = 2
    MaxCmd = 2
    MaxHit = 0
    MaxFail = 0
INVARIANTS OrientedDroneKnown
CHECK_DEADLOCK FALSE
