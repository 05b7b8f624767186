SPECIFICATION Spec
CONSTANTS
    NumDrones = 2
    Amps = {1}
    RemainTimes = 2
    CntMax = 2
    RptInterval = 2
    MaxQueue = 2
    MaxCmd = 1
    MaxHit = 1
    MaxFail = 1
INVARIANTS TypeOK WarningFollowsTable EmptyReportedAtOnce GoneAfterThreeRounds
CHECK_DEADLOCK FALSE
