SPECIFICATION FairSpec
CONSTANTS
    ALINK = ALINK
    SYS = SYS
    PACKET = PACKET
    GET_SN = GET_SN
    NoThread = NoThread
    NoCmd = NoCmd
    Thread = {ALINK, SYS}
    Cmd = {PACKET, GET_SN}
    Owner <- MCOwner
    Nested <- MCNested
    Answered = {GET_SN}
    Oversized = {}
    Capacity <- MCCapacity
    Rank <- MCRank
    MaxSend = 3
    MaxCtl = 2
INVARIANTS TypeOK OwnAnswer MismatchOnlyAfterFailure AtMostOnce PauseLag
PROPERTIES ImplementsRpc CallReturns
CHECK_DEADLOCK FALSE
