SPECIFICATION Spec
CONSTANTS
    HeadSize = 2
    Sizes = {3, 4}
    EapSize = 3
    BufSize = 8
    MaxSend = 4
    MaxFault = 2
INVARIANTS TypeOK NoneHeldBack InOrderOnce CleanLosesNothing
CHECK_DEADLOCK FALSE
