SPECIFICATION FairSpec
CONSTANTS
    MaxLinks = 1
    Timeout = 2
    CheckTimer = 1
    BeatPeriod = 1
    MaxDelay = 1
    MaxStep = 3
INVARIANTS TypeOK HeardLately NoStrayWrite
PROPERTIES BeatingHostKept TypeCServed
