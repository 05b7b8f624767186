SPECIFICATION FairSpec
CONSTANTS
    LONG = LONG
    SHORT = SHORT
    NoImage = NoImage
    NoFragment = NoFragment
    Image = {LONG, SHORT}
    ImageLen <- MCImageLen
    BufferSize = 4
    Fragment = {2}
    Chunk = 2
    Retries = 2
    MaxTask = 2
    MaxRequest = 2
    MaxFault = 1
INVARIANTS TypeOK CrcCoversCache VerifiedStaysComplete SwitchesToReceivedFile
PROPERTIES RunEnds
CHECK_DEADLOCK FALSE
