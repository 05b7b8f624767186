SPECIFICATION FairSpec
CONSTANTS
    near = near
    far = far
    report = report
    heartbeat = heartbeat
    All = All
    None = None
    Host = {near, far}
    Ip <- MCIp
    Port <- MCPort
    Client <- MCClient
    MaxConnect = 2
    ConnectTime = 2
    Thread = {report, heartbeat}
    HEARTBEAT = heartbeat
INVARIANTS TypeOK SlotIsLive SendOnOpenSocket
PROPERTIES UnusableIsDropped SendReturns
