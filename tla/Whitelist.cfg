SPECIFICATION FairSpec
CONSTANTS
    Drone = {"a"}
    Lists = {{}, {"a"}}
    TestWhitelist = {"t1", "t2"}
    Detector = {"DRONEID", "REMOTEID"}
    MaxSet = 1
    MaxPower = 1
    MaxFault = 1
    MaxQueue = 1
INVARIANTS TypeOK ConfirmedIsKept WholeListStored ConnectionGivenBack
PROPERTIES AlarmIsRight
