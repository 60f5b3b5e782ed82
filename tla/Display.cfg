SPECIFICATION Spec
CONSTANTS
    Readings = {7, 2000020}
    Temperatures <- MCTemperatures
    BatteryStates = {"f"}
    Connections <- MCConnections
    Frames <- MCFrames
    MaxViews = 2
    MaxLate = 1
    DeviceId <- MCDeviceId
    Addresses <- MCAddresses
    Times <- MCTimes
INVARIANTS
    TypeOK
    SpiBalanced
    ShowsPage
    ShowsNumbers
    Legible
    LeaksOnPagesOnly
CHECK_DEADLOCK FALSE
