SPECIFICATION FairSpec
CONSTANTS
    SENSOR_CALC_INTERVAL = 12
    DATA_AVE_NUMBER = 2
    FB_TIMER_CD = 6
    PassTicks = 2
    MaxLow = 1
INVARIANTS
    TypeOK
    PendingIsYoung
PROPERTIES
    HandOver
    ImplementsSampleWindow
    KeepsPublishing
