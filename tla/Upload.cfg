SPECIFICATION FairSpec
CONSTANTS
    Backends = {"aliyun", "xively"}
    Readings = {7, 2000020}
    Temperatures <- MCTemperatures
    RETRY_TIMES = 3
    Statuses = {0, 200, 500}
    MaxFds = 4
INVARIANTS
    TypeOK
    IconTellsOutcome
    StatusIsReplied
    OnlyConnectLeaks
    ServerGetsReading
PROPERTIES
    UploadEnds
CHECK_DEADLOCK FALSE
