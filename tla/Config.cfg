SPECIFICATION Spec
CONSTANTS
    Keys = {"dev_id", "upload", "unit"}
    MaxLines = 2
    Duplicated = FALSE
    Interrupted = FALSE
    Overlapping = FALSE
INVARIANTS
    TypeOK
    RunsAsStored
PROPERTIES
    RunsCalibrated
    ImplementsConfigStore
