SPECIFICATION Spec
CONSTANTS
    Keys = {"dev_id", "upload", "unit"}
    MaxLines = 2
    Duplicated = TRUE
    Interrupted = TRUE
    Overlapping = TRUE
PROPERTIES
    BootKeepsConfig
