SPECIFICATION MCSpec
CONSTANTS
    Pins = {"FRONT", "BACK"}
    Readings = {0, 3}
    FB_TIMER_LONG = 6
    FB_TIMER_CD = 4
    POLL_INTERVAL = 2
    BACK_COOLDOWN = 5
    BAT_INTERVAL = 2
    SPINNER_FRAME_COUNT = 1
    DATA_SEND_INTERVAL = 1
    PassTicks = 1
INVARIANTS
    TypeOK
    ScreenFollowsState
PROPERTIES
    ImplementsPanelMode
    PressEnds
    StateIsActedOn
    LabelStaysRight
