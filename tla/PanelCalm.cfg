SPECIFICATION Spec
CONSTANTS
    Pins = {"FRONT", "BACK", "FULL", "LOW"}
    Readings = {5}
    FB_TIMER_LONG = 4
    FB_TIMER_CD = 3
    POLL_INTERVAL = 2
    BACK_COOLDOWN = 2
    BAT_INTERVAL = 2
    SPINNER_FRAME_COUNT = 2
    DATA_SEND_INTERVAL = 2
    PassTicks = 0
INVARIANTS
    MenuIsClear
    BatteryIconCurrent
