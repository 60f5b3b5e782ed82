SPECIFICATION Spec
CONSTANTS
    Pins = {"FULL", "LOW"}
    Readings = {5}
    FB_TIMER_LONG = 7
    FB_TIMER_CD = 5
    POLL_INTERVAL = 2
    BACK_COOLDOWN = 2
    BAT_INTERVAL = 2
    SPINNER_FRAME_COUNT = 1
    DATA_SEND_INTERVAL = 1
    PassTicks = 1
INVARIANTS
    BatteryIconCurrent
