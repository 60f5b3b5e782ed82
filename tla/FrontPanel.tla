------------------------------ MODULE FrontPanel ------------------------------
(* Buttons, battery pins and screen: the SIGALRM handler polls the pins and    *)
(* changes state, unit and battery flags; the main loop draws what they ask    *)
(* for.  When a long press expires while the button is still held, the main    *)
(* loop runs the button's event handler too, with the tick live: that call is  *)
(* modelled statement by statement, the tick's own calls are atomic.           *)
(*                                                                             *)
(* The sampler is reduced to its flag: any tick in a data mode may complete a  *)
(* sample, and the mean the loop computes is any of Readings.                  *)
EXTENDS Screen, FiniteSets

CONSTANTS
    Pins,                   \* the polled pins that move: {"FRONT", "BACK", "FULL", "LOW"}
    Readings,               \* published means (calibrated; 0 and negative are possible)
    FB_TIMER_LONG,          \* ticks of a long press (main.h: 6000)
    FB_TIMER_CD,            \* dead ticks after a press (main.h: 1000)
    POLL_INTERVAL,          \* ticks between two polls of a button (gpio_init: 10)
    BACK_COOLDOWN,          \* ... after the back button changed (1000)
    BAT_INTERVAL,           \* ... of a battery pin (2000)
    SPINNER_FRAME_COUNT,    \* frames of the spinner (img.h)
    DATA_SEND_INTERVAL,     \* samples per upload (main.h: 10)
    PassTicks               \* most ticks that interrupt one pass of the main loop

ASSUME FrontPanelAssumption ==
    /\ Pins \subseteq {"FRONT", "BACK", "FULL", "LOW"}
    /\ Readings \subseteq Int \ {-1}
    /\ FB_TIMER_LONG \in Nat \ {0} /\ FB_TIMER_CD \in Nat \ {0}
    /\ SPINNER_FRAME_COUNT \in Nat \ {0}
    /\ DATA_SEND_INTERVAL \in Nat \ {0}
    /\ POLL_INTERVAL \in Nat /\ BACK_COOLDOWN \in Nat \ {0} /\ BAT_INTERVAL \in Nat
    /\ PassTicks \in Nat /\ PassTicks < FB_TIMER_CD /\ PassTicks < POLL_INTERVAL

VARIABLES
    state, current_state,                       \* wanted, and last acted on
    displaying_unit, current_displaying_unit,   \* wanted, and last drawn
    fb_pressing, fb_timer,                      \* front button
    level, counter,     \* of each pin: last polled level, -1: none; ticks to next poll
    battery_state, last_battery_state,          \* sets of flags; NoFlags: none drawn
    spinner_frame, last_spinner_frame,
    new_data, current_display_data,             \* sample pending; last mean, -1: none
    data_send_counter,
    armed,                                      \* the interval timer runs
    store,                                      \* assignments a press is about to make
    screen,
    pc, ticks

button == <<fb_pressing, fb_timer>>
pins == <<level, counter>>
battery == <<battery_state, last_battery_state>>
spinner == <<spinner_frame, last_spinner_frame>>
data == <<new_data, current_display_data, data_send_counter>>
mode == <<state, current_state>>
unit == <<displaying_unit, current_displaying_unit>>
vars == <<state, current_state, displaying_unit, current_displaying_unit,
          fb_pressing, fb_timer, level, counter, battery_state, last_battery_state,
          spinner_frame, last_spinner_frame, new_data, current_display_data,
          data_send_counter, armed, store, screen, pc, ticks>>

DataStates == {"PM25", "TIME"}
States == DataStates \cup {"ID", "IP", "WIFI_SETUP"}

Flags == {"FULL", "LOW"}            \* PIN_VER 5 has no BATTERY_STATE_CHARGE pin
NoFlags == {"none"}                 \* last_battery_state = -1

Nothing == <<>>                     \* no assignment

Init ==
    /\ state = "PM25" /\ current_state = "PM25"
    /\ displaying_unit = "pcs" /\ current_displaying_unit = "pcs"
    /\ fb_pressing = 0 /\ fb_timer = 0
    /\ level = [p \in Pins |-> -1] /\ counter = [p \in Pins |-> 0]
    /\ battery_state = {} /\ last_battery_state = NoFlags
    /\ spinner_frame = 0 /\ last_spinner_frame = -1
    /\ new_data = 0 /\ current_display_data = -1
    /\ data_send_counter = 0
    /\ armed = TRUE
    /\ store = Nothing
    /\ screen = EmptyScreen
    /\ pc = "top" /\ ticks = 0
-----------------------------------------------------------------------------
(* The front button's event handler.  A press is a set of assignments to      *)
(* `state` and `displaying_unit`, a function on the names it assigns.         *)

ShortPress(s, u, clockSet) ==
    CASE s = "PM25" /\ u = "pcs" -> [unit |-> "ug"]
      [] s = "PM25" /\ u = "ug" /\ clockSet -> [state |-> "TIME"]
      [] s = "PM25" /\ u = "ug" /\ ~clockSet -> [unit |-> "pcs"]
      [] s = "ID" -> [state |-> "IP"]
      [] s = "IP" -> [state |-> "ID"]
      [] s = "TIME" -> [state |-> "PM25", unit |-> "pcs"]
      [] OTHER -> Nothing

LongPress(s) ==
    CASE s \in DataStates -> [state |-> "ID"]
      [] s \in {"ID", "IP"} -> [state |-> "PM25"]
      [] OTHER -> Nothing

Assigned(f, name, old) == IF name \in DOMAIN f THEN f[name] ELSE old

\* gpio_event_handler(GPIO_PIN_FRONT_BUTTON, lvl) run without interruption, on
\* the panel p = [state, unit, pressing, timer].
FrontEvent(p, lvl, clockSet) ==
    LET f == IF p.timer > 0
             THEN ShortPress(p.state, p.unit, clockSet)
             ELSE LongPress(p.state)
    IN  IF p.state = "WIFI_SETUP" THEN p
        ELSE IF p.pressing = 0 /\ p.timer = 0 /\ lvl = 0
        THEN [p EXCEPT !.pressing = 1, !.timer = FB_TIMER_LONG]
        ELSE IF p.pressing = 1 /\ lvl = 1
        THEN [state |-> Assigned(f, "state", p.state),
              unit |-> Assigned(f, "unit", p.unit),
              pressing |-> 0, timer |-> FB_TIMER_CD]
        ELSE p

\* Mutant: the back button works in every state.
BackEvent_AnyState(s, lvl) == IF lvl = 0 THEN "WIFI_SETUP" ELSE s

\* Back button pressed.
BackEvent(s, lvl) == IF s \in DataStates /\ lvl = 0 THEN "WIFI_SETUP" ELSE s

\* FULL is active low, LOW active high.
BatteryFlags(changed, lvl) ==
    (battery_state \ changed)
      \cup {f \in changed \cap Flags : lvl[f] = (IF f = "FULL" THEN 0 ELSE 1)}

-----------------------------------------------------------------------------
(* The SIGALRM handler.                                                        *)

\* The sampler and the spinner run in the data modes.
Sample ==
    \/ state \in DataStates /\ new_data' \in {new_data, 1}
                            /\ spinner_frame' \in
                                 {spinner_frame,
                                  (spinner_frame + 1) % SPINNER_FRAME_COUNT}
    \/ state \notin DataStates /\ UNCHANGED <<new_data, spinner_frame>>

\* poll_gpio(): a pin is read when its counter has run down, and handled if it
\* changed, in the order FRONT, BACK, FULL, LOW.
PollGpio ==
    LET due == {p \in Pins : counter[p] = 0}
    IN  \E lvl \in [due -> {0, 1}], clockSet \in BOOLEAN :
        LET changed == {p \in due : lvl[p] # level[p]}
            timer == IF fb_timer > 0 THEN fb_timer - 1 ELSE 0
            p0 == [state |-> state, unit |-> displaying_unit,
                   pressing |-> fb_pressing, timer |-> timer]
            p1 == IF "FRONT" \in changed
                  THEN FrontEvent(p0, lvl["FRONT"], clockSet)
                  ELSE p0
        IN  /\ level' = [p \in Pins |-> IF p \in due THEN lvl[p] ELSE level[p]]
            /\ counter' = [p \in Pins |->
                             IF p \notin due THEN counter[p] - 1
                             ELSE IF p = "BACK" /\ p \in changed THEN BACK_COOLDOWN
                             ELSE IF p \in Flags THEN BAT_INTERVAL
                             ELSE POLL_INTERVAL]
            /\ state' = IF "BACK" \in changed
                        THEN BackEvent(p1.state, lvl["BACK"])
                        ELSE p1.state
            /\ displaying_unit' = p1.unit
            /\ fb_pressing' = p1.pressing
            /\ fb_timer' = p1.timer
            /\ battery_state' = BatteryFlags(changed, lvl)

\* SIGALRM is delivered while the timer runs: inside a pass, or to pause().
Tick ==
    /\ armed
    /\ Sample
    /\ PollGpio
    /\ \/ pc = "pause" /\ pc' = "top" /\ ticks' = 0
       \/ pc # "pause" /\ ticks < PassTicks /\ ticks' = ticks + 1 /\ UNCHANGED pc
    /\ UNCHANGED <<current_state, current_displaying_unit, last_battery_state,
                   last_spinner_frame, current_display_data, data_send_counter,
                   armed, store, screen>>
-----------------------------------------------------------------------------
(* The main loop.                                                              *)

Goto(from, to) == pc = from /\ pc' = to /\ UNCHANGED ticks

\* Mutant: the handler's guard against STATE_WIFI_SETUP is made here too.
SeeState_NotInSetup ==
    /\ LET seen == current_state # state /\ state # "WIFI_SETUP"
       IN  \/ seen /\ Goto("top", "stop")
           \/ ~seen /\ Goto("top", "expire")
    /\ UNCHANGED <<mode, unit, button, pins, battery, spinner, data, armed,
                   store, screen>>

\* if(current_state!=state) ... stop_timer: the tick may still come in between.
SeeState ==
    /\ \/ current_state # state /\ Goto("top", "stop")
       \/ current_state = state /\ Goto("top", "expire")
    /\ UNCHANGED <<mode, unit, button, pins, battery, spinner, data, armed,
                   store, screen>>

StopForSwitch ==
    /\ Goto("stop", "case")
    /\ armed' = FALSE
    /\ UNCHANGED <<mode, unit, button, pins, battery, spinner, data, store, screen>>

\* What entering Wi-Fi setup, and ID from a data state, clear.
Cleared(s) == ShowNet(ShowSpinner(s, -1), -1)

ClearData ==
    /\ current_display_data' = -1
    /\ spinner_frame' = 0
    /\ last_spinner_frame' = -1

\* The page of a state, as display() draws it.
EnterPm25 ==
    /\ state = "PM25"
    /\ screen' =
         IF current_display_data < 0
         THEN ShowPage(screen, "wait")
         ELSE ShowData(screen, displaying_unit,
                       [reading |-> current_display_data, unit |-> displaying_unit])
    /\ UNCHANGED <<unit, spinner, current_display_data>>

EnterTime ==
    /\ state = "TIME"
    /\ screen' = ShowTime(screen)
    /\ current_displaying_unit' = "pcs"
    /\ UNCHANGED <<displaying_unit, spinner, current_display_data>>

\* Mutant: the data are only cleared on the way from one menu page to the other.
EnterId_Swapped ==
    /\ state = "ID"
    /\ \/ /\ current_state \notin DataStates
          /\ ClearData
          /\ screen' = ShowPage(Cleared(screen), "id")
       \/ /\ current_state \in DataStates
          /\ screen' = ShowPage(screen, "id")
          /\ UNCHANGED <<spinner, current_display_data>>
    /\ UNCHANGED unit

EnterId ==
    /\ state = "ID"
    /\ \/ /\ current_state \in DataStates
          /\ ClearData
          /\ screen' = ShowPage(Cleared(screen), "id")
       \/ /\ current_state \notin DataStates
          /\ screen' = ShowPage(screen, "id")
          /\ UNCHANGED <<spinner, current_display_data>>
    /\ UNCHANGED unit

EnterIp ==
    /\ state = "IP"
    /\ screen' = ShowPage(screen, "ip")
    /\ UNCHANGED <<unit, spinner, current_display_data>>

SwitchState ==
    /\ Goto("case", "expire")
    /\ EnterPm25 \/ EnterTime \/ EnterId \/ EnterIp
    /\ current_state' = state
    /\ armed' = TRUE
    /\ UNCHANGED <<state, battery, button, pins, new_data, data_send_counter, store>>

\* Mutant: the battery icon is blanked and believed to be drawn.
EnterWifiSetup_KeepsBattery ==
    /\ state = "WIFI_SETUP"
    /\ Goto("case", "setup")
    /\ ClearData
    /\ screen' = ShowPage(ShowBattery(Cleared(screen), Blank), "setup")
    /\ UNCHANGED <<mode, unit, battery, button, pins, new_data, data_send_counter,
                   armed, store>>

\* Data, spinner, battery and network icon are cleared and wifi_setup() is called,
\* with the timer stopped.
EnterWifiSetup ==
    /\ state = "WIFI_SETUP"
    /\ Goto("case", "setup")
    /\ ClearData
    /\ last_battery_state' = NoFlags
    /\ screen' = ShowPage(ShowBattery(Cleared(screen), Blank), "setup")
    /\ UNCHANGED <<mode, unit, battery_state, button, pins, new_data,
                   data_send_counter, armed, store>>

\* Mutant: current_state is set before the state is.
SetupReturns_Early ==
    /\ Goto("setup", "expire")
    /\ screen' = ShowPage(screen, "wait")
    /\ state' = "PM25"
    /\ current_state' = state
    /\ armed' = TRUE
    /\ UNCHANGED <<unit, button, pins, battery, spinner, data, store>>

\* wifi_setup() (WifiSetup.tla) is over; it need not ever be.
SetupReturns ==
    /\ Goto("setup", "expire")
    /\ screen' = ShowPage(screen, "wait")
    /\ state' = "PM25"
    /\ current_state' = "PM25"
    /\ armed' = TRUE
    /\ UNCHANGED <<unit, button, pins, battery, spinner, data, store>>

\* Mutant: an expired press is looked for in the data states only.
SeeExpiry_InData ==
    /\ LET due == state \in DataStates /\ fb_pressing = 1 /\ fb_timer = 0
       IN  \/ due /\ Goto("expire", "guard")
           \/ ~due /\ Goto("expire", "spin")
    /\ UNCHANGED <<mode, unit, button, pins, battery, spinner, data, armed,
                   store, screen>>

\* if(fb_pressing&&!fb_timer): the long press has expired with the button held.
SeeExpiry ==
    /\ \/ fb_pressing = 1 /\ fb_timer = 0 /\ Goto("expire", "guard")
       \/ ~(fb_pressing = 1 /\ fb_timer = 0) /\ Goto("expire", "spin")
    /\ UNCHANGED <<mode, unit, button, pins, battery, spinner, data, armed,
                   store, screen>>

\* gpio_event_handler(GPIO_PIN_FRONT_BUTTON,1), called by the main loop.
ExpiryGuard ==
    /\ \/ state # "WIFI_SETUP" /\ fb_pressing = 1 /\ Goto("guard", "release")
       \/ ~(state # "WIFI_SETUP" /\ fb_pressing = 1) /\ Goto("guard", "spin")
    /\ UNCHANGED <<mode, unit, button, pins, battery, spinner, data, armed,
                   store, screen>>

ExpiryRelease ==
    /\ Goto("release", "class")
    /\ fb_pressing' = 0
    /\ UNCHANGED <<mode, unit, fb_timer, pins, battery, spinner, data, armed,
                   store, screen>>

\* if(fb_timer>0) short press, else long press.
ExpiryClass ==
    /\ \/ fb_timer > 0 /\ Goto("class", "short")
       \/ fb_timer = 0 /\ Goto("class", "long")
    /\ UNCHANGED <<mode, unit, button, pins, battery, spinner, data, armed,
                   store, screen>>

\* switch(state) reads the state; the assignment it selects comes a step later.
ExpiryLoad ==
    /\ \/ /\ Goto("short", "store")
          /\ fb_timer' = 0
          /\ \E clockSet \in BOOLEAN :
               store' = ShortPress(state, displaying_unit, clockSet)
       \/ /\ Goto("long", "store")
          /\ store' = LongPress(state)
          /\ UNCHANGED fb_timer
    /\ UNCHANGED <<mode, unit, fb_pressing, pins, battery, spinner, data, armed,
                   screen>>

ExpiryStore ==
    /\ Goto("store", "cool")
    /\ state' = Assigned(store, "state", state)
    /\ displaying_unit' = Assigned(store, "unit", displaying_unit)
    /\ store' = Nothing
    /\ UNCHANGED <<current_state, current_displaying_unit, button, pins, battery,
                   spinner, data, armed, screen>>

ExpiryCool ==
    /\ Goto("cool", "spin")
    /\ fb_timer' = FB_TIMER_CD
    /\ UNCHANGED <<mode, unit, fb_pressing, pins, battery, spinner, data, armed,
                   store, screen>>

\* if((state==STATE_PM25||state==STATE_TIME)&&...): the state is read twice, then
\* what the section is about.
SeePm25Then(from, then, else) ==
    /\ \/ state = "PM25" /\ Goto(from, then)
       \/ state # "PM25" /\ Goto(from, else)
    /\ UNCHANGED <<mode, unit, button, pins, battery, spinner, data, armed,
                   store, screen>>

SeeTimeThen(from, then, else) ==
    /\ \/ state = "TIME" /\ Goto(from, then)
       \/ state # "TIME" /\ Goto(from, else)
    /\ UNCHANGED <<mode, unit, button, pins, battery, spinner, data, armed,
                   store, screen>>

SeeSpinner ==
    \/ SeePm25Then("spin", "frame", "spin_time")
    \/ SeeTimeThen("spin_time", "frame", "battery")
    \/ /\ \/ last_spinner_frame # spinner_frame /\ Goto("frame", "draw_spin")
          \/ last_spinner_frame = spinner_frame /\ Goto("frame", "battery")
       /\ UNCHANGED <<mode, unit, button, pins, battery, spinner, data, armed,
                      store, screen>>

DrawSpinner ==
    /\ Goto("draw_spin", "battery")
    /\ last_spinner_frame' = spinner_frame
    /\ screen' = ShowSpinner(screen, spinner_frame)
    /\ UNCHANGED <<mode, unit, button, pins, battery, spinner_frame, data, armed,
                   store>>

\* Battery: the icon is chosen by reading battery_state up to three times, and
\* what was drawn is recorded by reading it again.
SeeBattery ==
    /\ \/ last_battery_state # battery_state /\ Goto("battery", "draw_battery")
       \/ last_battery_state = battery_state /\ Goto("battery", "new_data")
    /\ UNCHANGED <<mode, unit, button, pins, battery, spinner, data, armed,
                   store, screen>>

DrawBatteryIf(from, found, icon, else) ==
    /\ \/ found /\ Goto(from, "record_battery") /\ screen' = ShowBattery(screen, icon)
       \/ ~found /\ Goto(from, else) /\ UNCHANGED screen
    /\ UNCHANGED <<mode, unit, button, pins, battery, spinner, data, armed, store>>

\* The flags may change from one test to the next, so that no icon is drawn.
DrawBattery ==
    \/ DrawBatteryIf("draw_battery", battery_state = {}, "h", "draw_full")
    \/ DrawBatteryIf("draw_full", "FULL" \in battery_state, "f", "draw_low")
    \/ DrawBatteryIf("draw_low", "LOW" \in battery_state, "l", "record_battery")

RecordBattery ==
    /\ Goto("record_battery", "new_data")
    /\ last_battery_state' = battery_state
    /\ UNCHANGED <<mode, unit, button, pins, battery_state, spinner, data, armed,
                   store, screen>>

SeeNewData ==
    \/ SeePm25Then("new_data", "pending", "data_time")
    \/ SeeTimeThen("data_time", "pending", "unit")
    \/ /\ \/ new_data = 1 /\ Goto("pending", "take")
          \/ new_data = 0 /\ Goto("pending", "unit")
       /\ UNCHANGED <<mode, unit, button, pins, battery, spinner, data, armed,
                      store, screen>>

\* The flag is cleared and the new mean computed; reading the temperature stops
\* and restarts the timer.
TakeData ==
    /\ Goto("take", "show_time")
    /\ new_data' = 0
    /\ current_display_data' \in Readings
    /\ armed' = TRUE
    /\ UNCHANGED <<mode, unit, button, pins, battery, spinner, data_send_counter,
                   store, screen>>

\* if(state==STATE_TIME) ... else if(state==STATE_PM25): the state is read twice.
ShowInTime ==
    /\ \/ state = "TIME" /\ Goto("show_time", "send") /\ screen' = ShowTime(screen)
       \/ state # "TIME" /\ Goto("show_time", "show_data") /\ UNCHANGED screen
    /\ UNCHANGED <<mode, unit, button, pins, battery, spinner, data, armed, store>>

SeePm25 == SeePm25Then("show_data", "draw_data", "send")

\* The value in the unit last drawn, under the label of the unit now wanted.
DrawData ==
    /\ Goto("draw_data", "send")
    /\ screen' = ShowData(screen, displaying_unit,
                          [reading |-> current_display_data,
                           unit |-> current_displaying_unit])
    /\ UNCHANGED <<mode, unit, button, pins, battery, spinner, data, armed, store>>

\* Every DATA_SEND_INTERVAL samples an upload, with the timer stopped, that is
\* switched off, fails or succeeds.
SendData ==
    /\ Goto("send", "unit")
    /\ \/ /\ data_send_counter + 1 >= DATA_SEND_INTERVAL
          /\ data_send_counter' = 0
          /\ \E conn \in {screen.net, 0, 1} : screen' = ShowNet(screen, conn)
          /\ armed' = TRUE
       \/ /\ data_send_counter + 1 < DATA_SEND_INTERVAL
          /\ data_send_counter' = data_send_counter + 1
          /\ UNCHANGED <<screen, armed>>
    /\ UNCHANGED <<mode, unit, button, pins, battery, spinner, new_data,
                   current_display_data, store>>

SeeUnit ==
    /\ LET due == state = "PM25" /\ displaying_unit # current_displaying_unit
       IN  \/ due /\ Goto("unit", "change_unit")
           \/ ~due /\ Goto("unit", "ensure")
    /\ UNCHANGED <<mode, unit, button, pins, battery, spinner, data, armed,
                   store, screen>>

\* Mutant: the label is left to display(), which does not redraw it.
ChangeUnit_ValueOnly ==
    /\ Goto("change_unit", "ensure")
    /\ \/ /\ current_display_data > 0
          /\ current_displaying_unit' = displaying_unit
          /\ screen' = ShowData(screen, displaying_unit,
                                [reading |-> current_display_data,
                                 unit |-> displaying_unit])
          /\ armed' = TRUE
          /\ UNCHANGED displaying_unit
       \/ /\ current_display_data <= 0
          /\ displaying_unit' = current_displaying_unit
          /\ UNCHANGED <<current_displaying_unit, screen, armed>>
    /\ UNCHANGED <<mode, button, pins, battery, spinner, data, store>>

\* Label and value are redrawn in the new unit, or the press is taken back.
ChangeUnit ==
    /\ Goto("change_unit", "ensure")
    /\ \/ /\ current_display_data > 0
          /\ current_displaying_unit' = displaying_unit
          /\ screen' = ShowData(ShowUnit(screen, displaying_unit), displaying_unit,
                                [reading |-> current_display_data,
                                 unit |-> displaying_unit])
          /\ armed' = TRUE
          /\ UNCHANGED displaying_unit
       \/ /\ current_display_data <= 0
          /\ displaying_unit' = current_displaying_unit
          /\ UNCHANGED <<current_displaying_unit, screen, armed>>
    /\ UNCHANGED <<mode, button, pins, battery, spinner, data, store>>

\* The loop that restarts the timer should it not be running.
EnsureTimer ==
    /\ Goto("ensure", "pause")
    /\ armed' = TRUE
    /\ UNCHANGED <<mode, unit, button, pins, battery, spinner, data, store, screen>>

Expire ==
    \/ SeeExpiry \/ ExpiryGuard \/ ExpiryRelease \/ ExpiryClass
    \/ ExpiryLoad \/ ExpiryStore \/ ExpiryCool

Main ==
    \/ SeeState \/ StopForSwitch \/ SwitchState \/ EnterWifiSetup
    \/ Expire
    \/ SeeSpinner \/ DrawSpinner
    \/ SeeBattery \/ DrawBattery \/ RecordBattery
    \/ SeeNewData \/ TakeData \/ ShowInTime \/ SeePm25 \/ DrawData \/ SendData
    \/ SeeUnit \/ ChangeUnit
    \/ EnsureTimer

Next == Tick \/ Main \/ SetupReturns

Spec == Init /\ [][Next]_vars

\* The process is scheduled, and the interval timer keeps firing while it runs.
\* Nothing makes wifi_setup() return.
FairSpec == Spec /\ WF_vars(Main) /\ WF_vars(Tick)
-----------------------------------------------------------------------------
TypeOK ==
    /\ state \in States /\ current_state \in States \ {"WIFI_SETUP"}
    /\ displaying_unit \in Units /\ current_displaying_unit \in Units
    /\ fb_pressing \in {0, 1}
    /\ fb_timer \in 0..(FB_TIMER_LONG + FB_TIMER_CD)
    /\ level \in [Pins -> {-1, 0, 1}] /\ counter \in [Pins -> Nat]
    /\ battery_state \subseteq Flags
    /\ last_battery_state \in (SUBSET Flags) \cup {NoFlags}
    /\ spinner_frame \in 0..(SPINNER_FRAME_COUNT - 1)
    /\ last_spinner_frame \in -1..(SPINNER_FRAME_COUNT - 1)
    /\ new_data \in {0, 1}
    /\ current_display_data \in Readings \cup {-1}
    /\ data_send_counter \in 0..(DATA_SEND_INTERVAL - 1)
    /\ armed \in BOOLEAN
    /\ ticks \in 0..PassTicks

\* The loop sleeps and has seen the last change of state.
Settled == pc = "pause" /\ current_state = state

(* Whenever the device rests, the page on the screen is the one of `state`,   *)
(* and in PM25 the value shown is the last mean: however the ticks fell       *)
(* between the loop's tests of the state and its drawing (main.c:972-1047,     *)
(* 1144-1152, 1216-1239), no page is left over from another state.            *)
ScreenFollowsState ==
    Settled =>
        CASE state = "ID" -> screen.page = "id"
          [] state = "IP" -> screen.page = "ip"
          [] state = "TIME" -> screen.page = "time"
          [] state = "PM25" /\ current_display_data < 0 -> screen.page = "wait"
          [] state = "PM25" /\ current_display_data >= 0 ->
               /\ screen.page = "data"
               /\ screen.value.reading = current_display_data
          [] OTHER -> FALSE

(* The value on the data page is in the unit its label names: the two are     *)
(* drawn from displaying_unit and from current_displaying_unit                 *)
(* (main.c:617-621, 1150-1151).                                               *)
LabelMatchesValue ==
    Settled /\ screen.page = "data" => screen.value.unit = screen.label

\* A change of unit is about to be taken back (main.c:1235-1238), because the mean
\* is not above 0, with the data page already up under the label of the new unit.
LabelTakenBack ==
    /\ pc = "change_unit"
    /\ current_display_data <= 0
    /\ screen.page = "data" /\ screen.label # current_displaying_unit

(* Value and label agree in every history in which that never happens, however *)
(* presses fall between the drawing of the two: it is the one way to a wrong   *)
(* label.                                                                     *)
LabelStaysRight == []~LabelTakenBack => []LabelMatchesValue

(* Out of the data states the data, the spinner and the network icon are gone  *)
(* (main.c:1025-1035).                                                        *)
MenuIsClear ==
    Settled /\ state \in {"ID", "IP"} =>
        /\ current_display_data = -1
        /\ ~screen.spinner
        /\ screen.net = -1

\* The icon that goes with the flags.
Icon(flags) ==
    CASE flags = {} -> "h"
      [] "FULL" \in flags -> "f"
      [] OTHER -> "l"

(* The battery icon agrees with the battery pins whenever nothing is left to  *)
(* redraw (main.c:1069-1092).                                                 *)
BatteryIconCurrent ==
    Settled /\ last_battery_state = battery_state =>
        screen.battery = Icon(battery_state)

(* A button held down for good does not block the panel: the press ends by     *)
(* itself (main.c:1049-1053), although no release is ever polled, unless the    *)
(* panel waits for a Wi-Fi setup that does not return (main.c:1012).            *)
PressEnds == fb_pressing = 1 ~> (fb_pressing = 0 \/ [](pc = "setup"))

(* Every change of state reaches the screen: the loop never sleeps through one  *)
(* for good (main.c:973, pause at 1265); it can only wait for a Wi-Fi setup.    *)
StateIsActedOn ==
    current_state # state ~> (current_state = state \/ [](pc = "setup"))
=============================================================================
