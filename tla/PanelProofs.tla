------------------------------ MODULE PanelProofs ------------------------------
(* Proofs about FrontPanel.tla, for every set of pins and readings and all       *)
(* intervals that satisfy FrontPanelAssumption.                                  *)
EXTENDS MCFrontPanel, TLAPS

\* What a press may assign: at most a state other than Wi-Fi setup, and a unit.
Presses ==
    {Nothing, [unit |-> "ug"], [unit |-> "pcs"], [state |-> "TIME"], [state |-> "IP"],
     [state |-> "ID"], [state |-> "PM25"], [state |-> "PM25", unit |-> "pcs"]}

MenuStates == States \ {"WIFI_SETUP"}

Panels ==
    [state : States, unit : Units, pressing : {0, 1}, timer : 0..(FB_TIMER_LONG + FB_TIMER_CD)]

\* No tick comes while the loop acts on a change of state.
Inv == TypeOK /\ store \in Presses /\ (pc \in {"case", "setup"} => ~armed)

-----------------------------------------------------------------------------
\* A press assigns states and units.
LEMMA PressTypes ==
  ASSUME NEW s, NEW u \in Units, NEW b \in BOOLEAN
  PROVE  ShortPress(s, u, b) \in Presses /\ LongPress(s) \in Presses
  <1>1. ShortPress(s, u, b) \in Presses
    BY DEF ShortPress, Presses, Units
  <1>2. LongPress(s) \in Presses
    BY DEF LongPress, Presses, DataStates
  <1> QED BY <1>1, <1>2

\* What it does not assign is as before.
LEMMA AssignedTypes ==
  ASSUME NEW f \in Presses
  PROVE  /\ \A s \in States : Assigned(f, "state", s) \in States
         /\ \A u \in Units : Assigned(f, "unit", u) \in Units
  <1> USE DEF Assigned, States, DataStates, Units
  <1>1. CASE f = Nothing
    BY <1>1 DEF Nothing
  <1>2. CASE f = [unit |-> "ug"] \/ f = [unit |-> "pcs"]
    BY <1>2
  <1>3. CASE \E s \in {"TIME", "IP", "ID", "PM25"} : f = [state |-> s]
    BY <1>3
  <1>4. CASE f = [state |-> "PM25", unit |-> "pcs"]
    BY <1>4
  <1> QED BY <1>1, <1>2, <1>3, <1>4 DEF Presses

\* The handler of the front button leaves a panel.
LEMMA FrontEventTypes ==
  ASSUME NEW p \in Panels, NEW lvl \in {0, 1}, NEW b \in BOOLEAN
  PROVE  FrontEvent(p, lvl, b) \in Panels
  <1> DEFINE f == IF p.timer > 0 THEN ShortPress(p.state, p.unit, b) ELSE LongPress(p.state)
  <1>1. p.state \in States /\ p.unit \in Units
    BY DEF Panels
  <1>2. f \in Presses
    BY <1>1, PressTypes
  <1>3. Assigned(f, "state", p.state) \in States /\ Assigned(f, "unit", p.unit) \in Units
    BY <1>1, <1>2, AssignedTypes
  <1>4. FB_TIMER_LONG \in 0..(FB_TIMER_LONG + FB_TIMER_CD)
          /\ FB_TIMER_CD \in 0..(FB_TIMER_LONG + FB_TIMER_CD)
    BY FrontPanelAssumption
  <1>5. [p EXCEPT !.pressing = 1, !.timer = FB_TIMER_LONG] \in Panels
    BY <1>4 DEF Panels
  <1>6. [state |-> Assigned(f, "state", p.state), unit |-> Assigned(f, "unit", p.unit),
         pressing |-> 0, timer |-> FB_TIMER_CD] \in Panels
    BY <1>3, <1>4 DEF Panels
  <1> HIDE DEF f
  <1> QED BY <1>5, <1>6 DEF FrontEvent, f

\* What the tick makes of the front button: nothing, a press that begins, or one
\* that ends, with the state it selects.
Timer == IF fb_timer > 0 THEN fb_timer - 1 ELSE 0
Due == "FRONT" \in Pins /\ counter["FRONT"] = 0
Quiet == fb_pressing' = fb_pressing /\ fb_timer' = Timer
Pressed ==
    /\ Due /\ fb_pressing = 0 /\ Timer = 0
    /\ fb_pressing' = 1 /\ fb_timer' = FB_TIMER_LONG
Released(s) ==
    /\ Due /\ fb_pressing = 1 /\ state # "WIFI_SETUP"
    /\ fb_pressing' = 0 /\ fb_timer' = FB_TIMER_CD
    /\ \/ Timer = 0 /\ s = Assigned(LongPress(state), "state", state)
       \/ Timer > 0 /\ \E b \in BOOLEAN :
                        s = Assigned(ShortPress(state, displaying_unit, b), "state", state)

\* It does nothing, begins a press or ends one, a long or a short one.
LEMMA FrontEventCases ==
  ASSUME NEW p \in Panels, NEW lvl \in {0, 1}, NEW b \in BOOLEAN
  PROVE  \/ FrontEvent(p, lvl, b) = p
         \/ /\ p.pressing = 0 /\ p.timer = 0
            /\ FrontEvent(p, lvl, b) = [p EXCEPT !.pressing = 1, !.timer = FB_TIMER_LONG]
         \/ /\ p.pressing = 1 /\ p.state # "WIFI_SETUP"
            /\ FrontEvent(p, lvl, b).pressing = 0 /\ FrontEvent(p, lvl, b).timer = FB_TIMER_CD
            /\ \/ /\ p.timer = 0
                  /\ FrontEvent(p, lvl, b).state = Assigned(LongPress(p.state), "state", p.state)
               \/ /\ p.timer > 0
                  /\ FrontEvent(p, lvl, b).state =
                       Assigned(ShortPress(p.state, p.unit, b), "state", p.state)
  <1>1. p.timer \in Nat
    BY FrontPanelAssumption DEF Panels
  <1> QED BY <1>1 DEF FrontEvent

\* What a tick can do to the state and the counter of the button.
LEMMA TickCases ==
  ASSUME Inv, Tick
  PROVE  /\ \E s \in States :
              /\ state' = s \/ (s \in DataStates /\ state' = "WIFI_SETUP")
              /\ (s = state /\ (Quiet \/ Pressed)) \/ Released(s)
         /\ "FRONT" \in Pins =>
              counter'["FRONT"] = IF counter["FRONT"] = 0 THEN POLL_INTERVAL
                                  ELSE counter["FRONT"] - 1
  <1> USE DEF Inv, TypeOK
  <1> DEFINE due == {p \in Pins : counter[p] = 0}
  <1>1. PICK lvl \in [due -> {0, 1}], clockSet \in BOOLEAN :
          LET changed == {p \in due : lvl[p] # level[p]}
              timer == IF fb_timer > 0 THEN fb_timer - 1 ELSE 0
              p0 == [state |-> state, unit |-> displaying_unit,
                     pressing |-> fb_pressing, timer |-> timer]
              p1 == IF "FRONT" \in changed
                    THEN FrontEvent(p0, lvl["FRONT"], clockSet)
                    ELSE p0
          IN  /\ counter' = [p \in Pins |->
                               IF p \notin due THEN counter[p] - 1
                               ELSE IF p = "BACK" /\ p \in changed THEN BACK_COOLDOWN
                               ELSE IF p \in Flags THEN BAT_INTERVAL
                               ELSE POLL_INTERVAL]
              /\ state' = IF "BACK" \in changed
                          THEN BackEvent(p1.state, lvl["BACK"])
                          ELSE p1.state
              /\ fb_pressing' = p1.pressing
              /\ fb_timer' = p1.timer
    BY DEF Tick, PollGpio
  <1> DEFINE changed == {p \in due : lvl[p] # level[p]}
             p0 == [state |-> state, unit |-> displaying_unit,
                    pressing |-> fb_pressing, timer |-> Timer]
             p1 == IF "FRONT" \in changed THEN FrontEvent(p0, lvl["FRONT"], clockSet) ELSE p0
  <1>2. Timer \in 0..(FB_TIMER_LONG + FB_TIMER_CD)
    BY FrontPanelAssumption DEF Timer
  <1>3. p0 \in Panels
    BY <1>2 DEF Panels
  <1>4. "FRONT" \in changed => lvl["FRONT"] \in {0, 1} /\ Due
    BY DEF Due
  <1>5. p1 \in Panels
    BY <1>3, <1>4, FrontEventTypes
  <1>6. \/ p1 = p0
        \/ /\ Due /\ fb_pressing = 0 /\ Timer = 0
           /\ p1 = [p0 EXCEPT !.pressing = 1, !.timer = FB_TIMER_LONG]
        \/ /\ Due /\ fb_pressing = 1 /\ state # "WIFI_SETUP"
           /\ p1.pressing = 0 /\ p1.timer = FB_TIMER_CD
           /\ \/ Timer = 0 /\ p1.state = Assigned(LongPress(state), "state", state)
              \/ Timer > 0 /\ p1.state = Assigned(ShortPress(state, displaying_unit, clockSet),
                                                 "state", state)
    <2>1. CASE "FRONT" \in changed
      BY <1>3, <1>4, <2>1, FrontEventCases
    <2>2. CASE "FRONT" \notin changed
      BY <2>2
    <2> QED BY <2>1, <2>2
  <1>7. p1.state \in States
    <2> HIDE DEF p1
    <2> QED BY <1>5 DEF Panels
  <1>8. fb_pressing' = p1.pressing /\ fb_timer' = p1.timer
    BY <1>1 DEF Timer
  <1>9. (p1.state = state /\ (Quiet \/ Pressed)) \/ Released(p1.state)
    <2>1. CASE p1 = p0
      BY <1>8, <2>1 DEF Quiet
    <2>2. CASE /\ Due /\ fb_pressing = 0 /\ Timer = 0
               /\ p1 = [p0 EXCEPT !.pressing = 1, !.timer = FB_TIMER_LONG]
      BY <1>8, <2>2 DEF Pressed
    <2>3. CASE /\ Due /\ fb_pressing = 1 /\ state # "WIFI_SETUP"
               /\ p1.pressing = 0 /\ p1.timer = FB_TIMER_CD
               /\ \/ Timer = 0 /\ p1.state = Assigned(LongPress(state), "state", state)
                  \/ Timer > 0 /\ p1.state = Assigned(ShortPress(state, displaying_unit, clockSet),
                                                     "state", state)
      <3> HIDE DEF p1
      <3> QED BY <1>8, <2>3 DEF Released
    <2> QED BY <1>6, <2>1, <2>2, <2>3
  <1>10. state' = p1.state \/ (p1.state \in DataStates /\ state' = "WIFI_SETUP")
    <2>1. state' = IF "BACK" \in changed THEN BackEvent(p1.state, lvl["BACK"]) ELSE p1.state
      BY <1>1 DEF Timer
    <2> HIDE DEF p1
    <2> QED BY <2>1 DEF BackEvent
  <1>11. "FRONT" \in Pins =>
           counter'["FRONT"] = IF counter["FRONT"] = 0 THEN POLL_INTERVAL
                               ELSE counter["FRONT"] - 1
    BY <1>1 DEF Flags
  <1> HIDE DEF p1
  <1> QED BY <1>7, <1>9, <1>10, <1>11

\* A tick keeps the invariant ...
LEMMA TickKeeps == Inv /\ Tick => Inv'
  <1> SUFFICES ASSUME Inv, Tick PROVE Inv'
    OBVIOUS
  <1> USE DEF Inv, TypeOK
  <1>1. new_data' \in {0, 1} /\ spinner_frame' \in 0..(SPINNER_FRAME_COUNT - 1)
    BY FrontPanelAssumption DEF Tick, Sample
  <1>2. ticks' \in 0..PassTicks /\ pc' \notin {"case", "setup"}
    BY FrontPanelAssumption DEF Tick
  <1>3. /\ state' \in States /\ displaying_unit' \in Units
        /\ fb_pressing' \in {0, 1} /\ fb_timer' \in 0..(FB_TIMER_LONG + FB_TIMER_CD)
        /\ level' \in [Pins -> {-1, 0, 1}] /\ counter' \in [Pins -> Nat]
        /\ battery_state' \subseteq Flags
    <2> DEFINE due == {p \in Pins : counter[p] = 0}
    <2>1. PICK lvl \in [due -> {0, 1}], clockSet \in BOOLEAN :
            LET changed == {p \in due : lvl[p] # level[p]}
                timer == IF fb_timer > 0 THEN fb_timer - 1 ELSE 0
                p0 == [state |-> state, unit |-> displaying_unit,
                       pressing |-> fb_pressing, timer |-> timer]
                p1 == IF "FRONT" \in changed
                      THEN FrontEvent(p0, lvl["FRONT"], clockSet)
                      ELSE p0
            IN  /\ level' = [p \in Pins |-> IF p \in due THEN lvl[p] ELSE level[p]]
                /\ counter' = [p \in Pins |->
                                 IF p \notin due THEN counter[p] - 1
                                 ELSE IF p = "BACK" /\ p \in changed THEN BACK_COOLDOWN
                                 ELSE IF p \in Flags THEN BAT_INTERVAL
                                 ELSE POLL_INTERVAL]
                /\ state' = IF "BACK" \in changed
                            THEN BackEvent(p1.state, lvl["BACK"])
                            ELSE p1.state
                /\ displaying_unit' = p1.unit
                /\ fb_pressing' = p1.pressing
                /\ fb_timer' = p1.timer
                /\ battery_state' = BatteryFlags(changed, lvl)
      BY DEF Tick, PollGpio
    <2> DEFINE changed == {p \in due : lvl[p] # level[p]}
               timer == IF fb_timer > 0 THEN fb_timer - 1 ELSE 0
               p0 == [state |-> state, unit |-> displaying_unit,
                      pressing |-> fb_pressing, timer |-> timer]
               p1 == IF "FRONT" \in changed THEN FrontEvent(p0, lvl["FRONT"], clockSet) ELSE p0
    <2>2. timer \in 0..(FB_TIMER_LONG + FB_TIMER_CD)
      BY FrontPanelAssumption
    <2>3. p0 \in Panels
      BY <2>2 DEF Panels
    <2>4. p1 \in Panels
      <3>1. "FRONT" \in changed => lvl["FRONT"] \in {0, 1}
        OBVIOUS
      <3> QED BY <2>3, <3>1, FrontEventTypes
    <2>5. p1.state \in States /\ p1.unit \in Units /\ p1.pressing \in {0, 1}
            /\ p1.timer \in 0..(FB_TIMER_LONG + FB_TIMER_CD)
      <3> HIDE DEF p1
      <3> QED BY <2>4 DEF Panels
    <2>6. level' \in [Pins -> {-1, 0, 1}]
      BY <2>1
    <2>7. counter' \in [Pins -> Nat]
      BY <2>1, FrontPanelAssumption
    <2>8. battery_state' \subseteq Flags
      BY <2>1 DEF BatteryFlags
    <2> HIDE DEF p1
    <2>9. BackEvent(p1.state, lvl["BACK"]) \in States
      BY <2>5 DEF BackEvent, States
    <2>10. state' \in States /\ displaying_unit' \in Units
             /\ fb_pressing' \in {0, 1} /\ fb_timer' \in 0..(FB_TIMER_LONG + FB_TIMER_CD)
      BY <2>1, <2>5, <2>9 DEF p1
    <2> QED BY <2>6, <2>7, <2>8, <2>10
  <1>4. UNCHANGED <<current_state, current_displaying_unit, last_battery_state,
                    last_spinner_frame, current_display_data, data_send_counter,
                    armed, store>>
    BY DEF Tick
  <1> QED BY <1>1, <1>2, <1>3, <1>4

\* ... and so does the switch over the states, with what wifi_setup() clears and ...
LEMMA SwitchKeeps == Inv /\ (SwitchState \/ EnterWifiSetup) => Inv'
  <1> SUFFICES ASSUME Inv, SwitchState \/ EnterWifiSetup PROVE Inv'
    OBVIOUS
  <1> USE FrontPanelAssumption DEF Inv, TypeOK, ClearData
  <1>1. CASE EnterWifiSetup
    <2>1. last_battery_state' = NoFlags
      BY <1>1 DEF EnterWifiSetup
    <2>2. last_battery_state' \in (SUBSET Flags) \cup {NoFlags}
      BY <2>1
    <2>3. spinner_frame' = 0 /\ last_spinner_frame' = -1 /\ current_display_data' = -1
      BY <1>1 DEF EnterWifiSetup
    <2>4. /\ pc = "case" /\ pc' = "setup"
          /\ UNCHANGED <<state, current_state, displaying_unit, current_displaying_unit,
                         fb_pressing, fb_timer, level, counter, battery_state, new_data,
                         data_send_counter, armed, store, ticks>>
      BY <1>1 DEF EnterWifiSetup, Goto, mode, unit, button, pins
    <2> QED BY <2>2, <2>3, <2>4
  <1>2. CASE SwitchState
    <2>1. /\ armed' = TRUE /\ pc' = "expire" /\ current_state' = state
          /\ UNCHANGED <<state, fb_pressing, fb_timer, level, counter, battery_state,
                         last_battery_state, new_data, data_send_counter, store, ticks>>
      BY <1>2 DEF SwitchState, Goto, button, pins, battery
    <2>2. /\ state \in MenuStates
          /\ displaying_unit' \in Units /\ current_displaying_unit' \in Units
          /\ spinner_frame' \in 0..(SPINNER_FRAME_COUNT - 1)
          /\ last_spinner_frame' \in -1..(SPINNER_FRAME_COUNT - 1)
          /\ current_display_data' \in Readings \cup {-1}
      <3> USE DEF unit, spinner, MenuStates, States, DataStates, Units
      <3>1. CASE EnterPm25
        BY <3>1 DEF EnterPm25
      <3>2. CASE EnterTime
        BY <3>2 DEF EnterTime
      <3>3. CASE EnterId
        BY <3>3 DEF EnterId
      <3>4. CASE EnterIp
        BY <3>4 DEF EnterIp
      <3> QED BY <1>2, <3>1, <3>2, <3>3, <3>4 DEF SwitchState
    <2> QED BY <2>1, <2>2 DEF MenuStates
  <1> QED BY <1>1, <1>2

\* ... its return ...
LEMMA ReturnKeeps == Inv /\ SetupReturns => Inv'
  BY DEF SetupReturns, Goto, Inv, TypeOK, unit, button, pins, battery, spinner, data,
         States, DataStates

\* ... the end of the cooldown ...
LEMMA ExpireKeeps == Inv /\ Expire => Inv'
  <1> SUFFICES ASSUME Inv, Expire PROVE Inv'
    OBVIOUS
  <1> USE DEF Inv, TypeOK, Goto, mode, unit, button, pins, battery, spinner, data
  <1>1. CASE SeeExpiry
    BY <1>1 DEF SeeExpiry
  <1>2. CASE ExpiryGuard
    BY <1>2 DEF ExpiryGuard
  <1>3. CASE ExpiryRelease
    BY <1>3 DEF ExpiryRelease
  <1>4. CASE ExpiryClass
    BY <1>4 DEF ExpiryClass
  <1>5. CASE ExpiryLoad
    <2>1. store' \in Presses
      BY <1>5, PressTypes DEF ExpiryLoad
    <2>2. fb_timer' \in 0..(FB_TIMER_LONG + FB_TIMER_CD)
      BY <1>5, FrontPanelAssumption DEF ExpiryLoad
    <2> QED BY <1>5, <2>1, <2>2 DEF ExpiryLoad
  <1>6. CASE ExpiryStore
    <2>1. state' \in States /\ displaying_unit' \in Units
      BY <1>6, AssignedTypes DEF ExpiryStore
    <2>2. store' \in Presses
      BY <1>6 DEF ExpiryStore, Presses
    <2> QED BY <1>6, <2>1, <2>2 DEF ExpiryStore
  <1>7. CASE ExpiryCool
    BY <1>7, FrontPanelAssumption DEF ExpiryCool
  <1> QED BY <1>1, <1>2, <1>3, <1>4, <1>5, <1>6, <1>7 DEF Expire

\* ... and the main loop.
LEMMA MainKeeps == Inv /\ Main => Inv'
  <1> SUFFICES ASSUME Inv, Main PROVE Inv'
    OBVIOUS
  <1> USE DEF Inv, TypeOK, Goto, mode, unit, button, pins, battery, spinner, data
  <1>1. CASE SeeState
    BY <1>1 DEF SeeState
  <1>2. CASE StopForSwitch
    BY <1>2 DEF StopForSwitch
  <1>3. CASE SwitchState \/ EnterWifiSetup
    BY <1>3, SwitchKeeps
  <1>4. CASE Expire
    BY <1>4, ExpireKeeps
  <1>5. CASE SeeSpinner
    BY <1>5 DEF SeeSpinner, SeePm25Then, SeeTimeThen
  <1>6. CASE DrawSpinner
    BY <1>6, FrontPanelAssumption DEF DrawSpinner
  <1>7. CASE SeeBattery \/ DrawBattery \/ RecordBattery
    BY <1>7 DEF SeeBattery, DrawBattery, DrawBatteryIf, RecordBattery
  <1>8. CASE SeeNewData \/ TakeData
    BY <1>8 DEF SeeNewData, SeePm25Then, SeeTimeThen, TakeData
  <1>9. CASE ShowInTime \/ SeePm25 \/ DrawData
    BY <1>9 DEF ShowInTime, SeePm25, SeePm25Then, DrawData
  <1>10. CASE SendData
    <2>1. data_send_counter' \in 0..(DATA_SEND_INTERVAL - 1) /\ armed' \in BOOLEAN
      <3>1. \/ data_send_counter' = 0 /\ armed' = TRUE
            \/ /\ data_send_counter + 1 < DATA_SEND_INTERVAL
               /\ data_send_counter' = data_send_counter + 1
               /\ UNCHANGED armed
        BY <1>10 DEF SendData
      <3>3. CASE data_send_counter' = 0 /\ armed' = TRUE
        BY <3>3, FrontPanelAssumption
      <3>4. CASE /\ data_send_counter + 1 < DATA_SEND_INTERVAL
                 /\ data_send_counter' = data_send_counter + 1
                 /\ UNCHANGED armed
        BY <3>4, FrontPanelAssumption
      <3> QED BY <3>1, <3>3, <3>4
    <2> QED BY <1>10, <2>1 DEF SendData
  <1>11. CASE SeeUnit
    BY <1>11 DEF SeeUnit
  <1>12. CASE ChangeUnit
    BY <1>12 DEF ChangeUnit
  <1>13. CASE EnsureTimer
    BY <1>13 DEF EnsureTimer
  <1> QED
    BY <1>1, <1>2, <1>3, <1>4, <1>5, <1>6, <1>7, <1>8, <1>9, <1>10, <1>11, <1>12, <1>13 DEF Main

\* The invariant holds at first ...
LEMMA InitInvariant == Init => Inv
  <1> SUFFICES ASSUME Init PROVE Inv
    OBVIOUS
  <1> USE FrontPanelAssumption DEF Init
  <1>1. /\ state \in States /\ current_state \in States \ {"WIFI_SETUP"}
        /\ displaying_unit \in Units /\ current_displaying_unit \in Units
        /\ battery_state \subseteq Flags
    BY DEF States, DataStates, Units
  <1>0. last_battery_state \in (SUBSET Flags) \cup {NoFlags}
    OBVIOUS
  <1>2. /\ level \in [Pins -> {-1, 0, 1}] /\ counter \in [Pins -> Nat]
        /\ fb_pressing \in {0, 1} /\ fb_timer \in 0..(FB_TIMER_LONG + FB_TIMER_CD)
    OBVIOUS
  <1>3. /\ spinner_frame \in 0..(SPINNER_FRAME_COUNT - 1)
        /\ last_spinner_frame \in -1..(SPINNER_FRAME_COUNT - 1)
        /\ new_data \in {0, 1} /\ current_display_data \in Readings \cup {-1}
        /\ data_send_counter \in 0..(DATA_SEND_INTERVAL - 1)
        /\ armed /\ armed \in BOOLEAN /\ ticks \in 0..PassTicks
    OBVIOUS
  <1>4. store \in Presses
    BY DEF Presses
  <1> QED BY <1>0, <1>1, <1>2, <1>3, <1>4 DEF Inv, TypeOK

\* ... every step keeps it ...
LEMMA NextKeeps == Inv /\ [Next]_vars => Inv'
  <1> SUFFICES ASSUME Inv, [Next]_vars PROVE Inv'
    OBVIOUS
  <1>1. CASE UNCHANGED vars
    BY <1>1 DEF vars, Inv, TypeOK
  <1> QED BY <1>1, TickKeeps, MainKeeps, ReturnKeeps DEF Next

\* ... and it holds for ever.
LEMMA Invariance == Spec => []Inv
  BY InitInvariant, NextKeeps, PTL DEF Spec

(* The panel is type correct: no counter of a pin or a button runs below zero and *)
(* no press, however it is split by ticks, leaves a state or unit that is none     *)
(* (main.c:132-293, 973-1265).                                                  *)
THEOREM TypeCorrect == Spec => []TypeOK
  <1>1. Inv => TypeOK
    BY DEF Inv
  <1> QED BY <1>1, Invariance, PTL

-----------------------------------------------------------------------------
(* The page on the screen.                                                     *)

Expiring == {"expire", "guard", "release", "class", "short", "long", "store", "cool"}

\* The front button was polled so lately that it is not polled again in this pass;
\* no press of it can end in this pass.
Recent(n) == "FRONT" \in Pins /\ counter["FRONT"] + ticks >= n
Locked == fb_pressing = 0 \/ Recent(POLL_INTERVAL + 1)

\* Once the state differs from the one the loop acted on it does so until the loop
\* acts on it: a press that has changed it is not followed by one that takes it
\* back, and Wi-Fi setup is left by the loop alone.
Lasting ==
    /\ pc \in {"class", "short", "long", "store", "cool"} => Locked
    /\ pc \notin {"top", "stop", "case", "setup"} /\ state # current_state =>
         state = "WIFI_SETUP" \/ Locked
    /\ pc = "top" /\ state # current_state =>
         state = "WIFI_SETUP" \/ fb_pressing = 0 \/ Recent(POLL_INTERVAL - PassTicks)

\* The page of the state the loop acted on.
Page ==
    /\ current_state = "ID" => screen.page = "id"
    /\ current_state = "IP" => screen.page = "ip"
    /\ current_state = "TIME" => screen.page = "time"
    /\ current_state = "PM25" /\ current_display_data < 0 => screen.page = "wait"
    /\ current_state = "PM25" /\ current_display_data >= 0 =>
         screen.page = "data" /\ screen.value.reading = current_display_data

Showing == {"show_time", "show_data", "draw_data"}

\* display()'s flags are right, and its page is the one of that state as long as the
\* state is the same; between a new mean and its drawing the value is an old one.
Shown ==
    /\ screen.current_is_data => screen.page = "data"
    /\ screen.current_is_time => screen.page = "time"
    /\ pc \in Expiring => Page
    /\ pc \notin Expiring \cup Showing \cup {"stop", "case", "setup"} /\ state = current_state => Page
    /\ pc \in Showing \cup {"take", "pending"} /\ state = current_state =>
         current_state \in DataStates
    /\ pc = "setup" => current_display_data = -1
    /\ pc \in Showing => current_display_data \in Readings
    /\ pc \in Showing /\ state = current_state /\ current_state = "TIME" => screen.page = "time"
    /\ pc \in {"draw_data", "change_unit"} /\ state = current_state => current_state = "PM25"

Values == [reading : Readings \cup {-1}, unit : Units]

Screens ==
    [page : Pages, label : Units, value : Values,
     current_is_data : BOOLEAN, current_is_time : BOOLEAN,
     spinner : BOOLEAN, battery : {Blank, "f", "h", "l"}, net : -1..1]

ScreenInv == Inv /\ screen \in Screens /\ Lasting /\ Shown

\* What the code leaves to timing and calibration: a pass takes no more than half a
\* polling interval, and no mean is negative.
Timely == 2 * PassTicks <= POLL_INTERVAL
Calibrated == Timely /\ Readings \subseteq Nat

\* The screen stays a record of its areas.
LEMMA ShowTypes ==
  ASSUME NEW s \in Screens
  PROVE  /\ \A page \in Pages : ShowPage(s, page) \in Screens
         /\ \A l \in Units, v \in Values : ShowData(s, l, v) \in Screens
         /\ \A l \in Units : ShowUnit(s, l) \in Screens
         /\ ShowTime(s) \in Screens
         /\ \A frame : ShowSpinner(s, frame) \in Screens
         /\ \A icon \in {Blank, "f", "h", "l"} : ShowBattery(s, icon) \in Screens
         /\ \A conn \in -1..1 : ShowNet(s, conn) \in Screens
  <1>1. \A page \in Pages : ShowPage(s, page) \in Screens
    BY DEF Screens, ShowPage
  <1>2. ASSUME NEW l \in Units, NEW v \in Values PROVE ShowData(s, l, v) \in Screens
    <2>1. CASE s.current_is_data
      BY <2>1 DEF Screens, ShowData
    <2>2. CASE ~s.current_is_data
      BY <2>2 DEF Screens, ShowData, Pages
    <2> QED BY <2>1, <2>2
  <1>3. \A l \in Units : ShowUnit(s, l) \in Screens
    BY DEF Screens, ShowUnit
  <1>4. ShowTime(s) \in Screens
    BY DEF Screens, ShowTime, Pages
  <1>5. ASSUME NEW frame PROVE ShowSpinner(s, frame) \in Screens
    <2>1. (frame >= 0) \in BOOLEAN
      OBVIOUS
    <2> QED BY <2>1 DEF Screens, ShowSpinner
  <1>6. /\ \A icon \in {Blank, "f", "h", "l"} : ShowBattery(s, icon) \in Screens
        /\ \A conn \in -1..1 : ShowNet(s, conn) \in Screens
    BY DEF Screens, ShowBattery, ShowNet
  <1> QED BY <1>1, <1>2, <1>3, <1>4, <1>5, <1>6

\* How the tick moves pc and ticks, and what it leaves to the loop.
LEMMA TickFrame ==
  ASSUME Tick
  PROVE  /\ \/ pc = "pause" /\ pc' = "top" /\ ticks' = 0
            \/ pc # "pause" /\ pc' = pc /\ ticks < PassTicks /\ ticks' = ticks + 1
         /\ UNCHANGED <<current_state, current_display_data, screen, store>>
  BY DEF Tick

\* A state that the main loop has not seen yet lasts over a tick.
LEMMA TickLasts ==
  ASSUME Timely, Inv, Lasting, Tick
  PROVE  /\ Lasting'
         /\ pc \notin {"stop", "case", "setup"} /\ state # current_state => state' # current_state
  <1> USE FrontPanelAssumption DEF Timely
  <1>0. /\ ticks \in 0..PassTicks /\ fb_pressing \in {0, 1}
        /\ current_state # "WIFI_SETUP"
        /\ "FRONT" \in Pins => counter["FRONT"] \in Nat
    BY DEF Inv, TypeOK
  <1>1. PICK s \in States :
          /\ state' = s \/ (s \in DataStates /\ state' = "WIFI_SETUP")
          /\ (s = state /\ (Quiet \/ Pressed)) \/ Released(s)
    BY TickCases
  <1>2. "FRONT" \in Pins =>
          counter'["FRONT"] = IF counter["FRONT"] = 0 THEN POLL_INTERVAL
                              ELSE counter["FRONT"] - 1
    BY TickCases
  <1>3. /\ \/ pc = "pause" /\ pc' = "top" /\ ticks' = 0
           \/ pc # "pause" /\ pc' = pc /\ ticks < PassTicks /\ ticks' = ticks + 1
        /\ UNCHANGED current_state
    BY TickFrame
  <1>4. ASSUME Locked, pc # "pause" PROVE Locked' /\ s = state
    <2>1. CASE fb_pressing = 0
      <3>1. s = state /\ (Quiet \/ Pressed)
        BY <1>1, <2>1 DEF Released
      <3>2. CASE Quiet
        BY <2>1, <3>1, <3>2 DEF Quiet, Locked
      <3>3. CASE Pressed
        BY <1>0, <1>2, <1>3, <1>4, <3>1, <3>3 DEF Pressed, Due, Locked, Recent
      <3> QED BY <3>1, <3>2, <3>3
    <2>2. CASE Recent(POLL_INTERVAL + 1)
      <3>1. ~Due /\ counter'["FRONT"] = counter["FRONT"] - 1
        BY <1>0, <1>2, <1>3, <1>4, <2>2 DEF Recent, Due
      <3>2. s = state
        BY <1>1, <3>1 DEF Released
      <3>3. Recent(POLL_INTERVAL + 1)'
        BY <1>0, <1>3, <1>4, <2>2, <3>1 DEF Recent
      <3> QED BY <3>2, <3>3 DEF Locked
    <2> QED BY <1>4, <2>1, <2>2 DEF Locked
  <1>5. s # state => fb_pressing' = 0 /\ Locked'
    BY <1>1 DEF Released, Locked
  <1>6. state = "WIFI_SETUP" => state' = "WIFI_SETUP"
    BY <1>1 DEF Released, DataStates
  <1>7. ASSUME Locked, pc = "pause"
        PROVE  s = state /\ (fb_pressing' = 0 \/ Recent(POLL_INTERVAL - PassTicks)')
    <2>1. CASE fb_pressing = 0
      <3>1. s = state /\ (Quiet \/ Pressed)
        BY <1>1, <2>1 DEF Released
      <3>2. CASE Quiet
        BY <2>1, <3>1, <3>2 DEF Quiet
      <3>3. CASE Pressed
        BY <1>0, <1>2, <1>3, <1>7, <3>1, <3>3 DEF Pressed, Due, Recent
      <3> QED BY <3>1, <3>2, <3>3
    <2>2. CASE Recent(POLL_INTERVAL + 1)
      <3>1. ~Due /\ counter'["FRONT"] = counter["FRONT"] - 1
        BY <1>0, <1>2, <1>3, <1>7, <2>2 DEF Recent, Due
      <3>2. s = state
        BY <1>1, <3>1 DEF Released
      <3>3. Recent(POLL_INTERVAL - PassTicks)'
        BY <1>0, <1>3, <1>7, <2>2, <3>1 DEF Recent
      <3> QED BY <3>2, <3>3
    <2> QED BY <1>7, <2>1, <2>2 DEF Locked
  <1>8. ASSUME fb_pressing = 0 \/ Recent(POLL_INTERVAL - PassTicks), pc = "top"
        PROVE  s = state /\ (fb_pressing' = 0 \/ Recent(POLL_INTERVAL - PassTicks)')
    <2>1. CASE fb_pressing = 0
      <3>1. s = state /\ (Quiet \/ Pressed)
        BY <1>1, <2>1 DEF Released
      <3>2. CASE Quiet
        BY <2>1, <3>1, <3>2 DEF Quiet
      <3>3. CASE Pressed
        BY <1>0, <1>2, <1>3, <1>8, <3>1, <3>3 DEF Pressed, Due, Recent
      <3> QED BY <3>1, <3>2, <3>3
    <2>2. CASE Recent(POLL_INTERVAL - PassTicks)
      <3>1. ~Due /\ counter'["FRONT"] = counter["FRONT"] - 1
        BY <1>0, <1>2, <1>3, <1>8, <2>2 DEF Recent, Due
      <3>2. s = state
        BY <1>1, <3>1 DEF Released
      <3>3. Recent(POLL_INTERVAL - PassTicks)'
        BY <1>0, <1>3, <1>8, <2>2, <3>1 DEF Recent
      <3> QED BY <3>2, <3>3
    <2> QED BY <1>8, <2>1, <2>2
  <1>9. s = state => state' \in {state, "WIFI_SETUP"}
    BY <1>1
  <1>10. pc \notin {"stop", "case", "setup"} /\ state # current_state => state' # current_state
    BY <1>0, <1>3, <1>4, <1>6, <1>7, <1>8, <1>9 DEF Lasting
  <1>11. pc' \in {"class", "short", "long", "store", "cool"} => Locked'
    BY <1>3, <1>4 DEF Lasting
  <1>12. pc' \notin {"top", "stop", "case", "setup"} /\ state' # current_state' =>
           state' = "WIFI_SETUP" \/ Locked'
    <2> SUFFICES ASSUME pc' \notin {"top", "stop", "case", "setup"}, state' # current_state'
                 PROVE  state' = "WIFI_SETUP" \/ Locked'
      OBVIOUS
    <2>1. pc' = pc /\ pc # "pause"
      BY <1>3
    <2>2. CASE state = current_state
      BY <1>3, <1>5, <1>9, <2>2
    <2>3. CASE state # current_state
      BY <1>4, <1>6, <2>1, <2>3 DEF Lasting
    <2> QED BY <2>2, <2>3
  <1>13. pc' = "top" /\ state' # current_state' =>
           state' = "WIFI_SETUP" \/ fb_pressing' = 0 \/ Recent(POLL_INTERVAL - PassTicks)'
    <2> SUFFICES ASSUME pc' = "top", state' # current_state'
                 PROVE  state' = "WIFI_SETUP" \/ fb_pressing' = 0
                          \/ Recent(POLL_INTERVAL - PassTicks)'
      OBVIOUS
    <2>1. pc \in {"pause", "top"}
      BY <1>3
    <2>2. CASE state = current_state
      BY <1>3, <1>5, <1>9, <2>2
    <2>3. CASE state # current_state
      BY <1>6, <1>7, <1>8, <2>1, <2>3 DEF Lasting
    <2> QED BY <2>2, <2>3
  <1> QED BY <1>10, <1>11, <1>12, <1>13 DEF Lasting

\* The state and the front button are changed by three statements of the loop only.
LEMMA MainLasts == Inv /\ Lasting /\ Main => Lasting'
  <1> SUFFICES ASSUME Inv, Lasting, Main PROVE Lasting'
    OBVIOUS
  <1> USE DEF Lasting, Locked, Recent
  <1>1. CASE SwitchState \/ EnterWifiSetup
    BY <1>1 DEF SwitchState, EnterWifiSetup, Goto, button, pins
  <1>2. CASE ExpiryRelease
    BY <1>2 DEF ExpiryRelease, Goto
  <1>3. CASE ExpiryStore
    BY <1>3 DEF ExpiryStore, Goto, button, pins
  <1>4. CASE SeeState
    BY <1>4 DEF SeeState, Goto, mode, button, pins
  <1>5. CASE StopForSwitch
    BY <1>5 DEF StopForSwitch, Goto
  <1>6. CASE /\ Main
             /\ ~(SwitchState \/ EnterWifiSetup \/ ExpiryRelease \/ ExpiryStore \/ SeeState \/ StopForSwitch)
    <2>1. /\ UNCHANGED <<state, current_state, fb_pressing, counter, ticks>>
          /\ pc \notin {"top", "stop", "case", "setup"} /\ pc' \notin {"top", "stop", "case", "setup"}
          /\ pc' \in {"class", "short", "long", "store", "cool"} =>
               pc \in {"class", "short", "long", "store", "cool"}
          /\ UNCHANGED state
      <3> USE DEF Goto, mode, button, pins
      <3>1. CASE Expire
        BY <1>6, <3>1 DEF Expire, SeeExpiry, ExpiryGuard, ExpiryClass, ExpiryLoad, ExpiryCool
      <3>2. CASE SeeSpinner \/ DrawSpinner \/ SeeBattery \/ DrawBattery \/ RecordBattery
        BY <3>2 DEF SeeSpinner, SeePm25Then, SeeTimeThen, DrawSpinner, SeeBattery, DrawBattery,
                    DrawBatteryIf, RecordBattery
      <3>3. CASE SeeNewData \/ TakeData \/ ShowInTime \/ SeePm25 \/ DrawData \/ SendData
        BY <3>3 DEF SeeNewData, SeePm25Then, SeeTimeThen, TakeData, ShowInTime, SeePm25, DrawData,
                    SendData
      <3>4. CASE SeeUnit \/ ChangeUnit \/ EnsureTimer
        BY <3>4 DEF SeeUnit, ChangeUnit, EnsureTimer
      <3> QED BY <1>6, <3>1, <3>2, <3>3, <3>4 DEF Main
    <2> QED BY <2>1
  <1> QED BY <1>1, <1>2, <1>3, <1>4, <1>5, <1>6

\* After Wi-Fi setup the state is the one the loop acted on.
LEMMA ReturnLasts == SetupReturns => Lasting'
  BY DEF SetupReturns, Goto, Lasting, Locked

\* A page is drawn whole wherever it has to be.
LEMMA SwitchShows ==
    Calibrated /\ ScreenInv /\ SwitchState => screen' \in Screens /\ Shown'
  <1> SUFFICES ASSUME Calibrated, ScreenInv, SwitchState PROVE screen' \in Screens /\ Shown'
    OBVIOUS
  <1> DEFINE cleared == ShowPage(Cleared(screen), "id")
             value == [reading |-> current_display_data, unit |-> displaying_unit]
  <1>0. /\ pc' = "expire" /\ current_state' = state /\ UNCHANGED state
        /\ screen \in Screens /\ displaying_unit \in Units
        /\ current_display_data \in Readings \cup {-1} /\ Readings \subseteq Nat
        /\ screen.current_is_data => screen.page = "data"
        /\ screen.current_is_time => screen.page = "time"
    BY DEF SwitchState, Goto, ScreenInv, Inv, TypeOK, Shown, Calibrated
  <1>10. current_display_data \in Int
    BY <1>0
  <1>1. Cleared(screen) \in Screens
    <2>1. ShowSpinner(screen, -1) \in Screens
      BY <1>0, ShowTypes
    <2> QED BY <2>1, ShowTypes DEF Cleared
  <1>2. cleared \in Screens
    BY <1>1, ShowTypes DEF Pages
  <1>3. \A page \in Pages, s \in Screens :
          /\ ShowPage(s, page).page = page
          /\ ~ShowPage(s, page).current_is_data /\ ~ShowPage(s, page).current_is_time
    BY DEF ShowPage, Screens
  <1>4. value \in Values
    BY <1>0 DEF Values
  <1> USE DEF Shown, Page, Expiring, Showing
  <1>5. CASE EnterPm25
    <2>1. CASE current_display_data < 0
      <3>1. screen' = ShowPage(screen, "wait") /\ state = "PM25" /\ UNCHANGED current_display_data
        BY <1>5, <2>1 DEF EnterPm25
      <3>2. screen' \in Screens
        BY <1>0, <3>1, ShowTypes DEF Pages
      <3>3. screen'.page = "wait" /\ ~screen'.current_is_data /\ ~screen'.current_is_time
        BY <1>0, <1>3, <3>1 DEF Pages
      <3> QED BY <1>0, <1>10, <2>1, <3>1, <3>2, <3>3
    <2>2. CASE ~(current_display_data < 0)
      <3>1. screen' = ShowData(screen, displaying_unit, value) /\ state = "PM25"
              /\ UNCHANGED current_display_data
        BY <1>5, <2>2 DEF EnterPm25
      <3>2. screen' \in Screens
        BY <1>0, <1>4, <3>1, ShowTypes
      <3>3. screen'.page = "data" /\ ~screen'.current_is_time /\ screen'.value = value
        BY <1>0, <3>1 DEF ShowData, Screens
      <3> QED BY <1>0, <2>2, <3>1, <3>2, <3>3
    <2> QED BY <2>1, <2>2
  <1>6. CASE EnterTime
    <2>1. screen' = ShowTime(screen) /\ state = "TIME"
      BY <1>6 DEF EnterTime
    <2>2. screen'.page = "time" /\ ~screen'.current_is_data
      BY <1>0, <2>1 DEF ShowTime, Screens
    <2> QED BY <1>0, <2>1, <2>2, ShowTypes
  <1>8. CASE EnterId
    <2>1. screen' \in {cleared, ShowPage(screen, "id")} /\ state = "ID"
      BY <1>8 DEF EnterId
    <2>2. ShowPage(screen, "id") \in Screens
      BY <1>0, ShowTypes DEF Pages
    <2>3. screen'.page = "id" /\ ~screen'.current_is_data /\ ~screen'.current_is_time
      BY <1>0, <1>1, <1>3, <2>1 DEF Pages
    <2> QED BY <1>0, <1>2, <2>1, <2>2, <2>3
  <1>9. CASE EnterIp
    <2>1. screen' = ShowPage(screen, "ip") /\ state = "IP"
      BY <1>9 DEF EnterIp
    <2>2. screen' \in Screens
      BY <1>0, <2>1, ShowTypes DEF Pages
    <2>3. screen'.page = "ip" /\ ~screen'.current_is_data /\ ~screen'.current_is_time
      BY <1>0, <1>3, <2>1 DEF Pages
    <2> QED BY <1>0, <2>1, <2>2, <2>3
  <1> QED BY <1>5, <1>6, <1>8, <1>9 DEF SwitchState

\* So it is on the way into Wi-Fi setup ...
LEMMA EnterSetupShows ==
    ScreenInv /\ EnterWifiSetup => screen' \in Screens /\ Shown'
  <1> SUFFICES ASSUME ScreenInv, EnterWifiSetup PROVE screen' \in Screens /\ Shown'
    OBVIOUS
  <1> DEFINE blank == ShowBattery(Cleared(screen), Blank)
  <1>1. /\ screen' = ShowPage(blank, "setup") /\ pc' = "setup"
        /\ screen \in Screens
    BY DEF EnterWifiSetup, Goto, ScreenInv
  <1>2. Cleared(screen) \in Screens
    <2>1. ShowSpinner(screen, -1) \in Screens
      BY <1>1, ShowTypes
    <2> QED BY <2>1, ShowTypes DEF Cleared
  <1>3. blank \in Screens
    BY <1>2, ShowTypes
  <1> HIDE DEF blank
  <1>4. screen' \in Screens
    BY <1>1, <1>3, ShowTypes DEF Pages
  <1>5. ~screen'.current_is_data /\ ~screen'.current_is_time
    BY <1>1, <1>3 DEF ShowPage, Screens
  <1>6. current_display_data' = -1
    BY DEF EnterWifiSetup, ClearData
  <1> QED BY <1>1, <1>4, <1>5, <1>6 DEF Shown, Expiring, Showing

\* ... and out of it.
LEMMA ReturnShows ==
    ScreenInv /\ SetupReturns => screen' \in Screens /\ Shown'
  <1> SUFFICES ASSUME ScreenInv, SetupReturns PROVE screen' \in Screens /\ Shown'
    OBVIOUS
  <1>1. /\ screen' = ShowPage(screen, "wait") /\ pc' = "expire" /\ screen \in Screens
        /\ state' = "PM25" /\ current_state' = "PM25" /\ current_display_data' = -1
    BY DEF SetupReturns, Goto, data, ScreenInv, Shown
  <1>2. screen' \in Screens
    BY <1>1, ShowTypes DEF Pages
  <1>3. screen'.page = "wait" /\ ~screen'.current_is_data /\ ~screen'.current_is_time
    BY <1>1 DEF ShowPage, Screens
  <1> QED BY <1>1, <1>2, <1>3 DEF Shown, Page, Expiring, Showing

\* After a step of the main loop the screen shows what the state asks for.
LEMMA MainShows ==
    Calibrated /\ ScreenInv /\ Main => screen' \in Screens /\ Shown'
  <1> SUFFICES ASSUME Calibrated, ScreenInv, Main PROVE screen' \in Screens /\ Shown'
    OBVIOUS
  <1>0. /\ screen \in Screens
        /\ displaying_unit \in Units /\ current_displaying_unit \in Units
        /\ current_display_data \in Readings \cup {-1} /\ Readings \subseteq Nat
        /\ current_state \in MenuStates
        /\ Shown
    BY DEF ScreenInv, Inv, TypeOK, Calibrated, MenuStates
  <1>16. current_display_data \in Int
    BY <1>0
  <1> USE DEF Shown, Page, Expiring, Showing, Goto, mode
  <1>1. CASE SwitchState \/ EnterWifiSetup
    BY <1>1, SwitchShows, EnterSetupShows
  <1>2. CASE SeeState \/ StopForSwitch
    BY <1>0, <1>2 DEF SeeState, StopForSwitch, data
  <1>3. CASE Expire
    BY <1>0, <1>3 DEF Expire, SeeExpiry, ExpiryGuard, ExpiryRelease, ExpiryClass, ExpiryLoad,
                      ExpiryStore, ExpiryCool, data
  <1>4. CASE SeeSpinner \/ SeeBattery \/ RecordBattery \/ EnsureTimer
    BY <1>0, <1>4 DEF SeeSpinner, SeePm25Then, SeeTimeThen, SeeBattery, RecordBattery,
                      EnsureTimer, data
  <1>5. ASSUME NEW s \in Screens, screen' = s,
               s.page = screen.page, s.value = screen.value,
               s.current_is_data = screen.current_is_data,
               s.current_is_time = screen.current_is_time,
               UNCHANGED <<state, current_state, current_display_data>>,
               pc \in {"draw_spin", "draw_battery", "draw_full", "draw_low", "send"},
               pc' \in {"battery", "draw_full", "draw_low", "record_battery", "unit"}
        PROVE  screen' \in Screens /\ Shown'
    BY <1>0, <1>5
  <1>6. CASE DrawSpinner
    <2>1. screen' = ShowSpinner(screen, spinner_frame) /\ screen' \in Screens
      BY <1>0, <1>6, ShowTypes DEF DrawSpinner
    <2>2. /\ screen'.page = screen.page /\ screen'.value = screen.value
          /\ screen'.current_is_data = screen.current_is_data
          /\ screen'.current_is_time = screen.current_is_time
      BY <1>0, <2>1 DEF ShowSpinner, Screens
    <2> QED BY <1>5, <1>6, <2>1, <2>2 DEF DrawSpinner, data
  <1>7. CASE DrawBattery
    <2>1. /\ screen' = screen \/ \E icon \in {"f", "h", "l"} : screen' = ShowBattery(screen, icon)
          /\ screen' \in Screens
      BY <1>0, <1>7, ShowTypes DEF DrawBattery, DrawBatteryIf
    <2>2. /\ screen'.page = screen.page /\ screen'.value = screen.value
          /\ screen'.current_is_data = screen.current_is_data
          /\ screen'.current_is_time = screen.current_is_time
      BY <1>0, <2>1 DEF ShowBattery, Screens
    <2> QED BY <1>5, <1>7, <2>1, <2>2 DEF DrawBattery, DrawBatteryIf, data
  <1>8. CASE SendData
    <2>0. screen.net \in -1..1
      BY <1>0 DEF Screens
    <2>1. screen' = screen \/ \E conn \in -1..1 : screen' = ShowNet(screen, conn)
      BY <1>8, <2>0 DEF SendData
    <2>2. screen' \in Screens
      BY <1>0, <2>1, ShowTypes
    <2>3. /\ screen'.page = screen.page /\ screen'.value = screen.value
          /\ screen'.current_is_data = screen.current_is_data
          /\ screen'.current_is_time = screen.current_is_time
      BY <1>0, <2>1 DEF ShowNet, Screens
    <2> QED BY <1>5, <1>8, <2>2, <2>3 DEF SendData
  <1>9. CASE SeeNewData
    BY <1>0, <1>9 DEF SeeNewData, SeePm25Then, SeeTimeThen, DataStates, data
  <1>10. CASE TakeData
    BY <1>0, <1>10 DEF TakeData
  <1>11. CASE ShowInTime
    <2>1. CASE state = "TIME"
      <3>1. screen' = ShowTime(screen) /\ pc' = "send"
              /\ UNCHANGED <<state, current_state, current_display_data>>
        BY <1>11, <2>1 DEF ShowInTime, data
      <3>2. screen'.page = "time" /\ ~screen'.current_is_data /\ screen' \in Screens
        BY <1>0, <3>1, ShowTypes DEF ShowTime, Screens
      <3> QED BY <1>0, <2>1, <3>1, <3>2
    <2>2. CASE state # "TIME"
      BY <1>0, <1>11, <2>2 DEF ShowInTime, data
    <2> QED BY <2>1, <2>2
  <1>12. CASE SeePm25
    BY <1>0, <1>12 DEF SeePm25, SeePm25Then, data, DataStates
  <1>13. CASE DrawData
    <2> DEFINE value == [reading |-> current_display_data, unit |-> current_displaying_unit]
    <2>1. screen' = ShowData(screen, displaying_unit, value) /\ pc = "draw_data" /\ pc' = "send"
            /\ UNCHANGED <<state, current_state, current_display_data>>
      BY <1>13 DEF DrawData, data
    <2>2. screen' \in Screens
      BY <1>0, <2>1, ShowTypes DEF Values
    <2>3. screen'.page = "data" /\ ~screen'.current_is_time /\ screen'.value = value
      BY <1>0, <2>1 DEF ShowData, Screens
    <2>4. current_display_data \in Nat
      BY <1>0, <2>1
    <2> QED BY <1>0, <2>1, <2>2, <2>3, <2>4
  <1>14. CASE SeeUnit
    BY <1>0, <1>14 DEF SeeUnit, data
  <1>15. CASE ChangeUnit
    <2> DEFINE value == [reading |-> current_display_data, unit |-> displaying_unit]
    <2>0. pc = "change_unit" /\ pc' = "ensure"
            /\ UNCHANGED <<state, current_state, current_display_data>>
      BY <1>15 DEF ChangeUnit, data
    <2>1. CASE current_display_data > 0
      <3>1. screen' = ShowData(ShowUnit(screen, displaying_unit), displaying_unit, value)
        BY <1>0, <1>16, <1>15, <2>1 DEF ChangeUnit
      <3>2. ShowUnit(screen, displaying_unit) \in Screens
        BY <1>0, <1>16, ShowTypes
      <3>3. screen' \in Screens
        BY <1>0, <1>16, <3>1, <3>2, ShowTypes DEF Values
      <3>4. /\ ShowUnit(screen, displaying_unit).page = screen.page
            /\ ShowUnit(screen, displaying_unit).current_is_data = screen.current_is_data
        BY <1>0, <1>16 DEF ShowUnit, Screens
      <3>5. screen'.page = "data" /\ ~screen'.current_is_time /\ screen'.value = value
        BY <1>0, <1>16, <3>1, <3>2, <3>4 DEF ShowData, Screens
      <3> QED BY <1>0, <1>16, <2>0, <2>1, <3>3, <3>5
    <2>2. CASE current_display_data <= 0
      BY <1>0, <1>16, <1>15, <2>0, <2>2 DEF ChangeUnit
    <2> QED BY <1>0, <1>16, <2>1, <2>2
  <1> QED
    BY <1>1, <1>2, <1>3, <1>4, <1>6, <1>7, <1>8, <1>9, <1>10, <1>11, <1>12, <1>13, <1>14, <1>15
    DEF Main

\* After a tick the screen still shows what the state asks for.
LEMMA TickShows ==
    Calibrated /\ ScreenInv /\ Tick => screen' \in Screens /\ Shown'
  <1> SUFFICES ASSUME Calibrated, ScreenInv, Tick PROVE screen' \in Screens /\ Shown'
    OBVIOUS
  <1>1. /\ \/ pc = "pause" /\ pc' = "top"
           \/ pc # "pause" /\ pc' = pc
        /\ UNCHANGED <<current_state, current_display_data, screen>>
    BY TickFrame
  <1>2. pc \notin {"stop", "case", "setup"} /\ state # current_state => state' # current_state
    BY TickLasts DEF ScreenInv, Calibrated
  <1> QED BY <1>1, <1>2 DEF ScreenInv, Shown, Page, Expiring, Showing

\* The invariant of the screen holds for ever.
LEMMA ScreenInvariance == ASSUME Calibrated PROVE Spec => []ScreenInv
  <1>1. Init => ScreenInv
    <2> SUFFICES ASSUME Init PROVE ScreenInv
      OBVIOUS
    <2>1. Inv
      BY InitInvariant
    <2>2. screen \in Screens
      BY DEF Init, EmptyScreen, NoValue, Screens, Values, Pages, Units, Blank
    <2>3. Lasting /\ Shown
      BY DEF Init, EmptyScreen, Lasting, Shown, Page, Expiring, Showing
    <2> QED BY <2>1, <2>2, <2>3 DEF ScreenInv
  <1>2. ScreenInv /\ [Next]_vars => ScreenInv'
    <2> SUFFICES ASSUME ScreenInv, [Next]_vars PROVE ScreenInv'
      OBVIOUS
    <2>1. Inv'
      BY NextKeeps DEF ScreenInv
    <2>2. CASE Tick
      BY <2>1, <2>2, TickLasts, TickShows DEF ScreenInv, Calibrated
    <2>3. CASE Main
      BY <2>1, <2>3, MainLasts, MainShows DEF ScreenInv
    <2>4. CASE SetupReturns
      BY <2>1, <2>4, ReturnLasts, ReturnShows DEF ScreenInv
    <2>5. CASE UNCHANGED vars
      BY <2>1, <2>5 DEF vars, ScreenInv, Lasting, Locked, Recent, Shown, Page
    <2> QED BY <2>2, <2>3, <2>4, <2>5 DEF Next
  <1> QED BY <1>1, <1>2, PTL DEF Spec

(* However ticks interrupt the loop and its handling of an expired press, a       *)
(* device at rest shows the page of its state, and in PM25 the last mean: if a     *)
(* pass takes at most half a polling interval and no mean is negative            *)
(* (main.c:972-1047, 1144-1152, 1216-1239).                                       *)
THEOREM FollowsState == ASSUME Calibrated PROVE Spec => []ScreenFollowsState
  <1>1. ScreenInv => ScreenFollowsState
    <2> SUFFICES ASSUME ScreenInv, Settled PROVE ScreenFollowsState
      BY DEF ScreenFollowsState
    <2>1. pc = "pause" /\ state = current_state /\ current_state \in MenuStates
      BY DEF Settled, ScreenInv, Inv, TypeOK, MenuStates
    <2>2. Page
      BY <2>1 DEF ScreenInv, Shown, Expiring, Showing
    <2>3. CASE state \in {"ID", "IP", "TIME"}
      BY <2>1, <2>2, <2>3 DEF Page, ScreenFollowsState
    <2>4. CASE state = "PM25"
      <3>1. current_display_data \in Int
        BY DEF ScreenInv, Inv, TypeOK, Calibrated
      <3>2. current_display_data < 0 \/ current_display_data >= 0
        BY <3>1
      <3> QED BY <2>1, <2>2, <2>4, <3>1, <3>2 DEF Page, ScreenFollowsState
    <2> QED BY <2>1, <2>3, <2>4 DEF MenuStates, States, DataStates
  <1> QED BY <1>1, ScreenInvariance, PTL

-----------------------------------------------------------------------------
(* The modes: FrontPanel.tla implements PanelMode.tla.  cooldown is the history  *)
(* variable of MCFrontPanel.                                                     *)

\* The back button's next poll falls on one of the front button's, whatever its
\* interval is at the time: 1001 ticks are 91 intervals of 11 (main.c:736-741).
InPhase == \E k \in Nat \ {0} : BACK_COOLDOWN + 1 = k * (POLL_INTERVAL + 1)

Multiples == {k * (POLL_INTERVAL + 1) : k \in Nat}

InStep == {"FRONT", "BACK"} \subseteq Pins => counter["BACK"] - counter["FRONT"] \in Multiples

Ticked == IF cooldown > 0 THEN cooldown - 1 ELSE 0

\* The front button's timer outlasts the dead time, but while the loop handles a press.
Aligned ==
    /\ cooldown \in 0..FB_TIMER_CD
    /\ pc \notin {"store", "cool"} => cooldown <= fb_timer

\* A press begins after the dead time, and ends with the poll that sees the release.
Pressing == fb_pressing = 1 => cooldown = 0 /\ "FRONT" \in Pins /\ level["FRONT"] = 0

\* A request for Wi-Fi setup is so recent that the front button is not polled before
\* the loop acts on it: no release goes by unseen.
Requested ==
    /\ state = "WIFI_SETUP" /\ "FRONT" \in Pins =>
         /\ pc \in {"top", "stop"} => Recent(POLL_INTERVAL - PassTicks)
         /\ pc \notin {"top", "stop", "case", "setup"} => Recent(POLL_INTERVAL + 1)
    /\ pc = "setup" => state = "WIFI_SETUP"

\* No press can begin in this pass.
NoPress == fb_pressing = 0 /\ "FRONT" \in Pins /\ (level["FRONT"] = 0 \/ Recent(POLL_INTERVAL + 1))

\* What the ticks may have done to a press since the loop saw it expire: it is still
\* held, or the tick has ended it.
Ended ==
    /\ Recent(POLL_INTERVAL + 1)
    /\ fb_pressing = 0
    /\ fb_timer + ticks >= FB_TIMER_CD + 1
Held == fb_timer = 0 /\ cooldown = 0

Handling ==
    /\ pc \in {"guard", "release"} => Ended \/ (Held /\ fb_pressing = 1)
    /\ pc = "class" => Ended \/ (Held /\ NoPress)
    /\ pc = "short" => Ended
    /\ pc = "long" => Held /\ NoPress
    /\ pc \in {"store", "cool"} => NoPress

\* The mode the loop is about to store, and the one it stores it over.
Stores(m) ==
    \/ m # "wifi" /\ m = ModeOf(state)
    \/ ModeOf(state) # "menu" /\ m \in Mode!DataModes
    \/ cooldown = 0 /\ m = Mode!LongPressed(ModeOf(state))

Storing == pc = "store" /\ "state" \in DOMAIN store => Stores(ModeOf(store["state"]))

ModeInv ==
    /\ Inv
    /\ InStep
    /\ Aligned
    /\ Pressing
    /\ Requested
    /\ Handling
    /\ Storing

-----------------------------------------------------------------------------
\* The mode of a state.
LEMMA ModeFacts ==
  ASSUME NEW s \in States
  PROVE  /\ ModeOf(s) \in {"PM25", "TIME", "menu", "wifi"}
         /\ ModeOf(s) = "wifi" <=> s = "WIFI_SETUP"
         /\ ModeOf(s) \in {"PM25", "TIME"} <=> s \in DataStates
         /\ s \in DataStates => ModeOf(s) = s
  BY DEF ModeOf, States, DataStates

\* A short press keeps the mode or leads to the other data mode, a long one leaves it.
LEMMA PressModes ==
  ASSUME NEW s \in States, NEW u \in Units, NEW b \in BOOLEAN
  PROVE  /\ LET t == Assigned(ShortPress(s, u, b), "state", s)
            IN  /\ ModeOf(t) = ModeOf(s) \/ {ModeOf(s), ModeOf(t)} \subseteq Mode!DataModes
                /\ s # "WIFI_SETUP" => t # "WIFI_SETUP"
         /\ s # "WIFI_SETUP" =>
              /\ ModeOf(Assigned(LongPress(s), "state", s)) = Mode!LongPressed(ModeOf(s))
              /\ Assigned(LongPress(s), "state", s) # "WIFI_SETUP"
              /\ "state" \in DOMAIN LongPress(s)
         /\ s = "WIFI_SETUP" => "state" \notin DOMAIN LongPress(s)
         /\ "state" \in DOMAIN ShortPress(s, u, b) =>
              /\ s # "WIFI_SETUP"
              /\ ShortPress(s, u, b)["state"] = Assigned(ShortPress(s, u, b), "state", s)
  <1> USE DEF Assigned, ModeOf, Nothing, DataStates, Mode!DataModes
  <1>1. /\ LET t == Assigned(ShortPress(s, u, b), "state", s)
           IN  /\ ModeOf(t) = ModeOf(s) \/ {ModeOf(s), ModeOf(t)} \subseteq Mode!DataModes
               /\ s # "WIFI_SETUP" => t # "WIFI_SETUP"
        /\ "state" \in DOMAIN ShortPress(s, u, b) =>
             /\ s # "WIFI_SETUP"
             /\ ShortPress(s, u, b)["state"] = Assigned(ShortPress(s, u, b), "state", s)
    BY DEF ShortPress, Units, States
  <1>2. /\ s # "WIFI_SETUP" =>
             /\ ModeOf(Assigned(LongPress(s), "state", s)) = Mode!LongPressed(ModeOf(s))
             /\ Assigned(LongPress(s), "state", s) # "WIFI_SETUP"
             /\ "state" \in DOMAIN LongPress(s)
        /\ s = "WIFI_SETUP" => "state" \notin DOMAIN LongPress(s)
    BY DEF LongPress, Mode!LongPressed, States
  <1> QED BY <1>1, <1>2

\* The dead time counts down in a tick, unless the button changes the mode.
LEMMA TickHistory ==
  ASSUME Inv, Aligned, Tick, History
  PROVE  /\ Ticking
         /\ cooldown' = IF /\ ModeOf(state') # ModeOf(state)
                           /\ ~(state \in DataStates /\ state' = "WIFI_SETUP")
                        THEN FB_TIMER_CD ELSE Ticked
  <1>1. pc # "setup"
    BY DEF Tick, Inv
  <1>2. pc = "pause" \/ ticks' # ticks
    BY TickFrame DEF Inv, TypeOK
  <1>3. FrontChange <=> /\ ModeOf(state') # ModeOf(state)
                        /\ ~(state \in DataStates /\ state' = "WIFI_SETUP")
    BY <1>1 DEF FrontChange
  <1>4. cooldown' = IF FrontChange THEN FB_TIMER_CD ELSE Ticked
    BY <1>2, FrontPanelAssumption DEF History, Ticked, Ticking, Aligned
  <1> QED BY <1>2, <1>3, <1>4 DEF Ticking

\* What a tick can do to the levels of the front button and the polls of the back one.
LEMMA PinCases ==
  ASSUME Inv, Tick
  PROVE  /\ state # "WIFI_SETUP" /\ state' = "WIFI_SETUP" =>
              "BACK" \in Pins /\ counter["BACK"] = 0
         /\ "BACK" \in Pins =>
              IF counter["BACK"] = 0 THEN counter'["BACK"] \in {BACK_COOLDOWN, POLL_INTERVAL}
              ELSE counter'["BACK"] = counter["BACK"] - 1
         /\ "FRONT" \in Pins =>
              /\ ~Due => level'["FRONT"] = level["FRONT"]
              /\ fb_pressing = 0 /\ fb_pressing' = 1 =>
                   level["FRONT"] # 0 /\ level'["FRONT"] = 0
              /\ /\ fb_pressing = 1 /\ fb_pressing' = 1 /\ state # "WIFI_SETUP"
                 /\ level["FRONT"] = 0
                 => level'["FRONT"] = 0
         /\ "FRONT" \notin Pins => fb_pressing' = fb_pressing
  <1> USE DEF Inv, TypeOK
  <1> DEFINE due == {p \in Pins : counter[p] = 0}
  <1>1. PICK lvl \in [due -> {0, 1}], clockSet \in BOOLEAN :
          LET changed == {p \in due : lvl[p] # level[p]}
              timer == IF fb_timer > 0 THEN fb_timer - 1 ELSE 0
              p0 == [state |-> state, unit |-> displaying_unit,
                     pressing |-> fb_pressing, timer |-> timer]
              p1 == IF "FRONT" \in changed
                    THEN FrontEvent(p0, lvl["FRONT"], clockSet)
                    ELSE p0
          IN  /\ level' = [p \in Pins |-> IF p \in due THEN lvl[p] ELSE level[p]]
              /\ counter' = [p \in Pins |->
                               IF p \notin due THEN counter[p] - 1
                               ELSE IF p = "BACK" /\ p \in changed THEN BACK_COOLDOWN
                               ELSE IF p \in Flags THEN BAT_INTERVAL
                               ELSE POLL_INTERVAL]
              /\ state' = IF "BACK" \in changed
                          THEN BackEvent(p1.state, lvl["BACK"])
                          ELSE p1.state
              /\ fb_pressing' = p1.pressing
    BY DEF Tick, PollGpio
  <1> DEFINE changed == {p \in due : lvl[p] # level[p]}
             p0 == [state |-> state, unit |-> displaying_unit,
                    pressing |-> fb_pressing, timer |-> Timer]
             p1 == IF "FRONT" \in changed THEN FrontEvent(p0, lvl["FRONT"], clockSet) ELSE p0
  <1>2. /\ level' = [p \in Pins |-> IF p \in due THEN lvl[p] ELSE level[p]]
        /\ state' = IF "BACK" \in changed THEN BackEvent(p1.state, lvl["BACK"]) ELSE p1.state
        /\ fb_pressing' = p1.pressing
    BY <1>1 DEF Timer
  <1>3. "BACK" \in Pins =>
          IF counter["BACK"] = 0 THEN counter'["BACK"] \in {BACK_COOLDOWN, POLL_INTERVAL}
          ELSE counter'["BACK"] = counter["BACK"] - 1
    BY <1>1 DEF Flags
  <1>4. state # "WIFI_SETUP" => p1.state # "WIFI_SETUP"
    <2>1. CASE "FRONT" \in changed
      <3>1. LET f == IF Timer > 0 THEN ShortPress(state, displaying_unit, clockSet)
                     ELSE LongPress(state)
            IN  p1.state \in {state, Assigned(f, "state", state)}
        BY <2>1 DEF FrontEvent
      <3> QED BY <3>1, PressModes
    <2>2. CASE "FRONT" \notin changed
      BY <2>2
    <2> QED BY <2>1, <2>2
  <1>5. state # "WIFI_SETUP" /\ state' = "WIFI_SETUP" => "BACK" \in changed
    <2> HIDE DEF p1
    <2> QED BY <1>2, <1>4
  <1>6. "FRONT" \in changed => lvl["FRONT"] \in {0, 1} /\ Due
    BY DEF Due
  <1>7. /\ fb_pressing = 0 /\ p1.pressing = 1 => "FRONT" \in changed /\ lvl["FRONT"] = 0
        /\ fb_pressing = 1 /\ p1.pressing = 1 /\ state # "WIFI_SETUP" /\ "FRONT" \in changed =>
             lvl["FRONT"] = 0
        /\ "FRONT" \notin changed => p1.pressing = fb_pressing
    BY <1>6 DEF FrontEvent
  <1> HIDE DEF p1
  <1>8. CASE "FRONT" \in Pins
    <2>1. ~Due => level'["FRONT"] = level["FRONT"]
      BY <1>2, <1>8 DEF Due
    <2>2. "FRONT" \in changed => level'["FRONT"] = lvl["FRONT"] /\ lvl["FRONT"] # level["FRONT"]
      BY <1>2, <1>8
    <2>3. "FRONT" \notin changed => level'["FRONT"] = level["FRONT"]
      BY <1>2, <1>8
    <2> HIDE DEF changed
    <2> QED BY <1>2, <1>3, <1>5, <1>7, <1>8, <2>1, <2>2, <2>3 DEF changed
  <1>9. CASE "FRONT" \notin Pins
    BY <1>2, <1>3, <1>5, <1>7, <1>9
  <1> QED BY <1>8, <1>9

\* Multiples are closed under taking one interval away.
LEMMA MultipleFacts ==
  ASSUME InPhase
  PROVE  /\ 0 \in Multiples /\ Multiples \subseteq Nat
         /\ \A m \in Multiples : m # 0 =>
              m - (POLL_INTERVAL + 1) \in Multiples /\ m >= POLL_INTERVAL + 1
         /\ BACK_COOLDOWN - POLL_INTERVAL \in Multiples
  <1> DEFINE P == POLL_INTERVAL + 1
  <1>1. P \in Nat \ {0}
    BY FrontPanelAssumption
  <1> HIDE DEF P
  <1>2. 0 * P = 0 /\ \A k \in Nat : k * P \in Nat
    BY <1>1
  <1>3. \A k \in Nat \ {0} : (k - 1) * P = k * P - P /\ k - 1 \in Nat /\ k * P >= P
    BY <1>1
  <1>4. 0 * P \in Multiples /\ Multiples \subseteq Nat
    BY <1>2 DEF Multiples, P
  <1>5. ASSUME NEW m \in Multiples, m # 0 PROVE m - P \in Multiples /\ m >= P
    <2>1. PICK k \in Nat : m = k * P
      BY DEF Multiples, P
    <2>2. k # 0
      BY <1>2, <1>5, <2>1
    <2>3. m - P = (k - 1) * P /\ k - 1 \in Nat
      BY <1>3, <2>1, <2>2
    <2>4. m - P \in Multiples
      BY <2>3 DEF Multiples, P
    <2> QED BY <1>3, <2>1, <2>2, <2>4
  <1>6. BACK_COOLDOWN - POLL_INTERVAL \in Multiples
    <2>1. PICK k \in Nat \ {0} : BACK_COOLDOWN + 1 = k * P
      BY DEF InPhase, P
    <2>2. (k - 1) * P = k * P - P /\ k - 1 \in Nat
      BY <1>3
    <2>3. (k - 1) * P = BACK_COOLDOWN - POLL_INTERVAL
      <3> DEFINE a == k * P
                 b == (k - 1) * P
      <3>1. BACK_COOLDOWN + 1 = a /\ b = a - P
        BY <2>1, <2>2
      <3> HIDE DEF a, b
      <3>2. b = BACK_COOLDOWN - POLL_INTERVAL
        BY <3>1, FrontPanelAssumption DEF P
      <3> QED BY <3>2 DEF b
    <2> QED BY <2>2, <2>3 DEF Multiples, P
  <1> QED BY <1>2, <1>4, <1>5, <1>6 DEF P

\* The polls of the two buttons stay in step.
LEMMA TickInStep ==
  ASSUME InPhase, Inv, InStep, Tick
  PROVE  /\ InStep'
         /\ "FRONT" \in Pins /\ state # "WIFI_SETUP" /\ state' = "WIFI_SETUP" => Due
  <1> USE FrontPanelAssumption
  <1>0. /\ "FRONT" \in Pins => counter["FRONT"] \in Nat
        /\ "BACK" \in Pins => counter["BACK"] \in Nat
    BY DEF Inv, TypeOK
  <1>1. "FRONT" \in Pins => counter'["FRONT"] = IF counter["FRONT"] = 0 THEN POLL_INTERVAL
                                                ELSE counter["FRONT"] - 1
    BY TickCases
  <1>2. "BACK" \in Pins =>
          IF counter["BACK"] = 0 THEN counter'["BACK"] \in {BACK_COOLDOWN, POLL_INTERVAL}
          ELSE counter'["BACK"] = counter["BACK"] - 1
    BY PinCases
  <1>3. ASSUME {"FRONT", "BACK"} \subseteq Pins
        PROVE  /\ counter'["BACK"] - counter'["FRONT"] \in Multiples
               /\ counter["BACK"] = 0 => counter["FRONT"] = 0
    <2> DEFINE m == counter["BACK"] - counter["FRONT"]
    <2>1. m \in Multiples /\ m \in Nat
      BY <1>3, MultipleFacts DEF InStep
    <2>2. CASE counter["FRONT"] # 0
      <3>1. counter'["BACK"] - counter'["FRONT"] = m /\ counter["BACK"] # 0
        BY <1>0, <1>1, <1>2, <1>3, <2>1, <2>2
      <3> QED BY <2>1, <3>1
    <2>3. CASE counter["FRONT"] = 0 /\ counter["BACK"] = 0
      <3>1. counter'["BACK"] - counter'["FRONT"] \in {0, BACK_COOLDOWN - POLL_INTERVAL}
        BY <1>1, <1>2, <1>3, <2>3
      <3> QED BY <2>3, <3>1, MultipleFacts
    <2>4. CASE counter["FRONT"] = 0 /\ counter["BACK"] # 0
      <3>1. m # 0 /\ counter'["BACK"] - counter'["FRONT"] = m - (POLL_INTERVAL + 1)
        BY <1>0, <1>1, <1>2, <1>3, <2>4
      <3> QED BY <2>1, <2>4, <3>1, MultipleFacts
    <2> QED BY <2>2, <2>3, <2>4
  <1>4. state # "WIFI_SETUP" /\ state' = "WIFI_SETUP" => "BACK" \in Pins /\ counter["BACK"] = 0
    BY PinCases
  <1> QED BY <1>3, <1>4 DEF InStep, Due

\* A tick is a poll of the abstract panel.
LEMMA TickRefines ==
  ASSUME InPhase, Timely, ModeInv, Tick, History
  PROVE  /\ Mode!Poll
         /\ InStep' /\ Aligned' /\ Pressing' /\ Requested' /\ Handling' /\ Storing'
  <1> USE FrontPanelAssumption DEF Timely
  <1>0. /\ ticks \in 0..PassTicks /\ fb_pressing \in {0, 1} /\ fb_timer \in Nat
        /\ state \in States /\ displaying_unit \in Units
        /\ "FRONT" \in Pins => counter["FRONT"] \in Nat
        /\ cooldown \in 0..FB_TIMER_CD
        /\ pc \notin {"store", "cool"} => cooldown <= fb_timer
        /\ pc \notin {"case", "setup"}
    BY DEF ModeInv, Inv, TypeOK, Aligned, Tick
  <1>1. PICK s \in States :
          /\ state' = s \/ (s \in DataStates /\ state' = "WIFI_SETUP")
          /\ (s = state /\ (Quiet \/ Pressed)) \/ Released(s)
    BY TickCases DEF ModeInv
  <1>2. "FRONT" \in Pins =>
          counter'["FRONT"] = IF counter["FRONT"] = 0 THEN POLL_INTERVAL
                              ELSE counter["FRONT"] - 1
    BY TickCases DEF ModeInv
  <1>3. /\ \/ pc = "pause" /\ pc' = "top" /\ ticks' = 0
           \/ pc # "pause" /\ pc' = pc /\ ticks < PassTicks /\ ticks' = ticks + 1
        /\ UNCHANGED store
    BY TickFrame
  <1>4. cooldown' = IF /\ ModeOf(state') # ModeOf(state)
                       /\ ~(state \in DataStates /\ state' = "WIFI_SETUP")
                    THEN FB_TIMER_CD ELSE Ticked
    BY TickHistory DEF ModeInv
  <1>5. Ticked \in 0..FB_TIMER_CD /\ Ticked <= cooldown /\ (Ticked = 0 <=> cooldown <= 1)
    BY <1>0 DEF Ticked
  <1>6. Timer \in Nat /\ (fb_timer = 0 => Timer = 0)
          /\ (fb_timer > 0 => Timer = fb_timer - 1) /\ (Timer = 0 <=> fb_timer <= 1)
    BY <1>0 DEF Timer
  <1>7. /\ InStep'
        /\ "FRONT" \in Pins /\ state # "WIFI_SETUP" /\ state' = "WIFI_SETUP" => Due
    BY TickInStep DEF ModeInv
  <1>8. "FRONT" \in Pins =>
          /\ ~Due => level'["FRONT"] = level["FRONT"]
          /\ fb_pressing = 0 /\ fb_pressing' = 1 => level["FRONT"] # 0 /\ level'["FRONT"] = 0
          /\ fb_pressing = 1 /\ fb_pressing' = 1 /\ state # "WIFI_SETUP" /\ level["FRONT"] = 0 =>
               level'["FRONT"] = 0
    BY PinCases DEF ModeInv
  \* the polls: the front button is not polled again in the pass, nor with a request
  <1>9. ASSUME Recent(POLL_INTERVAL + 1), pc # "pause"
        PROVE  ~Due /\ Recent(POLL_INTERVAL + 1)'
    <2>1. ~Due /\ counter'["FRONT"] = counter["FRONT"] - 1
      BY <1>0, <1>2, <1>3, <1>9 DEF Recent, Due
    <2> QED BY <1>0, <1>3, <1>9, <2>1 DEF Recent
  <1>10. Due /\ pc # "pause" => Recent(POLL_INTERVAL + 1)'
    BY <1>0, <1>2, <1>3 DEF Due, Recent
  <1>11. state = "WIFI_SETUP" => ~Due
    BY <1>0, <1>3 DEF ModeInv, Requested, Recent, Due
  <1>12. Requested'
    <2>1. CASE state' = "WIFI_SETUP" /\ "FRONT" \in Pins /\ Due
      BY <1>0, <1>2, <1>3, <1>10, <2>1 DEF Requested, Recent, Due
    <2>2. CASE state = "WIFI_SETUP" /\ "FRONT" \in Pins /\ ~Due
      <3>1. counter'["FRONT"] = counter["FRONT"] - 1
        BY <1>2, <2>2 DEF Due
      <3> QED BY <1>0, <1>3, <2>2, <3>1 DEF ModeInv, Requested, Recent
    <2> QED BY <1>0, <1>3, <1>7, <1>11, <2>1, <2>2 DEF Requested
  \* the dead time after a press
  <1>13. ASSUME NoPress, pc # "pause" PROVE Quiet /\ s = state /\ NoPress'
    <2>1. s = state /\ (Quiet \/ Pressed)
      BY <1>1, <1>13 DEF Released, NoPress
    <2>2. ~Pressed
      BY <1>8, <1>9, <1>13 DEF NoPress, Pressed
    <2>3. NoPress'
      BY <1>8, <1>9, <1>10, <1>13, <2>1, <2>2 DEF NoPress, Quiet
    <2> QED BY <2>1, <2>2, <2>3
  <1>14. pc \in {"store", "cool"} => NoPress
    BY DEF ModeInv, Handling
  <1>15. Released(s) => cooldown = 0 /\ state # "WIFI_SETUP"
    BY DEF Released, ModeInv, Pressing
  <1>16. Pressed => cooldown <= 1
    BY <1>0, <1>6, <1>13, <1>14 DEF Pressed, Quiet
  <1>17. Released(s) =>
           \/ Timer = 0 /\ ModeOf(s) = Mode!LongPressed(ModeOf(state))
           \/ ModeOf(s) = ModeOf(state)
           \/ {ModeOf(s), ModeOf(state)} \subseteq Mode!DataModes
    <2>1. CASE Timer = 0 /\ s = Assigned(LongPress(state), "state", state)
      BY <1>0, <1>15, <2>1, PressModes DEF Units
    <2>2. CASE \E b \in BOOLEAN :
                 s = Assigned(ShortPress(state, displaying_unit, b), "state", state)
      BY <1>0, <2>2, PressModes
    <2> QED BY <2>1, <2>2 DEF Released
  <1>18. ModeOf(s) # ModeOf(state) =>
           /\ Released(s) /\ Ticked = 0 /\ ModeOf(state) # "wifi"
           /\ ModeOf(s) \in Mode!Pressed(ModeOf(state))
    <2> SUFFICES ASSUME ModeOf(s) # ModeOf(state)
                 PROVE  /\ Released(s) /\ Ticked = 0 /\ ModeOf(state) # "wifi"
                        /\ ModeOf(s) \in Mode!Pressed(ModeOf(state))
      OBVIOUS
    <2>1. Released(s)
      BY <1>1
    <2>2. Ticked = 0 /\ ModeOf(state) # "wifi"
      BY <1>0, <1>5, <1>15, <2>1, ModeFacts
    <2> QED BY <1>17, <2>1, <2>2 DEF Mode!Pressed, Mode!DataModes
  <1>19. Mode!Poll
    <2> DEFINE m == ModeOf(s)
    <2>1. m = ModeOf(state) \/ (ModeOf(state) # "wifi" /\ Ticked = 0 /\ m \in Mode!Pressed(ModeOf(state)))
      BY <1>18
    <2>2. ModeOf(state') = m \/ (m \in Mode!DataModes /\ ModeOf(state') = "wifi")
      BY <1>1, ModeFacts DEF Mode!DataModes, States
    <2>3. CASE m = ModeOf(state)
      <3>1. cooldown' = Ticked
        <4>1. CASE state' = s
          BY <1>4, <2>3, <4>1
        <4>2. CASE s \in DataStates /\ state' = "WIFI_SETUP"
          BY <1>0, <1>4, <2>3, <4>2, ModeFacts
        <4> QED BY <1>1, <4>1, <4>2
      <3> HIDE DEF m
      <3> QED BY <2>1, <2>2, <2>3, <3>1 DEF Mode!Poll, Ticked
    <2>4. CASE m # ModeOf(state)
      <3>1. CASE state' = s
        <4>1. cooldown' = FB_TIMER_CD
          <5>1. s = "WIFI_SETUP" => FALSE
            <6>1. ModeOf(s) # "wifi"
              BY <1>18, <2>4 DEF Mode!Pressed, Mode!LongPressed, Mode!DataModes
            <6> QED BY <6>1, ModeFacts
          <5> QED BY <1>4, <2>4, <3>1, <5>1
        <4> HIDE DEF m
        <4> QED BY <1>5, <2>1, <2>2, <2>4, <4>1 DEF Mode!Poll, Ticked
      <3>2. CASE s \in DataStates /\ state' = "WIFI_SETUP" /\ state \notin DataStates
        <4>1. cooldown' = FB_TIMER_CD
          BY <1>0, <1>4, <1>18, <2>4, <3>2 DEF ModeOf, DataStates
        <4> HIDE DEF m
        <4> QED BY <1>5, <2>1, <2>2, <2>4, <4>1 DEF Mode!Poll, Ticked
      <3>3. CASE s \in DataStates /\ state' = "WIFI_SETUP" /\ state \in DataStates
        <4>1. cooldown' = Ticked
          BY <1>4, <3>3
        <4>2. ModeOf(state) \in Mode!DataModes /\ ModeOf(state') = "wifi"
          BY <3>3, ModeFacts DEF Mode!DataModes, States
        <4> QED BY <4>1, <4>2 DEF Mode!Poll, Ticked
      <3> QED BY <1>1, <3>1, <3>2, <3>3
    <2> QED BY <2>3, <2>4
  <1>20. cooldown' \in {FB_TIMER_CD, Ticked} /\ (~Released(s) => cooldown' = Ticked)
    <2>1. ~Released(s) => s = state
      BY <1>1
    <2>2. s = state => cooldown' = Ticked
      BY <1>0, <1>1, <1>4, ModeFacts
    <2> QED BY <1>4, <2>1, <2>2
  <1>21. cooldown' \in 0..FB_TIMER_CD
    BY <1>5, <1>20
  <1>22. Aligned'
    <2> SUFFICES ASSUME pc' \notin {"store", "cool"} PROVE cooldown' <= fb_timer'
      BY <1>21 DEF Aligned
    <2>1. cooldown <= fb_timer
      BY <1>0, <1>3
    <2>2. CASE Quiet /\ ~Released(s)
      BY <1>0, <1>5, <1>6, <1>20, <2>1, <2>2 DEF Quiet, Ticked, Timer
    <2>3. CASE Pressed /\ ~Released(s)
      BY <1>0, <1>5, <1>16, <1>20, <2>3 DEF Pressed
    <2>4. CASE Released(s)
      BY <1>21, <2>4 DEF Released
    <2> QED BY <1>1, <2>2, <2>3, <2>4
  <1>23. Pressing'
    <2> SUFFICES ASSUME fb_pressing' = 1
                 PROVE  cooldown' = 0 /\ "FRONT" \in Pins /\ level'["FRONT"] = 0
      BY DEF Pressing
    <2>1. ~Released(s) /\ cooldown' = Ticked
      BY <1>20 DEF Released
    <2>2. CASE fb_pressing = 1
      <3>1. cooldown = 0 /\ "FRONT" \in Pins /\ level["FRONT"] = 0
        BY <2>2 DEF ModeInv, Pressing
      <3> QED BY <1>5, <1>8, <1>11, <2>1, <2>2, <3>1
    <2>3. CASE fb_pressing = 0
      <3>1. Pressed
        BY <1>1, <2>1, <2>3 DEF Quiet
      <3> QED BY <1>5, <1>8, <1>16, <2>1, <2>3, <3>1 DEF Pressed, Due
    <2> QED BY <1>0, <2>2, <2>3
  \* what the ticks make of a press that is being handled
  <1>24. ASSUME pc # "pause", Ended PROVE Ended'
    <2>1. ~Due /\ Recent(POLL_INTERVAL + 1)'
      BY <1>9, <1>24 DEF Ended
    <2>2. Quiet
      BY <1>1, <2>1 DEF Released, Pressed
    <2> QED BY <1>0, <1>3, <1>6, <1>24, <2>1, <2>2 DEF Ended, Quiet
  <1>25. ASSUME pc # "pause", Held, fb_pressing = 1 PROVE Ended' \/ (Held' /\ fb_pressing' = 1)
    <2>1. CASE Quiet /\ ~Released(s)
      BY <1>5, <1>6, <1>20, <1>25, <2>1 DEF Quiet, Held
    <2>2. CASE Released(s)
      <3>1. Recent(POLL_INTERVAL + 1)'
        BY <1>10, <1>25, <2>2 DEF Released
      <3> QED BY <1>0, <1>3, <1>25, <2>2, <3>1 DEF Released, Ended
    <2> QED BY <1>1, <1>25, <2>1, <2>2 DEF Pressed
  <1>26. ASSUME pc # "pause", Held, NoPress PROVE Held' /\ NoPress'
    <2>1. Quiet /\ s = state /\ NoPress'
      BY <1>13, <1>26
    <2>2. ~Released(s)
      BY <1>26 DEF Released, NoPress
    <2> QED BY <1>5, <1>6, <1>20, <1>26, <2>1, <2>2 DEF Held, Quiet
  <1>27. Handling'
    <2>1. pc' = "top" \/ (pc # "pause" /\ pc' = pc)
      BY <1>3
    <2> QED BY <1>13, <1>24, <1>25, <1>26, <2>1 DEF Handling, ModeInv
  <1>28. Storing'
    <2> SUFFICES ASSUME pc' = "store", "state" \in DOMAIN store PROVE Stores(ModeOf(store["state"]))'
      BY <1>3 DEF Storing
    <2> DEFINE m == ModeOf(store["state"])
    <2>1. pc = "store" /\ m' = m /\ Stores(m)
      BY <1>3 DEF ModeInv, Storing
    <2>2. s = state /\ ~Released(s)
      BY <1>13, <1>14, <2>1 DEF Released, NoPress
    <2>3. state' = state \/ (state \in DataStates /\ state' = "WIFI_SETUP")
      BY <1>1, <2>2
    <2>4. cooldown = 0 => cooldown' = 0
      BY <1>5, <1>20, <2>2
    <2> HIDE DEF m
    <2>5. Stores(m) => \/ m # "wifi" /\ m = ModeOf(state')
                       \/ ModeOf(state') # "menu" /\ m \in Mode!DataModes
                       \/ cooldown' = 0 /\ m = Mode!LongPressed(ModeOf(state'))
      <3>1. CASE state' = state
        BY <2>4, <3>1 DEF Stores
      <3>2. CASE state \in DataStates /\ state' = "WIFI_SETUP"
        BY <2>4, <3>2 DEF Stores, ModeOf, DataStates, Mode!DataModes, Mode!LongPressed
      <3> QED BY <2>3, <3>1, <3>2
    <2> QED BY <2>1, <2>5 DEF m, Stores
  <1> QED BY <1>7, <1>12, <1>19, <1>22, <1>23, <1>27, <1>28

\* The end of the cooldown is an expiry of the abstract panel, or nothing.
LEMMA ExpireRefines ==
  ASSUME ModeInv, Expire, History
  PROVE  /\ Mode!Expiry \/ UNCHANGED <<ModeOf(state), cooldown>>
         /\ InStep' /\ Aligned' /\ Pressing' /\ Requested' /\ Handling' /\ Storing'
  <1> USE FrontPanelAssumption DEF Goto, mode, pins, button
  <1>0. /\ ticks \in 0..PassTicks /\ fb_pressing \in {0, 1} /\ fb_timer \in Nat
        /\ state \in States /\ displaying_unit \in Units
        /\ "FRONT" \in Pins => counter["FRONT"] \in Nat
        /\ cooldown \in 0..FB_TIMER_CD
        /\ pc \notin {"store", "cool"} => cooldown <= fb_timer
        /\ Handling /\ Pressing /\ Requested /\ InStep
    BY DEF ModeInv, Inv, TypeOK, Aligned
  <1>10. /\ UNCHANGED <<level, counter, ticks>> /\ pc \in Expiring
         /\ pc' \in Expiring \cup {"spin"} /\ ~Ticking
         /\ pc \notin {"top", "stop", "case", "setup"} /\ pc' \notin {"top", "stop", "case", "setup"}
    BY <1>0 DEF Expire, SeeExpiry, ExpiryGuard, ExpiryRelease, ExpiryClass, ExpiryLoad,
                ExpiryStore, ExpiryCool, Expiring, Ticking
  <1>11. InStep'
    BY <1>0, <1>10 DEF InStep
  <1>1. ASSUME UNCHANGED state PROVE UNCHANGED <<ModeOf(state), cooldown>>
    BY <1>1, <1>10 DEF History, FrontChange
  <1>12. ASSUME UNCHANGED state PROVE Requested'
    BY <1>0, <1>10, <1>12 DEF Requested, Recent
  <1>13. ASSUME UNCHANGED state, fb_pressing' \in {0, fb_pressing} PROVE Pressing'
    BY <1>0, <1>1, <1>10, <1>13 DEF Pressing
  <1>2. CASE SeeExpiry
    <2>1. /\ UNCHANGED <<state, ticks, fb_pressing, fb_timer>>
          /\ pc = "expire"
          /\ \/ fb_pressing = 1 /\ fb_timer = 0 /\ pc' = "guard"
             \/ pc' = "spin"
      BY <1>2 DEF SeeExpiry
    <2> QED BY <1>0, <1>1, <1>11, <1>12, <1>13, <2>1 DEF Aligned, Handling, Storing, Held
  <1>3. CASE ExpiryGuard
    <2>1. /\ UNCHANGED <<state, ticks, fb_pressing, fb_timer, counter>>
          /\ pc = "guard"
          /\ \/ fb_pressing = 1 /\ pc' = "release"
             \/ pc' = "spin"
      BY <1>3 DEF ExpiryGuard
    <2> QED BY <1>0, <1>1, <1>11, <1>12, <1>13, <2>1 DEF Aligned, Handling, Storing, Held, Ended
  <1>4. CASE ExpiryRelease
    <2>1. /\ UNCHANGED <<state, ticks, fb_timer, counter, level>>
          /\ pc = "release" /\ pc' = "class" /\ fb_pressing' = 0
      BY <1>4 DEF ExpiryRelease
    <2> QED BY <1>0, <1>1, <1>11, <1>12, <1>13, <2>1
            DEF Aligned, Handling, Storing, Held, Ended, Recent, NoPress, Pressing
  <1>5. CASE ExpiryClass
    <2>1. /\ UNCHANGED <<state, ticks, fb_pressing, fb_timer, counter, level>>
          /\ pc = "class"
          /\ \/ fb_timer > 0 /\ pc' = "short"
             \/ fb_timer = 0 /\ pc' = "long"
      BY <1>5 DEF ExpiryClass
    <2> QED BY <1>0, <1>1, <1>11, <1>12, <1>13, <2>1
            DEF Aligned, Handling, Storing, Held, Ended, Recent, NoPress
  <1>6. CASE ExpiryLoad
    <2>1. /\ UNCHANGED <<state, ticks, fb_pressing, counter, level>> /\ pc' = "store"
          /\ \/ pc = "short" /\ \E b \in BOOLEAN : store' = ShortPress(state, displaying_unit, b)
             \/ pc = "long" /\ store' = LongPress(state)
      BY <1>6 DEF ExpiryLoad
    <2>2. Handling'
      BY <1>0, <2>1 DEF Handling, Ended, NoPress, Recent
    <2>3. UNCHANGED <<ModeOf(state), cooldown>>
      BY <1>1, <2>1
    <2>4. Storing'
      <3> SUFFICES ASSUME "state" \in DOMAIN store' PROVE Stores(ModeOf(store["state"]))'
        BY DEF Storing
      <3>1. CASE pc = "short"
        <4>1. PICK b \in BOOLEAN : store' = ShortPress(state, displaying_unit, b)
          BY <2>1, <3>1
        <4>2. state # "WIFI_SETUP" /\ store'["state"] = Assigned(store', "state", state)
          BY <1>0, <4>1, PressModes
        <4>3. \/ ModeOf(store'["state"]) = ModeOf(state)
              \/ {ModeOf(state), ModeOf(store'["state"])} \subseteq Mode!DataModes
          BY <1>0, <4>1, <4>2, PressModes
        <4>4. ModeOf(state) # "wifi"
          BY <1>0, <4>2, ModeFacts
        <4> QED BY <2>3, <4>3, <4>4 DEF Stores, Mode!DataModes
      <3>2. CASE pc = "long"
        <4>1. store' = LongPress(state)
          BY <2>1, <3>2
        <4>2. state # "WIFI_SETUP"
          BY <1>0, <4>1, PressModes DEF Units
        <4>3. cooldown' = 0
          BY <1>0, <2>3, <3>2 DEF Handling, Held
        <4>4. ModeOf(store'["state"]) = Mode!LongPressed(ModeOf(state))
          BY <1>0, <4>1, <4>2, PressModes DEF Assigned, Units
        <4> QED BY <2>3, <4>3, <4>4 DEF Stores
      <3> QED BY <2>1, <3>1, <3>2
    <2> QED BY <1>0, <1>11, <1>12, <1>13, <2>1, <2>2, <2>3, <2>4 DEF Aligned
  <1>7. CASE ExpiryStore
    <2>1. /\ pc = "store" /\ pc' = "cool" /\ store' = Nothing
          /\ state' = Assigned(store, "state", state)
          /\ UNCHANGED <<ticks, fb_pressing, counter, level>>
      BY <1>7 DEF ExpiryStore
    <2>2. Handling' /\ Storing' /\ Pressing' /\ fb_pressing = 0
      BY <1>0, <2>1 DEF Handling, Storing, NoPress, Recent, Pressing
    <2>5. CASE "state" \notin DOMAIN store
      BY <1>0, <1>1, <1>11, <1>12, <2>1, <2>2, <2>5 DEF Assigned, Aligned
    <2>6. CASE "state" \in DOMAIN store
      <3>1. state' = store["state"] /\ Stores(ModeOf(state'))
        BY <2>1, <2>6 DEF Assigned, ModeInv, Storing
      <3>2. state' \in States /\ state' # "WIFI_SETUP"
        <4>1. store \in Presses
          BY DEF ModeInv, Inv
        <4>2. store["state"] \in {"TIME", "IP", "ID", "PM25"}
          <5>1. CASE \E t \in {"TIME", "IP", "ID", "PM25"} : store = [state |-> t]
            BY <5>1
          <5>2. CASE store = [state |-> "PM25", unit |-> "pcs"]
            BY <5>2
          <5>3. "state" \notin DOMAIN [unit |-> "ug"] /\ "state" \notin DOMAIN [unit |-> "pcs"]
                  /\ "state" \notin DOMAIN Nothing
            BY DEF Nothing
          <5> QED BY <2>6, <4>1, <5>1, <5>2, <5>3 DEF Presses
        <4> QED BY <3>1, <4>2 DEF States, DataStates
      <3>3. cooldown' = IF ModeOf(state') # ModeOf(state) THEN FB_TIMER_CD ELSE cooldown
        BY <1>10, <3>2 DEF History, FrontChange
      <3>4. Aligned'
        BY <1>0, <2>1, <3>3 DEF Aligned
      <3>5. Requested'
        BY <1>10, <3>2 DEF Requested
      <3>6. Mode!Expiry \/ UNCHANGED <<ModeOf(state), cooldown>>
        BY <3>1, <3>3 DEF Stores, Mode!Expiry, Mode!DataModes
      <3> QED BY <1>11, <2>2, <3>4, <3>5, <3>6
    <2> QED BY <2>5, <2>6
  <1>8. CASE ExpiryCool
    <2>1. /\ UNCHANGED <<state, ticks, fb_pressing>>
          /\ pc = "cool" /\ pc' = "spin" /\ fb_timer' = FB_TIMER_CD
      BY <1>8 DEF ExpiryCool
    <2> QED BY <1>0, <1>1, <1>11, <1>12, <1>13, <2>1 DEF Aligned, Handling, Storing
  <1> QED BY <1>2, <1>3, <1>4, <1>5, <1>6, <1>7, <1>8 DEF Expire

\* A step of the main loop is an expiry, or nothing.
LEMMA MainRefines ==
  ASSUME ModeInv, Main, History
  PROVE  /\ ~Ticking
         /\ Mode!Expiry \/ UNCHANGED <<ModeOf(state), cooldown>>
         /\ InStep' /\ Aligned' /\ Pressing' /\ Requested' /\ Handling' /\ Storing'
  <1> USE FrontPanelAssumption DEF Goto, mode, pins, button
  <1>0. /\ state \in States /\ cooldown \in 0..FB_TIMER_CD
        /\ current_state # "WIFI_SETUP" /\ ticks \in 0..PassTicks
        /\ pc \notin {"store", "cool"} => cooldown <= fb_timer
        /\ "FRONT" \in Pins => counter["FRONT"] \in Nat
        /\ InStep /\ Pressing /\ Requested
    BY DEF ModeInv, Inv, TypeOK, Aligned
  <1>1. CASE Expire
    <2>1. ~Ticking
      BY <1>1 DEF Expire, SeeExpiry, ExpiryGuard, ExpiryRelease, ExpiryClass, ExpiryLoad,
                  ExpiryStore, ExpiryCool, Ticking
    <2> QED BY <1>1, <2>1, ExpireRefines
  \* elsewhere no press is handled and the state is the same
  <1>2. ASSUME UNCHANGED <<state, fb_pressing, fb_timer, level, counter, ticks>>,
               pc \notin Expiring \ {"expire"}, pc # "pause",
               pc' \notin Expiring \ {"expire"},
               \/ pc' \in {"stop", "case"} /\ pc \in {"top", "stop"}
               \/ pc' = "setup" /\ state = "WIFI_SETUP"
               \/ pc' = "expire" /\ state # "WIFI_SETUP"
               \/ pc \notin {"top", "stop", "case", "setup"} /\ pc' \notin {"top", "stop", "case", "setup"}
        PROVE  /\ ~Ticking
               /\ UNCHANGED <<ModeOf(state), cooldown>>
               /\ InStep' /\ Aligned' /\ Pressing' /\ Requested' /\ Handling' /\ Storing'
    <2>1. ~Ticking /\ UNCHANGED <<ModeOf(state), cooldown>>
      BY <1>2 DEF History, FrontChange, Ticking
    <2>2. Requested'
      BY <1>0, <1>2 DEF Requested, Recent
    <2>3. InStep' /\ Pressing'
      BY <1>0, <1>2, <2>1 DEF InStep, Pressing
    <2> QED BY <1>0, <1>2, <2>1, <2>2, <2>3 DEF Expiring, Aligned, Handling, Storing
  <1> USE DEF Expiring
  <1>3. CASE SeeState \/ StopForSwitch
    BY <1>0, <1>2, <1>3 DEF SeeState, StopForSwitch
  <1>4. CASE SwitchState
    <2>1. state # "WIFI_SETUP"
      BY <1>4 DEF SwitchState, EnterPm25, EnterTime, EnterId, EnterIp
    <2> QED BY <1>2, <1>4, <2>1 DEF SwitchState
  <1>5. CASE EnterWifiSetup
    BY <1>2, <1>5 DEF EnterWifiSetup
  <1>6. CASE SeeSpinner \/ DrawSpinner \/ SeeBattery \/ DrawBattery \/ RecordBattery
    BY <1>2, <1>6 DEF SeeSpinner, SeePm25Then, SeeTimeThen, DrawSpinner, SeeBattery,
                      DrawBattery, DrawBatteryIf, RecordBattery
  <1>7. CASE SeeNewData \/ TakeData \/ ShowInTime \/ SeePm25 \/ DrawData \/ SendData
    BY <1>2, <1>7 DEF SeeNewData, SeePm25Then, SeeTimeThen, TakeData, ShowInTime, SeePm25,
                      DrawData, SendData
  <1>8. CASE SeeUnit \/ ChangeUnit \/ EnsureTimer
    BY <1>2, <1>8 DEF SeeUnit, ChangeUnit, EnsureTimer
  <1> QED BY <1>1, <1>3, <1>4, <1>5, <1>6, <1>7, <1>8 DEF Main

\* The return of wifi_setup() is the end of a set-up.
LEMMA ReturnRefines ==
  ASSUME ModeInv, SetupReturns, History
  PROVE  /\ ~Ticking
         /\ Mode!SetupDone
         /\ InStep' /\ Aligned' /\ Pressing' /\ Requested' /\ Handling' /\ Storing'
  <1>1. /\ pc = "setup" /\ pc' = "expire" /\ state = "WIFI_SETUP" /\ state' = "PM25"
        /\ UNCHANGED <<fb_pressing, fb_timer, level, counter, ticks>>
    BY DEF SetupReturns, Goto, ModeInv, Requested, button, pins
  <1>2. ~Ticking /\ UNCHANGED cooldown
    BY <1>1 DEF Ticking, History, FrontChange
  <1>3. Mode!SetupDone
    BY <1>1, <1>2 DEF Mode!SetupDone, ModeOf, DataStates
  <1> QED BY <1>1, <1>2, <1>3 DEF ModeInv, InStep, Aligned, Pressing, Requested, Handling, Storing

(* However the polling of the buttons and the loop's own handling of an expired     *)
(* press interleave, the sampler sees the modes change as PanelMode.tla lets them:  *)
(* the front button changes the mode at most once in FB_TIMER_CD ticks              *)
(* (main.c:214-293, 1049-1053), if the back button's dead time is a multiple of the *)
(* polling interval and a pass takes at most half of one.                           *)
THEOREM RefinesPanelMode == ASSUME InPhase, Timely PROVE MCSpec => ImplementsPanelMode
  <1> DEFINE Step == IF Ticking THEN Mode!Poll ELSE Mode!Expiry \/ Mode!SetupDone
  <1>1. MCInit => ModeInv /\ Mode!ModeInit
    <2> SUFFICES ASSUME MCInit PROVE ModeInv /\ Mode!ModeInit
      OBVIOUS
    <2>1. Init /\ Inv
      BY InitInvariant DEF MCInit
    <2>2. InStep
      <3>1. {"FRONT", "BACK"} \subseteq Pins => counter["BACK"] - counter["FRONT"] = 0
        BY <2>1 DEF Init
      <3> QED BY <3>1, MultipleFacts DEF InStep
    <2> QED BY <2>1, <2>2, FrontPanelAssumption DEF MCInit, Init, ModeInv, Aligned, Pressing,
               Requested, Handling, Storing, Mode!ModeInit, ModeOf, DataStates
  <1>2. ModeInv /\ [MCNext]_<<vars, cooldown>> => ModeInv' /\ [Step]_<<ModeOf(state), cooldown>>
    <2> SUFFICES ASSUME ModeInv, [MCNext]_<<vars, cooldown>>
                 PROVE  ModeInv' /\ [Step]_<<ModeOf(state), cooldown>>
      OBVIOUS
    <2>1. CASE UNCHANGED <<vars, cooldown>>
      <3>1. UNCHANGED <<ModeOf(state), cooldown>>
        BY <2>1 DEF vars
      <3>2. Inv'
        BY <2>1, NextKeeps DEF ModeInv
      <3> QED BY <2>1, <3>1, <3>2 DEF vars, ModeInv, InStep, Aligned, Pressing, Requested,
                 Handling, Storing, Stores, Ended, Held, NoPress, Recent, ModeOf
    <2>2. CASE MCNext
      <3>1. Inv' /\ History
        BY <2>2, NextKeeps DEF ModeInv, MCNext
      <3>2. CASE Tick
        BY <3>1, <3>2, TickHistory, TickRefines DEF ModeInv
      <3>3. CASE Main
        BY <3>1, <3>3, MainRefines DEF ModeInv
      <3>4. CASE SetupReturns
        BY <3>1, <3>4, ReturnRefines DEF ModeInv
      <3> QED BY <2>2, <3>2, <3>3, <3>4 DEF MCNext, Next
    <2> QED BY <2>1, <2>2
  <1> QED BY <1>1, <1>2, PTL DEF MCSpec, ImplementsPanelMode
=============================================================================
