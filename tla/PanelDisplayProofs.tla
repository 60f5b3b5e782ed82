-------------------------- MODULE PanelDisplayProofs --------------------------
(* What the display of FrontPanel.tla shows, for every set of pins and all        *)
(* intervals, as long as no tick falls inside a pass of the main loop, or the two *)
(* buttons are polled in the same ticks.                                         *)
EXTENDS PanelProofs

-----------------------------------------------------------------------------
(* No tick inside a pass: the logic of pages and icons is right, and what the     *)
(* runs PanelMenuRace and PanelBatteryRace find are races alone.                  *)

Menu == {"ID", "IP"}

Calm == Calibrated /\ PassTicks = 0

\* The state stands still in a pass, but for the loop's own handling of a press.
Still ==
    /\ pc \in Expiring \ {"cool"} => state = current_state
    /\ pc \in {"frame", "draw_spin", "pending", "take", "send"} \cup Showing =>
         state \in DataStates

\* From a data page the menu is entered by its page ID, which clears.
ById ==
    /\ current_state \in DataStates => state # "IP"
    /\ pc = "store" /\ current_state \in DataStates /\ "state" \in DOMAIN store =>
         store["state"] # "IP"

Cleaned ==
    state \in Menu /\ current_state \in Menu =>
      current_display_data = -1 /\ ~screen.spinner /\ screen.net = -1

Recorded ==
    /\ pc \in {"draw_full", "draw_low"} => battery_state # {}
    /\ pc = "draw_low" => "FULL" \notin battery_state
    /\ pc = "record_battery" => screen.battery = Icon(battery_state)
    /\ pc # "record_battery" /\ last_battery_state # NoFlags =>
         screen.battery = Icon(last_battery_state)

CalmInv == Still /\ ById /\ Cleaned /\ Recorded

-----------------------------------------------------------------------------
\* No press leads from a data page to the page IP.
LEMMA DataPresses ==
  ASSUME NEW s \in DataStates, NEW u, NEW b \in BOOLEAN
  PROVE  /\ Assigned(ShortPress(s, u, b), "state", s) # "IP"
         /\ Assigned(LongPress(s), "state", s) # "IP"
         /\ "state" \in DOMAIN ShortPress(s, u, b) => ShortPress(s, u, b)["state"] # "IP"
         /\ "state" \in DOMAIN LongPress(s) => LongPress(s)["state"] # "IP"
  <1>1. CASE s = "PM25"
    BY <1>1 DEF Assigned, ShortPress, LongPress, Nothing, DataStates
  <1>2. CASE s = "TIME"
    BY <1>2 DEF Assigned, ShortPress, LongPress, Nothing, DataStates
  <1> QED BY <1>1, <1>2 DEF DataStates

\* A tick keeps the invariant of a calm device.
LEMMA CalmTick ==
  ASSUME Calm, ScreenInv, CalmInv, Tick
  PROVE  CalmInv'
  <1>0. /\ pc = "pause" /\ pc' = "top"
        /\ UNCHANGED <<current_state, current_display_data, screen, store, last_battery_state>>
    BY FrontPanelAssumption DEF Tick, Calm, ScreenInv, Inv, TypeOK
  <1>1. PICK s \in States :
          /\ state' = s \/ (s \in DataStates /\ state' = "WIFI_SETUP")
          /\ (s = state /\ (Quiet \/ Pressed)) \/ Released(s)
    BY TickCases DEF ScreenInv
  <1>2. state # current_state => s = state
    <2> SUFFICES ASSUME state # current_state, Released(s) PROVE FALSE
      BY <1>1
    <2>1. Locked
      BY <1>0 DEF ScreenInv, Lasting, Released
    <2>2. ticks \in 0..PassTicks /\ PassTicks = 0 /\ POLL_INTERVAL \in Nat
      BY FrontPanelAssumption DEF Calm, ScreenInv, Inv, TypeOK
    <2> QED BY <2>1, <2>2 DEF Released, Locked, Recent, Due
  <1>3. state \in DataStates => s # "IP"
    BY <1>1, DataPresses DEF Released, DataStates
  <1>4. current_state \in States \ {"WIFI_SETUP"}
    BY DEF ScreenInv, Inv, TypeOK
  <1>5. ById'
    BY <1>0, <1>1, <1>2, <1>3 DEF CalmInv, ById
  <1>6. Cleaned'
    BY <1>0, <1>1, <1>2, <1>4 DEF CalmInv, Cleaned, Menu, States, DataStates
  <1> QED BY <1>0, <1>5, <1>6 DEF CalmInv, Still, Recorded, Expiring, Showing

\* So does the handler of the switch ...
LEMMA CalmSwitch ==
  ASSUME ScreenInv, CalmInv, SwitchState
  PROVE  CalmInv'
  <1>0. /\ screen \in Screens /\ pc' = "expire" /\ current_state' = state'
        /\ pc = "case" /\ current_state \in Menu \cup DataStates
    BY DEF SwitchState, Goto, ScreenInv, Inv, TypeOK, States, DataStates, Menu
  <1>1. \A page \in Pages, s \in Screens :
          /\ ShowPage(s, page).spinner = s.spinner /\ ShowPage(s, page).net = s.net
          /\ ShowPage(s, page).battery = s.battery
    BY DEF ShowPage, Screens
  <1>2. /\ ~Cleared(screen).spinner /\ Cleared(screen).net = -1
        /\ Cleared(screen).battery = screen.battery /\ Cleared(screen) \in Screens
    <2> DEFINE s == ShowSpinner(screen, -1)
    <2>1. s \in Screens
      BY <1>0, ShowTypes
    <2>2. ~s.spinner /\ s.battery = screen.battery
      <3>1. s.spinner = (-1 >= 0) /\ s.battery = screen.battery
        BY <1>0 DEF ShowSpinner, Screens
      <3>2. ~(-1 >= 0)
        OBVIOUS
      <3> QED BY <3>1, <3>2
    <2> HIDE DEF s
    <2>3. ~ShowNet(s, -1).spinner /\ ShowNet(s, -1).net = -1
            /\ ShowNet(s, -1).battery = screen.battery
      BY <2>1, <2>2 DEF ShowNet, Screens
    <2>4. ShowNet(s, -1) \in Screens
      BY <2>1, ShowTypes
    <2> QED BY <2>3, <2>4 DEF s, Cleared
  <1>3. Still' /\ ById'
    BY <1>0 DEF Still, ById, Expiring, Showing, DataStates
  <1>4. CASE EnterId
    <2>1. CASE current_state \in DataStates
      <3>1. /\ screen' = ShowPage(Cleared(screen), "id") /\ current_display_data' = -1
            /\ UNCHANGED last_battery_state
        BY <1>4, <2>1 DEF EnterId, ClearData, battery, SwitchState
      <3> QED BY <1>0, <1>1, <1>2, <1>3, <3>1 DEF CalmInv, Cleaned, Recorded, Pages
    <2>2. CASE current_state \notin DataStates
      <3>1. /\ screen' = ShowPage(screen, "id") /\ state = "ID"
            /\ UNCHANGED <<last_battery_state, current_display_data>>
        BY <1>4, <2>2 DEF EnterId, battery, SwitchState
      <3> QED BY <1>0, <1>1, <1>3, <2>2, <3>1 DEF CalmInv, Cleaned, Recorded, Pages, Menu
    <2> QED BY <2>1, <2>2
  <1>5. CASE EnterIp
    <2>1. /\ screen' = ShowPage(screen, "ip") /\ state = "IP"
          /\ UNCHANGED <<last_battery_state, current_display_data>>
      BY <1>5 DEF EnterIp, battery, SwitchState
    <2>2. current_state \in Menu
      BY <1>0, <2>1 DEF CalmInv, ById
    <2> QED BY <1>0, <1>1, <1>3, <2>1, <2>2 DEF CalmInv, Cleaned, Recorded, Pages, Menu
  <1>6. CASE EnterPm25 \/ EnterTime
    <2>1. state' \in DataStates /\ UNCHANGED last_battery_state
      BY <1>6 DEF EnterPm25, EnterTime, battery, SwitchState, DataStates
    <2>2. screen'.battery = screen.battery
      <3>1. CASE EnterPm25
        <4>1. \/ screen' = ShowPage(screen, "wait")
              \/ \E l, v : screen' = ShowData(screen, l, v)
          BY <3>1 DEF EnterPm25
        <4>2. CASE screen' = ShowPage(screen, "wait")
          BY <1>0, <1>1, <4>2 DEF Pages
        <4>3. ASSUME NEW l, NEW v, screen' = ShowData(screen, l, v)
              PROVE  screen'.battery = screen.battery
          BY <1>0, <4>3 DEF ShowData, Screens
        <4> QED BY <4>1, <4>2, <4>3
      <3>2. CASE EnterTime
        BY <1>0, <3>2 DEF EnterTime, ShowTime, Screens
      <3> QED BY <1>6, <3>1, <3>2
    <2> QED BY <1>0, <1>3, <2>1, <2>2 DEF CalmInv, Cleaned, Recorded, Menu, DataStates
  <1> QED BY <1>4, <1>5, <1>6 DEF SwitchState

\* ... the way into Wi-Fi setup and out of it ...
LEMMA CalmSetup ==
  ASSUME ScreenInv, CalmInv, EnterWifiSetup \/ SetupReturns
  PROVE  CalmInv'
  <1>1. CASE EnterWifiSetup
    <2>1. /\ state = "WIFI_SETUP" /\ pc' = "setup" /\ last_battery_state' = NoFlags
          /\ UNCHANGED <<state, current_state>>
      BY <1>1 DEF EnterWifiSetup, Goto, mode
    <2> QED BY <2>1 DEF CalmInv, Still, ById, Cleaned, Recorded, Expiring, Showing, Menu
  <1>2. CASE SetupReturns
    <2>1. /\ state' = "PM25" /\ current_state' = "PM25" /\ pc = "setup" /\ pc' = "expire"
          /\ screen' = ShowPage(screen, "wait") /\ screen \in Screens
          /\ UNCHANGED last_battery_state
      BY <1>2 DEF SetupReturns, Goto, battery, ScreenInv
    <2>2. screen'.battery = screen.battery
      BY <2>1 DEF ShowPage, Screens
    <2> QED BY <2>1, <2>2 DEF CalmInv, Still, ById, Cleaned, Recorded, Expiring, Showing, Menu,
            DataStates
  <1> QED BY <1>1, <1>2

\* ... the end of the cooldown ...
LEMMA CalmExpire ==
  ASSUME ScreenInv, CalmInv, Expire
  PROVE  CalmInv'
  <1> USE DEF Goto, mode, battery, data
  <1>0. UNCHANGED <<current_state, current_display_data, screen, last_battery_state>>
    BY DEF Expire, SeeExpiry, ExpiryGuard, ExpiryRelease, ExpiryClass, ExpiryLoad,
           ExpiryStore, ExpiryCool
  <1>1. pc # "record_battery" /\ pc' \notin {"draw_full", "draw_low", "record_battery"}
    BY DEF Expire, SeeExpiry, ExpiryGuard, ExpiryRelease, ExpiryClass, ExpiryLoad,
           ExpiryStore, ExpiryCool
  <1>2. Recorded'
    BY <1>0, <1>1 DEF CalmInv, Recorded
  <1>3. CASE SeeExpiry \/ ExpiryGuard \/ ExpiryRelease \/ ExpiryClass \/ ExpiryCool
    <2>1. /\ UNCHANGED state
          /\ pc \in Expiring /\ pc' \in (Expiring \ {"store"}) \cup {"spin"}
          /\ pc' \in Expiring \ {"cool"} => pc \in Expiring \ {"cool"}
      BY <1>3 DEF SeeExpiry, ExpiryGuard, ExpiryRelease, ExpiryClass, ExpiryCool, Expiring
    <2> QED BY <1>0, <1>2, <2>1 DEF CalmInv, Still, ById, Cleaned, Expiring, Showing
  <1>4. CASE ExpiryLoad
    <2>1. /\ UNCHANGED state /\ pc \in {"short", "long"} /\ pc' = "store"
          /\ \/ \E b \in BOOLEAN : store' = ShortPress(state, displaying_unit, b)
             \/ store' = LongPress(state)
      BY <1>4 DEF ExpiryLoad
    <2>2. state = current_state
      BY <2>1 DEF CalmInv, Still, Expiring
    <2>3. ById'
      BY <1>0, <2>1, <2>2, DataPresses DEF ById, DataStates
    <2> QED BY <1>0, <1>2, <2>1, <2>2, <2>3 DEF CalmInv, Still, Cleaned, Expiring, Showing
  <1>5. CASE ExpiryStore
    <2>1. pc = "store" /\ pc' = "cool" /\ state' = Assigned(store, "state", state)
      BY <1>5 DEF ExpiryStore
    <2>2. state = current_state
      BY <2>1 DEF CalmInv, Still, Expiring
    <2>3. ById'
      BY <1>0, <2>1 DEF CalmInv, ById, Assigned
    <2> QED BY <1>0, <1>2, <2>1, <2>2, <2>3 DEF CalmInv, Still, Cleaned, Expiring, Showing
  <1> QED BY <1>3, <1>4, <1>5 DEF Expire

\* ... and the main loop.
LEMMA CalmMain ==
  ASSUME ScreenInv, CalmInv, Main
  PROVE  CalmInv'
  <1> USE DEF Goto, mode, battery, data
  <1>0. screen \in Screens
    BY DEF ScreenInv
  \* the sections that leave the state and the record of the battery alone
  <1>1. ASSUME UNCHANGED <<state, current_state, store, last_battery_state>>,
               pc # "record_battery", pc' \notin {"draw_full", "draw_low", "record_battery"},
               pc' # "store",
               screen'.battery = screen.battery,
               \/ state \in DataStates
               \/ /\ UNCHANGED current_display_data
                  /\ screen'.spinner = screen.spinner /\ screen'.net = screen.net,
               Still'
        PROVE  CalmInv'
    BY <1>1 DEF CalmInv, ById, Cleaned, Recorded, Menu, DataStates
  <1>2. CASE SwitchState \/ EnterWifiSetup
    BY <1>2, CalmSwitch, CalmSetup
  <1>3. CASE Expire
    BY <1>3, CalmExpire
  <1>4. CASE SeeState \/ StopForSwitch \/ SeeSpinner \/ SeeNewData \/ SeeUnit \/ EnsureTimer
    <2>1. Still'
      BY <1>4 DEF CalmInv, Still, Expiring, Showing, DataStates, SeeState, StopForSwitch,
                  SeeSpinner, SeeNewData, SeePm25Then, SeeTimeThen, SeeUnit, EnsureTimer
    <2>2. /\ UNCHANGED <<state, current_state, store, last_battery_state, screen,
                         current_display_data>>
          /\ pc # "record_battery" /\ pc' \notin {"draw_full", "draw_low", "record_battery"}
          /\ pc' # "store"
      BY <1>4 DEF SeeState, StopForSwitch, SeeSpinner, SeeNewData, SeePm25Then, SeeTimeThen,
                  SeeUnit, EnsureTimer
    <2> QED BY <1>1, <2>1, <2>2
  <1>5. CASE DrawSpinner
    <2>1. screen' = ShowSpinner(screen, spinner_frame) /\ pc = "draw_spin" /\ pc' = "battery"
            /\ UNCHANGED <<state, current_state, store, last_battery_state>>
      BY <1>5 DEF DrawSpinner
    <2>2. screen'.battery = screen.battery
      BY <1>0, <2>1 DEF ShowSpinner, Screens
    <2>3. state \in DataStates /\ Still'
      BY <2>1 DEF CalmInv, Still, Expiring, Showing
    <2> QED BY <1>1, <2>1, <2>2, <2>3
  <1>6. CASE SeeBattery
    BY <1>6 DEF SeeBattery, CalmInv, Still, ById, Cleaned, Recorded, Expiring, Showing
  <1>7. CASE DrawBattery
    <2>0. battery_state \subseteq Flags
      BY DEF ScreenInv, Inv, TypeOK
    <2>1. /\ pc \in {"draw_battery", "draw_full", "draw_low"}
          /\ UNCHANGED <<state, current_state, store, battery, current_display_data>>
          /\ \/ screen' = ShowBattery(screen, Icon(battery_state)) /\ pc' = "record_battery"
             \/ /\ UNCHANGED screen
                /\ \/ pc = "draw_battery" /\ pc' = "draw_full" /\ battery_state # {}
                   \/ pc = "draw_full" /\ pc' = "draw_low" /\ "FULL" \notin battery_state
      BY <1>7, <2>0 DEF DrawBattery, DrawBatteryIf, Icon, Flags, CalmInv, Recorded
    <2>2. CASE screen' = ShowBattery(screen, Icon(battery_state)) /\ pc' = "record_battery"
      <3>1. /\ screen'.battery = Icon(battery_state)
            /\ screen'.spinner = screen.spinner /\ screen'.net = screen.net
        BY <1>0, <2>2 DEF ShowBattery, Screens
      <3>2. Icon(battery_state)' = Icon(battery_state)
        BY <2>1 DEF Icon
      <3> QED BY <2>1, <2>2, <3>1, <3>2
              DEF CalmInv, Still, ById, Cleaned, Recorded, Expiring, Showing
    <2>3. CASE UNCHANGED screen
      BY <2>1, <2>2, <2>3 DEF CalmInv, Still, ById, Cleaned, Recorded, Expiring, Showing
    <2> QED BY <2>1, <2>2, <2>3
  <1>8. CASE RecordBattery
    <2>1. last_battery_state' = battery_state /\ pc = "record_battery" /\ pc' = "new_data"
            /\ UNCHANGED <<state, current_state, store, screen, current_display_data>>
      BY <1>8 DEF RecordBattery
    <2> QED BY <2>1 DEF CalmInv, Still, ById, Cleaned, Recorded, Expiring, Showing
  <1>9. CASE TakeData \/ SeePm25
    <2>1. /\ UNCHANGED <<state, current_state, store, last_battery_state, screen>>
          /\ pc \in {"take", "show_data"} /\ pc' \in {"show_time", "draw_data", "send"}
      BY <1>9 DEF TakeData, SeePm25, SeePm25Then
    <2>2. state \in DataStates /\ Still'
      BY <2>1 DEF CalmInv, Still, Expiring, Showing
    <2> QED BY <1>1, <2>1, <2>2
  <1>10. CASE ShowInTime \/ DrawData \/ SendData
    <2>1. /\ UNCHANGED <<state, current_state, store, last_battery_state>>
          /\ pc \in {"show_time", "draw_data", "send"}
          /\ pc' \in {"send", "show_data", "unit"}
      BY <1>10 DEF ShowInTime, DrawData, SendData
    <2>2. state \in DataStates /\ Still'
      BY <2>1 DEF CalmInv, Still, Expiring, Showing
    <2>3. \/ screen' = screen \/ screen' = ShowTime(screen)
          \/ \E l, v : screen' = ShowData(screen, l, v)
          \/ \E conn : screen' = ShowNet(screen, conn)
      BY <1>10 DEF ShowInTime, DrawData, SendData
    <2>4. screen'.battery = screen.battery
      BY <1>0, <2>3 DEF ShowTime, ShowData, ShowNet, Screens
    <2> QED BY <1>1, <2>1, <2>2, <2>4
  <1>11. CASE ChangeUnit
    <2>1. /\ UNCHANGED <<state, current_state, store, last_battery_state, current_display_data>>
          /\ pc = "change_unit" /\ pc' = "ensure"
          /\ \/ screen' = screen
             \/ \E l, k, v : screen' = ShowData(ShowUnit(screen, k), l, v)
      BY <1>11 DEF ChangeUnit
    <2>2. /\ screen'.battery = screen.battery
          /\ screen'.spinner = screen.spinner /\ screen'.net = screen.net
      BY <1>0, <2>1 DEF ShowData, ShowUnit, Screens
    <2>3. Still'
      BY <2>1 DEF Still, Expiring, Showing
    <2> QED BY <1>1, <2>1, <2>2, <2>3
  <1> QED BY <1>2, <1>3, <1>4, <1>5, <1>6, <1>7, <1>8, <1>9, <1>10, <1>11 DEF Main

\* It holds in all runs of a calm device.
LEMMA CalmInvariance == ASSUME Calm PROVE Spec => [](ScreenInv /\ CalmInv)
  <1>1. Spec => []ScreenInv
    BY ScreenInvariance DEF Calm
  <1>2. Init => CalmInv
    BY DEF Init, EmptyScreen, CalmInv, Still, ById, Cleaned, Recorded, Menu, DataStates,
           Expiring, Showing
  <1>3. ScreenInv /\ CalmInv /\ [Next]_vars => CalmInv'
    <2> SUFFICES ASSUME ScreenInv, CalmInv, [Next]_vars PROVE CalmInv'
      OBVIOUS
    <2>1. CASE UNCHANGED vars
      BY <2>1 DEF vars, CalmInv, Still, ById, Cleaned, Recorded, Icon
    <2> QED BY <2>1, CalmTick, CalmMain, CalmSetup DEF Next
  <1> QED BY <1>1, <1>2, <1>3, PTL DEF Spec

(* If no tick falls inside a pass, the menu is clear of data, spinner and network   *)
(* icon, whatever pages, presses and setups came before (main.c:1019-1042).         *)
THEOREM MenuStaysClear == ASSUME Calm PROVE Spec => []MenuIsClear
  <1>1. CalmInv => MenuIsClear
    BY DEF CalmInv, Cleaned, MenuIsClear, Settled, Menu
  <1> QED BY <1>1, CalmInvariance, PTL

(* If no tick falls inside a pass, the battery icon agrees with the pins whenever     *)
(* nothing is left to redraw (main.c:1069-1092).                                     *)
THEOREM BatteryStaysCurrent == ASSUME Calm PROVE Spec => []BatteryIconCurrent
  <1>1. ScreenInv /\ CalmInv => BatteryIconCurrent
    <2>1. ASSUME NEW flags \in SUBSET Flags PROVE flags # NoFlags
      BY DEF Flags, NoFlags
    <2> QED BY <2>1 DEF ScreenInv, Inv, TypeOK, CalmInv, Recorded, BatteryIconCurrent, Settled
  <1> QED BY <1>1, CalmInvariance, PTL

-----------------------------------------------------------------------------
(* Both buttons polled in the same ticks: the value on the data page is in the    *)
(* unit its label names, as long as no change of unit is taken back from a page   *)
(* that already has the new label.                                               *)

Phased == Calibrated /\ InPhase

Early == {"top", "stop", "case", "setup"}

\* No press of the front button can end in what is left of this pass.
Steady == fb_pressing = 0 \/ Recent(POLL_INTERVAL - PassTicks)

\* The back button is polled only when the front button is.
Phase == InStep /\ ("FRONT" \notin Pins => fb_pressing = 0)

\* Wi-Fi setup was asked for in this pass or the one before, and so was what the loop
\* is about to act on.
Asked ==
    /\ state = "WIFI_SETUP" => Steady
    /\ state = "WIFI_SETUP" /\ pc \notin Early => Locked
    /\ pc \in {"stop", "case"} => state # current_state /\ (state = "WIFI_SETUP" \/ Steady)
    /\ pc = "setup" => state = "WIFI_SETUP"

\* A unit that is not drawn yet will be in this pass, or was chosen in its last steps.
Pending ==
    state = "PM25" /\ displaying_unit # current_displaying_unit =>
      /\ Steady
      /\ pc \in {"ensure", "pause"} => Locked

\* The label is that of the unit wanted when the data page was drawn afresh.
Labelled ==
    screen.current_is_data =>
      /\ current_state # "PM25" => screen.label = displaying_unit
      /\ displaying_unit = current_displaying_unit => screen.label = displaying_unit

\* Where that is not the unit last drawn, the loop does not come to handle a press as
\* a short one, which could choose the unit last drawn.
Odd == screen.current_is_data /\ screen.label # current_displaying_unit
OddPress ==
    Odd =>
      /\ pc \in {"guard", "release", "class", "long"} =>
           fb_timer = 0 /\ Recent(POLL_INTERVAL - PassTicks)
      /\ pc # "short"
      /\ pc = "store" => "unit" \notin DOMAIN store

\* A value drawn under another unit's label is redrawn in the same pass, unless the
\* page is to be replaced.
Mixed == screen.page = "data" /\ screen.value.unit # screen.label
Matched ==
    Mixed =>
      /\ pc \notin Expiring
      /\ \/ state # current_state /\ state # "PM25"
         \/ /\ pc \in {"send", "unit", "change_unit"}
            /\ state = "PM25" /\ displaying_unit # current_displaying_unit
            /\ screen.value.unit = current_displaying_unit

UnitInv == Phase /\ Asked /\ Pending /\ Labelled /\ OddPress /\ Matched

-----------------------------------------------------------------------------
\* The unit changes at the release of a button, on a data page.
LEMMA PressUnits ==
  ASSUME NEW p \in Panels, NEW lvl \in {0, 1}, NEW b \in BOOLEAN,
         FrontEvent(p, lvl, b).unit # p.unit
  PROVE  /\ p.pressing = 1 /\ FrontEvent(p, lvl, b).pressing = 0
         /\ p.state \in DataStates
  <1> DEFINE f == IF p.timer > 0 THEN ShortPress(p.state, p.unit, b) ELSE LongPress(p.state)
  <1>1. p.unit \in Units /\ p.state \in States
    BY DEF Panels
  <1>2. p.state \notin DataStates => Assigned(f, "unit", p.unit) = p.unit
    BY DEF Assigned, ShortPress, LongPress, Nothing, DataStates
  <1>3. [p EXCEPT !.pressing = 1, !.timer = FB_TIMER_LONG].unit = p.unit
    BY DEF Panels
  <1> HIDE DEF f
  <1> QED BY <1>1, <1>2, <1>3 DEF FrontEvent, f

\* What a poll does to the unit, and when it can ask for Wi-Fi setup.
LEMMA TickUnits ==
  ASSUME Phased, Inv, Phase, Tick
  PROVE  /\ Phase'
         /\ state' = "WIFI_SETUP" /\ state # "WIFI_SETUP" =>
              fb_pressing' = 0 \/ ("FRONT" \in Pins /\ counter'["FRONT"] = POLL_INTERVAL)
         /\ displaying_unit' # displaying_unit =>
              Due /\ fb_pressing = 1 /\ fb_pressing' = 0 /\ state \in DataStates
  <1>7. "FRONT" \in Pins /\ Due => counter'["FRONT"] = POLL_INTERVAL
    BY TickCases DEF Due
  <1>8. "FRONT" \notin Pins => fb_pressing' = 0
    BY PinCases DEF Phase
  <1>9. /\ InStep'
        /\ "FRONT" \in Pins /\ state # "WIFI_SETUP" /\ state' = "WIFI_SETUP" => Due
    BY TickInStep DEF Phased, Phase
  <1> USE DEF Inv, TypeOK
  <1> DEFINE due == {p \in Pins : counter[p] = 0}
  <1>1. PICK lvl \in [due -> {0, 1}], clockSet \in BOOLEAN :
          LET changed == {p \in due : lvl[p] # level[p]}
              timer == IF fb_timer > 0 THEN fb_timer - 1 ELSE 0
              p0 == [state |-> state, unit |-> displaying_unit,
                     pressing |-> fb_pressing, timer |-> timer]
              p1 == IF "FRONT" \in changed
                    THEN FrontEvent(p0, lvl["FRONT"], clockSet)
                    ELSE p0
          IN  /\ displaying_unit' = p1.unit
              /\ fb_pressing' = p1.pressing
    BY DEF Tick, PollGpio
  <1> DEFINE changed == {p \in due : lvl[p] # level[p]}
             p0 == [state |-> state, unit |-> displaying_unit,
                    pressing |-> fb_pressing, timer |-> Timer]
             p1 == IF "FRONT" \in changed THEN FrontEvent(p0, lvl["FRONT"], clockSet) ELSE p0
  <1>2. Timer \in 0..(FB_TIMER_LONG + FB_TIMER_CD)
    BY FrontPanelAssumption DEF Timer
  <1>3. p0 \in Panels
    BY <1>2 DEF Panels
  <1>4. "FRONT" \in changed => lvl["FRONT"] \in {0, 1} /\ Due
    BY DEF Due
  <1>5. displaying_unit' = p1.unit /\ fb_pressing' = p1.pressing
    BY <1>1 DEF Timer
  <1>6. displaying_unit' # displaying_unit =>
          Due /\ fb_pressing = 1 /\ fb_pressing' = 0 /\ state \in DataStates
    <2> SUFFICES ASSUME displaying_unit' # displaying_unit
                 PROVE  Due /\ fb_pressing = 1 /\ fb_pressing' = 0 /\ state \in DataStates
      OBVIOUS
    <2> DEFINE e == FrontEvent(p0, lvl["FRONT"], clockSet)
    <2>1. "FRONT" \in changed /\ p1 = e /\ e.unit # p0.unit
      <3> HIDE DEF e
      <3>1. p0.unit = displaying_unit
        OBVIOUS
      <3> QED BY <1>5, <3>1 DEF e
    <2>2. p0.pressing = 1 /\ e.pressing = 0 /\ p0.state \in DataStates
      BY <1>3, <1>4, <2>1, PressUnits
    <2> HIDE DEF e, p1
    <2> QED BY <1>4, <1>5, <2>1, <2>2
  <1> QED BY <1>6, <1>7, <1>8, <1>9 DEF Phase

\* What a tick leaves of a button that is steady or locked, and what has just been
\* polled when the tick changes something.
LEMMA TickSteady ==
  ASSUME Phased, Inv, Phase, Tick
  PROVE  /\ Locked => Steady
         /\ Steady /\ (pc = "pause" => Locked) =>
              Steady' /\ state' \in {state, "WIFI_SETUP"} /\ UNCHANGED displaying_unit
         /\ Locked /\ pc # "pause" => Locked'
         /\ Recent(POLL_INTERVAL - PassTicks) /\ pc # "pause" =>
              Quiet /\ Recent(POLL_INTERVAL - PassTicks)'
         /\ ~UNCHANGED <<state, displaying_unit>> => Steady' /\ (pc # "pause" => Locked')
         /\ state = "WIFI_SETUP" => state' = "WIFI_SETUP"
  <1> USE FrontPanelAssumption
  <1>0. /\ ticks \in 0..PassTicks /\ fb_pressing \in {0, 1} /\ 2 * PassTicks <= POLL_INTERVAL
        /\ "FRONT" \in Pins => counter["FRONT"] \in Nat
    BY DEF Inv, TypeOK, Phased, Calibrated, Timely
  <1>1. PICK s \in States :
          /\ state' = s \/ (s \in DataStates /\ state' = "WIFI_SETUP")
          /\ (s = state /\ (Quiet \/ Pressed)) \/ Released(s)
    BY TickCases
  <1>2. "FRONT" \in Pins =>
          counter'["FRONT"] = IF counter["FRONT"] = 0 THEN POLL_INTERVAL
                              ELSE counter["FRONT"] - 1
    BY TickCases
  <1>3. \/ pc = "pause" /\ pc' = "top" /\ ticks' = 0
        \/ pc # "pause" /\ pc' = pc /\ ticks < PassTicks /\ ticks' = ticks + 1
    BY TickFrame
  <1>4. Locked => Steady
    BY <1>0 DEF Locked, Steady, Recent
  \* a button that has just been polled
  <1>5. ASSUME "FRONT" \in Pins, counter'["FRONT"] = POLL_INTERVAL
        PROVE  Steady' /\ (pc # "pause" => Locked')
    BY <1>0, <1>3, <1>5 DEF Steady, Locked, Recent
  <1>6. fb_pressing' = 0 => Steady' /\ Locked'
    BY DEF Steady, Locked
  \* and one that is not polled in this tick
  <1>7. ASSUME NEW n \in Int, Recent(n), pc # "pause" \/ n = POLL_INTERVAL + 1,
               n >= POLL_INTERVAL - PassTicks
        PROVE  /\ ~Due /\ Quiet /\ s = state
               /\ pc # "pause" => Recent(n)'
               /\ Recent(POLL_INTERVAL - PassTicks)'
    <2>1. ~Due /\ counter'["FRONT"] = counter["FRONT"] - 1
      BY <1>0, <1>2, <1>3, <1>7 DEF Recent, Due
    <2>2. Quiet /\ s = state
      BY <1>1, <2>1 DEF Pressed, Released
    <2>3. /\ pc # "pause" => Recent(n)'
          /\ Recent(POLL_INTERVAL - PassTicks)'
      BY <1>0, <1>3, <1>7, <2>1 DEF Recent
    <2> QED BY <2>1, <2>2, <2>3
  <1>8. ASSUME fb_pressing = 0
        PROVE  s = state /\ Steady' /\ (pc # "pause" => Locked')
    <2>1. s = state /\ (Quiet \/ Pressed)
      BY <1>1, <1>8 DEF Released
    <2>2. CASE Quiet
      BY <1>6, <1>8, <2>1, <2>2 DEF Quiet
    <2>3. CASE Pressed
      BY <1>2, <1>5, <2>1, <2>3 DEF Pressed, Due
    <2> QED BY <2>1, <2>2, <2>3
  <1>9. displaying_unit' # displaying_unit =>
          Due /\ fb_pressing = 1 /\ fb_pressing' = 0 /\ state \in DataStates
    BY TickUnits
  <1>10. ASSUME Steady, pc = "pause" => Locked
         PROVE  Steady' /\ state' \in {state, "WIFI_SETUP"} /\ UNCHANGED displaying_unit
    <2>1. CASE fb_pressing = 0
      BY <1>1, <1>8, <1>9, <2>1
    <2>2. CASE fb_pressing # 0 /\ pc = "pause"
      <3>1. ~Due /\ s = state /\ Steady'
        BY <1>0, <1>7, <1>10, <2>2 DEF Locked, Steady
      <3> QED BY <1>1, <1>9, <3>1
    <2>3. CASE fb_pressing # 0 /\ pc # "pause"
      <3>1. ~Due /\ s = state /\ Steady'
        BY <1>0, <1>7, <1>10, <2>3 DEF Steady
      <3> QED BY <1>1, <1>9, <3>1
    <2> QED BY <2>1, <2>2, <2>3
  <1>11. Locked /\ pc # "pause" => Locked'
    BY <1>0, <1>7, <1>8 DEF Locked
  <1>12. Recent(POLL_INTERVAL - PassTicks) /\ pc # "pause" =>
           Quiet /\ Recent(POLL_INTERVAL - PassTicks)'
    BY <1>0, <1>7
  <1>13. ~UNCHANGED <<state, displaying_unit>> => Steady' /\ (pc # "pause" => Locked')
    <2>1. CASE displaying_unit' # displaying_unit
      BY <1>6, <1>9, <2>1
    <2>2. CASE s # state
      BY <1>1, <1>6, <2>2 DEF Released
    <2>3. CASE s = state /\ state' # state
      <3>1. state # "WIFI_SETUP" /\ state' = "WIFI_SETUP"
        BY <1>1, <2>3 DEF DataStates
      <3> QED BY <1>5, <1>6, <3>1, TickUnits
    <2> QED BY <2>1, <2>2, <2>3
  <1>14. state = "WIFI_SETUP" => state' = "WIFI_SETUP"
    BY <1>1 DEF Released, DataStates
  <1> QED BY <1>4, <1>10, <1>11, <1>12, <1>13, <1>14

\* A tick keeps the invariant of the unit ...
LEMMA UnitTick ==
  ASSUME Phased, ScreenInv, UnitInv, Tick
  PROVE  UnitInv'
  <1>0. /\ Inv /\ Lasting /\ Shown /\ Phase /\ Asked /\ Pending /\ Labelled /\ OddPress /\ Matched
        /\ displaying_unit \in Units /\ current_displaying_unit \in Units
        /\ current_state \in MenuStates
    BY DEF ScreenInv, UnitInv, Inv, TypeOK, MenuStates
  <1>1. /\ \/ pc = "pause" /\ pc' = "top"
           \/ pc # "pause" /\ pc' = pc
        /\ UNCHANGED <<current_state, current_displaying_unit, current_display_data, screen, store>>
    BY DEF Tick
  <1>2. Locked => Steady
    BY <1>0, TickSteady
  <1>3. Steady /\ (pc = "pause" => Locked) =>
          Steady' /\ state' \in {state, "WIFI_SETUP"} /\ UNCHANGED displaying_unit
    BY <1>0, TickSteady
  <1>4. Locked /\ pc # "pause" => Locked'
    BY <1>0, TickSteady
  <1>5. ~UNCHANGED <<state, displaying_unit>> => Steady' /\ (pc # "pause" => Locked')
    BY <1>0, TickSteady
  <1>6. state = "WIFI_SETUP" => state' = "WIFI_SETUP"
    BY <1>0, TickSteady
  \* an answer that is still to come from the loop does not change
  <1>7. ASSUME state # current_state
        PROVE  /\ Steady' /\ state' \in {state, "WIFI_SETUP"} /\ UNCHANGED displaying_unit
               /\ pc \in {"stop", "case"} => state' = "WIFI_SETUP" \/ Steady'
    <2>1. Steady /\ (pc = "pause" => Locked)
      BY <1>0, <1>2, <1>7 DEF Asked, Lasting, Steady, Early
    <2> QED BY <1>3, <2>1
  <1>8. Phase'
    BY <1>0, TickUnits
  <1>9. Asked'
    <2>1. state' = "WIFI_SETUP" => Steady' /\ (pc' \notin Early => Locked')
      <3>1. CASE state = "WIFI_SETUP"
        BY <1>0, <1>1, <1>2, <1>3, <1>4, <3>1 DEF Asked, Early
      <3>2. CASE state # "WIFI_SETUP"
        BY <1>1, <1>5, <3>2 DEF Early
      <3> QED BY <3>1, <3>2
    <2>2. pc' \in {"stop", "case"} =>
            state' # current_state' /\ (state' = "WIFI_SETUP" \/ Steady')
      BY <1>0, <1>1, <1>7 DEF Asked, MenuStates
    <2>3. pc' # "setup"
      BY <1>0, <1>1 DEF Tick, Inv
    <2> QED BY <2>1, <2>2, <2>3 DEF Asked
  <1>10. Pending'
    <2> SUFFICES ASSUME state' = "PM25", displaying_unit' # current_displaying_unit'
                 PROVE  Steady' /\ (pc' \in {"ensure", "pause"} => Locked')
      BY DEF Pending
    <2>1. CASE UNCHANGED <<state, displaying_unit>>
      BY <1>0, <1>1, <1>3, <1>4, <2>1 DEF Pending
    <2>2. CASE ~UNCHANGED <<state, displaying_unit>>
      BY <1>1, <1>5, <2>2
    <2> QED BY <2>1, <2>2
  <1>11. Labelled'
    <2>1. CASE UNCHANGED displaying_unit
      BY <1>0, <1>1, <2>1 DEF Labelled
    <2>2. CASE displaying_unit' # displaying_unit /\ screen.current_is_data
      <3>1. state = current_state /\ state \in DataStates
        BY <1>0, <1>7, <2>2, TickUnits
      <3>2. screen.page = "data"
        BY <1>0, <2>2 DEF Shown
      <3>3. current_state = "PM25"
        BY <1>0, <3>1, <3>2 DEF Shown, Page, Asked, DataStates
      <3>4. displaying_unit = current_displaying_unit
        <4> SUFFICES ASSUME displaying_unit # current_displaying_unit PROVE FALSE
          OBVIOUS
        <4>1. Steady /\ (pc = "pause" => Locked)
          BY <1>0, <3>1, <3>3 DEF Pending
        <4> QED BY <1>3, <2>2, <4>1
      <3> QED BY <1>0, <1>1, <2>2, <3>3, <3>4 DEF Labelled
    <2> QED BY <1>1, <2>1, <2>2 DEF Labelled
  <1>12. OddPress'
    <2> SUFFICES ASSUME Odd' PROVE OddPress'
      BY DEF OddPress
    <2>1. Odd
      BY <1>1 DEF Odd
    <2>2. pc' \in {"guard", "release", "class", "long"} =>
            fb_timer' = 0 /\ Recent(POLL_INTERVAL - PassTicks)'
      <3> SUFFICES ASSUME pc' \in {"guard", "release", "class", "long"}
                   PROVE  fb_timer' = 0 /\ Recent(POLL_INTERVAL - PassTicks)'
        OBVIOUS
      <3>1. fb_timer = 0 /\ Recent(POLL_INTERVAL - PassTicks) /\ pc # "pause"
        BY <1>0, <1>1, <2>1 DEF OddPress
      <3>2. Quiet /\ Recent(POLL_INTERVAL - PassTicks)'
        BY <1>0, <3>1, TickSteady
      <3> QED BY <3>1, <3>2 DEF Quiet, Timer
    <2> QED BY <1>0, <1>1, <2>1, <2>2 DEF OddPress
  <1>13. Matched'
    <2> SUFFICES ASSUME Mixed' PROVE Matched'
      BY DEF Matched
    <2>1. Mixed
      BY <1>1 DEF Mixed
    <2>2. pc' \notin Expiring
      BY <1>0, <1>1, <2>1 DEF Matched, Expiring
    <2>3. CASE state # current_state /\ state # "PM25"
      <3>1. state' # current_state /\ state' # "PM25"
        BY <1>0, <1>7, <2>3 DEF MenuStates
      <3> QED BY <1>1, <2>2, <3>1 DEF Matched
    <2>4. CASE /\ pc \in {"send", "unit", "change_unit"}
               /\ state = "PM25" /\ displaying_unit # current_displaying_unit
               /\ screen.value.unit = current_displaying_unit
      <3>1. state' \in {"PM25", "WIFI_SETUP"} /\ UNCHANGED displaying_unit /\ pc' = pc
        BY <1>0, <1>1, <1>3, <2>4 DEF Pending
      <3> QED BY <1>0, <1>1, <2>2, <2>4, <3>1 DEF Matched, MenuStates
    <2> QED BY <1>0, <2>1, <2>3, <2>4 DEF Matched
  <1> QED BY <1>8, <1>9, <1>10, <1>11, <1>12, <1>13 DEF UnitInv

\* The sections that leave mode, unit, button and data page alone keep all but what is
\* said of the section entered.
LEMMA UnitFrame ==
  ASSUME UnitInv,
         UNCHANGED <<state, current_state, displaying_unit, current_displaying_unit,
                     fb_pressing, counter, ticks, current_display_data>>,
         screen'.page = screen.page, screen'.label = screen.label,
         screen'.value = screen.value, screen'.current_is_data = screen.current_is_data
  PROVE  /\ Phase' /\ Labelled'
         /\ Steady' <=> Steady
         /\ Locked' <=> Locked
         /\ Mixed' <=> Mixed
         /\ Odd' <=> Odd
         /\ Recent(POLL_INTERVAL - PassTicks)' <=> Recent(POLL_INTERVAL - PassTicks)
  BY DEF UnitInv, Phase, InStep, Labelled, Steady, Locked, Mixed, Odd, Recent

\* The loop enters the page of a new state.
LEMMA UnitSwitch ==
  ASSUME Phased, ScreenInv, UnitInv, SwitchState
  PROVE  UnitInv'
  <1>0. /\ Phase /\ Asked /\ Pending /\ Labelled /\ OddPress /\ Matched /\ Shown
        /\ screen \in Screens /\ displaying_unit \in Units
        /\ pc = "case" /\ pc' = "expire" /\ current_state' = state'
        /\ UNCHANGED <<state, fb_pressing, counter, ticks>>
    BY DEF ScreenInv, UnitInv, Inv, TypeOK, SwitchState, Goto, button, pins
  <1>1. state # current_state /\ Steady
    BY <1>0 DEF Asked
  <1>2. Phase' /\ Steady'
    BY <1>0, <1>1 DEF Phase, InStep, Steady, Recent
  <1>3. state' # "WIFI_SETUP"
    BY <1>0 DEF SwitchState, EnterPm25, EnterTime, EnterId, EnterIp
  <1>4. Asked' /\ Pending' /\ OddPress'
    BY <1>0, <1>2, <1>3 DEF Asked, Pending, OddPress
  <1>5. Labelled' /\ ~Mixed'
    <2>1. \A page \in Pages, s \in Screens :
            ShowPage(s, page).page = page /\ ~ShowPage(s, page).current_is_data
      BY DEF ShowPage, Screens
    <2>2. CASE screen'.page # "data" /\ ~screen'.current_is_data
      BY <2>2 DEF Labelled, Mixed
    <2>3. CASE EnterPm25
      <3>1. CASE current_display_data < 0
        <4>1. screen' = ShowPage(screen, "wait")
          BY <2>3, <3>1 DEF EnterPm25
        <4> QED BY <1>0, <2>1, <2>2, <4>1 DEF Pages
      <3>2. CASE ~(current_display_data < 0)
        <4> DEFINE value == [reading |-> current_display_data, unit |-> displaying_unit]
        <4>1. /\ screen' = ShowData(screen, displaying_unit, value) /\ state = "PM25"
              /\ UNCHANGED <<displaying_unit, current_displaying_unit, current_display_data>>
          BY <2>3, <3>2 DEF EnterPm25, unit
        <4>3. screen.current_is_data => screen.label = displaying_unit
          BY <1>0, <1>1, <4>1 DEF Labelled
        <4>4. screen'.label = displaying_unit /\ screen'.value = value
          BY <1>0, <4>1, <4>3 DEF ShowData, Screens
        <4>5. screen'.value.unit = displaying_unit
          BY <4>4
        <4> QED BY <4>1, <4>4, <4>5 DEF Labelled, Mixed
      <3> QED BY <3>1, <3>2
    <2>4. CASE EnterTime
      <3>1. screen' = ShowTime(screen)
        BY <2>4 DEF EnterTime
      <3>2. screen'.page = "time" /\ ~screen'.current_is_data
        BY <1>0, <3>1 DEF ShowTime, Screens, Shown
      <3> QED BY <2>2, <3>2
    <2>5. Cleared(screen) \in Screens
      <3>1. ShowSpinner(screen, -1) \in Screens
        BY <1>0, ShowTypes
      <3> QED BY <3>1, ShowTypes DEF Cleared
    <2>6. CASE EnterId \/ EnterIp
      <3>1. \/ screen' = ShowPage(Cleared(screen), "id")
            \/ screen' = ShowPage(screen, "id")
            \/ screen' = ShowPage(screen, "ip")
        BY <2>6 DEF EnterId, EnterIp
      <3> QED BY <1>0, <2>1, <2>2, <2>5, <3>1 DEF Pages
    <2> QED BY <2>3, <2>4, <2>6 DEF SwitchState
  <1> QED BY <1>2, <1>4, <1>5 DEF UnitInv, Matched

\* It enters Wi-Fi setup and comes back from it.
LEMMA UnitSetup ==
  ASSUME ScreenInv, UnitInv, EnterWifiSetup \/ SetupReturns
  PROVE  UnitInv'
  <1>0. /\ Phase /\ Asked /\ screen \in Screens
        /\ UNCHANGED <<fb_pressing, counter, ticks, displaying_unit, current_displaying_unit>>
    BY DEF ScreenInv, UnitInv, EnterWifiSetup, SetupReturns, Goto, button, pins, unit
  <1>1. \E page \in {"setup", "wait"}, s \in Screens : screen' = ShowPage(s, page)
    <2>1. CASE EnterWifiSetup
      <3>1. ShowSpinner(screen, -1) \in Screens
        BY <1>0, ShowTypes
      <3>2. Cleared(screen) \in Screens
        BY <3>1, ShowTypes DEF Cleared
      <3>3. ShowBattery(Cleared(screen), Blank) \in Screens
        BY <3>2, ShowTypes
      <3> QED BY <2>1, <3>3 DEF EnterWifiSetup
    <2>2. CASE SetupReturns
      BY <1>0, <2>2 DEF SetupReturns
    <2> QED BY <2>1, <2>2
  <1>2. screen'.page # "data" /\ ~screen'.current_is_data
    BY <1>1 DEF ShowPage, Screens
  <1>3. Labelled' /\ Matched' /\ OddPress'
    BY <1>2 DEF Labelled, Matched, Mixed, OddPress, Odd
  <1>4. state = "WIFI_SETUP" /\ Steady
    BY <1>0 DEF EnterWifiSetup, SetupReturns, Goto, Asked
  <1>5. Phase' /\ Steady'
    BY <1>0, <1>4 DEF Phase, InStep, Steady, Recent
  <1>6. \/ state' = "WIFI_SETUP" /\ pc' = "setup"
        \/ state' = "PM25" /\ pc' = "expire"
    BY <1>4 DEF EnterWifiSetup, SetupReturns, Goto, mode
  <1> QED BY <1>3, <1>5, <1>6 DEF UnitInv, Asked, Pending, Early

\* The loop handles a press that has expired.
LEMMA UnitExpire ==
  ASSUME Phased, ScreenInv, UnitInv, Expire
  PROVE  UnitInv'
  <1> USE DEF Goto, mode, unit, pins, data, button
  <1>0. /\ Phase /\ Asked /\ Pending /\ Labelled /\ OddPress /\ Matched
        /\ Lasting /\ Shown /\ Inv
        /\ displaying_unit \in Units /\ current_displaying_unit \in Units
        /\ current_state \in MenuStates
    BY DEF ScreenInv, UnitInv, Inv, TypeOK, MenuStates
  <1>1. /\ pc \in Expiring /\ pc' \in Expiring \cup {"spin"}
        /\ UNCHANGED <<current_state, current_displaying_unit, counter, ticks,
                       current_display_data, screen>>
    BY DEF Expire, SeeExpiry, ExpiryGuard, ExpiryRelease, ExpiryClass, ExpiryLoad,
           ExpiryStore, ExpiryCool, Expiring
  <1>2. Locked => Steady
    <2>1. /\ PassTicks \in Nat /\ POLL_INTERVAL \in Nat /\ ticks \in Nat
          /\ "FRONT" \in Pins => counter["FRONT"] \in Nat
      BY <1>0, FrontPanelAssumption DEF Inv, TypeOK
    <2> QED BY <2>1 DEF Locked, Steady, Recent
  <1>3. screen.current_is_data => current_state = "PM25"
    BY <1>0, <1>1 DEF Shown, Page, MenuStates, States, DataStates
  <1>4. ~Mixed /\ Matched'
    BY <1>0, <1>1 DEF Matched, Mixed
  \* a label that is not that of the unit last drawn
  <1>5. Odd => displaying_unit # current_displaying_unit /\ Steady
    <2> SUFFICES ASSUME Odd PROVE displaying_unit # current_displaying_unit /\ Steady
      OBVIOUS
    <2>1. displaying_unit # current_displaying_unit
      BY <1>0 DEF Labelled, Odd
    <2>2. current_state = "PM25"
      BY <1>3 DEF Odd
    <2>3. Steady
      BY <1>0, <1>1, <1>2, <2>1, <2>2 DEF Pending, Lasting, Asked, Expiring
    <2> QED BY <2>1, <2>3
  <1>6. CASE SeeExpiry \/ ExpiryGuard \/ ExpiryClass \/ ExpiryLoad \/ ExpiryCool
    <2>1. UNCHANGED <<state, displaying_unit, fb_pressing>>
      BY <1>6 DEF SeeExpiry, ExpiryGuard, ExpiryClass, ExpiryLoad, ExpiryCool
    <2>2. /\ Phase' /\ Labelled'
          /\ Steady' <=> Steady
          /\ Locked' <=> Locked
          /\ Odd' <=> Odd
          /\ Recent(POLL_INTERVAL - PassTicks)' <=> Recent(POLL_INTERVAL - PassTicks)
      BY <1>1, <2>1, UnitFrame
    <2>3. Asked' /\ Pending'
      BY <1>0, <1>1, <2>1, <2>2 DEF Asked, Pending, Expiring, Early
    <2>4. OddPress'
      <3> SUFFICES ASSUME Odd PROVE OddPress'
        BY <2>2 DEF OddPress
      <3>1. CASE SeeExpiry
        <4>1. \/ fb_pressing = 1 /\ fb_timer = 0 /\ fb_timer' = fb_timer /\ pc' = "guard"
              \/ pc' = "spin"
          BY <3>1 DEF SeeExpiry
        <4> QED BY <1>5, <2>2, <4>1 DEF OddPress, Steady
      <3>2. CASE ExpiryGuard
        <4>1. pc = "guard" /\ pc' \in {"release", "spin"} /\ fb_timer' = fb_timer
          BY <3>2 DEF ExpiryGuard
        <4> QED BY <1>0, <2>2, <4>1 DEF OddPress
      <3>3. CASE ExpiryClass
        <4>1. /\ pc = "class" /\ fb_timer' = fb_timer
              /\ pc' = "long" \/ (fb_timer > 0 /\ pc' = "short")
          BY <3>3 DEF ExpiryClass
        <4>2. fb_timer = 0 /\ Recent(POLL_INTERVAL - PassTicks)
          BY <1>0, <4>1 DEF OddPress
        <4> QED BY <2>2, <4>1, <4>2 DEF OddPress
      <3>4. CASE ExpiryLoad
        <4>1. pc' = "store" /\ (pc = "short" \/ store' = LongPress(state))
          BY <3>4 DEF ExpiryLoad
        <4>2. "unit" \notin DOMAIN LongPress(state)
          BY DEF LongPress, Nothing, DataStates
        <4> QED BY <1>0, <4>1, <4>2 DEF OddPress
      <3>5. CASE ExpiryCool
        BY <3>5 DEF ExpiryCool, OddPress
      <3> QED BY <1>6, <3>1, <3>2, <3>3, <3>4, <3>5
    <2> QED BY <1>4, <2>2, <2>3, <2>4 DEF UnitInv
  <1>7. CASE ExpiryRelease
    <2>1. /\ pc = "release" /\ pc' = "class" /\ fb_pressing' = 0
          /\ UNCHANGED <<state, displaying_unit, fb_timer>>
      BY <1>7 DEF ExpiryRelease
    <2>2. Phase' /\ Steady' /\ Locked'
      BY <1>0, <1>1, <2>1 DEF Phase, InStep, Steady, Locked
    <2>3. Asked' /\ Pending' /\ Labelled'
      BY <1>0, <1>1, <2>1, <2>2 DEF Asked, Pending, Labelled
    <2>4. OddPress'
      BY <1>0, <1>1, <2>1 DEF OddPress, Odd, Recent
    <2> QED BY <1>4, <2>2, <2>3, <2>4 DEF UnitInv
  <1>8. CASE ExpiryStore
    <2>1. /\ pc = "store" /\ pc' = "cool"
          /\ displaying_unit' = Assigned(store, "unit", displaying_unit)
          /\ UNCHANGED fb_pressing
      BY <1>8 DEF ExpiryStore
    <2>2. Phase' /\ Steady' /\ Locked'
      BY <1>0, <1>1, <1>2, <2>1 DEF Phase, InStep, Steady, Locked, Recent, Lasting
    <2>3. Asked' /\ Pending' /\ OddPress'
      BY <2>1, <2>2 DEF Asked, Pending, OddPress
    <2>4. Labelled'
      <3> SUFFICES ASSUME screen.current_is_data, displaying_unit' = current_displaying_unit
                   PROVE  screen.label = displaying_unit'
        BY <1>0, <1>1, <1>3 DEF Labelled
      <3>1. CASE screen.label = current_displaying_unit
        BY <3>1
      <3>2. CASE screen.label # current_displaying_unit
        <4>1. Odd
          BY <3>2 DEF Odd
        <4>2. displaying_unit' = displaying_unit
          BY <1>0, <2>1, <4>1 DEF OddPress, Assigned
        <4> QED BY <1>5, <4>1, <4>2
      <3> QED BY <3>1, <3>2
    <2> QED BY <1>4, <2>2, <2>3, <2>4 DEF UnitInv
  <1> QED BY <1>6, <1>7, <1>8 DEF Expire

\* ... and so does the main loop.
LEMMA UnitMain ==
  ASSUME Phased, ScreenInv, UnitInv, Main, ~LabelTakenBack
  PROVE  UnitInv'
  <1> USE DEF Goto, mode, unit, pins, data, button
  <1>0. /\ Phase /\ Asked /\ Pending /\ Labelled /\ OddPress /\ Matched
        /\ Lasting /\ Shown
        /\ displaying_unit \in Units /\ current_displaying_unit \in Units
        /\ current_state \in MenuStates /\ screen \in Screens
        /\ current_display_data \in Int
    BY DEF ScreenInv, UnitInv, Inv, TypeOK, MenuStates, Phased, Calibrated
  <1>1. CASE SwitchState \/ EnterWifiSetup
    BY <1>1, UnitSwitch, UnitSetup
  <1>2. CASE Expire
    BY <1>2, UnitExpire
  \* the sections before and after, which leave the data page alone
  <1>3. ASSUME UNCHANGED <<state, current_state, displaying_unit, current_displaying_unit,
                           fb_pressing, counter, ticks, current_display_data>>,
               screen'.page = screen.page, screen'.label = screen.label,
               screen'.value = screen.value,
               screen'.current_is_data = screen.current_is_data,
               pc' \notin (Expiring \ {"expire"}) \cup {"setup"},
               pc' \in {"stop", "case"} \/ pc \notin Early \/ state = current_state,
               pc' \in {"stop", "case"} =>
                 state # current_state /\ (state = "WIFI_SETUP" \/ Steady),
               pc' = "ensure" => state # "PM25" \/ displaying_unit = current_displaying_unit,
               pc' = "pause" => pc = "ensure",
               pc' = "expire" => state = current_state /\ pc = "top",
               pc = "send" => pc' = "unit",
               pc = "unit" => pc' \in {"change_unit", "ensure"},
               pc # "change_unit"
        PROVE  UnitInv'
    <2>1. /\ Phase' /\ Labelled'
          /\ Steady' <=> Steady
          /\ Locked' <=> Locked
          /\ Mixed' <=> Mixed
      BY <1>3, UnitFrame
    <2>2. Asked'
      BY <1>0, <1>3, <2>1 DEF Asked, Early, MenuStates
    <2>3. Pending'
      BY <1>0, <1>3, <2>1 DEF Pending
    <2>4. OddPress'
      BY <1>3 DEF OddPress, Expiring
    <2>5. Matched'
      BY <1>0, <1>3, <2>1 DEF Matched, Expiring
    <2> QED BY <2>1, <2>2, <2>3, <2>4, <2>5 DEF UnitInv
  <1> USE DEF Early, Expiring
  <1>4. CASE SeeState
    <2>1. /\ pc = "top"
          /\ \/ pc' = "stop" /\ state # current_state
             \/ pc' = "expire" /\ state = current_state
          /\ UNCHANGED <<state, current_state, displaying_unit, current_displaying_unit,
                         fb_pressing, counter, ticks, current_display_data, screen>>
      BY <1>4 DEF SeeState
    <2>2. state # current_state => state = "WIFI_SETUP" \/ Steady
      BY <1>0, <2>1 DEF Lasting, Steady
    <2> QED BY <1>3, <2>1, <2>2
  <1>5. CASE StopForSwitch
    <2>1. /\ pc = "stop" /\ pc' = "case"
          /\ UNCHANGED <<state, current_state, displaying_unit, current_displaying_unit,
                         fb_pressing, counter, ticks, current_display_data, screen>>
      BY <1>5 DEF StopForSwitch
    <2> QED BY <1>0, <1>3, <2>1 DEF Asked
  <1>6. CASE SeeSpinner \/ SeeBattery \/ RecordBattery \/ SeeNewData \/ SeePm25
    <2>1. /\ pc \in {"spin", "spin_time", "frame", "battery", "record_battery", "new_data",
                     "data_time", "pending", "show_data"}
          /\ pc' \in {"spin_time", "frame", "draw_spin", "battery", "draw_battery", "new_data",
                      "data_time", "pending", "take", "unit", "draw_data", "send"}
          /\ UNCHANGED <<state, current_state, displaying_unit, current_displaying_unit,
                         fb_pressing, counter, ticks, current_display_data, screen>>
      BY <1>6 DEF SeeSpinner, SeeBattery, RecordBattery, SeeNewData, SeePm25, SeePm25Then,
                  SeeTimeThen
    <2> QED BY <1>3, <2>1
  <1>7. CASE DrawSpinner \/ DrawBattery \/ SendData
    <2>1. /\ \/ pc = "draw_spin" /\ pc' = "battery"
             \/ /\ pc \in {"draw_battery", "draw_full", "draw_low"}
                /\ pc' \in {"draw_full", "draw_low", "record_battery"}
             \/ pc = "send" /\ pc' = "unit"
          /\ UNCHANGED <<state, current_state, displaying_unit, current_displaying_unit,
                         fb_pressing, counter, ticks, current_display_data>>
      BY <1>7 DEF DrawSpinner, DrawBattery, DrawBatteryIf, SendData
    <2>2. \/ screen' = screen
          \/ \E frame : screen' = ShowSpinner(screen, frame)
          \/ \E icon : screen' = ShowBattery(screen, icon)
          \/ \E conn : screen' = ShowNet(screen, conn)
      BY <1>7 DEF DrawSpinner, DrawBattery, DrawBatteryIf, SendData
    <2>3. /\ screen'.page = screen.page /\ screen'.label = screen.label
          /\ screen'.value = screen.value
          /\ screen'.current_is_data = screen.current_is_data
      BY <1>0, <2>2 DEF ShowSpinner, ShowBattery, ShowNet, Screens
    <2> QED BY <1>3, <2>1, <2>3
  <1>8. CASE TakeData
    <2>1. /\ pc = "take" /\ pc' = "show_time"
          /\ UNCHANGED <<state, current_state, displaying_unit, current_displaying_unit,
                         fb_pressing, counter, ticks, screen>>
      BY <1>0, <1>8 DEF TakeData
    <2>2. Phase' /\ Asked' /\ Pending'
      BY <1>0, <2>1 DEF Phase, InStep, Asked, Pending, Steady, Locked, Recent
    <2>3. Labelled' /\ OddPress' /\ Matched'
      BY <1>0, <2>1 DEF Labelled, OddPress, Matched, Mixed
    <2> QED BY <2>2, <2>3 DEF UnitInv
  <1>9. CASE ShowInTime
    <2>1. /\ pc = "show_time"
          /\ \/ screen' = ShowTime(screen) /\ pc' = "send"
             \/ screen' = screen /\ pc' = "show_data"
          /\ UNCHANGED <<state, current_state, displaying_unit, current_displaying_unit,
                         fb_pressing, counter, ticks, current_display_data>>
      BY <1>9 DEF ShowInTime
    <2>2. CASE screen' = screen /\ pc' = "show_data"
      BY <1>3, <2>1, <2>2
    <2>3. CASE screen' = ShowTime(screen) /\ pc' = "send"
      <3>1. screen'.page = "time" /\ ~screen'.current_is_data
        BY <1>0, <2>3 DEF ShowTime, Screens, Shown
      <3>2. Phase' /\ Asked' /\ Pending'
        BY <1>0, <2>1, <2>3 DEF Phase, InStep, Asked, Pending, Steady, Locked, Recent
      <3>3. Labelled' /\ OddPress' /\ Matched'
        BY <3>1 DEF Labelled, OddPress, Odd, Matched, Mixed
      <3> QED BY <3>2, <3>3 DEF UnitInv
    <2> QED BY <2>1, <2>2, <2>3
  <1>10. CASE DrawData
    <2> DEFINE value == [reading |-> current_display_data, unit |-> current_displaying_unit]
    <2>1. /\ pc = "draw_data" /\ pc' = "send"
          /\ screen' = ShowData(screen, displaying_unit, value)
          /\ UNCHANGED <<state, current_state, displaying_unit, current_displaying_unit,
                         fb_pressing, counter, ticks, current_display_data>>
      BY <1>10 DEF DrawData
    <2>3. /\ screen'.label = IF screen.current_is_data THEN screen.label ELSE displaying_unit
          /\ screen'.value = value
      BY <1>0, <2>1 DEF ShowData, Screens
    <2>4. screen'.value.unit = current_displaying_unit
      BY <2>3
    <2>5. Labelled'
      BY <1>0, <2>1, <2>3 DEF Labelled
    <2>6. Phase' /\ Asked' /\ Pending' /\ OddPress'
      BY <1>0, <2>1 DEF Phase, InStep, Asked, Pending, OddPress, Steady, Locked, Recent
    <2>7. Matched'
      <3> SUFFICES ASSUME Mixed' PROVE Matched'
        BY DEF Matched
      <3>1. displaying_unit # current_displaying_unit
        BY <1>0, <2>3, <2>4 DEF Mixed, Labelled
      <3>2. state = current_state => state = "PM25"
        BY <1>0, <2>1 DEF Shown
      <3> QED BY <2>1, <2>4, <3>1, <3>2 DEF Matched
    <2> QED BY <2>5, <2>6, <2>7 DEF UnitInv
  <1>11. CASE SeeUnit
    <2>1. /\ pc = "unit"
          /\ \/ pc' = "change_unit"
             \/ pc' = "ensure" /\ (state # "PM25" \/ displaying_unit = current_displaying_unit)
          /\ UNCHANGED <<state, current_state, displaying_unit, current_displaying_unit,
                         fb_pressing, counter, ticks, current_display_data, screen>>
      BY <1>11 DEF SeeUnit
    <2> QED BY <1>3, <2>1
  <1>12. CASE ChangeUnit
    <2> DEFINE value == [reading |-> current_display_data, unit |-> displaying_unit]
    <2>1. /\ pc = "change_unit" /\ pc' = "ensure"
          /\ displaying_unit' = current_displaying_unit'
          /\ UNCHANGED <<state, current_state, fb_pressing, counter, ticks, current_display_data>>
      BY <1>12 DEF ChangeUnit
    <2>2. Phase' /\ Asked' /\ Pending' /\ OddPress'
      BY <1>0, <2>1 DEF Phase, InStep, Asked, Pending, OddPress, Steady, Locked, Recent
    <2>3. Labelled' /\ Matched'
      <3>1. CASE current_display_data > 0
        <4>1. /\ screen' = ShowData(ShowUnit(screen, displaying_unit), displaying_unit, value)
              /\ UNCHANGED displaying_unit
          <5>1. ~(current_display_data <= 0)
            BY <1>0, <3>1
          <5> QED BY <1>12, <5>1 DEF ChangeUnit
        <4>2. ShowUnit(screen, displaying_unit) \in Screens
                /\ ShowUnit(screen, displaying_unit).label = displaying_unit
          BY <1>0 DEF ShowUnit, Screens
        <4>3. screen'.label = displaying_unit /\ screen'.value = value
          BY <4>1, <4>2 DEF ShowData, Screens
        <4>4. screen'.value.unit = screen'.label
          BY <4>3
        <4> QED BY <2>1, <3>1, <4>1, <4>3, <4>4 DEF Labelled, Matched, Mixed
      <3>2. CASE ~(current_display_data > 0)
        <4>1. screen' = screen /\ UNCHANGED current_displaying_unit
          BY <1>12, <3>2 DEF ChangeUnit
        <4>2. screen.page = "data" => screen.label = current_displaying_unit
          BY <1>0, <2>1, <3>2 DEF LabelTakenBack
        <4>3. Labelled'
          BY <1>0, <2>1, <4>1, <4>2 DEF Labelled, Shown
        <4>4. Matched'
          BY <1>0, <2>1, <4>1, <4>2 DEF Matched, Mixed
        <4> QED BY <4>3, <4>4
      <3> QED BY <3>1, <3>2
    <2> QED BY <2>2, <2>3 DEF UnitInv
  <1>13. CASE EnsureTimer
    <2>1. /\ pc = "ensure" /\ pc' = "pause"
          /\ UNCHANGED <<state, current_state, displaying_unit, current_displaying_unit,
                         fb_pressing, counter, ticks, current_display_data, screen>>
      BY <1>13 DEF EnsureTimer
    <2> QED BY <1>3, <2>1
  <1> QED BY <1>1, <1>2, <1>4, <1>5, <1>6, <1>7, <1>8, <1>9, <1>10, <1>11, <1>12, <1>13 DEF Main

(* A wrong label comes from one thing alone, the taking back of a change of unit      *)
(* whose label is already up: whatever the means, and however presses of the two     *)
(* buttons, an expired press, samples and uploads fall into the passes of the loop,  *)
(* if a pass takes at most half a polling interval, no mean is negative and the dead *)
(* time of the back button is a whole number of polls (main.c:617-621, 1150-1151,    *)
(* 1216-1239).                                                                       *)
THEOREM OneWayToAWrongLabel == ASSUME Phased PROVE Spec => LabelStaysRight
  <1>1. Spec => []ScreenInv
    BY ScreenInvariance DEF Phased
  <1>2. Init => UnitInv
    <2> SUFFICES ASSUME Init PROVE UnitInv
      OBVIOUS
    <2>1. Phase
      <3>1. {"FRONT", "BACK"} \subseteq Pins => counter["BACK"] - counter["FRONT"] = 0
        BY DEF Init
      <3>2. 0 \in Multiples
        BY MultipleFacts DEF Phased
      <3> QED BY <3>1, <3>2 DEF Init, Phase, InStep
    <2> QED BY <2>1 DEF Init, EmptyScreen, UnitInv, Asked, Pending, Labelled, OddPress, Odd,
             Matched, Mixed
  <1>3. ScreenInv /\ UnitInv /\ ~LabelTakenBack /\ [Next]_vars => UnitInv'
    <2> SUFFICES ASSUME ScreenInv, UnitInv, ~LabelTakenBack, [Next]_vars PROVE UnitInv'
      OBVIOUS
    <2>1. CASE UNCHANGED vars
      BY <2>1 DEF vars, UnitInv, Phase, InStep, Asked, Pending, Labelled, OddPress, Odd, Matched, Mixed,
                  Steady, Locked, Recent
    <2> QED BY <2>1, UnitTick, UnitMain, UnitSetup DEF Next
  <1>4. UnitInv => LabelMatchesValue
    BY DEF UnitInv, Matched, Mixed, LabelMatchesValue, Settled
  <1> QED BY <1>1, <1>2, <1>3, <1>4, PTL DEF Spec, LabelStaysRight
=============================================================================
