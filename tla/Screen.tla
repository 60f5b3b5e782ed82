-------------------------------- MODULE Screen --------------------------------
(* display() of main.c: what every DISPLAY_TYPE_ call leaves on the panel.     *)
(* The timer is stopped while it draws, so a call is one step for the SIGALRM  *)
(* handler.  A screen is a record of its areas and of the two static flags of   *)
(* display() that decide whether the upper area is redrawn from scratch.        *)
(* Lcd.tla draws these areas picture by picture.                               *)
EXTENDS Integers

Units == {"pcs", "ug"}          \* UNIT_TYPE_PCS, UNIT_TYPE_UG

Pages == {"wait", "setup", "success", "fail", "data", "id", "ip", "time"}

\* What is drawn for a value: which reading, converted to which unit.
NoValue == [reading |-> -1, unit |-> "pcs"]

\* Nothing was drawn there yet, or it was blanked.
Blank == "b"

EmptyScreen ==
    [page |-> "wait", label |-> "pcs", value |-> NoValue,
     current_is_data |-> FALSE, current_is_time |-> FALSE,
     spinner |-> FALSE, battery |-> Blank, net |-> -1]

\* DISPLAY_TYPE_PLEASE_WAIT, _PLEASE_SETUP, _SETUP_SUCC, _SETUP_FAIL, _ID, _IP:
\* the whole upper area.
ShowPage(s, page) ==
    [s EXCEPT !.page = page, !.current_is_data = FALSE, !.current_is_time = FALSE]

\* DISPLAY_TYPE_DATA: background and unit label only if the data page is not up.
ShowData(s, label, value) ==
    [s EXCEPT !.page = IF s.current_is_data THEN @ ELSE "data",
              !.label = IF s.current_is_data THEN @ ELSE label,
              !.value = value,
              !.current_is_data = TRUE,
              !.current_is_time = FALSE]

ShowUnit(s, label) == [s EXCEPT !.label = label]

\* Mutant: the data page is believed to be still up.
ShowTime_KeepsData(s) ==
    [s EXCEPT !.page = IF s.current_is_time THEN @ ELSE "time",
              !.current_is_time = TRUE]

ShowTime(s) ==
    [s EXCEPT !.page = IF s.current_is_time THEN @ ELSE "time",
              !.current_is_data = FALSE,
              !.current_is_time = TRUE]

ShowSpinner(s, frame) == [s EXCEPT !.spinner = frame >= 0]

ShowBattery(s, icon) == [s EXCEPT !.battery = icon]

ShowNet(s, conn) == [s EXCEPT !.net = conn]
=============================================================================
