------------------------------ MODULE PanelMode ------------------------------
(* The front panel as the sampler sees it: the five STATE_ constants of main.h *)
(* fall in four modes, and the front button cannot change the mode again       *)
(* within FB_TIMER_CD ticks.  Sampler.tla extends this module; FrontPanel.tla,  *)
(* which models the buttons, is shown to implement it.                          *)
EXTENDS Integers

CONSTANT FB_TIMER_CD        \* ticks the front button is dead after a use (main.h: 1000)

VARIABLES
    mode,                   \* class of `state`
    cooldown                \* ticks before the front button may change the mode again

DataModes == {"PM25", "TIME"}   \* STATE_PM25, STATE_TIME: the handler samples

Modes == DataModes \cup
         {"menu",               \* STATE_ID, STATE_IP
          "wifi"}               \* STATE_WIFI_SETUP

\* Where a press of the front button leads: a long one from a data mode to the
\* menu and back, a short one from one data mode to the other.
LongPressed(m) == IF m = "menu" THEN "PM25" ELSE "menu"

Pressed(m) == {LongPressed(m)} \cup (IF m = "menu" THEN {} ELSE DataModes \ {m})

ModeInit == mode = "PM25" /\ cooldown = 0

\* Mutant: the front button has no dead time.
Poll_NoDeadTime ==
    \E m \in {mode} \cup Pressed(mode) :
      /\ mode = "wifi" => m = mode
      /\ cooldown' = 0
      /\ \/ mode' = m
         \/ m \in DataModes /\ mode' = "wifi"

\* A tick.  Timers count down, then the buttons are polled, the front one first,
\* whose use starts its dead time; a press of the back one in a data mode asks
\* for Wi-Fi setup.
Poll ==
    LET cd == IF cooldown > 0 THEN cooldown - 1 ELSE 0
        Front == {m \in Pressed(mode) : mode # "wifi" /\ cd = 0}
    IN  \E m \in {mode} \cup Front :
          /\ cooldown' = IF m = mode THEN cd ELSE FB_TIMER_CD
          /\ \/ mode' = m
             \/ m \in DataModes /\ mode' = "wifi"

\* The main loop runs the front button's handler itself when a long press expires
\* with the button held.  It is not protected from the tick: it stores the state
\* it computed from the one it read, over a Wi-Fi request made in between.  A
\* release that the tick polls meanwhile makes a short press of it, dead time or
\* not.
Expiry ==
    /\ \/ cooldown = 0 /\ mode' = LongPressed(mode)
       \/ mode # "menu" /\ mode' \in DataModes \ {mode}
    /\ cooldown' = FB_TIMER_CD

\* Wi-Fi setup, if it ends, ends in STATE_PM25.
SetupDone == mode = "wifi" /\ mode' = "PM25" /\ UNCHANGED cooldown

ModeNext == Poll \/ Expiry \/ SetupDone

ModeSpec == ModeInit /\ [][ModeNext]_<<mode, cooldown>>
=============================================================================
