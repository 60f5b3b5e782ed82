----------------------------- MODULE MCFrontPanel -----------------------------
(* FrontPanel for model checking, with a history variable for the refinement   *)
(* of PanelMode.                                                               *)
EXTENDS FrontPanel

VARIABLE cooldown       \* counts down from each mode change by the front button

ModeOf(s) ==
    IF s \in DataStates THEN s
    ELSE IF s = "WIFI_SETUP" THEN "wifi"
    ELSE "menu"

\* The front button changed the mode in this step; after a request for setup is
\* polled in the same tick the way to wifi leads through a data mode.
FrontChange ==
    /\ ModeOf(state') # ModeOf(state)
    /\ pc # "setup"
    /\ ~(state \in DataStates /\ state' = "WIFI_SETUP")

\* The step is a tick.
Ticking == pc = "pause" \/ ticks' # ticks

History ==
    cooldown' =
      IF FrontChange THEN FB_TIMER_CD
      ELSE IF Ticking /\ cooldown > 0 THEN cooldown - 1
      ELSE cooldown

MCInit == Init /\ cooldown = 0

MCNext == Next /\ History

\* The fairness of FairSpec; cooldown only watches.
MCSpec == MCInit /\ [][MCNext]_<<vars, cooldown>> /\ WF_vars(Main) /\ WF_vars(Tick)

Mode == INSTANCE PanelMode WITH mode <- ModeOf(state)

(* What Sampler.tla assumes of the panel: a tick changes the mode by the front *)
(* button only when FB_TIMER_CD ticks have gone since its last change, although *)
(* tick and main loop both run its handler (main.c:219-293, 1049-1053), the     *)
(* loop as Expiry says; a Wi-Fi request only comes from a data mode and ends in *)
(* PM25.                                                                      *)
ImplementsPanelMode ==
    /\ Mode!ModeInit
    /\ [][IF Ticking THEN Mode!Poll ELSE Mode!Expiry \/ Mode!SetupDone]_<<ModeOf(state),
                                                                        cooldown>>
=============================================================================
