------------------------------- MODULE Sampler -------------------------------
(* The particle sensor's path through the main program: the SIGALRM handler  *)
(* counts sensor readings, completes a sample every SENSOR_CALC_INTERVAL of   *)
(* them and hands it over through *new_data_ptr and the flag new_data; the    *)
(* main loop takes the sample into a ring of DATA_AVE_NUMBER and publishes    *)
(* the mean.  The two share every variable without a lock: the handler may    *)
(* interrupt the loop between any two of its statements.                      *)
(*                                                                            *)
(* The front panel is reduced to what the sampler sees of it, PanelMode.       *)
EXTENDS PanelMode

CONSTANTS
    SENSOR_CALC_INTERVAL,   \* readings per sample (main.h: 60000)
    DATA_AVE_NUMBER,        \* slots of the ring (main.h: 10)
    PassTicks,              \* most ticks that interrupt one pass of the main loop
    MaxLow                  \* most low readings per sample the model tells apart

(* The timing the hand-over relies on.  Nothing in the code enforces it: a   *)
(* pass runs with the timer stopped whenever it does something slow, so the  *)
(* ticks that do interrupt it are few against 60000 and 1000.                *)
ASSUME SamplerAssumption ==
    /\ SENSOR_CALC_INTERVAL \in Nat
    /\ DATA_AVE_NUMBER \in Nat \ {0}
    /\ FB_TIMER_CD \in Nat
    /\ PassTicks \in Nat
    /\ MaxLow \in Nat
    /\ SENSOR_CALC_INTERVAL > 4 * PassTicks + 3
    /\ FB_TIMER_CD > 2 * PassTicks + 1

VARIABLES
    current_mode,           \* class of `current_state`: the mode the loop last acted on
    count, sensor_low,      \* readings of the running sample, and the low ones
    new_data,               \* a sample was completed and not taken
    new_data_ptr,           \* index in sensor_data where the next sample goes
    sensor_data,            \* the ring; index DATA_AVE_NUMBER is one past its end
    current_data_number,    \* slots of the ring that hold samples
    i, raw,                 \* the averaging loop: next slot, sum so far
    current_display_data,   \* the published mean <<sum, number>>, NoData for -1
    pc,                     \* the statement the main loop is at
    ticks                   \* ticks that have interrupted this pass

sensing == <<count, sensor_low>>
ring == <<new_data_ptr, sensor_data, current_data_number>>
panel == <<mode, current_mode, cooldown>>
vars == <<mode, current_mode, cooldown, count, sensor_low, new_data,
          new_data_ptr, sensor_data, current_data_number, i, raw,
          current_display_data, pc, ticks>>

Early == {"top", "case", "fb", "check", "time", "pending"}
Taking == {"take", "bump", "wrap", "sum", "publish"}
Late == {"rest", "pause"}

NoData == <<0, 0>>

Init ==
    /\ ModeInit
    /\ current_mode = "PM25"
    /\ count = 0 /\ sensor_low = 0
    /\ new_data = 0
    /\ new_data_ptr = 0
    /\ sensor_data = [k \in 0..DATA_AVE_NUMBER |-> 0]
    /\ current_data_number = 0
    /\ i = 0 /\ raw = 0
    /\ current_display_data = NoData
    /\ pc = "top"
    /\ ticks = 0
-----------------------------------------------------------------------------
(* The SIGALRM handler: one atomic action.                                    *)

\* One sensor reading; the last one of a sample stores it where new_data_ptr
\* points, whatever the main loop is doing with that pointer.
Sense ==
    \/ /\ mode \notin DataModes
       /\ UNCHANGED <<count, sensor_low, new_data, sensor_data>>
    \/ /\ mode \in DataModes
       /\ \E low \in 0..1 :
            /\ sensor_low + low <= MaxLow
            /\ \/ /\ count + 1 < SENSOR_CALC_INTERVAL
                  /\ count' = count + 1
                  /\ sensor_low' = sensor_low + low
                  /\ UNCHANGED <<new_data, sensor_data>>
               \/ /\ count + 1 >= SENSOR_CALC_INTERVAL
                  /\ count' = 0
                  /\ sensor_low' = 0
                  /\ sensor_data' =
                       [sensor_data EXCEPT ![new_data_ptr] = sensor_low + low]
                  /\ new_data' = 1

\* A tick interrupts the pass, or wakes the main loop out of pause().
Tick ==
    /\ Sense
    /\ Poll
    /\ \/ pc = "pause" /\ pc' = "top" /\ ticks' = 0
       \/ pc # "pause" /\ ticks < PassTicks /\ ticks' = ticks + 1 /\ UNCHANGED pc
    /\ UNCHANGED <<current_mode, new_data_ptr, current_data_number, i, raw,
                   current_display_data>>
-----------------------------------------------------------------------------
(* The main loop, statement by statement.                                     *)

Goto(from, to) == pc = from /\ pc' = to /\ UNCHANGED ticks

SeeState ==
    /\ \/ current_mode # mode /\ Goto("top", "case")
       \/ current_mode = mode /\ Goto("top", "fb")
    /\ UNCHANGED <<panel, sensing, new_data, ring, i, raw, current_display_data>>

\* Mutants: one of the two counters is forgotten.
ClearData_KeepsCount ==
    /\ UNCHANGED sensing
    /\ current_display_data' = NoData

ClearData_KeepsLow ==
    /\ count' = 0
    /\ UNCHANGED sensor_low
    /\ current_display_data' = NoData

ClearData ==
    /\ count' = 0
    /\ sensor_low' = 0
    /\ current_display_data' = NoData

\* The switch over the states, with the timer stopped.  Wi-Fi setup ends in
\* STATE_PM25; STATE_ID entered from a data mode clears the data, STATE_IP does
\* not.
SwitchState ==
    /\ Goto("case", "fb")
    /\ \/ SetupDone /\ ClearData
       \/ /\ mode = "menu" /\ current_mode \in DataModes
          /\ ClearData
          /\ UNCHANGED <<mode, cooldown>>
       \/ /\ mode # "wifi"
          /\ UNCHANGED <<mode, cooldown, count, sensor_low, current_display_data>>
    /\ current_mode' = mode'
    /\ UNCHANGED <<new_data, ring, i, raw>>

\* if(fb_pressing&&!fb_timer): a long press may have expired.
ExpireButton ==
    /\ Goto("fb", "check")
    /\ Expiry \/ UNCHANGED <<mode, cooldown>>
    /\ UNCHANGED <<current_mode, sensing, new_data, ring, i, raw,
                   current_display_data>>

\* if((state==STATE_PM25||state==STATE_TIME)&&new_data): three reads.  The mode
\* may turn from TIME to PM25 between the first two, which skips the section.
CheckPm25 ==
    /\ \/ mode = "PM25" /\ Goto("check", "pending")
       \/ mode # "PM25" /\ Goto("check", "time")
    /\ UNCHANGED <<panel, sensing, new_data, ring, i, raw, current_display_data>>

CheckTime ==
    /\ \/ mode = "TIME" /\ Goto("time", "pending")
       \/ mode # "TIME" /\ Goto("time", "rest")
    /\ UNCHANGED <<panel, sensing, new_data, ring, i, raw, current_display_data>>

CheckNewData ==
    /\ \/ new_data = 1 /\ Goto("pending", "take")
       \/ new_data = 0 /\ Goto("pending", "rest")
    /\ UNCHANGED <<panel, sensing, new_data, ring, i, raw, current_display_data>>

TakeData ==
    /\ Goto("take", "bump")
    /\ new_data' = 0
    /\ UNCHANGED <<panel, sensing, ring, i, raw, current_display_data>>

BumpPointer ==
    /\ Goto("bump", "wrap")
    /\ current_data_number' = IF current_data_number < DATA_AVE_NUMBER
                              THEN current_data_number + 1
                              ELSE current_data_number
    /\ new_data_ptr' = new_data_ptr + 1
    /\ UNCHANGED <<panel, sensing, new_data, sensor_data, i, raw,
                   current_display_data>>

\* Mutant: the pointer wraps one slot too late.
WrapPointer_Late ==
    /\ Goto("wrap", "sum")
    /\ new_data_ptr' = IF new_data_ptr > DATA_AVE_NUMBER THEN 0 ELSE new_data_ptr
    /\ i' = 0
    /\ raw' = 0
    /\ UNCHANGED <<panel, sensing, new_data, sensor_data, current_data_number,
                   current_display_data>>

WrapPointer ==
    /\ Goto("wrap", "sum")
    /\ new_data_ptr' = IF new_data_ptr >= DATA_AVE_NUMBER THEN 0 ELSE new_data_ptr
    /\ i' = 0
    /\ raw' = 0
    /\ UNCHANGED <<panel, sensing, new_data, sensor_data, current_data_number,
                   current_display_data>>

AddSample ==
    /\ \/ /\ i < current_data_number
          /\ Goto("sum", "sum")
          /\ raw' = raw + sensor_data[i]
          /\ i' = i + 1
       \/ /\ i >= current_data_number
          /\ Goto("sum", "publish")
          /\ UNCHANGED <<i, raw>>
    /\ UNCHANGED <<panel, sensing, new_data, ring, current_display_data>>

\* raw/current_data_number; the calibration is a fixed linear map of it.
PublishMean ==
    /\ Goto("publish", "rest")
    /\ current_display_data' = <<raw, current_data_number>>
    /\ UNCHANGED <<panel, sensing, new_data, ring, i, raw>>

\* Mutant: the flag is cleared when the pass ends.
EndPass_ClearsFlag ==
    /\ Goto("rest", "pause")
    /\ new_data' = 0
    /\ UNCHANGED <<panel, sensing, ring, i, raw, current_display_data>>

EndPass ==
    /\ Goto("rest", "pause")
    /\ UNCHANGED <<panel, sensing, new_data, ring, i, raw, current_display_data>>

Main ==
    \/ SeeState \/ SwitchState \/ ExpireButton
    \/ CheckPm25 \/ CheckTime \/ CheckNewData \/ TakeData
    \/ BumpPointer \/ WrapPointer \/ AddSample \/ PublishMean
    \/ EndPass

Next == Tick \/ Main

Spec == Init /\ [][Next]_vars

\* The process is scheduled and the interval timer keeps firing.
FairSpec == Spec /\ WF_vars(Main) /\ WF_vars(Tick)
-----------------------------------------------------------------------------
(* Type correctness.  The ring holds fractions of SENSOR_CALC_INTERVAL: it    *)
(* rests on sensor_low never exceeding count, so on every place that resets   *)
(* one of the two resetting both (handler and SwitchState).                   *)
TypeOK ==
    /\ mode \in Modes
    /\ current_mode \in Modes \ {"wifi"}
    /\ cooldown \in 0..FB_TIMER_CD
    /\ count \in Nat /\ count < SENSOR_CALC_INTERVAL
    /\ sensor_low \in 0..count
    /\ new_data \in {0, 1}
    /\ new_data_ptr \in 0..DATA_AVE_NUMBER
    /\ new_data_ptr = DATA_AVE_NUMBER => pc = "wrap"
    /\ sensor_data \in [0..DATA_AVE_NUMBER -> 0..SENSOR_CALC_INTERVAL]
    /\ current_data_number \in 0..DATA_AVE_NUMBER
    /\ i \in 0..DATA_AVE_NUMBER
    /\ raw \in Nat
    /\ current_display_data \in Nat \X (0..DATA_AVE_NUMBER)
    /\ pc \in Early \cup Taking \cup Late
    /\ ticks \in 0..PassTicks

(* How long a sample can have been pending: ticks since the mode was last     *)
(* tested, at most.  Before the test of new_data the ticks of the pass before *)
(* count too, and the one that ended its pause().                             *)
Elapsed == IF pc \in Late THEN ticks ELSE PassTicks + 1 + ticks

\* Left the data modes with a sample pending: the count stands still below this.
MenuBound == mode = "menu" /\ new_data = 1 => count <= 2 * PassTicks + 1

\* A Wi-Fi request waits for SwitchState, where it resets the count.
WifiBound == mode = "wifi" /\ new_data = 1 => count <= 4 * PassTicks + 2

\* The loop is on the way to its test of new_data, in a data mode or with a
\* Wi-Fi request that ExpireButton may still undo.
Heading == mode \in DataModes \/ (mode = "wifi" /\ pc \notin Late \cup {"top", "case"})

\* The count grows with Elapsed, from 0 or, the mode having come back from a menu
\* that did not clear it, from MenuBound; then the front button is still dead.
DataBound ==
    Heading /\ new_data = 1 =>
        /\ count <= Elapsed + 2 * PassTicks + 1
        /\ count > Elapsed => cooldown + Elapsed >= FB_TIMER_CD

\* The mode turned to PM25 after the test for it: the section is skipped though a
\* sample be pending.  A use of the front button did it, so the button is dead.
SkipBound ==
    pc = "time" /\ mode = "PM25" =>
        /\ cooldown + ticks >= FB_TIMER_CD
        /\ new_data = 1 => count <= 2 * PassTicks + 1 + ticks

TakingBound ==
    /\ pc \in Taking => count <= Elapsed + 2 * PassTicks + 1
    /\ pc = "take" => new_data = 1
    /\ pc \in Taking \ {"take"} => new_data = 0

(* While a sample is pending or being taken the next one is far from          *)
(* complete, through every way the two buttons can take the device out of the *)
(* data modes and back before main.c:1095-1106 sees the sample.               *)
PendingIsYoung == MenuBound /\ WifiBound /\ DataBound /\ SkipBound /\ TakingBound

\* A step of the handler that completes a sample: outside SwitchState, which
\* acts in other modes, nothing else makes count smaller.
Completes == mode \in DataModes /\ count' < count

(* A completed sample never lands on one that is still pending, nor in the    *)
(* ring while the main loop moves the pointer over its end or sums the slots: *)
(* between ++new_data_ptr and the wrap (main.c:1117-1121) the pointer may be   *)
(* one past the array, and the sum (1124-1127) reads the slot it comes to.    *)
HandOver == [][Completes => new_data = 0 /\ pc \notin Taking]_vars

(* As long as the device stays in a data mode, published means keep coming:   *)
(* no sample is forgotten for good between the flag and the loop's test of it *)
(* (main.c:1095-1106).                                                        *)
KeepsPublishing == <>[](mode \in DataModes) => []<>(pc = "publish")
=============================================================================
