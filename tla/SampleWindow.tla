---------------------------- MODULE SampleWindow ----------------------------
(* What the particle-counting part of the device promises, free of ring     *)
(* buffers, flags and interrupts: samples arrive one by one, each is taken   *)
(* into account exactly once, and the value that is published is the mean of *)
(* the DATA_AVE_NUMBER most recent samples, the newest one included.         *)
(* Sampler.tla is shown to implement this module.                            *)
EXTENDS Integers, Sequences

CONSTANTS
    SENSOR_CALC_INTERVAL,   \* readings per sample; a sample is the number of low ones
    DATA_AVE_NUMBER         \* samples the published value averages

VARIABLES
    recent,     \* the samples of the averaging window, oldest first
    fresh,      \* the newest sample of the window is not published yet
    average     \* the published mean as <<sum, number>>, or NoData

vars == <<recent, fresh, average>>

Samples == 0..SENSOR_CALC_INTERVAL
NoData == <<0, 0>>

\* The last DATA_AVE_NUMBER elements of a sequence, all of a shorter one.
Window(s) ==
    IF Len(s) > DATA_AVE_NUMBER
    THEN SubSeq(s, Len(s) - DATA_AVE_NUMBER + 1, Len(s))
    ELSE s

Total(s) ==
    LET sum[n \in 0..Len(s)] == IF n = 0 THEN 0 ELSE sum[n - 1] + s[n]
    IN  sum[Len(s)]

Mean(s) == <<Total(s), Len(s)>>

Init ==
    /\ recent = <<>>
    /\ fresh = FALSE
    /\ average = NoData

\* A sample is completed; the one before it has been published already.
Produce ==
    /\ ~fresh
    /\ \E s \in Samples : recent' = Window(Append(recent, s))
    /\ fresh' = TRUE
    /\ UNCHANGED average

\* The mean of the window is published.
Publish ==
    /\ fresh
    /\ fresh' = FALSE
    /\ average' = Mean(recent)
    /\ UNCHANGED recent

\* The published value is withdrawn when the device shows something else.
Withdraw ==
    /\ average' = NoData
    /\ UNCHANGED <<recent, fresh>>

Next == Produce \/ Publish \/ Withdraw

Spec == Init /\ [][Next]_vars
=============================================================================
