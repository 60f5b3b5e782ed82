------------------------------ MODULE MCSampler ------------------------------
(* Sampler for model checking, and the refinement of SampleWindow.           *)
EXTENDS Sampler

\* The slot of the pending sample is part of the window from the moment the
\* handler fills it, although pointer and number are moved by the loop later.
NotBumped == new_data = 1 \/ pc = "bump"

Newest == IF NotBumped THEN new_data_ptr ELSE new_data_ptr - 1

Number ==
    IF NotBumped /\ current_data_number < DATA_AVE_NUMBER
    THEN current_data_number + 1
    ELSE current_data_number

\* The ring read backwards from the newest sample, wrapping around.
Slot(k) ==
    IF Newest - Number + k < 0
    THEN Newest - Number + k + DATA_AVE_NUMBER
    ELSE Newest - Number + k

Recent == [k \in 1..Number |-> sensor_data[Slot(k)]]

Window == INSTANCE SampleWindow WITH
    recent <- Recent,
    fresh <- new_data = 1 \/ pc \in Taking,
    average <- current_display_data

(* The ring, its pointer and its flag implement the sliding window: what is   *)
(* displayed is at any time the mean of the last DATA_AVE_NUMBER samples that *)
(* were completed before it was computed, whatever the handler interrupts.   *)
ImplementsSampleWindow == Window!Spec
=============================================================================
