------------------------------ MODULE MCUpload ------------------------------
(* Readings for the model checker: the mean of a sensor almost at rest and one   *)
(* that a printed number has to round, with a thermometer and without.          *)
EXTENDS Upload

MCTemperatures == {TEMP_NO_DEVICE, -3}
=============================================================================
