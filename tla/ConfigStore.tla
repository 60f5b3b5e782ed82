----------------------------- MODULE ConfigStore -----------------------------
(* What the device promises about its configuration: a request changes the keys *)
(* it names, or all of them if it is to replace the configuration; a boot only  *)
(* gives values to keys that have none.  DeviceConfig.tla, with its file, its    *)
(* list and its programs, is shown to implement this module.                    *)
CONSTANTS Keys, Values

VARIABLES
    stored,     \* the value of each key, None if it has none or a blank one
    request     \* the request in progress, or NoRequest

vars == <<stored, request>>

None == ""
NoRequest == [names |-> {}, value |-> [k \in Keys |-> None], keep |-> TRUE]

Requests == [names : SUBSET Keys, value : [Keys -> Values \cup {None}], keep : BOOLEAN]

Init ==
    /\ stored = [k \in Keys |-> None]
    /\ request = NoRequest

Submit ==
    /\ request = NoRequest
    /\ request' \in Requests
    /\ UNCHANGED stored

Apply ==
    /\ stored' = [k \in Keys |->
                    IF k \in request.names THEN request.value[k]
                    ELSE IF request.keep THEN stored[k]
                    ELSE None]
    /\ request' = NoRequest

Boot ==
    /\ request' = NoRequest
    /\ stored' \in [Keys -> Values \cup {None}]
    /\ \A k \in Keys : stored[k] # None => stored'[k] = stored[k]

Next == Submit \/ Apply \/ Boot

Spec == Init /\ [][Next]_vars
=============================================================================
