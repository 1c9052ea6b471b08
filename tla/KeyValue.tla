------------------------------- MODULE KeyValue -------------------------------
(***************************************************************************)
(* What a store with delayed writes promises: one value per key, changed by  *)
(* the writes that were called for and by nothing else; what was flushed     *)
(* survives a restart, and of what was not the first so many writes, or,     *)
(* when a flush had failed and was begun again, some of them for each key.   *)
(***************************************************************************)
EXTENDS Naturals

CONSTANTS Keys, Values, Absent

VARIABLES
    view,       \* the value of each key
    possible,   \* the views there have been since the last flush
    wanted,     \* what the calls in progress have yet to write
    failed      \* how often something has failed

vars == <<view, possible, wanted, failed>>

Init == view = [key \in Keys |-> Absent] /\ possible = {view} /\ wanted = {} /\ failed = 0

Call == /\ wanted' \subseteq [key : Keys, val : Values \cup {Absent}] /\ wanted \subseteq wanted'
        /\ UNCHANGED <<view, possible, failed>>

Write == \E o \in wanted :
            /\ view' = [view EXCEPT ![o.key] = o.val]
            /\ possible' \in {possible \cup {view'}, {view'}}
            /\ wanted' \subseteq wanted
            /\ failed' \in {failed, failed + 1}

Flush == possible' = {view} /\ UNCHANGED <<view, wanted, failed>>

Fail == failed' = failed + 1 /\ UNCHANGED <<view, possible, wanted>>

Restart == /\ \A key \in Keys : \E v \in possible : view'[key] = v[key]
           /\ failed <= 1 => view' \in possible
           /\ possible' = {view'} /\ wanted' = {}
           /\ UNCHANGED failed

Next == Call \/ Write \/ Flush \/ Fail \/ Restart

Spec == Init /\ [][Next]_vars
=============================================================================
