----------------------------- MODULE Fulfilment -----------------------------
(***************************************************************************)
(* What a thread of issue-credential or present-proof promises, with no     *)
(* goroutines, stores or messages: one side asks, the other one gives, the   *)
(* first one takes; anyone may call it off until then.                      *)
(***************************************************************************)
VARIABLE phase

Phases == {"open", "asked", "given", "taken", "dropped"}

Init == phase = "open"

Ask  == phase = "open"  /\ phase' = "asked"
Give == phase = "asked" /\ phase' = "given"
Take == phase = "given" /\ phase' = "taken"
Drop == phase \in {"open", "asked", "given"} /\ phase' = "dropped"

Next == Ask \/ Give \/ Take \/ Drop

Spec == Init /\ [][Next]_phase
=============================================================================
