--------------------------- MODULE RequestLifecycle ---------------------------
(***************************************************************************)
(* What InferenceQueue.kt promises of a request, whatever its priority: it *)
(* is accepted or refused once; while it is pending the user may withdraw  *)
(* it; it is run at most once, one request at a time; and a request that   *)
(* was withdrawn or has finished never comes back.                         *)
(***************************************************************************)
CONSTANT Requests

VARIABLE status

Statuses == {"new", "refused", "pending", "withdrawn", "running", "finished"}

Move(S, to) == status' = [r \in Requests |-> IF r \in S THEN to ELSE status[r]]

Init == status = [r \in Requests |-> "new"]

Accept(r) == status[r] = "new" /\ Move({r}, "pending")

Refuse(r) == status[r] = "new" /\ Move({r}, "refused")

Withdraw(S) ==
    /\ \A r \in S : status[r] = "pending"
    /\ Move(S, "withdrawn")

Run(r) ==
    /\ status[r] = "pending"
    /\ \A s \in Requests : status[s] # "running"
    /\ Move({r}, "running")

Finish(r) == status[r] = "running" /\ Move({r}, "finished")

Next ==
    \/ \E r \in Requests : Accept(r) \/ Refuse(r) \/ Run(r) \/ Finish(r)
    \/ \E S \in SUBSET Requests : Withdraw(S)

Spec == Init /\ [][Next]_status
=============================================================================
