------------------------------- MODULE CheckRound -------------------------------
(***************************************************************************)
(* What runStorageChecks promises the workers that call it: each of the    *)
(* rows it is given is checked or has failed, or both if the agent says    *)
(* both of it, and the workers are told so in the end.  NotifyQueue relies *)
(* on no more than that.                                                   *)
(***************************************************************************)
CONSTANT Targets

VARIABLES
    round,    \* whether rows are being checked
    picked,   \* the rows of the round
    checked,  \* the rows whose provider has answered
    failed    \* those of the others, and of these, that have failed

vars == <<round, picked, checked, failed>>

Init ==
    /\ round = "done"
    /\ picked = {}
    /\ checked = {}
    /\ failed = {}

Pick(rows) ==
    /\ round = "done"
    /\ round' = "asking"
    /\ picked' = rows
    /\ checked' = {}
    /\ failed' = {}

\* A round that needs no agent is over at once.
DecideAtOnce(rows) ==
    /\ round = "done"
    /\ picked' = rows
    /\ checked' = {}
    /\ failed' = rows
    /\ UNCHANGED round

Decide(answered, refused) ==
    /\ round = "asking"
    /\ answered \cup refused = picked
    /\ round' = "done"
    /\ checked' = answered
    /\ failed' = refused
    /\ UNCHANGED picked

Next ==
    \/ \E rows \in SUBSET Targets : Pick(rows)
    \/ \E rows \in SUBSET Targets : DecideAtOnce(rows)
    \/ \E answered, refused \in SUBSET picked : Decide(answered, refused)

Spec == Init /\ [][Next]_vars

FairSpec == Spec /\ WF_vars(\E answered, refused \in SUBSET picked : Decide(answered, refused))
================================================================================
