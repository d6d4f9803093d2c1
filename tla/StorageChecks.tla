----------------------------- MODULE StorageChecks -----------------------------
(***************************************************************************)
(* runStorageChecks of pkg/workers/files: the storage requests that        *)
(* TriggerProvidersDownload and DownloadChecker make for a batch of rows,  *)
(* and how the agent's answer is split into checked and failed rows.  A    *)
(* target is the (provider, contract) key of a row.                        *)
(*                                                                         *)
(* The answer is a slice, and may hold several rows of one target: it is   *)
(* kept as what its rows say of each target that it mentions.              *)
(***************************************************************************)
EXTENDS AgentCalls

\* A row that is not OK and one with the status "error" are both bad.
ASSUME ReportsAssumption == Rows = (SUBSET {"ok", "bad"}) \ {{}}

VARIABLES
    round,    \* whether runStorageChecks is running
    picked,   \* its argument
    checked,  \* the two slices it returns
    failed

roundVars == <<round, picked, checked, failed>>

vars == <<callVars, roundVars>>

TypeOK ==
    /\ CallTypeOK
    /\ round \in {"done", "asking"}
    /\ picked \subseteq Targets
    /\ checked \subseteq Targets
    /\ failed \subseteq Targets

Init ==
    /\ CallInit
    /\ round = "done"
    /\ picked = {}
    /\ checked = {}
    /\ failed = {}

\* Rows whose contract address does not parse fail before the agent is asked.
Start(rows, unparsable) ==
    /\ round = "done"
    /\ rows # unparsable
    /\ round' = "asking"
    /\ picked' = rows
    /\ checked' = {}
    /\ failed' = unparsable
    /\ Call(rows \ unparsable)

\* No query is left: the agent is not asked.
StartWithout(rows) ==
    /\ round = "done"
    /\ picked' = rows
    /\ checked' = {}
    /\ failed' = rows
    /\ UNCHANGED <<round, callVars>>

\* Mutant of Good: a row is known by its key before its address is parsed.
GoodIfPicked == {t \in picked \cap DOMAIN answer : "ok" \in answer[t]}

\* Rows of the answer that were not asked for are skipped; whether a target has had a
\* row before makes no difference to the next.
Good == {t \in asked \cap DOMAIN answer : "ok" \in answer[t]}
Bad == {t \in asked \cap DOMAIN answer : "bad" \in answer[t]}

Missing == asked \ DOMAIN answer

\* Mutant of Classify: the rows the answer does not mention are dropped.
ClassifyMentioned ==
    /\ round = "asking"
    /\ outcome = "rows"
    /\ round' = "done"
    /\ checked' = Good
    /\ failed' = failed \cup Bad
    /\ UNCHANGED <<picked, callVars>>

Classify ==
    /\ round = "asking"
    /\ outcome = "rows"
    /\ round' = "done"
    /\ checked' = Good
    /\ failed' = failed \cup Bad \cup Missing
    /\ UNCHANGED <<picked, callVars>>

AskingFails ==
    /\ round = "asking"
    /\ outcome = "error"
    /\ round' = "done"
    /\ failed' = failed \cup asked
    /\ UNCHANGED <<picked, checked, callVars>>

Next ==
    \/ \E rows \in SUBSET Targets : \E unparsable \in SUBSET rows : Start(rows, unparsable)
    \/ \E rows \in SUBSET Targets : StartWithout(rows)
    \/ CallStep /\ UNCHANGED roundVars
    \/ Classify
    \/ AskingFails

Spec == Init /\ [][Next]_vars

\* Contexts end by their deadlines and the goroutine goes on when a call has
\* returned.  No agent has to answer.
Fairness ==
    /\ WF_vars((CallTick \/ CallExpires \/ \E foreign \in ForeignRows : AgentAnswers(foreign))
                  /\ UNCHANGED roundVars)
    /\ WF_vars(Classify \/ AskingFails)

FairSpec == Spec /\ Fairness

--------------------------------------------------------------------------------

\* The failed rows of a round that is under way are not visible to the caller.
Round == INSTANCE CheckRound WITH failed <- IF round = "done" THEN failed ELSE {}

\* worker.go:377-468 every picked row is checked or has failed and no other row is,
\* whichever agents refuse, hang, answer in part or repeat themselves; and every round
\* ends.
IsCheckRound == Round!FairSpec

\* The callers count a row once as checked and once as failed.  It is both only if the
\* agent contradicts itself about it: not because its address was unparsable and the
\* answer mentions it all the same, nor because a row that was answered is then found
\* missing.
BothOnlyIfContradicted ==
    round = "done" =>
        \A t \in checked \cap failed : t \in asked /\ {"ok", "bad"} \subseteq answer[t]
================================================================================
