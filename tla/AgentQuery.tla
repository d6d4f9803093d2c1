------------------------------- MODULE AgentQuery -------------------------------
(***************************************************************************)
(* What a call of pkg/clients/agentrpc promises its caller: it returns     *)
(* rows, of some targets and with rows nobody asked for among them, or it  *)
(* fails and returns none.  Which agents are asked, in what order and for  *)
(* how long is in AgentCalls, which is shown to keep this promise;         *)
(* ContractRequests relies on no more.                                     *)
(***************************************************************************)
CONSTANTS
    Targets,  \* what an agent can be asked about
    Rows      \* what an agent can report of a target

VARIABLES
    asked,   \* the targets of the query
    answer,  \* the rows it returned
    outcome  \* how it ended, or that it goes on

queryVars == <<asked, answer, outcome>>

NoRowsYet == [t \in {} |-> t]

Answers == UNION {[known -> Rows] : known \in SUBSET Targets}

QueryTypeOK ==
    /\ asked \subseteq Targets
    /\ answer \in Answers
    /\ outcome \in {"none", "asking", "rows", "error"}

QueryInit ==
    /\ asked = {}
    /\ answer = NoRowsYet
    /\ outcome = "none"

Query(targets) ==
    /\ asked' = targets
    /\ answer' = NoRowsYet
    /\ outcome' = "asking"

QueryAnswers(rows) ==
    /\ outcome = "asking"
    /\ outcome' = "rows"
    /\ answer' = rows
    /\ UNCHANGED asked

QueryFails ==
    /\ outcome = "asking"
    /\ outcome' = "error"
    /\ UNCHANGED <<asked, answer>>

QueryEnds == QueryFails \/ \E rows \in Answers : QueryAnswers(rows)

\* The next query begins when the last one is over.
QueryNext ==
    \/ outcome # "asking" /\ \E targets \in SUBSET Targets : Query(targets)
    \/ QueryEnds

QuerySpec == QueryInit /\ [][QueryNext]_queryVars
================================================================================
