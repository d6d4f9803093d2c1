------------------------------- MODULE AgentCalls -------------------------------
(***************************************************************************)
(* One call of pkg/clients/agentrpc: GetStorageRates or RequestStorageInfo *)
(* asks the configured agents in turn about a set of targets, until one    *)
(* answers or none is left.  An attempt ends by the client's own timeout   *)
(* or by the deadline of the caller's context, which all attempts share.   *)
(*                                                                         *)
(* The agents, and the storage providers they ask, are not part of the     *)
(* repository: an agent that is up answers when it has heard from every    *)
(* target or has waited for the timeout it was sent; any other agent may   *)
(* answer, refuse the call, or hang.                                       *)
(***************************************************************************)
EXTENDS Integers, FiniteSets

CONSTANTS
    Targets,         \* what an agent can be asked about
    Rows,            \* what an agent can report of a target
    Silent,          \* of a target the agent has not heard from
    NumAgents,       \* the configured endpoints, asked in this order
    Deadline,        \* of the caller's context
    RequestTimeout,  \* Config.RequestTimeout, for each attempt
    QueryTimeout     \* sent to the agent, for each of its targets

ASSUME AgentsAssumption == NumAgents \in Nat \ {0}
ASSUME DeadlineAssumption == Deadline \in Nat \ {0}
\* AGENT_RPC_TIMEOUT_MS is 30 s by default, the timeouts sent are 7 s and 10 s.
ASSUME TimeoutsAssumption ==
    /\ RequestTimeout \in Nat /\ QueryTimeout \in Nat
    /\ QueryTimeout < RequestTimeout
ASSUME SilentAssumption == Silent \notin Rows

VARIABLES
    asked,    \* the targets of the call
    up,       \* the agents that are up as long as the call lasts
    agent,    \* the agent that is being asked, 0 if none
    elapsed,  \* time since the caller made its context
    since,    \* the value of elapsed when the agent was asked
    heard,    \* what the agent has heard of the targets
    answer,   \* the rows the call returned
    outcome   \* how the call ended

callVars == <<asked, up, agent, elapsed, since, heard, answer, outcome>>

Agents == 1..NumAgents

NobodyHeard(targets) == [t \in targets |-> Silent]

NoAnswer == [t \in {} |-> Silent]

CallTypeOK ==
    /\ asked \subseteq Targets
    /\ up \subseteq Agents
    /\ agent \in {0} \cup Agents
    /\ elapsed \in Nat
    /\ since \in 0..elapsed
    /\ heard \in [asked -> Rows \cup {Silent}]
    /\ DOMAIN answer \subseteq Targets
    /\ \A t \in DOMAIN answer : answer[t] \in Rows
    /\ outcome \in {"none", "rows", "error"}

CallInit ==
    /\ asked = {}
    /\ up = {}
    /\ agent = 0
    /\ elapsed = 0
    /\ since = 0
    /\ heard = NobodyHeard({})
    /\ answer = NoAnswer
    /\ outcome = "none"

\* Mutant of Call: the attempt is timed from the last one of the call before.
CallTimedFromLast(targets) ==
    /\ asked' = targets
    /\ up' \in SUBSET Agents
    /\ agent' = 1
    /\ elapsed' = 0
    /\ since' = since
    /\ heard' = NobodyHeard(targets)
    /\ answer' = NoAnswer
    /\ outcome' = "none"

\* The caller makes its context and the client asks the first agent.
Call(targets) ==
    /\ asked' = targets
    /\ up' \in SUBSET Agents
    /\ agent' = 1
    /\ elapsed' = 0
    /\ since' = 0
    /\ heard' = NobodyHeard(targets)
    /\ answer' = NoAnswer
    /\ outcome' = "none"

\* A storage provider tells the agent about a target.
TargetAnswers(t, row) ==
    /\ agent # 0
    /\ t \in asked
    /\ heard[t] = Silent
    /\ heard' = [heard EXCEPT ![t] = row]
    /\ UNCHANGED <<asked, up, agent, elapsed, since, answer, outcome>>

\* Mutant of Expired: the attempt does not inherit the caller's context.
AttemptExpired == elapsed - since >= RequestTimeout

\* context.WithTimeout(ctx, requestTimeout) of invoke: the earlier deadline.
Expired == elapsed >= Deadline \/ elapsed - since >= RequestTimeout

\* What the agent has to tell: rows it has heard, and rows nobody asked for.
Ready ==
    \/ \A t \in asked : heard[t] # Silent
    \/ elapsed - since >= QueryTimeout

Told(foreign) ==
    LET known == {t \in asked : heard[t] # Silent}
    IN  [t \in known \cup DOMAIN foreign |->
            IF t \in known THEN heard[t] ELSE foreign[t]]

AgentAnswers(foreign) ==
    /\ agent # 0
    /\ ~Expired
    /\ Ready
    /\ answer' = Told(foreign)
    /\ outcome' = "rows"
    /\ agent' = 0
    /\ UNCHANGED <<asked, up, elapsed, since, heard>>

\* Mutant of AskNextAgent: the first error ends the call.
FailAtOnce ==
    /\ agent' = 0
    /\ outcome' = "error"
    /\ since' = elapsed
    /\ heard' = NobodyHeard(asked)
    /\ UNCHANGED <<asked, up, elapsed, answer>>

\* Mutant of AskNextAgent: what the last agent had heard is returned with its error.
FailWithRows ==
    /\ \/ /\ agent < NumAgents
          /\ agent' = agent + 1
          /\ UNCHANGED <<answer, outcome>>
       \/ /\ agent = NumAgents
          /\ agent' = 0
          /\ answer' = Told(NoAnswer)
          /\ outcome' = "error"
    /\ since' = elapsed
    /\ heard' = NobodyHeard(asked)
    /\ UNCHANGED <<asked, up, elapsed>>

\* The loop over the agents; after the last of them its error is returned.
AskNextAgent ==
    /\ \/ /\ agent < NumAgents
          /\ agent' = agent + 1
          /\ UNCHANGED outcome
       \/ /\ agent = NumAgents
          /\ agent' = 0
          /\ outcome' = "error"
    /\ since' = elapsed
    /\ heard' = NobodyHeard(asked)
    /\ UNCHANGED <<asked, up, elapsed, answer>>

AgentRefuses ==
    /\ agent # 0
    /\ agent \notin up
    /\ AskNextAgent

\* Once the caller's deadline has passed, every further attempt ends here at once.
CallExpires ==
    /\ agent # 0
    /\ Expired
    /\ AskNextAgent

\* Time passes while the client waits.  An agent that is up does not let it pass
\* when it could answer.
CallTick ==
    /\ agent # 0
    /\ ~Expired
    /\ ~(agent \in up /\ Ready)
    /\ elapsed' = elapsed + 1
    /\ UNCHANGED <<asked, up, agent, since, heard, answer, outcome>>

ForeignRows == UNION {[s -> Rows] : s \in SUBSET (Targets \ asked)}

CallStep ==
    \/ \E t \in Targets, row \in Rows : TargetAnswers(t, row)
    \/ \E foreign \in ForeignRows : AgentAnswers(foreign)
    \/ AgentRefuses
    \/ CallExpires
    \/ CallTick

--------------------------------------------------------------------------------

\* However many agents hang one after the other, the caller waits no longer than its
\* deadline: the attempts share it.
CallIsBounded == elapsed <= Deadline

\* The failover: a call that some agent could have answered fails only by running
\* out of time, never because another agent refused it or timed out.
AgentInReachIsUsed == outcome = "error" /\ up # {} => elapsed >= Deadline

\* What the callers rely on, whichever agents are up: a call returns the rows of the one
\* agent that answered, or an error and no row at all.
Promise == INSTANCE AgentQuery WITH
    outcome <- IF agent # 0 THEN "asking" ELSE outcome

CallKeepsPromise == Promise!QuerySpec
================================================================================
