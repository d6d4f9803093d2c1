-------------------------- MODULE StorageChecksProofs --------------------------
(***************************************************************************)
(* Theorems of StorageChecks, and of the calls it makes, for every number  *)
(* of agents and rows and for all deadlines and timeouts.                  *)
(***************************************************************************)
EXTENDS StorageChecks, TLAPS

--------------------------------------------------------------------------------
(* The call to the agents. *)

\* Time spent on an agent that is up stays within the timeout that was sent to it,
\* so the attempt does not expire unless the caller's deadline has passed; hence an
\* agent that is up is left behind at the deadline only.
PatienceLeft == agent # 0 /\ agent \in up => elapsed - since <= QueryTimeout

LeftBehind ==
    agent # 0 => elapsed >= Deadline \/ \A a \in up : a >= agent

CallRunning == (agent # 0) => (outcome = "none")

CallInv ==
    /\ CallTypeOK
    /\ CallIsBounded
    /\ AgentInReachIsUsed
    /\ PatienceLeft
    /\ LeftBehind
    /\ CallRunning

USE AgentsAssumption, DeadlineAssumption, TimeoutsAssumption, SilentAssumption

\* A call begins with all agents before it and no time spent.
LEMMA CallBegins ==
    ASSUME NEW targets \in SUBSET Targets, Call(targets)
    PROVE  CallInv'
BY DEF Call, CallInv, CallTypeOK, CallIsBounded, AgentInReachIsUsed, PatienceLeft,
       LeftBehind, CallRunning, NobodyHeard, NoAnswer, Agents

\* The next agent is asked, or the call fails, without harm if the caller's deadline
\* has passed or the agent asked last was not up.
LEMMA NextAgentKeeps ==
    ASSUME CallInv, AskNextAgent, agent # 0, elapsed >= Deadline \/ agent \notin up
    PROVE  CallInv'
<1>. USE DEF CallInv, CallTypeOK, Agents
<1>1. UNCHANGED <<asked, up, elapsed, answer>> /\ since' = elapsed
  BY DEF AskNextAgent
<1>2. heard' \in [asked' -> Rows \cup {Silent}]
  BY <1>1 DEF AskNextAgent, NobodyHeard
<1>3. elapsed >= Deadline \/ \A a \in up : a >= agent + 1
  BY DEF LeftBehind
<1>4. CASE agent < NumAgents /\ agent' = agent + 1 /\ UNCHANGED outcome
  BY <1>1, <1>2, <1>3, <1>4
     DEF CallIsBounded, AgentInReachIsUsed, PatienceLeft, LeftBehind, CallRunning
<1>5. CASE agent = NumAgents /\ agent' = 0 /\ outcome' = "error"
  <2>1. elapsed >= Deadline \/ up = {}
    BY <1>3, <1>5
  <2>2. CallTypeOK'
    BY <1>1, <1>2, <1>5
  <2>3. CallIsBounded' /\ AgentInReachIsUsed'
    BY <1>1, <2>1 DEF CallIsBounded, AgentInReachIsUsed
  <2>. QED
    BY <1>5, <2>2, <2>3 DEF PatienceLeft, LeftBehind, CallRunning
<1>. QED  BY <1>4, <1>5 DEF AskNextAgent

\* Every step of a call keeps the invariant.
LEMMA CallStepKeeps == CallInv /\ CallStep => CallInv'
<1>. SUFFICES ASSUME CallInv, CallStep PROVE CallInv'
  OBVIOUS
<1>. USE DEF CallInv, CallTypeOK, Agents
<1>1. ASSUME NEW t \in Targets, NEW row \in Rows, TargetAnswers(t, row) PROVE CallInv'
  BY <1>1 DEF TargetAnswers, CallIsBounded, AgentInReachIsUsed, PatienceLeft, LeftBehind,
              CallRunning
<1>2. ASSUME NEW foreign \in ForeignRows, AgentAnswers(foreign) PROVE CallInv'
  <2>1. DOMAIN foreign \subseteq Targets /\ \A t \in DOMAIN foreign : foreign[t] \in Rows
    BY DEF ForeignRows
  <2>2. DOMAIN answer' \subseteq Targets /\ \A t \in DOMAIN answer' : answer'[t] \in Rows
    BY <1>2, <2>1 DEF AgentAnswers, Told
  <2>. QED
    BY <1>2, <2>2 DEF AgentAnswers, CallIsBounded, AgentInReachIsUsed, PatienceLeft,
                      LeftBehind, CallRunning
<1>3. CASE AgentRefuses
  BY <1>3, NextAgentKeeps DEF AgentRefuses
<1>4. CASE CallExpires
  <2>1. elapsed >= Deadline \/ agent \notin up
    BY <1>4 DEF CallExpires, Expired, PatienceLeft
  <2>. QED  BY <1>4, <2>1, NextAgentKeeps DEF CallExpires
<1>5. CASE CallTick
  <2>1. elapsed' = elapsed + 1 /\ elapsed < Deadline
    BY <1>5 DEF CallTick, Expired
  <2>2. agent \in up => elapsed - since < QueryTimeout
    BY <1>5 DEF CallTick, Ready
  <2>. QED
    BY <1>5, <2>1, <2>2 DEF CallTick, CallIsBounded, AgentInReachIsUsed, PatienceLeft,
                           LeftBehind, CallRunning
<1>. QED  BY <1>1, <1>2, <1>3, <1>4, <1>5 DEF CallStep

\* What happens outside of the call leaves it alone.
LEMMA CallStutters == CallInv /\ UNCHANGED callVars => CallInv'
BY DEF CallInv, CallTypeOK, CallIsBounded, AgentInReachIsUsed, PatienceLeft, LeftBehind,
       CallRunning, callVars

--------------------------------------------------------------------------------
(* The round. *)

\* While the agents are asked, the rows of the round are the ones asked for and the
\* ones that have failed already, and no row is both; when they have answered, a row is
\* both only if it was asked for and they said both.
RoundInProgress ==
    round = "asking" =>
        /\ checked = {}
        /\ asked \subseteq picked
        /\ failed = picked \ asked

\* Agents are asked for a round that is under way.
CalledByRound == agent # 0 => round = "asking"

RoundInv == CallInv /\ TypeOK /\ RoundInProgress /\ CalledByRound /\ BothOnlyIfContradicted

\* The strengthened invariant is inductive.
LEMMA RoundInductive == RoundInv /\ [Next]_vars => RoundInv'
<1>. SUFFICES ASSUME RoundInv, [Next]_vars PROVE RoundInv'
  OBVIOUS
<1>. USE DEF RoundInv, TypeOK, RoundInProgress, CalledByRound, BothOnlyIfContradicted
<1>1. ASSUME NEW rows \in SUBSET Targets, NEW unparsable \in SUBSET rows, Start(rows, unparsable)
      PROVE  RoundInv'
  <2>1. CallInv'
    BY <1>1, CallBegins DEF Start
  <2>. QED  BY <1>1, <2>1 DEF Start, Call, CallInv
<1>2. ASSUME NEW rows \in SUBSET Targets, StartWithout(rows) PROVE RoundInv'
  BY <1>2, CallStutters DEF StartWithout, CallInv, callVars
<1>3. CASE CallStep /\ UNCHANGED roundVars
  <2>1. CallInv'
    BY <1>3, CallStepKeeps
  <2>2. agent # 0 /\ UNCHANGED asked
    BY <1>3 DEF CallStep, TargetAnswers, AgentAnswers, AgentRefuses, CallExpires, CallTick,
                AskNextAgent
  <2>. QED  BY <1>3, <2>1, <2>2 DEF roundVars, CallInv
<1>4. CASE Classify
  <2>1. CallInv'
    BY <1>4, CallStutters DEF Classify
  <2>2. \A t \in checked' \cap failed' : t \in asked /\ {"ok", "bad"} \subseteq answer[t]
    BY <1>4 DEF Classify, Good, Bad, Missing
  <2>3. TypeOK' /\ RoundInProgress' /\ CalledByRound'
    BY <1>4, <2>1 DEF Classify, Good, Bad, Missing, CallInv, CallTypeOK, CallRunning, callVars
  <2>4. UNCHANGED <<asked, answer>>
    BY <1>4 DEF Classify, callVars
  <2>5. BothOnlyIfContradicted'
    BY <2>2, <2>4
  <2>. HIDE DEF TypeOK, RoundInProgress, CalledByRound, BothOnlyIfContradicted
  <2>. QED  BY <2>1, <2>3, <2>5
<1>5. CASE AskingFails
  <2>1. CallInv'
    BY <1>5, CallStutters DEF AskingFails
  <2>. QED  BY <1>5, <2>1 DEF AskingFails, CallInv, CallTypeOK, CallRunning, callVars
<1>6. CASE UNCHANGED vars
  <2>1. CallInv' /\ UNCHANGED <<asked, agent, answer>>
    BY <1>6, CallStutters DEF vars, callVars
  <2>. QED  BY <1>6, <2>1 DEF vars, roundVars, CallInv
<1>. QED  BY <1>1, <1>2, <1>3, <1>4, <1>5, <1>6 DEF Next

\* The strengthened invariant holds of every reachable state.
LEMMA RoundInvariant == Spec => []RoundInv
<1>1. Init => RoundInv
  BY DEF Init, CallInit, RoundInv, CallInv, TypeOK, CallTypeOK, CallIsBounded, Agents,
         AgentInReachIsUsed, PatienceLeft, LeftBehind, CallRunning, RoundInProgress,
         CalledByRound, BothOnlyIfContradicted, NobodyHeard, NoAnswer
<1>. QED  BY <1>1, RoundInductive, PTL DEF Spec

\* The call and the round keep their types.
THEOREM ChecksTypeCorrect == Spec => []TypeOK
BY RoundInvariant, PTL DEF RoundInv

\* No number of agents that hang makes a caller wait longer than its deadline.
THEOREM CallIsBoundedAlways == Spec => []CallIsBounded
<1>1. RoundInv => CallIsBounded
  BY DEF RoundInv, CallInv
<1>. QED  BY <1>1, RoundInvariant, PTL

\* With an agent that is up a call fails at the deadline only: whatever the others do,
\* the loop reaches that agent or the time is over.
THEOREM AgentInReachIsUsedAlways == Spec => []AgentInReachIsUsed
<1>1. RoundInv => AgentInReachIsUsed
  BY DEF RoundInv, CallInv
<1>. QED  BY <1>1, RoundInvariant, PTL

--------------------------------------------------------------------------------
(* The refinement. *)

\* Each step of a round is a step of CheckRound, or none.
LEMMA RoundSteps == RoundInv /\ [Next]_vars => [Round!Next]_(Round!vars)
<1>. SUFFICES ASSUME RoundInv, [Next]_vars PROVE [Round!Next]_(Round!vars)
  OBVIOUS
<1>. USE DEF RoundInv, TypeOK, RoundInProgress, Round!vars
<1>1. ASSUME NEW rows \in SUBSET Targets, NEW unparsable \in SUBSET rows, Start(rows, unparsable)
      PROVE  Round!Pick(rows)
  BY <1>1 DEF Start, Round!Pick
<1>2. ASSUME NEW rows \in SUBSET Targets, StartWithout(rows) PROVE Round!DecideAtOnce(rows)
  BY <1>2 DEF StartWithout, Round!DecideAtOnce
<1>3. CASE CallStep /\ UNCHANGED roundVars
  BY <1>3 DEF roundVars
<1>4. CASE Classify
  <2>. DEFINE refused == failed \cup Bad \cup Missing
  <2>a. \A row \in Rows : "ok" \in row \/ "bad" \in row
    <3>1. ASSUME NEW row \in Rows PROVE "ok" \in row \/ "bad" \in row
      <4>1. row \subseteq {"ok", "bad"} /\ row # {}
        BY ReportsAssumption
      <4>2. PICK verdict : verdict \in row
        BY <4>1
      <4>. QED  BY <4>1, <4>2
    <3>. QED  BY <3>1
  <2>b. \A t \in asked \cap DOMAIN answer : "ok" \in answer[t] \/ "bad" \in answer[t]
    BY <2>a DEF CallInv, CallTypeOK
  <2>1. Good \subseteq picked /\ refused \subseteq picked /\ Good \cup refused = picked
    BY <1>4, <2>b DEF Classify, Good, Bad, Missing
  <2>2. Round!Decide(Good, refused)
    BY <1>4, <2>1 DEF Classify, Round!Decide
  <2>. QED  BY <2>1, <2>2 DEF Round!Next
<1>5. CASE AskingFails
  <2>1. failed \cup asked = picked
    BY <1>5 DEF AskingFails
  <2>2. Round!Decide({}, picked)
    BY <1>5, <2>1 DEF AskingFails, Round!Decide
  <2>. QED  BY <2>2 DEF Round!Next
<1>6. CASE UNCHANGED vars
  BY <1>6 DEF vars, roundVars
<1>. QED  BY <1>1, <1>2, <1>3, <1>4, <1>5, <1>6 DEF Next, Round!Next

\* A row that the callers count twice is one the agent has contradicted itself about,
\* whatever else the answer mentions or leaves out.
THEOREM BothOnlyIfContradictedAlways == Spec => []BothOnlyIfContradicted
<1>1. RoundInv => BothOnlyIfContradicted
  BY DEF RoundInv
<1>. QED  BY <1>1, RoundInvariant, PTL

\* runStorageChecks implements what its callers rely on: every row of a batch is checked
\* or has failed, no row is lost and none is added, even by an answer that repeats rows.
THEOREM ChecksImplementRounds == Spec => Round!Spec
<1>1. Init => Round!Init
  BY DEF Init, Round!Init
<1>. QED  BY <1>1, RoundInvariant, RoundSteps, PTL DEF Spec, Round!Spec

--------------------------------------------------------------------------------
(* The promise of the calls. *)

\* What an agent that answers has told is rows of targets.
LEMMA ToldRows ==
    ASSUME CallInv, agent # 0, NEW foreign \in ForeignRows
    PROVE  Told(foreign) \in Promise!Answers
<1>. DEFINE told == Told(foreign)
<1>1. DOMAIN foreign \subseteq Targets /\ \A t \in DOMAIN foreign : foreign[t] \in Rows
  BY DEF ForeignRows
<1>2. DOMAIN told \subseteq Targets /\ told \in [DOMAIN told -> Rows]
  BY <1>1 DEF Told, CallInv, CallTypeOK
<1>3. told \in Promise!Answers
  <2>. HIDE DEF told
  <2>. QED  BY <1>2 DEF Promise!Answers
<1>. QED  BY <1>3

\* Going on to the next agent is no step of the promise, giving up is its failure.
LEMMA NextAgentPromised ==
    ASSUME CallInv, agent # 0, AskNextAgent
    PROVE  Promise!QueryFails \/ UNCHANGED Promise!queryVars
BY DEF AskNextAgent, CallInv, CallTypeOK, Agents, Promise!QueryFails, Promise!queryVars

\* Each step of the calls is a step that AgentQuery allows, or none.
LEMMA PromiseSteps == RoundInv /\ [Next]_vars => [Promise!QueryNext]_(Promise!queryVars)
<1>. SUFFICES ASSUME RoundInv, [Next]_vars PROVE [Promise!QueryNext]_(Promise!queryVars)
  OBVIOUS
<1>. USE DEF RoundInv, CallInv, CallTypeOK, CallRunning
<1>1. ASSUME NEW rows \in SUBSET Targets, NEW unparsable \in SUBSET rows, Start(rows, unparsable)
      PROVE  Promise!QueryNext
  <2>1. agent = 0 /\ outcome # "asking"
    BY <1>1 DEF Start, CalledByRound
  <2>2. Call(rows \ unparsable) /\ rows \ unparsable \in SUBSET Targets
    BY <1>1 DEF Start
  <2>3. NoAnswer = Promise!NoRowsYet
    BY DEF NoAnswer, Promise!NoRowsYet
  <2>4. Promise!Query(rows \ unparsable)
    BY <2>2, <2>3 DEF Call, Promise!Query
  <2>. QED  BY <2>1, <2>2, <2>4 DEF Promise!QueryNext
<1>2. ASSUME UNCHANGED callVars PROVE UNCHANGED Promise!queryVars
  BY <1>2 DEF callVars, Promise!queryVars
<1>3. ASSUME NEW t \in Targets, NEW row \in Rows, TargetAnswers(t, row)
      PROVE  UNCHANGED Promise!queryVars
  BY <1>3 DEF TargetAnswers, Promise!queryVars
<1>4. ASSUME NEW foreign \in ForeignRows, AgentAnswers(foreign) PROVE Promise!QueryEnds
  <2>1. Told(foreign) \in Promise!Answers
    BY <1>4, ToldRows DEF AgentAnswers
  <2>2. Promise!QueryAnswers(Told(foreign))
    BY <1>4 DEF AgentAnswers, Promise!QueryAnswers
  <2>. QED  BY <2>1, <2>2 DEF Promise!QueryEnds
<1>5. CASE AgentRefuses \/ CallExpires
  BY <1>5, NextAgentPromised DEF AgentRefuses, CallExpires, Promise!QueryNext, Promise!QueryEnds
<1>6. CASE CallTick
  BY <1>6 DEF CallTick, Promise!queryVars
<1>7. CASE Classify \/ AskingFails \/ UNCHANGED vars \/ \E rows \in SUBSET Targets : StartWithout(rows)
  BY <1>2, <1>7 DEF Classify, AskingFails, StartWithout, vars
<1>. QED
  BY <1>1, <1>3, <1>4, <1>5, <1>6, <1>7 DEF Next, CallStep, Promise!QueryNext

\* GetStorageRates and RequestStorageInfo return the rows of one agent or an error without
\* rows, for every number of agents, their states and the time they take.
THEOREM ChecksKeepPromise == Spec => CallKeepsPromise
<1>1. Init => Promise!QueryInit
  BY DEF Init, CallInit, NoAnswer, Promise!QueryInit, Promise!NoRowsYet
<1>. QED
  BY <1>1, RoundInvariant, PromiseSteps, PTL DEF Spec, CallKeepsPromise, Promise!QuerySpec
================================================================================
