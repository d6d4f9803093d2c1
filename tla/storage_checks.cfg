CONSTANTS
    Targets = {t1, t2, t3}
    t1 = t1
    t2 = t2
    t3 = t3
    Rows <- Reports
    Silent = Silent
    NumAgents = 2
    Deadline = 3
    RequestTimeout = 2
    QueryTimeout = 1
SPECIFICATION FairSpec
INVARIANTS
    TypeOK
    CallIsBounded
    AgentInReachIsUsed
    BothOnlyIfContradicted
PROPERTIES
    IsCheckRound
    CallKeepsPromise
