--------------------------- MODULE BagAndQueueProofs ---------------------------
(***************************************************************************)
(* The composition implements both of its parts, for every instance: the   *)
(* handlers and workers of BagLifecycle are to the queue no more than the  *)
(* statements that feed it, and the queue is to them no more than bags     *)
(* that leave the disk.                                                    *)
(***************************************************************************)
EXTENDS BagAndQueue, FilesStatementsProofs

--------------------------------------------------------------------------------
(* The invariant of the composition. *)

\* An upload that passed its first check has a user, and a bag once it is created; AddBag
\* remembers what it found.
UploadsKnown ==
    /\ upload \in [Uploads -> Life!UploadState]
    /\ \A s \in Uploads :
          /\ upload[s].pc # "idle" => upload[s].user \in Users
          /\ upload[s].pc \in {"created", "saving"} => upload[s].bag \in Bags
    /\ \A k \in DOMAIN adding : adding[k] \in BOOLEAN

\* What a request has found to queue belongs to contracts.
RequestKnown == \A r \in request : r.contract \in Contracts

\* Only paid relations have their providers queued.
QueuedIsPaid(table) ==
    \A k \in DOMAIN table : table[k].attempts = -1 => ~IsUnpaid(table[k])

TableInv(table) == IsRelationTable(table) /\ QueuedIsPaid(table)

CompInv ==
    /\ UploadsKnown
    /\ RequestKnown
    /\ TableInv(bag_users)
    /\ ExpiringWasUnpaid

--------------------------------------------------------------------------------
(* The statements keep the table in order. *)

\* An upload adds a relation that has been looked up by nobody.
LEMMA AddBagInOrder ==
    ASSUME NEW t, TableInv(t), NEW b \in Bags, NEW u \in Users
    PROVE  TableInv(AddBag(t, b, u))
<1>1. IsRelationTable(AddBag(t, b, u))
  BY AddBagTable DEF TableInv
<1>. QED  BY <1>1 DEF TableInv, QueuedIsPaid, AddBag, Put, NewRelation, IsUnpaid

\* A payment makes no relation unpaid.
LEMMA PaymentInOrder ==
    ASSUME NEW t, TableInv(t), NEW b \in Bags, NEW u \in Users, NEW c \in Contracts
    PROVE  TableInv(MarkBagAsPaid(t, b, u, c))
<1>1. IsRelationTable(MarkBagAsPaid(t, b, u, c))
  BY MarkBagAsPaidTable DEF TableInv
<1>. QED
  BY <1>1, NoContractAssumption
     DEF TableInv, QueuedIsPaid, MarkBagAsPaid, IsUnpaid, IsRelationTable, Relation

\* Rows that go take nothing from the others.
LEMMA RemovalInOrder ==
    ASSUME NEW t, TableInv(t), NEW S \in SUBSET DOMAIN t
    PROVE  TableInv(Restrict(t, S))
<1>1. IsRelationTable(Restrict(t, S)) /\ DOMAIN Restrict(t, S) = S
  BY RestrictTable DEF TableInv
<1>2. \A k \in S : Restrict(t, S)[k] = t[k]
  BY DEF Restrict
<1>. QED  BY <1>1, <1>2 DEF TableInv, QueuedIsPaid

\* Only the age of a row changes with time.
LEMMA TickInOrder ==
    ASSUME NEW t, TableInv(t)
    PROVE  TableInv(AgeRelations(t))
<1>1. IsRelationTable(AgeRelations(t)) /\ DOMAIN AgeRelations(t) = DOMAIN t
  BY AgeRelationsTable DEF TableInv
<1>2. ASSUME NEW k \in DOMAIN t
      PROVE  /\ AgeRelations(t)[k].contract = t[k].contract
             /\ AgeRelations(t)[k].attempts = t[k].attempts
  <2>1. t[k] \in Relation
    BY DEF TableInv, IsRelationTable
  <2>. QED  BY <2>1 DEF AgeRelations, Relation
<1>. QED  BY <1>1, <1>2 DEF TableInv, QueuedIsPaid, IsUnpaid

\* Relations are marked by bag and contract: an unpaid one has no contract that a row
\* of the queue could have.
LEMMA MarkingInOrder ==
    ASSUME NEW t, TableInv(t), NEW rows, \A r \in rows : r.contract \in Contracts
    PROVE  TableInv(Queue!MarkQueued(t, rows))
<1>. DEFINE q == Queue!MarkQueued(t, rows)
<1>1. DOMAIN q = DOMAIN t
  BY DEF Queue!MarkQueued
<1>2. ASSUME NEW k \in DOMAIN t
      PROVE  /\ q[k] \in Relation
             /\ q[k].attempts = -1 => ~IsUnpaid(q[k])
  <2>1. t[k] \in Relation
    BY DEF TableInv, IsRelationTable
  <2>2. CASE \E r \in rows : r.bag = k[1] /\ r.contract = t[k].contract
    <3>1. q[k] = [t[k] EXCEPT !.attempts = -1]
      BY <2>2 DEF Queue!MarkQueued
    <3>2. t[k].contract \in Contracts
      BY <2>2
    <3>. QED  BY <2>1, <3>1, <3>2, NoContractAssumption DEF Relation, IsUnpaid
  <2>3. CASE ~\E r \in rows : r.bag = k[1] /\ r.contract = t[k].contract
    <3>1. q[k] = t[k]
      BY <2>3 DEF Queue!MarkQueued
    <3>. QED  BY <2>1, <3>1 DEF TableInv, QueuedIsPaid
  <2>. QED  BY <2>2, <2>3
<1>. QED  BY <1>1, <1>2 DEF TableInv, IsRelationTable, QueuedIsPaid

--------------------------------------------------------------------------------
(* Every step is one the queue allows. *)

\* What the handlers and workers of BagLifecycle do is a statement that feeds the queue,
\* or does not touch the tables.
LEMMA LifeStepFeedsQueue ==
    ASSUME CompInv, HandlersAndLifeWorkers
    PROVE  [Queue!Next]_(Queue!vars)
<1>. USE DEF queueVars, Queue!workerVars, Queue!filesVars
<1>q. UNCHANGED queueVars
  BY DEF HandlersAndLifeWorkers
<1>1. ASSUME UNCHANGED <<bags, bag_users>> PROVE UNCHANGED Queue!vars
  BY <1>1, <1>q DEF Queue!vars
<1>2. ASSUME NEW s \in Uploads,
             \/ \E u \in Users : Life!CheckUnpaid(s, u)
             \/ Life!CheckSpace(s) \/ Life!AbortUpload(s)
             \/ \E b \in Bags : Life!CreateBag(s, b) \/ Life!GiveUpCreate(s, b)
      PROVE  UNCHANGED Queue!vars
  BY <1>1, <1>2
     DEF Life!CheckUnpaid, Life!CheckSpace, Life!AbortUpload, Life!CreateBag, Life!GiveUpCreate,
         Life!statementVars, Life!tables
<1>3. ASSUME NEW s \in Uploads, Life!StartSaving(s) \/ Life!SaveFails(s)
      PROVE  UNCHANGED Queue!vars
  BY <1>1, <1>3
     DEF Life!StartSaving, Life!SaveFails, Life!StartAddBag, Life!AddBagFails, Life!tables
<1>4. ASSUME NEW b \in Bags, Life!LateCreate(b) \/ Life!RemoveBag(b) \/ Life!SkipBag(b)
      PROVE  UNCHANGED Queue!vars
  BY <1>1, <1>4
     DEF Life!LateCreate, Life!RemoveBag, Life!SkipBag, Life!statementVars, Life!tables
<1>5. ASSUME NEW s \in Uploads, Life!SaveBag(s) PROVE Queue!Next
  <2>. DEFINE b == upload[s].bag  u == upload[s].user
  <2>1. b \in Bags /\ u \in Users /\ adding[<<b, u>>] \in BOOLEAN
    BY <1>5 DEF CompInv, UploadsKnown, Life!SaveBag, Life!CommitAddBag
  <2>. HIDE DEF b, u
  <2>2. Queue!SaveBag(b, u, adding[<<b, u>>])
    BY <1>5, <1>q DEF b, u, Life!SaveBag, Life!CommitAddBag, Queue!SaveBag, Life!AddBag,
                      Queue!AddBag, Life!Put, Queue!Put, Life!NewRelation, Queue!NewRelation
  <2>. QED  BY <2>1, <2>2 DEF Queue!Next
<1>6. ASSUME NEW b \in Bags, NEW u \in Users, NEW c \in Contracts, Life!Pay(b, u, c)
      PROVE  Queue!Next
  <2>1. Queue!Pay(b, u, c)
    BY <1>6, <1>q DEF Life!Pay, Life!CommitPayment, Queue!Pay, Life!MarkBagAsPaid,
                      Queue!MarkBagAsPaid
  <2>. QED  BY <2>1 DEF Queue!Next
<1>7. ASSUME NEW keys, bags' = bags, bag_users' = Restrict(bag_users, DOMAIN bag_users \ keys)
      PROVE  Queue!Next
  <2>. DEFINE own == keys \cap DOMAIN bag_users
  <2>1. DOMAIN bag_users \ keys = DOMAIN bag_users \ own
    OBVIOUS
  <2>2. Queue!DropRelations(own)
    BY <1>7, <1>q, <2>1 DEF Queue!DropRelations, Queue!Restrict, Restrict
  <2>. QED  BY <2>2 DEF Queue!Next
<1>8. ASSUME NEW b \in Bags, NEW u \in Users, Life!DeleteBag(b, u) PROVE Queue!Next
  <2>1. bags' = bags /\ bag_users' = Restrict(bag_users, DOMAIN bag_users \ {<<b, u>>})
    BY <1>8 DEF Life!DeleteBag, Life!CommitDeletion, Life!RemoveUserBagRelation,
                Life!Restrict, Restrict
  <2>. QED  BY <1>7, <2>1
<1>9. CASE Life!RemoveUnpaidRelations
  <2>1. bags' = bags /\ bag_users' = Restrict(bag_users, DOMAIN bag_users \ DOMAIN expiring)
    BY <1>9 DEF Life!RemoveUnpaidRelations, Life!DeleteExpired, Life!Restrict, Restrict
  <2>. QED  BY <1>7, <2>1
<1>10. CASE Life!RemoveUnusedBags
  <2>. DEFINE gone == forgetting.bags \cap bags
  <2>1. Queue!ForgetBags(gone)
    BY <1>10, <1>q DEF Life!RemoveUnusedBags, Life!DeleteUnused, Queue!ForgetBags
  <2>. QED  BY <2>1 DEF Queue!Next
<1>11. CASE Life!SelectUnpaidFiles \/ Life!SelectUnusedBags \/ Life!StatementFails
  BY <1>1, <1>11
     DEF Life!SelectUnpaidFiles, Life!SelectExpired, Life!SelectUnusedBags, Life!SelectUnused,
         Life!StatementFails, Life!RemovalFails, Life!tables
<1>. QED
  BY <1>2, <1>3, <1>4, <1>5, <1>6, <1>8, <1>9, <1>10, <1>11 DEF HandlersAndLifeWorkers

\* The other steps are steps of the queue as they stand.
LEMMA QueueStepIsOne ==
    ASSUME QueueRequestsAndWorkers
    PROVE  Queue!Next
  BY DEF QueueRequestsAndWorkers, Queue!Next, Queue!LookupEnds

\* Each step of the composition is one of the queue, or none that it sees.
LEMMA StepOfQueue ==
    ASSUME CompInv, [Next]_vars
    PROVE  [Queue!Next]_(Queue!vars)
<1>1. CASE HandlersAndLifeWorkers
  BY <1>1, LifeStepFeedsQueue
<1>2. CASE QueueRequestsAndWorkers
  BY <1>2, QueueStepIsOne
<1>3. ASSUME NEW k \in Providers \X Contracts, NEW b \in Bags, RemoveFromDisk(k, b)
      PROVE  Queue!Next
  BY <1>3 DEF RemoveFromDisk, Queue!Next, Queue!QueueKeys
<1>4. CASE Restart
  BY <1>4 DEF Restart, Queue!Next
<1>5. CASE Tick
  BY <1>5 DEF Tick, Queue!Next
<1>6. CASE UNCHANGED vars
  BY <1>6 DEF vars, tables, queueVars, Queue!vars, Queue!filesVars, Queue!workerVars
<1>. QED  BY <1>1, <1>2, <1>3, <1>4, <1>5, <1>6 DEF Next

--------------------------------------------------------------------------------
(* The invariant is inductive. *)

\* The table and the request, over the steps of the queue.
LEMMA QueueStepInOrder ==
    ASSUME TableInv(bag_users), RequestKnown, [Queue!Next]_(Queue!vars)
    PROVE  TableInv(bag_users') /\ RequestKnown'
<1>. USE DEF Queue!filesVars, Queue!workerVars
<1>1. ASSUME UNCHANGED <<bag_users, request>> PROVE TableInv(bag_users') /\ RequestKnown'
  BY <1>1 DEF RequestKnown
<1>2. ASSUME NEW rows, \A r \in rows : r.contract \in Contracts,
             bag_users' = Queue!MarkQueued(bag_users, rows)
      PROVE  TableInv(bag_users')
  BY <1>2, MarkingInOrder
<1>3. ASSUME NEW b \in Bags, NEW u \in Users, NEW found \in BOOLEAN, Queue!SaveBag(b, u, found)
      PROVE  TableInv(bag_users') /\ RequestKnown'
  <2>1. bag_users' = AddBag(bag_users, b, u)
    BY <1>3 DEF Queue!SaveBag, Queue!AddBag, AddBag, Queue!Put, Put, Queue!NewRelation,
                NewRelation
  <2>. QED  BY <1>3, <2>1, AddBagInOrder DEF Queue!SaveBag, RequestKnown
<1>4. ASSUME NEW b \in Bags, NEW u \in Users, NEW c \in Contracts, Queue!Pay(b, u, c)
      PROVE  TableInv(bag_users') /\ RequestKnown'
  <2>1. bag_users' = MarkBagAsPaid(bag_users, b, u, c)
    BY <1>4 DEF Queue!Pay, Queue!MarkBagAsPaid, MarkBagAsPaid
  <2>. QED  BY <1>4, <2>1, PaymentInOrder DEF Queue!Pay, RequestKnown
<1>5. ASSUME NEW keys \in SUBSET DOMAIN bag_users, Queue!DropRelations(keys)
      PROVE  TableInv(bag_users') /\ RequestKnown'
  <2>1. bag_users' = Restrict(bag_users, DOMAIN bag_users \ keys)
    BY <1>5 DEF Queue!DropRelations, Queue!Restrict, Restrict
  <2>. QED  BY <1>5, <2>1, RemovalInOrder DEF Queue!DropRelations, RequestKnown
<1>6. ASSUME NEW gone \in SUBSET bags, Queue!ForgetBags(gone)
      PROVE  TableInv(bag_users') /\ RequestKnown'
  BY <1>1, <1>6 DEF Queue!ForgetBags
<1>7. ASSUME NEW u \in Users, NEW c \in Contracts, NEW ps \in SUBSET Providers,
             Queue!NotifyProviders(u, c, ps)
      PROVE  TableInv(bag_users') /\ RequestKnown'
  BY <1>7 DEF Queue!NotifyProviders, RequestKnown
<1>8. CASE Queue!QueueRequest
  <2>1. bag_users' = Queue!MarkQueued(bag_users, request) /\ request' = {}
    BY <1>8 DEF Queue!QueueRequest, Queue!AddProviderToNotifyQueue
  <2>. QED  BY <1>2, <2>1 DEF RequestKnown
<1>9. CASE Queue!RequestFails
  BY <1>9 DEF Queue!RequestFails, RequestKnown
<1>10. CASE Queue!PickContracts
  BY <1>1, <1>10 DEF Queue!PickContracts
<1>11. ASSUME NEW found \in SUBSET Queue!QueueKeys,
              NEW bagOf \in [{pair[2] : pair \in collector} -> Bags],
              Queue!QueueProviders(found, bagOf)
       PROVE  TableInv(bag_users') /\ RequestKnown'
  <2>. DEFINE rows == Queue!FoundRows(found, bagOf)
  <2>1. \A r \in rows : r.contract \in Contracts
    BY DEF Queue!FoundRows, Queue!QueueKeys
  <2>2. bag_users' = bag_users \/ bag_users' = Queue!MarkQueued(bag_users, rows)
    BY <1>11 DEF Queue!QueueProviders, Queue!IncreaseAttempts, Queue!AddProviderToNotifyQueue
  <2>3. request' = request
    BY <1>11 DEF Queue!QueueProviders
  <2>. QED  BY <1>2, <2>1, <2>2, <2>3 DEF RequestKnown
<1>12. CASE Queue!LookupFails
  BY <1>1, <1>12 DEF Queue!LookupFails, Queue!IncreaseAttempts
<1>13. CASE Queue!PickToNotify
  BY <1>1, <1>13 DEF Queue!PickToNotify
<1>14. ASSUME NEW answered, NEW failed, NEW written,
              Queue!CountFailed(answered, failed, written)
       PROVE  TableInv(bag_users') /\ RequestKnown'
  BY <1>1, <1>14 DEF Queue!CountFailed
<1>15. CASE Queue!MarkAnswered
  BY <1>1, <1>15 DEF Queue!MarkAnswered
<1>16. ASSUME NEW written, Queue!MarkFails(written) PROVE TableInv(bag_users') /\ RequestKnown'
  BY <1>1, <1>16 DEF Queue!MarkFails
<1>17. CASE Queue!PickInProgress
  BY <1>1, <1>17 DEF Queue!PickInProgress
<1>18. ASSUME NEW reported, NEW failed, NEW written,
              Queue!CountUnanswered(reported, failed, written)
       PROVE  TableInv(bag_users') /\ RequestKnown'
  BY <1>1, <1>18 DEF Queue!CountUnanswered
<1>19. CASE Queue!SaveReported \/ Queue!SaveReportedFails
  BY <1>1, <1>19 DEF Queue!SaveReported, Queue!SaveReportedFails
<1>20. CASE Queue!RemoveNotifiedBags
  BY <1>1, <1>20 DEF Queue!RemoveNotifiedBags
<1>21. ASSUME NEW k, NEW b, Queue!RemoveFromDisk(k, b) PROVE TableInv(bag_users') /\ RequestKnown'
  BY <1>1, <1>21 DEF Queue!RemoveFromDisk
<1>22. CASE Queue!Restart
  BY <1>22 DEF Queue!Restart, RequestKnown
<1>23. CASE Queue!Tick
  <2>1. bag_users' = AgeRelations(bag_users)
    BY <1>23 DEF Queue!Tick, Queue!AgeRelations, AgeRelations, Queue!Older, Older
  <2>. QED  BY <1>23, <2>1, TickInOrder DEF Queue!Tick, RequestKnown
<1>24. CASE UNCHANGED Queue!vars
  BY <1>1, <1>24 DEF Queue!vars
<1>. HIDE DEF TableInv, RequestKnown
<1>. QED
  BY <1>3, <1>4, <1>5, <1>6, <1>7, <1>8, <1>9, <1>10, <1>11, <1>12, <1>13, <1>14, <1>15, <1>16,
     <1>17, <1>18, <1>19, <1>20, <1>21, <1>22, <1>23, <1>24 DEF Queue!Next

\* The handlers and workers of BagLifecycle keep what they remember in order, and the
\* queue leaves it alone.
LEMMA LifeStepInOrder ==
    ASSUME UploadsKnown, ExpiringWasUnpaid, [Next]_vars
    PROVE  UploadsKnown' /\ ExpiringWasUnpaid'
<1>. DEFINE Goal == UploadsKnown' /\ ExpiringWasUnpaid'
<1>. SUFFICES Goal
  OBVIOUS
<1>. USE DEF UploadsKnown, Life!UploadState
<1>1. ASSUME upload' \in [Uploads -> Life!UploadState],
             \A s \in Uploads :
                /\ upload'[s].pc # "idle" => upload'[s].user \in Users
                /\ upload'[s].pc \in {"created", "saving"} => upload'[s].bag \in Bags,
             \A k \in DOMAIN adding' : adding'[k] \in BOOLEAN,
             UNCHANGED expiring
      PROVE  Goal
  BY <1>1 DEF ExpiringWasUnpaid
<1>2. ASSUME UNCHANGED <<upload, adding, expiring>> PROVE Goal
  BY <1>2 DEF ExpiringWasUnpaid
<1>3. ASSUME NEW s \in Uploads, UNCHANGED <<adding, expiring>>,
             NEW after \in Life!UploadState, upload' = [upload EXCEPT ![s] = after],
             after.pc # "idle" => after.user \in Users,
             after.pc \in {"created", "saving"} => after.bag \in Bags
      PROVE  Goal
  BY <1>1, <1>3
<1>4. ASSUME NEW s \in Uploads, NEW u \in Users, Life!CheckUnpaid(s, u) PROVE Goal
  <2>. DEFINE after == [pc |-> "checked", user |-> u, bag |-> NoBag]
  <2>1. after \in Life!UploadState /\ upload' = [upload EXCEPT ![s] = after]
    BY <1>4 DEF Life!CheckUnpaid
  <2>. QED  BY <1>3, <1>4, <2>1 DEF Life!CheckUnpaid, Life!statementVars
<1>5. ASSUME NEW s \in Uploads, Life!CheckSpace(s) PROVE Goal
  <2>. DEFINE after == [upload[s] EXCEPT !.pc = "approved"]
  <2>1. after \in Life!UploadState /\ upload' = [upload EXCEPT ![s] = after] /\ after.user \in Users
    BY <1>5 DEF Life!CheckSpace
  <2>. QED  BY <1>3, <1>5, <2>1 DEF Life!CheckSpace, Life!statementVars
<1>6. ASSUME NEW s \in Uploads, NEW b \in Bags, Life!CreateBag(s, b) PROVE Goal
  <2>. DEFINE after == [pc |-> "created", user |-> upload[s].user, bag |-> b]
  <2>1. /\ after \in Life!UploadState /\ after.user \in Users
        /\ upload' = [upload EXCEPT ![s] = after]
    BY <1>6 DEF Life!CreateBag
  <2>. QED  BY <1>3, <1>6, <2>1 DEF Life!CreateBag, Life!statementVars
<1>7. ASSUME NEW s \in Uploads,
             Life!AbortUpload(s) \/ \E b \in Bags : Life!GiveUpCreate(s, b)
      PROVE  Goal
  <2>1. Life!Idle \in Life!UploadState /\ upload' = [upload EXCEPT ![s] = Life!Idle]
    BY <1>7 DEF Life!AbortUpload, Life!GiveUpCreate, Life!Idle
  <2>. QED
    BY <1>3, <1>7, <2>1 DEF Life!AbortUpload, Life!GiveUpCreate, Life!statementVars, Life!Idle
<1>8. ASSUME NEW s \in Uploads, Life!StartSaving(s) PROVE Goal
  <2>. DEFINE key == <<upload[s].bag, upload[s].user>>  found == upload[s].bag \in bags
  <2>a. found \in BOOLEAN
    <3>1. CASE upload[s].bag \in bags
      <4>1. found = TRUE
        BY <3>1
      <4>. QED  BY <4>1
    <3>2. CASE upload[s].bag \notin bags
      <4>1. found = FALSE
        BY <3>2
      <4>. QED  BY <4>1
    <3>. QED  BY <3>1, <3>2
  <2>b. adding' = Life!Put(adding, key, found)
    BY <1>8 DEF Life!StartSaving, Life!StartAddBag
  <2>. HIDE DEF key, found
  <2>1. \A k \in DOMAIN adding' : adding'[k] \in BOOLEAN
    BY <2>a, <2>b DEF Life!Put
  <2>. QED  BY <1>1, <1>8, <2>1 DEF Life!StartSaving, Life!StartAddBag
<1>9. ASSUME NEW s \in Uploads, Life!SaveBag(s) \/ Life!SaveFails(s) PROVE Goal
  <2>1. \A k \in DOMAIN adding' : adding'[k] \in BOOLEAN
    BY <1>9 DEF Life!SaveBag, Life!SaveFails, Life!CommitAddBag, Life!AddBagFails, Life!Added,
                Life!Restrict
  <2>. QED
    BY <1>1, <1>9, <2>1 DEF Life!SaveBag, Life!SaveFails, Life!CommitAddBag, Life!AddBagFails,
                            Life!Idle
<1>10. ASSUME UNCHANGED <<upload, adding>>,
              \A k \in DOMAIN expiring' : k \in DOMAIN expiring /\ expiring'[k] = expiring[k]
       PROVE  Goal
  BY <1>10 DEF ExpiringWasUnpaid
<1>11. ASSUME NEW b \in Bags, NEW u \in Users, Life!DeleteBag(b, u) PROVE Goal
  BY <1>10, <1>11 DEF Life!DeleteBag, Life!CommitDeletion, Life!Restrict
<1>12. CASE Life!RemoveUnpaidRelations \/ Life!StatementFails
  BY <1>10, <1>12
     DEF Life!RemoveUnpaidRelations, Life!DeleteExpired, Life!StatementFails, Life!RemovalFails,
         Life!NoRows
<1>13. CASE Life!SelectUnpaidFiles
  <2>1. \A k \in DOMAIN expiring' : expiring'[k] = NoContract
    BY <1>13 DEF Life!SelectUnpaidFiles, Life!SelectExpired, Life!ExpiredUnpaid, Life!IsUnpaid
  <2>. QED
    BY <1>13, <2>1 DEF Life!SelectUnpaidFiles, Life!SelectExpired, ExpiringWasUnpaid
<1>14. ASSUME \/ \E b \in Bags : Life!LateCreate(b) \/ Life!RemoveBag(b) \/ Life!SkipBag(b)
              \/ \E b \in Bags, u \in Users, c \in Contracts : Life!Pay(b, u, c)
              \/ Life!SelectUnusedBags \/ Life!RemoveUnusedBags
       PROVE  Goal
  BY <1>2, <1>14
     DEF Life!LateCreate, Life!RemoveBag, Life!SkipBag, Life!Pay, Life!CommitPayment,
         Life!SelectUnusedBags, Life!SelectUnused, Life!RemoveUnusedBags, Life!DeleteUnused,
         Life!statementVars
<1>15. CASE Restart
  BY <1>15 DEF Restart, Life!Restart, Life!ConnectionsEnd, Life!Idle, Life!NoRows,
               ExpiringWasUnpaid
<1>16. ASSUME NEW k, NEW b, RemoveFromDisk(k, b) PROVE Goal
  BY <1>2, <1>16 DEF RemoveFromDisk, Life!RemoveNotifiedBag, Life!statementVars, lifeVars
<1>17. CASE QueueRequestsAndWorkers \/ Tick \/ UNCHANGED vars
  BY <1>2, <1>17
     DEF QueueRequestsAndWorkers, Tick, Life!Tick, Life!TimePasses, vars, lifeVars
<1>. HIDE DEF Goal
<1>. QED
  BY <1>4, <1>5, <1>6, <1>7, <1>8, <1>9, <1>11, <1>12, <1>13, <1>14, <1>15, <1>16, <1>17
     DEF Next, HandlersAndLifeWorkers

\* The invariant holds in every reachable state of the composition.
LEMMA CompInvariant == Spec => []CompInv
<1>1. Init => CompInv
  BY DEF Init, Life!Init, Life!StatementsInit, Queue!Init, CompInv, UploadsKnown,
         Life!UploadState, Life!Idle, RequestKnown, TableInv, IsRelationTable, QueuedIsPaid,
         ExpiringWasUnpaid, Life!NoRows
<1>2. CompInv /\ [Next]_vars => CompInv'
  BY StepOfQueue, QueueStepInOrder, LifeStepInOrder DEF CompInv
<1>. QED  BY <1>1, <1>2, PTL DEF Spec

--------------------------------------------------------------------------------
(* The refinements. *)

\* The composition implements the queue: each of its steps is one that NotifyQueue
\* allows, so nothing BagLifecycle does to the tables surprises the queue, and what
\* is proved of the queue alone holds of it here.
THEOREM CompositionImplementsQueue == Spec => QueueSpec
<1>1. Init => Queue!Init
  BY DEF Init
<1>2. CompInv /\ [Next]_vars => [Queue!Next]_(Queue!vars)
  BY StepOfQueue
<1>. QED  BY <1>1, <1>2, CompInvariant, PTL DEF Spec, QueueSpec, Queue!Spec

--------------------------------------------------------------------------------
(* What the handlers and workers of BagLifecycle see. *)

\* A table with the counters of the lookups taken back.
Taken(table) == [k \in DOMAIN table |-> [table[k] EXCEPT !.attempts = 0]]

\* What BagLifecycle sees is the table without the counters, before and after a step.
LEMMA UncountedIsTaken == Uncounted = Taken(bag_users) /\ Uncounted' = Taken(bag_users')
BY DEF Uncounted, Taken

\* All but the counter is left as it is.
LEMMA TakenRow ==
    ASSUME NEW t, IsRelationTable(t), NEW k \in DOMAIN t
    PROVE  /\ Taken(t)[k] = [contract |-> t[k].contract, created |-> t[k].created, attempts |-> 0]
           /\ t[k] \in Relation
BY DEF Taken, IsRelationTable, Relation

\* Hence no statement of BagLifecycle tells the two tables apart:
LEMMA TakenAddBag ==
    ASSUME NEW t, IsRelationTable(t), NEW b \in Bags, NEW u \in Users
    PROVE  Taken(AddBag(t, b, u)) = AddBag(Taken(t), b, u)
<1>1. DOMAIN Taken(t) = DOMAIN t
  BY DEF Taken
<1>2. CASE <<b, u>> \in DOMAIN t
  BY <1>1, <1>2 DEF AddBag
<1>3. CASE <<b, u>> \notin DOMAIN t
  <2>. DEFINE k0 == <<b, u>>  d == DOMAIN t \cup {k0}  added == Put(t, k0, NewRelation)
              row(k) == IF k = k0 THEN NewRelation ELSE Taken(t)[k]
  <2>1. AddBag(t, b, u) = added /\ AddBag(Taken(t), b, u) = [k \in d |-> row(k)]
    BY <1>1, <1>3 DEF AddBag, Put
  <2>2. Taken(added) = [k \in d |-> [added[k] EXCEPT !.attempts = 0]]
    BY DEF Taken, Put
  <2>3. ASSUME NEW k \in d PROVE [added[k] EXCEPT !.attempts = 0] = row(k)
    <3>1. CASE k = k0
      <4>1. added[k] = NewRelation
        BY <3>1 DEF Put
      <4>. QED  BY <3>1, <4>1 DEF NewRelation
    <3>2. CASE k # k0
      <4>1. added[k] = t[k] /\ k \in DOMAIN t
        BY <3>2 DEF Put
      <4>. QED  BY <3>2, <4>1 DEF Taken
    <3>. QED  BY <3>1, <3>2
  <2>. HIDE DEF added, row, d
  <2>. QED  BY <2>1, <2>2, <2>3, Zenon
<1>. QED  BY <1>2, <1>3

\* nor does the statement of a payment,
LEMMA TakenPayment ==
    ASSUME NEW t, IsRelationTable(t), NEW b \in Bags, NEW u \in Users, NEW c \in Contracts
    PROVE  Taken(MarkBagAsPaid(t, b, u, c)) = MarkBagAsPaid(Taken(t), b, u, c)
<1>. DEFINE l == Taken(MarkBagAsPaid(t, b, u, c))  r == MarkBagAsPaid(Taken(t), b, u, c)
<1>1. DOMAIN l = DOMAIN t /\ DOMAIN r = DOMAIN t
  BY DEF Taken, MarkBagAsPaid
<1>2. ASSUME NEW k \in DOMAIN t PROVE l[k] = r[k]
  <2>1. t[k] \in Relation
    BY TakenRow
  <2>2. CASE k = <<b, u>>
    BY <2>1, <2>2 DEF Taken, MarkBagAsPaid, Relation
  <2>3. CASE k # <<b, u>>
    BY <2>3 DEF Taken, MarkBagAsPaid
  <2>. QED  BY <2>2, <2>3
<1>3. l = [k \in DOMAIN t |-> l[k]] /\ r = [k \in DOMAIN t |-> r[k]]
  BY <1>1 DEF Taken, MarkBagAsPaid
<1>. HIDE DEF l, r
<1>4. l = r
  BY <1>2, <1>3
<1>. QED  BY <1>4 DEF l, r

\* nor do those that delete rows,
LEMMA TakenRemoval ==
    ASSUME NEW t, NEW S \in SUBSET DOMAIN t
    PROVE  Taken(Restrict(t, S)) = Restrict(Taken(t), S)
BY DEF Taken, Restrict

\* nor the passing of time,
LEMMA TakenTick ==
    ASSUME NEW t, IsRelationTable(t)
    PROVE  Taken(AgeRelations(t)) = AgeRelations(Taken(t))
<1>. DEFINE older(k) == [contract |-> t[k].contract, created |-> Older(t[k].created),
                         attempts |-> 0]
<1>1. ASSUME NEW k \in DOMAIN t PROVE [AgeRelations(t)[k] EXCEPT !.attempts = 0] = older(k)
  <2>1. t[k] \in Relation
    BY TakenRow
  <2>2. AgeRelations(t)[k] = [t[k] EXCEPT !.created = Older(t[k].created)]
    BY DEF AgeRelations
  <2>3. [t[k] EXCEPT !.created = Older(t[k].created)]
           = [contract |-> t[k].contract, created |-> Older(t[k].created),
              attempts |-> t[k].attempts]
    BY <2>1 DEF Relation
  <2>4. AgeRelations(t)[k] = [contract |-> t[k].contract, created |-> Older(t[k].created),
                              attempts |-> t[k].attempts]
    BY <2>2, <2>3, Zenon
  <2>. QED  BY <2>4
<1>2. ASSUME NEW k \in DOMAIN t
      PROVE  [Taken(t)[k] EXCEPT !.created = Older(Taken(t)[k].created)] = older(k)
  <2>1. Taken(t)[k] = [contract |-> t[k].contract, created |-> t[k].created, attempts |-> 0]
    BY TakenRow
  <2>. QED  BY <2>1
<1>3. DOMAIN Taken(t) = DOMAIN t /\ DOMAIN AgeRelations(t) = DOMAIN t
  BY DEF Taken, AgeRelations
<1>4. Taken(AgeRelations(t)) = [k \in DOMAIN t |-> older(k)]
  <2>1. Taken(AgeRelations(t)) = [k \in DOMAIN t |-> [AgeRelations(t)[k] EXCEPT !.attempts = 0]]
    BY <1>3 DEF Taken
  <2>. HIDE DEF older
  <2>. QED  BY <1>1, <2>1, Zenon
<1>5. AgeRelations(Taken(t)) = [k \in DOMAIN t |-> older(k)]
  <2>1. AgeRelations(Taken(t))
           = [k \in DOMAIN t |-> [Taken(t)[k] EXCEPT !.created = Older(Taken(t)[k].created)]]
    BY <1>3 DEF AgeRelations
  <2>. HIDE DEF older
  <2>. QED  BY <1>2, <2>1, Zenon
<1>. QED  BY <1>4, <1>5

\* and the one statement that changes the counter is not seen at all;
LEMMA TakenMarking ==
    ASSUME NEW t, IsRelationTable(t), NEW rows
    PROVE  Taken(Queue!MarkQueued(t, rows)) = Taken(t)
<1>1. ASSUME NEW k \in DOMAIN t
      PROVE  [Queue!MarkQueued(t, rows)[k] EXCEPT !.attempts = 0] = [t[k] EXCEPT !.attempts = 0]
  <2>1. t[k] \in Relation
    BY TakenRow
  <2>. QED  BY <2>1 DEF Queue!MarkQueued, Relation
<1>2. DOMAIN Queue!MarkQueued(t, rows) = DOMAIN t
  BY DEF Queue!MarkQueued
<1>. QED  BY <1>1, <1>2 DEF Taken

\* its queries find the same rows.
LEMMA TakenQueries ==
    ASSUME NEW t, IsRelationTable(t), NEW u, NEW sec
    PROVE  /\ FreshUnpaid(Taken(t), u, sec) = FreshUnpaid(t, u, sec)
           /\ ExpiredUnpaid(Taken(t), sec) = ExpiredUnpaid(t, sec)
           /\ UsedBags(Taken(t)) = UsedBags(t)
           /\ DOMAIN Taken(t) = DOMAIN t
           /\ \A k \in DOMAIN t : Taken(t)[k].contract = t[k].contract
<1>1. DOMAIN Taken(t) = DOMAIN t
  BY DEF Taken
<1>2. ASSUME NEW k \in DOMAIN t
      PROVE  Taken(t)[k].contract = t[k].contract /\ Taken(t)[k].created = t[k].created
  <2>1. Taken(t)[k] = [contract |-> t[k].contract, created |-> t[k].created, attempts |-> 0]
    BY TakenRow
  <2>. QED  BY <2>1
<1>. QED  BY <1>1, <1>2 DEF FreshUnpaid, ExpiredUnpaid, UsedBags, IsUnpaid

\* A step of BagLifecycle is the same step on the relations without their counters.
LEMMA LifeStepSeen ==
    ASSUME CompInv, HandlersAndLifeWorkers
    PROVE  LifeView!Next
<1>1. IsRelationTable(bag_users) /\ Uncounted = Taken(bag_users) /\ Uncounted' = Taken(bag_users')
  BY UncountedIsTaken DEF CompInv, TableInv
<1>2. ASSUME bag_users' = bag_users PROVE Uncounted' = Uncounted
  BY <1>1, <1>2
<1>. HIDE DEF Uncounted
<1>. USE DEF Life!statementVars, LifeView!statementVars, Life!daemonVars, LifeView!daemonVars,
             Life!tables, LifeView!tables
<1>3. ASSUME NEW s \in Uploads, NEW u \in Users, Life!CheckUnpaid(s, u) PROVE LifeView!Next
  <2>1. FreshUnpaid(Uncounted, u, PublicLife) = FreshUnpaid(bag_users, u, PublicLife)
    BY <1>1, TakenQueries
  <2>2. LifeView!CanUpload(Uncounted, u, PublicLife)
    BY <1>3, <2>1 DEF Life!CheckUnpaid, Life!CanUpload, LifeView!CanUpload, Life!FreshUnpaid,
                      LifeView!FreshUnpaid, FreshUnpaid, Life!IsUnpaid, LifeView!IsUnpaid, IsUnpaid
  <2>3. LifeView!CheckUnpaid(s, u)
    BY <1>2, <1>3, <2>2 DEF Life!CheckUnpaid, LifeView!CheckUnpaid
  <2>. QED  BY <2>3 DEF LifeView!Next
<1>4. ASSUME NEW s \in Uploads, Life!CheckSpace(s) PROVE LifeView!Next
  <2>1. LifeView!Cardinality(storage) = Life!Cardinality(storage)
    BY DEF LifeView!Cardinality, Life!Cardinality
  <2>2. LifeView!CheckSpace(s)
    BY <1>2, <1>4, <2>1 DEF Life!CheckSpace, LifeView!CheckSpace
  <2>. QED  BY <2>2 DEF LifeView!Next
<1>5. ASSUME NEW s \in Uploads, NEW b \in Bags, Life!CreateBag(s, b) \/ Life!GiveUpCreate(s, b)
      PROVE  LifeView!Next
  <2>1. LifeView!CreateBag(s, b) \/ LifeView!GiveUpCreate(s, b)
    BY <1>2, <1>5 DEF Life!CreateBag, LifeView!CreateBag, Life!GiveUpCreate,
                      LifeView!GiveUpCreate, Life!Idle, LifeView!Idle
  <2>. QED  BY <2>1 DEF LifeView!Next
<1>6. ASSUME NEW b \in Bags, Life!LateCreate(b) \/ Life!RemoveBag(b) \/ Life!SkipBag(b)
      PROVE  LifeView!Next
  <2>1. LifeView!LateCreate(b) \/ LifeView!RemoveBag(b) \/ LifeView!SkipBag(b)
    BY <1>2, <1>6 DEF Life!LateCreate, LifeView!LateCreate, Life!RemoveBag, LifeView!RemoveBag,
                      Life!TakeFromDisk, LifeView!TakeFromDisk, Life!SkipBag, LifeView!SkipBag
  <2>. QED  BY <2>1 DEF LifeView!Next
<1>7. ASSUME NEW s \in Uploads, Life!StartSaving(s) \/ Life!SaveFails(s) \/ Life!AbortUpload(s)
      PROVE  LifeView!Next
  <2>1. Life!StartSaving(s) => LifeView!StartSaving(s)
    BY <1>2 DEF Life!StartSaving, LifeView!StartSaving, Life!StartAddBag, LifeView!StartAddBag,
                Life!Put, LifeView!Put
  <2>2. Life!SaveFails(s) => LifeView!SaveFails(s)
    BY <1>2 DEF Life!SaveFails, LifeView!SaveFails, Life!AddBagFails, LifeView!AddBagFails,
                Life!Added, LifeView!Added, Life!Restrict, LifeView!Restrict, Life!Idle,
                LifeView!Idle
  <2>3. Life!AbortUpload(s) => LifeView!AbortUpload(s)
    BY <1>2 DEF Life!AbortUpload, LifeView!AbortUpload, Life!Idle, LifeView!Idle
  <2>. QED  BY <1>7, <2>1, <2>2, <2>3 DEF LifeView!Next
<1>8. ASSUME NEW s \in Uploads, Life!SaveBag(s) PROVE LifeView!Next
  <2>. DEFINE b == upload[s].bag  u == upload[s].user
  <2>1. b \in Bags /\ u \in Users
    BY <1>8 DEF CompInv, UploadsKnown, Life!SaveBag
  <2>. HIDE DEF b, u
  <2>2. bag_users' = AddBag(bag_users, b, u)
    BY <1>8 DEF b, u, Life!SaveBag, Life!CommitAddBag, Life!AddBag, AddBag, Life!Put, Put,
                Life!NewRelation, NewRelation
  <2>3. Uncounted' = AddBag(Uncounted, b, u)
    BY <1>1, <2>1, <2>2, TakenAddBag
  <2>4. Uncounted' = LifeView!AddBag(Uncounted, b, u)
    BY <2>3 DEF LifeView!AddBag, AddBag, LifeView!Put, Put, LifeView!NewRelation, NewRelation
  <2>5. LifeView!CommitAddBag(b, u)
    BY <1>8, <2>4 DEF b, u, Life!SaveBag, Life!CommitAddBag, LifeView!CommitAddBag, Life!Added,
                      LifeView!Added, Life!Restrict, LifeView!Restrict
  <2>6. LifeView!SaveBag(s)
    BY <1>8, <2>5 DEF b, u, Life!SaveBag, LifeView!SaveBag, Life!Idle, LifeView!Idle
  <2>. QED  BY <2>6 DEF LifeView!Next
<1>9. ASSUME NEW b \in Bags, NEW u \in Users, NEW c \in Contracts, Life!Pay(b, u, c)
      PROVE  LifeView!Next
  <2>1. bag_users' = MarkBagAsPaid(bag_users, b, u, c)
    BY <1>9 DEF Life!Pay, Life!CommitPayment, Life!MarkBagAsPaid, MarkBagAsPaid
  <2>2. Uncounted' = MarkBagAsPaid(Uncounted, b, u, c)
    BY <1>1, <2>1, TakenPayment
  <2>3. Uncounted' = LifeView!MarkBagAsPaid(Uncounted, b, u, c)
    BY <2>2 DEF LifeView!MarkBagAsPaid, MarkBagAsPaid
  <2>4. LifeView!Pay(b, u, c)
    BY <1>9, <2>3 DEF Life!Pay, Life!CommitPayment, LifeView!Pay, LifeView!CommitPayment
  <2>. QED  BY <2>4 DEF LifeView!Next
<1>10. DOMAIN Uncounted = DOMAIN bag_users
  BY <1>1 DEF Taken
<1>11. ASSUME NEW keys, bag_users' = Restrict(bag_users, DOMAIN bag_users \ keys)
       PROVE  Uncounted' = LifeView!Restrict(Uncounted, DOMAIN Uncounted \ keys)
  <2>1. Uncounted' = Restrict(Uncounted, DOMAIN bag_users \ keys)
    BY <1>1, <1>11, TakenRemoval
  <2>. QED  BY <1>10, <2>1 DEF LifeView!Restrict, Restrict
<1>12. ASSUME NEW b \in Bags, NEW u \in Users, Life!DeleteBag(b, u) PROVE LifeView!Next
  <2>1. bag_users' = Restrict(bag_users, DOMAIN bag_users \ {<<b, u>>})
    BY <1>12 DEF Life!DeleteBag, Life!CommitDeletion, Life!RemoveUserBagRelation, Life!Restrict,
                 Restrict
  <2>2. Uncounted' = LifeView!RemoveUserBagRelation(Uncounted, b, u)
    BY <1>11, <2>1 DEF LifeView!RemoveUserBagRelation
  <2>3. LifeView!CommitDeletion(b, u)
    BY <1>12, <2>2 DEF Life!DeleteBag, Life!CommitDeletion, LifeView!CommitDeletion,
                       Life!Restrict, LifeView!Restrict
  <2>4. LifeView!DeleteBag(b, u)
    BY <1>12, <2>3 DEF Life!DeleteBag, LifeView!DeleteBag
  <2>. QED  BY <2>4 DEF LifeView!Next
<1>13. CASE Life!SelectUnpaidFiles
  <2>. DEFINE found == Life!ExpiredUnpaid(bag_users, PrivateLife)
              seen == LifeView!ExpiredUnpaid(Uncounted, PrivateLife)
  <2>1. found = seen
    <3>1. found = ExpiredUnpaid(bag_users, PrivateLife) /\ seen = ExpiredUnpaid(Uncounted, PrivateLife)
      BY DEF Life!ExpiredUnpaid, LifeView!ExpiredUnpaid, ExpiredUnpaid, Life!IsUnpaid,
             LifeView!IsUnpaid, IsUnpaid
    <3>. QED  BY <1>1, <3>1, TakenQueries
  <2>2. \A k \in found : Uncounted[k].contract = bag_users[k].contract
    <3>1. found \subseteq DOMAIN bag_users
      BY DEF Life!ExpiredUnpaid
    <3>. QED  BY <1>1, <3>1, TakenQueries
  <2>3. expiring' = [k \in found |-> bag_users[k].contract]
    BY <1>13 DEF Life!SelectUnpaidFiles, Life!SelectExpired
  <2>. HIDE DEF found, seen
  <2>4. expiring' = [k \in seen |-> Uncounted[k].contract]
    BY <2>1, <2>2, <2>3
  <2>5. LifeView!SelectExpired
    BY <1>2, <1>13, <2>4 DEF seen, Life!SelectUnpaidFiles, Life!SelectExpired,
                             LifeView!SelectExpired, Life!NoRows, LifeView!NoRows
  <2>6. LifeView!SelectUnpaidFiles
    BY <1>13, <2>5 DEF Life!SelectUnpaidFiles, LifeView!SelectUnpaidFiles
  <2>. QED  BY <2>6 DEF LifeView!Next
<1>14. CASE Life!RemoveUnpaidRelations
  <2>1. bag_users' = Restrict(bag_users, DOMAIN bag_users \ DOMAIN expiring)
    BY <1>14 DEF Life!RemoveUnpaidRelations, Life!DeleteExpired, Life!Restrict, Restrict
  <2>2. Uncounted' = LifeView!Restrict(Uncounted, DOMAIN Uncounted \ DOMAIN expiring)
    BY <1>11, <2>1
  <2>3. LifeView!DeleteExpired
    BY <1>14, <2>2 DEF Life!RemoveUnpaidRelations, Life!DeleteExpired, LifeView!DeleteExpired,
                       Life!NoRows, LifeView!NoRows
  <2>4. LifeView!RemoveUnpaidRelations
    BY <1>14, <2>3 DEF Life!RemoveUnpaidRelations, LifeView!RemoveUnpaidRelations
  <2>. QED  BY <2>4 DEF LifeView!Next
<1>15. CASE Life!SelectUnusedBags
  <2>1. UsedBags(Uncounted) = UsedBags(bag_users)
    BY <1>1, TakenQueries
  <2>2. LifeView!UnusedBags(bags, Uncounted) = Life!UnusedBags(bags, bag_users)
    BY <2>1 DEF LifeView!UnusedBags, Life!UnusedBags, LifeView!UsedBags, Life!UsedBags, UsedBags
  <2>3. LifeView!SelectUnused
    BY <1>2, <1>10, <1>15, <2>2
       DEF Life!SelectUnusedBags, Life!SelectUnused, LifeView!SelectUnused, Life!NotForgetting,
           LifeView!NotForgetting
  <2>4. LifeView!SelectUnusedBags
    BY <1>15, <2>3 DEF Life!SelectUnusedBags, LifeView!SelectUnusedBags
  <2>. QED  BY <2>4 DEF LifeView!Next
<1>16. CASE Life!RemoveUnusedBags \/ Life!StatementFails
  <2>1. Life!RemoveUnusedBags => LifeView!RemoveUnusedBags
    BY <1>2 DEF Life!RemoveUnusedBags, LifeView!RemoveUnusedBags, Life!DeleteUnused,
                LifeView!DeleteUnused, Life!NotForgetting, LifeView!NotForgetting
  <2>2. Life!StatementFails => LifeView!StatementFails
    BY <1>2 DEF Life!StatementFails, LifeView!StatementFails, Life!RemovalFails,
                LifeView!RemovalFails, Life!NotForgetting, LifeView!NotForgetting,
                Life!NoRows, LifeView!NoRows
  <2>. QED  BY <1>16, <2>1, <2>2 DEF LifeView!Next
<1>. QED
  BY <1>3, <1>4, <1>5, <1>6, <1>7, <1>8, <1>9, <1>12, <1>13, <1>14, <1>15, <1>16
     DEF HandlersAndLifeWorkers

\* A step of the queue leaves what BagLifecycle sees of the tables as it was.
LEMMA QueueStepUnseen ==
    ASSUME CompInv, QueueRequestsAndWorkers
    PROVE  UNCHANGED <<bags, Uncounted>>
<1>1. IsRelationTable(bag_users) /\ Uncounted = Taken(bag_users) /\ Uncounted' = Taken(bag_users')
  BY UncountedIsTaken DEF CompInv, TableInv
<1>. HIDE DEF Uncounted
<1>2. ASSUME UNCHANGED <<bags, bag_users>> PROVE UNCHANGED <<bags, Uncounted>>
  BY <1>1, <1>2
<1>3. ASSUME NEW rows, bags' = bags, bag_users' = Queue!MarkQueued(bag_users, rows)
      PROVE  UNCHANGED <<bags, Uncounted>>
  BY <1>1, <1>3, TakenMarking
<1>. USE DEF Queue!filesVars, Queue!workerVars
<1>4. ASSUME NEW u \in Users, NEW c \in Contracts, NEW ps \in SUBSET Providers,
             Queue!NotifyProviders(u, c, ps)
      PROVE  UNCHANGED <<bags, Uncounted>>
  BY <1>2, <1>4 DEF Queue!NotifyProviders
<1>5. CASE Queue!QueueRequest
  <2>1. bag_users' = Queue!MarkQueued(bag_users, request) /\ bags' = bags
    BY <1>5 DEF Queue!QueueRequest, Queue!AddProviderToNotifyQueue
  <2>. QED  BY <1>3, <2>1
<1>6. CASE Queue!LookupEnds
  <2>1. ASSUME NEW found \in SUBSET Queue!QueueKeys,
               NEW bagOf \in [{pair[2] : pair \in collector} -> Bags],
               Queue!QueueProviders(found, bagOf)
        PROVE  UNCHANGED <<bags, Uncounted>>
    <3>1. bags' = bags
      BY <2>1 DEF Queue!QueueProviders
    <3>2. \/ bag_users' = bag_users
          \/ bag_users' = Queue!MarkQueued(bag_users, Queue!FoundRows(found, bagOf))
      BY <2>1 DEF Queue!QueueProviders, Queue!IncreaseAttempts, Queue!AddProviderToNotifyQueue
    <3>. QED  BY <1>2, <1>3, <3>1, <3>2
  <2>2. CASE Queue!LookupFails
    BY <1>2, <2>2 DEF Queue!LookupFails, Queue!IncreaseAttempts
  <2>. QED  BY <1>6, <2>1, <2>2 DEF Queue!LookupEnds
<1>7. ASSUME NEW answered, NEW failed, NEW written,
             Queue!CountFailed(answered, failed, written)
      PROVE  UNCHANGED <<bags, Uncounted>>
  BY <1>2, <1>7 DEF Queue!CountFailed
<1>8. ASSUME NEW written \in BOOLEAN, Queue!MarkFails(written) PROVE UNCHANGED <<bags, Uncounted>>
  BY <1>2, <1>8 DEF Queue!MarkFails
<1>9. ASSUME NEW reported, NEW failed, NEW written,
             Queue!CountUnanswered(reported, failed, written)
      PROVE  UNCHANGED <<bags, Uncounted>>
  BY <1>2, <1>9 DEF Queue!CountUnanswered
<1>10. CASE \/ Queue!RequestFails \/ Queue!PickContracts \/ Queue!PickToNotify
            \/ Queue!MarkAnswered \/ Queue!PickInProgress \/ Queue!SaveReported
            \/ Queue!SaveReportedFails \/ Queue!RemoveNotifiedBags
  BY <1>2, <1>10
     DEF Queue!RequestFails, Queue!PickContracts, Queue!PickToNotify, Queue!MarkAnswered,
         Queue!PickInProgress, Queue!SaveReported, Queue!SaveReportedFails,
         Queue!RemoveNotifiedBags
<1>. QED
  BY <1>4, <1>5, <1>6, <1>7, <1>8, <1>9, <1>10 DEF QueueRequestsAndWorkers

\* Each step of the composition is one of BagLifecycle, or none that it sees.
LEMMA StepOfLife ==
    ASSUME CompInv, [Next]_vars
    PROVE  [LifeView!Next]_(LifeView!vars)
<1>1. IsRelationTable(bag_users) /\ Uncounted = Taken(bag_users) /\ Uncounted' = Taken(bag_users')
  BY UncountedIsTaken DEF CompInv, TableInv
<1>. HIDE DEF Uncounted
<1>2. ASSUME UNCHANGED <<bags, Uncounted, lifeVars>> PROVE UNCHANGED LifeView!vars
  BY <1>2 DEF LifeView!vars, LifeView!statementVars, LifeView!tables, LifeView!daemonVars, lifeVars
<1>. USE DEF Life!statementVars, LifeView!statementVars, Life!daemonVars, LifeView!daemonVars,
             Life!tables, LifeView!tables
<1>3. CASE HandlersAndLifeWorkers
  BY <1>3, LifeStepSeen
<1>4. CASE QueueRequestsAndWorkers
  BY <1>2, <1>4, QueueStepUnseen DEF QueueRequestsAndWorkers
<1>5. ASSUME NEW k \in Providers \X Contracts, NEW b \in Bags, RemoveFromDisk(k, b)
      PROVE  [LifeView!Next]_(LifeView!vars)
  <2>1. UNCHANGED <<bags, bag_users>>
    BY <1>5 DEF RemoveFromDisk, Queue!RemoveFromDisk, Queue!filesVars
  <2>2. Uncounted' = Uncounted
    BY <1>1, <2>1
  <2>3. CASE Life!RemoveNotifiedBag(b)
    <3>1. LifeView!RemoveNotifiedBag(b)
      BY <2>2, <2>3 DEF Life!RemoveNotifiedBag, LifeView!RemoveNotifiedBag, Life!TakeFromDisk,
                        LifeView!TakeFromDisk
    <3>. QED  BY <3>1 DEF LifeView!Next
  <2>4. CASE UNCHANGED lifeVars
    BY <1>2, <2>1, <2>2, <2>4
  <2>. QED  BY <1>5, <2>3, <2>4 DEF RemoveFromDisk
<1>6. CASE Restart
  <2>1. LifeView!Restart
    BY <1>1, <1>6
       DEF Restart, Life!Restart, LifeView!Restart, Life!ConnectionsEnd, LifeView!ConnectionsEnd,
           Life!Approved, LifeView!Approved, Life!Idle, LifeView!Idle, Life!NoRows,
           LifeView!NoRows, Life!NotForgetting, LifeView!NotForgetting
  <2>. QED  BY <2>1 DEF LifeView!Next
<1>7. CASE Tick
  <2>1. bag_users' = AgeRelations(bag_users)
    BY <1>7 DEF Tick, Life!Tick, Life!TimePasses, Life!AgeRelations, AgeRelations, Life!Older,
                Older
  <2>2. Uncounted' = AgeRelations(Uncounted)
    BY <1>1, <2>1, TakenTick
  <2>3. Uncounted' = LifeView!AgeRelations(Uncounted)
    BY <2>2 DEF LifeView!AgeRelations, AgeRelations, LifeView!Older, Older
  <2>4. LifeView!Tick
    BY <1>7, <2>3 DEF Tick, Life!Tick, LifeView!Tick, Life!TimePasses, LifeView!TimePasses
  <2>. QED  BY <2>4 DEF LifeView!Next
<1>8. CASE UNCHANGED vars
  BY <1>1, <1>2, <1>8 DEF vars, tables
<1>. QED  BY <1>3, <1>4, <1>5, <1>6, <1>7, <1>8 DEF Next

\* The composition implements BagLifecycle: to its handlers and workers the queue is
\* a counter they do not read, and a worker that takes bags from the disk.  What is
\* proved of a bag's life alone (UnpaidBound, QuotaBound, IsBagOfUser and what
\* ProgramDropsRelations says) holds of it here.
THEOREM CompositionImplementsLife == Spec => LifeSpec
<1>1. Init => LifeView!Init
  <2>. SUFFICES ASSUME Init PROVE LifeView!Init
    OBVIOUS
  <2>1. Uncounted = LifeView!NoRows
    BY DEF Init, Life!Init, Life!StatementsInit, Life!NoRows, Uncounted, LifeView!NoRows
  <2>. HIDE DEF Uncounted
  <2>. QED
    BY <2>1 DEF Init, Life!Init, LifeView!Init, Life!StatementsInit, LifeView!StatementsInit,
                Life!Idle, LifeView!Idle, Life!NoRows, LifeView!NoRows, Life!NotForgetting,
                LifeView!NotForgetting
<1>2. CompInv /\ [Next]_vars => [LifeView!Next]_(LifeView!vars)
  BY StepOfLife
<1>. QED  BY <1>1, <1>2, CompInvariant, PTL DEF Spec, LifeSpec, LifeView!Spec

--------------------------------------------------------------------------------
(* Who drops relations. *)

\* A relation whose providers are queued is paid.  So its own user takes it back, or a
\* RemoveUnpaidBagsRelations that selected it before it was paid.
THEOREM QueuedRelationsAreKept == Spec => QueuedRelationIsKept
<1>. DEFINE MayGo(k) == k \in deleted' \/ k \in DOMAIN expiring
            OnlyThese == \A k \in DOMAIN bag_users \ DOMAIN bag_users' : MayGo(k)
            Kept == \A k \in DOMAIN bag_users \ DOMAIN bag_users' :
                        bag_users[k].attempts = -1 =>
                           \/ k \in deleted'
                           \/ /\ ~IsUnpaid(bag_users[k])
                              /\ k \in DOMAIN expiring /\ expiring[k] = NoContract
<1>1. ASSUME CompInv, [Next]_vars PROVE OnlyThese
  <2>1. ASSUME DOMAIN bag_users \subseteq DOMAIN bag_users' PROVE OnlyThese
    BY <2>1
  <2>2. ASSUME NEW s \in Uploads, Life!SaveBag(s) PROVE OnlyThese
    <3>1. DOMAIN bag_users \subseteq DOMAIN bag_users'
      BY <2>2 DEF Life!SaveBag, Life!CommitAddBag, Life!AddBag, Life!Put
    <3>. QED  BY <2>1, <3>1
  <2>3. ASSUME NEW b \in Bags, NEW u \in Users, NEW c \in Contracts, Life!Pay(b, u, c)
        PROVE  OnlyThese
    <3>1. DOMAIN bag_users' = DOMAIN bag_users
      BY <2>3 DEF Life!Pay, Life!CommitPayment, Life!MarkBagAsPaid
    <3>. QED  BY <2>1, <3>1
  <2>4. ASSUME NEW b \in Bags, NEW u \in Users, Life!DeleteBag(b, u) PROVE OnlyThese
    BY <2>4 DEF Life!DeleteBag, Life!CommitDeletion, Life!RemoveUserBagRelation, Life!Restrict
  <2>5. CASE Life!RemoveUnpaidRelations
    BY <2>5 DEF Life!RemoveUnpaidRelations, Life!DeleteExpired, Life!Restrict
  <2>6. ASSUME UNCHANGED bag_users PROVE OnlyThese
    BY <2>6
  <2>7. ASSUME NEW s \in Uploads,
               \/ \E u \in Users : Life!CheckUnpaid(s, u)
               \/ Life!CheckSpace(s) \/ Life!AbortUpload(s)
               \/ Life!StartSaving(s) \/ Life!SaveFails(s)
               \/ \E b \in Bags : Life!CreateBag(s, b) \/ Life!GiveUpCreate(s, b)
        PROVE  OnlyThese
    BY <2>6, <2>7
       DEF Life!CheckUnpaid, Life!CheckSpace, Life!AbortUpload, Life!CreateBag,
           Life!GiveUpCreate, Life!StartSaving, Life!StartAddBag, Life!SaveFails,
           Life!AddBagFails, Life!statementVars, Life!tables
  <2>8. ASSUME \/ \E b \in Bags : Life!LateCreate(b) \/ Life!RemoveBag(b) \/ Life!SkipBag(b)
               \/ Life!SelectUnpaidFiles \/ Life!SelectUnusedBags \/ Life!RemoveUnusedBags
               \/ Life!StatementFails
        PROVE  OnlyThese
    BY <2>6, <2>8
       DEF Life!LateCreate, Life!RemoveBag, Life!SkipBag, Life!SelectUnpaidFiles,
           Life!SelectExpired, Life!SelectUnusedBags, Life!SelectUnused, Life!RemoveUnusedBags,
           Life!DeleteUnused, Life!StatementFails, Life!RemovalFails, Life!statementVars,
           Life!tables
  <2>9. CASE QueueRequestsAndWorkers
    <3>1. Taken(bag_users) = Taken(bag_users')
      BY <1>1, <2>9, QueueStepUnseen, UncountedIsTaken
    <3>2. DOMAIN bag_users = DOMAIN bag_users'
      BY <3>1 DEF Taken
    <3>. QED  BY <2>1, <3>2
  <2>10. ASSUME NEW k \in Providers \X Contracts, NEW b \in Bags, RemoveFromDisk(k, b)
         PROVE  OnlyThese
    BY <2>6, <2>10 DEF RemoveFromDisk, Queue!RemoveFromDisk, Queue!filesVars
  <2>11. CASE Restart \/ UNCHANGED vars
    BY <2>6, <2>11 DEF Restart, Queue!Restart, Queue!filesVars, vars, tables
  <2>12. CASE Tick
    <3>1. DOMAIN bag_users' = DOMAIN bag_users
      BY <2>12 DEF Tick, Queue!Tick, Queue!AgeRelations
    <3>. QED  BY <2>1, <3>1
  <2>. HIDE DEF OnlyThese
  <2>. QED
    BY <1>1, <2>2, <2>3, <2>4, <2>5, <2>7, <2>8, <2>9, <2>10, <2>11, <2>12
       DEF Next, HandlersAndLifeWorkers
<1>2. CompInv /\ [Next]_vars => Kept
  BY <1>1 DEF CompInv, TableInv, QueuedIsPaid, ExpiringWasUnpaid
<1>. QED  BY <1>2, CompInvariant, PTL DEF Spec, QueuedRelationIsKept
================================================================================
