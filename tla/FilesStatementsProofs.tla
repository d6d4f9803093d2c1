------------------------- MODULE FilesStatementsProofs -------------------------
(***************************************************************************)
(* Theorems of FilesStatements, for every number of bags, users and        *)
(* contracts and every lifetime: what no overlap of the statements does.   *)
(***************************************************************************)
EXTENDS FilesStatements, FilesTablesProofs

--------------------------------------------------------------------------------
(* The invariant. *)

\* What RemoveUnpaidBagsRelations has selected is still there and overdue: a payment
\* and a second upload keep created_at, and a deletion takes the row from under it.
ExpiringIsOverdue ==
    \A k \in DOMAIN expiring :
        k \in DOMAIN bag_users /\ bag_users[k].created > PrivateLife

\* It was unpaid when it was selected.
ExpiringWasUnpaid == \A k \in DOMAIN expiring : expiring[k] = NoContract

\* RemoveUnusedBags has selected bags that had no relation in its snapshot.
ForgottenWasUnused == \A k \in forgetting.seen : k[1] \notin forgetting.bags

StatementsInv ==
    /\ StatementsTypeOK
    /\ ExpiringIsOverdue
    /\ ExpiringWasUnpaid
    /\ ForgottenWasUnused

\* What happens to relations that exist while time passes or users upload and pay: the row
\* keeps its age or gets older.
LEMMA RowsGrowOlder ==
    ASSUME NEW t, IsRelationTable(t), NEW k \in DOMAIN t, NEW sec \in Nat, t[k].created > sec
    PROVE  /\ \A b, u : k \in DOMAIN AddBag(t, b, u) /\ AddBag(t, b, u)[k].created > sec
           /\ \A b, u, c : /\ k \in DOMAIN MarkBagAsPaid(t, b, u, c)
                           /\ MarkBagAsPaid(t, b, u, c)[k].created > sec
           /\ k \in DOMAIN AgeRelations(t) /\ AgeRelations(t)[k].created > sec
<1>1. t[k] \in Relation
  BY DEF IsRelationTable
<1>2. \A b, u : k \in DOMAIN AddBag(t, b, u) /\ AddBag(t, b, u)[k].created > sec
  BY DEF AddBag, Put
<1>3. ASSUME NEW b, NEW u, NEW c
      PROVE  /\ k \in DOMAIN MarkBagAsPaid(t, b, u, c)
             /\ MarkBagAsPaid(t, b, u, c)[k].created > sec
  BY <1>1 DEF MarkBagAsPaid, Relation
<1>4. k \in DOMAIN AgeRelations(t) /\ AgeRelations(t)[k].created = Older(t[k].created)
  BY <1>1 DEF AgeRelations, Relation
<1>5. Older(t[k].created) > sec
  BY <1>1, AgeCapAssumption DEF Older, Relation
<1>. QED  BY <1>2, <1>3, <1>4, <1>5

\* Types are kept by every part of every statement.
LEMMA StatementsTypeInductive ==
    StatementsTypeOK /\ [StatementsNext]_statementVars => StatementsTypeOK'
<1>. SUFFICES ASSUME StatementsTypeOK, [StatementsNext]_statementVars PROVE StatementsTypeOK'
  OBVIOUS
<1>. USE DEF StatementsTypeOK
<1>k. \A b \in Bags, u \in Users : <<b, u>> \in Keys
  BY DEF Keys
<1>a. \A key : DOMAIN Restrict(adding, DOMAIN adding \ {key}) = DOMAIN adding \ {key}
  BY DEF Restrict
<1>b. \A key : \A k \in DOMAIN adding \ {key} : Restrict(adding, DOMAIN adding \ {key})[k] = adding[k]
  BY DEF Restrict
<1>n. DOMAIN NoRows = {} /\ NotForgetting \in [bags : SUBSET Bags, seen : SUBSET Keys]
  BY DEF NoRows, NotForgetting
<1>1. ASSUME NEW b \in Bags, NEW u \in Users, StartAddBag(b, u) PROVE StatementsTypeOK'
  <2>. DEFINE found == b \in bags
  <2>0. found \in BOOLEAN
    <3>1. CASE b \in bags
      <4>1. found = TRUE
        BY <3>1
      <4>. QED  BY <4>1
    <3>2. CASE b \notin bags
      <4>1. found = FALSE
        BY <3>2
      <4>. QED  BY <4>1
    <3>. QED  BY <3>1, <3>2
  <2>. HIDE DEF found
  <2>1. adding' = Put(adding, <<b, u>>, found) /\ <<b, u>> \notin DOMAIN adding
    BY <1>1 DEF StartAddBag, found
  <2>2. /\ DOMAIN adding' = DOMAIN adding \cup {<<b, u>>}
        /\ \A k \in DOMAIN adding' : adding'[k] \in BOOLEAN
    BY <2>0, <2>1 DEF Put
  <2>. QED  BY <1>1, <1>k, <2>1, <2>2 DEF StartAddBag, tables
<1>2. ASSUME NEW b \in Bags, NEW u \in Users, CommitAddBag(b, u) PROVE StatementsTypeOK'
  <2>1. IsRelationTable(bag_users')
    BY <1>2, AddBagTable DEF CommitAddBag
  <2>2. bags' \subseteq Bags
    BY <1>2 DEF CommitAddBag
  <2>. QED  BY <1>2, <1>a, <1>b, <2>1, <2>2 DEF CommitAddBag, Added
<1>3. ASSUME NEW b \in Bags, NEW u \in Users, AddBagFails(b, u) PROVE StatementsTypeOK'
  BY <1>3, <1>a, <1>b DEF AddBagFails, Added, tables
<1>4. ASSUME NEW b \in Bags, NEW u \in Users, NEW c \in Contracts, CommitPayment(b, u, c)
      PROVE  StatementsTypeOK'
  <2>1. IsRelationTable(bag_users')
    BY <1>4, MarkBagAsPaidTable DEF CommitPayment
  <2>. QED  BY <1>4, <2>1 DEF CommitPayment
<1>5. ASSUME NEW b \in Bags, NEW u \in Users, CommitDeletion(b, u) PROVE StatementsTypeOK'
  <2>1. IsRelationTable(bag_users')
    BY <1>5, RestrictTable DEF CommitDeletion, RemoveUserBagRelation
  <2>2. /\ DOMAIN expiring' \subseteq DOMAIN expiring
        /\ \A k \in DOMAIN expiring' : expiring'[k] = expiring[k]
    BY <1>5 DEF CommitDeletion, Restrict
  <2>. QED  BY <1>5, <1>k, <2>1, <2>2 DEF CommitDeletion
<1>6. CASE SelectExpired
  <2>1. /\ DOMAIN expiring' \subseteq DOMAIN bag_users
        /\ \A k \in DOMAIN expiring' : expiring'[k] = bag_users[k].contract
    BY <1>6 DEF SelectExpired, ExpiredUnpaid
  <2>2. \A k \in DOMAIN bag_users : k \in Keys /\ bag_users[k].contract \in Contracts \cup {NoContract}
    BY DEF IsRelationTable, Relation
  <2>. QED  BY <1>6, <2>1, <2>2 DEF SelectExpired, tables
<1>7. CASE DeleteExpired
  <2>1. IsRelationTable(bag_users')
    BY <1>7, RestrictTable DEF DeleteExpired
  <2>. QED  BY <1>7, <1>n, <2>1 DEF DeleteExpired
<1>8. CASE SelectUnused
  <2>1. UnusedBags(bags, bag_users) \subseteq Bags /\ DOMAIN bag_users \subseteq Keys
    BY DEF UnusedBags, IsRelationTable
  <2>. QED  BY <1>8, <2>1 DEF SelectUnused, tables
<1>9. CASE DeleteUnused
  BY <1>9, <1>n DEF DeleteUnused
<1>10. CASE RemovalFails
  BY <1>10, <1>n DEF RemovalFails, tables
<1>11. CASE ConnectionsEnd
  BY <1>11, <1>n DEF ConnectionsEnd, tables
<1>12. CASE TimePasses
  <2>1. IsRelationTable(bag_users')
    BY <1>12, AgeRelationsTable DEF TimePasses
  <2>. QED  BY <1>12, <2>1 DEF TimePasses
<1>13. CASE UNCHANGED statementVars
  BY <1>13 DEF statementVars, tables
<1>. QED
  BY <1>1, <1>2, <1>3, <1>4, <1>5, <1>6, <1>7, <1>8, <1>9, <1>10, <1>11, <1>12, <1>13
     DEF StatementsNext

\* Nothing that overlaps with RemoveUnpaidBagsRelations makes a row it has selected young,
\* and what it remembers of the rows is of the moment it selected them.
LEMMA ExpiringInductive ==
    /\ StatementsTypeOK /\ ExpiringIsOverdue /\ ExpiringWasUnpaid
    /\ [StatementsNext]_statementVars
    => ExpiringIsOverdue' /\ ExpiringWasUnpaid'
<1>. DEFINE Goal == ExpiringIsOverdue' /\ ExpiringWasUnpaid'
<1>. SUFFICES ASSUME StatementsTypeOK, ExpiringIsOverdue, ExpiringWasUnpaid,
                     [StatementsNext]_statementVars
     PROVE  Goal
  OBVIOUS
<1>t. IsRelationTable(bag_users) /\ PrivateLife \in Nat
  BY LifetimeAssumption DEF StatementsTypeOK
<1>o. \A k \in DOMAIN expiring :
         /\ \A b, u : /\ k \in DOMAIN AddBag(bag_users, b, u)
                      /\ AddBag(bag_users, b, u)[k].created > PrivateLife
         /\ \A b, u, c : /\ k \in DOMAIN MarkBagAsPaid(bag_users, b, u, c)
                         /\ MarkBagAsPaid(bag_users, b, u, c)[k].created > PrivateLife
         /\ k \in DOMAIN AgeRelations(bag_users)
         /\ AgeRelations(bag_users)[k].created > PrivateLife
  BY <1>t, RowsGrowOlder DEF ExpiringIsOverdue
<1>1. ASSUME NEW b \in Bags, NEW u \in Users, CommitAddBag(b, u) PROVE Goal
  BY <1>1, <1>o DEF CommitAddBag, ExpiringIsOverdue, ExpiringWasUnpaid
<1>2. ASSUME NEW b \in Bags, NEW u \in Users, NEW c \in Contracts, CommitPayment(b, u, c)
      PROVE  Goal
  BY <1>2, <1>o DEF CommitPayment, ExpiringIsOverdue, ExpiringWasUnpaid
<1>3. ASSUME NEW b \in Bags, NEW u \in Users, CommitDeletion(b, u) PROVE Goal
  <2>1. \A k \in DOMAIN bag_users \ {<<b, u>>} :
           k \in DOMAIN bag_users' /\ bag_users'[k] = bag_users[k]
    BY <1>3 DEF CommitDeletion, RemoveUserBagRelation, Restrict
  <2>2. /\ DOMAIN expiring' = DOMAIN expiring \ {<<b, u>>}
        /\ \A k \in DOMAIN expiring' : expiring'[k] = expiring[k]
    BY <1>3 DEF CommitDeletion, Restrict
  <2>. QED  BY <2>1, <2>2 DEF ExpiringIsOverdue, ExpiringWasUnpaid
<1>4. CASE SelectExpired
  BY <1>4 DEF SelectExpired, ExpiredUnpaid, IsUnpaid, tables, ExpiringIsOverdue, ExpiringWasUnpaid
<1>5. CASE expiring' = NoRows
  BY <1>5 DEF NoRows, ExpiringIsOverdue, ExpiringWasUnpaid
<1>6. CASE TimePasses
  BY <1>6, <1>o DEF TimePasses, ExpiringIsOverdue, ExpiringWasUnpaid
<1>7. CASE UNCHANGED <<bag_users, expiring>>
  BY <1>7 DEF ExpiringIsOverdue, ExpiringWasUnpaid
<1>. HIDE DEF Goal
<1>. QED
  BY <1>1, <1>2, <1>3, <1>4, <1>5, <1>6, <1>7
     DEF StatementsNext, StartAddBag, AddBagFails, DeleteExpired, SelectUnused, DeleteUnused,
         RemovalFails, ConnectionsEnd, statementVars, tables

\* Before the first request the tables are empty, and no statement runs.
LEMMA StatementsInvInit == StatementsInit => StatementsInv
BY DEF StatementsInit, StatementsInv, StatementsTypeOK, IsRelationTable, NoRows, NotForgetting,
       ExpiringIsOverdue, ExpiringWasUnpaid, ForgottenWasUnused

LEMMA StatementsInvInductive ==
    StatementsInv /\ [StatementsNext]_statementVars => StatementsInv'
<1>. SUFFICES ASSUME StatementsInv, [StatementsNext]_statementVars PROVE StatementsInv'
  OBVIOUS
<1>1. StatementsTypeOK' /\ ExpiringIsOverdue' /\ ExpiringWasUnpaid'
  BY StatementsTypeInductive, ExpiringInductive DEF StatementsInv
<1>2. ForgottenWasUnused'
  <2>1. CASE UNCHANGED forgetting
    BY <2>1 DEF StatementsInv, ForgottenWasUnused
  <2>2. CASE forgetting' = NotForgetting
    BY <2>2 DEF ForgottenWasUnused, NotForgetting
  <2>3. CASE SelectUnused
    BY <2>3 DEF SelectUnused, UnusedBags, UsedBags, ForgottenWasUnused
  <2>. QED
    BY <2>1, <2>2, <2>3
       DEF StatementsNext, StartAddBag, CommitAddBag, AddBagFails, CommitPayment, CommitDeletion,
           SelectExpired, DeleteExpired, DeleteUnused, RemovalFails, ConnectionsEnd, TimePasses,
           statementVars
<1>. QED  BY <1>1, <1>2 DEF StatementsInv

\* The strengthened invariant holds of every reachable state.
LEMMA StatementsInvariant == StatementsSpec => []StatementsInv
BY StatementsInvInit, StatementsInvInductive, PTL DEF StatementsSpec

--------------------------------------------------------------------------------
(* The theorems. *)

\* The tables keep their types under any overlap of the statements.
THEOREM StatementsTypeCorrect == StatementsSpec => []StatementsTypeOK
BY StatementsInvariant, PTL DEF StatementsInv

\* The one way to a relation without its bag, with any number of users and bags: the
\* snapshot of RemoveUnusedBags had no relation with a bag that it deletes, so the
\* relations it leaves behind are those committed since.
THEOREM OrphansComeFromOverlapOnly == StatementsSpec => OrphansComeFromOverlap
<1>. DEFINE Known(k) == \/ k \in DOMAIN bag_users /\ k[1] \notin bags
                        \/ k \in DOMAIN adding /\ adding[k]
                        \/ k[1] \in forgetting.bags /\ k \notin forgetting.seen
            Step == \A k \in DOMAIN bag_users' : k[1] \notin bags' => Known(k)
<1>1. ASSUME StatementsInv, [StatementsNext]_statementVars PROVE Step
  <2>t. IsRelationTable(bag_users)
    BY <1>1 DEF StatementsInv, StatementsTypeOK
  \* A step that adds no relation and takes no bag away.
  <2>a. ASSUME DOMAIN bag_users' \subseteq DOMAIN bag_users, bags' = bags PROVE Step
    BY <2>a
  <2>1. ASSUME NEW b \in Bags, NEW u \in Users, CommitAddBag(b, u) PROVE Step
    <3>1. DOMAIN bag_users' = DOMAIN bag_users \cup {<<b, u>>}
      BY <2>1, <2>t, AddBagTable DEF CommitAddBag
    <3>2. \/ bags' = bags /\ <<b, u>> \in DOMAIN adding /\ adding[<<b, u>>]
          \/ bags' = bags \cup {b}
      BY <2>1 DEF CommitAddBag
    <3>. QED  BY <3>1, <3>2
  <2>2. CASE DeleteUnused
    <3>1. UNCHANGED bag_users /\ bags' = bags \ forgetting.bags
      BY <2>2 DEF DeleteUnused
    <3>2. \A k \in forgetting.seen : k[1] \notin forgetting.bags
      BY <1>1 DEF StatementsInv, ForgottenWasUnused
    <3>. QED  BY <3>1, <3>2
  <2>3. ASSUME NEW b \in Bags, NEW u \in Users, NEW c \in Contracts, CommitPayment(b, u, c)
        PROVE  Step
    BY <2>3, <2>a, <2>t, MarkBagAsPaidTable DEF CommitPayment
  <2>4. ASSUME NEW b \in Bags, NEW u \in Users, CommitDeletion(b, u) PROVE Step
    BY <2>4, <2>a, <2>t, RestrictTable DEF CommitDeletion, RemoveUserBagRelation
  <2>5. CASE DeleteExpired
    BY <2>5, <2>a, <2>t, RestrictTable DEF DeleteExpired
  <2>6. CASE TimePasses
    BY <2>6, <2>a, <2>t, AgeRelationsTable DEF TimePasses
  <2>7. CASE UNCHANGED tables
    BY <2>7, <2>a DEF tables
  <2>. HIDE DEF Step
  <2>. QED
    BY <1>1, <2>1, <2>2, <2>3, <2>4, <2>5, <2>6, <2>7
       DEF StatementsNext, StartAddBag, AddBagFails, SelectExpired, SelectUnused, RemovalFails,
           ConnectionsEnd, statementVars
<1>. QED  BY <1>1, StatementsInvariant, PTL DEF StatementsSpec, OrphansComeFromOverlap

\* The relations that a step drops were deleted by their user, or selected by
\* RemoveUnpaidBagsRelations.
LEMMA WhoDrops ==
    ASSUME StatementsInv, [StatementsNext]_statementVars,
           NEW k \in DOMAIN bag_users \ DOMAIN bag_users'
    PROVE  k \in deleted' \/ k \in DOMAIN expiring
<1>. DEFINE Goal == k \in deleted' \/ k \in DOMAIN expiring
<1>t. IsRelationTable(bag_users)
  BY DEF StatementsInv, StatementsTypeOK
<1>a. ASSUME DOMAIN bag_users \subseteq DOMAIN bag_users' PROVE Goal
  BY <1>a
<1>1. ASSUME NEW b \in Bags, NEW u \in Users, CommitAddBag(b, u) PROVE Goal
  <2>1. DOMAIN bag_users' = DOMAIN bag_users \cup {<<b, u>>}
    BY <1>1, <1>t, AddBagTable DEF CommitAddBag
  <2>. QED  BY <1>a, <2>1
<1>2. ASSUME NEW b \in Bags, NEW u \in Users, NEW c \in Contracts, CommitPayment(b, u, c)
      PROVE  Goal
  BY <1>2, <1>a, <1>t, MarkBagAsPaidTable DEF CommitPayment
<1>3. ASSUME NEW b \in Bags, NEW u \in Users, CommitDeletion(b, u) PROVE Goal
  <2>1. DOMAIN bag_users' = DOMAIN bag_users \ {<<b, u>>} /\ deleted' = {<<b, u>>}
    BY <1>3, <1>t, RestrictTable DEF CommitDeletion, RemoveUserBagRelation
  <2>. QED  BY <2>1
<1>4. CASE DeleteExpired
  <2>1. DOMAIN bag_users' = DOMAIN bag_users \ DOMAIN expiring
    BY <1>4, <1>t, RestrictTable DEF DeleteExpired
  <2>. QED  BY <2>1
<1>5. CASE TimePasses
  BY <1>5, <1>a, <1>t, AgeRelationsTable DEF TimePasses
<1>6. CASE UNCHANGED bag_users
  BY <1>6, <1>a
<1>. HIDE DEF Goal
<1>. QED
  BY <1>1, <1>2, <1>3, <1>4, <1>5, <1>6
     DEF StatementsNext, StartAddBag, AddBagFails, SelectExpired, SelectUnused, DeleteUnused,
         RemovalFails, ConnectionsEnd, statementVars, tables, Goal

\* However payments, deletions and uploads fall between the two halves of the removal, the
\* only relations it takes from their users are overdue ones.
THEOREM DropsAreOwnOrOverdueAlways == StatementsSpec => DropsAreOwnOrOverdue
<1>1. StatementsInv /\ [StatementsNext]_statementVars =>
        [\A k \in DOMAIN bag_users \ DOMAIN bag_users' :
            k \in deleted' \/ bag_users[k].created > PrivateLife]_statementVars
  BY WhoDrops DEF StatementsInv, ExpiringIsOverdue
<1>. QED  BY <1>1, StatementsInvariant, PTL DEF StatementsSpec, DropsAreOwnOrOverdue

\* RemoveUnpaidBagsRelations takes a paid relation only if the payment came between its two
\* halves: what it deletes was unpaid when it was selected.
THEOREM PaidDropsOverlapPaymentOnly == StatementsSpec => PaidDropsOverlapPayment
<1>1. StatementsInv /\ [StatementsNext]_statementVars =>
        [\A k \in DOMAIN bag_users \ DOMAIN bag_users' :
            ~IsUnpaid(bag_users[k]) =>
               \/ k \in deleted'
               \/ k \in DOMAIN expiring /\ expiring[k] = NoContract]_statementVars
  BY WhoDrops DEF StatementsInv, ExpiringWasUnpaid
<1>. QED  BY <1>1, StatementsInvariant, PTL DEF StatementsSpec, PaidDropsOverlapPayment

--------------------------------------------------------------------------------
(* The relation of one key. *)

\* Each part of a statement leaves the relation of a key as it is, or takes it one step on
\* its way.
LEMMA RelationSteps ==
    ASSUME StatementsTypeOK, [StatementsNext]_statementVars, NEW k \in Keys
    PROVE  LET old == RelationState(bag_users, k, PrivateLife)
               new == RelationState(bag_users', k, PrivateLife)
           IN  \/ new = old
               \/ old = "none" /\ new = "fresh"
               \/ old = "fresh" /\ new = "expired"
               \/ old \in {"fresh", "expired"} /\ new = "paid"
               \/ old \in {"fresh", "expired", "paid"} /\ new = "none"
<1>. DEFINE old == RelationState(bag_users, k, PrivateLife)
            new == RelationState(bag_users', k, PrivateLife)
            Allowed == \/ new = old
                       \/ old = "none" /\ new = "fresh"
                       \/ old = "fresh" /\ new = "expired"
                       \/ old \in {"fresh", "expired"} /\ new = "paid"
                       \/ old \in {"fresh", "expired", "paid"} /\ new = "none"
<1>. SUFFICES Allowed
  OBVIOUS
<1>t. IsRelationTable(bag_users) /\ PrivateLife \in Nat /\ PrivateLife \in 0..(AgeCap - 1)
  BY LifetimeAssumption DEF StatementsTypeOK
<1>s. /\ old \in {"none", "fresh", "expired", "paid"}
      /\ k \notin DOMAIN bag_users => old = "none"
      /\ k \in DOMAIN bag_users => old # "none"
  BY DEF RelationState
<1>. HIDE DEF old, new
<1>1. ASSUME NEW b \in Bags, NEW u \in Users, CommitAddBag(b, u) PROVE Allowed
  <2>1. new = IF k = <<b, u>> /\ k \notin DOMAIN bag_users THEN "fresh" ELSE old
    BY <1>1, <1>t, StateAfterAddBag DEF old, new, CommitAddBag
  <2>. QED  BY <1>s, <2>1
<1>2. ASSUME NEW b \in Bags, NEW u \in Users, NEW c \in Contracts, CommitPayment(b, u, c)
      PROVE  Allowed
  <2>1. new = IF k = <<b, u>> /\ k \in DOMAIN bag_users THEN "paid" ELSE old
    BY <1>2, <1>t, StateAfterPayment DEF old, new, CommitPayment
  <2>. QED  BY <1>s, <2>1
<1>3. ASSUME NEW S \in SUBSET DOMAIN bag_users, bag_users' = Restrict(bag_users, S) PROVE Allowed
  <2>1. new = IF k \in S THEN old ELSE "none"
    BY <1>3, StateAfterRemoval DEF old, new
  <2>. QED  BY <1>s, <2>1
<1>4. ASSUME NEW b \in Bags, NEW u \in Users, CommitDeletion(b, u) PROVE Allowed
  BY <1>3, <1>4 DEF CommitDeletion, RemoveUserBagRelation
<1>5. CASE DeleteExpired
  BY <1>3, <1>5 DEF DeleteExpired
<1>6. CASE TimePasses
  BY <1>6, <1>t, StateAfterTick DEF old, new, TimePasses
<1>7. CASE UNCHANGED bag_users
  BY <1>7 DEF old, new
<1>. HIDE DEF Allowed
<1>. QED
  BY <1>1, <1>2, <1>4, <1>5, <1>6, <1>7
     DEF StatementsNext, StartAddBag, AddBagFails, SelectExpired, SelectUnused, DeleteUnused,
         RemovalFails, ConnectionsEnd, statementVars, tables

\* For any key that is a step of BagOfUser, or none.
LEMMA RelationOfUserSteps ==
    ASSUME StatementsTypeOK, [StatementsNext]_statementVars, NEW k \in Keys
    PROVE  [RelationView(k)!BagNext]_(RelationView(k)!bagVars)
BY RelationSteps
   DEF RelationView!bagVars, RelationView!BagNext, RelationView!BagIsSaved,
       RelationView!BagExpires, RelationView!BagIsPaid, RelationView!RelationEnds,
       RelationView!RelationBecomes

\* What a request relies on while it waits is true at READ COMMITTED, and not only of
\* statements that run one after the other.
THEOREM EveryRelationIsOneOfUser == StatementsSpec => IsRelationOfUser
<1>1. StatementsInit => \A k \in Keys : RelationView(k)!BagInit
  BY DEF StatementsInit, NoRows, RelationState, RelationView!BagInit
<1>2. StatementsInv /\ [StatementsNext]_statementVars =>
        [\A k \in Keys : [RelationView(k)!BagNext]_(RelationView(k)!bagVars)]_statementVars
  BY RelationOfUserSteps DEF StatementsInv
<1>. QED  BY <1>1, <1>2, StatementsInvariant, PTL DEF StatementsSpec, IsRelationOfUser
================================================================================
