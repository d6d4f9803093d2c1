--------------------------- MODULE BagLifecycleProofs ---------------------------
(***************************************************************************)
(* Theorems of BagLifecycle, for every number of bags, users, contracts    *)
(* and concurrent uploads and for all lifetimes and disk sizes.            *)
(***************************************************************************)
EXTENDS BagLifecycle, FilesStatementsProofs, FiniteSetTheorems

--------------------------------------------------------------------------------
(* The statements the program calls. *)

\* The steps that call no part of a statement.
NoStatement == UNCHANGED statementVars

\* Each step of the handlers and workers is a step of the statements they call, or none.
LEMMA StatementSteps ==
    ASSUME TypeOK, [Next]_vars
    PROVE  [StatementsNext]_statementVars
<1>. DEFINE Goal == [StatementsNext]_statementVars
<1>. SUFFICES Goal
  OBVIOUS
<1>1. ASSUME NEW s \in Uploads, upload[s].pc \in {"created", "saving"},
             \/ StartAddBag(upload[s].bag, upload[s].user)
             \/ CommitAddBag(upload[s].bag, upload[s].user)
             \/ AddBagFails(upload[s].bag, upload[s].user)
      PROVE  Goal
  <2>1. upload[s].bag \in Bags /\ upload[s].user \in Users
    BY <1>1 DEF TypeOK
  <2>. QED  BY <1>1, <2>1 DEF StatementsNext
<1>2. ASSUME NEW s \in Uploads, StartSaving(s) \/ SaveBag(s) \/ SaveFails(s) PROVE Goal
  BY <1>1, <1>2 DEF StartSaving, SaveBag, SaveFails
<1>3. ASSUME NEW b \in Bags, NEW u \in Users, NEW c \in Contracts, Pay(b, u, c) PROVE Goal
  BY <1>3 DEF Pay, StatementsNext
<1>4. ASSUME NEW b \in Bags, NEW u \in Users, DeleteBag(b, u) PROVE Goal
  BY <1>4 DEF DeleteBag, StatementsNext
<1>5. ASSUME \/ SelectExpired \/ DeleteExpired \/ SelectUnused \/ DeleteUnused
             \/ RemovalFails \/ ConnectionsEnd \/ TimePasses
      PROVE  Goal
  BY <1>5 DEF StatementsNext
<1>6. ASSUME \/ SelectUnpaidFiles \/ RemoveUnpaidRelations \/ SelectUnusedBags
             \/ RemoveUnusedBags \/ StatementFails \/ Restart \/ Tick
      PROVE  Goal
  BY <1>5, <1>6
     DEF SelectUnpaidFiles, RemoveUnpaidRelations, SelectUnusedBags, RemoveUnusedBags,
         StatementFails, Restart, Tick
<1>7. ASSUME NoStatement PROVE Goal
  BY <1>7 DEF NoStatement
<1>8. ASSUME NEW s \in Uploads,
             \/ \E u \in Users : CheckUnpaid(s, u)
             \/ CheckSpace(s) \/ AbortUpload(s)
             \/ \E b \in Bags : CreateBag(s, b) \/ GiveUpCreate(s, b)
      PROVE  Goal
  BY <1>7, <1>8 DEF CheckUnpaid, CheckSpace, AbortUpload, CreateBag, GiveUpCreate, NoStatement
<1>9. ASSUME NEW b \in Bags,
             LateCreate(b) \/ RemoveBag(b) \/ SkipBag(b) \/ RemoveNotifiedBag(b)
      PROVE  Goal
  BY <1>7, <1>9 DEF LateCreate, RemoveBag, SkipBag, RemoveNotifiedBag, NoStatement
<1>10. CASE UNCHANGED vars
  BY <1>7, <1>10 DEF vars, NoStatement
<1>. HIDE DEF Goal
<1>. QED  BY <1>2, <1>3, <1>4, <1>6, <1>8, <1>9, <1>10 DEF Next

--------------------------------------------------------------------------------
(* Types. *)

\* Types are kept by every handler, worker, restart and tick.
LEMMA TypeInductive == TypeOK /\ [Next]_vars => TypeOK'
<1>. SUFFICES ASSUME TypeOK, [Next]_vars PROVE TypeOK'
  OBVIOUS
<1>. DEFINE DaemonOK == storage \subseteq Bags /\ pending \subseteq Bags /\ belated \subseteq storage
            UploadOK == /\ upload \in [Uploads -> UploadState]
                        /\ \A s \in Uploads :
                              /\ upload[s].pc # "idle" => upload[s].user \in Users
                              /\ upload[s].pc \in {"created", "saving"} => upload[s].bag \in Bags
<1>o. DaemonOK /\ UploadOK /\ unused \subseteq Bags
  BY DEF TypeOK
<1>s. StatementsTypeOK'
  BY StatementSteps, StatementsTypeInductive DEF TypeOK
<1>d. UNCHANGED daemonVars => DaemonOK'
  BY <1>o DEF daemonVars
<1>u. UNCHANGED upload => UploadOK'
  BY <1>o
<1>i. \A s \in Uploads : upload' = [upload EXCEPT ![s] = Idle] => UploadOK'
  BY <1>o DEF Idle, UploadState
<1>q. DaemonOK' /\ UploadOK' /\ unused' \subseteq Bags => TypeOK'
  BY <1>s DEF TypeOK
<1>1. ASSUME NEW s \in Uploads, NEW u \in Users, CheckUnpaid(s, u) PROVE TypeOK'
  <2>1. UploadOK'
    BY <1>1, <1>o DEF CheckUnpaid, UploadState
  <2>. HIDE DEF DaemonOK, UploadOK
  <2>. QED  BY <1>1, <1>o, <1>d, <1>q, <2>1 DEF CheckUnpaid
<1>2. ASSUME NEW s \in Uploads, CheckSpace(s) PROVE TypeOK'
  <2>1. UploadOK'
    BY <1>2, <1>o DEF CheckSpace, UploadState
  <2>. HIDE DEF DaemonOK, UploadOK
  <2>. QED  BY <1>2, <1>o, <1>d, <1>q, <2>1 DEF CheckSpace
<1>3. ASSUME NEW s \in Uploads, NEW b \in Bags, CreateBag(s, b) PROVE TypeOK'
  <2>1. UploadOK'
    BY <1>3, <1>o DEF CreateBag, UploadState
  <2>2. DaemonOK'
    BY <1>3, <1>o DEF CreateBag
  <2>. HIDE DEF DaemonOK, UploadOK
  <2>. QED  BY <1>3, <1>o, <1>q, <2>1, <2>2 DEF CreateBag
<1>4. ASSUME NEW s \in Uploads, NEW b \in Bags, GiveUpCreate(s, b) PROVE TypeOK'
  <2>2. DaemonOK'
    BY <1>4, <1>o DEF GiveUpCreate
  <2>. HIDE DEF DaemonOK, UploadOK
  <2>. QED  BY <1>4, <1>o, <1>i, <1>q, <2>2 DEF GiveUpCreate
<1>5. ASSUME NEW b \in Bags, LateCreate(b) PROVE TypeOK'
  <2>2. DaemonOK'
    BY <1>5, <1>o DEF LateCreate
  <2>. HIDE DEF DaemonOK, UploadOK
  <2>. QED  BY <1>5, <1>o, <1>u, <1>q, <2>2 DEF LateCreate
<1>6. ASSUME NEW s \in Uploads, StartSaving(s) PROVE TypeOK'
  <2>1. UploadOK'
    BY <1>6, <1>o DEF StartSaving, UploadState
  <2>. HIDE DEF DaemonOK, UploadOK
  <2>. QED  BY <1>6, <1>o, <1>d, <1>q, <2>1 DEF StartSaving
<1>7. ASSUME NEW s \in Uploads, SaveBag(s) \/ SaveFails(s) \/ AbortUpload(s) PROVE TypeOK'
  <2>. HIDE DEF DaemonOK, UploadOK
  <2>. QED  BY <1>7, <1>o, <1>d, <1>i, <1>q DEF SaveBag, SaveFails, AbortUpload
<1>8. ASSUME UNCHANGED <<daemonVars, upload, unused>> PROVE TypeOK'
  <2>. HIDE DEF DaemonOK, UploadOK
  <2>. QED  BY <1>8, <1>o, <1>d, <1>u, <1>q
<1>9. CASE RemoveUnusedBags
  <2>1. unused' \subseteq Bags
    BY <1>9 DEF RemoveUnusedBags, TypeOK, StatementsTypeOK
  <2>. HIDE DEF DaemonOK, UploadOK
  <2>. QED  BY <1>9, <1>d, <1>u, <1>q, <2>1 DEF RemoveUnusedBags
<1>10. ASSUME NEW b \in Bags, RemoveBag(b) \/ RemoveNotifiedBag(b) PROVE TypeOK'
  <2>1. DaemonOK' /\ unused' \subseteq Bags
    BY <1>10, <1>o DEF RemoveBag, RemoveNotifiedBag, TakeFromDisk
  <2>. HIDE DEF DaemonOK, UploadOK
  <2>. QED  BY <1>10, <1>u, <1>q, <2>1 DEF RemoveBag, RemoveNotifiedBag
<1>11. ASSUME NEW b \in Bags, SkipBag(b) PROVE TypeOK'
  <2>1. unused' \subseteq Bags
    BY <1>11, <1>o DEF SkipBag
  <2>. HIDE DEF DaemonOK, UploadOK
  <2>. QED  BY <1>11, <1>d, <1>u, <1>q, <2>1 DEF SkipBag
<1>12. CASE Restart
  <2>1. DaemonOK'
    BY <1>12, <1>o DEF Restart
  <2>2. UploadOK'
    BY <1>12 DEF Restart, Idle, UploadState
  <2>3. unused' \subseteq Bags
    BY <1>12 DEF Restart
  <2>. HIDE DEF DaemonOK, UploadOK
  <2>. QED  BY <1>q, <2>1, <2>2, <2>3
<1>. QED
  BY <1>1, <1>2, <1>3, <1>4, <1>5, <1>6, <1>7, <1>8, <1>9, <1>10, <1>11, <1>12
     DEF Next, Pay, DeleteBag, SelectUnpaidFiles, RemoveUnpaidRelations, SelectUnusedBags,
         StatementFails, Tick, vars

\* Before the first request the tables are empty, and every upload slot is idle.
LEMMA TypeInit == Init => TypeOK
<1>1. Init => StatementsTypeOK
  BY StatementsInvInit DEF Init, StatementsInv
<1>. QED  BY <1>1 DEF Init, TypeOK, Idle, UploadState

\* The tables, the daemon and the uploads hold only what the schema and the program's
\* types allow.
THEOREM TypeCorrect == Spec => []TypeOK
  BY TypeInit, TypeInductive, PTL DEF Spec

--------------------------------------------------------------------------------
(* What the statements never do, the program never does. *)

\* Handlers and workers, restarts included, use the statements as FilesStatements says.
THEOREM ProgramCallsStatements == Spec => StatementsSpec
<1>1. Init => StatementsInit
  BY DEF Init
<1>. QED  BY <1>1, TypeCorrect, StatementSteps, PTL DEF Spec, StatementsSpec

\* So in the running program too a relation loses its bag, its user or its payment only
\* by the overlaps that are named there.
THEOREM ProgramDropsRelations ==
    Spec => OrphansComeFromOverlap /\ DropsAreOwnOrOverdue /\ PaidDropsOverlapPayment
BY ProgramCallsStatements, OrphansComeFromOverlapOnly, DropsAreOwnOrOverdueAlways,
   PaidDropsOverlapPaymentOnly, PTL

--------------------------------------------------------------------------------
(* The bounds on unpaid bags and on the disk. *)

\* Two sets that lose elements lose in size.
LEMMA SmallerSets ==
    ASSUME NEW S, IsFiniteSet(S), NEW S2 \in SUBSET S,
           NEW T, IsFiniteSet(T), NEW T2 \in SUBSET T
    PROVE  Cardinality(S2) + Cardinality(T2) <= Cardinality(S) + Cardinality(T)
<1>1. Cardinality(S2) <= Cardinality(S) /\ Cardinality(T2) <= Cardinality(T)
  <2>1. Cardinality(S2) <= Cardinality(S)
    BY FS_Subset
  <2>. QED  BY <2>1, FS_Subset
<1>2. IsFiniteSet(S2) /\ IsFiniteSet(T2)
  BY FS_Subset
<1>3. /\ Cardinality(S) \in Nat /\ Cardinality(S2) \in Nat
      /\ Cardinality(T) \in Nat /\ Cardinality(T2) \in Nat
  BY <1>2, FS_CardinalityType
<1>. QED  BY <1>1, <1>3

\* What one set gains by at most an element, the other loses.
LEMMA MovedElement ==
    ASSUME NEW S, IsFiniteSet(S), NEW x, NEW S2 \in SUBSET (S \cup {x}),
           NEW T, IsFiniteSet(T), NEW y \in T
    PROVE  Cardinality(S2) + Cardinality(T \ {y}) <= Cardinality(S) + Cardinality(T)
<1>1. IsFiniteSet(S \cup {x}) /\ Cardinality(S \cup {x}) <= Cardinality(S) + 1
  <2>1. /\ IsFiniteSet(S \cup {x})
        /\ Cardinality(S \cup {x}) = IF x \in S THEN Cardinality(S) ELSE Cardinality(S) + 1
    BY FS_AddElement, Zenon
  <2>2. Cardinality(S) \in Nat
    BY FS_CardinalityType
  <2>. QED  BY <2>1, <2>2
<1>2. IsFiniteSet(S2) /\ Cardinality(S2) <= Cardinality(S \cup {x})
  BY <1>1, FS_Subset
<1>3. IsFiniteSet(T \ {y}) /\ Cardinality(T \ {y}) = Cardinality(T) - 1
  BY FS_RemoveElement
<1>4. /\ Cardinality(S) \in Nat /\ Cardinality(S \cup {x}) \in Nat
      /\ Cardinality(S2) \in Nat /\ Cardinality(T) \in Nat
  BY <1>1, <1>2, FS_CardinalityType
<1>. QED  BY <1>1, <1>2, <1>3, <1>4

\* The sets whose sizes the two bounds speak of are finite.
LEMMA FiniteParts ==
    ASSUME TypeOK
    PROVE  /\ \A u : IsFiniteSet(FreshUnpaid(bag_users, u, PublicLife))
           /\ \A u : IsFiniteSet(Admitted(u)) /\ Admitted(u) \subseteq Uploads
           /\ IsFiniteSet(storage)
           /\ IsFiniteSet(Approved) /\ Approved \subseteq Uploads
<1>1. IsFiniteSet(Keys)
  BY FinitenessAssumption, FS_Product DEF Keys
<1>2. \A u : FreshUnpaid(bag_users, u, PublicLife) \subseteq Keys
  BY DEF TypeOK, StatementsTypeOK, IsRelationTable, FreshUnpaid
<1>. QED
  BY <1>1, <1>2, FinitenessAssumption, UploadsAssumption, FS_Subset
     DEF TypeOK, Admitted, Approved

UnpaidOf(u) == FreshUnpaid(bag_users, u, PublicLife)

\* One step keeps UnpaidBound: only an upload that was admitted adds an unpaid relation.
LEMMA UnpaidBoundInductive ==
    TypeOK /\ UnpaidBound /\ [Next]_vars => UnpaidBound'
<1>. SUFFICES ASSUME TypeOK, UnpaidBound, [Next]_vars, NEW v \in Users
     PROVE  Cardinality(UnpaidOf(v)') + Cardinality(Admitted(v)') <= Cardinality(Uploads)
  BY DEF UnpaidBound, UnpaidOf
<1>. DEFINE Bounded == Cardinality(UnpaidOf(v)') + Cardinality(Admitted(v)')
                          <= Cardinality(Uploads)
<1>t. IsRelationTable(bag_users)
  BY DEF TypeOK, StatementsTypeOK
<1>p. PublicLife \in Int
  BY PublicLifeAssumption, AgeCapAssumption
<1>f. /\ IsFiniteSet(UnpaidOf(v)) /\ IsFiniteSet(Admitted(v))
      /\ Cardinality(UnpaidOf(v)) \in Nat /\ Cardinality(Admitted(v)) \in Nat
      /\ Cardinality(Uploads) \in Nat
  BY FiniteParts, UploadsAssumption, FS_CardinalityType DEF UnpaidOf
<1>b. Cardinality(UnpaidOf(v)) + Cardinality(Admitted(v)) <= Cardinality(Uploads)
  BY DEF UnpaidBound, UnpaidOf
\* A step after which v has no more fresh unpaid bags and admitted uploads.
<1>a. ASSUME UnpaidOf(v)' \subseteq UnpaidOf(v), Admitted(v)' \subseteq Admitted(v)
      PROVE  Bounded
  <2>1. Cardinality(UnpaidOf(v)') + Cardinality(Admitted(v)')
            <= Cardinality(UnpaidOf(v)) + Cardinality(Admitted(v))
    BY <1>a, <1>f, SmallerSets
  <2>2. Cardinality(UnpaidOf(v)') \in Nat /\ Cardinality(Admitted(v)') \in Nat
    BY <1>a, <1>f, FS_Subset, FS_CardinalityType
  <2>. QED  BY <2>1, <2>2, <1>b, <1>f
<1>1. ASSUME NEW s \in Uploads, NEW u \in Users, CheckUnpaid(s, u) PROVE Bounded
  <2>1. UnpaidOf(v)' = UnpaidOf(v)
    BY <1>1 DEF CheckUnpaid, UnpaidOf, statementVars, tables
  <2>2. CASE v = u
    <3>1. UnpaidOf(v)' = {}
      BY <1>1, <2>1, <2>2 DEF CheckUnpaid, CanUpload, UnpaidOf
    <3>2. Admitted(v)' \subseteq Uploads
      BY DEF Admitted
    <3>3. Cardinality(Admitted(v)') <= Cardinality(Uploads)
      BY <3>2, UploadsAssumption, FS_Subset
    <3>4. Cardinality(Admitted(v)') \in Nat
      BY <3>2, UploadsAssumption, FS_Subset, FS_CardinalityType
    <3>5. Cardinality(UnpaidOf(v)') = 0
      BY <3>1, FS_EmptySet
    <3>. QED  BY <3>3, <3>4, <3>5, <1>f
  <2>3. CASE v # u
    <3>1. Admitted(v)' \subseteq Admitted(v)
      BY <1>1, <2>3 DEF CheckUnpaid, Admitted, TypeOK
    <3>. QED  BY <2>1, <3>1, <1>a
  <2>. QED  BY <2>2, <2>3
\* A step that leaves the relations alone, and no upload is admitted.
<1>2. ASSUME UNCHANGED bag_users,
             \/ UNCHANGED upload
             \/ \E s \in Uploads :
                   \/ upload' = [upload EXCEPT ![s] = Idle]
                   \/ upload[s].pc # "idle" /\ upload'[s].user = upload[s].user
                      /\ \A r \in Uploads : r # s => upload'[r] = upload[r]
             \/ upload' = [s \in Uploads |-> Idle]
      PROVE  Bounded
  <2>1. UnpaidOf(v)' = UnpaidOf(v)
    BY <1>2 DEF UnpaidOf
  <2>2. Admitted(v)' \subseteq Admitted(v)
    BY <1>2 DEF Admitted, Idle, TypeOK
  <2>. QED  BY <2>1, <2>2, <1>a
<1>3. ASSUME NEW s \in Uploads, SaveBag(s) PROVE Bounded
  <2>. DEFINE b == upload[s].bag
              u == upload[s].user
  <2>1. b \in Bags /\ u \in Users
    BY <1>3 DEF SaveBag, TypeOK
  <2>2. CASE v = u
    <3>1. UnpaidOf(v)' \subseteq UnpaidOf(v) \cup {<<b, u>>}
      BY <1>3, <1>t, <2>1, <2>2, FreshAfterAddBag DEF SaveBag, CommitAddBag, UnpaidOf
    <3>2. Admitted(v)' = Admitted(v) \ {s} /\ s \in Admitted(v)
      BY <1>3, <2>2 DEF SaveBag, Admitted, Idle, TypeOK
    <3>3. Cardinality(UnpaidOf(v)') + Cardinality(Admitted(v)')
              <= Cardinality(UnpaidOf(v)) + Cardinality(Admitted(v))
      BY <3>1, <3>2, <1>f, MovedElement
    <3>4. IsFiniteSet(UnpaidOf(v)') /\ IsFiniteSet(Admitted(v)')
      <4>1. IsFiniteSet(UnpaidOf(v) \cup {<<b, u>>})
        BY <1>f, FS_AddElement
      <4>2. IsFiniteSet(UnpaidOf(v)')
        BY <3>1, <4>1, FS_Subset
      <4>. QED  BY <3>2, <4>2, <1>f, FS_RemoveElement
    <3>5. Cardinality(UnpaidOf(v)') \in Nat /\ Cardinality(Admitted(v)') \in Nat
      BY <3>4, FS_CardinalityType
    <3>. QED  BY <3>3, <3>5, <1>b, <1>f
  <2>3. CASE v # u
    <3>1. UnpaidOf(v)' \subseteq UnpaidOf(v)
      BY <1>3, <1>t, <2>1, <2>3, FreshAfterAddBag DEF SaveBag, CommitAddBag, UnpaidOf
    <3>2. Admitted(v)' \subseteq Admitted(v)
      BY <1>3 DEF SaveBag, Admitted, Idle, TypeOK
    <3>. QED  BY <3>1, <3>2, <1>a
  <2>. QED  BY <2>2, <2>3
\* The other statements leave the uploads alone.
<1>4. ASSUME NEW b \in Bags, NEW u \in Users, NEW c \in Contracts, Pay(b, u, c) PROVE Bounded
  <2>1. UnpaidOf(v)' \subseteq UnpaidOf(v)
    BY <1>4, <1>t, FreshAfterPayment DEF Pay, CommitPayment, UnpaidOf
  <2>2. Admitted(v)' = Admitted(v)
    BY <1>4 DEF Pay, Admitted
  <2>. QED  BY <2>1, <2>2, <1>a
<1>5. ASSUME NEW S \in SUBSET DOMAIN bag_users, bag_users' = Restrict(bag_users, S),
             UNCHANGED upload
      PROVE  Bounded
  <2>1. UnpaidOf(v)' \subseteq UnpaidOf(v)
    BY <1>5, FreshAfterRemoval DEF UnpaidOf
  <2>2. Admitted(v)' = Admitted(v)
    BY <1>5 DEF Admitted
  <2>. QED  BY <2>1, <2>2, <1>a
<1>6. ASSUME NEW b \in Bags, NEW u \in Users, DeleteBag(b, u) PROVE Bounded
  BY <1>5, <1>6 DEF DeleteBag, CommitDeletion, RemoveUserBagRelation
<1>7. CASE RemoveUnpaidRelations
  BY <1>5, <1>7 DEF RemoveUnpaidRelations, DeleteExpired
<1>8. CASE Tick
  <2>1. UnpaidOf(v)' \subseteq UnpaidOf(v)
    BY <1>8, <1>t, <1>p, FreshAfterTick DEF Tick, TimePasses, UnpaidOf
  <2>2. Admitted(v)' = Admitted(v)
    BY <1>8 DEF Tick, Admitted
  <2>. QED  BY <2>1, <2>2, <1>a
<1>9. ASSUME NEW s \in Uploads,
             \/ CheckSpace(s) \/ AbortUpload(s) \/ SaveFails(s) \/ StartSaving(s)
             \/ \E b \in Bags : CreateBag(s, b) \/ GiveUpCreate(s, b)
      PROVE  Bounded
  <2>1. UNCHANGED bag_users
    BY <1>9 DEF CheckSpace, AbortUpload, SaveFails, StartSaving, CreateBag, GiveUpCreate,
                AddBagFails, StartAddBag, statementVars, tables
  <2>2. \/ upload' = [upload EXCEPT ![s] = Idle]
        \/ /\ upload[s].pc # "idle" /\ upload'[s].user = upload[s].user
           /\ \A r \in Uploads : r # s => upload'[r] = upload[r]
    BY <1>9 DEF CheckSpace, AbortUpload, SaveFails, StartSaving, CreateBag, GiveUpCreate,
                TypeOK, UploadState
  <2>. QED  BY <1>2, <2>1, <2>2
<1>10. ASSUME \/ SelectUnpaidFiles \/ SelectUnusedBags \/ RemoveUnusedBags \/ StatementFails
              \/ \E b \in Bags : \/ LateCreate(b) \/ RemoveBag(b) \/ SkipBag(b)
                                 \/ RemoveNotifiedBag(b)
              \/ UNCHANGED vars
       PROVE  Bounded
  <2>1. UNCHANGED <<bag_users, upload>>
    BY <1>10 DEF SelectUnpaidFiles, SelectExpired, SelectUnusedBags, SelectUnused, RemoveUnusedBags,
                 DeleteUnused, StatementFails, RemovalFails, LateCreate, RemoveBag, SkipBag,
                 RemoveNotifiedBag, vars, statementVars, tables
  <2>. QED  BY <1>2, <2>1
<1>11. CASE Restart
  BY <1>2, <1>11 DEF Restart, ConnectionsEnd, tables
<1>. QED
  BY <1>1, <1>3, <1>4, <1>6, <1>7, <1>8, <1>9, <1>10, <1>11 DEF Next

\* However many uploads of a user race, the fresh unpaid bags they leave number at
\* most the uploads that can be in flight at once (the check of AddFiles and its
\* AddBag are separate statements).
THEOREM UnpaidBoundAlways == Spec => []UnpaidBound
<1>1. Init => UnpaidBound
  <2>. SUFFICES ASSUME Init, NEW u \in Users
       PROVE  Cardinality(UnpaidOf(u)) + Cardinality(Admitted(u)) <= Cardinality(Uploads)
    BY DEF UnpaidBound, UnpaidOf
  <2>1. UnpaidOf(u) = {} /\ Admitted(u) = {}
    BY DEF Init, StatementsInit, NoRows, Idle, UnpaidOf, FreshUnpaid, Admitted
  <2>2. Cardinality(UnpaidOf(u)) = 0 /\ Cardinality(Admitted(u)) = 0
    BY <2>1, FS_EmptySet
  <2>3. Cardinality(Uploads) \in Nat
    BY UploadsAssumption, FS_CardinalityType
  <2>. QED  BY <2>2, <2>3
<1>. QED  BY <1>1, TypeCorrect, UnpaidBoundInductive, PTL DEF Spec

\* The bags that uploads have been allowed to make.
Punctual == storage \ belated

\* One step keeps QuotaBound: an approved upload becomes at most one bag of its own, and
\* what the daemon makes after its client gave up is belated, until it leaves the disk.
LEMMA QuotaBoundInductive ==
    TypeOK /\ QuotaBound /\ [Next]_vars => QuotaBound'
<1>. SUFFICES ASSUME TypeOK, QuotaBound, [Next]_vars PROVE QuotaBound'
  OBVIOUS
<1>f. /\ IsFiniteSet(Punctual) /\ IsFiniteSet(Approved) /\ Approved \subseteq Uploads
      /\ Cardinality(Punctual) \in Nat /\ Cardinality(Approved) \in Nat
      /\ Cardinality(Uploads) \in Nat /\ TotalSpace \in Nat
  <2>1. IsFiniteSet(Punctual)
    BY FiniteParts, FS_Subset DEF Punctual
  <2>. QED  BY <2>1, FiniteParts, UploadsAssumption, TotalSpaceAssumption, FS_CardinalityType
<1>b. Cardinality(Punctual) + Cardinality(Approved) <= TotalSpace + Cardinality(Uploads) - 1
  BY DEF QuotaBound, Punctual
\* A step after which the disk and the approved uploads are no more.
<1>a. ASSUME Punctual' \subseteq Punctual, Approved' \subseteq Approved PROVE QuotaBound'
  <2>1. Cardinality(Punctual') + Cardinality(Approved')
            <= Cardinality(Punctual) + Cardinality(Approved)
    BY <1>a, <1>f, SmallerSets
  <2>2. Cardinality(Punctual') \in Nat /\ Cardinality(Approved') \in Nat
    BY <1>a, <1>f, FS_Subset, FS_CardinalityType
  <2>. QED  BY <2>1, <2>2, <1>b, <1>f DEF QuotaBound, Punctual
<1>1. ASSUME NEW s \in Uploads, CheckSpace(s) PROVE QuotaBound'
  <2>1. Approved' \subseteq Uploads
    BY DEF Approved
  <2>2. Cardinality(Approved') <= Cardinality(Uploads) /\ IsFiniteSet(Approved')
    BY <2>1, UploadsAssumption, FS_Subset
  <2>3. Cardinality(Approved') \in Nat
    BY <2>2, FS_CardinalityType
  <2>4. Punctual' = Punctual /\ Cardinality(storage) + 1 <= TotalSpace
    BY <1>1 DEF CheckSpace, Punctual, daemonVars
  <2>5. IsFiniteSet(storage) /\ Punctual \subseteq storage
    BY FiniteParts DEF Punctual
  <2>6. Cardinality(Punctual) <= Cardinality(storage) /\ Cardinality(storage) \in Nat
    BY <2>5, FS_Subset, FS_CardinalityType
  <2>. QED  BY <2>2, <2>3, <2>4, <2>6, <1>f DEF QuotaBound, Punctual
<1>2. ASSUME NEW s \in Uploads, NEW b \in Bags, CreateBag(s, b) PROVE QuotaBound'
  <2>1. Punctual' \subseteq Punctual \cup {b}
    BY <1>2 DEF CreateBag, Punctual
  <2>2. Approved' = Approved \ {s} /\ s \in Approved
    BY <1>2 DEF CreateBag, Approved, TypeOK
  <2>3. Cardinality(Punctual') + Cardinality(Approved')
            <= Cardinality(Punctual) + Cardinality(Approved)
    BY <2>1, <2>2, <1>f, MovedElement
  <2>4. IsFiniteSet(Punctual \cup {b}) /\ IsFiniteSet(Approved')
    BY <2>2, <1>f, FS_AddElement, FS_RemoveElement
  <2>5. IsFiniteSet(Punctual')
    BY <2>1, <2>4, FS_Subset
  <2>6. Cardinality(Punctual') \in Nat /\ Cardinality(Approved') \in Nat
    BY <2>4, <2>5, FS_CardinalityType
  <2>. QED  BY <2>3, <2>6, <1>b, <1>f DEF QuotaBound, Punctual
\* An upload begins, ends, or goes on after it has made its bag.
<1>3. ASSUME UNCHANGED daemonVars, Approved' \subseteq Approved PROVE QuotaBound'
  <2>1. Punctual' = Punctual
    BY <1>3 DEF Punctual, daemonVars
  <2>. QED  BY <1>3, <2>1, <1>a
<1>4. ASSUME NEW s \in Uploads,
             \/ \E u \in Users : CheckUnpaid(s, u)
             \/ StartSaving(s) \/ SaveBag(s) \/ SaveFails(s) \/ AbortUpload(s)
      PROVE  QuotaBound'
  <2>1. \E new : new.pc # "approved" /\ upload' = [upload EXCEPT ![s] = new]
    <3>1. CASE StartSaving(s)
      <4>1. upload' = [upload EXCEPT ![s] = [upload[s] EXCEPT !.pc = "saving"]]
        BY <3>1 DEF StartSaving, TypeOK
      <4>2. [upload[s] EXCEPT !.pc = "saving"].pc = "saving"
        BY DEF TypeOK, UploadState
      <4>. QED  BY <4>1, <4>2
    <3>. QED  BY <1>4, <3>1 DEF CheckUnpaid, SaveBag, SaveFails, AbortUpload, Idle
  <2>. Approved' \subseteq Approved
    BY <2>1 DEF Approved, TypeOK
  <2>2. UNCHANGED daemonVars
    BY <1>4 DEF CheckUnpaid, StartSaving, SaveBag, SaveFails, AbortUpload
  <2>. QED  BY <2>2, <1>3
<1>5. ASSUME NEW s \in Uploads, NEW b \in Bags, GiveUpCreate(s, b) PROVE QuotaBound'
  <2>1. Approved' \subseteq Approved
    BY <1>5 DEF GiveUpCreate, Approved, Idle, TypeOK
  <2>2. Punctual' = Punctual
    BY <1>5 DEF GiveUpCreate, Punctual
  <2>. QED  BY <2>1, <2>2, <1>a
\* The uploads are left alone.
<1>6. ASSUME Punctual' \subseteq Punctual, UNCHANGED upload PROVE QuotaBound'
  <2>1. Approved' = Approved
    BY <1>6 DEF Approved
  <2>. QED  BY <1>6, <2>1, <1>a
<1>7. ASSUME NEW b \in Bags, LateCreate(b) PROVE QuotaBound'
  BY <1>6, <1>7 DEF LateCreate, Punctual
<1>8. ASSUME NEW b \in Bags, RemoveBag(b) \/ RemoveNotifiedBag(b) PROVE QuotaBound'
  BY <1>6, <1>8 DEF RemoveBag, RemoveNotifiedBag, TakeFromDisk, Punctual
<1>9. ASSUME UNCHANGED <<daemonVars, upload>> PROVE QuotaBound'
  BY <1>6, <1>9 DEF daemonVars, Punctual
<1>10. CASE Restart
  <2>1. Approved' \subseteq Approved
    BY <1>10 DEF Restart, Approved, Idle
  <2>2. Punctual' = Punctual
    BY <1>10 DEF Restart, Punctual
  <2>. QED  BY <2>1, <2>2, <1>a
<1>. QED
  BY <1>1, <1>2, <1>4, <1>5, <1>7, <1>8, <1>9, <1>10
     DEF Next, Pay, DeleteBag, SelectUnpaidFiles, RemoveUnpaidRelations, SelectUnusedBags,
         RemoveUnusedBags, StatementFails, SkipBag, Tick, vars

\* Racing uploads overfill the daemon by at most all of them but one
\* (validateAvailableSpace checks and reserves nothing), not counting what the daemon makes
\* for a Create that was given up.
THEOREM QuotaBoundAlways == Spec => []QuotaBound
<1>1. Init => QuotaBound
  <2>. SUFFICES ASSUME Init PROVE QuotaBound
    OBVIOUS
  <2>1. storage \ belated = {} /\ Approved = {}
    BY DEF Init, Idle, Approved
  <2>2. Cardinality(storage \ belated) = 0 /\ Cardinality(Approved) = 0
    BY <2>1, FS_EmptySet
  <2>3. Cardinality(Uploads) \in Nat /\ Cardinality(Uploads) # 0
    BY UploadsAssumption, FS_CardinalityType, FS_EmptySet
  <2>. QED  BY <2>2, <2>3, TotalSpaceAssumption DEF QuotaBound
<1>. QED  BY <1>1, TypeCorrect, QuotaBoundInductive, PTL DEF Spec

--------------------------------------------------------------------------------
(* The relation and the files of one bag of one user. *)

\* Each step of the handlers and workers is, for any bag and user, a step of BagOfUser
\* or none: the relation goes its way by statements, which leave the files alone, and
\* the steps of the daemon leave the relation alone.
LEMMA BagOfUserSteps ==
    ASSUME TypeOK, [Next]_vars, NEW k \in Keys
    PROVE  [BagView(k)!BagNext]_(BagView(k)!bagVars)
<1>. DEFINE Allowed == [BagView(k)!BagNext]_(BagView(k)!bagVars)
            state == RelationState(bag_users, k, PrivateLife)
<1>. SUFFICES Allowed
  OBVIOUS
<1>t. StatementsTypeOK /\ [StatementsNext]_statementVars
  BY StatementSteps DEF TypeOK
<1>1. ASSUME UNCHANGED storage PROVE Allowed
  <2>. HIDE DEF state
  <2>1. \/ state' = state
        \/ state = "none" /\ state' = "fresh"
        \/ state = "fresh" /\ state' = "expired"
        \/ state \in {"fresh", "expired"} /\ state' = "paid"
        \/ state \in {"fresh", "expired", "paid"} /\ state' = "none"
    BY <1>t, RelationSteps DEF state
  <2>. QED
    BY <1>1, <2>1
       DEF state, BagView!bagVars, BagView!BagNext, BagView!BagIsSaved, BagView!BagExpires,
           BagView!BagIsPaid, BagView!RelationEnds, BagView!RelationBecomes
<1>2. ASSUME NEW b, storage' \in {storage \cup {b}, storage \ {b}}, UNCHANGED statementVars
      PROVE  Allowed
  <2>1. state' = state
    BY <1>2 DEF statementVars, tables
  <2>. HIDE DEF state
  <2>2. CASE b = k[1]
    BY <1>2, <2>1, <2>2
       DEF state, BagView!BagNext, BagView!BagIsCreated, BagView!BagLeavesDisk
  <2>3. CASE b # k[1]
    BY <1>2, <2>1, <2>3 DEF state, BagView!bagVars
  <2>. QED  BY <2>2, <2>3
<1>. HIDE DEF Allowed
<1>3. ASSUME NEW s \in Uploads, NEW b \in Bags, CreateBag(s, b) PROVE Allowed
  BY <1>2, <1>3 DEF CreateBag
<1>4. ASSUME NEW b \in Bags, LateCreate(b) \/ RemoveBag(b) \/ RemoveNotifiedBag(b) PROVE Allowed
  BY <1>2, <1>4 DEF LateCreate, RemoveBag, RemoveNotifiedBag, TakeFromDisk
<1>5. ASSUME NEW s \in Uploads,
             \/ \E u \in Users : CheckUnpaid(s, u)
             \/ CheckSpace(s) \/ StartSaving(s) \/ SaveBag(s) \/ SaveFails(s) \/ AbortUpload(s)
             \/ \E b \in Bags : GiveUpCreate(s, b)
      PROVE  Allowed
  <2>1. UNCHANGED storage
    BY <1>5 DEF CheckUnpaid, CheckSpace, StartSaving, SaveBag, SaveFails, AbortUpload,
                GiveUpCreate, daemonVars
  <2>. QED  BY <1>1, <2>1
<1>6. ASSUME \/ \E b \in Bags, u \in Users, c \in Contracts : Pay(b, u, c)
             \/ \E b \in Bags, u \in Users : DeleteBag(b, u)
             \/ SelectUnpaidFiles \/ RemoveUnpaidRelations \/ SelectUnusedBags
             \/ RemoveUnusedBags \/ StatementFails
             \/ \E b \in Bags : SkipBag(b)
             \/ Restart \/ Tick \/ UNCHANGED vars
      PROVE  Allowed
  <2>1. UNCHANGED storage
    BY <1>6 DEF Pay, DeleteBag, SelectUnpaidFiles, RemoveUnpaidRelations, SelectUnusedBags,
                RemoveUnusedBags, StatementFails, SkipBag, Restart, Tick, vars, daemonVars
  <2>. QED  BY <1>1, <2>1
<1>. QED  BY <1>3, <1>4, <1>5, <1>6 DEF Next

\* What a request may rely on while it waits holds of every bag of every user: with any
\* number of uploads, payments, workers and restarts, a relation begins fresh, is paid
\* for good and expires once.
THEOREM EveryBagIsOneOfUser == Spec => IsBagOfUser
<1>1. Init => \A k \in Keys : BagView(k)!BagInit
  BY DEF Init, StatementsInit, NoRows, RelationState, BagView!BagInit
<1>2. TypeOK /\ [Next]_vars => [\A k \in Keys : [BagView(k)!BagNext]_(BagView(k)!bagVars)]_vars
  BY BagOfUserSteps
<1>. QED  BY <1>1, <1>2, TypeCorrect, PTL DEF Spec, IsBagOfUser
================================================================================
