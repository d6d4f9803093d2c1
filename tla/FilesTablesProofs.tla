---------------------------- MODULE FilesTablesProofs ----------------------------
(***************************************************************************)
(* What the statements on files.bag_users do to any table: they keep its   *)
(* type, and say which keys and which fresh unpaid relations remain.       *)
(***************************************************************************)
EXTENDS FilesTables, TLAPS

\* AddBag (repository.go:35): the table gains at most the uploaded key, as a row of
\* the type of the table.
LEMMA AddBagTable ==
    ASSUME NEW t, IsRelationTable(t), NEW b \in Bags, NEW u \in Users
    PROVE  /\ IsRelationTable(AddBag(t, b, u))
           /\ DOMAIN AddBag(t, b, u) = DOMAIN t \cup {<<b, u>>}
<1>1. NewRelation \in Relation
  BY AgeCapAssumption DEF NewRelation, Relation
<1>2. CASE <<b, u>> \in DOMAIN t
  <2>1. \A k \in DOMAIN t : AddBag(t, b, u)[k] \in Relation
    BY <1>2, AgeCapAssumption DEF AddBag, IsRelationTable, Relation
  <2>. QED  BY <1>2, <2>1 DEF AddBag, IsRelationTable
<1>3. CASE <<b, u>> \notin DOMAIN t
  BY <1>1, <1>3 DEF AddBag, Put, IsRelationTable, Keys
<1>. QED  BY <1>2, <1>3

\* MarkBagAsPaid (repository.go:241) neither adds nor removes rows.
LEMMA MarkBagAsPaidTable ==
    ASSUME NEW t, IsRelationTable(t), NEW b \in Bags, NEW u \in Users, NEW c \in Contracts
    PROVE  /\ IsRelationTable(MarkBagAsPaid(t, b, u, c))
           /\ DOMAIN MarkBagAsPaid(t, b, u, c) = DOMAIN t
  BY DEF MarkBagAsPaid, IsRelationTable, Relation

\* Both DELETE statements restrict the table to the rows they spare.
LEMMA RestrictTable ==
    ASSUME NEW t, IsRelationTable(t), NEW S \in SUBSET DOMAIN t
    PROVE  IsRelationTable(Restrict(t, S)) /\ DOMAIN Restrict(t, S) = S
  BY DEF Restrict, IsRelationTable

\* The collector looks up known bags and contracts.
LEMMA ContractsToLookUpPairs ==
    ASSUME NEW bs \in SUBSET Bags, NEW t, IsRelationTable(t), NEW n
    PROVE  ContractsToLookUp(bs, t, n) \subseteq Bags \X Contracts
<1>1. ASSUME NEW k \in DOMAIN t, k[1] \in bs, ~IsUnpaid(t[k])
      PROVE  <<k[1], t[k].contract>> \in Bags \X Contracts
  <2>1. t[k].contract \in Contracts
    BY <1>1 DEF IsRelationTable, Relation, IsUnpaid
  <2>. QED  BY <1>1, <2>1
<1>. QED  BY <1>1 DEF ContractsToLookUp

\* The passing of time keeps every row.
LEMMA AgeRelationsTable ==
    ASSUME NEW t, IsRelationTable(t)
    PROVE  IsRelationTable(AgeRelations(t)) /\ DOMAIN AgeRelations(t) = DOMAIN t
<1>1. \A a \in 0..AgeCap : Older(a) \in 0..AgeCap
  BY AgeCapAssumption DEF Older
<1>2. \A k \in DOMAIN t : AgeRelations(t)[k] \in Relation
  BY <1>1 DEF AgeRelations, IsRelationTable, Relation
<1>. QED  BY <1>2 DEF AgeRelations, IsRelationTable

--------------------------------------------------------------------------------
(* Fresh unpaid relations, which CanUpload counts. *)

\* An upload makes at most its own key fresh, and only for its own user.
LEMMA FreshAfterAddBag ==
    ASSUME NEW t, IsRelationTable(t), NEW b \in Bags, NEW u \in Users,
           NEW v \in Users, NEW sec
    PROVE  /\ FreshUnpaid(AddBag(t, b, u), v, sec) \subseteq FreshUnpaid(t, v, sec) \cup {<<b, u>>}
           /\ v # u => FreshUnpaid(AddBag(t, b, u), v, sec) \subseteq FreshUnpaid(t, v, sec)
<1>1. CASE <<b, u>> \in DOMAIN t
  <2>1. DOMAIN AddBag(t, b, u) = DOMAIN t
    BY <1>1 DEF AddBag
  <2>2. \A k \in DOMAIN t : /\ AddBag(t, b, u)[k].contract = t[k].contract
                            /\ AddBag(t, b, u)[k].created = t[k].created
    BY <1>1 DEF AddBag, IsRelationTable, Relation
  <2>. QED  BY <2>1, <2>2 DEF FreshUnpaid, IsUnpaid
<1>2. CASE <<b, u>> \notin DOMAIN t
  BY <1>2 DEF AddBag, Put, FreshUnpaid, IsUnpaid
<1>. QED  BY <1>1, <1>2

\* A payment makes no relation fresh and unpaid.
LEMMA FreshAfterPayment ==
    ASSUME NEW t, IsRelationTable(t), NEW b \in Bags, NEW u \in Users, NEW c \in Contracts,
           NEW v \in Users, NEW sec
    PROVE  FreshUnpaid(MarkBagAsPaid(t, b, u, c), v, sec) \subseteq FreshUnpaid(t, v, sec)
  BY NoContractAssumption DEF FreshUnpaid, IsUnpaid, MarkBagAsPaid, IsRelationTable, Relation

\* Neither does the removal of rows,
LEMMA FreshAfterRemoval ==
    ASSUME NEW t, NEW S \in SUBSET DOMAIN t, NEW v, NEW sec
    PROVE  FreshUnpaid(Restrict(t, S), v, sec) \subseteq FreshUnpaid(t, v, sec)
  BY DEF FreshUnpaid, Restrict, IsUnpaid

\* nor the passing of time.
LEMMA FreshAfterTick ==
    ASSUME NEW t, IsRelationTable(t), NEW v, NEW sec \in Int
    PROVE  FreshUnpaid(AgeRelations(t), v, sec) \subseteq FreshUnpaid(t, v, sec)
<1>1. ASSUME NEW k \in DOMAIN t
      PROVE  /\ AgeRelations(t)[k].contract = t[k].contract
             /\ AgeRelations(t)[k].created = Older(t[k].created)
             /\ t[k].created \in Int
  <2>1. t[k] \in Relation
    BY DEF IsRelationTable
  <2>2. AgeRelations(t)[k] =
          [contract |-> t[k].contract, created |-> Older(t[k].created),
           attempts |-> t[k].attempts]
    BY <2>1 DEF AgeRelations, Relation
  <2>. QED  BY <2>1, <2>2, AgeCapAssumption DEF Relation
<1>2. \A a \in Int : Older(a) < sec => a < sec
  BY AgeCapAssumption DEF Older
<1>3. DOMAIN AgeRelations(t) = DOMAIN t
  BY DEF AgeRelations
<1>. QED  BY <1>1, <1>2, <1>3 DEF FreshUnpaid, IsUnpaid

--------------------------------------------------------------------------------
(* The relation of one key. *)

\* An upload makes its own key fresh if there was no relation, and changes no other.
LEMMA StateAfterAddBag ==
    ASSUME NEW t, NEW b, NEW u, NEW k, NEW sec \in Nat
    PROVE  RelationState(AddBag(t, b, u), k, sec) =
              IF k = <<b, u>> /\ k \notin DOMAIN t THEN "fresh" ELSE RelationState(t, k, sec)
<1>1. CASE <<b, u>> \in DOMAIN t
  BY <1>1 DEF AddBag
<1>2. CASE <<b, u>> \notin DOMAIN t
  BY <1>2 DEF AddBag, Put, NewRelation, RelationState, IsUnpaid
<1>. QED  BY <1>1, <1>2

\* A payment makes the relation of its key paid, if there is one, and changes no other.
LEMMA StateAfterPayment ==
    ASSUME NEW t, IsRelationTable(t), NEW b, NEW u, NEW c \in Contracts, NEW k, NEW sec
    PROVE  RelationState(MarkBagAsPaid(t, b, u, c), k, sec) =
              IF k = <<b, u>> /\ k \in DOMAIN t THEN "paid" ELSE RelationState(t, k, sec)
<1>. DEFINE paid == MarkBagAsPaid(t, b, u, c)
<1>1. CASE <<b, u>> \in DOMAIN t
  <2>1. DOMAIN paid = DOMAIN t
    BY <1>1 DEF MarkBagAsPaid
  <2>2. \A r \in DOMAIN t : r # <<b, u>> => paid[r] = t[r]
    BY <1>1 DEF MarkBagAsPaid
  <2>3. ~IsUnpaid(paid[<<b, u>>])
    BY <1>1, NoContractAssumption DEF MarkBagAsPaid, IsUnpaid, IsRelationTable, Relation
  <2>. HIDE DEF paid
  <2>4. RelationState(paid, k, sec) =
            IF k = <<b, u>> /\ k \in DOMAIN t THEN "paid" ELSE RelationState(t, k, sec)
    BY <1>1, <2>1, <2>2, <2>3 DEF RelationState
  <2>. QED  BY <2>4 DEF paid
<1>2. CASE <<b, u>> \notin DOMAIN t
  BY <1>2 DEF MarkBagAsPaid
<1>. QED  BY <1>1, <1>2

\* The removal of rows ends the relations of these rows, and changes no other.
LEMMA StateAfterRemoval ==
    ASSUME NEW t, NEW S \in SUBSET DOMAIN t, NEW k, NEW sec
    PROVE  RelationState(Restrict(t, S), k, sec) =
              IF k \in S THEN RelationState(t, k, sec) ELSE "none"
BY DEF RelationState, Restrict, IsUnpaid

\* Time makes a fresh relation expire, and changes nothing else: no age that counts is
\* at the cap.
LEMMA StateAfterTick ==
    ASSUME NEW t, IsRelationTable(t), NEW k, NEW sec \in 0..(AgeCap - 1)
    PROVE  \/ RelationState(AgeRelations(t), k, sec) = RelationState(t, k, sec)
           \/ /\ RelationState(t, k, sec) = "fresh"
              /\ RelationState(AgeRelations(t), k, sec) = "expired"
<1>. DEFINE aged == AgeRelations(t)
<1>1. DOMAIN aged = DOMAIN t
  BY DEF AgeRelations
<1>2. CASE k \notin DOMAIN t
  BY <1>1, <1>2 DEF RelationState
<1>3. CASE k \in DOMAIN t
  <2>1. t[k] \in Relation
    BY <1>3 DEF IsRelationTable
  <2>2. aged[k].contract = t[k].contract /\ aged[k].created = Older(t[k].created)
    BY <1>3, <2>1 DEF AgeRelations, Relation
  <2>3. t[k].created \in 0..AgeCap
    BY <2>1 DEF Relation
  <2>4. t[k].created > sec => aged[k].created > sec
    BY <2>2, <2>3, AgeCapAssumption DEF Older
  <2>. HIDE DEF aged
  <2>5. \/ RelationState(aged, k, sec) = RelationState(t, k, sec)
        \/ /\ RelationState(t, k, sec) = "fresh"
           /\ RelationState(aged, k, sec) = "expired"
    BY <1>1, <1>3, <2>2, <2>4 DEF RelationState, IsUnpaid
  <2>. QED  BY <2>5 DEF aged
<1>. QED  BY <1>2, <1>3
================================================================================
