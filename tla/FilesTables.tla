------------------------------ MODULE FilesTables ------------------------------
(***************************************************************************)
(* The table files.bag_users, and what the SQL statements of               *)
(* pkg/repositories/files/repository.go compute from it and from           *)
(* files.bags.  A table is a function whose domain is its primary keys;    *)
(* an operator takes the table before the statement and returns the table  *)
(* after it, or the rows a query returns.                                  *)
(*                                                                         *)
(* A timestamp is kept as its age, in ticks, and saturates at AgeCap: two  *)
(* ages at the cap are compared alike by every statement, because the      *)
(* lifetimes they are compared with are below the cap.  The updated_at of  *)
(* a relation is left out: no statement reads it.                          *)
(***************************************************************************)
EXTENDS Integers, FiniteSets, Functions

CONSTANTS
    Bags,        \* bag ids: the hash of the uploaded content
    Users,       \* user addresses
    Contracts,   \* storage contract addresses
    NoContract,  \* NULL in bag_users.storage_contract: the bag is unpaid
    AgeCap       \* the age at which the age of a relation stops growing

ASSUME AgeCapAssumption == AgeCap \in Nat
ASSUME NoContractAssumption == NoContract \notin Contracts

\* The primary key of files.bag_users.
Keys == Bags \X Users

Relation == [contract : Contracts \cup {NoContract},
             created  : 0..AgeCap,
             attempts : Int]

IsRelationTable(table) ==
    DOMAIN table \subseteq Keys /\ \A k \in DOMAIN table : table[k] \in Relation

NoRows == [k \in {} |-> k]

Put(table, key, row) ==
    [k \in DOMAIN table \cup {key} |-> IF k = key THEN row ELSE table[k]]

Older(age) == IF age < AgeCap THEN age + 1 ELSE age

AgeRelations(bag_users) ==
    [k \in DOMAIN bag_users |->
        [bag_users[k] EXCEPT !.created = Older(@)]]

--------------------------------------------------------------------------------
(* Uploads. *)

NewRelation ==
    [contract |-> NoContract, created |-> 0, attempts |-> 0]

\* Mutants of AddBag: one binds the two key columns the wrong way round, the other
\* renews created_at on conflict.
AddBagSwapped(bag_users, b, u) == Put(bag_users, <<u, b>>, NewRelation)

AddBagRenewed(bag_users, b, u) ==
    IF <<b, u>> \in DOMAIN bag_users
    THEN [bag_users EXCEPT ![<<b, u>>].created = 0]
    ELSE Put(bag_users, <<b, u>>, NewRelation)

\* ON CONFLICT (bagid, user_address) keeps the row, its created_at and its contract.
AddBag(bag_users, b, u) ==
    IF <<b, u>> \in DOMAIN bag_users
    THEN bag_users
    ELSE Put(bag_users, <<b, u>>, NewRelation)

IsUnpaid(row) == row.contract = NoContract

FreshUnpaid(bag_users, u, sec) ==
    {k \in DOMAIN bag_users : /\ k[2] = u
                              /\ IsUnpaid(bag_users[k])
                              /\ bag_users[k].created < sec}

\* Mutant of CanUpload: the lifetime is off by one.
CanUploadEarly(bag_users, u, sec) == FreshUnpaid(bag_users, u, sec - 1) = {}

CanUpload(bag_users, u, sec) == FreshUnpaid(bag_users, u, sec) = {}

--------------------------------------------------------------------------------
(* The end of a relation, and of a bag nobody has a relation with. *)

\* Mutant of RemoveUserBagRelation: the WHERE clause has lost the user.
RemoveBagRelations(bag_users, b, u) ==
    Restrict(bag_users, {k \in DOMAIN bag_users : k[1] # b})

RemoveUserBagRelation(bag_users, b, u) ==
    Restrict(bag_users, DOMAIN bag_users \ {<<b, u>>})

\* Mutant of ExpiredUnpaid: storage_contract IS NULL is left out.
ExpiredRows(bag_users, sec) == {k \in DOMAIN bag_users : bag_users[k].created > sec}

ExpiredUnpaid(bag_users, sec) ==
    {k \in DOMAIN bag_users : IsUnpaid(bag_users[k]) /\ bag_users[k].created > sec}

\* What the statements tell of the relation of one key; IsBagExpired reads it so.
RelationState(bag_users, k, sec) ==
    IF k \notin DOMAIN bag_users THEN "none"
    ELSE IF ~IsUnpaid(bag_users[k]) THEN "paid"
    ELSE IF bag_users[k].created > sec THEN "expired"
    ELSE "fresh"

UsedBags(bag_users) == {k[1] : k \in DOMAIN bag_users}

\* Mutant of UnusedBags: only paid relations keep a bag.
UnusedOrUnpaidBags(bags, bag_users) ==
    bags \ {k[1] : k \in {r \in DOMAIN bag_users : ~IsUnpaid(bag_users[r])}}

UnusedBags(bags, bag_users) == bags \ UsedBags(bag_users)

--------------------------------------------------------------------------------
(* Payment, and the bags whose providers are to be notified. *)

\* notify_attempts is left alone; a missing row is not an error.
MarkBagAsPaid(bag_users, b, u, c) ==
    IF <<b, u>> \in DOMAIN bag_users
    THEN [bag_users EXCEPT ![<<b, u>>].contract = c]
    ELSE bag_users

\* The rows GetPaidBag may return (LIMIT 1, no ORDER BY).
PaidBags(bags, bag_users, u, c) ==
    {b \in bags : /\ <<b, u>> \in DOMAIN bag_users
                  /\ bag_users[<<b, u>>].contract = c}

\* The (bagid, storage_contract) pairs of GetNotifyInfo, before its LIMIT.
ContractsToLookUp(bags, bag_users, maxAttempts) ==
    {<<k[1], bag_users[k].contract>> :
        k \in {r \in DOMAIN bag_users : /\ r[1] \in bags
                                        /\ ~IsUnpaid(bag_users[r])
                                        /\ bag_users[r].attempts >= 0
                                        /\ bag_users[r].attempts < maxAttempts}}

\* Mutant of IncreaseAttempts: a contract that cannot be read is given up.
GiveUpLookups(bag_users, pairs) ==
    Restrict(bag_users, {k \in DOMAIN bag_users : <<k[1], bag_users[k].contract>> \notin pairs})

\* jsonb_array_elements yields one column and the statement names two of it:
\* the server rejects the statement each time, and its callers drop the error.
IncreaseAttempts(bag_users, pairs) == bag_users

================================================================================
