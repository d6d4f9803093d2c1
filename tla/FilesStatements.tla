---------------------------- MODULE FilesStatements ----------------------------
(***************************************************************************)
(* The statements of the files repository as they run at READ COMMITTED,   *)
(* the default of the database.  A statement that reads one table and      *)
(* writes another, or reads before it writes, is two steps: what it reads, *)
(* and its commit.  BagLifecycle extends this module with the handlers and *)
(* workers that call the statements.                                       *)
(*                                                                         *)
(* A row that a statement selects and that is updated before it is deleted *)
(* is deleted all the same, as only its key is compared again; one that is *)
(* deleted and inserted afresh is not.  Two AddBag of one key, and of one  *)
(* bag that neither found, wait for each other.                            *)
(***************************************************************************)
EXTENDS FilesTables

CONSTANT PrivateLife  \* unpaid_files_lifetime of the files worker

ASSUME LifetimeAssumption == PrivateLife \in 0..(AgeCap - 1)

VARIABLES
    bags, bag_users,  \* as committed
    adding,           \* AddBag of each key: whether it found the row of its bag
    expiring,         \* what the running RemoveUnpaidBagsRelations has selected: the
                      \* contract that each row had then
    forgetting,       \* what the running RemoveUnusedBags has selected
    deleted           \* the key, if any, that the last statement was a DELETE request of

tables == <<bags, bag_users>>
statementVars == <<tables, adding, expiring, forgetting, deleted>>

\* The bags to delete, and the relations of the snapshot they were selected from.
NotForgetting == [bags |-> {}, seen |-> {}]

StatementsTypeOK ==
    /\ bags \subseteq Bags
    /\ IsRelationTable(bag_users)
    /\ DOMAIN adding \subseteq Keys /\ \A k \in DOMAIN adding : adding[k] \in BOOLEAN
    /\ DOMAIN expiring \subseteq Keys
    /\ \A k \in DOMAIN expiring : expiring[k] \in Contracts \cup {NoContract}
    /\ forgetting \in [bags : SUBSET Bags, seen : SUBSET Keys]
    /\ deleted \subseteq Keys

StatementsInit ==
    /\ bags = {}
    /\ bag_users = NoRows
    /\ adding = NoRows
    /\ expiring = NoRows
    /\ forgetting = NotForgetting
    /\ deleted = {}

--------------------------------------------------------------------------------
(* AddBag. *)

Added(b, u) == Restrict(adding, DOMAIN adding \ {<<b, u>>})

\* The row of the bag is inserted unless there is one: ON CONFLICT DO NOTHING takes
\* no lock on it.
StartAddBag(b, u) ==
    /\ <<b, u>> \notin DOMAIN adding
    /\ \A k \in DOMAIN adding : k[1] = b => adding[k]
    /\ adding' = Put(adding, <<b, u>>, b \in bags)
    /\ deleted' = {}
    /\ UNCHANGED <<tables, expiring, forgetting>>

CommitAddBag(b, u) ==
    /\ <<b, u>> \in DOMAIN adding
    /\ bags' = IF adding[<<b, u>>] THEN bags ELSE bags \cup {b}
    /\ bag_users' = AddBag(bag_users, b, u)
    /\ adding' = Added(b, u)
    /\ deleted' = {}
    /\ UNCHANGED <<expiring, forgetting>>

AddBagFails(b, u) ==
    /\ <<b, u>> \in DOMAIN adding
    /\ adding' = Added(b, u)
    /\ deleted' = {}
    /\ UNCHANGED <<tables, expiring, forgetting>>

--------------------------------------------------------------------------------
(* The statements on one row. *)

CommitPayment(b, u, c) ==
    /\ bag_users' = MarkBagAsPaid(bag_users, b, u, c)
    /\ deleted' = {}
    /\ UNCHANGED <<bags, adding, expiring, forgetting>>

CommitDeletion(b, u) ==
    /\ bag_users' = RemoveUserBagRelation(bag_users, b, u)
    /\ expiring' = Restrict(expiring, DOMAIN expiring \ {<<b, u>>})
    /\ deleted' = {<<b, u>>}
    /\ UNCHANGED <<bags, adding, forgetting>>

--------------------------------------------------------------------------------
(* The statements of the workers. *)

SelectExpired ==
    /\ expiring = NoRows
    /\ expiring' = [k \in ExpiredUnpaid(bag_users, PrivateLife) |-> bag_users[k].contract]
    /\ deleted' = {}
    /\ UNCHANGED <<tables, adding, forgetting>>

DeleteExpired ==
    /\ expiring # NoRows
    /\ bag_users' = Restrict(bag_users, DOMAIN bag_users \ DOMAIN expiring)
    /\ expiring' = NoRows
    /\ deleted' = {}
    /\ UNCHANGED <<bags, adding, forgetting>>

SelectUnused ==
    /\ forgetting = NotForgetting
    /\ forgetting' = [bags |-> UnusedBags(bags, bag_users), seen |-> DOMAIN bag_users]
    /\ forgetting'.bags # {}
    /\ deleted' = {}
    /\ UNCHANGED <<tables, adding, expiring>>

\* Mutant of DeleteUnused: the bags are selected and not deleted.
KeepUnused ==
    /\ forgetting # NotForgetting
    /\ forgetting' = NotForgetting
    /\ deleted' = {}
    /\ UNCHANGED <<tables, adding, expiring>>

DeleteUnused ==
    /\ forgetting # NotForgetting
    /\ bags' = bags \ forgetting.bags
    /\ forgetting' = NotForgetting
    /\ deleted' = {}
    /\ UNCHANGED <<bag_users, adding, expiring>>

RemovalFails ==
    /\ \/ expiring' = NoRows /\ UNCHANGED forgetting
       \/ forgetting' = NotForgetting /\ UNCHANGED expiring
    /\ deleted' = {}
    /\ UNCHANGED <<tables, adding>>

\* The program stops: what it was running has been committed before, or never will be.
ConnectionsEnd ==
    /\ adding' = NoRows
    /\ expiring' = NoRows
    /\ forgetting' = NotForgetting
    /\ deleted' = {}
    /\ UNCHANGED tables

--------------------------------------------------------------------------------

TimePasses ==
    /\ bag_users' = AgeRelations(bag_users)
    /\ deleted' = {}
    /\ UNCHANGED <<bags, adding, expiring, forgetting>>

StatementsNext ==
    \/ \E b \in Bags, u \in Users : StartAddBag(b, u)
    \/ \E b \in Bags, u \in Users : CommitAddBag(b, u)
    \/ \E b \in Bags, u \in Users : AddBagFails(b, u)
    \/ \E b \in Bags, u \in Users, c \in Contracts : CommitPayment(b, u, c)
    \/ \E b \in Bags, u \in Users : CommitDeletion(b, u)
    \/ SelectExpired
    \/ DeleteExpired
    \/ SelectUnused
    \/ DeleteUnused
    \/ RemovalFails
    \/ ConnectionsEnd
    \/ TimePasses

StatementsSpec == StatementsInit /\ [][StatementsNext]_statementVars

\* workers.run calls each worker again and again, also after an error or a restart, and
\* time passes; between two rounds RemoveUnpaidFiles calls the daemon, and every such call
\* ends.  A statement that is tried for ever succeeds now and then.  No request has to
\* happen.
StatementsFairSpec ==
    /\ StatementsSpec
    /\ WF_statementVars(TimePasses)
    /\ WF_statementVars(SelectExpired) /\ SF_statementVars(DeleteExpired)
    /\ WF_statementVars(SelectUnused) /\ SF_statementVars(DeleteUnused)

--------------------------------------------------------------------------------
(* Safety. *)

\* files.bag_users has no foreign key, and a relation can be left without its bag
\* (GetPaidBag and GetNotifyInfo, which join the tables, lose sight of it then).  It
\* happens in one way only, by an AddBag that overlaps with RemoveUnusedBags: it found
\* a bag that is deleted before it commits, or committed after the snapshot of the
\* deletion.
OrphansComeFromOverlap ==
    [][\A k \in DOMAIN bag_users' :
          k[1] \notin bags' =>
             \/ k \in DOMAIN bag_users /\ k[1] \notin bags
             \/ k \in DOMAIN adding /\ adding[k]
             \/ k[1] \in forgetting.bags /\ k \notin forgetting.seen]_statementVars

\* What no interleaving does: a relation is dropped by the DELETE request of its own
\* user, or has outlived its lifetime.  In the window between the two halves of
\* RemoveUnpaidBagsRelations it may be deleted and uploaded anew, or uploaded again,
\* and the last upload counts.
DropsAreOwnOrOverdue ==
    [][\A k \in DOMAIN bag_users \ DOMAIN bag_users' :
          k \in deleted' \/ bag_users[k].created > PrivateLife]_statementVars

\* A paid relation is not safe from RemoveUnpaidBagsRelations, which compares only keys
\* when it deletes (repository.go:99-113).  That window is the only danger it is in: the
\* relation was selected while it was still unpaid, and its payment came in between.
PaidDropsOverlapPayment ==
    [][\A k \in DOMAIN bag_users \ DOMAIN bag_users' :
          ~IsUnpaid(bag_users[k]) =>
             \/ k \in deleted'
             \/ k \in DOMAIN expiring /\ expiring[k] = NoContract]_statementVars

\* The daemon is not part of this module.
RelationView(k) == INSTANCE BagOfUser WITH
    relation <- RelationState(bag_users, k, PrivateLife),
    stored <- FALSE

\* The promise of BagOfUser, on which ContractRequests rests, does not need statements
\* that are atomic: whatever they overlap with, a relation that has expired is not fresh
\* again before it was gone, and no payment is taken back.
IsRelationOfUser ==
    /\ \A k \in Keys : RelationView(k)!BagInit
    /\ [][\A k \in Keys : [RelationView(k)!BagNext]_(RelationView(k)!bagVars)]_statementVars

--------------------------------------------------------------------------------
(* Liveness, under StatementsFairSpec. *)

\* An unpaid relation does not stay unpaid: re-uploading the bag does not renew
\* created_at, so the worker removes it unless it is paid or deleted first, however many
\* of its rounds fail between selecting and deleting.
UnpaidIsTemporary ==
    \A k \in Keys :
        (k \in DOMAIN bag_users /\ IsUnpaid(bag_users[k]))
            ~> (k \notin DOMAIN bag_users \/ ~IsUnpaid(bag_users[k]))

\* A bag nobody has a relation with is forgotten by files.bags, or used again, however
\* often the deletion overlaps with uploads, fails or is cut off by a restart.
UnusedBagIsForgotten ==
    \A b \in Bags :
        b \in UnusedBags(bags, bag_users) ~> b \notin UnusedBags(bags, bag_users)
================================================================================
