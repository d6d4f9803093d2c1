------------------------------ MODULE BagLifecycle ------------------------------
(***************************************************************************)
(* The life of a bag from its upload to its removal from disk: the upload, *)
(* payment and deletion handlers of pkg/services/files, the workers        *)
(* MarkToRemoveUnpaidFiles and RemoveUnpaidFiles of pkg/workers/files, and *)
(* the storage daemon they share with each other.                          *)
(*                                                                         *)
(* The statements are those of FilesStatements, in halves where they are;  *)
(* each call of the storage daemon is a step; between two steps of a       *)
(* handler every other handler and worker may run.  Every bag takes one    *)
(* unit of the disk.                                                       *)
(*                                                                         *)
(* What becomes of a paid bag is in NotifyQueue; of its worker             *)
(* RemoveNotifiedFiles only the end is here, a bag that leaves the disk,   *)
(* and BagAndQueue says when that happens.                                 *)
(***************************************************************************)
EXTENDS FilesStatements

CONSTANTS
    Uploads,     \* upload requests that may be in flight at once
    NoUser,      \* the user of an idle upload slot
    NoBag,       \* the bag of an upload that has created none
    PublicLife,  \* unpaid_files_lifetime of the files service
    TotalSpace   \* totalDiskSpaceAvailable, in bags

ASSUME PublicLifeAssumption == PublicLife \in 0..AgeCap
ASSUME TotalSpaceAssumption == TotalSpace \in Nat
ASSUME UploadsAssumption == IsFiniteSet(Uploads) /\ Uploads # {}
ASSUME FinitenessAssumption == IsFiniteSet(Bags) /\ IsFiniteSet(Users)
ASSUME NoneAssumption == NoUser \notin Users /\ NoBag \notin Bags

VARIABLES
    storage,  \* the bags the storage daemon keeps on disk
    pending,  \* the bags it may yet make for a Create that nobody waits for any more
    belated,  \* the bags it keeps because of such a Create
    upload,   \* the progress of every AddFiles call
    unused    \* what the running RemoveUnpaidFiles has still to remove from disk

daemonVars == <<storage, pending, belated>>
vars == <<statementVars, daemonVars, upload, unused>>

Idle == [pc |-> "idle", user |-> NoUser, bag |-> NoBag]

UploadState == [pc : {"idle", "checked", "approved", "created", "saving"},
                user : Users \cup {NoUser},
                bag : Bags \cup {NoBag}]

\* The uploads of u that have passed the check for unpaid bags.
Admitted(u) == {s \in Uploads : upload[s].pc # "idle" /\ upload[s].user = u}

\* The uploads that have passed the check for disk space and use none yet.
Approved == {s \in Uploads : upload[s].pc = "approved"}

TypeOK ==
    /\ StatementsTypeOK
    /\ storage \subseteq Bags /\ pending \subseteq Bags /\ belated \subseteq storage
    /\ upload \in [Uploads -> UploadState]
    /\ \A s \in Uploads :
          /\ upload[s].pc # "idle" => upload[s].user \in Users
          /\ upload[s].pc \in {"created", "saving"} => upload[s].bag \in Bags
    /\ unused \subseteq Bags

Init ==
    /\ StatementsInit
    /\ storage = {} /\ pending = {} /\ belated = {}
    /\ upload = [s \in Uploads |-> Idle]
    /\ unused = {}

--------------------------------------------------------------------------------
(* AddFiles, step by step. *)

\* files.CanUpload: the check and the later AddBag are separate statements.
CheckUnpaid(s, u) ==
    /\ upload[s].pc = "idle"
    /\ CanUpload(bag_users, u, PublicLife)
    /\ upload' = [upload EXCEPT ![s] = [pc |-> "checked", user |-> u, bag |-> NoBag]]
    /\ UNCHANGED <<statementVars, daemonVars, unused>>

\* Mutant of CheckSpace: the size of the upload itself is not counted.
CheckUsedSpace(s) ==
    /\ upload[s].pc = "checked"
    /\ Cardinality(storage) <= TotalSpace
    /\ upload' = [upload EXCEPT ![s].pc = "approved"]
    /\ UNCHANGED <<statementVars, daemonVars, unused>>

\* validateAvailableSpace: nothing is reserved for the upload.
CheckSpace(s) ==
    /\ upload[s].pc = "checked"
    /\ Cardinality(storage) + 1 <= TotalSpace
    /\ upload' = [upload EXCEPT ![s].pc = "approved"]
    /\ UNCHANGED <<statementVars, daemonVars, unused>>

\* saveToTONStorage: the daemon names the bag by its content.
CreateBag(s, b) ==
    /\ upload[s].pc = "approved"
    /\ storage' = storage \cup {b}
    /\ upload' = [upload EXCEPT ![s] = [pc |-> "created", user |-> @.user, bag |-> b]]
    /\ UNCHANGED <<statementVars, pending, belated, unused>>

\* The client of the daemon gives up after two minutes, and the daemon goes on.
GiveUpCreate(s, b) ==
    /\ upload[s].pc = "approved"
    /\ pending' = pending \cup {b}
    /\ upload' = [upload EXCEPT ![s] = Idle]
    /\ UNCHANGED <<statementVars, storage, belated, unused>>

\* There may be more of them for the same content.
LateCreate(b) ==
    /\ b \in pending
    /\ pending' \in {pending, pending \ {b}}
    /\ storage' = storage \cup {b}
    /\ belated' = IF b \in storage THEN belated ELSE belated \cup {b}
    /\ UNCHANGED <<statementVars, upload, unused>>

StartSaving(s) ==
    /\ upload[s].pc = "created"
    /\ StartAddBag(upload[s].bag, upload[s].user)
    /\ upload' = [upload EXCEPT ![s].pc = "saving"]
    /\ UNCHANGED <<daemonVars, unused>>

\* Mutant of SaveBag: a relation that exists is given up for a new one.
SaveAfresh(s) ==
    LET b == upload[s].bag
        u == upload[s].user
    IN  /\ upload[s].pc = "saving"
        /\ <<b, u>> \in DOMAIN adding
        /\ bags' = bags \cup {b}
        /\ bag_users' = Put(bag_users, <<b, u>>, NewRelation)
        /\ adding' = Added(b, u)
        /\ deleted' = {}
        /\ upload' = [upload EXCEPT ![s] = Idle]
        /\ UNCHANGED <<expiring, forgetting, daemonVars, unused>>

\* Whether the answer arrives makes no difference here.
SaveBag(s) ==
    /\ upload[s].pc = "saving"
    /\ CommitAddBag(upload[s].bag, upload[s].user)
    /\ upload' = [upload EXCEPT ![s] = Idle]
    /\ UNCHANGED <<daemonVars, unused>>

SaveFails(s) ==
    /\ upload[s].pc = "saving"
    /\ AddBagFails(upload[s].bag, upload[s].user)
    /\ upload' = [upload EXCEPT ![s] = Idle]
    /\ UNCHANGED <<daemonVars, unused>>

\* Any other error after the first check: only the upload directory is removed, a bag
\* the daemon has created stays.
AbortUpload(s) ==
    /\ upload[s].pc \in {"checked", "approved", "created"}
    /\ upload' = [upload EXCEPT ![s] = Idle]
    /\ UNCHANGED <<statementVars, daemonVars, unused>>

--------------------------------------------------------------------------------
(* The handlers of one statement. *)

\* The number of rows updated is not looked at: the client is told 200.
Pay(b, u, c) ==
    /\ CommitPayment(b, u, c)
    /\ UNCHANGED <<daemonVars, upload, unused>>

DeleteBag(b, u) ==
    /\ CommitDeletion(b, u)
    /\ UNCHANGED <<daemonVars, upload, unused>>

--------------------------------------------------------------------------------
(* The workers. *)

\* The two halves of MarkToRemoveUnpaidFiles, which is one statement.
SelectUnpaidFiles ==
    /\ SelectExpired
    /\ UNCHANGED <<daemonVars, upload, unused>>

RemoveUnpaidRelations ==
    /\ DeleteExpired
    /\ UNCHANGED <<daemonVars, upload, unused>>

\* RemoveUnpaidFiles is done with one round before it begins the next.
SelectUnusedBags ==
    /\ unused = {}
    /\ SelectUnused
    /\ UNCHANGED <<daemonVars, upload, unused>>

\* The rows go before the files do, and rows.Err() is not looked at: when the answer
\* breaks off, the worker goes on with what it has read.
RemoveUnusedBags ==
    /\ DeleteUnused
    /\ unused' \in SUBSET forgetting.bags
    /\ UNCHANGED <<daemonVars, upload>>

StatementFails ==
    /\ RemovalFails
    /\ UNCHANGED <<daemonVars, upload, unused>>

TakeFromDisk(b) ==
    /\ storage' = storage \ {b}
    /\ belated' = belated \ {b}
    /\ UNCHANGED pending

RemoveBag(b) ==
    /\ b \in unused
    /\ unused' = unused \ {b}
    /\ TakeFromDisk(b)
    /\ UNCHANGED <<statementVars, upload>>

\* An error of the daemon is logged and the bag is skipped for good.
SkipBag(b) ==
    /\ b \in unused
    /\ unused' = unused \ {b}
    /\ UNCHANGED <<statementVars, daemonVars, upload>>

\* The daemon has removed a bag for RemoveNotifiedFiles.
RemoveNotifiedBag(b) ==
    /\ b \in storage
    /\ TakeFromDisk(b)
    /\ UNCHANGED <<statementVars, upload, unused>>

--------------------------------------------------------------------------------

\* The process stops and starts again; the database and the daemon go on, and the daemon
\* may be making the bags of uploads that nobody waits for any more.
Restart ==
    /\ ConnectionsEnd
    /\ \E made \in SUBSET Bags : /\ Approved = {} => made = {}
                                 /\ pending' = pending \cup made
    /\ upload' = [s \in Uploads |-> Idle]
    /\ unused' = {}
    /\ UNCHANGED <<storage, belated>>

Tick ==
    /\ TimePasses
    /\ UNCHANGED <<daemonVars, upload, unused>>

Next ==
    \/ \E s \in Uploads, u \in Users : CheckUnpaid(s, u)
    \/ \E s \in Uploads : CheckSpace(s)
    \/ \E s \in Uploads, b \in Bags : CreateBag(s, b)
    \/ \E s \in Uploads, b \in Bags : GiveUpCreate(s, b)
    \/ \E b \in Bags : LateCreate(b)
    \/ \E s \in Uploads : StartSaving(s)
    \/ \E s \in Uploads : SaveBag(s)
    \/ \E s \in Uploads : SaveFails(s)
    \/ \E s \in Uploads : AbortUpload(s)
    \/ \E b \in Bags, u \in Users, c \in Contracts : Pay(b, u, c)
    \/ \E b \in Bags, u \in Users : DeleteBag(b, u)
    \/ SelectUnpaidFiles
    \/ RemoveUnpaidRelations
    \/ SelectUnusedBags
    \/ RemoveUnusedBags
    \/ StatementFails
    \/ \E b \in Bags : RemoveBag(b)
    \/ \E b \in Bags : SkipBag(b)
    \/ \E b \in Bags : RemoveNotifiedBag(b)
    \/ Restart
    \/ Tick

Spec == Init /\ [][Next]_vars

\* workers.run calls each worker again and again, also after an error, and time passes.
\* A statement that is tried for ever succeeds now and then; a call of the daemon ends
\* by its timeout, one way or another.  No request and no failure has to happen.
Fairness ==
    /\ WF_vars(Tick)
    /\ WF_vars(SelectUnpaidFiles) /\ SF_vars(RemoveUnpaidRelations)
    /\ WF_vars(SelectUnusedBags) /\ SF_vars(RemoveUnusedBags)
    /\ \A b \in Bags : WF_vars(RemoveBag(b) \/ SkipBag(b))

FairSpec == Spec /\ Fairness

--------------------------------------------------------------------------------
(* Safety. *)

\* How far a user can get past "one unpaid bag": the check and AddBag are separate
\* steps, so the uploads in flight may each add one, and no sequence of uploads,
\* failures and re-uploads adds more.
UnpaidBound ==
    \A u \in Users :
        Cardinality(FreshUnpaid(bag_users, u, PublicLife)) + Cardinality(Admitted(u))
            <= Cardinality(Uploads)

\* How far validateAvailableSpace can be outrun by the uploads it lets through: it
\* reserves nothing, so all of them but one can add a bag to a daemon that is full by
\* its own account.  Of the bags that the daemon has, those of a Create that was given
\* up are on top of it, and nothing bounds them; the directories that a crash leaves on
\* the disk are in no account at all.
QuotaBound ==
    Cardinality(storage \ belated) + Cardinality(Approved)
        <= TotalSpace + Cardinality(Uploads) - 1

\* What ContractRequests relies on while a request for one bag of one user waits.
BagView(k) == INSTANCE BagOfUser WITH
    relation <- RelationState(bag_users, k, PrivateLife),
    stored <- k[1] \in storage

\* The life of every relation and of its files, whatever else happens to the tables and
\* to the daemon: the relation begins unpaid and fresh, a payment is not taken back, and
\* what has expired is fresh again only after it has been gone; no step of the program
\* changes the relation and the files together.
IsBagOfUser ==
    /\ \A k \in Keys : BagView(k)!BagInit
    /\ [][\A k \in Keys : [BagView(k)!BagNext]_(BagView(k)!bagVars)]_vars

--------------------------------------------------------------------------------
(* What the documents and comments of the repository say, and the code does not do. *)

\* worker.go:79 a bag that has no users is removed from the database and from disk.
UnusedBagLeavesDisk ==
    \A b \in Bags :
        b \in UnusedBags(bags, bag_users) ~> (b \notin storage \/ b \in UsedBags(bag_users))
================================================================================
