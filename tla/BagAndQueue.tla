------------------------------ MODULE BagAndQueue ------------------------------
(***************************************************************************)
(* The whole life of a bag: the uploads, payments, deletions and workers   *)
(* of BagLifecycle and the queue of NotifyQueue, on the same files.bags,   *)
(* files.bag_users and storage daemon, in one process.                     *)
(*                                                                         *)
(* Every step is one of either module; the others see only what it does to *)
(* the tables and to the disk.                                             *)
(***************************************************************************)
EXTENDS FilesStatements

CONSTANTS
    Uploads, NoUser, NoBag, PublicLife, TotalSpace,  \* of BagLifecycle
    Providers, FileSize, MaxReported, MaxLookups,    \* of NotifyQueue
    MaxNotifyAttempts, MaxDownloadChecks, Recheck, PaidLife, RowAgeCap,
    LookupBatch, NotifyBatch, CheckBatch, RemoveBatch

VARIABLES
    storage, pending, belated, upload, unused,                              \* of BagLifecycle
    notifications, history, request, collector, trigger, checker, removing  \* of NotifyQueue

lifeVars == <<adding, expiring, forgetting, deleted, storage, pending, belated, upload, unused>>
queueVars == <<notifications, history, request, collector, trigger, checker, removing>>
vars == <<tables, lifeVars, queueVars>>

Life == INSTANCE BagLifecycle
Queue == INSTANCE NotifyQueue

Init == Life!Init /\ Queue!Init

--------------------------------------------------------------------------------

HandlersAndLifeWorkers ==
    /\ \/ \E s \in Uploads, u \in Users : Life!CheckUnpaid(s, u)
       \/ \E s \in Uploads : Life!CheckSpace(s)
       \/ \E s \in Uploads, b \in Bags : Life!CreateBag(s, b)
       \/ \E s \in Uploads, b \in Bags : Life!GiveUpCreate(s, b)
       \/ \E b \in Bags : Life!LateCreate(b)
       \/ \E s \in Uploads : Life!StartSaving(s)
       \/ \E s \in Uploads : Life!SaveBag(s)
       \/ \E s \in Uploads : Life!SaveFails(s)
       \/ \E s \in Uploads : Life!AbortUpload(s)
       \/ \E b \in Bags, u \in Users, c \in Contracts : Life!Pay(b, u, c)
       \/ \E b \in Bags, u \in Users : Life!DeleteBag(b, u)
       \/ Life!SelectUnpaidFiles
       \/ Life!RemoveUnpaidRelations
       \/ Life!SelectUnusedBags
       \/ Life!RemoveUnusedBags
       \/ Life!StatementFails
       \/ \E b \in Bags : Life!RemoveBag(b)
       \/ \E b \in Bags : Life!SkipBag(b)
    /\ UNCHANGED queueVars

QueueRequestsAndWorkers ==
    /\ \/ \E u \in Users, c \in Contracts, ps \in SUBSET Providers :
             Queue!NotifyProviders(u, c, ps)
       \/ Queue!QueueRequest
       \/ Queue!RequestFails
       \/ Queue!PickContracts
       \/ Queue!LookupEnds
       \/ Queue!PickToNotify
       \/ \E answered, failed \in SUBSET trigger.picked, written \in BOOLEAN :
             Queue!CountFailed(answered, failed, written)
       \/ Queue!MarkAnswered
       \/ \E written \in BOOLEAN : Queue!MarkFails(written)
       \/ Queue!PickInProgress
       \/ \E keys, failed \in SUBSET DOMAIN checker.picked :
             \E reported \in Queue!Reports(keys), written \in BOOLEAN :
                Queue!CountUnanswered(reported, failed, written)
       \/ Queue!SaveReported
       \/ Queue!SaveReportedFails
       \/ Queue!RemoveNotifiedBags
    /\ UNCHANGED lifeVars

\* The daemon removes the bag, has none, or refuses.
RemoveFromDisk(k, b) ==
    /\ Queue!RemoveFromDisk(k, b)
    /\ Life!RemoveNotifiedBag(b) \/ UNCHANGED lifeVars

Restart == Life!Restart /\ Queue!Restart

Tick == Life!Tick /\ Queue!Tick

Next ==
    \/ HandlersAndLifeWorkers
    \/ QueueRequestsAndWorkers
    \/ \E k \in Providers \X Contracts, b \in Bags : RemoveFromDisk(k, b)
    \/ Restart
    \/ Tick

Spec == Init /\ [][Next]_vars

--------------------------------------------------------------------------------
(* The composition implements both modules. *)

\* The queue sees the handlers and workers of BagLifecycle as the statements that
\* feed it: nothing they do to the tables is beyond what NotifyQueue allows, so
\* what holds of the queue alone holds of it here.
QueueSpec == Queue!Spec

\* The relations with the counter of the lookups taken back: BagLifecycle has no
\* statement that sets it.
Uncounted == [k \in DOMAIN bag_users |-> [bag_users[k] EXCEPT !.attempts = 0]]

LifeView == INSTANCE BagLifecycle WITH bag_users <- Uncounted

\* The handlers and workers of BagLifecycle see of the queue a counter they do not
\* read and bags that leave the disk: its worker and the collector of contracts
\* take, pay and drop no relation and forget no bag.
LifeSpec == LifeView!Spec

--------------------------------------------------------------------------------

\* A relation whose providers are queued (notify_attempts = -1) is paid:
\* AddProviderToNotifyQueue marks relations by bag and contract, and so never an unpaid
\* one, be it of another user or the same that was deleted and uploaded anew while its
\* providers were being queued.  Nobody but its own user takes it back, unless all of it,
\* the payment and the queueing, came between the two halves of a
\* RemoveUnpaidBagsRelations.
QueuedRelationIsKept ==
    [][\A k \in DOMAIN bag_users \ DOMAIN bag_users' :
          bag_users[k].attempts = -1 =>
             \/ k \in deleted'
             \/ /\ ~IsUnpaid(bag_users[k])
                /\ k \in DOMAIN expiring /\ expiring[k] = NoContract]_vars

--------------------------------------------------------------------------------
(* What the comments of the repository say, and the code does not do. *)

\* worker.go:150 "Remove only if all same bagid can be deleted": RemoveNotifiedFiles
\* leaves a bag on disk while a relation of any user waits for its payment or its
\* providers.
AwaitedBagStaysOnDisk ==
    [][\A k \in DOMAIN bag_users :
          (\E row \in removing \ removing' : row[2] = k[1] /\ k[1] \in storage \ storage')
              => bag_users[k].attempts = -1]_vars
================================================================================
