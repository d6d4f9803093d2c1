------------------------------- MODULE NotifyQueue -------------------------------
(***************************************************************************)
(* From a paid bag to its removal from disk: providers are queued in       *)
(* providers.notifications, asked to download, checked, and given up or    *)
(* found complete; then the bag is removed.  The module has the statements *)
(* of pkg/repositories/providers/repository.go, the four workers of        *)
(* pkg/workers/files that use them and the NotifyProviders handler.        *)
(*                                                                         *)
(* Of the uploads, payments and deletions that feed the queue only what    *)
(* their statements do to the two tables is here.  BagLifecycle has their  *)
(* handlers and the disk, and BagAndQueue has both life cycles on one      *)
(* database and one disk.                                                  *)
(***************************************************************************)
EXTENDS FilesTables

CONSTANTS
    Providers,          \* provider public keys
    FileSize,           \* files_size of each bag
    MaxReported,        \* the largest number of bytes a provider reports
    MaxLookups,         \* fetchContractProvidersAttempts
    MaxNotifyAttempts,  \* maxNotifyAttempts
    MaxDownloadChecks,  \* maxDownloadChecks
    Recheck,            \* the 5 minutes between two checks of a row
    PaidLife,           \* paid_files_lifetime
    RowAgeCap,          \* the age at which the age of a row stops growing
    LookupBatch, NotifyBatch, CheckBatch, RemoveBatch  \* LIMIT of the statements

ASSUME SizesAssumption == FileSize \in [Bags -> Nat] /\ MaxReported \in Nat
ASSUME LimitsAssumption ==
    /\ MaxLookups \in Nat
    /\ MaxNotifyAttempts \in Nat
    /\ MaxDownloadChecks \in Nat
    /\ {LookupBatch, NotifyBatch, CheckBatch, RemoveBatch} \subseteq Nat \ {0}
ASSUME TimesAssumption ==
    /\ RowAgeCap \in Nat
    /\ Recheck \in 0..(RowAgeCap - 1)
    /\ PaidLife \in 0..(RowAgeCap - 1)

VARIABLES
    bags, bag_users,            \* as in BagLifecycle
    notifications,              \* providers.notifications
    history,                    \* the primary keys of providers.notifications_history
    request,                    \* what the NotifyProviders call in flight will queue
    collector,                  \* CollectContractProvidersToNotify: the pairs looked up
    trigger,                    \* TriggerProvidersDownload
    checker,                    \* DownloadChecker
    removing                    \* RemoveNotifiedFiles: <<row, bag>>, a RemoveBag call
                                \* to come for each row that was deleted

filesVars == <<bags, bag_users>>
workerVars == <<collector, trigger, checker, removing>>
vars == <<filesVars, notifications, history, request, workerVars>>

\* The primary key of providers.notifications and of its history.
QueueKeys == Providers \X Contracts

Notification == [bag : Bags, notified : BOOLEAN, attempts : Nat, checks : Nat,
                 downloaded : Nat, age : 0..RowAgeCap]

\* A db.ProviderNotification to be queued.
QueueRow == [provider : Providers, contract : Contracts, bag : Bags]

\* Numbers of bytes of some of the rows.
IsByteCounts(bytes) ==
    DOMAIN bytes \subseteq QueueKeys /\ \A k \in DOMAIN bytes : bytes[k] \in Nat

TriggerIdle == [pc |-> "idle", picked |-> {}, answered |-> {}]
CheckerIdle == [pc |-> "idle", picked |-> NoRows, reported |-> NoRows]

TypeOK ==
    /\ bags \subseteq Bags
    /\ IsRelationTable(bag_users)
    /\ DOMAIN notifications \subseteq QueueKeys
    /\ \A k \in DOMAIN notifications : notifications[k] \in Notification
    /\ history \subseteq QueueKeys
    /\ request \subseteq QueueRow
    /\ collector \subseteq Bags \X Contracts
    /\ trigger \in [pc : {"idle", "asked", "answered"},
                    picked : SUBSET QueueKeys, answered : SUBSET QueueKeys]
    /\ checker.pc \in {"idle", "asked", "answered"}
    /\ IsByteCounts(checker.picked)
    /\ IsByteCounts(checker.reported)
    /\ removing \subseteq QueueKeys \X Bags

Init ==
    /\ bags = {}
    /\ bag_users = NoRows
    /\ notifications = NoRows
    /\ history = {}
    /\ request = {}
    /\ collector = {}
    /\ trigger = TriggerIdle
    /\ checker = CheckerIdle
    /\ removing = {}

--------------------------------------------------------------------------------
(* The statements of the providers repository. *)

\* What a SELECT with LIMIT n and no ORDER BY may return.
Limited(rows, n) ==
    {r \in SUBSET rows : (r = rows /\ Cardinality(rows) <= n)
                          \/ (Cardinality(r) = n /\ Cardinality(rows) > n)}

NewNotification(b) ==
    [bag |-> b, notified |-> FALSE, attempts |-> 0, checks |-> 0, downloaded |-> 0, age |-> 0]

\* Mutant of KeyOf: the columns of the key are swapped.
KeyOfSwapped(row) == <<row.contract, row.provider>>

KeyOf(row) == <<row.provider, row.contract>>

\* Mutant of QueueRows: ON CONFLICT the row is queued afresh.
QueueRowsAfresh(table, rows) ==
    [k \in DOMAIN table \cup {KeyOf(r) : r \in rows} |->
        IF k \in {KeyOf(r) : r \in rows}
        THEN NewNotification((CHOOSE r \in rows : KeyOf(r) = k).bag)
        ELSE table[k]]

\* ON CONFLICT DO NOTHING: a row that is queued already is left as it is.
QueueRows(table, rows) ==
    [k \in DOMAIN table \cup {KeyOf(r) : r \in rows} |->
        IF k \in DOMAIN table
        THEN table[k]
        ELSE NewNotification((CHOOSE r \in rows : KeyOf(r) = k).bag)]

\* Mutant of MarkQueued: the join has lost the contract.
MarkQueuedByBag(relations, rows) ==
    [k \in DOMAIN relations |->
        IF \E r \in rows : r.bag = k[1]
        THEN [relations[k] EXCEPT !.attempts = -1]
        ELSE relations[k]]

MarkQueued(relations, rows) ==
    [k \in DOMAIN relations |->
        IF \E r \in rows : r.bag = k[1] /\ r.contract = relations[k].contract
        THEN [relations[k] EXCEPT !.attempts = -1]
        ELSE relations[k]]

AddProviderToNotifyQueue(rows) ==
    /\ notifications' = QueueRows(notifications, rows)
    /\ bag_users' = MarkQueued(bag_users, rows)

\* Mutant of ToNotify: no limit of the attempts.
ToNotifyForEver == {k \in DOMAIN notifications : ~notifications[k].notified}

ToNotify ==
    {k \in DOMAIN notifications : /\ ~notifications[k].notified
                                  /\ notifications[k].attempts <= MaxNotifyAttempts}

\* Mutant of InProgress: rows are checked before their provider is notified.
InProgressUnasked ==
    {k \in DOMAIN notifications :
        /\ FileSize[notifications[k].bag] > notifications[k].downloaded
        /\ notifications[k].checks <= MaxDownloadChecks
        /\ notifications[k].age > Recheck}

InProgress ==
    {k \in DOMAIN notifications :
        /\ notifications[k].notified
        /\ FileSize[notifications[k].bag] > notifications[k].downloaded
        /\ notifications[k].checks <= MaxDownloadChecks
        /\ notifications[k].age > Recheck}

\* GetProvidersInProgress is ORDER BY updated_at ASC.
OldestInProgress ==
    {r \in Limited(InProgress, CheckBatch) :
        \A k \in r, other \in InProgress \ r :
            notifications[k].age >= notifications[other].age}

\* Mutant of IncreaseNotifyAttempts: the failure is dated and not counted.
DateNotifyAttempts(keys) ==
    [k \in DOMAIN notifications |->
        IF k \in keys THEN [notifications[k] EXCEPT !.age = 0] ELSE notifications[k]]

IncreaseNotifyAttempts(keys) ==
    [k \in DOMAIN notifications |->
        IF k \in keys
        THEN [notifications[k] EXCEPT !.attempts = @ + 1, !.age = 0]
        ELSE notifications[k]]

MarkAsNotified(keys) ==
    [k \in DOMAIN notifications |->
        IF k \in keys
        THEN [notifications[k] EXCEPT !.attempts = @ + 1, !.notified = TRUE, !.age = 0]
        ELSE notifications[k]]

\* bytes maps the keys to update to what is written into downloaded.
IncreaseDownloadChecks(bytes) ==
    [k \in DOMAIN notifications |->
        IF k \in DOMAIN bytes
        THEN [notifications[k] EXCEPT !.checks = @ + 1, !.downloaded = bytes[k], !.age = 0]
        ELSE notifications[k]]

\* Mutant of CanDelete: the limit of the attempts is off by one.
CanDeleteEarly(row) ==
    /\ \/ ~row.notified /\ row.attempts >= MaxNotifyAttempts - 1
       \/ row.notified /\ row.checks >= MaxDownloadChecks
       \/ FileSize[row.bag] = row.downloaded
    /\ row.age > PaidLife

CanDelete(row) ==
    /\ \/ ~row.notified /\ row.attempts >= MaxNotifyAttempts
       \/ row.notified /\ row.checks >= MaxDownloadChecks
       \/ FileSize[row.bag] = row.downloaded
    /\ row.age > PaidLife

\* The rows of the bags all of whose rows can be deleted.
Deletable ==
    {k \in DOMAIN notifications :
        \A other \in DOMAIN notifications :
            notifications[other].bag = notifications[k].bag => CanDelete(notifications[other])}

--------------------------------------------------------------------------------
(* What feeds the queue. *)

\* The rows of NotifyProviders: the request names the providers.
NotifyProviders(u, c, providers) ==
    /\ request = {}
    /\ \E b \in PaidBags(bags, bag_users, u, c) :
          request' = {[provider |-> p, contract |-> c, bag |-> b] : p \in providers}
    /\ UNCHANGED <<filesVars, notifications, history, workerVars>>

QueueRequest ==
    /\ request # {}
    /\ AddProviderToNotifyQueue(request)
    /\ request' = {}
    /\ UNCHANGED <<bags, history, workerVars>>

RequestFails ==
    /\ request # {}
    /\ request' = {}
    /\ UNCHANGED <<filesVars, notifications, history, workerVars>>

PickContracts ==
    /\ collector = {}
    /\ collector' \in
          Limited(ContractsToLookUp(bags, bag_users, MaxLookups), LookupBatch)
    /\ UNCHANGED <<filesVars, notifications, history, request, trigger, checker, removing>>

\* found is what the contracts list on chain; a contract that cannot be read lists
\* nobody.  Of two picked bags with one contract the first takes its providers.
FoundRows(found, bagOf) ==
    {[provider |-> f[1], contract |-> f[2], bag |-> bagOf[f[2]]] :
        f \in {k \in found : k[2] \in DOMAIN bagOf}}

QueueProviders(found, bagOf) ==
    LET rows == FoundRows(found, bagOf)
    IN  /\ collector # {}
        /\ DOMAIN bagOf = {pair[2] : pair \in collector}
        /\ \A c \in DOMAIN bagOf : <<bagOf[c], c>> \in collector
        /\ IF rows = {}
           THEN /\ bag_users' = IncreaseAttempts(bag_users, collector)
                /\ UNCHANGED notifications
           ELSE AddProviderToNotifyQueue(rows)
        /\ collector' = {}
        /\ UNCHANGED <<bags, history, request, trigger, checker, removing>>

\* The chain or the database answers with an error.
LookupFails ==
    /\ collector # {}
    /\ bag_users' = IncreaseAttempts(bag_users, collector)
    /\ collector' = {}
    /\ UNCHANGED <<bags, notifications, history, request, trigger, checker, removing>>

--------------------------------------------------------------------------------
(* TriggerProvidersDownload. *)

PickToNotify ==
    /\ trigger.pc = "idle"
    /\ \E keys \in Limited(ToNotify, NotifyBatch) \ {{}} :
          trigger' = [pc |-> "asked", picked |-> keys, answered |-> {}]
    /\ UNCHANGED <<filesVars, notifications, history, request, collector, checker, removing>>

\* What CheckRound makes of an answer of the agent: each picked row has an answer or has
\* failed, or both, if the answer repeats it.
IsRound(picked, answered, failed) == answered \cup failed = picked

\* The error of the statement that counts the failed rows is dropped (written is then
\* FALSE).
CountFailed(answered, failed, written) ==
    /\ trigger.pc = "asked"
    /\ IsRound(trigger.picked, answered, failed)
    /\ notifications' = IF written THEN IncreaseNotifyAttempts(failed) ELSE notifications
    /\ trigger' = IF answered = {}
                  THEN TriggerIdle
                  ELSE [pc |-> "answered", picked |-> trigger.picked, answered |-> answered]
    /\ UNCHANGED <<filesVars, history, request, collector, checker, removing>>

MarkAnswered ==
    /\ trigger.pc = "answered"
    /\ notifications' = MarkAsNotified(trigger.answered)
    /\ trigger' = TriggerIdle
    /\ UNCHANGED <<filesVars, history, request, collector, checker, removing>>

\* The deferred increment counts every picked row, the failed ones once more; its
\* error is dropped as well.
MarkFails(written) ==
    /\ trigger.pc = "answered"
    /\ notifications' = IF written THEN IncreaseNotifyAttempts(trigger.picked) ELSE notifications
    /\ trigger' = TriggerIdle
    /\ UNCHANGED <<filesVars, history, request, collector, checker, removing>>

--------------------------------------------------------------------------------
(* DownloadChecker. *)

\* Mutant of PickInProgress: the statement does not read downloaded.
PickUnread ==
    /\ checker.pc = "idle"
    /\ \E keys \in OldestInProgress \ {{}} :
          checker' = [pc |-> "asked", picked |-> [k \in keys |-> 0], reported |-> NoRows]
    /\ UNCHANGED <<filesVars, notifications, history, request, collector, trigger, removing>>

PickInProgress ==
    /\ checker.pc = "idle"
    /\ \E keys \in OldestInProgress \ {{}} :
          checker' = [pc |-> "asked",
                      picked |-> [k \in keys |-> notifications[k].downloaded],
                      reported |-> NoRows]
    /\ UNCHANGED <<filesVars, notifications, history, request, collector, trigger, removing>>

\* A failed row is written back with the downloaded that was read when it was picked.
CountUnanswered(reported, failed, written) ==
    /\ checker.pc = "asked"
    /\ IsRound(DOMAIN checker.picked, DOMAIN reported, failed)
    /\ notifications' = IF written
                        THEN IncreaseDownloadChecks(Restrict(checker.picked, failed))
                        ELSE notifications
    /\ checker' = IF DOMAIN reported = {}
                  THEN CheckerIdle
                  ELSE [pc |-> "answered", picked |-> checker.picked, reported |-> reported]
    /\ UNCHANGED <<filesVars, history, request, collector, trigger, removing>>

SaveReported ==
    /\ checker.pc = "answered"
    /\ notifications' = IncreaseDownloadChecks(checker.reported)
    /\ checker' = CheckerIdle
    /\ UNCHANGED <<filesVars, history, request, collector, trigger, removing>>

SaveReportedFails ==
    /\ checker.pc = "answered"
    /\ checker' = CheckerIdle
    /\ UNCHANGED <<filesVars, notifications, history, request, collector, trigger, removing>>

--------------------------------------------------------------------------------
(* RemoveNotifiedFiles. *)

\* Mutant of RemoveNotifiedBags: the deleted rows are not archived.
RemoveUnarchived ==
    /\ removing = {}
    /\ \E keys \in Limited(Deletable, RemoveBatch) \ {{}} :
          /\ notifications' = Restrict(notifications, DOMAIN notifications \ keys)
          /\ removing' = {<<k, notifications[k].bag>> : k \in keys}
    /\ UNCHANGED <<filesVars, history, request, collector, trigger, checker>>

\* The trigger archives each deleted row by a plain INSERT: one key that is archived
\* already makes the statement fail, and nothing is deleted.
RemoveNotifiedBags ==
    /\ removing = {}
    /\ \E keys \in Limited(Deletable, RemoveBatch) \ {{}} :
          /\ keys \cap history = {}
          /\ notifications' = Restrict(notifications, DOMAIN notifications \ keys)
          /\ history' = history \cup keys
          /\ removing' = {<<k, notifications[k].bag>> : k \in keys}
    /\ UNCHANGED <<filesVars, request, collector, trigger, checker>>

\* Done or refused by the daemon, the call is not made again.
RemoveFromDisk(k, b) ==
    /\ <<k, b>> \in removing
    /\ removing' = removing \ {<<k, b>>}
    /\ UNCHANGED <<filesVars, notifications, history, request, collector, trigger, checker>>

--------------------------------------------------------------------------------
(* What the statements of FilesStatements do to the tables that the queue reads. *)

\* A bag whose row AddBag has found may be gone by now.
SaveBag(b, u, found) ==
    /\ bags' = IF found THEN bags ELSE bags \cup {b}
    /\ bag_users' = AddBag(bag_users, b, u)
    /\ UNCHANGED <<notifications, history, request, workerVars>>

Pay(b, u, c) ==
    /\ bag_users' = MarkBagAsPaid(bag_users, b, u, c)
    /\ UNCHANGED <<bags, notifications, history, request, workerVars>>

\* What one request, or one run of the worker for expired relations, deletes.
DropRelations(keys) ==
    /\ bag_users' = Restrict(bag_users, DOMAIN bag_users \ keys)
    /\ UNCHANGED <<bags, notifications, history, request, workerVars>>

\* A bag that was unused when RemoveUnusedBags selected it may have relations again.
ForgetBags(gone) ==
    /\ bags' = bags \ gone
    /\ UNCHANGED <<bag_users, notifications, history, request, workerVars>>

--------------------------------------------------------------------------------

Restart ==
    /\ request' = {}
    /\ collector' = {}
    /\ trigger' = TriggerIdle
    /\ checker' = CheckerIdle
    /\ removing' = {}
    /\ UNCHANGED <<filesVars, notifications, history>>

OlderRow(row) == [row EXCEPT !.age = IF @ < RowAgeCap THEN @ + 1 ELSE @]

Tick ==
    /\ bag_users' = AgeRelations(bag_users)
    /\ notifications' = [k \in DOMAIN notifications |-> OlderRow(notifications[k])]
    /\ UNCHANGED <<bags, history, request, workerVars>>

\* What the agent may report of a set of rows.
Reports(keys) == [keys -> 0..MaxReported]

Next ==
    \/ \E b \in Bags, u \in Users, found \in BOOLEAN : SaveBag(b, u, found)
    \/ \E b \in Bags, u \in Users, c \in Contracts : Pay(b, u, c)
    \/ \E keys \in SUBSET DOMAIN bag_users : DropRelations(keys)
    \/ \E gone \in SUBSET bags : ForgetBags(gone)
    \/ \E u \in Users, c \in Contracts, ps \in SUBSET Providers : NotifyProviders(u, c, ps)
    \/ QueueRequest
    \/ RequestFails
    \/ PickContracts
    \/ \E found \in SUBSET QueueKeys : \E bagOf \in [{pair[2] : pair \in collector} -> Bags] :
          QueueProviders(found, bagOf)
    \/ LookupFails
    \/ PickToNotify
    \/ \E answered, failed \in SUBSET trigger.picked, written \in BOOLEAN :
          CountFailed(answered, failed, written)
    \/ MarkAnswered
    \/ \E written \in BOOLEAN : MarkFails(written)
    \/ PickInProgress
    \/ \E keys, failed \in SUBSET DOMAIN checker.picked :
          \E reported \in Reports(keys), written \in BOOLEAN :
             CountUnanswered(reported, failed, written)
    \/ SaveReported
    \/ SaveReportedFails
    \/ RemoveNotifiedBags
    \/ \E k \in QueueKeys, b \in Bags : RemoveFromDisk(k, b)
    \/ Restart
    \/ Tick

Spec == Init /\ [][Next]_vars

\* workers.run calls each worker again and again, its calls end by their timeouts,
\* and time passes (weak fairness).  Crashes and failing statements may recur but
\* are not for ever: an answer that is ready again and again is at some point
\* written (strong fairness).
Fairness ==
    /\ WF_vars(Tick)
    /\ WF_vars(PickToNotify)
    /\ SF_vars(\E answered, failed \in SUBSET trigger.picked : CountFailed(answered, failed, TRUE))
    /\ SF_vars(MarkAnswered)
    /\ WF_vars(PickInProgress)
    /\ SF_vars(\E keys, failed \in SUBSET DOMAIN checker.picked :
                  \E reported \in Reports(keys) : CountUnanswered(reported, failed, TRUE))
    /\ SF_vars(SaveReported)
    /\ SF_vars(RemoveNotifiedBags)
    /\ \A k \in QueueKeys, b \in Bags : WF_vars(RemoveFromDisk(k, b))

FairSpec == Spec /\ Fairness

LookupEnds ==
    \/ LookupFails
    \/ \E found \in SUBSET QueueKeys : \E bagOf \in [{pair[2] : pair \in collector} -> Bags] :
          QueueProviders(found, bagOf)

\* The worker CollectContractProvidersToNotify is called again and again and ends
\* its calls by their timeouts as well, restarts or not (strong fairness).
LookupSpec == Spec /\ WF_vars(PickContracts) /\ SF_vars(LookupEnds)

--------------------------------------------------------------------------------
(* Safety. *)

\* The counters stay within two of their limits, so the smallint columns do not
\* overflow however often workers fail: a row is picked at most at the limit, and
\* a round counts it at most twice, once as failed, and once more if the answer of the
\* agent repeats it or MarkAsNotified fails (worker.go:307-316).
AttemptsBounded ==
    \A k \in DOMAIN notifications :
        /\ notifications[k].attempts <= MaxNotifyAttempts + 2
        /\ notifications[k].checks <= MaxDownloadChecks + 2

\* A row holds results of download checks only after its provider was notified,
\* unless an earlier row of the same key was archived: then the answer of a check
\* begun for the old row may be written into the new one, and into no other.
ResultsFollowNotification ==
    \A k \in DOMAIN notifications :
        ~notifications[k].notified
            /\ (notifications[k].checks > 0 \/ notifications[k].downloaded > 0)
            => k \in history

\* docs/API.ru.md: queueing a provider again leaves the existing row alone.  No
\* interleaving of requests and workers takes a row back: its counters never
\* fall, it stays notified, and it keeps the bag it was queued for.
ProgressIsKept ==
    [][\A k \in DOMAIN notifications \cap DOMAIN notifications' :
          /\ notifications'[k].bag = notifications[k].bag
          /\ notifications'[k].attempts >= notifications[k].attempts
          /\ notifications'[k].checks >= notifications[k].checks
          /\ notifications[k].notified => notifications'[k].notified]_vars

\* What a row says was downloaded is what the agent said last, although every check
\* that fails writes back the number that was read when the check began.  An answer that
\* comes after the row was archived and its key queued anew is the exception.
DownloadedIsAsReported ==
    [][\A k \in DOMAIN notifications \cap DOMAIN notifications' :
          notifications'[k].downloaded # notifications[k].downloaded =>
             \/ k \in DOMAIN checker.reported
                /\ notifications'[k].downloaded = checker.reported[k]
             \/ k \in history]_vars

\* A provider that was queued for a contract is queued or archived ever after.
NothingIsForgotten ==
    [][DOMAIN notifications \cup history
          \subseteq DOMAIN notifications' \cup history']_vars

\* A worker picks a row at or below its limit, RemoveNotifiedBags takes it at or
\* above the limit, and no lock keeps them apart.  A row archived while its provider
\* is being asked, or its download checked, is at the limit exactly: it was the last
\* try.  A row of an empty bag is complete before it is asked, and may go earlier.
ArchivedWhileAskedOnlyAtTheLimit ==
    [][\A k \in DOMAIN notifications \ DOMAIN notifications' :
          /\ trigger.pc = "asked" /\ k \in trigger.picked
                => \/ notifications[k].attempts = MaxNotifyAttempts
                   \/ notifications[k].downloaded = FileSize[notifications[k].bag]
          /\ checker.pc = "asked" /\ k \in DOMAIN checker.picked
                => notifications[k].checks = MaxDownloadChecks]_vars

--------------------------------------------------------------------------------
(* Liveness, under Fairness. *)

Settled(row) ==
    IF row.notified
    THEN row.checks > MaxDownloadChecks \/ row.downloaded >= FileSize[row.bag]
    ELSE row.attempts > MaxNotifyAttempts

\* No provider is asked or checked for ever: each row leaves the queue, is given up
\* or is found complete, whatever the agent answers and however rows are re-queued.
RowsSettle ==
    \A k \in QueueKeys :
        k \in DOMAIN notifications
            ~> (k \notin DOMAIN notifications \/ Settled(notifications[k]))

--------------------------------------------------------------------------------
(* What the documents and comments of the repository say, and the code does not do. *)

\* workers.go:33 a lookup that fails counts an attempt and is retried later; with
\* fetchContractProvidersAttempts the lookups of a contract come to an end.
LookupsEnd ==
    \A pair \in Bags \X Contracts :
        pair \in ContractsToLookUp(bags, bag_users, MaxLookups)
            ~> pair \notin ContractsToLookUp(bags, bag_users, MaxLookups)

\* workers.go:43-50 what is given up or complete is removed when it is old enough.
DeletableRowsAreDeleted ==
    \A k \in QueueKeys : k \in Deletable ~> k \notin DOMAIN notifications
================================================================================
