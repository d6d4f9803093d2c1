# A verification of mytonstorage-backend

The backend takes uploads from users, gives them to a TON storage daemon, helps
the user to deploy a storage contract with chosen providers, tells the providers
to download, watches them do it, and removes the files when they are no longer
needed. This directory models the parts of it that decide something over time,
checks them with TLC on small instances, and proves the main results with TLAPS
for all values of the constants.

Run the tools in this directory:

    tlc -workers 2 -config lifecycle.cfg MCBagLifecycle
    tlapm BagLifecycleProofs.tla

`PROJECT.json` lists the components, runs, mutants, the source lines of every
definition, the hazards, findings and theorems.

## 1. The system

### Components

| component | state it keeps | operations |
|---|---|---|
| files repository (`repositories/files`) | `files.bags`, `files.bag_users` | one SQL statement per method: AddBag, CanUpload, RemoveUnusedBags, RemoveUnpaidBagsRelations, MarkBagAsPaid, GetNotifyInfo, IncreaseAttempts, RemoveNotifiedBags (on the queue), ... |
| files service (`services/files`) | the progress of each upload | AddFiles, MarkBagAsPaid, DeleteBag, two read-only lists |
| unpaid bag workers (`workers/files`) | the bags still to be removed from disk | MarkToRemoveUnpaidFiles, RemoveUnpaidFiles |
| providers repository (`repositories/providers`) | `providers.notifications`, and its history by a trigger | AddProviderToNotifyQueue, GetProvidersToNotify, GetProvidersInProgress, IncreaseNotifyAttempts, MarkAsNotified, IncreaseDownloadChecks |
| notify workers (`workers/files`) | the batch in hand | CollectContractProvidersToNotify, TriggerProvidersDownload, DownloadChecker, RemoveNotifiedFiles, runStorageChecks |
| providers service (`services/providers`) | the request in hand | FetchProvidersRates, InitStorageContract, EditStorageContract, NotifyProviders |
| agent client (`clients/agentrpc`) | the call in hand | GetStorageRates, RequestStorageInfo: failover over the agents |
| storage daemon client (`clients/ton-storage`) | the daemon's bags | Create, List, GetBag, RemoveBag, StartDownload |
| TON client (`clients/ton`) | none | GetProvidersInfo |
| HTTP server (`httpServer`) | sessions in cookies, a rate limiter | the routes, one service call each (updateProviders makes two) |
| auth, contracts service | none | a TON proof; the bodies of top-up and withdrawal |
| system parameters, simple cache and its middlewares | a row; a map under a mutex | read and write |
| worker scheduling and process (`workers`, `cmd`) | one goroutine per worker | run in an endless loop; start and stop |
| cleaner, metrics | none that matters | the cleaner does nothing to the tables modelled here |

### How they interact

Handlers and workers run at once and share two things only: the database, where
each method is a single statement and no transaction spans two of them, and the
storage daemon, which is called over HTTP. Nothing locks a bag across two steps.
So the interleavings that matter are those between statements and daemon calls:

* an **upload** reads (CanUpload, the daemon's list), writes files for minutes into a
  directory of its own, has the daemon make a bag of it and serve it from there, and
  then writes its rows; when it fails, its directory goes;
* **RemoveUnpaidFiles** and **RemoveNotifiedFiles** delete rows first and files
  afterwards, bag by bag;
* **TriggerProvidersDownload** and **DownloadChecker** read a batch, ask an agent
  for up to ten seconds, and write the batch back in two statements of which
  either may fail;
* the **rates requests** ask agents and daemon for many seconds and look at the
  database once in between.

A statement is not a point in time either: at READ COMMITTED, the database's default,
a DELETE with a subquery selects by one snapshot and deletes later. The models of the
files tables have such statements in two halves, wherever they are used.

### What makes each component correct

* bag tables: a relation ends by its user's request or after its lifetime, and a paid
  one by its user's request (the code keeps the first, and the second but for one
  window); an unpaid relation does end; a bag without relations is forgotten, and it
  and no other leaves the disk (the code keeps the first half of this);
* an upload: the bag is what the client sent, and no other upload's failure takes
  files from under it;
* upload limits: how far the uploads in flight overrun "one unpaid bag" and the
  disk space;
* notify queue: no row is lost or taken back, counters are bounded and belong to
  the row they were counted for, and every row settles;
* agent calls: bounded by the caller's deadline, and failing only when no agent
  could have answered in time; a batch is split without loss;
* rates requests: every provider is answered, an offer has room for the bag, and
  a contract holds exactly the providers that were asked for at their price.

The hard behaviours, each with its line and the property that watches it, are
the `hazards` of `PROJECT.json`.

## 2. The modules

| module | models | used by, proved in |
|---|---|---|
| `FilesTables` | what the statements on `files.bag_users` and `files.bags` compute, as operators on tables | extended by `FilesStatements` and `NotifyQueue`; lemmas in `FilesTablesProofs` |
| `FilesStatements` | the statements of the files repository as the database runs them, in the halves READ COMMITTED lets others see | extended by `BagLifecycle` and `BagAndQueue`; proofs in `FilesStatementsProofs` |
| `BagLifecycle` | AddFiles, MarkBagAsPaid, DeleteBag, the two unpaid workers, the daemon, restarts | proofs in `BagLifecycleProofs` |
| `NotifyQueue` | the queue's statements, NotifyProviders, the four notify workers, the archive trigger, restarts | proofs in `NotifyQueueProofs` |
| `BagAndQueue` | both of them as one process over one database and one daemon | refines both; proofs in `BagAndQueueProofs` |
| `UploadFiles` | AddFiles part by part: names, root folder, files on disk, the path, the bag, the deferred RemoveAll | proofs in `UploadFilesProofs` |
| `BagOfUser` | abstract: one bag of one user, as a waiting request sees it | refined by `BagLifecycle` and `FilesStatements`, extended by `ContractRequests` |
| `AgentQuery` | abstract: what a call of the agent client promises its caller | refined by `AgentCalls` (under `StorageChecks`), extended by `ContractRequests` |
| `AgentCalls` | one call of the agent client: attempts, deadlines, failover, partial answers | extended by `StorageChecks` |
| `CheckRound` | abstract: what runStorageChecks promises | refined by `StorageChecks` |
| `StorageChecks` | runStorageChecks over AgentCalls | proofs in `StorageChecksProofs`, those about AgentCalls included |
| `ContractRequests` | the offers, init-contract and update requests over AgentQuery and BagOfUser | proofs in `ContractRequestsProofs` |
| `MC...` | the values of the constants for TLC | |

**FilesTables.** A table is a function on its primary keys. A timestamp is an
age in ticks; it saturates at `AgeCap`, above every lifetime it is compared
with, so that saturated ages compare as larger ones would. `NULL` in
`storage_contract` is `NoContract`. IncreaseAttempts changes nothing, because the
server rejects the statement (section 5).

**FilesStatements.** RemoveUnusedBags, RemoveUnpaidBagsRelations and AddBag are each
two steps, what they read (`SelectUnused`, `SelectExpired`, `StartAddBag`) and their
commit, and everything else may come in between, errors and restarts included. A row that
was selected and has been updated since is deleted all the same, because the DELETE compares
keys; one that was deleted and inserted anew is a new row and is spared. Of two AddBag of
one bag that neither found, one waits for the other. `deleted` names the relation whose
user asked for its deletion in the last step, for the properties; `expiring` keeps the
contract that each selected row had, which tells the properties whether it was paid
since. When the program stops, what it was running has been committed before or never
will be (`ConnectionsEnd`). That is an assumption: the database may run such a statement on
for a moment, beside the first statements of the new process, which is taken for a commit
just before the stop.

**BagLifecycle.** The handlers and workers over those statements. An upload slot goes
through `idle` → `checked` (CanUpload) → `approved` (validateAvailableSpace) → `created`
(the daemon has the bag) → `saving` (AddBag is running) → `idle`; `AbortUpload` and
`SaveFails` are the error returns, after which a created bag stays in the daemon, as the
code leaves it. An AddBag that commits and whose answer is lost is `SaveBag`: what differs
is the reply, and the directory, which is in `UploadFiles`. A Create that the client gives up
after two minutes may still be made by the daemon, at any later time (`pending`,
`LateCreate`); `belated` are the bags the daemon has for no better reason. A restart may leave
such bags as well. `RemoveUnusedBags` is the commit of that statement and the answer, which
may break off (`rows.Err()` is not looked at); `RemoveBag` and `SkipBag` are the daemon's
answers for the bags that were returned. Of RemoveNotifiedFiles the module has the end only: a
bag that leaves the disk at any time. The directories that a crash leaves in the upload
directory are not modelled: they are in no account of the program. The two lifetimes are
the two configuration values that `cmd/main.go` wires: the public one into the check for
unpaid bags, the private one into the worker.

**NotifyQueue.** Each worker is a pick, which is its SELECT, and one or two writes;
the agent and the chain answer anything their clients can return in between. The
arguments of the steps are the outcomes of calls: `written` is whether a statement
whose error the code drops took effect, `answered` and `reported` are the rows the
agent confirmed, and `failed` those that failed, which may overlap if the agent repeats a row
(`IsRound`). `RemoveNotifiedBags` includes the trigger: a key that is archived
already makes the whole statement fail. The uploads, payments and deletions that
feed the queue are here by what they do to the tables: a bag may be forgotten at any
time, and any relations may be dropped, which is more than the halves of the statements
can do. FilesStatements and BagLifecycle have the detail, and BagAndQueue shows that it is
no more than this.

**BagAndQueue.** The variables of both modules, with `bags` and `bag_users` shared.
Every step is a step of one module that leaves the variables of the other alone,
except three: a removal from disk by RemoveNotifiedFiles is a step of both, and so are
`Restart` and `Tick`, as there is one process and one clock. The composition is shown
to implement both modules. `QueueSpec` is NotifyQueue on the same variables: what the
handlers and the workers of unpaid bags do to the tables is no more than what the
queue allows for. `LifeSpec` is BagLifecycle under the mapping `bag_users <- Uncounted`,
the relations with `notify_attempts` taken back to 0: BagLifecycle has no statement that
sets the counter, and none that reads it, so the marking of queued relations is a stutter.
With the two refinements the properties of either module hold of the whole process.

**UploadFiles.** A file name is a sequence of segments, as sanitizePath leaves it; what
the code tells apart is kept: a name with folders, a name of one segment with a backslash
(`filepath.Dir` is "."), a plain one. `root`, `last` and `count` are the variables
rootDir, lastFileName and filesCount of the loop. `sent` is what the client sent, for the
properties. os.Create may fail and its error is lost (`missed`); MkdirAll fails the upload
where a file is in the way. The daemon identifies a bag by what is in it (`BagAt`), and
when it has the bag already it goes on to serve the old directory or changes to the new:
the code relies on neither. Create and AddBag may succeed with their answers lost, and
RemoveAll may fail. Paths with a leading slash are left out.

**AgentCalls, StorageChecks.** An agent that is `up` answers when it has heard from
all targets or has waited for the query timeout it was sent; another agent may
answer, refuse or hang. Answers may leave out rows, hold rows nobody asked for, or hold
several rows of one key: `answer` keeps, for each key it mentions, whether a row of it
is OK and whether one is not, so that a key can be both. NotifyQueue takes "each row is
answered or has failed, or both" for granted; StorageChecks is shown to implement that
contract (`CheckRound`). What a
call promises whoever makes it (rows of the one agent that answered, or an error and
no row) is `AgentQuery`, and a call is shown to keep it (`CallKeepsPromise`).

**ContractRequests.** One request at a time, stage by stage: the size of the bag,
the rates, the check for expiry, the contract. Of its surroundings it relies on two
promises, each of which is a module and is proved to be kept where the detail is: the
agents answer or fail as `AgentQuery` says (`AgentsAnswer`), and the bag is uploaded,
expires, is paid, loses its relation or leaves the disk as `BagOfUser` says (`BagLives`).
`RelationState` of FilesTables is the mapping from the tables to `BagOfUser`: what the
statements can tell of one relation, with the lifetime that `cmd/main.go` gives to both
IsBagExpired and the worker. IsBagExpired looks the relation up by the owner address of the
body, parsed and printed again; whether that is the address the relation is stored under is
`named`, which the client decides, and if it is not the check says nothing of the bag.
Offers and declines are kept by the place of their key in
the list that was sent, which is all their order is used for. Arithmetic of the needed
space is in `% Width`.

## 3. The runs

Bounds are small because the properties need few actors: two uploads to overrun a
check, two users or two bags to confuse one with the other, a batch of two rows
to answer in part, one row that is archived and queued again to meet a stale
answer, two uploads of the same bag to take the files from one another. What several
users with one bag do to each other is in `files_statements`, which has three of them, and,
for any number of users, in the theorems; `lifecycle` has the room for two bags instead.

| run | instance | what it shows |
|---|---|---|
| `lifecycle` | 1 user, 2 bags, 2 uploads in flight, space for 1 bag | `UnpaidBound`, `QuotaBound`: the checks of an upload are overrun by at most the uploads in flight (these bounds are reached). `IsBagOfUser`: any one relation and its files, among all the others, go through the states a contract request relies on, in spite of restarts, errors of the daemon and bags that it makes late |
| `files_statements` | 3 users of 1 bag | `OrphansComeFromOverlap`: the one way a relation loses its bag, an AddBag that overlaps with RemoveUnusedBags. `DropsAreOwnOrOverdue`: no window drops a relation before its time. `PaidDropsOverlapPayment`: the one way a paid relation is dropped, a payment between the halves of RemoveUnpaidBagsRelations. `IsRelationOfUser`: no window renews a relation or takes a payment back. With fairness `UnpaidIsTemporary` and `UnusedBagIsForgotten`, in spite of errors and restarts |
| `upload_files` | 2 uploads, 2 contents, limit of files 2, 5 names: two plain ones, one with a backslash, and a file in each of two folders that are named like the plain ones | `UploadedBagIsWhole`: what is reported as uploaded is what was sent, for every order of parts; `RecordedBagIsServed`: only a failed upload of the same bag takes its files |
| `queue_one_provider` | 1 row, all limits 1, ages to 2 | `ArchivedWhileAskedOnlyAtTheLimit`; `DownloadedIsAsReported`: a failed check writes back an old number and undoes nothing by it; with fairness `RowsSettle`, archived and re-queued rows included |
| `queue_two_providers` | 2 rows in one batch, limit of attempts 0 | `AttemptsBounded`, `ResultsFollowNotification`, `ProgressIsKept`, `NothingIsForgotten` when batches are answered and written in part |
| `bag_and_queue` | 1 bag, user, contract, provider and upload | `QueueSpec`, `LifeSpec`: the composition implements both modules; `QueuedRelationIsKept`: a relation whose providers are queued is lost to its user's request or to the window above |
| `storage_checks` | 3 rows, 2 agents, deadline 3, attempt 2, query 1 | `CallIsBounded`, `AgentInReachIsUsed`, `BothOnlyIfContradicted`: a row is counted as checked and as failed only if the agent says both; that runStorageChecks implements a round, its liveness included (`IsCheckRound`), and that a call keeps its promise (`CallKeepsPromise`) |
| `contract_requests` | lists of up to 4 of 2 keys, doubled ones included; sizes at a megabyte, above it, and where the sum wraps | `EveryProviderIsAnswered`, `OfferedProvidersHaveRoom`, `ContractIsAsAsked`, `ExpiredBagGetsNoContract` |

Limits and ages: each counter has its limit at 0 or 1, so that "below", "at" and
"above" all occur; `AgeCap` and `RowAgeCap` exceed the lifetimes by one, so that
"younger", "as old" and "older" all occur. `storage_checks` makes an attempt shorter
than the deadline, as AGENT_RPC_TIMEOUT_MS can be set, so that both reasons to
give an agent up happen; `contract_requests` needs no deadline, because its queries may
fail whenever they run. `HandlerLimit` and `ServiceLimit` (50 and 256 in the
code) are 2 and 3, so that lists pass one and not the other. `QuotaBound` counts
bags of one unit, which the daemon has by its own account; the bags of a Create that was
given up and the directories that a crash leaves are on top of it, without a bound.
`bag_and_queue` has one of everything and the smallest limits and lifetimes: a step of the
one half that the other does not expect needs no second bag. With one user
`QueuedRelationIsKept` is about a relation that is deleted and uploaded anew while its
providers are being queued; the relations of other users are in the theorem, which, like the
others of section 4, is for any numbers. Symmetry is used in runs without liveness only.

The four other runs each check one statement of the repository's documents or
comments that the code does not keep; they are the findings of section 5. Three of
these are about liveness and use a specification with fairness, so that the
counterexample is not a system that merely stopped.

### Fairness

`workers.run` calls each worker for ever, with a pause; calls to the daemon and the agents
have timeouts. Calls to the database have none (only connecting has one, `init.go:66`, and
the workers pass a plain context): that it answers, in time or with an error, is an
assumption. Under it, time and each pick are weakly fair, and so is each removal in hand (the
daemon's success or its error, whichever). No request ever has to be made, no agent has
to answer, and `Restart` and errors may happen again and again. The writes of the queue and
the second halves of the workers' DELETE statements are strongly fair: a statement that
is ready to run again and again is at some time executed, that is, the database and the
process do not fail at this very point for ever. Without it
a database that is down at each of those moments is a counterexample and says
nothing about the code. `LookupSpec`, of the run `queue_lookups`, has the fairness of the
collector: contracts are picked and lookups end again and again.

## 4. What is proved

For every value of the constants, from the named assumptions in the modules (the
lifetimes lie below the caps of the ages, limits are natural numbers, batch sizes are
positive, sets of bags, users and uploads are finite, the query timeout is below
the attempt's, sizes are below `Width`, file names are non-empty, and the values that
stand for "none" are none of the others):

* **FilesStatementsProofs**: `StatementsTypeCorrect`, `OrphansComeFromOverlapOnly`,
  `DropsAreOwnOrOverdueAlways`, `PaidDropsOverlapPaymentOnly`, `EveryRelationIsOneOfUser`. The
  invariant `StatementsInv` has what a statement that has read and not yet written knows of
  the rows: those selected as expired are still there and overdue (`ExpiringIsOverdue`:
  payments and second uploads keep `created_at`, and a deletion takes a row out of the
  selection), and a bag that was selected as unused had no relation in the snapshot
  (`ForgottenWasUnused`), so that one it has at the commit must have been added meanwhile. That
  a selected row was unpaid is the strengthening behind `PaidDropsOverlapPayment`.
* **BagLifecycleProofs**: `TypeCorrect`, `ProgramCallsStatements` (`Spec =>
  StatementsSpec`), `ProgramDropsRelations`, `UnpaidBoundAlways`, `QuotaBoundAlways`,
  `EveryBagIsOneOfUser`. By the second, what is proved of the statements holds of the program
  that calls them; the third says so of the three properties about lost rows. The two bounds
  are inductive with the types, because they count the uploads that *may* still use what
  they were granted together with what is used: an upload that passes from one to the
  other changes the sum by nothing. The set arguments (`SmallerSets`, `MovedElement`, and
  the `Fresh...` lemmas of `FilesTablesProofs` about what each statement does to the
  unpaid relations of a user) are lemmas of their own. A re-upload meets a relation
  that exists, which is why `FreshAfterAddBag` is needed: it adds no second one.
  `EveryBagIsOneOfUser` is the refinement of `BagOfUser` for every bag and user. It rests
  on the `StateAfter...` lemmas of `FilesTablesProofs`, one per statement, which say what the
  statement does to the state of any one relation, its own or another.
* **NotifyQueueProofs**: `QueueTypeCorrect`, `AttemptsBoundedAlways`,
  `ResultsFollowNotificationAlways`, `ProgressIsKeptAlways`, `DownloadedIsAsReportedAlways`,
  `NothingIsForgottenEver`, `ArchivedWhileAskedOnlyAtTheLimitEver`. Neither of the first two invariants is
  inductive: they are strengthened to `RowsInFlight`, which says what the workers
  know of the rows they hold. `TriggerInFlight`: a row that has been picked and is
  still there has not been notified and is within its limit (one above, once it has
  been counted as failed). `CheckerInFlight`: a row that has been picked is there,
  notified and incomplete, *or its key is archived*: this disjunct is where a
  stale answer reaches a row that was queued anew, and the reason why
  `ResultsFollowNotification` excepts the keys of the history. The action
  properties follow from this invariant and from what each statement does to a
  single row (`StepsOfRows`, `RowsLeaveByRemoval`).
* **BagAndQueueProofs**: `CompositionImplementsQueue` (`Spec => QueueSpec`),
  `CompositionImplementsLife` (`Spec => LifeSpec`), `QueuedRelationsAreKept`. The
  invariant `CompInv` has what the mappings rest on: uploads, requests and running statements
  are about known users, bags and contracts, and only paid relations have their providers
  queued (`QueuedIsPaid`), which is not in either module, because neither sees both the
  marking of relations and the statements that drop them. For `LifeSpec` each statement is
  shown to commute with taking the counter back (the `Taken...` lemmas).
* **UploadFilesProofs**: `UploadsTypeCorrect`, `UploadsAreWhole`, `RecordedBagsAreServed`. The
  two properties speak of bags that are made; the invariant `UploadInv` says what is
  known before (`Known`: which files the root, the count and the last file stand for,
  while parts are read), and from where the daemon serves a bag (`ServedFrom`: from a
  directory that was made into that very bag, so that no other upload's RemoveAll
  reaches it). `BagIsWhole` is the step from the one to the other: the path given to the
  daemon leaves out no file of an upload with one root.
* **StorageChecksProofs**: `ChecksTypeCorrect`, `CallIsBoundedAlways`,
  `AgentInReachIsUsedAlways`, `ChecksImplementRounds` (`Spec => Round!Spec`, the safety
  half of `IsCheckRound`), `BothOnlyIfContradictedAlways`, and `ChecksKeepPromise`, the
  refinement of `AgentQuery`. The invariant adds `PatienceLeft` (an agent that is up is
  never waited for longer than the query timeout), `LeftBehind` (unless the deadline has
  passed, no agent that is up was passed over) and, for the refinement,
  `RoundInProgress` (asked and failed rows make up the batch) and `CalledByRound` (a call
  goes on only while a round waits for it, so that no query begins before the last is over).
* **ContractRequestsProofs**: `RequestsTypeCorrect`, `EveryProviderAnswered`,
  `OfferedProvidersHaveRoomAlways`, `ContractsAreAsAsked`, `ExpiredBagsGetNoContract`. The
  invariant `RequestInv` is the types, those of the two promises among them, with
  three facts that the properties lack: the answer stays as it is while a request waits
  for the database and the daemon (`Waiting`), what was expired on arrival and still is
  has not passed the check (`Expiry`), and offers, declines and contract tell of the
  answer what it says (`Results`). That a contract has all providers needs a count:
  as many offers as places in the list are offers at all places.
  Nothing but the two promises is used of agents and bag, so the theorems hold whatever
  the deadlines and the number of agents are, and `ChecksKeepPromise`, `EveryBagIsOneOfUser`
  and `EveryRelationIsOneOfUser` say that the detailed modules keep them.

The theorem `AgentInReachIsUsedAlways` rests on `QueryTimeout < RequestTimeout`. The
configured default satisfies it (10 s and 7 s against 30 s, which agentrpc.New also takes
for a value of 0, `client.go:94-97`); nothing in the code enforces it, and with AGENT_RPC_TIMEOUT_MS at 10 s or below an agent that waits for
one slow provider would be given up although it was about to answer.

**Model-checked only**: liveness (`UnpaidIsTemporary`, `UnusedBagIsForgotten`,
`RowsSettle`, the fairness half of `IsCheckRound`), which with ENABLED is beyond the
prover.

**Not restated.** That the properties of `BagLifecycle` and `NotifyQueue` hold of the
composition follows from their theorems and the two refinements of `BagAndQueueProofs`. It
is not a theorem of its own, because tlapm cannot cite the theorems of an instance
under a refinement mapping. In the same way the promises are proved of the modules that keep
them, and `ContractRequests` is proved from the promises; there is no one module in which
requests, agents and tables run together.

## 5. Findings

Each is a run whose property TLC violates.

* `lifecycle_disk_leak`: the rows go first. A restart, an error of the daemon, or an answer
  of the DELETE that breaks off, before the files are removed, leaves them on disk for good,
  in no table (`worker.go:79`).
* `bag_and_queue_removal`: RemoveNotifiedFiles removes the bag of every row it deleted and
  looks at no other relation of that bag. When the providers of one user are done, the
  files go although another user has uploaded the same content and is about to pay
  for it (`worker.go:150`: "Remove only if all same bagid can be deleted", and
  `docs/API.ru.md:161`, which promises that user his `free_storage`).
* `queue_lookups`: IncreaseAttempts gives two column names to
  `jsonb_array_elements`, which has one; the statement is always rejected and its
  callers drop the error. A contract that cannot be read is looked up for ever
  (`workers.go:33`).
* `queue_archive_conflict`: the archive trigger is a plain INSERT under the key of the
  deleted row; a row queued a second time can never be deleted, and each deletion
  that includes it fails whole.

Other disagreements met while modelling, without a run:

* init-contract looks for an unpaid relation that is too old. Once the worker has removed
  that relation the check passes, and while the files are still in the daemon the user
  is handed a contract for a bag about to be removed (`docs/API.ru.md:274`). Expired *all
  along* is what `ExpiredBagGetsNoContract` shows to be refused, and only if the request
  names the relation's user.
* The owner of init-contract is the body's `owner_address`; nothing compares it with the
  session's address, and it is looked up in the form ParseAddr(...).String() gives, while
  AddBag stores the session's. With another owner, or another form of the same address,
  the expired relation is not found and the contract is made, although
  `docs/API.ru.md:274` excepts nobody. (The raw "0:..." form of the document's example
  is refused by ParseAddr.)
* RemoveUnusedBags can take the row of a bag from under a relation that is committed while
  it runs (`OrphansComeFromOverlap`), and RemoveUnpaidBagsRelations can delete a relation
  whose payment was committed while it runs (`PaidDropsOverlapPayment`). Both properties
  show that there is no other way.
* RemoveUnpaidFiles, too, removes what its statement returned without looking again:
  content uploaded between its two halves has its relation and loses its files.
* An upload with several root folders becomes a bag of the first one, and one with files
  beside a folder a bag of the folder; the client is told of success
  (`UploadedBagIsWhole` excepts these uploads by `InOnePlace`, and `missed` files by the lost
  error of os.Create).
* A description after `max_files_count` files fails an upload that is within the limit.
* Content that was paid, downloaded and removed, and is uploaded again by its user,
  belongs to a paid relation and no queued row, and stays on disk for ever.
* `docs/API.ru.md:161`: `free_storage` is not granted to a re-upload, because AddBag
  keeps `created_at`; `:165`: two uploads in flight both pass the check for unpaid
  bags; `:169`: a re-upload of paid content stays paid; `:185`: a payment after the
  relation was removed is answered 200 and recorded nowhere; `:235`: the delete
  request takes paid relations too.
* `workers.go:47` says a row is given up after more than N attempts; the statement has
  `>= N`, while rows are still picked at N. `workers.go:48` speaks of failed checks;
  successful ones count as well.
* MarkBagAsPaid leaves `notify_attempts` at -1, so a second contract of a relation
  is never looked up.
* init-contract with an empty list of providers answers 200 with an empty
  transaction; the providers' `min_span` and `max_span` are replaced by the user's span.
* `client.go:262`: an agent that hangs uses up the deadline of all agents when the
  attempt's timeout is longer than the deadline, as it is by default; the failover
  then has no time left.

## 6. What is not modelled, and why

* the list requests, the history of relations (`bag_users_history`): nothing decides by
  them;
* multipart parsing itself, and paths with a leading slash, which browsers do not send;
* StartDownload of the storage client and fetchProviderRates: called by nobody;
* the retries inside the TON client: its answer is arbitrary, complete or not;
* auth and the contracts service: encoding and signatures, no state on the server;
* the HTTP library's limiter, sessions and error texts; metrics and logs;
* the cache: each operation is under one mutex. Of the middlewares only the one of the
  files service is wired in `cmd/main.go`, and it only releases keys that nothing sets;
* system parameters: a row that nothing writes while requests run;
* the cleaner, which does nothing to the tables of the models;
* the providers', blacklist and reports tables of `db/init.sql`: no code uses them;
* spans, prices' formula and the cells of a contract in `ContractRequests`.

## 7. Plan

Done: FilesTables and FilesStatements; BagLifecycle, NotifyQueue and BagAndQueue over them,
with both refinements; AgentCalls and StorageChecks with the refinement to CheckRound;
ContractRequests; UploadFiles; the two promises AgentQuery and BagOfUser with their
refinements; and the proofs of all of them.

Next:

1. a second contract of a relation, and a history of failed checks in NotifyQueue, for
   the two hazards whose properties need them;
2. the batches of the collector with the order of their contracts, for contracts that wait
   behind one that does not answer;
3. AddFiles is modelled twice, step by step beside the workers (BagLifecycle) and part by
   part beside its files (UploadFiles): a refinement between the two would carry
   `UploadedBagIsWhole` over to the bags the workers see.
