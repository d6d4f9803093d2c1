---------------------------- MODULE NotifyQueueProofs ----------------------------
(***************************************************************************)
(* Theorems of NotifyQueue, for all bags, users, contracts, providers,     *)
(* sizes, limits and lifetimes.                                            *)
(***************************************************************************)
EXTENDS NotifyQueue, FilesTablesProofs

--------------------------------------------------------------------------------
(* What the statements do to one row. *)

\* Each field keeps its type when it is counted, set or dated anew.
LEMMA FieldUpdates ==
    ASSUME NEW row \in Notification, NEW n \in Nat
    PROVE  /\ [row EXCEPT !.attempts = @ + 1] \in Notification
           /\ [row EXCEPT !.checks = @ + 1] \in Notification
           /\ [row EXCEPT !.downloaded = n] \in Notification
           /\ [row EXCEPT !.notified = TRUE] \in Notification
           /\ [row EXCEPT !.age = 0] \in Notification
<1>1. [row EXCEPT !.attempts = @ + 1] \in Notification
  BY DEF Notification
<1>2. [row EXCEPT !.checks = @ + 1] \in Notification
  BY DEF Notification
<1>3. [row EXCEPT !.downloaded = n] \in Notification
  BY DEF Notification
<1>4. [row EXCEPT !.notified = TRUE] \in Notification
  BY DEF Notification
<1>5. [row EXCEPT !.age = 0] \in Notification
  BY TimesAssumption DEF Notification
<1>. QED  BY <1>1, <1>2, <1>3, <1>4, <1>5

\* What IncreaseNotifyAttempts does to each row.
LEMMA IncreaseNotifyAttemptsRow ==
    ASSUME TypeOK, NEW keys, NEW k \in DOMAIN notifications
    PROVE  LET old == notifications[k]
               new == IncreaseNotifyAttempts(keys)[k]
           IN  /\ new \in Notification
               /\ new.attempts = IF k \in keys THEN old.attempts + 1 ELSE old.attempts
               /\ new.bag = old.bag /\ new.notified = old.notified
               /\ new.checks = old.checks /\ new.downloaded = old.downloaded
<1>1. notifications[k] \in Notification
  BY DEF TypeOK
<1>2. [notifications[k] EXCEPT !.attempts = @ + 1, !.age = 0] \in Notification
  <2>1. [notifications[k] EXCEPT !.attempts = @ + 1, !.age = 0]
          = [[notifications[k] EXCEPT !.attempts = @ + 1] EXCEPT !.age = 0]
    BY <1>1 DEF Notification
  <2>. QED  BY <1>1, <2>1, FieldUpdates
<1>3. IncreaseNotifyAttempts(keys)[k] \in Notification
  BY <1>1, <1>2 DEF IncreaseNotifyAttempts
<1>. QED  BY <1>1, <1>3 DEF IncreaseNotifyAttempts, Notification

\* What MarkAsNotified does to each row.
LEMMA MarkAsNotifiedRow ==
    ASSUME TypeOK, NEW keys, NEW k \in DOMAIN notifications
    PROVE  LET old == notifications[k]
               new == MarkAsNotified(keys)[k]
           IN  /\ new \in Notification
               /\ new.attempts = IF k \in keys THEN old.attempts + 1 ELSE old.attempts
               /\ new.bag = old.bag /\ (old.notified => new.notified)
               /\ new.checks = old.checks /\ new.downloaded = old.downloaded
<1>1. notifications[k] \in Notification
  BY DEF TypeOK
<1>2. [notifications[k] EXCEPT !.attempts = @ + 1, !.notified = TRUE, !.age = 0] \in Notification
  <2>1. [notifications[k] EXCEPT !.attempts = @ + 1, !.notified = TRUE, !.age = 0]
          = [[[notifications[k] EXCEPT !.attempts = @ + 1] EXCEPT !.notified = TRUE] EXCEPT !.age = 0]
    BY <1>1 DEF Notification
  <2>. QED  BY <1>1, <2>1, FieldUpdates
<1>3. MarkAsNotified(keys)[k] \in Notification
  BY <1>1, <1>2 DEF MarkAsNotified
<1>. QED  BY <1>1, <1>3 DEF MarkAsNotified, Notification

\* What IncreaseDownloadChecks does to each row.
LEMMA IncreaseDownloadChecksRow ==
    ASSUME TypeOK, NEW bytes, \A x \in DOMAIN bytes : bytes[x] \in Nat,
           NEW k \in DOMAIN notifications
    PROVE  LET old == notifications[k]
               new == IncreaseDownloadChecks(bytes)[k]
           IN  /\ new \in Notification
               /\ new.checks = IF k \in DOMAIN bytes THEN old.checks + 1 ELSE old.checks
               /\ new.bag = old.bag /\ new.notified = old.notified
               /\ new.attempts = old.attempts
               /\ new.downloaded = IF k \in DOMAIN bytes THEN bytes[k] ELSE old.downloaded
               /\ k \notin DOMAIN bytes => new = old
<1>1. notifications[k] \in Notification
  BY DEF TypeOK
<1>2. ASSUME k \in DOMAIN bytes
      PROVE  [notifications[k] EXCEPT !.checks = @ + 1, !.downloaded = bytes[k], !.age = 0]
                \in Notification
  <2>1. [notifications[k] EXCEPT !.checks = @ + 1, !.downloaded = bytes[k], !.age = 0]
          = [[[notifications[k] EXCEPT !.checks = @ + 1] EXCEPT !.downloaded = bytes[k]] EXCEPT !.age = 0]
    BY <1>1 DEF Notification
  <2>2. bytes[k] \in Nat
    BY <1>2
  <2>. QED  BY <1>1, <2>1, <2>2, FieldUpdates
<1>3. IncreaseDownloadChecks(bytes)[k] \in Notification
  BY <1>1, <1>2 DEF IncreaseDownloadChecks
<1>. QED  BY <1>1, <1>3 DEF IncreaseDownloadChecks, Notification

\* The passing of time changes the age of a row and nothing else.
LEMMA OlderRowFields ==
    ASSUME NEW row \in Notification
    PROVE  /\ OlderRow(row) \in Notification
           /\ OlderRow(row).bag = row.bag /\ OlderRow(row).notified = row.notified
           /\ OlderRow(row).attempts = row.attempts /\ OlderRow(row).checks = row.checks
           /\ OlderRow(row).downloaded = row.downloaded
  BY TimesAssumption DEF OlderRow, Notification

\* The statements update rows and neither add nor delete any.
LEMMA UpdatedDomains ==
    ASSUME NEW keys
    PROVE  /\ DOMAIN IncreaseNotifyAttempts(keys) = DOMAIN notifications
           /\ DOMAIN MarkAsNotified(keys) = DOMAIN notifications
           /\ DOMAIN IncreaseDownloadChecks(keys) = DOMAIN notifications
  BY DEF IncreaseNotifyAttempts, MarkAsNotified, IncreaseDownloadChecks

\* A row that is queued is an old row left alone or a new one of a bag of the request.
LEMMA QueueRowsTable ==
    ASSUME NEW rows \in SUBSET QueueRow
    PROVE  /\ DOMAIN QueueRows(notifications, rows)
                = DOMAIN notifications \cup {KeyOf(r) : r \in rows}
           /\ \A k \in DOMAIN notifications : QueueRows(notifications, rows)[k] = notifications[k]
           /\ \A k \in DOMAIN QueueRows(notifications, rows) \ DOMAIN notifications :
                 \E b \in Bags : QueueRows(notifications, rows)[k] = NewNotification(b)
<1>1. \A r \in rows : r.bag \in Bags
  BY DEF QueueRow
<1>2. \A k \in {KeyOf(r) : r \in rows} : (CHOOSE r \in rows : KeyOf(r) = k) \in rows
  OBVIOUS
<1>. QED  BY <1>1, <1>2 DEF QueueRows

\* A row that is queued for a bag is a row of the table.
LEMMA NewNotificationRow ==
    ASSUME NEW b \in Bags
    PROVE  NewNotification(b) \in Notification
  BY TimesAssumption DEF NewNotification, Notification

\* QueueRows of AddProviderToNotifyQueue adds the keys of its rows, keeps the old rows and their types.
LEMMA QueueRowsType ==
    ASSUME TypeOK, NEW rows \in SUBSET QueueRow
    PROVE  /\ DOMAIN QueueRows(notifications, rows) \subseteq QueueKeys
           /\ \A k \in DOMAIN QueueRows(notifications, rows) :
                 QueueRows(notifications, rows)[k] \in Notification
<1>1. \A r \in rows : KeyOf(r) \in QueueKeys
  BY DEF KeyOf, QueueRow, QueueKeys
<1>2. \A k \in DOMAIN notifications : QueueRows(notifications, rows)[k] \in Notification
  BY QueueRowsTable DEF TypeOK
<1>3. \A k \in DOMAIN QueueRows(notifications, rows) \ DOMAIN notifications :
        QueueRows(notifications, rows)[k] \in Notification
  BY QueueRowsTable, NewNotificationRow
<1>4. DOMAIN QueueRows(notifications, rows) = DOMAIN notifications \cup {KeyOf(r) : r \in rows}
  BY QueueRowsTable
<1>. QED  BY <1>1, <1>2, <1>3, <1>4 DEF TypeOK

\* Marking relations as queued keeps the type of files.bag_users.
LEMMA MarkQueuedTable ==
    ASSUME NEW t, IsRelationTable(t), NEW rows
    PROVE  IsRelationTable(MarkQueued(t, rows))
<1>1. \A k \in DOMAIN t : MarkQueued(t, rows)[k] \in Relation
  BY DEF MarkQueued, IsRelationTable, Relation
<1>. QED  BY <1>1 DEF MarkQueued, IsRelationTable

\* The rows the collector makes of what it found on chain can be queued.
LEMMA FoundRowsType ==
    ASSUME TypeOK, NEW found \in SUBSET QueueKeys, NEW bagOf,
           \A c \in DOMAIN bagOf : <<bagOf[c], c>> \in collector
    PROVE  FoundRows(found, bagOf) \in SUBSET QueueRow
<1>1. ASSUME NEW f \in {k \in found : k[2] \in DOMAIN bagOf}
      PROVE  [provider |-> f[1], contract |-> f[2], bag |-> bagOf[f[2]]] \in QueueRow
  <2>1. <<bagOf[f[2]], f[2]>> \in Bags \X Contracts
    BY <1>1 DEF TypeOK
  <2>. QED  BY <1>1, <2>1 DEF QueueKeys, QueueRow
<1>. QED  BY <1>1 DEF FoundRows

--------------------------------------------------------------------------------
(* Type correctness. *)

\* No rows at all are byte counts: an idle checker is well typed.
LEMMA NoRowsBytes == IsByteCounts(NoRows)
  BY DEF NoRows, IsByteCounts

\* Nothing is queued and no worker runs at the start.
LEMMA QueueTypeInit == Init => TypeOK
<1>. SUFFICES ASSUME Init PROVE TypeOK
  OBVIOUS
<1>1. DOMAIN NoRows = {} /\ IsRelationTable(NoRows)
  BY DEF NoRows, IsRelationTable
<1>. QED  BY <1>1, NoRowsBytes DEF Init, TypeOK, TriggerIdle, CheckerIdle

\* Every step of every worker keeps the types.
LEMMA QueueTypeInductive == TypeOK /\ [Next]_vars => TypeOK'
<1>. SUFFICES ASSUME TypeOK, [Next]_vars PROVE TypeOK'
  OBVIOUS
<1>. USE DEF TypeOK
<1>0. /\ IsByteCounts(NoRows)
      /\ TriggerIdle \in [pc : {"idle", "asked", "answered"},
                          picked : SUBSET QueueKeys, answered : SUBSET QueueKeys]
      /\ CheckerIdle.pc = "idle" /\ IsByteCounts(CheckerIdle.picked)
      /\ IsByteCounts(CheckerIdle.reported)
  BY NoRowsBytes DEF TriggerIdle, CheckerIdle
<1>. DEFINE RowsOK(table) == /\ DOMAIN table \subseteq QueueKeys
                            /\ \A k \in DOMAIN table : table[k] \in Notification
<1>1. CASE UNCHANGED vars
  BY <1>1 DEF vars, filesVars, workerVars
<1>2. ASSUME NEW b \in Bags, NEW u \in Users, NEW found \in BOOLEAN, SaveBag(b, u, found)
      PROVE  TypeOK'
  <2>1. IsRelationTable(AddBag(bag_users, b, u))
    BY AddBagTable
  <2>2. IsRelationTable(bag_users')
    BY <1>2, <2>1 DEF SaveBag
  <2>. QED  BY <1>2, <2>2 DEF SaveBag, workerVars
<1>3. ASSUME NEW b \in Bags, NEW u \in Users, NEW c \in Contracts, Pay(b, u, c) PROVE TypeOK'
  <2>1. IsRelationTable(MarkBagAsPaid(bag_users, b, u, c))
    BY MarkBagAsPaidTable
  <2>2. IsRelationTable(bag_users')
    BY <1>3, <2>1 DEF Pay
  <2>. QED  BY <1>3, <2>2 DEF Pay, workerVars
<1>4. ASSUME NEW keys \in SUBSET DOMAIN bag_users, DropRelations(keys) PROVE TypeOK'
  <2>1. IsRelationTable(Restrict(bag_users, DOMAIN bag_users \ keys))
    BY RestrictTable
  <2>2. IsRelationTable(bag_users')
    BY <1>4, <2>1 DEF DropRelations
  <2>. QED  BY <1>4, <2>2 DEF DropRelations, workerVars
<1>5. ASSUME NEW gone \in SUBSET bags, ForgetBags(gone) PROVE TypeOK'
  BY <1>5 DEF ForgetBags, workerVars
<1>6. ASSUME NEW u \in Users, NEW c \in Contracts, NEW ps \in SUBSET Providers,
             NotifyProviders(u, c, ps)
      PROVE  TypeOK'
  <2>1. PICK b \in PaidBags(bags, bag_users, u, c) :
           request' = {[provider |-> p, contract |-> c, bag |-> b] : p \in ps}
    BY <1>6 DEF NotifyProviders
  <2>2. b \in Bags
    BY <2>1 DEF PaidBags
  <2>3. request' \subseteq QueueRow
    BY <2>1, <2>2 DEF QueueRow
  <2>. QED  BY <1>6, <2>3 DEF NotifyProviders, filesVars, workerVars
<1>7. CASE QueueRequest
  <2>1. RowsOK(QueueRows(notifications, request)) /\ IsRelationTable(MarkQueued(bag_users, request))
    BY QueueRowsType, MarkQueuedTable
  <2>2. RowsOK(notifications') /\ IsRelationTable(bag_users')
    BY <1>7, <2>1 DEF QueueRequest, AddProviderToNotifyQueue
  <2>. QED  BY <1>7, <2>2 DEF QueueRequest, workerVars
<1>8. CASE RequestFails
  BY <1>8 DEF RequestFails, filesVars, workerVars
<1>9. CASE PickContracts
  <2>1. collector' \subseteq ContractsToLookUp(bags, bag_users, MaxLookups)
    BY <1>9 DEF PickContracts, Limited
  <2>2. ContractsToLookUp(bags, bag_users, MaxLookups) \subseteq Bags \X Contracts
    BY ContractsToLookUpPairs
  <2>. QED  BY <1>9, <2>1, <2>2 DEF PickContracts, filesVars
<1>10. ASSUME NEW found \in SUBSET QueueKeys, NEW bagOf, QueueProviders(found, bagOf)
       PROVE  TypeOK'
  <2>. DEFINE rows == FoundRows(found, bagOf)
  <2>1. rows \in SUBSET QueueRow
    BY <1>10, FoundRowsType DEF QueueProviders
  <2>2. RowsOK(QueueRows(notifications, rows)) /\ IsRelationTable(MarkQueued(bag_users, rows))
    BY <2>1, QueueRowsType, MarkQueuedTable
  <2>3. IsRelationTable(IncreaseAttempts(bag_users, collector))
    BY DEF IncreaseAttempts
  <2>4. RowsOK(notifications') /\ IsRelationTable(bag_users')
    BY <1>10, <2>2, <2>3 DEF QueueProviders, AddProviderToNotifyQueue
  <2>. QED  BY <1>10, <2>4 DEF QueueProviders
<1>11. CASE LookupFails
  BY <1>11 DEF LookupFails, IncreaseAttempts
<1>12. CASE PickToNotify
  <2>1. PICK keys \in Limited(ToNotify, NotifyBatch) \ {{}} :
           trigger' = [pc |-> "asked", picked |-> keys, answered |-> {}]
    BY <1>12 DEF PickToNotify
  <2>2. keys \subseteq QueueKeys
    BY <2>1 DEF Limited, ToNotify
  <2>. QED  BY <1>12, <2>1, <2>2 DEF PickToNotify, filesVars
<1>13. ASSUME NEW answered \in SUBSET trigger.picked, NEW failed \in SUBSET trigger.picked,
              NEW written \in BOOLEAN, CountFailed(answered, failed, written)
       PROVE  TypeOK'
  <2>1. RowsOK(IncreaseNotifyAttempts(failed))
    BY IncreaseNotifyAttemptsRow, UpdatedDomains
  <2>2. RowsOK(notifications')
    BY <1>13, <2>1 DEF CountFailed
  <2>3. trigger' \in [pc : {"idle", "asked", "answered"},
                      picked : SUBSET QueueKeys, answered : SUBSET QueueKeys]
    BY <1>0, <1>13 DEF CountFailed
  <2>. QED  BY <1>13, <2>2, <2>3 DEF CountFailed, filesVars
<1>14. CASE MarkAnswered
  <2>1. RowsOK(MarkAsNotified(trigger.answered))
    BY MarkAsNotifiedRow, UpdatedDomains
  <2>2. RowsOK(notifications')
    BY <1>14, <2>1 DEF MarkAnswered
  <2>. QED  BY <1>0, <1>14, <2>2 DEF MarkAnswered, filesVars
<1>15. ASSUME NEW written \in BOOLEAN, MarkFails(written) PROVE TypeOK'
  <2>1. RowsOK(IncreaseNotifyAttempts(trigger.picked))
    BY IncreaseNotifyAttemptsRow, UpdatedDomains
  <2>2. RowsOK(notifications')
    BY <1>15, <2>1 DEF MarkFails
  <2>. QED  BY <1>0, <1>15, <2>2 DEF MarkFails, filesVars
<1>16. CASE PickInProgress
  <2>1. PICK keys \in OldestInProgress \ {{}} :
           checker' = [pc |-> "asked",
                       picked |-> [k \in keys |-> notifications[k].downloaded],
                       reported |-> NoRows]
    BY <1>16 DEF PickInProgress
  <2>2. keys \subseteq DOMAIN notifications
    BY <2>1 DEF OldestInProgress, Limited, InProgress
  <2>3. \A k \in keys : notifications[k].downloaded \in Nat
    BY <2>2 DEF Notification
  <2>4. IsByteCounts([k \in keys |-> notifications[k].downloaded])
    BY <2>2, <2>3 DEF IsByteCounts
  <2>. QED  BY <1>0, <1>16, <2>1, <2>4 DEF PickInProgress, filesVars
<1>17. ASSUME NEW keys \in SUBSET DOMAIN checker.picked, NEW reported \in Reports(keys),
              NEW failed \in SUBSET DOMAIN checker.picked,
              NEW written \in BOOLEAN, CountUnanswered(reported, failed, written)
       PROVE  TypeOK'
  <2>. DEFINE back == Restrict(checker.picked, failed)
  <2>1. DOMAIN checker.picked \subseteq QueueKeys
           /\ \A k \in DOMAIN checker.picked : checker.picked[k] \in Nat
    BY DEF IsByteCounts
  <2>2. \A k \in DOMAIN back : back[k] \in Nat
    BY <2>1 DEF Restrict
  <2>3. RowsOK(IncreaseDownloadChecks(back))
    BY <2>2, IncreaseDownloadChecksRow, UpdatedDomains
  <2>4. RowsOK(notifications')
    BY <1>17, <2>3 DEF CountUnanswered
  <2>5. reported \in [keys -> Nat]
    BY SizesAssumption DEF Reports
  <2>6. IsByteCounts(reported)
    BY <2>1, <2>5 DEF IsByteCounts
  <2>7. /\ checker'.pc \in {"idle", "asked", "answered"}
        /\ IsByteCounts(checker'.picked) /\ IsByteCounts(checker'.reported)
    BY <1>0, <1>17, <2>6 DEF CountUnanswered
  <2>. QED  BY <1>17, <2>4, <2>7 DEF CountUnanswered, filesVars
<1>18. CASE SaveReported
  <2>1. \A k \in DOMAIN checker.reported : checker.reported[k] \in Nat
    BY DEF IsByteCounts
  <2>2. RowsOK(IncreaseDownloadChecks(checker.reported))
    BY <2>1, IncreaseDownloadChecksRow, UpdatedDomains
  <2>3. RowsOK(notifications')
    BY <1>18, <2>2 DEF SaveReported
  <2>. QED  BY <1>0, <1>18, <2>3 DEF SaveReported, filesVars
<1>19. CASE SaveReportedFails
  BY <1>0, <1>19 DEF SaveReportedFails, filesVars
<1>20. CASE RemoveNotifiedBags
  <2>1. PICK keys \in Limited(Deletable, RemoveBatch) \ {{}} :
           /\ notifications' = Restrict(notifications, DOMAIN notifications \ keys)
           /\ history' = history \cup keys
           /\ removing' = {<<k, notifications[k].bag>> : k \in keys}
    BY <1>20 DEF RemoveNotifiedBags
  <2>2. keys \subseteq DOMAIN notifications
    BY <2>1 DEF Limited, Deletable
  <2>3. removing' \subseteq QueueKeys \X Bags
    <3>1. \A k \in keys : k \in QueueKeys /\ notifications[k].bag \in Bags
      BY <2>2 DEF Notification
    <3>. QED  BY <2>1, <3>1
  <2>4. RowsOK(notifications')
    BY <2>1 DEF Restrict
  <2>. QED  BY <1>20, <2>1, <2>2, <2>3, <2>4 DEF RemoveNotifiedBags, filesVars
<1>21. ASSUME NEW k \in QueueKeys, NEW b \in Bags, RemoveFromDisk(k, b) PROVE TypeOK'
  BY <1>21 DEF RemoveFromDisk, filesVars
<1>22. CASE Restart
  BY <1>0, <1>22 DEF Restart, filesVars
<1>23. CASE Tick
  <2>1. IsRelationTable(AgeRelations(bag_users))
    BY AgeRelationsTable
  <2>2. IsRelationTable(bag_users')
    BY <1>23, <2>1 DEF Tick
  <2>3. RowsOK(notifications')
    BY <1>23, OlderRowFields DEF Tick
  <2>. QED  BY <1>23, <2>2, <2>3 DEF Tick, workerVars
<1>. HIDE DEF TypeOK
<1>. QED
  BY <1>1, <1>2, <1>3, <1>4, <1>5, <1>6, <1>7, <1>8, <1>9, <1>10, <1>11, <1>12, <1>13,
     <1>14, <1>15, <1>16, <1>17, <1>18, <1>19, <1>20, <1>21, <1>22, <1>23 DEF Next

\* The tables, and what the workers hold of them, have their types.
THEOREM QueueTypeCorrect == Spec => []TypeOK
<1>. QED  BY QueueTypeInit, QueueTypeInductive, PTL DEF Spec

--------------------------------------------------------------------------------
(* What holds of the rows that the workers have picked and not yet written.   *)

\* A row waits for its answers within its limits, and only TriggerProvidersDownload
\* changes what it has picked.
TriggerInFlight ==
    /\ trigger.answered \subseteq trigger.picked
    /\ \A k \in trigger.picked \cap DOMAIN notifications :
          /\ trigger.pc = "asked" => /\ ~notifications[k].notified
                                     /\ notifications[k].attempts <= MaxNotifyAttempts
          /\ notifications[k].attempts <= MaxNotifyAttempts + 1

\* Likewise DownloadChecker; but a row can be archived, and queued anew, meanwhile.
CheckerInFlight ==
    /\ DOMAIN checker.reported \subseteq DOMAIN checker.picked
    /\ \A k \in DOMAIN checker.picked \ history :
          /\ k \in DOMAIN notifications
          /\ notifications[k].notified
          /\ checker.pc = "asked"
                => /\ notifications[k].downloaded < FileSize[notifications[k].bag]
                   /\ notifications[k].downloaded = checker.picked[k]
    /\ \A k \in DOMAIN notifications :
          /\ checker.pc = "asked" /\ k \in DOMAIN checker.picked
                => notifications[k].checks <= MaxDownloadChecks
          /\ checker.pc = "answered" /\ k \in DOMAIN checker.reported
                => notifications[k].checks <= MaxDownloadChecks + 1

\* The parts of QueueInv that are not about types.
RowsInFlight ==
    AttemptsBounded /\ ResultsFollowNotification /\ TriggerInFlight /\ CheckerInFlight

\* No row, and no worker that holds one, at the start.
LEMMA RowsInFlightInit == Init => RowsInFlight
  BY DEF Init, NoRows, TriggerIdle, CheckerIdle, RowsInFlight, AttemptsBounded,
         ResultsFollowNotification, TriggerInFlight, CheckerInFlight

\* The rows that a request or the collector queues are at the start of their way,
\* and no worker holds them unless an earlier row of the key was archived.
LEMMA QueueRowsInFlight ==
    ASSUME TypeOK, RowsInFlight, NEW rows \in SUBSET QueueRow,
           notifications' = QueueRows(notifications, rows),
           UNCHANGED <<history, trigger, checker>>
    PROVE  RowsInFlight'
<1>1. /\ DOMAIN notifications \subseteq DOMAIN notifications'
      /\ \A k \in DOMAIN notifications : notifications'[k] = notifications[k]
  BY QueueRowsTable
<1>2. \A k \in DOMAIN notifications' \ DOMAIN notifications :
         /\ notifications'[k].attempts = 0 /\ notifications'[k].checks = 0
         /\ notifications'[k].downloaded = 0 /\ notifications'[k].notified = FALSE
  <2>1. ASSUME NEW k \in DOMAIN notifications' \ DOMAIN notifications
        PROVE  \E b \in Bags : notifications'[k] = NewNotification(b)
    BY QueueRowsTable
  <2>. QED  BY <2>1 DEF NewNotification
<1>3. AttemptsBounded'
  BY <1>1, <1>2, LimitsAssumption DEF RowsInFlight, AttemptsBounded
<1>4. ResultsFollowNotification'
  BY <1>1, <1>2 DEF RowsInFlight, ResultsFollowNotification
<1>5. TriggerInFlight'
  BY <1>1, <1>2, LimitsAssumption DEF RowsInFlight, TriggerInFlight
<1>6. CheckerInFlight'
  BY <1>1, <1>2, LimitsAssumption DEF RowsInFlight, CheckerInFlight
<1>. QED  BY <1>3, <1>4, <1>5, <1>6 DEF RowsInFlight

\* Each step keeps the rows within their limits, counting what is in flight.
LEMMA RowsInFlightInductive == TypeOK /\ RowsInFlight /\ [Next]_vars => RowsInFlight'
<1>. SUFFICES ASSUME TypeOK, RowsInFlight, [Next]_vars PROVE RowsInFlight'
  OBVIOUS
<1>0. ASSUME UNCHANGED <<notifications, history, trigger, checker>> PROVE RowsInFlight'
  BY <1>0 DEF RowsInFlight, AttemptsBounded, ResultsFollowNotification,
              TriggerInFlight, CheckerInFlight
<1>1. CASE UNCHANGED vars
  BY <1>0, <1>1 DEF vars, workerVars
<1>2. ASSUME NEW b \in Bags, NEW u \in Users, NEW found \in BOOLEAN, SaveBag(b, u, found)
      PROVE  RowsInFlight'
  BY <1>0, <1>2 DEF SaveBag, workerVars
<1>3. ASSUME NEW b \in Bags, NEW u \in Users, NEW c \in Contracts, Pay(b, u, c)
      PROVE  RowsInFlight'
  BY <1>0, <1>3 DEF Pay, workerVars
<1>4. ASSUME NEW keys \in SUBSET DOMAIN bag_users, DropRelations(keys) PROVE RowsInFlight'
  BY <1>0, <1>4 DEF DropRelations, workerVars
<1>5. ASSUME NEW gone \in SUBSET bags, ForgetBags(gone) PROVE RowsInFlight'
  BY <1>0, <1>5 DEF ForgetBags, workerVars
<1>6. ASSUME NEW u \in Users, NEW c \in Contracts, NEW ps \in SUBSET Providers,
             NotifyProviders(u, c, ps)
      PROVE  RowsInFlight'
  BY <1>0, <1>6 DEF NotifyProviders, workerVars
<1>7. CASE QueueRequest
  BY <1>7, QueueRowsInFlight DEF QueueRequest, AddProviderToNotifyQueue, workerVars, TypeOK
<1>8. CASE RequestFails
  BY <1>0, <1>8 DEF RequestFails, workerVars
<1>9. CASE PickContracts
  BY <1>0, <1>9 DEF PickContracts
<1>10. ASSUME NEW found \in SUBSET QueueKeys, NEW bagOf, QueueProviders(found, bagOf)
       PROVE  RowsInFlight'
  <2>1. FoundRows(found, bagOf) \in SUBSET QueueRow
    BY <1>10, FoundRowsType DEF QueueProviders
  <2>2. CASE FoundRows(found, bagOf) = {}
    BY <1>0, <1>10, <2>2 DEF QueueProviders
  <2>3. CASE FoundRows(found, bagOf) # {}
    BY <1>10, <2>1, <2>3, QueueRowsInFlight DEF QueueProviders, AddProviderToNotifyQueue
  <2>. QED  BY <2>2, <2>3
<1>11. CASE LookupFails
  BY <1>0, <1>11 DEF LookupFails
<1>12. CASE PickToNotify
  <2>1. PICK keys \in Limited(ToNotify, NotifyBatch) :
           trigger' = [pc |-> "asked", picked |-> keys, answered |-> {}]
    BY <1>12 DEF PickToNotify
  <2>2. \A k \in keys : ~notifications[k].notified /\ notifications[k].attempts <= MaxNotifyAttempts
    BY <2>1 DEF Limited, ToNotify
  <2>3. UNCHANGED <<notifications, history, checker>>
    BY <1>12 DEF PickToNotify
  <2>4. \A k \in DOMAIN notifications : notifications[k].attempts \in Nat
    BY DEF TypeOK, Notification
  <2>5. TriggerInFlight'
    BY <2>1, <2>2, <2>3, <2>4, LimitsAssumption DEF TriggerInFlight
  <2>. QED  BY <2>3, <2>5 DEF RowsInFlight, AttemptsBounded, ResultsFollowNotification,
                             CheckerInFlight
<1>13. ASSUME NEW answered \in SUBSET trigger.picked, NEW failed \in SUBSET trigger.picked,
              NEW written \in BOOLEAN, CountFailed(answered, failed, written)
       PROVE  RowsInFlight'
  <2>1. /\ trigger.pc = "asked"
        /\ UNCHANGED <<history, checker>>
        /\ notifications' = IF written THEN IncreaseNotifyAttempts(failed) ELSE notifications
        /\ trigger' = IF answered = {}
                      THEN TriggerIdle
                      ELSE [pc |-> "answered", picked |-> trigger.picked, answered |-> answered]
    BY <1>13 DEF CountFailed
  <2>2. DOMAIN notifications' = DOMAIN notifications
    BY <2>1, UpdatedDomains
  <2>3. \A k \in DOMAIN notifications :
           /\ notifications'[k].bag = notifications[k].bag
           /\ notifications'[k].notified = notifications[k].notified
           /\ notifications'[k].checks = notifications[k].checks
           /\ notifications'[k].downloaded = notifications[k].downloaded
           /\ \/ notifications'[k].attempts = notifications[k].attempts
              \/ k \in failed /\ notifications'[k].attempts = notifications[k].attempts + 1
           /\ notifications[k].attempts \in Nat
    BY <2>1, IncreaseNotifyAttemptsRow DEF TypeOK, Notification
  <2>4. \A k \in trigger.picked \cap DOMAIN notifications :
           notifications[k].attempts <= MaxNotifyAttempts
    BY <2>1 DEF RowsInFlight, TriggerInFlight
  <2>5. AttemptsBounded'
    <3>1. ASSUME NEW k \in DOMAIN notifications
          PROVE  notifications'[k].attempts <= MaxNotifyAttempts + 2
      <4>1. CASE k \in failed
        BY <2>3, <2>4, <4>1, LimitsAssumption
      <4>2. CASE k \notin failed
        BY <2>3, <4>2 DEF RowsInFlight, AttemptsBounded
      <4>. QED  BY <4>1, <4>2
    <3>. QED  BY <2>2, <2>3, <3>1 DEF RowsInFlight, AttemptsBounded
  <2>6. ResultsFollowNotification'
    BY <2>1, <2>2, <2>3 DEF RowsInFlight, ResultsFollowNotification
  <2>7. TriggerInFlight'
    <3>1. CASE answered = {}
      BY <2>1, <3>1 DEF TriggerInFlight, TriggerIdle
    <3>2. CASE answered # {}
      <4>1. /\ trigger'.pc = "answered" /\ trigger'.picked = trigger.picked
            /\ trigger'.answered = answered
        BY <2>1, <3>2
      <4>2. \A k \in trigger.picked \cap DOMAIN notifications :
               notifications'[k].attempts <= MaxNotifyAttempts + 1
        BY <2>3, <2>4, LimitsAssumption
      <4>. QED  BY <2>2, <4>1, <4>2 DEF TriggerInFlight
    <3>. QED  BY <3>1, <3>2
  <2>8. CheckerInFlight'
    BY <2>1, <2>2, <2>3 DEF RowsInFlight, CheckerInFlight
  <2>. QED  BY <2>5, <2>6, <2>7, <2>8 DEF RowsInFlight
<1>14. CASE MarkAnswered
  <2>1. /\ UNCHANGED <<history, checker>>
        /\ notifications' = MarkAsNotified(trigger.answered)
        /\ trigger' = TriggerIdle
    BY <1>14 DEF MarkAnswered
  <2>2. DOMAIN notifications' = DOMAIN notifications
    BY <2>1, UpdatedDomains
  <2>3. \A k \in DOMAIN notifications :
           /\ notifications'[k].bag = notifications[k].bag
           /\ notifications[k].notified => notifications'[k].notified
           /\ notifications'[k].checks = notifications[k].checks
           /\ notifications'[k].downloaded = notifications[k].downloaded
           /\ \/ notifications'[k].attempts = notifications[k].attempts
              \/ /\ k \in trigger.answered
                 /\ notifications'[k].attempts = notifications[k].attempts + 1
           /\ notifications[k].attempts \in Nat
    BY <2>1, MarkAsNotifiedRow DEF TypeOK, Notification
  <2>4. AttemptsBounded'
    BY <2>1, <2>2, <2>3, LimitsAssumption DEF RowsInFlight, AttemptsBounded, TriggerInFlight
  <2>5. ResultsFollowNotification'
    BY <2>1, <2>2, <2>3 DEF RowsInFlight, ResultsFollowNotification
  <2>6. TriggerInFlight'
    BY <2>1 DEF TriggerInFlight, TriggerIdle
  <2>7. CheckerInFlight'
    BY <2>1, <2>2, <2>3 DEF RowsInFlight, CheckerInFlight
  <2>. QED  BY <2>4, <2>5, <2>6, <2>7 DEF RowsInFlight
<1>15. ASSUME NEW written \in BOOLEAN, MarkFails(written) PROVE RowsInFlight'
  <2>1. /\ UNCHANGED <<history, checker>>
        /\ notifications' = IF written
                            THEN IncreaseNotifyAttempts(trigger.picked)
                            ELSE notifications
        /\ trigger' = TriggerIdle
    BY <1>15 DEF MarkFails
  <2>2. DOMAIN notifications' = DOMAIN notifications
    BY <2>1, UpdatedDomains
  <2>3. \A k \in DOMAIN notifications :
           /\ notifications'[k].bag = notifications[k].bag
           /\ notifications'[k].notified = notifications[k].notified
           /\ notifications'[k].checks = notifications[k].checks
           /\ notifications'[k].downloaded = notifications[k].downloaded
           /\ \/ notifications'[k].attempts = notifications[k].attempts
              \/ /\ k \in trigger.picked
                 /\ notifications'[k].attempts = notifications[k].attempts + 1
           /\ notifications[k].attempts \in Nat
    BY <2>1, IncreaseNotifyAttemptsRow DEF TypeOK, Notification
  <2>4. AttemptsBounded'
    BY <2>1, <2>2, <2>3, LimitsAssumption DEF RowsInFlight, AttemptsBounded, TriggerInFlight
  <2>5. ResultsFollowNotification'
    BY <2>1, <2>2, <2>3 DEF RowsInFlight, ResultsFollowNotification
  <2>6. TriggerInFlight'
    BY <2>1 DEF TriggerInFlight, TriggerIdle
  <2>7. CheckerInFlight'
    BY <2>1, <2>2, <2>3 DEF RowsInFlight, CheckerInFlight
  <2>. QED  BY <2>4, <2>5, <2>6, <2>7 DEF RowsInFlight
<1>16. CASE PickInProgress
  <2>1. PICK keys \in OldestInProgress :
           checker' = [pc |-> "asked",
                       picked |-> [k \in keys |-> notifications[k].downloaded],
                       reported |-> NoRows]
    BY <1>16 DEF PickInProgress
  <2>2. keys \subseteq InProgress
    BY <2>1 DEF OldestInProgress, Limited
  <2>3. \A k \in keys : /\ k \in DOMAIN notifications /\ notifications[k].notified
                        /\ notifications[k].downloaded < FileSize[notifications[k].bag]
                        /\ notifications[k].checks <= MaxDownloadChecks
    <3>1. ASSUME NEW k \in keys
          PROVE  notifications[k].downloaded \in Nat /\ FileSize[notifications[k].bag] \in Nat
      BY <2>2, SizesAssumption DEF InProgress, TypeOK, Notification
    <3>. QED  BY <2>2, <3>1 DEF InProgress
  <2>4. UNCHANGED <<notifications, history, trigger>>
    BY <1>16 DEF PickInProgress
  <2>5. /\ checker'.pc = "asked" /\ DOMAIN checker'.picked = keys
        /\ \A k \in keys : checker'.picked[k] = notifications[k].downloaded
        /\ DOMAIN checker'.reported = {}
    BY <2>1 DEF NoRows
  <2>6. CheckerInFlight'
    BY <2>3, <2>4, <2>5 DEF CheckerInFlight
  <2>. QED  BY <2>4, <2>6 DEF RowsInFlight, AttemptsBounded, ResultsFollowNotification,
                             TriggerInFlight
<1>17. ASSUME NEW keys \in SUBSET DOMAIN checker.picked, NEW reported \in Reports(keys),
              NEW failed \in SUBSET DOMAIN checker.picked,
              NEW written \in BOOLEAN, CountUnanswered(reported, failed, written)
       PROVE  RowsInFlight'
  <2>. DEFINE back == Restrict(checker.picked, failed)
  <2>1. /\ checker.pc = "asked"
        /\ DOMAIN reported \subseteq DOMAIN checker.picked
        /\ UNCHANGED <<history, trigger>>
        /\ notifications' = IF written THEN IncreaseDownloadChecks(back) ELSE notifications
        /\ checker' = IF DOMAIN reported = {}
                      THEN CheckerIdle
                      ELSE [pc |-> "answered", picked |-> checker.picked, reported |-> reported]
    <3>1. DOMAIN reported = keys
      BY DEF Reports
    <3>. QED  BY <1>17, <3>1 DEF CountUnanswered
  <2>2. DOMAIN back = failed /\ \A x \in DOMAIN back : back[x] \in Nat
    BY DEF Restrict, TypeOK, IsByteCounts
  <2>3. DOMAIN notifications' = DOMAIN notifications
    BY <2>1, UpdatedDomains
  <2>4. \A k \in DOMAIN notifications :
           /\ notifications'[k].notified = notifications[k].notified
           /\ notifications'[k].attempts = notifications[k].attempts
           /\ notifications[k].checks \in Nat
           /\ \/ notifications'[k] = notifications[k]
              \/ k \in failed /\ notifications'[k].checks = notifications[k].checks + 1
    <3>1. CASE written
      <4>1. notifications' = IncreaseDownloadChecks(back)
        BY <2>1, <3>1
      <4>2. ASSUME NEW k \in DOMAIN notifications
            PROVE  /\ IncreaseDownloadChecks(back)[k].notified = notifications[k].notified
                   /\ IncreaseDownloadChecks(back)[k].attempts = notifications[k].attempts
                   /\ \/ IncreaseDownloadChecks(back)[k] = notifications[k]
                      \/ /\ k \in failed
                         /\ IncreaseDownloadChecks(back)[k].checks = notifications[k].checks + 1
        BY <2>2, IncreaseDownloadChecksRow
      <4>. QED  BY <4>1, <4>2 DEF TypeOK, Notification
    <3>2. CASE ~written
      BY <2>1, <3>2 DEF TypeOK, Notification
    <3>. QED  BY <3>1, <3>2
  <2>5. AttemptsBounded'
    <3>1. \A k \in failed \cap DOMAIN notifications : notifications[k].checks <= MaxDownloadChecks
      BY <2>1 DEF RowsInFlight, CheckerInFlight
    <3>2. ASSUME NEW k \in DOMAIN notifications
          PROVE  notifications'[k].checks <= MaxDownloadChecks + 2
      <4>1. CASE k \in failed
        BY <2>4, <3>1, <4>1, LimitsAssumption DEF RowsInFlight, AttemptsBounded
      <4>2. CASE k \notin failed
        BY <2>4, <4>2 DEF RowsInFlight, AttemptsBounded
      <4>. QED  BY <4>1, <4>2
    <3>. QED  BY <2>3, <2>4, <3>2 DEF RowsInFlight, AttemptsBounded
  <2>6. ResultsFollowNotification'
    BY <2>1, <2>3, <2>4 DEF RowsInFlight, ResultsFollowNotification, CheckerInFlight
  <2>7. TriggerInFlight'
    BY <2>1, <2>3, <2>4 DEF RowsInFlight, TriggerInFlight
  <2>8. CheckerInFlight'
    <3>1. CASE DOMAIN reported = {}
      BY <2>1, <3>1 DEF CheckerInFlight, CheckerIdle, NoRows
    <3>2. CASE DOMAIN reported # {}
      <4>1. /\ checker'.pc = "answered" /\ checker'.picked = checker.picked
            /\ checker'.reported = reported
        BY <2>1, <3>2
      <4>2. \A k \in DOMAIN checker.picked \cap DOMAIN notifications :
               notifications'[k].checks <= MaxDownloadChecks + 1
        BY <2>1, <2>4, LimitsAssumption DEF RowsInFlight, CheckerInFlight
      <4>3. \A k \in DOMAIN checker.picked \ history :
               k \in DOMAIN notifications /\ notifications[k].notified
        BY DEF RowsInFlight, CheckerInFlight
      <4>. QED  BY <2>1, <2>3, <2>4, <4>1, <4>2, <4>3 DEF CheckerInFlight
    <3>. QED  BY <3>1, <3>2
  <2>. QED  BY <2>5, <2>6, <2>7, <2>8 DEF RowsInFlight
<1>18. CASE SaveReported
  <2>1. /\ checker.pc = "answered"
        /\ UNCHANGED <<history, trigger>>
        /\ notifications' = IncreaseDownloadChecks(checker.reported)
        /\ checker' = CheckerIdle
    BY <1>18 DEF SaveReported
  <2>2. \A x \in DOMAIN checker.reported : checker.reported[x] \in Nat
    BY DEF TypeOK, IsByteCounts
  <2>3. DOMAIN notifications' = DOMAIN notifications
    BY <2>1, UpdatedDomains
  <2>4. \A k \in DOMAIN notifications :
           /\ notifications'[k].notified = notifications[k].notified
           /\ notifications'[k].attempts = notifications[k].attempts
           /\ notifications[k].checks \in Nat
           /\ \/ notifications'[k] = notifications[k]
              \/ /\ k \in DOMAIN checker.reported
                 /\ notifications'[k].checks = notifications[k].checks + 1
    BY <2>1, <2>2, IncreaseDownloadChecksRow DEF TypeOK, Notification
  <2>5. AttemptsBounded'
    BY <2>1, <2>3, <2>4, LimitsAssumption DEF RowsInFlight, AttemptsBounded, CheckerInFlight
  <2>6. ResultsFollowNotification'
    BY <2>1, <2>3, <2>4 DEF RowsInFlight, ResultsFollowNotification, CheckerInFlight
  <2>7. TriggerInFlight'
    BY <2>1, <2>3, <2>4 DEF RowsInFlight, TriggerInFlight
  <2>8. CheckerInFlight'
    BY <2>1 DEF CheckerInFlight, CheckerIdle, NoRows
  <2>. QED  BY <2>5, <2>6, <2>7, <2>8 DEF RowsInFlight
<1>19. CASE SaveReportedFails
  <2>1. UNCHANGED <<notifications, history, trigger>> /\ checker' = CheckerIdle
    BY <1>19 DEF SaveReportedFails
  <2>2. CheckerInFlight'
    BY <2>1 DEF CheckerInFlight, CheckerIdle, NoRows
  <2>. QED  BY <2>1, <2>2 DEF RowsInFlight, AttemptsBounded, ResultsFollowNotification,
                             TriggerInFlight
<1>20. CASE RemoveNotifiedBags
  <2>1. PICK keys \in Limited(Deletable, RemoveBatch) :
           /\ notifications' = Restrict(notifications, DOMAIN notifications \ keys)
           /\ history' = history \cup keys
           /\ UNCHANGED <<trigger, checker>>
    BY <1>20 DEF RemoveNotifiedBags
  <2>2. /\ DOMAIN notifications' = DOMAIN notifications \ keys
        /\ \A k \in DOMAIN notifications' : notifications'[k] = notifications[k]
    BY <2>1 DEF Restrict
  <2>. QED  BY <2>1, <2>2 DEF RowsInFlight, AttemptsBounded, ResultsFollowNotification,
                             TriggerInFlight, CheckerInFlight
<1>21. ASSUME NEW k \in QueueKeys, NEW b \in Bags, RemoveFromDisk(k, b) PROVE RowsInFlight'
  BY <1>0, <1>21 DEF RemoveFromDisk
<1>22. CASE Restart
  <2>1. UNCHANGED <<notifications, history>> /\ trigger' = TriggerIdle /\ checker' = CheckerIdle
    BY <1>22 DEF Restart
  <2>2. TriggerInFlight' /\ CheckerInFlight'
    BY <2>1 DEF TriggerInFlight, TriggerIdle, CheckerInFlight, CheckerIdle, NoRows
  <2>. QED  BY <2>1, <2>2 DEF RowsInFlight, AttemptsBounded, ResultsFollowNotification
<1>23. CASE Tick
  <2>1. /\ DOMAIN notifications' = DOMAIN notifications
        /\ \A k \in DOMAIN notifications : notifications'[k] = OlderRow(notifications[k])
        /\ UNCHANGED <<history, trigger, checker>>
    BY <1>23 DEF Tick, workerVars
  <2>2. \A k \in DOMAIN notifications :
           /\ notifications'[k].bag = notifications[k].bag
           /\ notifications'[k].notified = notifications[k].notified
           /\ notifications'[k].attempts = notifications[k].attempts
           /\ notifications'[k].checks = notifications[k].checks
           /\ notifications'[k].downloaded = notifications[k].downloaded
    BY <2>1, OlderRowFields DEF TypeOK
  <2>. QED  BY <2>1, <2>2 DEF RowsInFlight, AttemptsBounded, ResultsFollowNotification,
                             TriggerInFlight, CheckerInFlight
<1>. HIDE DEF TypeOK
<1>. QED
  BY <1>1, <1>2, <1>3, <1>4, <1>5, <1>6, <1>7, <1>8, <1>9, <1>10, <1>11, <1>12, <1>13,
     <1>14, <1>15, <1>16, <1>17, <1>18, <1>19, <1>20, <1>21, <1>22, <1>23 DEF Next

\* The tables have their types, and what is in flight is within its limits.
LEMMA QueueInvariant == Spec => [](TypeOK /\ RowsInFlight)
<1>1. Init => TypeOK /\ RowsInFlight
  BY QueueTypeInit, RowsInFlightInit
<1>2. TypeOK /\ RowsInFlight /\ [Next]_vars => (TypeOK /\ RowsInFlight)'
  BY QueueTypeInductive, RowsInFlightInductive
<1>. QED  BY <1>1, <1>2, PTL DEF Spec

\* However the workers fail, are killed and overlap, no counter passes its limit by
\* more than two (worker.go:281, worker.go:332).
THEOREM AttemptsBoundedAlways == Spec => []AttemptsBounded
<1>1. TypeOK /\ RowsInFlight => AttemptsBounded
  BY DEF RowsInFlight
<1>. QED  BY <1>1, QueueInvariant, PTL

\* Results of checks are written to rows whose provider was notified, except to a row
\* queued anew after the one that was checked was archived (worker.go:332).
THEOREM ResultsFollowNotificationAlways == Spec => []ResultsFollowNotification
<1>1. TypeOK /\ RowsInFlight => ResultsFollowNotification
  BY DEF RowsInFlight
<1>. QED  BY <1>1, QueueInvariant, PTL

--------------------------------------------------------------------------------
(* What a step may do to a row. *)

\* What DownloadChecker may write: the answers, or what it read when it picked the rows.
MayWrite(bytes) ==
    \/ bytes = checker.reported
    \/ /\ checker.pc = "asked"
       /\ \A x \in DOMAIN bytes : x \in DOMAIN checker.picked /\ bytes[x] = checker.picked[x]

\* The steps that leave the rows alone, those that queue and those that update.
LEMMA StepsOfRows ==
    ASSUME TypeOK, [Next]_vars
    PROVE  \/ UNCHANGED <<notifications, history>>
           \/ /\ history' = history
              /\ \E rows \in SUBSET QueueRow : notifications' = QueueRows(notifications, rows)
           \/ /\ history' = history
              /\ \E keys : \/ notifications' = IncreaseNotifyAttempts(keys)
                           \/ notifications' = MarkAsNotified(keys)
           \/ /\ history' = history
              /\ \E bytes : /\ \A x \in DOMAIN bytes : bytes[x] \in Nat
                            /\ MayWrite(bytes)
                            /\ notifications' = IncreaseDownloadChecks(bytes)
           \/ RemoveNotifiedBags
           \/ Tick
<1>. DEFINE Goal ==
           \/ UNCHANGED <<notifications, history>>
           \/ /\ history' = history
              /\ \E rows \in SUBSET QueueRow : notifications' = QueueRows(notifications, rows)
           \/ /\ history' = history
              /\ \E keys : \/ notifications' = IncreaseNotifyAttempts(keys)
                           \/ notifications' = MarkAsNotified(keys)
           \/ /\ history' = history
              /\ \E bytes : /\ \A x \in DOMAIN bytes : bytes[x] \in Nat
                            /\ MayWrite(bytes)
                            /\ notifications' = IncreaseDownloadChecks(bytes)
           \/ RemoveNotifiedBags
           \/ Tick
<1>. SUFFICES Goal
  OBVIOUS
<1>1. CASE QueueRequest
  BY <1>1 DEF QueueRequest, AddProviderToNotifyQueue, workerVars, TypeOK
<1>2. ASSUME NEW found \in SUBSET QueueKeys, NEW bagOf, QueueProviders(found, bagOf)
      PROVE  Goal
  <2>1. FoundRows(found, bagOf) \in SUBSET QueueRow
    BY <1>2, FoundRowsType DEF QueueProviders
  <2>. QED  BY <1>2, <2>1 DEF QueueProviders, AddProviderToNotifyQueue
<1>3. ASSUME NEW answered \in SUBSET trigger.picked, NEW failed \in SUBSET trigger.picked,
             NEW written \in BOOLEAN, CountFailed(answered, failed, written)
      PROVE  Goal
  BY <1>3 DEF CountFailed
<1>4. CASE MarkAnswered
  BY <1>4 DEF MarkAnswered
<1>5. ASSUME NEW written \in BOOLEAN, MarkFails(written) PROVE Goal
  BY <1>5 DEF MarkFails
<1>6. ASSUME NEW keys \in SUBSET DOMAIN checker.picked, NEW reported \in Reports(keys),
             NEW failed \in SUBSET DOMAIN checker.picked,
             NEW written \in BOOLEAN, CountUnanswered(reported, failed, written)
      PROVE  Goal
  <2>. DEFINE back == Restrict(checker.picked, failed)
  <2>1. \A x \in DOMAIN back : back[x] \in Nat
    BY DEF Restrict, TypeOK, IsByteCounts
  <2>2. checker.pc = "asked" /\ \A x \in DOMAIN back : x \in DOMAIN checker.picked
                                                    /\ back[x] = checker.picked[x]
    BY <1>6 DEF CountUnanswered, Restrict
  <2>3. \/ UNCHANGED <<notifications, history>>
        \/ history' = history /\ notifications' = IncreaseDownloadChecks(back)
    BY <1>6 DEF CountUnanswered
  <2>. QED  BY <2>1, <2>2, <2>3 DEF MayWrite
<1>7. CASE SaveReported
  BY <1>7 DEF SaveReported, TypeOK, IsByteCounts, MayWrite
<1>8. ASSUME \/ UNCHANGED vars
             \/ \E b \in Bags, u \in Users, found \in BOOLEAN : SaveBag(b, u, found)
             \/ \E keys \in SUBSET DOMAIN bag_users : DropRelations(keys)
             \/ \E b \in Bags, u \in Users, c \in Contracts : Pay(b, u, c)
             \/ \E gone \in SUBSET bags : ForgetBags(gone)
             \/ \E u \in Users, c \in Contracts, ps \in SUBSET Providers :
                   NotifyProviders(u, c, ps)
             \/ RequestFails \/ PickContracts \/ LookupFails \/ PickToNotify \/ PickInProgress
             \/ SaveReportedFails
             \/ \E k \in QueueKeys, b \in Bags : RemoveFromDisk(k, b)
             \/ Restart
      PROVE  UNCHANGED <<notifications, history>>
  BY <1>8 DEF vars, SaveBag, DropRelations, Pay, ForgetBags, NotifyProviders, RequestFails,
              PickContracts, LookupFails, PickToNotify, PickInProgress, SaveReportedFails,
              RemoveFromDisk, Restart
<1>. QED  BY <1>1, <1>2, <1>3, <1>4, <1>5, <1>6, <1>7, <1>8 DEF Next

\* A row that stays is taken forward and never back.
LEMMA ProgressIsKeptInductive ==
    ASSUME TypeOK, [Next]_vars, NEW k \in DOMAIN notifications \cap DOMAIN notifications'
    PROVE  /\ notifications'[k].bag = notifications[k].bag
           /\ notifications'[k].attempts >= notifications[k].attempts
           /\ notifications'[k].checks >= notifications[k].checks
           /\ notifications[k].notified => notifications'[k].notified
<1>. DEFINE Goal == /\ notifications'[k].bag = notifications[k].bag
                    /\ notifications'[k].attempts >= notifications[k].attempts
                    /\ notifications'[k].checks >= notifications[k].checks
                    /\ notifications[k].notified => notifications'[k].notified
<1>0. notifications[k].attempts \in Nat /\ notifications[k].checks \in Nat
  BY DEF TypeOK, Notification
<1>1. ASSUME notifications'[k] = notifications[k] PROVE Goal
  BY <1>0, <1>1
<1>2. ASSUME NEW rows \in SUBSET QueueRow, notifications' = QueueRows(notifications, rows)
      PROVE  Goal
  BY <1>1, <1>2, QueueRowsTable
<1>3. ASSUME NEW keys, notifications' = IncreaseNotifyAttempts(keys) PROVE Goal
  BY <1>0, <1>3, IncreaseNotifyAttemptsRow
<1>4. ASSUME NEW keys, notifications' = MarkAsNotified(keys) PROVE Goal
  BY <1>0, <1>4, MarkAsNotifiedRow
<1>5. ASSUME NEW bytes, \A x \in DOMAIN bytes : bytes[x] \in Nat,
             notifications' = IncreaseDownloadChecks(bytes)
      PROVE  Goal
  BY <1>0, <1>5, IncreaseDownloadChecksRow
<1>6. CASE RemoveNotifiedBags
  BY <1>1, <1>6 DEF RemoveNotifiedBags, Restrict
<1>7. CASE Tick
  <2>1. notifications'[k] = OlderRow(notifications[k]) /\ notifications[k] \in Notification
    BY <1>7 DEF Tick, TypeOK
  <2>. QED  BY <1>0, <2>1, OlderRowFields
<1>. QED  BY <1>1, <1>2, <1>3, <1>4, <1>5, <1>6, <1>7, StepsOfRows

\* AddProviderToNotifyQueue (repository.go:24) is ON CONFLICT DO NOTHING, and no worker
\* writes a counter or the flag back: no interleaving loses progress.
THEOREM ProgressIsKeptAlways == Spec => ProgressIsKept
<1>1. TypeOK /\ [Next]_vars =>
        [\A k \in DOMAIN notifications \cap DOMAIN notifications' :
            /\ notifications'[k].bag = notifications[k].bag
            /\ notifications'[k].attempts >= notifications[k].attempts
            /\ notifications'[k].checks >= notifications[k].checks
            /\ notifications[k].notified => notifications'[k].notified]_vars
  BY ProgressIsKeptInductive
<1>. QED  BY <1>1, QueueTypeCorrect, PTL DEF Spec, ProgressIsKept

\* What a row says was downloaded changes by an answer, or belongs to an archived row.
LEMMA DownloadedIsAsReportedInductive ==
    ASSUME TypeOK, RowsInFlight, [Next]_vars,
           NEW k \in DOMAIN notifications \cap DOMAIN notifications',
           notifications'[k].downloaded # notifications[k].downloaded
    PROVE  \/ /\ k \in DOMAIN checker.reported
              /\ notifications'[k].downloaded = checker.reported[k]
           \/ k \in history
<1>. DEFINE Goal == \/ /\ k \in DOMAIN checker.reported
                       /\ notifications'[k].downloaded = checker.reported[k]
                    \/ k \in history
<1>1. ASSUME NEW rows \in SUBSET QueueRow, notifications' = QueueRows(notifications, rows)
      PROVE  FALSE
  BY <1>1, QueueRowsTable
<1>2. ASSUME NEW keys, \/ notifications' = IncreaseNotifyAttempts(keys)
                       \/ notifications' = MarkAsNotified(keys)
      PROVE  FALSE
  BY <1>2, IncreaseNotifyAttemptsRow, MarkAsNotifiedRow
<1>3. ASSUME NEW bytes, \A x \in DOMAIN bytes : bytes[x] \in Nat, MayWrite(bytes),
             notifications' = IncreaseDownloadChecks(bytes)
      PROVE  Goal
  <2>1. k \in DOMAIN bytes /\ notifications'[k].downloaded = bytes[k]
    BY <1>3, IncreaseDownloadChecksRow
  <2>2. CASE bytes = checker.reported
    BY <2>1, <2>2
  <2>3. CASE checker.pc = "asked" /\ k \in DOMAIN checker.picked /\ bytes[k] = checker.picked[k]
    BY <2>1, <2>3 DEF RowsInFlight, CheckerInFlight
  <2>. QED  BY <1>3, <2>1, <2>2, <2>3 DEF MayWrite
<1>4. ~RemoveNotifiedBags
  BY DEF RemoveNotifiedBags, Restrict
<1>5. ~Tick
  <2>1. Tick => notifications'[k] = OlderRow(notifications[k]) /\ notifications[k] \in Notification
    BY DEF Tick, TypeOK
  <2>. QED  BY <2>1, OlderRowFields
<1>. QED  BY <1>1, <1>2, <1>3, <1>4, <1>5, StepsOfRows

\* A failed check writes back what it read before it asked (worker.go:386-389), and no
\* interleaving makes that older than what the row holds by then.
THEOREM DownloadedIsAsReportedAlways == Spec => DownloadedIsAsReported
<1>1. (TypeOK /\ RowsInFlight) /\ [Next]_vars =>
        [\A k \in DOMAIN notifications \cap DOMAIN notifications' :
            notifications'[k].downloaded # notifications[k].downloaded =>
               \/ k \in DOMAIN checker.reported
                  /\ notifications'[k].downloaded = checker.reported[k]
               \/ k \in history]_vars
  BY DownloadedIsAsReportedInductive
<1>. QED  BY <1>1, QueueInvariant, PTL DEF Spec, DownloadedIsAsReported

\* A row leaves the queue for the archive (init.sql:193), and the archive keeps it.
LEMMA NothingIsForgottenInductive ==
    ASSUME TypeOK, [Next]_vars
    PROVE  DOMAIN notifications \cup history \subseteq DOMAIN notifications' \cup history'
<1>1. ASSUME NEW rows \in SUBSET QueueRow, notifications' = QueueRows(notifications, rows)
      PROVE  DOMAIN notifications \subseteq DOMAIN notifications'
  BY <1>1, QueueRowsTable
<1>2. CASE RemoveNotifiedBags
  BY <1>2 DEF RemoveNotifiedBags, Restrict
<1>3. CASE Tick
  BY <1>3 DEF Tick
<1>. QED  BY <1>1, <1>2, <1>3, StepsOfRows, UpdatedDomains

\* Whatever fails or restarts, a queued provider is queued or archived ever after.
THEOREM NothingIsForgottenEver == Spec => NothingIsForgotten
<1>1. TypeOK /\ [Next]_vars =>
        [DOMAIN notifications \cup history \subseteq DOMAIN notifications' \cup history']_vars
  BY NothingIsForgottenInductive
<1>. QED  BY <1>1, QueueTypeCorrect, PTL DEF Spec, NothingIsForgotten

\* Only RemoveNotifiedBags takes a row, and only one that can be deleted.
LEMMA RowsLeaveByRemoval ==
    ASSUME TypeOK, [Next]_vars, NEW k \in DOMAIN notifications \ DOMAIN notifications'
    PROVE  CanDelete(notifications[k]) /\ k \notin history
<1>1. RemoveNotifiedBags
  <2>1. ASSUME NEW rows \in SUBSET QueueRow, notifications' = QueueRows(notifications, rows)
        PROVE  FALSE
    BY <2>1, QueueRowsTable
  <2>2. ~Tick
    BY DEF Tick
  <2>. QED  BY <2>1, <2>2, StepsOfRows, UpdatedDomains
<1>2. PICK keys \in Limited(Deletable, RemoveBatch) :
         /\ keys \cap history = {}
         /\ notifications' = Restrict(notifications, DOMAIN notifications \ keys)
  BY <1>1 DEF RemoveNotifiedBags
<1>3. k \in keys
  BY <1>2 DEF Restrict
<1>4. k \in Deletable
  BY <1>2, <1>3 DEF Limited
<1>. QED  BY <1>2, <1>3, <1>4 DEF Deletable

\* At the limit a row can be picked and deleted; below and above it, only one of both.
LEMMA ArchivedAtTheLimit ==
    ASSUME TypeOK, RowsInFlight, [Next]_vars,
           NEW k \in DOMAIN notifications \ DOMAIN notifications'
    PROVE  /\ trigger.pc = "asked" /\ k \in trigger.picked
                => \/ notifications[k].attempts = MaxNotifyAttempts
                   \/ notifications[k].downloaded = FileSize[notifications[k].bag]
           /\ checker.pc = "asked" /\ k \in DOMAIN checker.picked
                => notifications[k].checks = MaxDownloadChecks
<1>1. CanDelete(notifications[k]) /\ k \notin history
  BY RowsLeaveByRemoval
<1>2. /\ notifications[k].attempts \in Nat /\ notifications[k].checks \in Nat
      /\ notifications[k].downloaded \in Nat
      /\ FileSize[notifications[k].bag] \in Nat
  BY SizesAssumption DEF TypeOK, Notification
<1>3. ASSUME trigger.pc = "asked", k \in trigger.picked,
             notifications[k].downloaded # FileSize[notifications[k].bag]
      PROVE  notifications[k].attempts = MaxNotifyAttempts
  <2>1. ~notifications[k].notified /\ notifications[k].attempts <= MaxNotifyAttempts
    BY <1>3 DEF RowsInFlight, TriggerInFlight
  <2>. QED  BY <1>1, <1>2, <1>3, <2>1, LimitsAssumption DEF CanDelete
<1>4. ASSUME checker.pc = "asked", k \in DOMAIN checker.picked
      PROVE  notifications[k].checks = MaxDownloadChecks
  <2>1. /\ notifications[k].notified
        /\ notifications[k].downloaded < FileSize[notifications[k].bag]
        /\ notifications[k].checks <= MaxDownloadChecks
    BY <1>1, <1>4 DEF RowsInFlight, CheckerInFlight
  <2>. QED  BY <1>1, <1>2, <2>1, LimitsAssumption DEF CanDelete
<1>. QED  BY <1>3, <1>4

\* RemoveNotifiedFiles and the two workers that hold rows meet at the limit only
\* (`<=` in repository.go:43 and :70, `>=` in repository.go:131 of the files).
THEOREM ArchivedWhileAskedOnlyAtTheLimitEver == Spec => ArchivedWhileAskedOnlyAtTheLimit
<1>1. (TypeOK /\ RowsInFlight) /\ [Next]_vars =>
        [\A k \in DOMAIN notifications \ DOMAIN notifications' :
            /\ trigger.pc = "asked" /\ k \in trigger.picked
                  => \/ notifications[k].attempts = MaxNotifyAttempts
                     \/ notifications[k].downloaded = FileSize[notifications[k].bag]
            /\ checker.pc = "asked" /\ k \in DOMAIN checker.picked
                  => notifications[k].checks = MaxDownloadChecks]_vars
  BY ArchivedAtTheLimit
<1>. QED  BY <1>1, QueueInvariant, PTL DEF Spec, ArchivedWhileAskedOnlyAtTheLimit
================================================================================
