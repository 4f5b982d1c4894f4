# Flowance in TLA+

Flowance keeps the business of a self-employed contractor or a small team: clients,
projects, contracts, planned and actual work, and the monthly settlement of each
project. This directory holds TLA+ modules that model the API's billing core, the icons
of clients and projects, the planning of work, the settings, and the sessions of the web
client with the accounts behind them; TLC configurations that check them on small
instances; and TLAPS proofs of the properties that matter most. `PROJECT.json` maps every
definition to the source lines it stands for.

## 1. The system

| component | state it keeps | operations |
|---|---|---|
| settlements | `monthly_settlements`, `settlement_lines`, `idempotency_keys` | calculate, recalculate, finalize, delete |
| work_records | `work_records`, `work_record_breaks` | create, update, delete; minutes and rounding |
| contracts | `contracts` | create, update, delete; which conditions each type needs |
| projects, clients | `projects`, `project_members`, `clients` | create, update, delete; names; icons |
| files | `stored_files`, `background_tasks`, object storage | upload, conversion in Celery, deletion |
| schedules | `work_schedules`, `project_weekly_schedules` | CRUD; generation from weekly templates |
| settings | profile, organization, preferences, each with a version | show, update of three sections |
| accounts | `users`, refresh tokens | register, login, refresh, logout |
| organizations | `organizations`, `organization_members` | membership lookup |
| audit_logs | `audit_logs` | one row per write, in the same transaction |
| common | - | soft delete, versions, scoped managers, error responses |
| flowance-web | both tokens as cookies, `refreshPromise`, the page's state | single-flight token refresh and retry, session provider, pages |

How they interact:

- A request runs in one thread of the API server. The view looks up the caller's
  membership, then calls one service method, which is one `transaction.atomic` block
  (`ATOMIC_REQUESTS` is off). PostgreSQL runs it READ COMMITTED: each statement sees
  what was committed when that statement started.
- Services meet in shared rows. `settlements.calculate` reads contracts and work
  records; `work_records` reads settlements and contracts; `contracts.delete` reads
  settlements.
- Rows are protected by `SELECT ... FOR UPDATE` and by a `version` the client confirms;
  uniqueness by partial unique indexes and one exclusion constraint.
- Every write records an audit log whose foreign key to the organization is checked at
  commit. That makes the organization row part of the locking protocol: a transaction
  that holds it FOR UPDATE stops every other commit of the organization.
- Planning meets billing only in projects and the audit log. A generation reads templates,
  schedules and the organization's time zone, which the settings change; the settings hold
  the organization row until they commit, and with it every other commit.
- The web client is one JavaScript context per tab: calls interleave at every `await`, and
  the cookies of the browser are shared state that any answer may replace.
- Icons leave the transaction: the object is stored before the commit, a Celery task is
  sent by `on_commit`, and a worker converts the image and updates the rows later.

What is hard here: transactions of several statements that interleave (an unlocked read
before a locked write), retries with an idempotency key while the first attempt is still
running, constraints that are the only real guard, lock orders, icon tasks delivered twice
or out of order, a generation run twice, and arithmetic of minutes, rounding units and
yen. The full list, each at its line with the properties that watch it, is in
`PROJECT.json` under `hazards`.

What makes each component correct:

- **settlements**: one live settlement per project and month; a version is never
  overwritten unseen; FINALIZED never changes; a saved key is one finalization, and a
  retry gets its result; row, snapshot and lines tell of one calculation.
- **work_records**: a record of a finalized month stays as it was settled; minutes
  account for the time; breaks are judged as a set.
- **contracts**: no two live contracts of a project share a day; a contract in use is
  not deleted; what validation accepts, the calculation can settle.
- **projects, clients, files**: an icon shown as READY has its object; every task ends;
  the last upload wins; nothing that is replaced stays behind.
- **schedules**: one generated schedule per template and day; what was changed by hand
  stays the only one of its day; no change is lost.
- **settings**: the sections of a request change together, each from the version its
  client saw.
- **accounts, web**: one account per address; an expired access token never costs a session
  that is used; a list shows what was asked for last, and stops loading.

## 2. Modules

```
BillingData ── SettlementService ─┐
            ├─ WorkRecordService ─┼─ Billing ── MCBilling
            └─ ContractService ───┘     │
SettlementLedger  (INSTANCE, refined) ──┤
                                        └─ BillingProofs ─┬─ SettlementProofs
                                                          ├─ ContractProofs
                                                          └─ RecordProofs (also uses SettlementProofs)
WorkTime ──────────────┐
SettlementCalculation ─┴─ Calculation ─┬─ MCCalculation
                                       └─ CalculationProofs
IconData ── OwnerService ─┐
         └─ IconTasks ────┴─ Icons ─┬─ MCIcons
IconBoard  (INSTANCE, refined) ─────┴─ IconProofs
PlanningData ── WeeklyScheduleService ─┐
             ├─ WorkScheduleService ───┼─ Planning ─┬─ MCPlanning
             └─ SettingsService ───────┘            └─ PlanningProofs
WebData ─┬─ ApiClient ── Pages ─┐
         └─ AuthService ────────┴─ Web ─┬─ MCWeb
                                        └─ WebProofs
```

**BillingData** has the tables (`settlements`, `records`, `contracts`: id to row or
`NoRow`; `keys`: the set of saved idempotency keys) and, for each worker, the statement
it is at (`pc`), the request it executes (`req`) and what its transaction has read
(`got`). A statement that reads rows other transactions can change is a step of its
own. The writes of a transaction become visible together, so they are one step, the
`...Commit` action; it is faithful because a transaction's own uncommitted rows are
visible to nobody else. Waiting for a lock is a guard (`SettlementFree`, `RecordFree`,
`ContractFree`, `ProjectFree`, `OrganizationFree`): the statement happens when no other transaction
holds the row, and then sees the row as it is by then, as READ COMMITTED does.

A row lock is not a variable: which rows a worker holds follows from the statement it is
at (`HoldsSettlement(w)` and so on). One detail decides two properties: `WorkRecord`'s
deletion calls `select_for_update()` with `select_related` and no `of`, so PostgreSQL
locks the record, then its organization, then its project; its update names
`of=("self",)` and locks the record alone. An update that moves a record to another project
shares that project at its commit (`UpdateRecordMove`: a deferred foreign key takes KEY
SHARE), before the audit log's organization. A new row needs its organization before its
project, in the order its foreign keys were made, so it holds no project while it waits.

A contract's exclusion constraint is checked as PostgreSQL does it. The row is written
first, then the statement looks for ranges that meet its own (`CreateContractScan`,
`UpdateContractScan`) and waits for a transaction that is writing one, or taking one away,
to end. Two writes can so wait for each other. `Abort` is the outcome of two requests that
do, there or over a project and the organization: PostgreSQL ends one.

**SettlementService, WorkRecordService, ContractService** have one action per statement
that matters, for each operation; **Billing** composes them over any number of workers
and states the properties. An error response is `Refuse(w)`: nothing written, the worker
idle again.

| code | actions |
|---|---|
| `SettlementService.calculate` | `CalculateRequest`, `CalculateExists`, `CalculateContract`, `CalculateMinutes`, `CalculateCommit` |
| `SettlementService.recalculate` | `RecalculateRequest`, `RecalculateLock`, `RecalculateContract`, `RecalculateMinutes`, `RecalculateCommit` |
| `SettlementService.finalize` | `FinalizeRequest`, `FinalizeLookup`, `FinalizeLock`, `FinalizeCommit` |
| `SettlementService.delete` | `DeleteRequest`, `DeleteLock`, `DeleteCommit` |
| `WorkRecordService.create` | `CreateRecordRequest`, `CreateRecord` |
| `WorkRecordService.update` | `UpdateRecordRequest`, `...Lock`, `...Check`, `...Move`, `...Commit` |
| `WorkRecordService.delete` | `DeleteRecordRequest`, `...Lock`, `...LockOrganization`, `...LockProject`, `...Check`, `...Commit` |
| `ContractService.create` | `CreateContractRequest`, `...Check`, `...Scan`, `...Commit` |
| `ContractService.update`, `delete` | `...Request`, `...Lock`, `...Check`, `...Scan` (update), `...Commit` |

Data is abstracted to what the properties tell apart. The conditions of a contract are
the version that holds them, so a `calculation_snapshot` is which version of which
contract it used (`terms`) and which version of which records it added up (`included`);
settlement lines are the pair they were made from. A calculation that raises is a second
outcome of the step that calculates.

**SettlementLedger** is what the settlements promise to somebody who reads the books: an
entry per project and month that is opened at version 1, revised by one version at a
time, removed only while CALCULATED, and fixed once closed. No ids, workers, transactions
or locks.

**WorkTime** is `calculate_work_time` as the loop it is: `RefuseTimes` and `SortBreaks`
before it, `TakeBreak` and `RefuseBreak` for its turns, `CountMinutes` with
`round_minutes` after it; `order` is what `sorted()` gave, `next` the turn, `taken` the
minutes of `calculated_breaks` so far, `result` what is returned or raised.
**SettlementCalculation** (`calculate_amounts`, `validate_contract_conditions`) are
operators. **Calculation** calls either one input at a time and compares the results with
what they are for: `WriteRecord` and `Calculate` for a record, `Settle` for a month,
`Return` before the next call. What the properties say of a record knows no order and no
turn: sets of breaks, of their minutes and of the seconds outside them.

**IconData, OwnerService, IconTasks, Icons** are the clients and projects with their
icons. Both keep names and icons by the same code, so both are `Owners`, and a name stands
for what must be unique (the organization's client name; the pair of client and project
name). Here a transaction is not alone with the database: `OwnerService` stores the upload
in `objects` before it commits and sends the task to the `queue` after it has committed;
`IconTasks` runs in other processes, outside a transaction except for the one that
publishes. So each `save()` of a task is a step, and storage, broker or process may fail
at each (`Failures`).

| code | actions |
|---|---|
| `ClientService.create`, `ProjectService.create` | `CreateRequest`, `CreateCheck`, `CreateStore`, `CreateCommit`, `Send` |
| `update` of both | `UpdateRequest`, `UpdateLock`, `UpdateCheck`, `UpdateStore`, `UpdateCommit`, `Send` |
| `delete` of both | `DeleteRequest`, `Delete` |
| `process_client_icon`, `process_project_icon` | `Deliver`, `ConvertBegin`, `MarkFile`, `Image`, `Publish`, `Cleanup`, `FailFile`, `FailOwner`, `FailTask` |
| `delete_stored_file` | `Deliver`, `RemoveBegin`, `RemoveObjects`, `RemoveEnd` |

An owner's `file` is `icon_file`; `icon_type` follows from it by a check constraint. A
`BackgroundTask` is identified by its kind and file, one of each at most. The variable
`queue` says how often a task will still be delivered: 0 when it was never sent, was lost
or has been taken; Celery acknowledges a message when it takes it, and the Redis broker
delivers again what was not acknowledged in time. `UPDATE` of an owner's row waits for a
request that has it locked (`OwnerFree`), as the services' `FOR UPDATE OF self` does.

**IconBoard** is what users see of all this: a board with an entry (name, version, icon,
status) for each client or project, and for each file whether it was uploaded and converted.
Entries are added, edited by one version and removed one at a time under a name that is free;
an icon begins as PENDING with a file never shown before, and only its processing moves it
to READY, which converts the file, or to FAILED. No statements, locks, tasks or objects.

**PlanningData, WeeklyScheduleService, WorkScheduleService, SettingsService, Planning** are
weekly templates, work schedules and the settings, built like the billing modules: `pc`,
`req` and `got` per worker, locks that follow from the statement a worker is at, refusals
that change nothing. Time is a number of units from a midnight in UTC, `DayLength` of them
a day, and a zone is an offset (daylight saving is not modelled). That is enough to tell
the three notions of a day in `generate` apart: the days of the request and `LocalDay` of a
schedule are in the organization's zone, `DateLookup` (`__date` in a filter) is in UTC. The
commit of every transaction needs the rows its foreign keys refer to, and nobody else may
hold them then (`AuditFree`, `UserFree`, `ProjectFree`, `TemplateFree`). Here that can
deadlock: settings hold the user and wait for the organization, another request the other
way round. PostgreSQL then aborts one, and `Abort` is that outcome, as it is of a process
that dies.

| code | actions |
|---|---|
| `WeeklyScheduleService.create`, `bulk_create` | `CreateTemplatesRequest`, `CreateTemplates` |
| `WeeklyScheduleService.update` | `UpdateTemplateRequest`, `...Lock`, `...Commit` |
| `WeeklyScheduleService.delete` | `DeleteTemplateRequest`, `...Lock`, `...LockProject`, `...Commit` |
| `WorkScheduleService.create` | `CreateScheduleRequest`, `CreateSchedule` |
| `WorkScheduleService.update`, `delete` | as for templates |
| `WorkScheduleService.generate` | `GenerateRequest`, `GenerateTemplates`, `GenerateExisting`, `GenerateCommit` |
| `SettingsService.update` | `SettingsRequest`, `SettingsLockUser`, `...LockOrganization`, `...LockBusiness`, `SettingsCommit` |

`got[w].stood` is a history variable, the schedules a generation could see when it looked;
no guard reads it.

**WebData, AuthService, ApiClient, Pages, Web** are browsers with one tab each and the
accounts service. A call is a promise of the client: `sent`, served by the API, `answered`,
then its continuation runs as one step, for JavaScript is not preempted; a call that met a
401 is `waiting` on the refresh of its tab. The cookies are in `jar`; the server keeps the
accounts and the refresh tokens that are `valid`. A refresh token is a name that nobody
else holds at the time (`NewToken`), so a few names serve any number of rotations.

| code | actions |
|---|---|
| `AuthService.register`, `login`; `RegisterView`, `LoginView` | `ServeRegisterExists`, `ServeRegisterInsert`, `ServeLogin`; `RegisterElsewhere` for other browsers |
| `CookieJWTAuthentication`, `MeView`, list views | `ServeRead` |
| `LogoutView`, `RefreshTokenView` with Simple JWT's rotation | `ServeLogout`, `RefreshCheck`, `RefreshRotate` |
| `ApiClient.request`, `refreshAccessToken`, `performRefresh` | `RefreshAccessToken`, `RefreshSettles` and the guard `Final` |
| `AuthSessionProvider` | `OpenPage`, `FinishMe`, `FinishLogout` |
| `ProjectsContainer`, `ClientsContainer` | `Refresh`, `FinishList` |
| login and registration page, `SidebarProfile` | `SignIn`, `FinishSignIn`, `Logout` |
| lost requests and answers, cookies past their `max_age` | `LoseCall`, `LoseRefresh`, `ExpireAccess`, `ExpireRefresh` |

`ended` is history: set when the user logs out, the refresh token expires or the answer of a
refresh is lost, which are the three ways a session may end.

A definition whose comment begins `Variant:` is the form a plausible bug would give the
definition after it. No action uses one; they are there to show that the properties
notice the difference (`mutants` in `PROJECT.json`).

## 3. Runs

| run | instance | shows |
|---|---|---|
| `settlements` | 3 workers, 1 project, 1 month, 2 settlement ids, 2 keys, 1 record, versions 1-2 | `TypeOK`, `OneLiveSettlementPerMonth`, `KeyMeansFinalized`, `SettlementExplained`, `FinalizedFrozen`, `NoLostUpdate`, and `LedgerSpec` (refinement) |
| `records` | 2 workers of an admin, 2 projects, 1 month, 1 settlement id, 2 records, `FairSpec` | `SettledRecordsNotDeleted`, `NoLostUpdate`, `LockedRowsCurrent`, `DeadlocksInPairs`, `EveryRequestAnswered` |
| `contracts` | 2 workers, 2 contracts, all 5 periods of a 2-day month and its open end | `ContractPeriodsDisjoint`, `LockedRowsCurrent`, `DeadlocksInPairs`, `NoLostUpdate` |
| `calculation` | up to 3 breaks over 4 instants, 7 rounding rules, all accepted contracts of a grid of conditions | the six properties of `Calculation` |
| `icons` | 2 API threads, 2 Celery processes, 2 owners, 2 names, 2 uploads, storage, broker and process failures | `IconTypeOK`, `NamesUnique`, `ShownIconStored`, `OldIconOutlivesConversion`, `SettledStaysSettled`, and `BoardSpec` (refinement) |
| `settle` | 1 API thread, 2 Celery processes, 1 owner, 2 uploads, 2 deliveries, storage failures, `FairSpec` | `ShownIconStored`, `UploadsSettle` |
| `planning` | 2 workers, an owner and a member, 1 template (9:00 to 15:00 on Sundays), 2 schedule ids, Tokyo and UTC, every operation | `PlanTypeOK`, `GeneratedOnce`, `SeenNotDoubled`, `NoChangeLost`, `SettingsTogether` |
| `web` | 1 browser, a call for the session, a form, 2 list calls with 2 filters, 2 token names, lost calls, `FairSpec` | `WebTypeOK`, `OneAccountPerEmail`, `ListFitsFilter`, `SessionKept`, `ListSettles` |
| `update_race` | 2 workers, 1 record | violated: `SettledRecordsNotUpdated` |
| `contract_race` | 2 workers, 1 contract | violated: `ContractInUseKept` |
| `cleanup_failure` | 2 uploads, storage fails | violated: `ConvertedNotFailed` |
| `regenerated` | 1 worker, 1 template (3:00 to 6:00 in Tokyo) | violated: `GeneratedOnce` |

Bounds. Ids are never reused (the code draws UUIDs), so the number of ids bounds how many
rows a behaviour can create, and `Versions` bounds which versions clients can name; a
request at a version outside the set behaves like any other stale one. Two settlement ids
are needed for two calculations to meet in a month; a third worker for a finalize to come
between them; two keys for two finalizations of one settlement; two versions for a
recalculation before a finalization. In `records` two projects let a record leave the
month that is settled, and two records are what it takes for a deletion and a move into the
deletion's project to meet; who may edit a record is the same rule in every request, so one
admin serves, and in `update_race` a member. Two-day months are enough for the ranges of
contracts: touching, sharing one day, nested, equal and open-ended periods all occur. `calculation` uses
instants off whole minutes (59 s, 121 s) so that flooring loses time, minutes on both
sides of each base and maximum, and rates whose product leaves a fraction of a yen.
In `icons` two uploads are what it takes for one to replace the other, with a process for
each; `settle` delivers each task twice so that both processes can work on one file. Two
names let an owner be renamed into and out of a conflict. Version 1 is what a client can
name, so an owner is created and changed once more. In `planning` a unit of time is three
hours and day 7 a Sunday: the template is due once in the range, the time a client may send
lies on the same local day, and two schedule ids let a second schedule appear where none
should. The zone may change while a generation runs.
Only one generation runs at a time (`MaxGenerations`): two at once do create doubles, see
below. `MaxItems`, `MaxDays` and `MaxCandidates` are the code's own limits and are not met.
In `web` two list calls are what it takes to overtake one another, the session call can
meet the same expired token, and `ExpireAccess` may happen at any time; only one of the
list calls, and a refresh it started, may be lost (`Lossy`). One session per browser (`SignIn`
after `ended` is not taken), so a browser may stop for good, which is why that run does not
check deadlock.
Symmetry is over workers, settlement ids and keys (contract ids in `contracts`, schedule ids
in `planning`), and over every set of ids in `icons`, which nothing tells apart; it is used
only in runs without liveness.

Fairness. `FairSpec` is strong fairness of `Step(w)` for each worker: a request that was
accepted is executed to its end. A server thread does not stop in the middle of a
method, and PostgreSQL grants the waiters of a row lock in turn, so a waiter that is
enabled again and again gets its turn. `Abort` is part of `Step`: PostgreSQL looks for
deadlocks whenever a wait lasts. Nothing is assumed about clients:
`Begin(w)` is not fair. A process that dies has no action
of its own: its transaction rolls back and its locks go, which leaves the tables as a
request refused at that point would.

In `Icons`, `FairSpec` is strong fairness of `OwnerStep(w)` and of `TaskStep(c)`: a request
is executed, a worker process takes the messages that wait and runs a task to its end, and
an `UPDATE` gets its turn at a locked row. Requests are not fair, and neither are failures:
storage may always answer and may always fail. `settle` has no crash and no broker failure,
because after either an icon does stay PENDING.

In `Web`, `FairSpec` is weak fairness of `Progress(c)` for each call: the server answers what
it was sent, and the event loop runs a continuation that is due. Neither waits for anything
that could be withdrawn, so weak fairness is enough. Users, expiry and losses are not fair;
`ListSettles` therefore excepts a user who asks again for ever.

### What the violations show

1. `update_race`. `WorkRecordService.update` looks for a FINALIZED settlement without
   locking one and writes 35 lines later. Its lock covers the record only, so a finalize
   can commit in between: the record that the finalized settlement added up is then
   changed. The design says such a record cannot be updated. `delete` has the same
   unlocked check and is safe only through its wider lock, which `SettledRecordsNotDeleted`
   shows and its proof explains.
2. `contract_race`. `ContractService.delete` looks for settlements in use under a lock of
   the contract; `calculate` reads that contract without a lock and inserts later. A
   CALCULATED settlement of a deleted contract results; the foreign key does not object,
   the deletion is soft.
3. `cleanup_failure`. The replaced icon is deleted inside the `try` of the conversion, after
   the transaction that published the new one. If storage fails there, the new icon, which is
   converted and stored, is reported as FAILED, and so is its SUCCEEDED task.
4. `regenerated`. `generate` finds the schedules that exist with `__date` lookups, which
   Django truncates in UTC; its days are local. A schedule that is over before 9:00 in Tokyo
   is on the UTC day before, is not found, and is created again. The design says no duplicate
   is made on a day that has a schedule, and the repository's own test of a repeated
   generation uses daytime hours.

More outcomes differ from what a document says. They are reachable by the actions as they
stand, and no run is spent on them.

Settlements:

- `finalize` looks the idempotency key up before it waits for the row and not again after it.
  A retry sent while the first attempt still runs gets `SETTLEMENT_ALREADY_FINALIZED` instead
  of the first result the design promises. Nothing is finalized twice (`KeyMeansFinalized`).

Icons:

- The conversion does not ask whether the file is READY already. Delivered twice, it runs
  twice, and a failure of the second run (`FailOwner`) writes FAILED over a READY icon; the
  design wants tasks idempotent.
- `delete_stored_file` has no `except` and no retry (`RemoveObjects`): when storage fails, the
  task stays PROCESSING; the design says it is retried or FAILED.
- The upload is stored before the row is saved (`StoreIcon`). If saving fails, on the unique
  name for one, nothing refers to the object; the design says it is registered for deletion.
- `on_commit(robust=True)` swallows the broker's exception (`Send`): the request is answered
  and the task stays PENDING; the design says 503.

Planning:

- Two generations of the same days at once both find nothing and both insert. The design
  names an `Idempotency-Key` for this; the view does not read one. With `MaxGenerations = 2`
  `GeneratedOnce` fails.
- A generated schedule that was moved to another day, or deleted, is created again by the next
  generation: its template still falls on that day and nothing remembers that it was there.
- A schedule before 9:00 that was changed by hand is not protected, for the reason of
  `regenerated`.
- A template deleted while a generation runs still gets its schedules: the foreign key accepts
  a soft-deleted row.
- A template's break may be as long as itself (`>`), a schedule's may not (`>=`). A schedule
  generated from such a template can never be edited; a test expects the template to be
  refused (`schedules/tests/presentation/test_api.py:111`).

Sessions:

- A list call whose retry fails with 401 shows an error; only `/auth/me` leads to the login
  page, where the design sends every failed refresh there.
- A refresh still under way when the user logs out sets new cookies after they were cleared.
- The loser of two registrations of one address gets a server error.

Met while reading and not modelled: two tabs of one browser refresh on their own, with the
same token; the work record page, the dashboard and the schedule page load without a request
id, so the last answer is shown and not the one asked for; 101 days pass the generation's
serializer and are refused by the domain; the design filters `is_billable` for actual minutes where
the code adds up all records that are not cancelled, and answers 422 where the code answers
404 or 409; a record can be created in, or moved into, a finalized month.

## 4. Proofs

Checked by TLAPS for every value of the constants: any number of workers, users,
projects, months, rows and versions; any conditions of a contract, rates and minutes; any
number of API threads, Celery processes, uploads and deliveries; any number of browsers and
calls.

| theorem | module | says |
|---|---|---|
| `TypeCorrect` | BillingProofs | `Spec => []TypeOK` |
| `LocksProtect` | BillingProofs | `Spec => []LockedRowsCurrent` |
| `FinalizedNeverChanges` | SettlementProofs | `Spec => FinalizedFrozen` |
| `OneSettlementPerMonth` | SettlementProofs | `Spec => []OneLiveSettlementPerMonth` |
| `KeysAreFinalizations` | SettlementProofs | `Spec => []KeyMeansFinalized` |
| `SettlementsExplained` | SettlementProofs | `Spec => []SettlementExplained` |
| `ContractsDisjoint` | ContractProofs | `Spec => []ContractPeriodsDisjoint` |
| `DeadlocksOnlyInPairs` | ContractProofs | `Spec => []DeadlocksInPairs` |
| `SettledRecordsKept` | RecordProofs | `Spec => SettledRecordsNotDeleted` |
| `NoUpdateLost` | RecordProofs | `Spec => NoLostUpdate` |
| `SettlementsImplementLedger` | SettlementProofs | `Spec => LedgerSpec` |
| `PlanTypeCorrect` | PlanningProofs | `Spec => []PlanTypeOK` |
| `LockedPlansStayCurrent` | PlanningProofs | `Spec => []LockedPlansCurrent` |
| `NoPlannedChangeLost` | PlanningProofs | `Spec => NoChangeLost` |
| `SettingsChangeTogether` | PlanningProofs | `Spec => SettingsTogether` |
| `GenerationSparesWhatItSaw` | PlanningProofs | `Spec => SeenNotDoubled` |
| `IconTypeCorrect` | IconProofs | `Spec => []IconTypeOK` |
| `NamesStayUnique` | IconProofs | `Spec => []NamesUnique` |
| `ShownIconsStored` | IconProofs | `Spec => []ShownIconStored` |
| `OldIconsOutliveConversion` | IconProofs | `Spec => OldIconOutlivesConversion` |
| `SettledIconsStaySettled` | IconProofs | `Spec => SettledStaysSettled` |
| `IconsImplementBoard` | IconProofs | `Spec => BoardSpec` |
| `BreaksOrderIrrelevant` | CalculationProofs | `CallsSpec => []BreaksAcceptedAsASet` |
| `WorkedMinutesCounted` | CalculationProofs | `CallsSpec => []MinutesAccountForTime` |
| `BilledByTheUnit` | CalculationProofs | `CallsSpec => []BilledInUnits` |
| `SavedContractsCanBeSettled` | CalculationProofs | `CallsSpec => []SavedContractsAreComplete` |
| `MinutesNeverCost` | CalculationProofs | `CallsSpec => []MoreMinutesNeverPayLess` |
| `TotalRoundedOnce` | CalculationProofs | `CallsSpec => []TotalExactToTheYen` |
| `WebTypeCorrect` | WebProofs | `Spec => []WebTypeOK` |
| `ShownListAskedFor` | WebProofs | `Spec => []ListFitsFilter` |
| `OneAccountEach` | WebProofs | `Spec => []OneAccountPerEmail` |
| `SessionNeverLost` | WebProofs | `Spec => SessionKept` |

**The inductive invariant.** `IInv` (BillingProofs) is the conjunction of `TypeOK`;
`LockedRowsCurrent`; `ClaimsExclusive`, no two requests create the same id or hold the
same row; and, for each worker about to insert, `NewRowAbsent`, the row is not there yet.
`LockedRowsCurrent` alone is not inductive: a loaded row stays current because no other
worker can write it, which is `ClaimsExclusive`, and because an insert, which takes no
lock, goes to an id that nobody else uses, which is `NewRowAbsent`. Every step is first
reduced to one of four kinds (`Enters`, `Loads`, `Continues`, `Ends`; `StepMoves`), and
the three parts are preserved by each kind.

**Deadlocks.** `Awaits(w, v)` says that the next statement of `w` needs a row that `v` holds,
or the outcome of a contract that `v` is writing; `WaitersStay` shows that such a `w` takes no
step but `Abort`, so the relation says no more than the guards. Who holds a settlement or a
contract waits for a contract at most, the exclusion constraint or the organization; who has
the organization, a record's deletion, waits for nothing or for its project. `OneHolder`: one
deletion at most has the organization. `LatestSawRows`: of any requests at the exclusion
constraint, one finds no range there that another is taking away, since the last of them to
make the service's query found none (`QueryCovers`) and what it saw cannot have changed
unseen. So a circle of waits (`CirclesArePairs`) either leads to the organization's holder,
whose wait for a project leads to the one update that moves a record there and in turn wants
the organization; or it stays at the exclusion constraint, where meeting each other's new
ranges is mutual. Without the query (`OverlapsUnasked`) two updates wait for
the ranges they take away from each other, and with the organization locked first
(`OrganizationHeldFirst`) a deletion waits for an update of its record and the update for it. That each request is then answered is
`EveryRequestAnswered`, which needs fairness and stays with TLC.

**Settlements.** Only four steps write `settlements`: `Opens`, `Revises`, `Closes`,
`Removes` (`SettlementChanges`). With `IInv` the row that the last three write is the
present one and CALCULATED, so a FINALIZED row is never written; `Opens` requires that no
live settlement of the month exists *at the insert*, which is the unique index and not the
`exists()` query. `KeyMeansFinalized` and `SettlementExplained` follow over the same four
steps.

**Contracts.** `ContractChanges` reduces the writers of `contracts`. `RangesAdmitted` is the
exclusion constraint between two commits: a half-open range that is past its scan meets no
row that is there, but its own, and no other such range; `RangesPreserved` needs that a
statement waits for the ranges it meets. Rows that arrive are therefore apart from all
others (`AdmittedApart`), which gives periods that share no day (`ApartDisjoint`). The
service's query is not used for it.

**Work records.** The heart of `SettledRecordsKept` is `DeletionsAdmitted`: a deletion that
has passed its check still stands in a month that is not finalized. It is preserved because
that transaction holds the organization row, and every write of a settlement needs it
(`OrganizationFree`). An update holds no such row, and `update_race` shows that the same
statement about updates is false.

**Refinement.** `LedgerView` maps a state to the ledger: the page of a book is the row of its
one live settlement, `NoRow` if there is none. `Opens`, `Revises`, `Closes` and `Removes`
become `Open`, `Revise`, `Close` and `Remove` of one book; all other steps stutter.

**Planning.** `PlanInv` is the conjunction of `PlanTypeOK`, `LockedPlansCurrent` and
`LocksExclusive`. A change is not lost because the row a request writes is the one it locked
(`LockedPlansCurrent`), and that is inductive because no two workers hold one row
(`LocksExclusive`) and because an insertion only fills ids that have no row. Every step is
first shown to be one of two kinds, `Advances`, which reads or locks and changes no table, or
`Ends`, which may write what its worker has locked; the three parts are preserved by each.
`SettingsChangeTogether` needs the three versions compared at the last lock to be current
still at the commit, which is the settings' part of `LockedPlanCurrent`.

**Generation.** `SeenNotDoubled` promises what the code's comparison is for, and nothing of the
cases in which the comparison does not take place: a schedule that appeared after the
generation looked, or whose day the UTC lookup misses. `Spares` is its invariant between
the look and the commit: no candidate has the times of a schedule that was seen and is still
at the version it had, and none its local day if that version is 2 or more. It begins at
`GenerateExisting`, the only step that leads to the commit (`OnlyComparison`), because every
schedule of version 2 or more carries the mark of a change by hand (`ByHandMarked`) and
`Accepted` leaves out what meets; it lasts because versions never fall and a row of the same
version is the same row (`ScheduleWritten`); and what a commit inserts are its candidates
(`ScheduleInserted`). There is no assumption about times, zones or how many generations run.

**Names and icons.** `IconInv` says of each request what it has in hand (`RequestOK`): an owner
and a file that are not there yet, or an owner it has locked and that is as it was read;
`RequestsApart`, that no two requests work on one owner or bring one file, is what keeps this
true while others commit. `IconOK`: a file is the icon of one owner at most, and what READY
says is true. `TaskOK`: the file a task is to delete is `Gone`, there but shown by nobody, and
since only a fresh file ever becomes an icon (`FileSteady`) it stays so; this, and not the
order in which tasks run, is why a late or repeated delivery cannot take an icon away.
`DoingOK`: a task that may publish has stored its image, or its file is gone. A step of a
request changes no row, or is one commit (`OwnerWritten`); a step of a task only marks rows
and keeps the images of icons that are shown (`MarksKeep`). `NamesUnique` is inductive beside
it: a commit writes a name that no live owner has *at the commit* (`NamedBy`), which is the
unique constraint and not the `exists()` query.

`IconsImplementBoard` maps a state to the board by `BoardView`, the rows that are not deleted
without their tasks and files, and `ImageView`, whether a file is there and converted.
`CreateCommit` is `Add`, `UpdateCommit` is `Edit`, `Delete` is `Remove`, `Publish` is `Convert`
and `FailOwner` is `Fail`; a refused commit and every other step is `Unseen`. An edit is one
version on because the row saved is still the one that was read (`RequestOK`), its upload is a
new file because no other request brings it, and a task marks one entry at most because no two
owners share a file (`IconOK`). The board's `Fail` may follow READY: that is what the code does,
and `cleanup_failure` holds it against the design.

**Calculation.** For a record the invariant is `Loop`, the loop invariant of
`calculate_work_time`: the breaks of the turns so far lie inside the work, each ends before the
next begins; `taken` counts their whole minutes; and the seconds outside them, in minutes, are at
most the minutes left, and at most one less for each turn. Adjacent breaks in order are all that
the loop compares, and `ByStart` makes that enough for every pair (`BreaksOrderIrrelevant`). The
sums are cardinalities of sets, of the minutes of the breaks and of the seconds outside, so that
a turn adds or removes one interval and no induction over the breaks is needed: the steps of
the loop are the induction. `BilledByTheUnit` is what division by
each unit leaves.

For a month the invariant is `SettledTerms`: the terms of the present call are those of a
contract that validation accepted. Such terms have every field the calculation of their type
uses (`SavedIsComplete`), so it is refused only when its base is negative. The roundings of an
hourly amount and of a percentage are monotone (`PerHourMonotone`, `PerCentMonotone`), so the
base is (`BaseMonotone`); the total is too, because tax adds to it and withholding takes no more
of a larger base than the base has grown. A total is exact to the yen because what two floors
cut off stays below the unit (`TotalRounded`).

**Sessions and lists.** `TypeInv` strengthens `WebTypeOK` with `PageOK`: a page has a call that
may still show its answer only while it is open, and that call asks for what the page was
asked for last. `ListFitsFilter` is a part of it, and every step is reduced to the one call it
changes (`OnlyCall`) and to the calls whose page it leaves (`UnmountedOnly`). Accounts are only
appended, for an address that has none *at the insert* (`AccountsAppended`): the unique column
and not the query before it.

`SessionInv` is why no session is lost. `HeldOnce`: no two browsers hold the same refresh
token, so nobody else's rotation revokes it. `OneRefresh`: a tab has one refresh under way, so
what it sends is not rotated twice; this is `refreshPromise`, and the mutant without it breaks
`SessionKept`. `Apart`: the token of a sign-in whose answer is under way is not the one being
rotated. `Kept`, while the session has not ended: a refresh that was sent has a valid token
and, once answered, a 200; a call that was sent again carries an access token, so its last
answer is no 401; and the cookie holds a valid token or is about to get one. Each step is
shown to touch one browser (`Elsewhere`) and to take no token but its own or a fresh one
(`Proper`), which keeps the others safe (`ElsewhereSafe`, `Combine`). Steps that move no token
are `Quiet`, and steps of a session that has ended only drop tokens (`Shrinks`).

**Assumptions.** `InitialContractsAssumption` (the contracts present at the start could have
been created: disjoint, version 1), `InputsAssumption` (months and versions are naturals,
requested periods pass validation, statuses are the code's), `NoRowAssumption` (the sentinel
is no row). `PlanningAssumption` states what the serializers let through (times in order
within a day, breaks no longer than the template, versions natural) and `NoPlanAssumption`
that the sentinel is no row; `IconInputsAssumption` the same for owners, files, tasks and
requests; `WebAssumption` that calls, browsers and filters fit together.
`CalculationAssumption` (`InputRanges`) states the ranges the serializers let through: minutes
and rates natural, percentages up to 100, rounding units and methods of the code's lists; any
number of breaks (`MaxBreaks` natural). `PlanningAssumption` says besides that the workers are
finitely many, the threads of a server, for `MaxGenerations` counts them. TLC evaluates each in
its runs. No theorem has a hypothesis beside them.

**Only model-checked.** `EveryRequestAnswered`, `UploadsSettle` and `ListSettles` are liveness,
which is out of the proof system's reach here. `GeneratedOnce` is checked in `planning` with
daytime templates and one generation at a time, and is false in general: `regenerated` shows it
for an early template, and two generations at once insert what neither has seen. Every other
property of a passing run is a theorem.

## 5. What is left out

- The figures themselves in `Billing`: they are a function of the versions that are kept.
  The two calculations are checked on their own in `Calculation`.
- `workRecordCount` and scheduled minutes: they come from further statements of `_minutes`.
  The count can disagree with the sums (see `hazards`); a step for it is planned.
- `finalized_at`, `finalized_by`, notes, breaks of stored records, audit log content, error
  codes and wording. A refusal is a refusal.
- One organization; members, roles and projects are constants: no operation of the API
  changes a membership. The views read it before the transaction, so a role withdrawn by
  other means still counts.
- In `Billing`, the locks other services take on the rows it uses: `settings.update` locks
  the user, then the organization, `projects` locks a project it updates or deletes, and a
  work record's schedule may be locked by `schedules`. `DeadlocksInPairs` is about the requests
  of `Billing` among themselves; `Planning` has the deadlock of settings. Users' rows, which
  the audit log's actor refers to, are therefore never waited for in `Billing`.
- Of the waits in `Billing`, two that close no circle: of an insert into `settlements` for
  another one of its month, and of FOR UPDATE on a contract for a commit that refers to it. The
  one who waits holds nothing yet.
- Of planning: titles, notes, statuses of work schedules other than PLANNED (no code sets
  one), overlap warnings, which change nothing, `dry_run` beyond its reads, an open
  `valid_until` (a last day after every range is the same), daylight saving, the calendar
  views, and the users' own time zones.
- Of sessions: passwords, CSRF, permissions, pagination and search debounce, more than one tab
  of a browser, and deactivated users. A cookie and the token in it expire together, as their
  equal lifetimes make them.
- Of icons: what makes an image valid or convertible (both are outcomes of a step), object key
  text, `celery_task_id`, progress, error texts; callers other than OWNER and ADMIN, who are
  refused first; failures of the database itself; project members; a project whose client is
  deleted meanwhile.
- Numbers are unbounded; `PositiveBigIntegerField` and its range are not modelled.
- Components listed `not_modelled` in `PROJECT.json`, until the plan reaches them.

## 6. Plan

1. Done: billing core, ledger, calculations, their runs and eleven theorems of the billing core.
2. Done: names and icons of clients and projects, with the Celery tasks; two runs and a
   divergence; the board users see, which they implement; six theorems.
3. Done: planning and settings; a run, a divergence and five theorems, one of them about
   generation.
4. Done: accounts and the web client's sessions and lists; a run with liveness and four
   theorems. The calculations: six theorems, the minutes of a record as a loop among them.
5. `_minutes` as three statements in `SettlementService`, with the count in the snapshot.
6. A second tab per browser, and the pages that load without a request id.
