# AI-HR system: TLA+ models, checks and proofs

The repository is a NestJS back end for human resources: PostgreSQL through
TypeORM, Redis, BullMQ queues for background jobs, SMTP, Slack, file storage and
language models behind clients. Several instances of it may serve requests at
once and every handler is a chain of awaited reads and writes, most of them
outside a transaction. What can go wrong lives between two awaits: another
handler, a job, a crash. That is what these modules are about.

Paths below are relative to `src/src/modules/` unless they start with `src/`.

## 1. Inventory

| Component | State | Operations | Interacts with | What is hard | Correct when |
|---|---|---|---|---|---|
| Leave policy and balances (`leave/leave-policy.service.ts`) | leave types, public holidays, balance rows per employee, type and year | create/update type, add/remove holiday, ensureBalance, balancesFor, adjust, applyToBalance | requests, employees | rows provisioned lazily by whoever comes first; read-modify-write of rows; carry-over snapshot; settings changed under pending requests | a row is provisioned once, is never overdrawn and equals what the requests charge to it |
| Leave requests (`leave/leave-requests.service.ts`) | requests with allocations per year, `statusApplied` | submit, approve, reject, cancel, daily status job | balances, employees, notifications | several statements per handler, no transaction; years split at 31 December; job against decisions and terminations | no overlap, decisions final, days moved exactly once, ON_LEAVE ends |
| Employees and organisation (`employees/`) | employee records, managers, departments, positions, history | create, update, change assignment/status, terminate, link login | leave, onboarding, auth, events | cycle check then write; status check then write; reports moved to a stale manager | the reporting tree has no cycle, nobody reports to a leaver, history accounts for every record |
| Notifications (`notifications/`) | log rows with dedupe keys, preferences, queue | notify, process (deliver, retry), preferences | every module, BullMQ, SMTP, Slack | crash between provider and update; row without job; retries; stale preferences | once per key, every row with a job settled, a duplicate only after a fault |
| Payroll (`payroll/`) | salary structures, runs, payslips | createStructure, createRun, setFxRates, calculate, approve, markPaid, deleteRun, the calculators | employees, documents, notifications | calculate deletes and rebuilds slips while others read them; run row saved from a stale copy; tax that depends on which payslips of the year are approved | approved slips frozen and announced, every day paid once, PAYE of a year right |
| Authentication (`auth/`, `users/`) | logins, lockout counters, refresh-token families, one-time tokens, deny list | login, MFA, refresh, reset, invite, change password, logout | rbac cache, notifications | check-then-act on tokens; revocation against issue | a family has one live token, a code works once, a lock holds, a signed-out session stays out |
| Roles (`rbac/`) | roles, permissions, Redis cache | getAuthUser, updateRole, deleteRole, setRoles | guard | cache filled with rows read before an invalidation | the cached login is that of the row |
| Onboarding (`onboarding/`) | templates, checklists, tasks | start, updateTask, cancel, completion, reminders | employee events | completion against cancellation and reopened tasks | every joiner gets a checklist, its completion activates the joiner, tasks are reminded once a day |
| Performance (`performance/`) | cycles, reviews, feedback, goals | launch, advance, submit, calibrate, acknowledge, reminders | employees, notifications | launch and advance write reviews, cycle and notifications one after the other; ratings defaulted on closing | closed cycles are settled, shown ratings stay, goal weights fit |
| Attendance (`attendance/`) | clock sessions | clockIn, clockOut, manual edits, autoClose | leave (report) | two clock-ins at once; corrections that reopen | one open session, sessions end, totals add up |
| Documents (`documents/`) | documents, versions, stored files | create, addVersion, update, remove, purge | knowledge base, payroll | file stored and row refused, or the reverse; version numbers | listed versions can be downloaded; what is listed can be opened |
| Recruiting (`recruiting/`) | openings, candidates, applications, screenings | apply, updateStatus, screen | AI, documents | screening result against a final status | every application ends up screened or failed |
| Knowledge base (`ai/`) | chunks | indexDocument, reindex, search | documents | index of a document that changed meanwhile, two jobs of one document | current text of eligible policies and nothing else |
| Assistant (`ai/`, `src/src/infrastructure/ai/`) | conversations, usage, cooldowns | ask, stream, fallback, retention | knowledge base, providers | cap checked before use; readers who leave; providers that fail | the cap holds up to the questions in flight, paid calls are counted |
| Privacy and retention (`privacy/`) | none of its own | export, erase, purge | all tables | erasure in several steps against uploads, screenings and decisions | nothing of an erased applicant is left |
| Audit, HTTP layer, configuration, storage, mail and Slack clients | append-only log, none | - | - | input/output | not modelled |

## 2. Plan

Modules are written component by component, the ones with the most interleaving
first. Each component gets its model, an MC module with its configurations and,
where an invariant is worth it for every size, a proof module.

1. **Leave** (done): `LeaveLedger` (abstract, atomic handlers), `LeaveWorkflow`
   (handlers split at their awaits, shown to implement the ledger when served
   one at a time), `LeaveLedgerProofs`.
2. **Notifications** (done): `Notifications`.
3. **Payroll** (done): `PayrollRuns` with `SalaryStructures` for the effective-dated
   structures and `PayrollProofs`, and `TaxYear` for the calculators.
4. **Sessions** (done): `Sessions`, logins, tokens, codes, lockouts, roles and the
   cached login.
5. **Employees** (done but for logins and positions): `Organisation` with
   `OrganisationProofs`; **Onboarding** (done): `Onboarding`, which sees the employees
   through their events, and `Reminders`.
6. **Performance** and **Attendance** (done): `Performance`, `Attendance`.
7. **Documents and knowledge base**, **Recruiting** with erasure and retention
   (done): `Documents`, and `Recruiting` on top of it.
8. **Assistant** (done): `Assistant`.
9. Left, models: positions and linked logins, overlapping handlers in `Performance`.
10. Proofs (done): the ledger, payroll and the tax year, the organisation with its chart, reminders,
    performance, attendance, the assistant, notifications, sessions, and of documents and
    recruiting the knowledge base, the visibility rule, screening, downloads and erasure.
11. The refinement of the ledger (done): `HandlersImplementTheLedger`.

## 3. Modules

| Module | Models | Extends |
|---|---|---|
| `Sums` | `SumOver`, the total of a finite family of numbers | |
| `SumTheorems` | what totals do when a value or a member changes; least and greatest numbers | `Sums` |
| `LeaveLedger` | the leave module as it promises to behave: every handler one atomic step | `Sums` |
| `LeaveWorkflow` | the same handlers split at their awaits | `LeaveLedger` |
| `LeaveHistory` | the ledger with a record of whom HR has called back from leave by hand | `LeaveLedger` |
| `LeaveLedgerProofs` | proofs about `LeaveLedger`, `LeaveHistory` and `LeaveWorkflow`, and of the refinement | `LeaveWorkflow`, `LeaveHistory`, `SumTheorems` |
| `Notifications` | `notify`, the delivery processor and the preferences | |
| `SalaryStructures` | effective-dated structures, segments, pro-rated pay | `Sums` |
| `PayrollRuns` | `createStructure` and the handlers of runs and payslips, split at their awaits | `SalaryStructures` |
| `PayrollProofs` | proofs about `PayrollRuns` and `TaxYear` | `PayrollRuns`, `TaxYear`, `SumTheorems` |
| `TaxYear` | the calculators: structure lines, statutory deductions, cumulative PAYE | `Sums` |
| `Organisation` | employees, reporting lines, departments and employment history, handlers split into their reads and their writes | |
| `OrganisationProofs` | proofs about `Organisation` and `Reminders` | `Organisation`, `Reminders`, `SumTheorems` |
| `Onboarding` | templates, checklists, tasks, completion and the listener of employee events, split at their awaits | |
| `Reminders` | assignees and due dates of tasks, the daily digests, split at their awaits | |
| `Sessions` | login, second factor, tokens, sessions, password changes, roles and the cached login, split at their awaits | |
| `Performance` | review cycles, reviews, peer feedback, reminders, goals; a handler may die between its writes | `Sums` |
| `Documents` | documents, versions, files and the knowledge base, split at their awaits | |
| `Recruiting` | openings, applications, screenings, erasure and retention | `Documents` |
| `Attendance` | clock sessions, corrections, the hourly job, totals | `Sums` |
| `Assistant` | questions, streams, the chain of providers, the daily cap | `Sums` |
| `PerformanceProofs` | proofs about `Performance` | `Performance`, `SumTheorems` |
| `WorkdayProofs` | proofs about `Attendance` and `Assistant` | `Attendance`, `Assistant`, `SumTheorems` |
| `PlatformProofs` | proofs about `Notifications` and `Sessions` | `Notifications`, `Sessions` |
| `RecruitingProofs` | proofs about `Documents` and `Recruiting` | `Recruiting`, `SumTheorems` |
| `MCLeave`, `MCWorkflow`, `MCPlatform`, `MCPayroll`, `MCOrganisation`, `MCOnboarding`, `MCRecruiting`, `MCWorkday` | constants for TLC | the modules they instantiate |

In several models a behaviour first picks a scenario (`scenario`, from the constant
`Scenarios`): which operations happen in it, how many, and how many of them overlap. The
state spaces of the scenarios add up instead of multiplying, and each one is chosen for
operations that touch the same rows. `MCPlatform` (notifications, sessions) and `MCWorkday`
(attendance, the assistant, performance) hold components without shared state, `MCOnboarding`
two parts of one, and `MCPayroll` the runs with one handler at a time (`runs`), the runs with
two (`overlap`) and the tax year (`year`); their variable `focus` picks the one that moves.

### LeaveLedger

Dates are the numbers `1..LastDate`; `YearOf` and `MonthOf` cut them into years of
`MonthsPerYear * DaysPerMonth` days. Day counts are in half-days, so that the code's
one-decimal numbers are integers (`4` is two days).

| Variable | Code |
|---|---|
| `today` | the calendar the handlers ask (`todayIso`) |
| `policy`, `holidays` | `leave_types`, `public_holidays` |
| `balances` | `leave_balances`, by employee, type and year (`NoRow` until provisioned) |
| `requests` | `leave_requests`, with the days charged to each year and `statusApplied` |
| `empStatus` | `employees.status` |

Actions: `Submit` and `SubmitInsufficient` (the second keeps the balance rows that
a refused submission has provisioned), `Approve`, `Reject`, `Cancel`,
`SyncEmployeeStatuses` (the whole daily job, starts before ends, employees loaded
once), `Adjust`, `BalancesFor` (a read that provisions rows), `UpdateType`,
`AddHolidays`, `RemoveHoliday`, `ChangeStatus` and `Terminate` of the employees
module, and `Tick`. Each contains everything its handler writes: `Submit`
provisions, charges and stores; `Cancel` releases, flags and reverts the status.

`ManualChanges` is the part of `STATUS_TRANSITIONS` that HR uses. It may contain ON_LEAVE to
ACTIVE, which the employees API accepts during a long leave and of which the leave module is
told nothing; `LeaveHistory` adds `calledBack`, the employees to whom that has happened.

### LeaveWorkflow

`procs` holds what each handler in flight has read and has left to do; `base` is
the ledger state its step will be compared with. Each action is the code between
two awaits: `CheckOverlap`, `ComputeRow`/`InsertRow` (ensureBalance and its unique
index), `CheckFunds`, `ReadBalance`/`SaveBalance` (applyToBalance reads a row and
saves all of it), `Record`, `CheckTransition`/`WriteStatus` (changeStatus),
`WriteFlag`, `Revert`, `SyncNext`. `Interleaved` says whether handlers may overlap
and `MayDie` whether one may end between two steps. With `Interleaved = FALSE` the
refinement mapping of `Ledger` (tables as they were before the handler while one is
in flight) makes every handler a single step of `LeaveLedger`.

### Notifications

Callers run `notify` (`Emit`, `InsertLog`, `Enqueue`, `Link`), workers run the
processor (`Take`, `ReadLog`, `CheckPreferences`, `Lookup`, `CacheSlackId`, `Send`,
`MarkSent`, `Skip`, `MarkFailed`, `Throw`, `Complete`). `log` is
`notification_logs`, `job` the BullMQ job of a row with its attempts and stalls,
`sent` counts what providers accepted. A `Send` is accepted, is refused, or is accepted while
the call throws (a timeout after the message was taken): the processor cannot tell the last
two apart and tries both again; `unanswered` counts the last. `Crash` is a worker that dies:
BullMQ gives the job to another one `MaxStalled` times, which is once, since the code leaves
`maxStalledCount` alone; after that the job has failed without the `catch` of `process` having
run, and the row stays QUEUED. `DatabaseFails` is a statement that is
rejected, `CallerFails` a caller that ends early. BullMQ, SMTP and Slack are modelled from how
the code uses them.

### SalaryStructures and PayrollRuns

`structures` is `salary_structures` per employee; pay is per day, so that shares of
a period are whole numbers. `ContractualPay` adds up the segments as the code does;
`PayByTheDay` is the reference it is compared with. `runs`, `slips` are the tables;
`calcs` identifies the calculation a slip belongs to (a recalculated slip has a new
id), `pdfs` the stored documents, `told` the notifications, `procs` the handlers
in flight, `deaths` the handlers that ended in the middle. A save writes back every
column of the row that was loaded, and inserts a row that was removed meanwhile, as
TypeORM's `save` does. `approve` passes over employees without a login (those not in `HasLogin`)
when it tells people of their payslips. Two history variables say who has met whom: `crossed` are
the runs of which two handlers were in flight together, `overtaken` the handlers whose run
another handler has written after they read it. One employee of the loop is one step; reading the segments
and saving the slip are not separated, because nothing else writes the slip's
inputs except `createStructure`, whose own two writes are separate steps.

### TaxYear

`payslips` are the slips of one employee, by month, with the months each calculation has
seen (`seen`). `StructureLines` evaluates the lines of a structure, `Prorate` and
`ContractualLines` cut them into segments and merge them, `Computation` adds pension,
housing fund and PAYE from `TaxBands`, `CumulativePaye` spreads the tax of the year over the
periods before, in and after the run, and `YearToDate` picks the payslips that count.
Amounts are in units of 100 naira and `Round` rounds to the unit, so the bands are those
of the code and every rounding happens where the code rounds. Months are calculated,
recalculated and approved in any order; how a run gets there is `PayrollRuns`.

### Organisation

`emps`, `depts` are the tables (status `NONE` where there is no row), `recorded` what
the rows of `employment_history`, read in order, say of an employee, `procs` the
handlers in flight with the row they have read and the row they will write. Each
handler is two actions: `StartHire`, `StartProfile`, `StartAssignment`, `StartStatus`,
`StartTerminate`, `StartFound`, `StartUpdate`, `StartRemove` read and check (the checks
of one handler are one step), and `Hire`, `SaveProfile`, `Assign`, `ChangeStatus`,
`Terminate`, `SaveDepartment`, `RemoveDepartment` are their transactions, refused where
a foreign key or a unique index refuses them. `IsInReportingChain` follows `DepthLimit`
levels (50 in the code), `IsDescendant` the whole subtree, as the two SQL queries do.
`save` is taken to store the columns as the service left them on the object: which of a
loaded relation and its id column TypeORM prefers is not modelled.

### Onboarding

`staff` is the status of employees, `posted` the events whose listener has not started,
`templates` the items of the active template of the department and of the company,
`lists` checklists with their tasks, open or closed. `Create`, `ChangeStatus` and
`Terminate` are the employees module; `OnCreated`, `OnTerminated` and `StartByHand` lead
to `start` (`Instantiate`, `ReadTemplate`, `InsertChecklist`); `updateTask` is
`StartUpdateTask`, `SaveTask`, `CheckFinished`, `Complete`, `CheckEmployee`,
`Activate`; `reassignTask` saves a whole task without looking at its checklist; an update
of a template deletes the items (`StartReplaceItems`) before it saves the new ones
(`SaveItems`). `Die` ends a handler between two steps.

### Reminders

`tasks` are the rows of one checklist with their user, role, due date and last reminder,
`desks` requests between loading a task and saving all of it, `runners` jobs in flight,
`digests` the tasks of each digest by user and day, which is the dedupe key. A job is
`SendReminders` (reads and groups), then per user `Notify` and `MarkReminded`; it may be
started again by hand or by the queue, on another server too. `causes` records what the
property excuses.

### Sessions

One login, since every table and key is looked up by user id. `user`, `roles`, `tokens`,
`oneTime` are the tables, `cache` and `denied` the Redis keys of the cached login and of
the deny list, `access` and `challenge` what clients hold, `procs` the handlers in flight.
A handler is the list of the steps it has left, with the user row it loaded; a save writes
that row back in full. `Login`, `VerifyMfa`, `Refresh`, `Logout`, `LogoutAll`, `Invite`,
`AcceptInvite`, `RequestPasswordReset`, `ResetPassword`, `ChangePassword`,
`RecoverAccount` (the break-glass command), `BeginSetup`, `Enable`,
`RegenerateRecoveryCodes`, `Disable`, `ResetMfa`, `EditUser`, `EditRole` and `Request` (an
authenticated request through the guard) start handlers; `SaveUser`, `Issue`, `Rotate`,
`Revoke`, `DenySessions`, `GetAuthUser`, `StoreContext`, `Invalidate` and the like are their
steps. `WriteRole` saves the role whatever has become of it: TypeORM inserts a row that was
deleted meanwhile once more. A tick stands for the second of JWTs and for the step of authenticator codes.
`signedOut`, `ended`, `accepted`, `reused`, `barred` record history for the properties.

### Performance

`cycle`, `reviews`, `feedback`, `goals` are the tables for one cycle, `told` the dedupe keys
of the notifications, `shown` the ratings employees have seen. Handlers are atomic, except
that `Launch` and `Advance` may die between writing the reviews, the cycle and the
notifications (`Dies`). `Closing` defaults final ratings to the manager's as the code does;
`SendReminders` is the daily job with its notion of who is due.

### Documents and Recruiting

`docs`, `versions`, `files` and `chunks` are the tables, storage and the index; a file is the
number of its key. A request is the list of its steps (`Upload`, `SaveVersion`, `SetCurrent`,
`SaveRow`, `SoftDelete`, `Emit`, ...); an index job is `Take` (reads the document),
`IndexDocument` (writes the chunks), `IndexFails` or `IndexStalls` (the worker dies). A job counts
its failures and its stalls: the queue tries it again until it has used `IndexAttempts` (5 in the
code) or has stalled more than `MaxStalled` times (1, BullMQ's default), and then drops it.
`CanRead` and `Listed` are the two translations of the visibility rule. `CanRead` walks up
from the owner, one manager at a time, `MaxDepth` levels (50); `Listed` walks down from the
reader, over the whole line, and keeps `MaxReports` of the employees found (5000), in no
particular order (`ReportIds`). `Recruiting` adds one opening and one candidate: `Apply` is eight steps over the same
tables, `Screen`, `ScreenFails`, `ScreenDone`, `ScreenStalls` the screening job with its
attempts and stalls, `EraseCandidate` and `Retention` the erasure in its order (applications, files,
document rows, candidate). `DeleteFiles` deletes one file a step, and storage may reject a
deletion with or without having done it, which ends the erasure with the other files and the
rows in place. `faults` records which failures occurred and which kinds of
requests overlapped, so that a property can name exactly the cases in which the code
does not keep it.

### Attendance

`records` is the table, `desks` the requests between their check and their write, `job` the
rows the hourly job has changed and not saved. `ClockIn`, `ClockOut`, `CreateManual`,
`UpdateRecord` and `RemoveRecord` check, `Write` is the `save` or `remove` each of them ends with. `DailySummary` and `MonthlyReport`
are the two ways in which the code adds up hours.

### Assistant

`questions` are the questions being answered, `usage` the recorded calls per day,
`cooldownUntil` the chain's memory of failures. `Order` is the set of the providers a question
will try and `First` the next of them, the chain being ordered by the configuration; `Answers`, `Fails`, `Refuse`, `StreamEnds`, `StreamBreaks`, `Abandon` (the reader
leaves) the ways a call ends, `SaveAnswer` and `Record` what follows. `DeleteConversation` and
`PurgeConversations` remove conversations under questions in flight.

## 4. What the runs show

Passing runs:

| Run | Shows | Bounds |
|---|---|---|
| `leave_ledger` | `NoOverlap`, `LedgerBalanced` (used and pending of every row equal the requests charged to it), `NotOverdrawn`, `AppliedIsOnLeave` (only an approved request holds its employee on leave; until HR calls the employee back by hand only one does, and the employee is on leave), `LeaveEnds` | two requests, four dates over a year's end, a weekend, a holiday that comes and goes, two policies, corrections of -1 day, activation, termination, and HR putting an employee on leave back to ACTIVE; every leave is long (`LongLeave = 1`) |
| `workflow_serial` | `ImplementsLedger`: served one at a time, the handlers are the ledger's actions | two requests, three dates over a year's end, half-days, long leaves of two days, all seven handlers, termination |
| `workflow_provision` | `ProvisionedOnceConcurrently`: whoever provisions a row first decides it | two handlers in any interleaving, each may end anywhere, the policy changes meanwhile |
| `payroll` | `ApprovedIsDocumented`, `PaidByTheDay`, `SlipsAreFrozen`, `ApprovedIsAnnounced`; `PayeIsCumulative` (even on steady pay, right by the end of the year) | one run, two employees (one joins and leaves inside the period, is paid in another currency and has no login), two structures each, two calculations, one handler that ends anywhere; the same with two handlers of the run in flight, over structures that are there already; four months before the end of a year and one after it, four kinds of pay (in another currency in October only), hired in September and paid until December or hired in October and paid until January |
| `organisation` | `ChartIsSound` (no reporting cycle, no cycle of departments, the chart shows exactly the employed), `ManagersAreEmployed`, `HistoryExplains` | three employees, two departments, every handler, one at a time |
| `onboarding` | `JoinersAreOnboarded` (`JoinersGetChecklists` and `CompletionActivates`); `RemindedOnceADay` | one employee whose department has templates of its own, two checklists, a required and an optional item, one template change, one handler that ends anywhere, one at a time; two tasks, two users, two days, three jobs of which two may overlap, one of which may stop, one request on a task |
| `platform` | notifications: `DuplicatesNeedFaults`, `EnqueuedIsSettled`; sessions: `SignedOutStaysOut`, `PasswordChangeEndsSessions`, `RefreshChainsAreSingle`, `CodesWorkOnce`, `LockKeepsOut`, `LoginIsCurrent` (whatever changes what the guards go by empties the cache) | one direct message emitted by two callers, two workers, three attempts, one stall forgiven and two crashes, one message taken by a provider that does not say so, one failing statement, callers that fail; eight scenarios of three to six requests, two of them with two handlers in flight, two with handlers that may end half-way |
| `recruiting` | `StaleIndexNeedsFault`, `ListMatchesCanRead`, `ListedFilesExist`, `ErasureIsComplete`, `ScreeningSettles` | two documents, three files, two requests in flight, two index workers with two attempts, two screening jobs with two attempts, one stall forgiven, up to two outages, a server that dies; a line of four employees, of which `canRead` follows two levels and `list` two reports; nine scenarios |
| `workday` | attendance: `SecondOpenNeedsCause`, `HoursAddUp`, `ForgottenIsClosed`; the assistant: `CapWithinFlight`, `PaidIsCounted`, `RefusalMeansAllDown`; performance: `ClosedIsSettled`, `ShownRatingIsFinal`, `GoalWeightsFit`, `DueIsReminded` | one employee, two records, four requests, two at a time, four hours; two questions at a time, three in all, two providers, two mishaps, two days; a lead, a report, a leaver and HR, two ratings, three days, three goals, one handler that dies half-way, four scenarios |

Properties about overlapping requests: `ProvisionedOnceConcurrently`, `SignedOutStaysOut`,
`SlipsAreFrozen`, `RemindedOnceADay`, everything of `recruiting`, and attendance and the
assistant in `workday`. The three of payroll that are about runs are checked with two handlers
in flight too: `SlipsAreFrozen` blames every change of an approved slip on a handler that was
overtaken, `ApprovedIsDocumented` and `ApprovedIsAnnounced` leave out runs whose handlers
`crossed`. The other properties of sessions say `Serial` themselves, and `organisation`, `onboarding` and
`workflow_serial` set `Interleaved = FALSE`: they are what the code keeps when the requests on
the same rows are served one at a time, and section 6 names what overlapping ones break.

Three runs end in a violation of something the repository says of itself:

- `payroll_golive`, `SteadyPayFromGoLive`. `src/README.md:324` says that without history
  "earlier months are assumed paid at the current rate", and line 322 that steady pay gives a twelfth
  of the annual tax. The calculator assumes so only while there is no payslip at all
  (`payroll/nigeria-payroll.calculator.ts:93`). In the trace an employee who has been there
  since 1 January has the first run here in September, which deducts 363 units; once it is
  approved, October knows one payslip, counts the months before September as unpaid, and
  deducts nothing.
- `platform_overlap`, `ChangesBiteAtOnce`. `src/README.md:133-134` says that suspending a user,
  changing roles or changing a password takes effect "on the very next request". `getAuthUser`
  reads the user and stores the context one await later (`rbac/rbac.service.ts:64`): a suspension
  between the two saves and empties the cache, and the stale context is stored after it.
  The suspended login is served until the entry expires (300 seconds). `LoginIsCurrent` in
  `platform` is what holds: served one at a time, every handler that changes
  what the guards go by also invalidates the cache.
- `workday_cooldown`, `RefusalTriesAll`. The comment at
  `src/src/infrastructure/ai/fallback-chat-model.ts:18-19` says that a provider on cooldown is
  "retried after the cooldown or when everything else is down too". `order()` leaves such a
  provider out as long as another one is not cooling down (line 95), and a question
  walks that list only: when the healthy ones then fail, it is refused with the cooling
  provider untried. `RefusalMeansAllDown` in `workday` is what holds instead.

Bounds. Two requests are the least for an overlap or for a row shared by
requests; dates cross at least one end of year, since splitting, provisioning and
carry-over only matter there. Two handlers in flight are the least for a race.
Three attempts, and two crashes against the one stall that BullMQ forgives, let a job be retried, be
exhausted, and be given up at its second stall; in `recruiting` two outages let an index or a
screening job use up its attempts or its stalls, and a resume of two versions lets storage reject
the second of two deletions;
`platform` sends a direct Slack message because it takes the longest path
(preferences, lookup, cache, send), of which an e-mail is a part. Three
employees are the least for a line in which someone in the middle leaves, and four for one
that is longer than two levels and has a manager with more than two reports, and
`DepthLimit` is as long as their longest line. Two checklists
let an old one be finished or cancelled under a new one. September to January has months with
history, a last month of the year and a first one; hire dates on 1 September and 17 October are a
joiner on the first day of a run and one in the middle, and 1 January, in `payroll_golive`, is
long employment. Four months of one year are the least in which the history of a payslip can
have a gap.
Six requests are what it takes to enrol, use, lose and enrol a second factor again; times to
live are a few ticks, in the order of the defaults (a lock and an access token end before a
refresh token). Two index jobs and two screening jobs are the workers' concurrency. `Max...`
and `Last...` constants cap the counters in the guards. `CHECK_DEADLOCK FALSE` stands where
the bounded calendar, the finite ids or the finite number of requests let the system
stop legitimately.

Fairness. `LeaveLedger!FairSpec`, and `LeaveHistory!FairHSpec` alike: the calendar advances and the daily job runs
again and again (BullMQ's scheduler); nothing is assumed of people.
`FairWSpec` and `PayrollRuns!Fairness`: a handler that has started takes its next
step, since its database call answers or rejects; whether one starts, or dies, is
not assumed. `Notifications!NotificationsFairness`: callers and workers go on and
BullMQ hands a waiting job to some worker; deliveries are not assumed to succeed.
`Onboarding!Fairness`: handlers go on, and the listener of an event is called however
often other handlers come first (the emitter has it on the event loop of a live process).
`Performance!Fairness`: days pass and the scheduled job of a day is worked off.
`AttendanceFairness`: received requests end, the hourly job runs and saves, time passes.
Nothing is assumed of sessions, of which no property is about what happens eventually. In
`MCWorkday` fairness of attendance is assumed where attendance is the component that moves.

## 5. What is proved

Every theorem holds for every value of the constants that satisfies the named `ASSUME`s of
the module it is about (finite sets, natural bounds, a calendar with at least a day).
Hypotheses beyond that stand in the theorem and are named below with the reason.

Totals (`SumTheorems`). Balances, pay, goal weights, hours and recorded calls are all
`SumOver` of a finite family. What a fold computes needs induction over data, which the
installed provers cannot instantiate from the library's induction theorems. The argument is
made by hand instead: `LeastSubset` says that a family of subsets that is not empty has a
smallest member, so a property of all subsets can be refuted only by a least
counterexample; `AdditiveExists` and `SumIsAdditive` use it to show that the fold exists and
is additive. From there `SumUpdate`, `SumRemove`, `SumAdd`, `SumPartition`, `SumSupport`,
`SumConstant` and `SumNat` are what the components cite.

`LeaveLedgerProofs`:

- `SoundnessIsInvariant`, and from it `TypeCorrect` and `NeverOverdrawn`. The
  inductive invariant is `Sound`, the conjunction of the two: that a row is not
  overdrawn after a charge needs its numbers to be numbers. The argument is one lemma for a
  row (a charge is only made when `Available` covers it, a correction only down to what is
  available, a release only lowers what is reserved) and one lemma per action.
- `RequestsNeverOverlap`: `NoOverlap` is inductive together with the types, since
  only `Submit` adds an active request and it looks at all of them.
- `LedgerStaysBalanced` for `LedgerBalanced`, from `Booked`: rows that do not exist hold
  nothing (`Blank`), and a request is charged only to the year it starts in and the next
  (`InWindow`), which are the years a decision moves days in. Each handler either keeps
  all bookings or moves exactly the days of one request (`Moved`), and `SumUpdate` says that
  the total of the requests moves by as much. Hypothesis `[][KeepsTracking]_vars`: no type is
  switched between tracked and untracked, because the code books nothing for requests
  decided after the switch (section 6).
- `LeaveHoldsItsEmployee` for `AppliedIsOnLeave`, of `LeaveHistory` and for every set of manual
  changes; inductive with the types and `NoOverlap`. That a request which holds its employee is
  approved needs no exception. That it is the only one, and that the employee is on leave,
  holds until HR calls the employee back by hand, and not after: the request still counts
  as applied, and a later leave puts the employee on leave a second time (section 6).
- `WorkflowTyped`: the handlers of `LeaveWorkflow`, any number in flight, interleaved and ending
  anywhere, keep the types. `WorkflowTypeOK` says of a handler in flight what its program
  counter promises (`Shape`): years to do where it checks or charges them, a row it
  inserts or saves that is a row of the table, and (`Writing`) that a row it is about to
  save has the entitlement of the row that is there.
- `GrantsAreFinal` for `ProvisionedOnceConcurrently`, from the same invariant: no step changes what
  a provisioned row grants (`KeepsGrants`), although several handlers may have computed
  the row, from different policies, before the first inserts it, and although saves write back
  rows read earlier.
- `HandlersImplementTheLedger`: if handlers are served one at a time and do not end half-way
  (`~Interleaved`, `~MayDie`; section 6 names what is lost without them), every behaviour of the split handlers is a behaviour of the atomic ledger, under the
  mapping that shows the tables as they were when the handler in flight began. Each step is
  a stutter except the last of a handler, which has to be one action of the ledger. This
  needs to know, at the last step, all that the earlier ones did: `SerialInv` says of the one
  handler at work (`OneAtWork`) that what it still has to do to the tables it finds gives
  what the ledger's action gives from the tables it began with (`AtWork`). For a
  submission these are the years still to check (`Checking`, `CheckRows`), then the years still
  to charge (`Booking`, `ChargeTodo`); for a decision `Settling`; for a correction and a view
  the rows still to provision; for the job the requests its loop has not reached
  (`InFirstLoop`, `InSecondLoop`). There is a lemma for each start (`...Opens`), each step
  (`...Serves`) and each change from outside (`OutsideKeeps`). `Regular` adds what the daily job
  relies on: active requests do not overlap, a pending one holds nobody, and a request has days
  in the year it starts in and the next only.

`PayrollProofs`:

- `OnlyTheOvertakenAreStale`, for any overlap of handlers, wherever they end: the inductive
  invariant `Known` says that rows have their columns (`Shape`), and that what a handler has
  learnt of its run is still true (`Informed`) unless another handler has written the run
  since: a calculation or removal works on an open run, an approval on a calculated one, and
  the row to be saved is at most one step ahead. The handlers that have been overtaken are
  the ones that the code does not look out for.
- `SlipsStayFrozen` and `RunsOnlyMoveForward` follow step by step, for any overlap too: an approved
  slip changes, and a run moves otherwise than DRAFT, CALCULATED, APPROVED, PAID, only in a step
  of an overtaken handler. Looking at the run's status once more in the statement that
  writes it (or locking the run) would remove that exception; today overlapping requests reach
  it (section 6).
- `EveryDayIsPaidOnce` for `PaidByTheDay`, with handlers served one at a time. The inductive invariant `Filed` says that the
  structures of an employee form a `Chain` (each ends before the next starts), that the last
  one is open unless its successor is being inserted (`Continued`), and what
  `createStructure` knows between its two writes (`Filing`); it holds until a handler dies,
  which is the case the property excludes. `ChainPaysByTheDay` then partitions the days of a
  period by the structure in force, so that the sum over segments that the code computes is
  the sum over days.
- `ApprovedRunsAreDocumented` for `ApprovedIsDocumented`, with handlers served one at a time (the
  run checks it with two in flight, for the runs whose handlers did not cross), from `Papers`: an approval at work
  holds the amounts of the stored slips and has linked the PDFs of everyone it is through
  with, wherever an earlier approval ended.

`PayrollProofs`, of `TaxYear` (any structures, months and hire dates, in any order of calculating,
repeating and approving):

- `YearsAreCorrected` for `YearSelfCorrects`, from `TaxInv`: payslips have their types (no pay or
  deduction is negative, `ContractIsPayable`), and a payslip was computed on approved ones, which are
  not computed again (`Traced`), so its PAYE is still what `CumulativePaye` makes of them. The last
  month projects nothing, and the share of the whole is the whole (`RoundWhole`).
- `PayeAddsUp` for `PayeIsCumulative`. Hypotheses: pay is monthly (`PaidMonthly`), and the periods that
  the calculator counts between dates are the months there are (`WholePeriods`). It counts
  rounded days, so for the months of a calendar the latter holds of whoever joins in the first half
  of a month (or in December), and not of the others: of a hire on 17 October, October is a month for
  the payslips and no period for the calculator. On steady pay what has been deducted before each month is
  within half a unit per payslip of the share of the tax (`Near`, by the least month for which it is
  not), because a payslip either adds a rounded n-th part or goes to the rounded share
  (`SteadyMonth`, `OneMorePayslip`). A twelfth payslip may so be up to six units off after
  eleven that were computed before any was approved, which is what `EvenShare` allows.

`OrganisationProofs` (`LeaversStayLeavers` for any overlap; the rest with `Interleaved = FALSE`, while no reporting line is longer than the
chain query follows, `LinesFit`):

- `SoundnessIsInvariant`: the inductive invariant `Sound` joins the types, `OneAtATime`,
  `Linked` (rows point at rows that exist), `Informed` (what a handler has checked is still
  true) and the three state properties. They need each other: that reports of a leaver get an
  employed manager needs that the leaver's manager is employed and, since a cycle would make
  the leaver move below itself, that there is no cycle.
- `ReportingLinesAreTrees`, `DepartmentsAreTrees`: absence of cycles is stated as
  "every group has a member whose manager is outside", which needs no induction over paths. A
  new link that closed a cycle would leave a smaller closed group, the part of it in the
  line above the new manager (or outside the subtree found), that was there before.
- `ChartStaysSound` for `ChartIsSound`: the employed are shown on exactly one level of the
  chart and nobody else is. The chart and the reporting chain are recursive functions over
  levels; that they exist and what they return is proved by a least counterexample again
  (`LeastNumber`, `Iterates`). Someone on no level would have a manager on no level, and all
  of these would form a closed group; someone on two levels has a manager on two.
- `NobodyReportsToALeaver` and `HistoryAccountsForRecords` follow from `Sound`; the latter needs
  that a manager who left stays a leaver.
- `LeaversStayLeavers` for `TerminatedIsFinal`, with handlers overlapping freely: an employee
  comes back from TERMINATED only under a `changeStatus` or a profile save that had read the row
  before the termination. Its invariant `Wired` says that a profile save writes the status
  it has read, and that a status change had read a row that was not TERMINATED.
- `TasksAreRemindedOnceADay` for `RemindedOnceADay` of `Reminders`, with jobs and requests
  overlapping freely. While nothing that the property excuses has happened, there is one job
  and nobody writes beside it (`Undisturbed`), a digest's tasks are marked as reminded that
  day or about to be by the job that sent it (`Remembered`), and a task is in one digest.

`PerformanceProofs`:

- `PerformanceTyped`; `ShownRatingsStand` for `ShownRatingIsFinal`, from `ShownLate`: ratings
  are shown in closed cycles only, and no handler writes a final rating of a closed cycle.
- `ClosedCyclesAreSettled` for `ClosedIsSettled`, from `Settling`: reviews of a closed cycle
  are completed or acknowledged and, while nobody has died, a final rating before closing
  comes from calibration alone.
- `GoalWeightsAlwaysFit` for `GoalWeightsFit`: inductive with the types; a proposal, an
  approval and a new weight each look at the total of the goals that count, without the goal
  itself.

`WorkdayProofs` (any interleaving):

- `OneOpenSession` for `SecondOpenNeedsCause`. `Rows` types what requests and the job carry
  (only entries and edits carry open sessions). `Single` says that until something
  excused happens an employee has one session that is open or that an edit in flight will
  write open, and that nothing else can open one while an entry waits.
- `ReportsAddUp` for `HoursAddUp`: worked hours are those of the clock times in every row and
  every copy of a row (`Rows`), and the two ways of adding them up are one sum partitioned
  by employee and day.
- `AssistantTyped`; `RefusalsAreHonest` for `RefusalMeansAllDown`, from `Walking`: a provider
  that is not in a question's chain any more, or never was, failed within the cooldown of
  the moment the chain was computed.
- `CapHoldsWithinFlight` for `CapWithinFlight`, from `Capped`, which relates what is recorded,
  what is in flight and the cap; `PaidCallsAreCounted` for `PaidIsCounted`, from `Counted`:
  paid calls are recorded, owed by a question in flight, or lost.

`PlatformProofs`:

- `NotificationsTyped` and `DuplicatesAreFaults` for `DuplicatesNeedFaults`: a crash, a failing
  update and an answer lost after a provider took the message may each cost one duplicate, and
  nothing else does. The inductive
  invariant has three parts: `Queue` (types, and a job that may run has an attempt left and has
  not stalled more often than is forgiven),
  `OneByOne` (the dedupe key lets one caller reach the queue, the queue one worker reach a
  job) and `Accounted` (a message that is out is in the row, about to be written there, or
  paid for by a fault).
- `SignedOutForGood` for `SignedOutStaysOut`, with any interleaving and handlers that end
  half-way; `PasswordChangesEndSessions` and `RefreshChainsStaySingle` for requests served one
  at a time. One inductive invariant, `SessionsInv`: the tables are well formed (`Stored`), a
  handler in flight has its steps in an order the code has, and a token that exists
  (`Flying`); an access token that was signed out is denied from its time of issue on
  (`Out`); and, while requests are served one at a time, what the handler at work has
  revoked, found or ended is so (`Orderly`).
- `SessionsTyped`, and `CodesAreSpentOnce` for `CodesWorkOnce`, from two more layers. `RowsInv`:
  the copy of the user row a handler carries is a row of the table. `CodesInv`: while requests
  are served one at a time, the row and the copy in flight bar every code spent so far (`Honest`:
  the last accepted step is not before a spent one of the same seed, a spent recovery code is
  gone from the row), and the code a handler is about to spend is not spent yet and is
  barred by the copy it will save (`Spends`, `Owed`). New seeds and recovery codes are new
  (`Known`), which is why enrolling again does not bring a code back. This uses that the
  codes an account begins with were made before (`SessionsAssumption`).
- `LocksKeepOut` for `LockKeepsOut`, from `LockInv`: while requests are served one at a time,
  the row, and the copy a handler will yet write back (`WritesBack`), keep the lock that
  failures have set (`Kept`), and a handler that is to open a session found none (`Guarded`).
  A copy is written back only before the row is fetched anew or the lock is lifted, and a lock
  counts as lifted only once the save that lifts it has succeeded. The hypothesis is that an
  account has a password only once its invitation is accepted (`AcceptedFirst`), as where
  `recover-account` is not used on accounts that are only invited. Without it the property
  is false: `recover-account` gives an invited account a password, failures lock it, and
  accepting the invitation opens a session during the lock (section 6).

`RecruitingProofs` (any number of documents, files, requests and jobs, in any interleaving):

- `RecruitingTyped`. The invariant `Typed` says what a request in flight carries at each of its
  steps (`Handler`); the order of the steps (`Leads`) is read off the plans that requests start
  with and kept by taking their tails.
- `ScreeningsSettle` for `ScreeningSettles`, from `Screens`: an application whose status is open
  has a screening waiting, running or about to be enqueued (`Settling`), unless a job has
  stalled once too often, which needs that a
  decision in flight is about an application that is still there (`Decided`). `Overlaps` says
  that two requests in flight together are recorded in `faults`; that is how the exceptions of
  the property are brought to bear on the requests in flight.
- `IndexIsCurrent` for `StaleIndexNeedsFault`, from `Catalogue` (a document that is gone has no
  versions and no chunks, and comes back only as the row a request had read) and `Current`:
  every document has a job, or a request about to enqueue one, or else the job that runs has
  read the row as it is now and, if none runs, the index is settled. A job that is dropped
  after its last attempt or stall is recorded in `faults` and excuses what it leaves stale.
- `DownloadsWork` for `ListedFilesExist` and `ErasedForGood` for `ErasureIsComplete` share
  three layers. `Turn` states what a step of a request does to rows, storage, the application
  and the request itself, so that the invariants below never open the handlers. `Known`: a
  resume belongs to one request until it is filed with the application (`Separate`, `Filed`).
  `Stocked`: a file that waits for its version row is in storage, is named by no version, and
  is not among those an erasure has collected (`FileKnown`, `Apart`).
- On them, `Downloads`: unless a server died, storage rejected a deletion or a decision
  overlapped an erasure, an erasure
  that is past deleting the applications is never about the resume the application has
  (`Spared`), and every listed file is in storage or its row is about to go.
- `Erasing`: as long as none of the exceptions of `ErasureIsComplete` has occurred, each resume
  that is left belongs to the application, to the request storing it or to the erasure deleting
  it (`Owned`), each of its files is listed or held by an upload (`Shelved`), and each request
  finds what it was started with (`Orderly`): an erasure has all files of its document,
  a version number that an upload has claimed is free. None of the three is inductive without
  the other two.

Only model-checked:

- liveness under fairness (`LeaveEnds`, `EnqueuedIsSettled`, `ApprovedIsAnnounced`,
  `JoinersAreOnboarded`, `DueIsReminded`, `ForgottenIsClosed`): out of the prover's reach;
- `LoginIsCurrent`, and `ListMatchesCanRead`, which compares two bounded walks over the
  reporting line in opposite directions: it is checked for every reader and owner of a line that
  exceeds both bounds.

## 6. Further observations

Met while modelling, and visible in the modules, but without a run of their own. Two facts
of the persistence layer explain most of them: no entity has a version column, so
TypeORM's `save` of a row read earlier overwrites the columns another handler has
changed (and inserts a row deleted meanwhile); and there are unique indexes for balance
rows, payslips of a run, reviews of a cycle, versions, candidates, applications and dedupe
keys, but none for checklists in progress, open attendance sessions, overlapping leave or
open salary structures.

Leave:

- Two submissions in flight both pass the overlap query before either is stored
  (`leave/leave-requests.service.ts:95`), against `src/README.md:244`.
- Two handlers that read the same balance row lose the earlier change
  (`leave/leave-policy.service.ts:285`): the books no longer equal the requests.
- The carry-over is a snapshot taken when next year's row is first touched
  (`leave/leave-policy.service.ts:203`); days of the old year used afterwards were
  carried over as well.
- A request may span two calendar years (`leave/leave-requests.service.ts:75`) and is charged
  to both, although `src/README.md:244` says that requests can't "span calendar years".
- When `requiresBalance` is cleared while a request is pending, its decision returns
  early (`leave/leave-requests.service.ts:404`) and the days stay pending.
- A submission that ends between charging the balance and storing the request leaves
  days reserved that no request can release (`leave/leave-requests.service.ts:122`).
- An employee on leave who is put back to ACTIVE by hand keeps the request applied: when another
  leave puts the employee on leave again, cancelling or ending the first request takes the
  employee off the second (`leave/leave-requests.service.ts:345`).
- A half-day request from 31 December to 1 January is accepted although
  `leave/entities/leave-request.entity.ts:17` says "only valid when startDate ===
  endDate": `allocate` checks the two parts of the request on their own.
- A long leave that directly follows another one is not in effect on its first day,
  because the job starts leaves before it ends others
  (`leave/leave-requests.service.ts:345`), although `src/README.md:245-247` promises the flip
  by that day's job.

Employees and onboarding:

- With two handlers in flight, `Organisation` loses `NoReportingCycle` (two assignments
  that each pass the check), `NoDepartmentCycle`, `ManagersAreEmployed` (a hire or an
  assignment under a manager who is being terminated) and a leaver comes back
  when `changeStatus` or `updateProfile` write over a termination (the only way, as
  `LeaversStayLeavers` proves).
- `terminate` moves the leaver's reports without a history row for them
  (`employees/employees.service.ts:491`), although `src/README.md:179-180` says that every
  manager change writes one; `HistoryExplains` names this exception.
- With two handlers in flight, `Onboarding` can start two checklists at once (an event and a
  manual start), complete a checklist whose task is reopened meanwhile, and overwrite a
  cancellation by a completion. A checklist started while `update` replaces the items of its
  template has no tasks and is completed at once.
- A task for a manager or an employee without a login belongs to nobody, and is in no digest and
  no task list until HR reassigns it, although `reassignTask` insists on a user or a role; the
  comment at `onboarding/onboarding.service.ts:308` says that tasks without a user "go to HR
  via role". A task given to someone who already had the day's digest is marked as reminded by a
  second job although the digest is dropped (line 341); it is due again the next day.

Notifications:

- A caller that dies between the insert and `queue.add` leaves a row QUEUED for ever, and
  its dedupe key blocks every repeat (`notifications/notifications.service.ts:82`), against
  `src/README.md:195-196`. `EnqueuedIsSettled` is about the rows that got a job.
- A worker that dies between the provider's answer and the update, and a call that throws after
  the provider has accepted (`notifications/notifications.processor.ts:134`), send the message
  again; `DuplicatesNeedFaults` bounds it by one per fault.
- A job on which a second worker dies is failed by BullMQ itself: the row stays QUEUED
  (`EnqueuedIsSettled` names this), and the notification is neither sent nor marked as failed.
- `resolveSlackUser` writes back preferences read before the Slack lookup
  (`notifications/notifications.processor.ts:182`).

Payroll:

- A calculation that read a CALCULATED run deletes and rebuilds its slips after another
  handler approved it (`payroll/payroll.service.ts:285`), although
  `payroll/entities/payslip.entity.ts:24` says "Never recalculated after approval".
- The overlap check ignores drafts, so two drafts of one period can both
  be calculated and approved, although `src/README.md:311` says that "Non-draft runs can't
  overlap"; `setFxRates` on a CALCULATED run does not recalculate it; an
  approval that fails half-way leaves PDFs of an unapproved run with the employees; a
  recalculation that fails half-way leaves a CALCULATED run with part of its slips
  and the old totals; employees not yet told when an approval fails are never told.
- `createStructure` that ends between its two writes leaves an employee without a current
  structure, and the next one may then start before the closed one ends and pay days twice.
- A fixed deduction is not pro-rated and is taken once per segment: a pay change inside a
  period deducts it twice.
- A year whose last run is calculated before an earlier one is approved is not
  corrected; `YearSelfCorrects` asks for the approved payslips of the other months.
- A payslip that knows some of the earlier months but not all, because one of them was
  approved late, takes the gap for months without pay: on steady pay from September,
  a November calculated before October is approved deducts nothing, and December deducts twice
  its share. "Steady pay gives exactly annual tax ÷ 12" (`src/README.md:322`) holds when each
  payslip knew all the earlier ones or none, which is what `SteadyUpTo` asks for.

Sessions:

- Two uses of one refresh token, or of one reset or invitation token, that are in flight
  together both succeed (`auth/token.service.ts:100`); a rotation in flight during a sign-out
  survives it; a sign-out that dies between revoking and denying leaves the access
  token working until it expires.
- Handlers save the whole user row they loaded, so a failing login in flight undoes a lock or
  a suspension.
- `recover-account` with a new password gives an account that is still INVITED a password, so
  that failing logins can lock it; accepting the invitation does not look at the lock and opens
  a session (`src/src/cli/recover-account.ts`).
- `updateRole` in flight during `deleteRole` saves the role it loaded and so brings the role
  back (`rbac/rbac.service.ts:145`).

Performance:

- A launch that dies after saving the reviews leaves a DRAFT cycle that cannot be
  launched again (the unique index refuses the reviews) and has to be deleted.
- A closing that dies before the cycle is saved has already defaulted the final ratings:
  employees may acknowledge, a later assessment by the manager resets the status and
  leaves the defaulted rating. One that dies after it tells nobody.
- With requests in flight together: a stale review or cycle row undoes an advance, an
  assessment arrives after closing, two goals exceed 100 % together, a stale edit undoes an
  approval. `Performance` does not interleave its handlers.

Documents, knowledge base, recruiting:

- Two index jobs of one document may overlap and leave an older version, or a document that
  is no longer eligible, indexed, although `ai/ai.processor.ts:46` says "Deduplicated by
  document id": the job id contains the time.
- A policy replaced by a file without text keeps the chunks of the old one.
- The later of two uploads may be made current first and be overtaken by the earlier one; a
  stale update undeletes a document; HR may make a company document PRIVATE by an
  update, which creation forbids.
- An application that dies between the resume and the application row, or races another
  one, leaves a resume that erasure does not find; an erasure that dies after deleting the
  applications no longer finds their files when it is repeated.
- A deletion that storage rejects ends an erasure after the applications are gone
  (`documents/documents.service.ts:250-252`): repeated, it no longer finds the resume. Where the
  file was deleted and the row was not, the document is listed and cannot be downloaded.
- An index job that fails five times, or on which two workers die, is dropped: the index stays
  as it was until the next change of the document or a reindex. A screening job on which two workers
  die leaves its application RUNNING; `pendingScreeningIds` does not pick it up.
- `list` shows what is owned more than 50 levels below a reader, which `canRead` then refuses, and
  leaves out what belongs to reports beyond the first 5000.
- An upload that loses the race for a version number has stored its file
  (`documents/documents.service.ts:405`); if the document is a resume, erasure does not find
  that file. When it wins against the application that is storing the resume, the
  application is aborted and leaves the resume behind. Two erasures that overlap each other
  and a decision leave the application, or its resume, that the decision wrote back.
- A decision in flight during a screening writes the old screening status back; a server that
  dies before the screening is enqueued leaves it PENDING; candidates without an
  application are never old enough for retention.

Attendance and assistant:

- Clearing a clock-out while another session is open, and two clock-ins in flight, make two
  open sessions; a stale correction reopens or restores a session; the monthly
  report counts all days of a leave in each month it touches.
- A stream that breaks, or an answer whose conversation was deleted meanwhile, is paid for and
  not recorded. The cap can be exceeded by the questions in flight.

## 7. Not modelled

- Positions and linked logins of employees and overlapping handlers in `Performance`. They
  are what is left of the plan.
- Data exports, listings, reports of analytics and authorisation checks that change no
  state; the table of public holidays; employer costs, PDF layout and exports of payroll;
  chunking, embeddings and similarity search; hashing and signatures; texts, citations,
  tokens and prices of the assistant; templates and wording of notifications: no decision of
  the modelled state depends on them.
- The deletion of old usage, notification and audit rows by the retention job: a deletion by
  date. The deletion of notification rows frees their dedupe keys.
- The audit log, controllers and validation, configuration, storage, mail, Slack and model
  clients: input and output. What the models need of BullMQ, Redis, SMTP, Slack, storage
  and the providers is modelled from how the code uses them.
- Migrations and seeds: schema and initial data; their unique indexes appear as guards.
