# A verification development for OpenSchool

OpenSchool is a school management system: a Go server (`src/backend`) with a
Postgres database, an external identity provider (ThunderID) and a web client.
This directory holds TLA+ models of the parts of the server whose correctness
depends on the order in which concurrent requests, calls to the provider and
failures happen, or on algorithms with many cases; the TLC configurations that
check them; and TLAPS proofs of their most important invariants.

The server is stateless between requests. Every request is a Go handler that
calls a service, which runs a sequence of SQL statements and provider calls.
Most services use no transaction: each statement commits by itself, and any
other request may run between two of them. What the program relies on is
conditional updates (`UPDATE ... WHERE status = ...`), unique indexes, and, in
the workflow engine, transactions with row locks. The models are therefore
built in one way throughout: the tables are variables, a request is a program
counter with its local variables, one action is one statement or one provider
call, and the requests interleave freely. The pure algorithms (class
placement, teacher allocation, timetable generation) are state machines too:
one action is one decision, so that an invariant speaks of every stage.

## Inventory

| Component | State it keeps | Operations | Interacts with | What is hard | What makes it correct |
|---|---|---|---|---|---|
| Workflow engine (`modules/workflows/{service,engine,repository}.go`) | `workflow_runs`: state, scope, proposal, snapshot | Propose, Edit, Apply, Discard, Revert | calls a year-end workflow inside its transaction | two requests for one run; two proposals for one scope; a proposal read before the transaction | one open run per scope, writes applied and undone once, no lost edit |
| Account activation (`modules/activation`) | codes, e-mail tokens, settings, `user_id` of students and guardians | Start, Complete, Generate, RevokeBatch, UpdateSettings | provider, `users`, mail, orphan reconciliation | four stores and no transaction; codes replaced, cancelled or expired meanwhile | a code has one claimant, a record one login, a failure leaves nothing |
| Timetables (`modules/timetable`) | `timetables`, entries, history | Create, Copy, Revise, Generate, save, clear, Submit, Approve, Reject, Publish, Archive, delete | teachers, rooms, absences, requirements | every operation acts on a status it read earlier; double booking is a property of two timetables edited by different people | one published timetable, no double booking |
| Timetable generation (`generation.go`, `generation_blocks.go`) | none (a grid in memory) | option blocks, lessons, repair | requirements, availability, bookings | four tables that must agree through placements and repairs | no clash, nothing lost, honest gaps |
| Timetable setup | sections, rooms, settings, requirements, availability | single-statement maintenance | read by timetables | nothing | |
| Year-end workflows (`rollover`, `leavers`, `golive`, `intake`, `promotion`, `choices`, `teacher_allocation`, `timetable_workflow`, `student_import`) | the school's data; a snapshot in the run | Propose, Apply, Revert | run by the engine, beside the administration | reverts out of order; a snapshot that does not say what Apply changed | a revert restores what its run changed and nothing else |
| Class placement (`placement.go`) | none | Place | promotion | capacities, ties, order | even classes, full before new, rules of priority |
| Teacher allocation (`allocation.go`, `teacher_allocation.go`) | assignments | Propose, edit, Apply, Revert | assignments by hand, resignations, timetables | scarce teachers; a proposal that has aged | limits, priorities, faithful revert |
| Credentials (`modules/auth/service.go`) | reset tokens, must-change and kept-default flags | forgot, reset, change, keep default | provider, mail | the token is consumed before the provider is asked; flags read before and written after | an initial password expires; a link works once |
| Leadership (`modules/leadership`, `modules/studentleadership`) | positions, scopes, section heads, teachers in charge | appoint, dismiss, decide access | every page that asks for access | several statements to appoint, several to decide | access follows from a position |
| Student erasure (`people/students.go`, `automation/{data_retention,identity_erasure_retry}.go`) | profiles, `pending_erasures` | Erase, Delete, retention agent, retry agent | provider, `users` | two halves that fail apart; agents beside requests | what is left to clean is recorded and gets cleaned |
| Automation scheduler (`automation/scheduler.go`) | settings, run records, a lock per job | tick, Run now, enable, stop | agents | a tick against Run now; a stop in the middle | a job never overlaps itself; true and short history |
| Attendance (`modules/attendance`) | sessions, records, audit | create, mark, clear, delete | notifications | marks read, then written; a register deleted meanwhile; the lock after a day | every absence told, late changes logged |
| Notifications (`modules/notifications`) | drafts, recipients | compose, edit, send, delete | attendance, assignments | a draft edited while it is sent; recipients one by one | only the checked rules are delivered, once |
| People, academics, school structure, curriculum | teachers, guardians, staff; classes, marks; years, terms; levels | maintenance | year-end workflows | make current; deletions with a look before | one current year and term |
| Setup, audit, search, dashboard, reports, self-service, mail | append-only or none | reads and exports | all | nothing | |
| HTTP middleware | rate-limiter table | authenticate, limit, time out | all | eviction when the table is full; the time-out cancels a service in its middle | |
| Provider client, mailers | none | calls | provider, SMTP | a call that takes effect and still reports a failure: modelled where the calls are used | |
| Web client, deployment | none the server trusts | | | | |

The hazards of the whole program, with the line at which each bites and the
properties that watch it, are listed in `PROJECT.json`.

## Modules

```
abstract              component            instance           proofs
RunLifecycle    <--   WorkflowEngine                          Automation_proofs
                      Activation           MCActivation       Activation_proofs
                      Timetable            MCTimetable        Timetable_proofs
                      SchoolCalendar       MCSchoolCalendar   Planning_proofs
CleanupPromise  <--   Erasure              MCErasure          Erasure_proofs
                      JobScheduler                            Automation_proofs
                      Credentials   \
                      Leadership    /      MCAccess           Access_proofs
                      Placement     \
                      Allocation    /      MCPlanning         Planning_proofs
                      YearEnd              MCYearEnd          Automation_proofs
                      Notifications <--    Attendance         Attendance_proofs
                                           MCAttendance
                      Generation           MCGeneration       Generation_proofs
```

`<--` in the first column is refinement. `Attendance` extends `Notifications`
and calls its actions: the two are checked as one system. `MCAccess` and
`MCPlanning` each check two modules in one instance: a behaviour is one of
either, and the other module's variables stand still.

The comment above each definition names what it translates; `PROJECT.json`
("map") gives the lines.

### WorkflowEngine

`state`, `scope`, `edits` and `written` are the columns of `workflow_runs`;
the proposal is abstracted to the set of its cells that were edited by hand.
`lock` is the row lock Postgres keeps for a run; `pc`, `op`, `target`, `goal`
and `copy` are a request and its local variables. What a workflow writes to the
school's data is abstracted to `applies` and `reverts`, how often the engine
committed those writes and how often it undid them; `acked` holds the edits
whose caller was told they are saved.

| Code | Actions |
|---|---|
| `Engine.Propose` | `BeginPropose`, `DiscardOpen` (the UPDATE that waits for and takes row locks), `InsertRun`, `InsertConflict` (the unique index) |
| `Engine.Edit`, `Apply`, `Discard`, `Revert` | `Begin` (Apply reads the run before its transaction), `LockRun`, `LockRefused` (SELECT ... FOR UPDATE and the state check), then `SaveEdit`, `WriteApply`, `WriteDiscard` or `WriteRevert`, which are the writes and the commit |
| any failure, a closed connection, a stop | `Fail`: the transaction is rolled back |

A transaction's writes become visible in the action that commits it, and a row
it has changed stays locked until then, which is READ COMMITTED as far as these
statements can observe it.

`RunLifecycle` is the abstract specification: the same table with atomic
operations and no requests, locks or transactions. `ImplementsLifecycle` says
that the engine, with the identity as refinement mapping on the four columns,
implements it.

### Activation

`code`, `token`, `login`, `users` and `account` are the activation codes, the
e-mail tokens, the links from records to users, the local users and the
provider's accounts; `enabled` and `window` are the settings. A code is `used`,
`revoked` or `expired`; expiry and the end of a lock are actions of their own.
`faults` counts lost replies, failed undo calls and stops.

| Code | Actions |
|---|---|
| `Service.Start` | `StartMismatch`, `StartMatch`, `RecordFailure`, `ResetFailures`, `EmailInUse`, `CreateEmailToken` |
| `Service.Complete` | `BeginComplete` (all reads), `ConsumeToken`, `ClaimCode` |
| `Service.createLogin` | `CheckEmail`, `CreateAccount`, `CreateAccountFails`, `CreateRow`, `AssignRole`, `LinkRecord`, and the undo calls `UndoAccount`, `UndoRow`, `ReleaseCode` |
| `AdminService.Generate`, `RevokeBatch`, `UpdateSettings` | `BeginGenerate`, `IssueCodes`, `RevokeBatch`, `UpdateSettings` |
| `deleteOrphaned` (reconciliation) | `BeginDeleteOrphan`, `DeleteOrphan` |
| a request that ends early, a server that stops | `Abandon`, `Die` |

Each provider or database call after the claim may succeed, fail without an
effect, or (with `LostReplies`) take effect and report a failure. A lost reply
of the claim itself is `ClaimCode` followed by `Die`.

### Timetable

The tables `timetables` (`status`, `class`, `version`, `parent`) and
`timetable_entries` (`grid`: what each slot of each timetable books). A slot is
a day and period; a resource is a teacher or a room. `touched` (edited after the
last submission had read the entries) is a history variable.

| Code | Actions |
|---|---|
| `submit` | `Begin`, `ReadEntries`, `CheckBookings` (validation), `Submit` |
| `approve`, `reject` | `Begin`, `Approve`, `Reject` |
| `publish` | `BeginPublish`, `ArchivePublished`, `Publish` |
| `archive`, `deleteDraft` | `Archive`, `DeleteDraft` |
| `save`, `clear` | `BeginSave`, `Upsert` (cell by cell), `BeginClear`, `ClearEntry` |
| `create`, `copy`, `revise` | `BeginCreate`, `BeginRevise`, `ReadMax`, `InsertDraft`, `InsertRefused`, `CopyEntries` |
| `generate` | `BeginGenerate`, `ScanClass`, `DropDraft`, `EndScan`, `PlanGrids`, `NextClass`, then `ReadMax`, `InsertDraft` and `Upsert` as above |
| a failing statement or check, a closed connection, a stop | `Fail` |

The checks of validation other than double booking (required hours, absences,
availability, reviewers) are a refusal that may happen at any time, which is
`Fail`. The placement of Generate is any choice of cells that books nothing
twice; how it is computed is `Generation`. `Move` is `updateStatus`: an UPDATE
with the old status in its WHERE clause.

### Generation

`todo` are the blocks and lessons not tried yet, `at` the periods and the room of
each, `busy` the marks of the maps `classBusy`, `teacherBusy` and `classroomBusy`
in one set, `unplaced` and `gaps` the lessons for the repair pass and those that
are reported. `freed`, a history variable, has what was taken in the periods that
repairs have vacated, for in those the code does not look again.

| Code | Actions |
|---|---|
| `placeOptionBlocks` | `Place`, `SkipBlock` for the items without a class |
| `generate`, `placeTask` | `Place` (`Options` are the free periods, `Choices` those on a new day where there are any), `SkipLesson` |
| `repair` | `Repair` (`Movable`, `Swap`, `Moved`), `GiveUp` |

The shuffled order of the periods is any order. `school` is what was read; its
requirements obey the checks of `subject_period_requirement.go`.

### SchoolCalendar

`year` and `term` say which rows of `academic_years` and `terms` exist,
`currentYear` and `currentTerm` which of them have `is_current`; `classes` and
`placed` are the years with a class and with a student in one. `state`, `made`,
`prevYear` and `prevTerm` are the runs of go-live and rollover with their
snapshots. `lock` holds the row locks; the rest are the requests with their local
variables, and `late`, a history variable, has the years that got students after a
revert had found them empty.

| Code | Actions |
|---|---|
| `modules/school`: create and delete years and terms | `CreateYear`, `DeleteYear` (`DropYear`, with the cascade), `CreateTerm`, `DeleteTerm` |
| `setCurrent`, create as current | `SetYear`, `CreateCurrentYear`, `SetTerm`, then the UPDATEs below |
| classes, enrolment | `CreateClass`, `DeleteClass`, `Place`, `Unplace` |
| `GoLive.Apply`, `GoLive.Revert` | `GoLive`, `Snapshot`, `PickTerm`; `RevertGoLive` |
| `WfSetCurrentYear`, `SetCurrentAcademicYear`, the same for terms | `MatchYear`, `UpdateYear`, `MatchTerm`, `UpdateTerm` |
| the commit, with its deferred constraints | `Commit`, `CommitRefused` |
| `YearRollover.Apply`, `Revert` | `ApplyRollover`; `RevertRollover`, `FindUnused`, `DeleteRolledOver` |
| any failure, a closed connection, a stop | `Fail` |

An UPDATE finds its rows when it starts (`MatchYear`). If none of them is locked
it writes at once; otherwise it waits, and then looks again at the rows it had
found, and at no others (`UpdateYear`): this is what Postgres does at READ
COMMITTED, and why two switches can each leave the other's new year current. The
writes of a transaction are known from the rows it has locked, so `YearsAfter`
gives the rows its commit leaves current.

### Erasure

`link`, `row`, `account` and `erased` are the profile's user, the `users` row
(present, scrubbed or deleted), the provider's account and `erased_at`; `listed`,
`localDone` and `idpDone` are the rows and flags of `pending_erasures`. The actors
are the requests and the two agents, each with what it works on (`job`), its
program counter and the list it still has to go through (`todo`). `due` and
`forgotten` are history: whose cleanup was begun, and who lost a record to a stop
or to a second failure.

| Code | Actions |
|---|---|
| `StudentService.Erase`, the retention agent's loop | `Erase`, `RunRetention`, `Take`; then `Anonymise`, `Scrub`, `DeleteAccount`, `Record`, each with its failure (`AnonymiseFails`, `ScrubFails`, `DeleteAccountFails`, `RecordFails`) |
| `IdentityErasureRetryAgent` | `RunRetry`, `Take`, `Scrub`, `DeleteAccount`, `Record` (the merged flags) or `Clear`, `ClearFails`, `EndRun` |
| `StudentService.Delete` | `Delete`, `DeleteProfile`, `DeleteRow`, `DropAccount`, `DeleteFails` |
| linking and updating a student | `Activate`, `Update` |
| the request's deadline, a stop of the server | `Expire`, `Stop` |

`CleanupPromise` is the abstract specification: for each user one word (`kept`,
`due`, `done`, `lost`), and a cleanup that is due is only forgotten when something
failed. `KeepsPromise` computes that word from the detailed state (`Status`).

### JobScheduler

`enabled` is `job_settings`, `records` is `job_runs` by start time, `lock` the
mutex of each job, `starter` the goroutines: cron ticks and Run now, which do
the same once they are past their check.

| Code | Actions |
|---|---|
| `Service.SetEnabled` | `SetEnabled` |
| `runOne`, `RunNow` | `Check` |
| `execute` | `TryLock`, `Refuse`, `StartRun`, `StartRunFails`, `JobEnds`, `UnrecordedEnds` |
| `FinishRun` | `FinishRun`, `FinishRunFails`, `Prune`, `PruneFails` |
| a stop of the server | `Restart` |

A failed statement may have taken effect: its answer was lost.

### Credentials

`must` and `kept` are the two flags of `users`, `young` says that the account is
not a week old, `initial` that the provider still has the initial password;
`token` is `password_reset_tokens`.

| Code | Actions |
|---|---|
| `ForgotPassword` | `ForgotPassword`, `EmailLink` |
| `ResetPassword`, `ChangePassword` | `ResetPassword` (consumes the token), `ChangePassword`, then `CheckPassword`, `UpdatePassword`, `UpdatePasswordFails`, `PasswordChanged`, `ClearFails` (`setPassword`) |
| `KeepDefaultPassword` | `KeepDefaultPassword` (the read), `KeepRecorded` (the write) |
| time, a stop | `WeekPasses`, `TokenExpires`, `Restart` |

`MustChangePassword` is what `/me` answers.

### Leadership

`position`, `scopes`, `heads`, `teaches` and `charge` are the tables. A call of
several statements is a record of what it asked for and what it has read; others
are one action. `seen` is history: the grounds a teacher had at some moment, and at
all moments, of a call.

| Code | Actions |
|---|---|
| `AssignPrincipal` | `BeginPrincipal`, `Swap`, `Demote` |
| `AssignVicePrincipal` | `BeginVice`, `Appoint`, `ClearScopes`, `GrantScope` (one grade each) |
| `CanAccessClass`: `TeacherClassAccess`, `RankForTeacher`, `LeadershipScope` | `BeginAccess`, `ReadAssigned`, `ReadPrincipal`, `ReadPosition`, `ReadScopes`, `ReadHeads`, `ReadHeaded` |
| `AssignSocietyMember`, `RemoveSocietyMember` | `BeginRoster`, `Authorize`, `WriteRoster` |
| `DeletePosition`, `AssignSectionHead`, `DeleteSectionHead`, `UpdateSociety`, `DeleteSociety`, the teachers of a class | `DeletePosition`, `SetHead`, `SetCharge`, `Reassign` |
| a failing statement | `LeadershipFails` |

### Placement

The students in the order in which they are placed, the classes in the order of
their names, and the decisions so far. One action decides one student, as an
iteration of the loop of `Place`: `LeaveUnplaced`, `Seat` or `OpenSection`. The
order (`OrderStudents`) is any that the rule allows, because it depends on a hash
or on marks. `Chosen` is the choice under each policy: `KeepSection`, `Snake`,
`LeastLoaded`, `WithMostSameChoice`. What a student's record does not say, the gender
for instance, is `Unset`: the code counts the two recorded genders only, so that no
class can be said to be even when somebody's is missing.

### Allocation

A post is a subject of a class or its form teacher; `holder` has who holds it,
`offer` the proposal, `history` the applied runs with their snapshots. The weekly hours
of a set of posts are the number of its periods.

| Code | Actions |
|---|---|
| `Propose`: the reads, `allocateTeachers`, the form teachers | `Propose`, then one action per post: `Continue` (last year's teacher), `Choose`, `LeaveEmpty`; `SuggestForm` |
| `Edit` | `Edit` |
| `Apply` | `BeginApply` (what it reads), `FinishApply` (what it writes, and the snapshot) |
| `Revert` | `RevertLook`, `RevertWrite` |
| others | `Assign`, `Resign`, `SubmitOrReturn` |

### YearEnd

The rows of the next year and of the students: `year`, `class`, `status`, `home`
(a class now), `seat` (a class next year), `waiting` (an intake), and what makes a
row one that is in use: `account`, `recorded`, `marked`, `register`. A run keeps
its proposal and snapshot. `late` (whose data was added after a look-up), `handled`
(who lost a seat to others) and `did` are history: `did` has, for each applied run,
the rows of the students it changed as they were before its apply and after it.

| Code | Actions |
|---|---|
| `Propose`, `Discard` of rollover, leavers, intake, import, promotion | `Propose` (`Lists`, `NewRows`), `Discard` |
| their `Apply` | `ApplyRollover`, `ApplyLeavers`, `ApplyIntake`, `ApplyImport`, `ApplyPromotion` |
| their `Revert` | `CheckRevert` (the look-ups of what is in use, `InUse`), then `RevertRollover`, `RevertLeavers`, `RevertCreation`, `RevertPromotion`, or `RevertFails` |
| administration: enrol and take out, promote a class, change a status, delete a student, create and delete a class, accounts, marks, attendance | `ByHand`, of which the deletion of a class is two steps, `CountClass` and `DeleteClass` |

An apply is one step, since the engine runs it in a transaction whose writes
others see at once; a revert is two, because what it deletes was looked up before
others' writes could fall in between.

### Notifications and Attendance

`note`, `box` and `reach` are `notifications`, `notification_recipients` and what
each teacher may address now; `register` and `record` are `attendance_sessions`
and `attendance_records`. `call` and `mark` are what a request does in each module.

| Code | Actions |
|---|---|
| `Create`, `UpdateDraft`, `SendDraft`, `DeleteDraft` | `Compose`, `Save`; `UpdateDraft`, `Update`; `SendDraft`, `Recipients`, `MarkSent`, `MarkSentTooLate`; `DeleteDraft`, `Delete` |
| `SendDirect`, `materializeRecipients` | `SendDirect`, `Insert`, `AddRecipient` (one user each), `Delivered`, `Fail` |
| assignments of teachers | `Reassign` |
| registers: create, delete | `CreateSession`, `InsertSession`, `InsertSessionRefused`, `DeleteSession`, `DropSession` |
| `MarkAttendance` | `MarkAttendance`, `Load`, `WriteBatch` (one transaction), then per student `HandleEntry`, `Notify` (a call of `SendDirect`), `NotifyReturns`, `NotifyFails`, `LogCleared`, and `Answer` |
| 24 hours, a stop | `LockWindowPasses`, `Stop`, `Interrupted` |

## What the runs check

Each run explores all reachable states of its instance.

| Run | Instance | Shows |
|---|---|---|
| `workflow_engine` | 2 runs, 2 scopes, 2 cells, 2 requests | `RunsConsistent` (`OneOpenPerScope`, `WritesMatchState`), `NoLostEdit`, `ImplementsLifecycle`, and under fairness `EveryRequestEnds` |
| `activation` | 1 student, 2 codes, 2 batches, 2 links, 2 provider identities, 2 people, 1 admin, one expiry, no faults | `CodesConsistent` (`OneLiveCode`, `ExclusiveClaim`), `NothingLeftBehind`, `ClaimResolved` |
| `activation_logins` | 1 guardian, 2 addresses, 2 codes, 2 batches, 2 links, 2 provider identities, 2 people, 1 admin, up to 2 faults with lost replies, no expiry | `LinkedLogin`, `LoginKept` |
| `timetable` | 2 timetables, 2 classes, 1 slot, 1 resource, 2 requests, versions up to 2 | `VersionsConsistent` (`OnePublished`, `VersionsDistinct`, `RevisionFollowsParent`), `NoDoubleBooking`, `StatusOrder` |
| `calendar` | 2 years with 1 term each, 1 go-live, 1 rollover, 2 requests | `CalendarConsistent` (`OneCurrent`, `NothingDangling`), `GoLivesHold` (`GoLiveSwitches`, `GoLiveUndone`), `RecordedStays` |
| `erasure` | 1 student with a user, 2 requests, both agents, 1 fault of any kind | `CleanupRecorded` (`NothingForgotten`, `FlagsTruthful`), `KeepsPromise`, and under fairness `RecordedIsCleaned` |
| `job_scheduler` | 2 jobs, 2 goroutines, 1 run kept, 4 runs, 2 faults | `HistoryConsistent` (`OneAtATime`, `HistoryTrue`, `HistoryBounded`), and under fairness `EveryRunEnds` |
| `access` | 2 users, 2 tokens, 2 requests, 1 fault; or 2 teachers, 2 grades, 1 society, 3 positions, 2 calls, 2 changes | `LinksConsistent` (`OneChangePerLink`), `DefaultsHandled` (`DefaultExpires`, `ChangedIsNotAsked`); `AppointmentsKept` (`OneOfEach`, `GivesWhatWasAsked`), `AccessHasGround` |
| `planning` | families of inputs: grades of up to 6 students and 3 classes, one family per rule and one with unrecorded genders; schools of 3 teachers, 3 classes, 2 subjects, two runs or changes | `SectionsWhenFull` (`CapacityKept`, `NoIdleSection`), `BalancedClasses` (`EvenClasses`, `SpreadEvenly`), `RulesKept` (`AdmissionsWait`, `StreamKept`, `ChoiceTogether`, `MediumFlagged`); `AllocationSound` (`LimitKept`, `ScarceFirst`, `ContinuityFirst`, `EvenLoads`, `FormTeacherOnce`), `AllocationReverts` |
| `year_end` | 3 students (two of them with one index number), 2 classes, 3 runs, 1 change by hand | `SeatsConsistent` (`AdmittedNotLost`), `LaterWorkStays` (`InUseStays`, `NobodyUnseated`), `RevertRestores` |
| `attendance` | 1 class, 1 student, 1 register, 1 notification, a teacher, an admin and a guardian, 2 requests, 1 fault | `RegistersConsistent` (`NoOrphanMarks`, `LockedChangesLogged`), `AbsencesTold`, `NoticesConsistent` (`NobodyUnauthorised`, `AckedIsDelivered`, `OneSender`), `SentIsFinal` |
| `generation` | 2 classes and one of another section, 2 days of 4 rows, families of crowded, optional and practical schools | `GridConsistent` (`NoClash`, `BusyIsTaken`, `AwayRespected`, `Accounted`), `LessonsFit` (`WellPlaced`, `LabHours`), `GapsAreReal`, `NoLessonLost` |

A property that is a conjunction has its parts in parentheses; each conjunction
also has the type invariant of its module.

Why these are enough to be interesting: nearly every hazard the properties are
about is a race of two requests for one row, or of one request with an agent or
an admin. In `workflow_engine` two runs are enough for a scope with an old and a
new proposal, two scopes for requests that take different locks. In `activation`
two codes and two links give the races for one code through two links and for
one record through two codes; a student is the harder case for the duplicate
check at the provider, a guardian (`activation_logins`) may give either of two
addresses. In `timetable` one slot and one resource suffice for a clash, because
clashes of different cells are independent. In `calendar` two years are enough
for two switches that miss each other and for a revert to a year that is being
deleted. In `erasure` two requests and two agents all work on the one user; users
do not interact. In `job_scheduler` the two goroutines compete for one job or run
two, and a third run makes the pruning bite. In `access` the second change may
undo, overlap or follow the first. In `planning` each family makes one rule
decide: capacities with and without slack, mediums with and without a class of
their own, and so on. In `year_end` three runs give an apply, a later apply and a
revert of the first, so that `RevertRestores` meets rows that another run or a hand
has changed since and classes in which others sit by now; two of the students are
not there at first and are alike, which the symmetry uses. In `generation` the crowded family needs repairs that free
periods and fail. Theorems show the safety
properties of all runs for every size.

Constraints: `OneExpiry` lets at most one code or link run out; `Calm` of
activation lets none run out, locks no code and keeps the settings window open;
`Calm` of the calendar lets at most one row be deleted and one year have students.
Views leave out what no later step and no property reads: the snapshot of a run
that is not applied (calendar), and a call that has ended, except for what it
appointed and whether it satisfied its property (access). Four runs do not check
deadlock, because the system may stop: in `calendar`, `year_end` and `erasure` ids
are used once, in `planning` the algorithms return. Symmetry is used for state and
step properties only, never with liveness.

### Fairness

Safety needs none. `EveryRequestEnds` assumes that a request which was received
is executed: weak fairness of `Insert` and `Write`, which never wait, and strong
fairness of `DiscardOpen` and `Take`, which wait for row locks. A handler runs
until it returns, and Postgres grants a contended row lock to its waiters in
turn, so a lock that is wanted and free again and again is obtained. `Fail`
gets no fairness: a request must end without it.

`EveryRunEnds` assumes weak fairness of each step of `execute`: `runTimeout`
bounds a job and `finishRunTimeout` its bookkeeping. `RecordedIsCleaned` assumes
that the hourly agent is started and works through its list (weak fairness of
`RunRetry` and of the agent's steps), and that the provider does not refuse one
account for ever (strong fairness of the agent's successful `DeleteAccount`);
requests and the retention agent get none. Nobody is assumed to send requests.

### Disagreements met while modelling

What the code does and the repository's words say otherwise. All are visible in
the actions; the properties name them as exceptions where they would be false.

Activation:
- A code that is claimed while it is cancelled or replaced is not revoked; when
  that activation fails, the release makes it usable again
  (`db/queries/activation.sql:133`; `src/docs/adr/0008-self-service-account-activation.md:23`).
- When the record got another live code meanwhile, the unique index refuses the
  release and the first code stays used (`activation/service.go:215`; the same ADR, line 38).
- A Start that matched before others locked the code resets their failures
  afterwards (`ResetFailures`), so a lock may end before the hour of line 35.
- An orphaned account is looked up, activation inserts its user, the account is
  deleted (`identity/reconciliation.go:71`, against the comment at line 12).

Timetables:
- A save that saw a draft writes its cells after the submission, even after the
  publication (`entries.go:69`, against its check at line 16).
- Of two overlapping publications of one timetable, the second one's archive hits
  what the first has published, and its own publication finds no approved row
  (`workflow.go:175`; `src/docs/SETUP.md:235`).
- A revision is compared with the published timetable it revises and refused as
  double booked (`timetable_entries.sql:56`; `src/docs/SETUP.md:239`).
- A rejected timetable gets the status `rejected`, from which neither a save nor
  a submission accepts it, although `src/docs/SETUP.md:233` says that it goes back
  to draft (`Reject`).
- `Archive` and `ArchivePublished` write no status history, although
  `src/docs/FEATURES.md:440` says that every transition is recorded.
- Generate looks at the latest version of a class only (`ScanClass`), so it clears
  the draft revision of a class that has a published timetable, which
  `src/docs/FEATURES.md:394` says it leaves alone.
- Generation does not sort lessons by how constrained they are
  (`src/docs/FEATURES.md:403`), tries only the first free laboratory for a double
  period, never repairs into a period that an earlier repair freed, and reports
  the subjects of a block it could not complete and places them as ordinary
  lessons all the same.

Year-end workflows:
- The current year can be deleted when it has no classes, also after the rollover
  that made it is reverted (`school.sql:63`, `rollover.go:260`;
  `src/docs/adr/0003-single-current-academic-year.md:17`).
- `FindUnused` and `DeleteRolledOver` are two statements, and the second deletes
  the enrolments of whoever was placed in between (`RecordedStays`).
- Go-lives may be reverted in any order, each going back to its own snapshot.
- A rollover may be reverted after students were taken in for its year, because
  `WfYearHasActivity` does not look at `student_intakes`
  (`src/docs/FEATURES.md:303`).
- Accounts, marks and seats that are added between the look-up of an intake's or
  import's revert, or the count of `DeleteClass`, and the deletion go with it (`late`;
  `intake.go:451`, `academics/classes.go:123`).
- A revert of a promotion or allocation that is not the last one, or that follows
  changes by hand, gives back the values of its snapshot over them, so
  `RevertRestores` is about the values nobody has changed; a previous
  class or student that was deleted since makes a promotion impossible to revert.
- The snapshot of the leavers lists every ticked student, also those who had
  left already (`leavers.go:134`), so the revert brings them back.
- A proposal of a promotion or allocation may be old when it is applied: it then
  overwrites what was assigned by hand, and may name teachers who have left.
- With `spreadByMarks` the policy `keep_section` is not looked at
  (`placement.go:114` comes before line 124, against the comment at line 125); the
  snake counts ranks over the whole grade, so with several mediums it is not even;
  a grade without classes gets a section named with a blank and a 2; placing one
  student at a time may split a combination that would have fitted.

People, access and automation:
- When the deadline of the request is what made `Erase` fail, the record fails with
  it and is only logged (`students.go:255`, against the comment at line 245); a
  user row that was deleted leaves a record that never completes; a code issued
  before an erasure still activates the erased profile; an update is not refused.
- `KeepDefaultPassword` looks first and writes later: a password changed in
  between is marked as a kept default (`auth/service.go:184-190`).
- A run whose server stops keeps the state `running` for ever (`orphaned`;
  `scheduler.go:120`).
- `Scheduler.Stop` says that it drains any run in flight, which is true of those
  cron started.
- `AssignVicePrincipal` of the Principal gives one teacher both positions, which
  the comment of `GetTeacherPosition` (`teacher_positions.sql`) says the index
  prevents; the query then returns either. A promotion between `isPrincipal` and
  `getPositionForTeacher` may turn away a teacher who is a Vice Principal and then
  Principal (`Hidden`).
- Two overlapping `AssignVicePrincipal` of one teacher leave the union of their
  scopes; while one runs, the teacher is for a moment without any.
- The row of the Principal keeps its id when it changes hands, so `DeletePosition`
  of the old one may remove the new one.
- A Vice Principal who also heads a grade outside his scope is not let in as its
  head (`src/docs/FEATURES.md:66-72` lists the two side by side).
- A teacher in charge who is replaced between `authorizeTeacherInCharge` and the
  write still changes the roster once.
- Two overlapping `MarkAttendance` notify twice or miss an audit entry; a note whose
  delivery stopped half-way cannot be sent again; the stored rules of a note may be
  those of a later edit than the delivered ones.

## What is proved

The theorems hold for every value of the constants, under the assumptions named in
the modules (`...Assumption` next to the constants): the bounds are natural
numbers, `None`, `Nobody`, `Nowhere` and `Unset` are nobody, nowhere and nothing, a
year is no term, and so on. Each is shown from an inductive invariant: that the
initial states have it, that every action keeps it, and that it implies the property. None of the properties is
inductive by itself, because a request writes what it learned some statements ago;
what it may still rely on is what the invariants add.

| Module | Theorems | Properties of the runs |
|---|---|---|
| `Automation_proofs` | `RunsStayConsistent`, `EditsKept`, `EngineImplementsLifecycle` | `RunsConsistent`, `NoLostEdit`, `ImplementsLifecycle` |
| | `HistoryStaysConsistent` | `HistoryConsistent` |
| | `SeatsStayConsistent`, `LaterWorkIsKept`, `RevertsRestore` | `SeatsConsistent`, `LaterWorkStays`, `RevertRestores` |
| `Activation_proofs` | `CodesStayConsistent`, `LinksAreProved`, `NothingIsLeft`, `ClaimsResolve`, `LoginsStay` | `CodesConsistent`, `LinkedLogin`, `NothingLeftBehind`, `ClaimResolved`, `LoginKept` |
| `Timetable_proofs` | `VersionsStayConsistent`, `BookingsApart`, `StatusesInOrder` | `VersionsConsistent`, `NoDoubleBooking`, `StatusOrder` |
| `Planning_proofs` | `CalendarStaysConsistent`, `GoLivesKeepTheirWord`, `PlacedYearsStay` | `CalendarConsistent`, `GoLivesHold`, `RecordedStays` |
| | `SectionsOpenWhenFull`, `ClassesStayBalanced`, `RulesStayKept` | `SectionsWhenFull`, `BalancedClasses`, `RulesKept` |
| | `ProposalsAreSound`, `AllocationsRevert` | `AllocationSound`, `AllocationReverts` |
| `Erasure_proofs` | `CleanupStaysRecorded`, `ErasureKeepsPromise` | `CleanupRecorded`, `KeepsPromise` |
| `Access_proofs` | `AppointmentsStayKept`, `AccessIsGrounded`, `LinksWorkOnce`, `DefaultsStayHandled` | `AppointmentsKept`, `AccessHasGround`, `LinksConsistent`, `DefaultsHandled` |
| `Attendance_proofs` | `NoticesStayConsistent`, `SentForGood`, `AttendanceIsACaller`, `RegistersStayConsistent`, `GuardiansAreTold` | `NoticesConsistent`, `SentIsFinal`, `RegistersConsistent`, `AbsencesTold` |
| `Generation_proofs` | `GridStaysConsistent`, `RepairLosesNothing`, `LessonsAlwaysFit`, `GapsStayReal` | `GridConsistent`, `NoLessonLost`, `LessonsFit`, `GapsAreReal` |

`Automation_proofs`, of `WorkflowEngine`: `LockInv` says that a request about to write holds the
lock of its run and no other, finds the run in the state its operation needs and
has a current copy of its proposal; a request about to insert holds locks of open
runs of its scope only; all others hold none. The refinement of `RunLifecycle`
follows from the same invariant, action by action.

`Activation_proofs`: with any number of lost replies, failed undo calls and stops.
A request past its reads knows an issued code, and only issued codes are used, so
that neither Generate nor a release can give a claimed code to somebody else. On
top of that `LoginsOK` follows the identities: a link carries the code and the
address of the Start that sent it (`TokensSent`), a request past its link works with
an address proved for its record (`Addressed`), and what a request has made is its
own, in the state of its step and not linked yet (`OwnershipOK`). So an undo finds
nothing of another request, and each step out of a claim leaves a login, a released
code or another code of the record behind. Every step is calm or one of the six that
create, link or undo (`CalmOrBuilds`), and each of the six is dealt with in a lemma
of its own.

`Timetable_proofs`: the unique indexes keep versions apart and one timetable
published. `RevisionsUnderWay` says that a revision between its read and its insert
points at a timetable of its class that is published or archived and (once the
version is chosen) older. `BookingsApart` needs two more facts: what a submission
has read is what the timetable books unless it was edited since (`ReadsFresh`); and
no two timetables that have passed the check clash, where a draft counts from the
moment its request passed (`PassedApart`). That drafts count as bookings in
`crossBookings` makes the second inductive: the later of two checks sees the other
draft. The proof says first what a step does to the rows (`RowEffects`), to the
entries (`Effects`) and to the request (`StepOf`), and deals with these few kinds.

`Planning_proofs`, of `SchoolCalendar`: the deferred constraints leave one current year; the rest
depends on the locks. `Switch` says that a request past its UPDATE holds the row of
the year it wants, as long as there is such a row, and while it waits is waiting for
it; that the request which reverts a go-live finds the run applied and wants the
year of its snapshot; and that a year about to be deleted had no students when the
request looked. `LocksLive` says that a row somebody holds exists, `RunsApart` that
a run has one request. With these the commit of a switch leaves its year current
(`CommitSwitches`).

`Planning_proofs`, of `Placement`: for any number of students and classes. Under every
rule somebody is chosen as long as a class that suits the student has room
(`NoneChosen`), since each rule takes the first of a strict order and a finite set has
a first (`MinimalExists`; the shares of two classes are compared by cross
multiplication, `SharesCompare`). So a section is added only when all of them are full,
and it never stays empty (`NewHasMember`). That no newcomer
keeps a returning student out of the old section (`AdmissionsWait`) rests on the order
(`ReturningFirst`) and on `CameTooLate`: the classes of a section somebody missed are
full of other returning students, and stay so. `GroupLeads` says that the class the last
member of a group joined, while it has room, has most of the group's choice, so that
the next member joins it as well. Even classes follow from what is chosen
(`ChoosesLeast`): nobody joins a class that has more, and with two genders, all
recorded, more boys and more students make fewer girls. `SpreadInTurn` says that the
student of rank `r` is in the class whose turn it is, and counts what every class has
got by then; that the turns of a round differ and mirror those of the round before is
arithmetic (`TurnsDiffer`, `TurnsMirror`), from the uniqueness of quotients.

`Planning_proofs`, of `Allocation`: the hours of a teacher are the cardinality of a set
of periods, so that one post adds its own hours (`HoursAdd`) without an induction over
the posts. While a proposal is made,
what is still to be decided has nobody (`Undecided`), what was decided is last year's
or came no later in the order of scarcity (`InOrder`), and form teachers come last
(`FormsLast`); each decision is the best there was (`DecisionCases`), and the earlier
ones stay as good because loads only grow. For reverts `RunTrue` says of every applied
run and every post others have not written since: it is as the run found it, or it was
touched by the run and the snapshot has it so. `HadFresh` says of an apply that what it
has read of such posts is still true, `LookedAt` that a revert was let through.

`Erasure_proofs`: `Remembered` follows what is due to be cleaned from the
anonymisation to the record: it is clean, recorded, in the hands of a request that
will record it, or lost to a stop or second failure. `FlagsAreTrue` says that no
record claims a half that was not done, which a record merged with a concurrent one
could. The refinement of `CleanupPromise` rests on both.

`Automation_proofs`, of `JobScheduler`: `LockTrue` identifies the holder of a lock with
the goroutine that executes the job, `StampsApart` makes a start time name one run, and `ShortOf`
counts a job's records: the run under way and every fault may add one to those that
are kept. That `PruneJobRuns` leaves at most `Keep` rows is a lemma about finite
sets of numbers (`NewestAreFew`): no two of its members have the same number of
greater ones.

`Automation_proofs`, of `YearEnd`: `TablesSound` and `RunsSound` say that the tables refer
to rows that are there, and that a run writes to rows it knows. `AdmittedKept`
follows an admitted student through a promotion and its revert: a student on the
open proposal's list still waits (the second promotion finds the first's proposal,
so no other can have placed them), and whoever an applied promotion gave a class is
either among those its revert makes wait again or had a class before. `NewIsLate`
is about the gap between the look-ups of a revert and its deletes: what the check
saw unused is unused or was added since. `DidTrue` ties the snapshot of every run
that can be reverted to the rows it found: whom an intake created was not there,
leavers were active, and the seats a promotion noted are those its students had, none
of them in a class it created. So whatever happened in between, `RestoreStep` shows for each
kind of revert that it writes the earlier value back over the run's own, touches no
other student, and finds a created class empty exactly if only its students sit in it.

`Access_proofs`, of `Leadership`: whatever a step is, it does one of five things to
the rows of positions and scopes (`RowsChange`), and each keeps the constraints of
the schema, which the tables are assumed to satisfy to begin with (`TablesAreSound`).
`Given` follows an appointment through its statements: as long as nobody else changes
it, its row stays with its teacher, because a row that changed hands would change
what the teacher has been given. An access is decided by up to four reads while
appointments change. `UpToDate` says that the grounds of this moment are part of what
was seen of the call; `Knows` what each read has ruled out for the whole of the call.
The delicate read is that of the scopes, by the id of a row read before: the row may
be gone, but then its teacher was without a scope at that moment, and it is never
given to anybody else (`RowReadLater`).

`Access_proofs`, of `Credentials`: `LinksOnce` says that the one request which
presents a link has consumed it and that it has changed nothing yet. `FlagsTrue` says
that only a request whose password the provider has may clear the flags, and that
nobody who was told of a new password has a request about to keep the old one, unless
that request was seen to overlap.

`Attendance_proofs`: the invariant is proved of `Notifications` with any callers
(`NotificationsKeepInvariant`), and `AttendanceIsACaller` shows that attendance is
one; so the theorems hold of the composition. `OnlyTheChecked` says that a request
delivers only rules it has checked, `SentMeansDelivered` that a note is marked as
sent after its last recipient, `DeliveredOnce` that one request delivers a note.
The registers rest on `Faithful`, which says of every request: until its batch is
written, and unless another request wrote to the register, it has the records that
are there; after that, the students it made absent are those it has told and those it
is due to tell, and the locked changes are those audited and those still to audit.
That a note SendDirect returned has been sent comes from `Notifications`
(`ReturnedAcked`).

`Generation_proofs`: for any school, any order of the lessons and any shuffled
order of the periods. `BusyIsExact` says that the marks are the cells of what is
placed, so that looking at the marks is looking at the grid; `NeverTwoPlaces` and
`NobodyAway` follow, also through repairs, which move one lesson and place another
in one action. `NothingForgotten` keeps the account of the lessons. An item that has
a place has an option (`PlaceIsAnOption`; the first free lab exists because a set of
numbers has a smallest member, which the proof takes from the well-founded inclusion
of finite sets), so what was skipped fitted nowhere then, and what is taken
together with what repairs have vacated (`EverTaken`) only grows (`TakenGrows`). `AllSuit` says that what is placed is where such a lesson can be, and
`PiecesInLabs` counts the lab periods of a requirement for every combination of
periods, doubles and labs the upsert lets through.

Only model-checked are the liveness properties `EveryRequestEnds`, `EveryRunEnds` and
`RecordedIsCleaned`: they hold under fairness, and the proof system does not reason
about `ENABLED`. Every safety property of a run, invariant or step property, is a
theorem; what the runs add there is that the cases of the proofs do occur, and that
each property fails for a plausible error in the code it is about.

## What is abstracted, and what that leaves open

- Workflow runs: the content of proposals, snapshots and the workflows' own writes;
  the engine's promise is about when they happen. What they are is in `YearEnd`,
  `SchoolCalendar` and `Allocation`, where an apply is one step.
- Activation: names, dates of birth and index numbers (a match or a mismatch);
  mail; codes are identities, so their hashing and reprinting are left out. A code
  locks after `MaxFailures` misses, five in the code, one in the runs.
- Timetables: resources have one kind, and a cell holds one of them. Generate as a
  year-end workflow runs the same code inside the engine's transaction.
- Year end: what makes a year one with activity is a register or a seat of it;
  timetables and subject choices are left out, so that more reverts go through than
  in the code. Which rows of a list are ticked is any choice.
- Allocation: an apply reads and writes the form teachers in one step; a post that
  others have written since is no concern of the properties.
- Generation: subjects, sections and rooms are identities; the order of lessons is
  any, as the shuffle makes it.
- Calendar: an UPDATE takes all its rows at once, so the deadlocks of two UPDATEs,
  which Postgres ends by failing one of them, are `Fail`. The three reads of a
  go-live's snapshot and target are one.
- Erasure: the fields of a profile and of a user row are scrubbed or not; how old a
  record has to be for the retention agent is left out.
- Credentials: of a password only whether it is still the initial one; the hour of a
  link is `TokenExpires`, the week of a kept password `WeekPasses`.
- Leadership: a society stands for societies and sports, and for their teachers in
  charge; prefects, rosters and the leaders of streams change one row at a time.
- Placement and allocation: marks and hashes are any order the rule admits.
- Notifications: rules are sets of users, whose members do not change, so that when a
  rule is resolved makes no difference; titles and texts are left out.
- Every identity is used once: a row that was deleted may be created again only as
  a fresh row.
- Postgres: READ COMMITTED with row locks and unique indexes. The wait of an insert
  for a conflicting uncommitted insert is the case where the first commits.

## Not modelled

- Timetable setup, curriculum, the maintenance of teachers, guardians and staff, the
  marks of terms, school setup, the attendance of staff, the audit log: single
  statements after a check of the input, whose order nothing depends on. Where a
  modelled component reads what they write, its model changes it by an action of its
  own (`Reassign`, `Resign`, `ByHand`, `Unplace`).
- Search, dashboard, reports, self-service, mail: reads and exports.
- Subject choices (`choices.go`) and the workflow that generates timetables
  (`timetable_workflow.go`): an apply writes what its proposal lists and a revert
  gives back its snapshot, as for promotion, and the latter runs `Generate`.
- Middleware: the rate limiter keeps a table per process with a fixed size; that a
  request may be cut off by the time-out is modelled wherever a service runs several
  statements. The client of the provider and the mailers are modelled from their
  callers.
- The web client and the deployment, which the server does not trust.

A large part of the repository is generated or declarative (`backend/docs/docs.go`,
`backend/db/sqlc`, route tables, request and response types): it has no control of
its own, and the queries it wraps are modelled where they are called, so the share
of the lines that the map names stays small.

## Plan

Done: the engine with its abstract specification, activation, timetables and their
generation, the calendar, the year-end workflows, placement and allocation, erasure
with its abstract specification, the scheduler, credentials, leadership,
attendance composed with notifications. Next, in this order:

1. Models: subject choices as a further kind of run of `YearEnd`; the rate limiter at
   its full table; prefects and rosters beside `Leadership`.
2. Refinements: an abstract specification of activation (a record gets one login
   through a proved address) with `Activation` as its implementation, and the
   composition of `YearEnd` with `WorkflowEngine` in the place of its atomic applies.

## Running

```
cd tla
tlc -workers 2 -config WorkflowEngine.cfg WorkflowEngine
tlc -workers 2 -config MCActivation.cfg MCActivation
tlc -workers 2 -config MCActivationLogins.cfg MCActivation
tlc -workers 2 -config MCTimetable.cfg MCTimetable
tlc -workers 2 -config MCSchoolCalendar.cfg MCSchoolCalendar
tlc -workers 2 -config MCErasure.cfg MCErasure
tlc -workers 2 -config JobScheduler.cfg JobScheduler
tlc -workers 2 -config MCAccess.cfg MCAccess
tlc -workers 2 -config MCPlanning.cfg MCPlanning
tlc -workers 2 -config MCYearEnd.cfg MCYearEnd
tlc -workers 2 -config MCAttendance.cfg MCAttendance
tlc -workers 2 -config MCGeneration.cfg MCGeneration
for m in Automation Activation Timetable Planning Erasure Access \
         Attendance Generation
do tlapm ${m}_proofs.tla; done
```
