# HR CertFlow: specifications, model checking and proofs

HR CertFlow turns scans of employee certificates into a ledger and follows up
the records that expire. HR uploads a scan, a Celery worker has it read by a
Dify workflow, HR reviews the extraction, the approval registers certificates
in the ledger, and a daily job marks records as expiring or expired, opens
reminder cases and notifies HR until the case is answered.

This directory holds TLA+ models of that program, the TLC configurations that
check them, and TLAPS proofs. Paths below are relative to the repository;
`backend/app` is the FastAPI and Celery application.

## 1. The system

### 1.1 Components, their state and their operations

| Component | State | Operations that change it | Modelled in |
|---|---|---|---|
| Upload and recognition: `api/routes/documents.py`, `services/recognition_service.py`, `tasks/documents.py` | `certificate_document` (status, sha256, updated_at), `ai_extraction_result`, the queue of recognition messages | upload intent, confirm upload, dispatch, the task (claim, extract, close and open reviews, fail, retry), the sweep of stale recognitions | `DocumentPipeline` |
| Review decisions: `api/routes/reviews.py`, `services/review_service.py` | `review_task` (status, updated_at as version, decision) | approve, reject, ask for information | `DocumentPipeline`, `ReviewDesk` |
| Certificate ledger: `services/certificates.py`, `api/routes/certificates.py` | `employee_certificate` (status, valid_to, replaced_by) | register, edit, replace, refresh of the statuses | `CertificateLedger` |
| Reminder cases: `services/reminder_service.py`, `api/routes/reminders.py`, `tasks/reminders.py` | `reminder_task` (status, due_date), `reminder_event` | scan, dispatch (by the scan and by hand), feedback, closing | `ReminderCases` |
| Employee directory: `api/routes/employees.py` | `employee` | create, edit, CSV import; leaving closes cases | `MasterData`; leaving and returning also in `ReminderCases` |
| Certificate types and policies: `api/routes/certificate_types.py`, policies in `api/routes/reminders.py` | `certificate_type`, `reminder_policy` | create, edit, CSV import, default policy | `MasterData`; constants of `ReminderCases` |
| Dify client: `services/dify.py` | none | one HTTP call, normalisation of its answer | its outcomes, in `DocumentPipeline` |
| Notification channels: `services/notifications.py` | none | send on email, WeCom | outcomes per channel, in `ReminderCases` |
| Object storage: `services/storage.py` | objects in S3 | presign, head, hash, snapshot | outcomes, in `DocumentPipeline` |
| Schedule: `celery_app.py` | none | beat entries for the scan and the sweep | the fairness conditions |
| Audit log: `services/audit.py` | append-only rows | written with each change | not modelled |
| Dashboard, reports, trace and list routes | none | reads | `HrConsole` |
| Evidence script: `scripts/collect_hr_scenario_evidence.py` | the answers it remembers | a walk of GET requests | `ScenarioEvidence` |
| API process: `main.py`, the liveness probe of the Helm chart | one event loop, a thread per request | - | the scheduling of `MasterData` |
| Operator identity: `api/deps.py`, `core/config.py` | none | headers, trusted networks | not modelled |
| Front end: `frontend/src` | page state: what the last answers contained | pages call the API | the filters in links, in `HrConsole` |
| Smoke tools, migrations, Helm charts, workflows, scripts | - | deployment | not modelled |

`PROJECT.json` lists every component with its status and the reason.

### 1.2 How they interact

All state is in PostgreSQL at READ COMMITTED; the API process, the worker
slots and the beat share nothing else but the message queue. A handler is a
transaction of several steps with calls to other services in between:

* it reads rows, mostly **without a lock**, and checks them;
* it calls the object storage, Dify, the broker or a notification channel;
* its flush writes a column only where the Python object differs from the
  snapshot it was loaded with (SQLAlchemy), and does not look at the row again;
* `get_db` rolls back when the handler raises.

Explicit locks exist in few places: the review row during a decision
(`FOR UPDATE`), the live records of an employee and type during a registration,
the open cases when they are closed, dispatched or answered, and
`FOR UPDATE SKIP LOCKED` in the sweep and the refresh. Partial unique indexes
guard one current record per employee and type, one open case per record, one
case per record and date, and one successful notice per case, stage, channel
and day. Chains of effects cross the components: an approval changes a review,
its document and the ledger; a change of the ledger or of an employee closes
cases; the daily scan refreshes the ledger, opens, closes and moves cases and
sends their notices in **one** transaction.

### 1.3 What is hard

* Interleavings of requests, tasks, sweep and scan on rows read without a lock.
* The database commit and the broker are not atomic; messages are acknowledged
  on receipt, so a dying worker loses them; HTTP errors are retried.
* A sweep may declare a recognition dead whose late answer still arrives.
* A unique index is checked at every flush, and one conflict in the scan's
  commit takes back the work of the whole day, except the notices.
* Dates: windows with both ends included, records valid for ever, records
  entered late, due dates that a retry must not move.
* CSV imports are coroutines that run blocking database calls on the event loop,
  the other requests run in threads: two schedulers and PostgreSQL's locks.
* Numbers, lists and reports are computed by different code and by several
  statements of different moments.
* Progress: nothing may stay in PARSING, due or open without anybody acting.

The hazards are listed with their lines and with the properties that watch
them under `hazards` in `PROJECT.json`.

## 2. The modules

### 2.1 `DocumentPipeline`

State: the columns of documents and reviews that decide anything, the queue by
document and retry count, and the program counters of HTTP sessions and worker
slots with the snapshot (`seen`) each holds. `docStale` abstracts `updated_at`
to "older than the parsing timeout"; `rvVersion` counts the updates of a review
and stands for the `updated_at` that HR's page sends back.

| Code | Actions |
|---|---|
| `create_upload_intent` | `CreateUploadIntent` |
| `confirm_document_upload` | `ConfirmRead`, then `ConfirmCommit` or `ConfirmFail` (head and hash happen in between) |
| `recognize_document_async` | `RecognizeRead`, `RecognizeCommit` (PARSING is committed), `RecognizePublish` (the message) |
| `approve_review_task`, `reject_review_task` | `ReviewAsk` (HR sees a version), `ReviewLock` or `ReviewRefuse` (row lock and checks), `Approve`, `Reject`, `AskForInfo` (commit) |
| any handler that raises | `SessionAbort` |
| `run_certificate_recognition`, `run_recognition` | `Receive`, `Claim`, `Load`, `ExtractOk` / `ExtractHttpError` / `ExtractError`, `FlushDocument` and `CloseReviews` (the final commit) or `CloseError`, `MarkRead`, `MarkCommit` |
| a worker process dies | `WorkerCrash` |
| PostgreSQL ends a deadlock | `BreakDeadlock` |
| `fail_stale_parsing_documents` | `TimeoutPasses`, `SweepStale` |

`Flush` is the UPDATE of a commit: the status goes out only if it differs from
the snapshot. It is what lets a late writer overwrite, or not overwrite, what
happened since it read. `CloseReviews` writes REJECTED over the reviews that
were open when they were *selected*, as the code does, after waiting for the
locks of decisions in progress. It has updated the document row by then
(`FlushDocument`) and keeps its lock (`DocLocked`); a decision whose commit
updates the document waits for it. So a decision and a recognition of one
document may wait for each other (`Deadlocked`) until PostgreSQL takes either of
them back.

`ReviewDesk` is the abstract specification of the review endpoints: a decision
is one atomic step on exactly the version HR saw, or nothing.
`DocumentPipelineRefinement` maps the pipeline to it (a session that asked or
holds the lock is a pending request), and `DeskSpec` states the implementation.

### 2.2 `CertificateLedger`

The records of one employee and one type, which is the unit replacement works
on. `Create` and `Edit` are `create_employee_certificate` (and each item of an
approval) and `update_employee_certificate` up to their first write;
`LockSelf`, `Select`, `LockRow` are the statements of
`replace_active_certificates`; `CommitReplaced` and `CommitLive` are its two
outcomes with the unique index; `TxAbort` is a rollback. `Refresh`,
`ScanCommit` and `ScanAbort` are `refresh_certificate_expiry_statuses`, whose
rows stay locked until the scan's commit. `valid_to` null is `Forever`. A record
inserted or edited into a current status is DRAFT until the others are replaced;
the DRAFT is visible to its own transaction only (`tx[s].row`). A *cast* says
which requests and records take part in a behaviour and whether requests edit;
requests and fresh identities are interchangeable, so the least free one begins
(`Begins`, `Fresh`).

### 2.3 `ReminderCases`

The cases of one employee's records. A case is identified by its record and the
valid_to it follows up, as its `idempotency_key` is. `LedgerBegin`,
`LeaveBegin`, `RequestClose`, `RequestCommit` are the requests of the ledger and
the directory that end follow-ups; `DispatchSend` and `DispatchCommit` are
`dispatch_task`; `Feedback` is `create_feedback`. A scan is `ScanRefresh`,
`ScanCreate`, `ScanRead` (cases and records, unlocked), one `ScanClose` or
`ScanSend` per case read, and `ScanCommit` or `ScanAbort`. A manual scan
(`scan_tasks`) may open cases for any date and sends nothing; the scans in
`Daily` are the beat's. A send reaches any subset of the channels left
(`Send`), and the case moves on if this is the first success of its stage.

### 2.4 `MasterData`

The two master tables (`rows`), one reminder case per employee, the default
policies, and the requests that write them in the single API process. A cast
says what each request asks, which rows exist and whether the daily scan runs.

| Code | Actions |
|---|---|
| `import_employees_csv`, `import_certificate_types_csv` | `ImportEmployees`, `ImportTypes` (parse the file, read the rows; the coroutine takes the event loop) |
| `create_employee`, `create_certificate_type`; `update_employee`, `update_certificate_type` | `Create`; `Update` |
| `create_policy`, `update_policy` | `CreatePolicy`, `UpdatePolicy` |
| one line over an existing row | `OverwriteEmployee` (with `_close_reminder_tasks_if_left`: the open case is locked, and waited for), `OverwriteType` |
| the flush before an INSERT and at the end | `FlushRow`, `FlushFails`, `WaitForName` (names of types are unique) |
| `db.add` and `flush` of a new row | `InsertRow`, `InsertFails` |
| `_upsert_default_reminder_policy` | `UpsertPolicy` (look up), `FlushPolicy` |
| `db.commit` | `Commit`: the changed columns over the rows as they are now, the cases closed, the policy |
| `create_feedback`, `dispatch_task` on a case | `Feedback`, `LockCase`, `CloseSession` (a refused request's session is closed through the event loop) |
| the scan's transaction on cases | `ScanRead`, `ScanLock`, `ScanCommit` |
| PostgreSQL, the kubelet | `DeadlockVictim`; `KubeletRestart` |

A file is a sequence of lines. `ParseFile` folds `ParseLine` over it with the cells
of the table (`CellsOf`); `FirstLines` and `OtherLines` say independently of any
order of reading which lines an import should take and which it should report,
and `ImportIsAWhole` compares the two.

`loop` is the import the event loop is running. While it is set, no request
starts, and no refused request ends: FastAPI starts a request, and closes the
session of one that raised, through the event loop.

### 2.5 `HrConsole` and `ScenarioEvidence`

`HrConsole` has no state: it defines what the lists, the dashboard, the coverage
report and the traces answer on given data (`db`), and for each number of the
dashboard and the report the filter its link opens (`Opens`). Statuses, groups and filters are
those of the routes and of the pages that read the URL. A department is looked for
as a part of the name (`PartOf`), as `ilike '%...%'` does, and employees without
one are a row of the report like any other (`Label`).

`ScenarioEvidence` adds the behaviour: HR, the worker and the scan commit, and
the evidence script walks the API. A request of HR or a task is **one** commit
here, since what it shows the readers is what counts; its inside is the subject
of the other modules. What they show it may overwrite is kept: a check on rows
read without a lock may have been made before another commit (`Passed`; at most
`MaxLate` times in a run). So a recognition may begin over a confirmed document and
reject an approved review, an edit may revive a replaced record, the scan open a
case for an old date or move on a closed one, as the violated runs of section 6
find. A record has one case per expiry date and at most one that is open; an edit
may give a record any employee, type, date, document or status the forms accept,
and new types may be created at any time.

Each step of the script is one GET, on the data of that
moment; the coverage report is three statements and the certificate trace two,
with commits in between. The number and the code on the command line are looked for as
parts of those of the rows, and the newest row is taken (`FindPerson`, `FindKind`,
`Newest`); of a record's cases any closed one (`Selected`). `Start` ...
`TimelineCheck` follow `collect`; `Item` is a
PASS or FAIL, and after the first FAIL the walk is not followed further, since
nothing can make the report ok again. `RequestFails` is a request that is
refused or times out.

### 2.6 Proof modules

| Module | What it proves |
|---|---|
| `DocumentPipelineProofs` | types of the pipeline |
| `DocumentPipelineSafety` | the safety properties of the pipeline |
| `DocumentPipelineRefinementProofs` | the pipeline implements `ReviewDesk` |
| `CertificateLedgerProofs` | types and all safety properties of the ledger |
| `ReminderCasesProofs` | types and locks of cases, closed cases stay closed |
| `ReminderCasesNotices` | notices, the indexes at the scan's commit |
| `MasterDataProofs` | the parser, and all safety properties of the master data |
| `ScenarioEvidenceProofs` | the numbers and lists of the read side, what commits keep of the data, the verdict of the script |

### 2.7 MC modules and mutants

`MCDocumentPipeline`, `MCCertificateLedger` and `MCReminderCases` add the
symmetry sets and casts, `MCMasterData` the files and casts,
`MCScenarioEvidence` the data a behaviour begins with, the facts HR registers and
the command lines of the script. Requests and slots are interchangeable, and so are documents,
reviews, records and channels wherever a run uses symmetry; the runs that check
liveness use none. Next to some definitions stands a variant marked *Mutant*: a
mistake the code could plausibly contain. No specification uses it; it is there to
substitute for its neighbour and see the named property fail (`mutants` in
`PROJECT.json`).

## 3. The runs

`CHECK_DEADLOCK FALSE` is set because the system may rest: HR need not send
requests, days and dispatches are bounded, and the evidence script is run once.

| Run | Bounds | What it shows |
|---|---|---|
| `pipeline_safety` | 2 documents, 2 reviews, 2 sessions, 2 worker slots, 2 dispatches, versions 0-1, no retries | `TypeOK`; no workflow before the upload is confirmed (`UploadBeforeWorkflow`); decisions are about the version HR saw (`DecisionIsCurrent`), issue once (`IssuedOnce`); a waiting document can be decided (`WaitingHasOpenReview`); `ClosedReviewStaysClosed`; the desk is implemented (`DeskSpec`) |
| `pipeline_liveness` | 1 document, 2 reviews, 2 sessions, 1 slot, 1 retry, 2 dispatches | a document has no more open reviews than there are slots (`OpenReviewsPerSlot`; here, one), and under `FairSpec` `ParsingEnds`, `QueueDrains`, `RequestsEnd` |
| `pipeline_overwritten` | 1 document, 2 slots | violated: `DecisionIsFinal` (section 6) |
| `pipeline_reopened` | 1 document, 2 slots | violated: `ConfirmedIsClosed` |
| `ledger_registration` | casts: 3 records and 2 requests that register, or 2 records and 1 request at a time that registers, edits and archives; 1 scan, 3 days | `LedgerTypeOK`, `ReplacedIsTerminal`, `LaterReplacesEarlier`, `CoverageKept`; for a lone request `OneLiveRecord` and `LoneRequestFitsIndex`; under `FairSpec` `ExpiryIsNoticed` |
| `ledger_revived` | 2 records, 2 editing requests | violated: `ReplacedIsTerminal` |
| `reminders_manual` | 1 record, 2 dates, 2 requests, 1 manual scan, 2 channels, 3 days | `ReminderTypeOK`, `ClosedCaseStaysClosed`, `OneNoticePerStage`, `NoticesAreSpaced` |
| `reminders_daily` | 1 record, 2 dates, 1 request (dispatch by hand included), the daily scan, 1 channel, 3 days | under `FairSpec` `CasesAreOpened`, `StagesComeUp`, `StaleCasesEnd`, although the scan's commit may be refused |
| `reminders_misdated` | as above, edits of valid_to | violated: `OpenCaseIsCurrent` |
| `reminders_reopened` | as above, feedback | violated: `ClosedCaseStaysClosed` |
| `master_data` | 3 employees, 2 types; every file of up to 3 lines alone; an import of leavers with one or two of 6 other requests, with and without the scan; 3 of 9 requests on types and policies; two types that take each other's name | `MasterTypeOK`; `ImportIsAWhole`; `LeaverCaseClosed`; `TwoDefaultsNeedAnIdleType`; under `FairSpec` `EveryRequestEnds` |
| `scenario_evidence` | 2 employees, 2 departments of which one's name is part of the other's, 2 types, a document with 2 review tasks, 2 records, 2 dates; 4 states of the data to begin with, 3 command lines; 2 commits before or while the script runs, 1 of them on a late check | `ConsoleTypeOK`; `DrilldownAgrees`; `ReportAddsUp`; `QuietVerdict`; `OkLeavesTraces` |

Why the bounds are enough to be interesting. Two sessions and two slots give
every pair of actors that can conflict on one row; a third actor is the sweep
or the scan, always enabled. Two reviews on two documents let a review be
replaced while another one is decided; three reviews with one slot let it
happen twice. `MaxDispatches` and `MaxVersion` bound how often HR repeats
itself, `Horizon` the days: three days are a day before, the last day of and a
day after validity, and with intervals of one day a first reminder, a second
and an escalation. Three records are the smallest number at which replacements
form a chain. In `reminders_manual` the actions of requests are limited to
those that differ in effect: `archive` and `leave` close cases as `replace`
does and are enumerated in `reminders_daily`. In `master_data` three lines are a
row to update, one to insert and one more, in every order, with every kind of
rejected line; three requests are an import, a holder of a lock and a third that
makes one of them stale. In `scenario_evidence` two records are a record and the
one it replaced, and two commits can change what the anchor was chosen by and
what its trace shows. The data it begins with is that of a company at four points of
the scenario: nothing uploaded, a document recognized, its certificate
registered (with a case for a date that was corrected and one for the right date),
and the case answered; from each, two commits lead to a few thousand others.

`OpenReviewsPerSlot` is checked with one slot, where a second open review would be
an error of the code, and proved for any number (`AsManyReviewsAsSlots`). With
the two slots the chart deploys (`worker.concurrency`) a document **can** have two open reviews: each
recognition selects the open reviews before the other's is committed. The docstring
of `_close_open_review_tasks` ("关闭该文档所有未完结复核任务") is then true of what
it finds only.

### 3.1 Fairness

* Pipeline: a request that started ends and a task goes on, because every
  external call has a timeout (WF). Row locks are granted in order of waiting,
  so the steps of sessions and slots, which may be disabled
  again and again by other holders, get SF. PostgreSQL breaks a deadlock after
  `deadlock_timeout` (WF on `BreakDeadlock`). Beat runs the sweep every ten
  minutes (`celery_app.py`) and minutes pass (WF). Neither errors nor crashes
  nor new requests have to happen.
* Ledger: every transaction ends (WF on commit or rollback). The scan comes
  back daily and does not find the same record locked every time (SF per
  record), nor fail at every commit (SF).
* Reminders: requests do not fail every time (SF on their commits); the daily
  scan returns and proceeds (WF), does not fail every time it has something to
  record (SF), and the channels do not refuse the same case every time (SF on
  closing it or reaching all channels).
* Master data: threads and the event loop go on (WF per request), PostgreSQL
  grants a free lock and breaks deadlocks (part of the same WF), the scan ends
  (WF), and the kubelet probes the API every 20 seconds (`api.yaml`), so that a
  loop that stays blocked is restarted (WF on `KubeletRestart`). WF suffices:
  each request is finite, and what it waits for ends once and for all.
* `ScenarioEvidence` states no liveness and has no fairness.

## 4. What is proved

The theorems hold for every number of documents, reviews, sessions, slots,
retries, records, cases, requests, scans, days, channels, employees, types and
policies, for every policy of reminders, and for every CSV file and every form.

| Theorem (module) | Statement |
|---|---|
| `TypeCorrect` (`DocumentPipelineProofs`) | `Spec => []TypeOK` |
| `UploadsComeFirst` (`DocumentPipelineSafety`) | `Spec => []UploadBeforeWorkflow` |
| `DecisionsAreCurrent` | `Spec => []DecisionIsCurrent` |
| `CertificatesIssuedOnce` | `Spec => []IssuedOnce` |
| `ReviewsStayClosed` | `Spec => ClosedReviewStaysClosed` |
| `WaitingIsDecidable` | `Spec => []WaitingHasOpenReview` |
| `AsManyReviewsAsSlots` | `Spec => []OpenReviewsPerSlot` |
| `ImplementsDesk` (`DocumentPipelineRefinementProofs`) | `Spec => DeskSpec` |
| `LedgerTyped` (`CertificateLedgerProofs`) | `Spec => []LedgerTypeOK` |
| `OneRecordIsLive` | `Spec => []OneLiveRecord` |
| `LoneRequestsFit` | `Spec => []LoneRequestFitsIndex` |
| `CoverageIsKept` | `Spec => []CoverageKept` |
| `ReplacedForGood` | unless two requests edit, `Spec => ReplacedIsTerminal` |
| `LaterOnesReplace` | unless two requests edit, `Spec => LaterReplacesEarlier` |
| `RemindersTyped` (`ReminderCasesProofs`) | `Spec => []ReminderTypeOK` |
| `ClosedForGood` | without daily scans, `Spec => ClosedCaseStaysClosed` |
| `NoticesOnce` (`ReminderCasesNotices`) | with one kind of sender, `Spec => []OneNoticePerStage` |
| `NoticesInTime` | with one kind of sender, `Spec => []NoticesAreSpaced` |
| `LoneScansFit` | for an undisturbed scan, `Spec => []LoneScanFits` |
| `MasterTyped` (`MasterDataProofs`) | `Spec => []MasterTypeOK` |
| `TwoDefaults` | `Spec => []TwoDefaultsNeedAnIdleType` |
| `LeaversClosed` | `Spec => LeaverCaseClosed` |
| `ImportsAreWhole` | `Spec => ImportIsAWhole` |
| `ConsoleTyped` (`ScenarioEvidenceProofs`) | `Spec => []ConsoleTypeOK` |
| `EveryNumberOpensItsRows` | `Spec => []DrilldownAgrees` |
| `ReportsAddUp` | `Spec => []ReportAddsUp` |
| `OkReportsLeaveTraces` | `Spec => []OkLeavesTraces` |
| `QuietVerdictsAreTrue` | `Spec => []QuietVerdict` |

These are all the safety properties of the passing runs, and `LoneScanFits`, which
is about the scan's commit and only proved.

### 4.1 Assumptions

On the constants:

* `RetriesAssumption`: `MaxRetries` is a natural number. `SlotsAssumption`: the
  slots are finitely many.
* `LedgerAssumption`: records and requests are numbers (0 is no record), the
  requests are finitely many, the horizon and the window are numbers of days.
* `ReminderAssumption`: dates are days, `Daily` is a set of scans; a policy
  leaves at least a day before the second notice and before the escalation,
  which the schema enforces (`Field(ge=1)`, `schemas/certificates.py:16`).
* `MasterAssumption`: what a cast's requests ask is well-formed (`JobOK`): a file
  is any finite sequence of lines, a form has columns of its table with values of
  their types. The Pydantic schemas refuse anything else.
* `EvidenceAssumption`: employees, documents, records, types, months and tries are
  finitely many; records and months are numbers, and 0 is no row's id; the
  command lines and what HR registers name rows that can exist; the data a behaviour
  begins with is `Consistent`, as the data of an empty company is. `MaxCommits` and
  `MaxLate` are any numbers: the theorems are about scripts disturbed as often as
  one likes, by commits that overwrite as much as one likes.
* `LabelAssumption`: a name is part of itself, and nothing is part of a department
  that is not set. Which other names are parts of which, the label of the report
  included, is left open.

Some theorems have a hypothesis. None of them can be dropped: the property is
false without it, and in most cases a run shows how.

* `ReplacedForGood`, `LaterOnesReplace`: a request that edits runs alone; any number
  of registrations may run next to each other. An edit reads its record without
  a lock, and brings back what was replaced meanwhile (`ledger_revived`).
* `ClosedForGood`: no daily scan. The daily scan computes
  statuses from cases it read without a lock and writes them at its commit, over
  cases that were closed (`reminders_reopened`).
* `NoticesOnce`, `NoticesInTime` (`OneSender`): either requests dispatch, or one
  daily scan does. A scan and a dispatch may each send the stage the other is
  about to record, on two days.
* `LoneScansFit` (`Undisturbed`): one scan, no dispatch and no edit of a valid_to
  next to it. With any of these TLC finds a commit of the scan that meets a case or
  a notice it did not know of (for the edit, see `reminders_misdated`).

### 4.2 How the proofs go

Types alone do not make any of the properties inductive; each needs to say what
the transactions in flight remember, and which lock keeps it true.

**Pipeline.**

* `UploadInv`: a dispatch past its check, a task and a review refer only to
  documents whose hash is set, and no step takes a hash back. A late commit may
  then write any status of the workflow.
* `LockInv`: `DecisionIsCurrent`, and at most one session holds the lock of a
  review. A second decision cannot change the review under the first, and
  `CloseReviews` cannot because it waits for the lock.
* `IssueInv`: a review that issued certificates is closed, and so cannot be
  locked for another approval.
* `WaitingInv`: a waiting document has an open review that is not *doomed*.
  A rejection writes FAILED only if the document it read was not FAILED already,
  so a rejection that read FAILED closes its review without moving the document:
  the review it holds does not count. That a rejection which read FAILED never
  meets a waiting document without another review is the core of the proof.
* `SlotInv`: the open reviews of a document were opened by different slots, and a
  slot that is about to replace reviews has selected the one it opened itself, if
  that is open. Its commit closes that one and opens another.
* Refinement: `Init` maps to the desk's `Init`; `ReviewAsk` to `Ask`, `Approve`,
  `Reject`, `AskForInfo` to `Decide` (this is where `LockInv` is needed),
  `ReviewRefuse` and `SessionAbort` to `Refuse`, `CloseReviews` to `Replace`;
  every other action stutters.

**Ledger.** `LedgerInv` adds to the types: a row is locked by one transaction
(`RowLocks`), a row that was live when it was locked is live (`HeldIsLive`), the
identity of a record about to be inserted belongs to nobody else (`NewIsOwn`), and
what a request has in mind (`IntentKept`: only a live target looks for others, a
replaced record is left replaced, the row before the commit is a DRAFT). From it
follow the properties of registrations that run concurrently: a commit writes
REPLACED only over rows it holds, which are live, so what was replaced is not
touched, and what is replaced is outlasted by the record that replaces it or by
the one that outlasts both (`CoverageIsKept`, on chains of replacements).
`AloneInv` is for one request at a time: the record is as it was read but for a
refresh (`SeenIsTrue`), the other live records are all among those selected
(`LiveIsFound`), and there is at most one live record (`OneLive`). The scans
refresh in between, and keep live what is live.

**Cases.** `FollowUpInv`: a case is locked by one transaction (`CaseLocks`), a
locked case is as open as when it was locked (`HeldIsOpen`), and the cases a scan
goes through exist (`SeenExist`); every writer except the daily scan writes only
cases it holds. `NoticeInv` adds what is known of the notices: none is of a later
day than today (`SoFar`), the notices of a case go with its status and its due
date - each stage once per channel, after the ones before it and not before they
were due (`CasesInOrder`) - and the notices of a request or scan in flight
could be recorded as they are (`InFlightSound`). A stage may be completed
channel by channel over several days without moving its due date, so the
invariant is about the first day of each stage. `LoneInv` adds that cases exist for the
current dates only, and that the cases a scan is about to open do not exist.

**Master data.** `MasterInv` has five parts besides `TwoDefaultsNeedAnIdleType`.
`RequestsOK` says of each request how far its kind can be (`OnItsWay`), that its
lines are those of its file (`LinesRead`), which rows it wants (`Wanted`), that
it has locked whatever it has written and every open case of a leaver
(`Locked`), and that a row it has read is unchanged or has a later version
(`AsRead`). `LocksExclude`: no lock has two holders. `NamesOfTypes`: the committed names
of types are distinct, and so are the names in each transaction's own view, which has
locked every name it sets; this is what makes a commit keep the unique index,
also when two types swap their names. `PoliciesOK`: a request that adds a default
policy with its type locked knows of no other that was added so. The four
theorems follow from it and from `StepKinds` (only a commit changes a row):

* An import has a line for each of its `FirstLines`, and at its commit wants the
  cells of each; a cell it does not write is one that already had the value when
  it was read, and either nobody has written the row since or the version tells.
* The commit that makes an employee LEFT is by a request that sent an UPDATE
  of the status, and that holds the lock of the case it found open.
* Of two defaults of one type whose requests both wrote the type, the later one
  held the row when it looked for policies, so that the earlier was committed.

That the parser accepts exactly `FirstLines` (`ParseFileReads`) is an induction
on the length of the file. The library states induction with an operator
parameter, which the installed provers cannot instantiate; the proof looks at the
least prefix that is an exception instead (`LeastNumber`, from
`WFMin` and `NatLessThanWellFounded`), first to show that the recursive
function behind `FoldLeft` exists (`FoldExists`), then that each line of the file
is read on what was read before it (`ParseFileSteps`, `ReadsNextLine`).

**Console and script.** `Consistent`, the type invariant, is inductive, since it
says only what no late check can break. `WorldKeeps` proves it for each commit,
together with `Grows`: a stored extraction stays, an approved review keeps its certificate and
is rejected at most, a record stays and keeps the name of a successor if it has one, a
case keeps its events and its feedback. That is what the script lives
on between its requests. `ScriptInv` says so: the row it has read is of the record it follows, and
the case it selected belongs to that record (`Linked`), the
extraction and the approved review of the row's document are there (`Sourced`), a
replacement is (`Succession`), and the answer of its case is (`Answered`). `Knows` is
for a script during which nothing is committed: what it remembers is the
data, and a risk with a count has rows; from it follows `Verdict`, in both directions.

`DrilldownAgrees` holds on any data: count and list are the same set,
link by link (`StatusRowsAgree` ... `MonthRowsAgree`), and for a department count and list are
the sets that `DepartmentAgrees` names (`DepartmentRowsAgree`). Where a number is a sum of
two counts, the two are disjoint (`Partitions`). `ReportAddsUp` compares sums
over departments, months and types; of the types it uses that those read are among those
there are now (`Counting`). `CountsAddUp` says that the counts of the
parts of a finite set add up to its count; it is proved as the parser is, by the
least size that is an exception, after showing that the recursive function
behind `SumFunction` exists (`SumExists`).

### 4.3 The invariants on instances

Before they were proved, TLC found the invariants to hold: the pipeline's on
`pipeline_safety` (of `SlotInv`, which TLC cannot evaluate, the consequence
`OpenReviewsPerSlot`, also with two slots, three reviews and three dispatches), `LedgerInv` and
`AloneInv` on `ledger_registration` and `ledger_revived` (`LedgerInv` needs no
hypothesis), `FollowUpInv` and `NoticeInv` with two requests, all
HR actions and a manual scan, `NoticeInv` and `LoneInv` with one daily scan, and
the parts of `FollowUpInv` with two daily scans and dispatches, `MasterInv` on
`master_data`, and `Consistent` and `ScriptInv` on `scenario_evidence`.

## 5. What is only model-checked

* Liveness (`ParsingEnds`, `QueueDrains`, `RequestsEnd`, `ExpiryIsNoticed`,
  `CasesAreOpened`, `StagesComeUp`, `StaleCasesEnd`, `EveryRequestEnds`): it rests on fairness and
  ENABLED, which the prover does not handle.
* The violated runs: a counterexample is what they are for.

## 6. Where the code and what is said of it differ

* **A decision is overwritten** (`pipeline_overwritten`).
  `_close_open_review_tasks` selects the open reviews without a lock; its
  UPDATE waits for the approval that holds one and then writes REJECTED over
  APPROVED, with the certificate ids in the decision lost. A closed review is
  said to be final.
* **A confirmed document is recognized again** (`pipeline_reopened`).
  `recognize_document_async` checks a document read without a lock and writes
  PARSING over the CONFIRMED of an approval committed in between.
* **A replaced record comes back** (`ledger_revived`).
  `update_employee_certificate` reads the record without a lock; an edit that
  read it before it was replaced writes another status over REPLACED.
* **A case for an old date** (`reminders_misdated`). A scan that reads a record
  while its valid_to is being changed opens a case for the old date. Nothing
  closes it, and when the next date enters its window the insert of its case
  violates the index of one open case, so that every daily scan fails at its commit.
* **A closed case comes back** (`reminders_reopened`). The daily scan reads the
  cases without a lock and writes the status it computed at the end, over a
  case HR closed while the notices went out. So an escalated case may belong to a
  record that was replaced or archived meanwhile; the daily scan does not select
  escalated cases, and it stays.

Two differences are not findings of a run, because nothing says otherwise: the links of
departments (`DepartmentAgrees`: the row "未设置部门" links to a search for its label,
which finds nobody, and a link also opens the departments whose names contain
the row's), and the two open reviews of two slots (section 3).

## 7. Abstractions and what is not modelled

* One session serves one request, and READ COMMITTED statements are atomic.
  Deadlock victims are aborts, which are always possible; in the pipeline and in
  the master data the deadlocks themselves are modelled.
* Approvals have one item. An approval of several registers them one after the
  other in one transaction; its certificates are a count in the pipeline.
* In the ledger one employee and type: moving a record to another pair and the
  uniqueness of certificate numbers are left out.
* `ReminderCases` does not distinguish ACTIVE from EXPIRING. A ledger request there
  starts when it has locked its record, since what an unlocked read does is the
  subject of `CertificateLedger`. Ledger requests end on the day they began,
  dispatches and scans cross one midnight at most (`NextDay`).
* The reminder policy does not change while cases run and its window has one
  entry, the largest. The `FIRST_SENT` status is written nowhere in the code
  and left out. Simulated dispatches leave no state.
* A notice that went out before a rollback is not recorded by the code, and so
  can go out again; `events` are the recorded ones.
* `CasesAreOpened` is checked without edits of valid_to: with them a case for
  an old date may be in the way for good (`reminders_misdated`).
* `StagesComeUp` is about stages that have reached no channel, and does not count a case that
  somebody has in hand again and again: a scan whose commit is refused sends its notices
  unrecorded. Process feedback
  after a second reminder moves a case back to WAITING_FEEDBACK, where its next
  stage has been sent already; such a case waits for HR and is never escalated.
* In `ReminderCases` a case's `expected_updated_at` check (it is in
  `MasterData`, `Feedback`), manual edits that make an archived record live
  again, and corrections of AI fields.
* `MasterData`: two columns of each table; a file is read into lines of a key, a
  name and one more cell; limits on lengths and encodings are left out. A case
  is one per employee and its feedback one that ends it. The key-share lock that
  a policy's foreign key takes on its type is left out: it only makes one of two
  requests wait. A scan that inserts a case waits for nobody. Policies are not deleted, and
  neither are rows (the code has no route that deletes).
* `ScenarioEvidence`: a request is one commit, an approval has one certificate, and
  every record has a `valid_to`. A late check lets a commit pass that would be refused; the values
  it writes are those of its moment. The
  selectors are chosen where they are first used. The certificate trace is two
  reads (record, document and cases; then extraction and reviews), the document's, the review's and
  the timeline one. The audit item, the selector by certificate number and the rendering are
  left out, as are `timeline_ok` of a case without a task row (rows are not deleted), page
  sizes and the limits of traces, which exceed the rows of the instances.
* `DrilldownAgrees` compares a number with its list at one moment, before the script
  starts. The counts of
  the dashboard are a dozen statements: under commits between them they may
  disagree, and the coverage percentage may exceed 100.
* `QuietVerdict` and `OkLeavesTraces` are about reports taken without document, review or case ids:
  with them the script joins what it is given. A number or code that is part of
  several rows' stands for the newest of them, and one that nobody has filters
  nothing (`Asked`): asking for E1 may prove the scenario of E10. Of several closed cases
  the script takes any: it may fail on one that was closed without feedback although
  another was answered. Both are in `QuietVerdict` as the code has them.
* `OkLeavesTraces` does not say that the scenario holds when the report is written: the review
  may be rejected, the record edited and the document recognized again after the
  script has seen them.

Not modelled, and why:

* The Celery isolation smoke starts processes and reads their output; the
  release tooling rewrites YAML: pure I/O.
* The normalisation of Dify answers, the audit sanitizer and the trusted
  networks are functions of one input on which nothing interleaves; unit tests reach all of
  their branches.
* The upload page and the drawers of the other pages keep answers of earlier
  requests. They deserve a model (stale forms, answers out of order), which is
  left for later: what the server guarantees against a stale page
  (`DecisionIsCurrent`, `DeskSpec`) is checked and proved on its side.

## 8. Plan

1. `DocumentPipeline`, `ReviewDesk`, refinement and proofs: done.
2. `CertificateLedger`: checked, its safety properties proved.
3. `ReminderCases`: checked, its safety properties proved. An abstract life cycle of
   a case (opened, notified stage by stage, ended) as the specification the
   locked requests implement is left.
4. `MasterData`: checked, its safety properties proved.
5. `HrConsole`, `ScenarioEvidence`: checked, their safety properties proved.
6. Later: `UploadPage`, the polling loop of `pages/UploadRecognition` composed
   with `ReviewDesk`.

## 9. Running

In this directory, with TLC and tlapm installed:

    tlc -workers 2 -config pipeline_safety.cfg MCDocumentPipeline
    tlc -workers 2 -config ledger_registration.cfg MCCertificateLedger
    tlc -workers 2 -config reminders_daily.cfg MCReminderCases
    tlc -workers 2 -config master_data.cfg MCMasterData
    tlc -workers 2 -config scenario_evidence.cfg MCScenarioEvidence
    tlapm DocumentPipelineSafety.tla
    tlapm DocumentPipelineRefinementProofs.tla
    tlapm CertificateLedgerProofs.tla
    tlapm ReminderCasesNotices.tla
    tlapm MasterDataProofs.tla
    tlapm ScenarioEvidenceProofs.tla
