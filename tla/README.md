# EduZim: specifications, model checks and proofs

EduZim is a school platform for Zimbabwe: Python (FastAPI) services behind an
API gateway, Postgres, Kafka, and three Next.js applications. This directory
holds TLA+ specifications of the parts where money, a teacher's work or a
school's records could be lost or contradict each other, the TLC configurations
that check them on small instances, and theorems checked by TLAPS that hold for
every value of the constants.

Contents: [parts of the system](#1-the-system) ·
[plan](#2-plan) · [modules](#3-modules-and-code) · [runs](#4-runs) ·
[fairness](#5-fairness) · [proofs](#6-proofs) ·
[disagreements with the code](#7-where-code-and-documents-disagree) ·
[what is left out](#8-what-is-not-modelled)

## 1. The system

Each service runs one `uvicorn` process (the Dockerfiles start
`uvicorn app.main:app` without workers). This fixes the concurrency of the
models: a plain `def` endpoint runs in a thread of the pool, an `async def`
endpoint runs on the one event loop and occupies it between two awaits, and
database sessions (`get_db`) are opened and closed around the endpoint. The
database is Postgres behind PgBouncer with read committed isolation and no lock
or statement timeout. Only `record_payment` locks a row; everywhere else a
handler reads, decides and commits, and only a unique key refuses the commit.

| Part | State | Operations | What is hard |
|---|---|---|---|
| **Fee ledger** (finance, `fees_service.py`) | `invoices`, `payments`, row locks | `record_payment`, `get_defaulters` | check and write in separate statements, idempotency looked up without a lock, a sweep that reads without a lock |
| **Mobile-money checkout** (finance, `api/payments.py`) | `payment_transactions` | initiate, Paynow webhook, status poll, cash till | repeated, late and reordered notices, timeouts of an accepted call, two commits with a crash between them, blocking calls on the event loop |
| **Invoices, fee structures** (finance) | `invoices`, `fee_structures` | create invoice, CSV import | two unique keys race, a retry must answer the same invoice |
| **Attendance sync** (academics) | `attendance_records`, `sync_batches`, `processed_client_events` | `POST /attendance/sync`, `/attendance/records` | resends, repacked events, edits from several devices in any order, two routes on the same rows |
| **Offline queue** (`packages/offline-core`) | IndexedDB `actions` | enqueue, pass, retry, retry all, clear | every await lets another callback run; a status change is a get and a put; tabs close |
| **Curriculum adoption** (academics) | national tree with a version; a school's copy of it | author, publish, republish, import, adopt, extend, preview, upgrade | copies read row by row while the tree is edited, collisions of codes, adoption read before a commit of others |
| **Roster** (academics) | students, drafts, parents, links, enrolments | review, create, import, link, enrol, promote, delete | two reviews of one draft, find-or-create of parents, delete against enrol |
| **Marks and question bank** (academics) | marks, questions with counters, drafts | bulk save, auto-grade, compose, review | a save retried after a newer one, torn rows, lost counter updates |
| **School desks and calendar** (academics) | library, boarding, conferences, meal credit, slips, assets, leave, years and terms | one handler each | shelf and bed counts, one booking per slot, credit, one decision |
| **School office** (academics) | policies, campuses, classes and subjects, class teachers, logins of students, teacher requests, a school's place, go-live checks | one handler each, teacher import | "the current one", "the primary one" and names kept unique by reading first |
| **Homework, templates, attachments** (academics, files on disk) | templates, instances, attachments, bytes, submissions | adopt, create, clone, upload, delete, submit, grade | a copy across two services with a time-out, bytes and rows that part |
| **School records** (all services) | some thirty kinds of rows (grants, health, decisions, sponsorships, plans, payment and notification settings, …) and the audit trail | save the whole or some columns; file a new row with its audit row | two saves of different columns of a row, a second insert under a key, an audit row that parts from the work it is about |
| **Ministry reports** (academics, finance) | read-only over all schools, audit rows | enrolment, attendance, compliance, dropouts, pass rates, pupil–teacher ratio, comparison, policy impact, donors, UNESCO return, fees, defaulters | several queries without a snapshot, schools without a row, a code or a type, division by zero |
| **School's own reports** (academics) | read-only over marks, register, bills, tags | gradebook, report card, class performance, attendance summaries, dropout risk, coverage, two archives | the same rows counted in several places, awaited calls and one query per file while rows are added |
| **Reporting** (`reporting-service`) | projections, `processed_events` inbox, Kafka offset | consume, batch, rebuild, feeding tool | duplicate events, an offset that moves on asynchronously, rebuild while events arrive |
| **Identity** | users, invitations, sessions, reset links | invite, resend, accept, login, refresh, logout, reset | two acceptances, a refresh beside a reset, two mails for one link |
| **Messages, announcements** (communications) | threads with unread counts, invitation outbox, outbox of announcements, WhatsApp messages, idempotency keys | send, mark read, dispatch, requeue, announce, work off a batch, provider report, retry | two counters kept by two sides, a requeue of what was sent, two workers on one outbox, a batch that dies after messages went out, check-then-act on a key |
| **Gateway** | circuit breaker of a service, buckets of the rate limiter in Redis, metrics, cached readiness | check permission, count, route, forward, retry, probe | late answers of calls forwarded before the circuit opened, windows read before they are counted, readiness probes that overlap |
| Shared library | idempotency store, sessions, Kafka producer | – | check-then-act idempotency |
| Web applications, themes, infrastructure | – | – | presentation and deployment |

How they interact: the browser's queue resends to attendance, marks and
communications through the gateway; the webhook of the checkout and the cash till
both call `record_payment` of the ledger, in one process; homework clones files
through the attachment service over HTTP; the services publish to the topics
the reporting service consumes; identity stages an invitation that the outbox
of communications delivers.

What makes each part correct:

* **Ledger** – for every invoice the payment rows add up to `paid_amount`; an
  invoice is never credited beyond its total; a key records one row; the status
  agrees with the amounts; recorded money stays recorded.
* **Checkout** – only money the gateway reported is recorded, on the right
  invoice and once; the gateway is told Ok only when the payment is settled or
  can never fit; every reported payment is settled in the end.
* **Attendance** – the latest mark of a cell wins in whatever order marks
  arrive, unless a request with a stale reading commits last; a batch is recorded whole or not at all; an event counts once; a batch
  that a device keeps sending is recorded in the end.
* **Offline queue** – a save shown as SYNCED (or cleared) was performed by the
  server, or refused in words the client takes for success; every save comes to rest and does not stay in the queue for ever.
* **Curriculum** – a copy at the current version has every row of it, its topics
  hang under its own rows, a school's own rows are never touched, and the
  preview foretells what the upgrade does.
* **Roster** – an approved draft has its student, and one; two families are made
  one only by a phone that both gave; a deleted student stays off.
* **Marks** – a mark is the last one given; every question comes from one draft
  and its counters count gradings.
* **Desks, homework, records, accounts, messages** – the rows agree with each
  other and with what callers were told (counts, uniqueness, one decision, no
  bytes lost, no session left open), in every overlap where the code can promise
  it, and otherwise whenever requests do not overlap.
* **Reporting** – each event is counted exactly once, none is skipped behind the
  committed offset, and every event settles.
* **Announcements** – what the status of an entry says was done: handed out once
  unless a batch died, two workers overlapped or an administrator asked again; what is
  pending is still picked up.
* **Gateway** – the breaker counts the failures in a row, opens at the threshold
  and closes again once the service is back; at most the limit passes in a window
  and none is refused below it; every answer is counted; a readiness answer is
  not older than it may be.
* **Reports** – the parts add up to the whole, on one state of the country and,
  for what is not one query, to what was committed between the queries; two
  reports of the same rows agree.

`PROJECT.json` lists 40 hazards with their lines and the property that covers
each.

## 2. Plan

| Step | Modules | State |
|---|---|---|
| 1 | `FeeLedger` (abstract), `FeePayments`; `PaymentProofs` | checked, proved |
| 2 | `PaynowCheckout` (composes webhook, poll and till with `FeePayments`); `PaymentProofs` | checked, refinement and safety proved |
| 3 | `AttendanceRegister` (abstract), `AttendanceSync`, `AttendanceSyncProofs` | checked, refinement and safety proved |
| 4 | `OfflineQueue`, composed with the server's answers; `OfflineQueueProofs` | checked, safety proved |
| 5 | `CurriculumAdoption`, `MarkBook`; `AcademicsProofs` | checked, proved |
| 6 | `ReportingPipeline` (abstract: the projection is a fold of the inbox), `GatewayBreaker`, `Deliveries`; `ReportingProofs` | checked, safety proved |
| 7 | `StudentRoster`; `RosterAndReportProofs` | checked, proved |
| 8 | `Handlers` and what extends it: `SchoolDesks`, `SchoolCalendar`, `SchoolOffice` with `SchoolProofs`; `Accounts`, `HomeworkLibrary`, `FeeDesk`, `MessageDesk`, `OncePerKey`, `SchoolRecords`, `Filing` with `ServicesProofs` | checked, proved |
| 9 | `GatewayDoor`, proved in `ReportingProofs`; `MinistryRollups`, `SchoolReports`, proved in `RosterAndReportProofs` | checked, proved |

Worth doing next: the read side of the reporting service (dashboard, trends).

## 3. Modules and code

`PROJECT.json` maps every definition to its lines. A step of a model ends where
another actor can see or block the next one: a database statement that locks, a
commit, an `await`.

### FeePayments (with FeeLedger above it)

A session is one call of `record_payment` with its own transaction.

| Model | Code |
|---|---|
| `CheckKey` | the lookup of the idempotency key, without a lock (136-144) |
| `LoadInvoice` | `SELECT … FOR UPDATE`, the snapshot `observed_paid`, the three early returns (155-184). A rejected call keeps its lock: it neither commits nor rolls back |
| `RecordPayment`, `LoseRace`, `KeyCollision` | the compare-and-swap `UPDATE` with the `INSERT` in one commit (186-237), its loss, and the refusal by the unique index |
| `CloseSession` | `get_db` closes the session, which ends the transaction |
| `ReadOverdue`, `MarkOverdue` | `get_defaulters`: read without a lock, later `UPDATE` by primary key |
| `Crash` | a process dies: open transactions are rolled back |

Amounts are cents where stored and tenths of a cent ("mills") where sent,
because the service compares the amount as sent while `Numeric(12, 2)` rounds it.
`RowLockModes` covers Postgres (`TRUE`) and SQLite, where `FOR UPDATE` does
nothing and the compare-and-swap has to do the work (`FALSE`); the comments of the
source name both. Invoices exist before the run, as no code changes a total.

`FeeLedger` says what the callers rely on: an invoice is credited by whole
payments, at most once under a key, never beyond its total. `FeePayments`
implements it under the refinement mapping `credited` = sum of the payment rows,
`issued` = number of rows, `receipts` = row numbers under a key.

### PaynowCheckout

`EXTENDS FeePayments` and runs its sessions for three kinds of request. The
variable `loop` says whose handler occupies the event loop: `paynow_webhook` is
`async def` with blocking database calls, so it holds the loop from its first
statement to its return; everything else runs in threads but is dispatched, and
has its session closed, only while the loop is free (`LoopFree`). That is what
makes webhooks take turns and also what lets the process wedge.

| Model | Code (`api/payments.py`) |
|---|---|
| `Booked` | a PAID notice books the amount it names, or the amount of the row if it names none that can be read (`NoAmount`): lines 349-354. `named` is what the notices of a transaction have named |
| `Initiate`, `InitiateAccepted`, `InitiateFailed` | `initiate_payment` before and after the gateway call; a timeout may follow an accepted call |
| `WebhookOther`, `WebhookPaid` … `WebhookAnswersOk` | `paynow_webhook`: any class overwrites the status; PAID goes through `record_payment`, whose commit takes the pending status with it, and then a second commit links the row |
| `PollReads`, `PollAnswered`, `PollWrites` | `check_payment_status`, with the gateway call in between |
| `TillAsks`, `TillStep`, `TillAnswers` | `POST /fees/payments` (`api/routes.py`) |
| `GatewayAccepts`, `PayerPays`, `PayerDeclines`, `PaymentReversed` | Paynow, external: notices stay in `reported` and may arrive late, again or out of order; PAID ones may name different amounts |
| `ProcessDies` | crash and restart; rows and notices stay |

`Flushed` models the unit of work of SQLAlchemy: a column set to the value it was
loaded with is not written.

### AttendanceSync (with AttendanceRegister above it)

The worker `Loop` takes the batches of `POST /attendance/sync` one at a time
(nothing is awaited while a batch is processed); `Threads` serve
`POST /attendance/records`. Both run `process_sync_batch`:

| Model | Code (`attendance_service.py`) |
|---|---|
| `FindBatch`, `AnswerRecorded` | Step 0, the batch-level lookup |
| `ReadRows`, `ReadEvents` | Steps 1 to 3, each query a step of its own |
| `SkipEvent`, `MergeEvent` | Step 4, one event at a time: replay check, conflict rule, bookkeeping. An event without a time takes the server's clock |
| `CommitBatch`, `RefuseBatch` | Step 5, one commit, or its refusal by a unique constraint |
| `LoseSession` | a lost connection or process: nothing was written |

`AttendanceRegister` is the promise, for writers that overlap: a writer looks at some
cells (`Look`) and later delivers a whole batch, each cell judged by what it *saw*
there (`Deliver`), or gives up (`Forget`). A first mark never takes a cell that
somebody marked meanwhile; a later one may overrun such a mark. `heard`
(history) collects the marks of committed batches and is mapped to the register's
`heard`, `Looked` (what each session loaded) to its `seen`. `overrun` (history)
collects the marks that a commit from a stale reading hid behind an older one;
nothing else may hide a later mark (`LatestWins`).

### OfflineQueue

| Model | Code (`packages/offline-core`) |
|---|---|
| `Enqueue`, `StartPass`, `TakeAction`, `LeaveList`, `List` | `enqueue` and `processQueue`, with an action for each await |
| `UpdateGets`, `UpdatePuts` | `updateActionStatus`: a get and a put of the whole record in two transactions |
| `ServerSaves`, `ServerRefuses`, `NetworkFails` | the services and the network, external. `Refusals` names the shapes of an error answer: the platform's envelope `{"error": …}` or a body without that field, FastAPI's own `{"detail": …}` |
| `ReadsAsSuccess`, `MarkSynced`, `MarkFailed` | what `api-client` takes for success, and what the queue records. `misread` (history) collects the saves whose refusal was taken for success |
| `PressButton`, `RetryNext`, `ClearNext`, `ButtonDone` | the sync-center page: retry one, retry all, clear synced |
| `ConnectivityChanges`, `CloseTab` | the browser |

The list of a pass is kept as a set and taken in the order of `createdAt`.
Several managers may be at work: another tab, or a page that was mounted again
while an earlier pass goes on (`stop()` does not end a pass).

### CurriculumAdoption

One national subject (a tree of units and topics, with a version) and one
school's copy. A row is named by its code path, and the columns that an upgrade
copies are one value, `attr`.

| Model | Code (`national_curriculum_routes.py`, `curriculum_routes.py`, `bulk_curriculum.py`) |
|---|---|
| `CreateNational`, `ImportNational` | authoring forms and the bulk import; an import writes a row's attributes and its parent |
| `PublishNational`, `RepublishRead`, `RepublishWrite` | publication, and the release of a next version: the status and the version are read in one statement and written in a later one |
| `CreateSubject`, `CreateLocal`, `ImportLocal` | a school's own subject and rows |
| `AdoptRead`, `AdoptWrite` | adopting: the tree is read, then cloned in one commit, or only the subject if there is no tree yet |
| `UpgradeRead`, `UpgradeWrite` | the upgrade: rows matched by their national id, new ones added, parents rewired; refused when a school's own row has a code of a new one (`Collisions`) |
| `PreviewAdds…`, `PreviewUpdates` | what `upgrade-preview` counts |

### StudentRoster

Drafts submitted by teachers and reviewed by administrators, students, parents,
links and enrolments (`student_service.py`, `drafts.py`, `bulk.py`). Every
operation is a pair: `ReadFor…` and the commit that follows (`ApproveStudent`,
`RejectStudent`, `ApproveParent`, `RejectParent`, `CreateStudent`,
`UpdateStudent`, `DeleteStudent`, `CreateEnrolment`, `LinkParent`);
`ImportStudent`, `ImportParent` are rows of the CSV import, `ReadForPromotion`
the year-end promotion, which enrols through `CreateEnrolment`. `Crash` drops a
request between its reading and its commit. `CreateParent` enters a parent with any
phone, the empty one (`NoPhone`) included; reviews then look that one up for every
draft without a phone. `UpdateEnrolment` sets the status of an enrolment without a
look at its student. `raced` (history) collects the rows that two requests worked on
at once, `reopened` the students off the roster whose enrolment such an update opened.

### MarkBook

The marks of one assessment and the question bank
(`assessment_service.py`, `assessment_routes.py`, `question_bank_routes.py`).
`SaveReads`, `SaveCommits`, `SaveKeepsKey` are the bulk save, an async handler:
its database work is not interrupted by another save, but the process may die
before the key of the request is kept, in a transaction of its own.
`GradeReads`, `GradeLooksUp`, `GradeCommits` are automatic grading in a pool
thread: it reads the questions, then the student's row, then writes the columns that differ from
what it read (`Written`) and the questions' counters. `SubmitDraft`,
`ReadDraft`, `ApproveDraft`, `RejectDraft`, `CreateQuestion` and `Compose` are
the bank.

### ReportingPipeline

The log of events, the consumer, and the two feeding tools
(`services/reporting-service`). `Take`, `Load`, `Commit`, `Fail` are one event:
a handler reads the projection rows of the event's school, adds to them in
memory and commits them with the inbox row; a failed transaction is rolled back
and the loop goes on. `OffsetLands` is the asynchronous commit of the offset,
which `ConsumerRestarts` falls back to; `Pass` are the events nobody handles.
`ConsumeChunk` (a tool that feeds a file, `BatchSize` events per commit) and
`Wipe` with `Replay` (rebuild: delete everything, replay in chunks) run beside the consumer.
A projection row is kept as how often each event is in it, of which every count
and sum that the handlers keep is a function.

### GatewayBreaker

`circuit_breaker.py` under the calls of the proxy. `AllowRequest`/`Forwards`,
`Answers`, `TriesAgain`, `Fails` are a call; `RecordSuccess`, `RecordFailure`
the breaker's two methods; `Cools` the recovery timeout; `GatewayRestarts`
forgets the breaker, which lives in memory.

### GatewayDoor

What surrounds the forwarding of a request (`api-gateway/app/routes.py`, `middleware/stack.py`,
`main.py`). `ComesIn` looks up permission and kind of
path in the two ordered tables, of which the first prefix that fits decides;
`Check` counts the request in a window computed from the clock read before, in
one step of Redis; `RedisFails` lets it pass; `Forward` is any outcome of the
proxy. `StartProbes`, `Ready` and `ServeCached` are readiness: whoever finds the
cached answer too old probes service after service, awaiting each.

### Deliveries

The outbox of announcements: `CreateAnnouncement` stages entries, `ReadPending`,
`AttemptDelivery` and `CommitBatch` are a batch of the service's engine or of the
notification worker, which share the table without a lock and differ in patience
(`MaxRetries`, `MaxTries`); the worker looks for the recipient first, on every
channel, and fails the entry of one who is gone (`Outcomes`). `LoseBatch` is a batch that dies: its rows are rolled
back, what it handed out is not. `WhatsAppCallback` is a report of the provider
about a message. `ReadRetry` and `CommitRetry` are the administrator's retry, in a pool
thread: it reads the entry, and later writes PENDING and, if the count it read was not
zero, a count of zero. `again` (history) collects what was handed out in a batch that
died, in two at once, or on request; `stale` the entries whose last retry had read a count
of zero that was no longer zero when it committed.

### MinistryRollups and SchoolReports

Both say what a report answers as a function of what its queries saw
(`seen[q]` of a ministry report, `school` of a school's own), and run the
queries one at a time where the code makes several, with other requests'
commits in between (`Commits`, `Commit`); an enquiry of a school also waits
for the finance service, one learner after the other. `MinistrySpec` and
`ReportsSpec` start from any rows of the types (`CountryTypeOK`, `SchoolTypeOK`) and
let any request commit. What the code leaves to the database is left open: `Sorted`
is one of the orders in which learners of one score may come. The properties compare
reports with each other: provinces and districts with the nation, the pupils of
a donor's or a fee report with those of the rows, a gradebook with the report
cards and the class average, a day's register with the trend of its learners,
coverage of a topic with the works that carry it, an archive with the rows
committed before it was asked for.

### Handlers, and the desks built on it

`Handlers` is a plain `def` endpoint as this code base writes them all: it reads
rows, decides, and commits what it computed from that reading. No row is locked;
an `UPDATE` writes the columns that differ from the row as read (`Written`); only
a unique key refuses a commit. `Reads(c, req)` begins a request and notes in the
history `raced` everything it works on together with another request in flight;
`Ends(c)` ends it; `GivesUp(c)` is a death or a lost connection before the
commit. Extending it:

| Module | Code | Operations |
|---|---|---|
| `SchoolDesks` | `ops_routes.py` (library, assets), `special_routes.py` (boarding), `parent_life_routes.py` (conferences, meals, slips), `staff_routes.py` (leave) | issue and return a book, assign and end a bed, book a conference slot, top up meal credit, sign a slip, move an asset, decide a leave |
| `SchoolCalendar` (extends `SchoolDesks`) | `school_service.py` | create and update academic years and terms, with activation |
| `FeeDesk` | `fees_service.py`, `bulk_fees.py` | `create_invoice` with its two unique keys, CSV import of a structure |
| `MessageDesk` | communications | open a thread, send, mark read; dispatch, requeue and deliver an invitation |
| `OncePerKey` | `eduzim_shared/idempotency.py`, announcements, initiate | look a key up, work, store the key in a later commit |
| `Accounts` | identity service | users, invite, resend, accept, login, refresh, logout, admin reset, forgotten password |
| `HomeworkLibrary` | `content_template_routes.py`, `national_templates_routes.py`, `student_life_routes.py`; `attachment_routes.py`, `storage.py` of communications | draft/publish/archive/adopt, create, upload and delete files, instantiate with cloned files across two services, submit, grade |
| `SchoolOffice` | `org_routes.py`, `special_routes.py`, `community_routes.py`, `onboarding_routes.py`, `bulk_teachers.py`, `school_service.py`, `student_service.py` | create the next version of a policy, create a campus, create, update and delete a class or subject, assign a class teacher, link a student's login, import teachers, move a school, pass checks and go live |
| `SchoolRecords` | every service | read a row, change some columns, save what differs: one operation per kind of record (`Filed`, `Upserted`) |
| `Filing` | every service | check, insert one row, write its audit row: one form per handler, which says whether it looks first, has a unique key, hangs on another row, calls out before it commits, and where the audit row is written |

## 4. Runs

Every passing run has, for each of its properties, one mutant or more in
`PROJECT.json`: a slip of the code (written before the definition it would
replace and marked "Slip") under which TLC finds the property violated. The slips
are not used by any specification.

| Run | Instance | Shows |
|---|---|---|
| `ledger` | one invoice of two cents, two sessions, one sweep, one key and no key, amounts −1, 1, 1.5 and 2 cents, at most three rows, with and without row locks | `LedgerBalanced`, `NeverOverpaid`, `OneRowPerKey`, `StatusHonest`, `LedgerOnlyGrows`, and that the service implements `FeeLedger` |
| `checkout` | one transaction, notices that name twice its amount or none, two webhook sessions, one till, two crashes, with and without row locks | `MoneyIsReal`, `OkMeansSettled`, `WebhookKeyIsFree`, and that the checkout moves the ledger by its own steps |
| `checkout_live` | two transactions of half the balance whose notices name all of it, one webhook session, one crash | `PaidIsSettled` |
| `checkout_wedge` | one transaction, one webhook, one till | **violated**: `WebhookAnswered` |
| `attendance` | three overlapping batches of two devices over two cells, one pool thread with two online requests, one lost session; or three requests at the gateway's door on five paths, with and without token, and overlapping readiness probes of its services | `LatestWins`, `RecordedWhole`, `EventCountsOnce`, `BatchIsRecorded` and the implementation of `AttendanceRegister`; `DoorAgrees` |
| `attendance_overrun` | the same batches and requests | **violated**: `LatestMarkShown` |
| `offline` | two managers, one page, two saves, a limit of two attempts, one closed tab; refusals with and without the `error` field | `NothingLost`, `SavesSettle` |
| `academics` | a unit and two topics, two versions, one ministry and two offices; or two students, three saves, two questions, two drafts and one death | the copy (`CurrentMeansComplete`, `ParentsResolve`, `PreviewForetells`, `CustomUntouched`) and the marks (`MarksAreLast`, `BankIsExact`) |
| `roster` | two administrators, two codes, two drafts, one phone and none, two years; reviews, parents, or the desk. Or two schools, one of which may have no row or no codes; two pupils and two teachers, or two rows of one table; any report, one change between two queries. Or a school of two learners, two papers and one guardian; marks, register, risk, coverage or archive | `ReviewsAreExact`, `FamilyLinks`, `DeleteAndEnrolExclude`; `MinistryAgrees`; `SchoolReportsAgree` |
| `reporting` | two events of one school and a poisoned one of another, files committed by twos, consumer and tool; or three calls through the breaker with thresholds of two and two attempts; or an outbox of two entries, two batches at once, limits of one and two attempts, one WhatsApp message, one retrying administrator | `ProjectionIsFold`, `NothingSkipped`, `EveryEventSettles`; `BreakerAgrees`, `BreakerRecovers`; `DeliveriesAgree` |
| `desks` | three callers; one book of two copies, two rooms, three stays, one slot, two years, two terms and one of the rest; two or three of each thing of the office | `SchoolAgrees` |
| `services` | two callers; two or three of each thing, one of what is not compared | `AccountsAgree`, `HomeworkAgrees`, `ServicesAgree` |

Bounds, and why they are enough to be interesting:

* Two cents and amounts of one, one and a half and two cents give two payments
  that fit alone and overpay together, an exact settlement and a rounding at the
  boundary. Two sessions are what a race needs; a third cannot pass the lock.
  `MaxPayments` stops new requests at three rows.
* In `checkout`, two notices of one transaction cover repetition and races; the
  till competes for the balance; two crashes hit both gaps between commits.
* In `checkout_live` two transactions compete for one balance, which gives the
  case of a charged payer whose payment does not fit. There is no till: with
  one, the wedge makes the property false (that is what `checkout_wedge` is for).
* The batches of `MCAttendanceSync` were chosen so that an event is repacked with
  an edit, one has no time, one carries no id, and marks arrive in decreasing and
  increasing order. One thread beside the loop is what a stale reading needs.
* In `checkout` notices name twice the amount of the transaction or none, which gives
  a payment of another amount than the payer was asked for, one that fits and one that does not.
* In the outbox focus of `reporting` retries are asked only of the entry that is not
  in-app, and no count passes `MaxTries`; one administrator retries. Two at once made the
  run too long; the theorem covers any number.
* `offline` uses a limit of two attempts instead of five: the limit matters only
  for being reached or not. With two saves no refusal is misread. The constraint `OneAtATime` lets both managers work at
  once on one save, and one at a time as soon as there are two saves. A race of two
  managers over two *different* saves is thereby left out of the run; the theorem
  about `NothingLost` covers it.
* `attendance`, `academics`, `roster`, `reporting`, `desks` and `services` check components that
  share no row beside each other. The MC module keeps a variable `focus`, fixed
  by the initial state: one behaviour is about one component or one desk, all the
  others stand still, and the invariants are evaluated for all. This costs the
  sum and not the product of the components. Bounds on what a behaviour may do
  are conjuncts on the next state (`Bounds'` in the MC modules): at most two
  edits of attributes and parents in the two trees, two answers counted by
  grading, what may be repeated without end counted twice, and in the wider foci one
  thing raced about. The comments of the MC modules name each. A second race would
  be about rows of its own.
* `roster` leaves out approvals that also enrol, which are an approval and an
  enrolment in one commit, and keeps enrolment to the "desk" focus.
* The reports start from enumerated states that hold what their properties tell
  apart: two papers with maxima of 100.00 and 200.00 and marks such as 49.98,
  which rounds to a pass; register days of five periods with some of them missed,
  up to three days; learners with no, an open, a part-paid or an overdue bill;
  pupils of every status in a registered school, one without codes and one without a row.
  One change meanwhile is what distinguishes two queries from one.
* At the door a window of one tick and three requests reach a limit, a
  border between windows and a clock that moves between its reading and the count.
* The calendar focus stops after a race: what a race leaves is outside what the
  property claims (section 7).
* `CHECK_DEADLOCK FALSE` stands where a bounded run really ends: every thing
  used up (`academics`, `roster`, `reporting`, `desks`, `services`) or, in
  `checkout` and `checkout_wedge`, the process wedged with no crash left.

The agreement properties (`SchoolAgrees`, `ServicesAgree`, `AccountsAgree`,
`HomeworkAgrees`, `DeliveriesAgree`, `DoorAgrees`, `MinistryAgrees`,
`SchoolReportsAgree`) are conjunctions, one named part per desk, each with its comment and at least one slip of the code that
violates it. A part has two kinds of claims. What every overlap leaves true is
stated without a condition: books on the shelf between none and all, a slot
booked exactly when one booking holds it, credit never above what was paid in, a
leave showing one whole decision, one user per address, one row per key, bytes
for every live attachment, the columns of a record each showing what somebody was last told, an
audit row for every row that was answered with success and lives in its transaction.
What the code only keeps when requests do not overlap is hedged by `raced`,
and the hedge is as narrow as the code permits: it names the rows both requests worked on, not "some
race happened".

## 5. Fairness

* `checkout_live`, `checkout_wedge`: a webhook handler and a thread go on; a free
  loop gets to answering a finished request (strong fairness, since other work
  may occupy the loop in between); and the gateway repeats a PAID notice until it
  reads Ok, as the comment of the handler says (strong fairness on the notice).
  Nothing is assumed of the payer, of the poll, or of when a process dies.
* `attendance`: a worker goes on with its batch, and a device sends a batch
  again until it is recorded. The app does so every 30 s, but gives up after five
  failures until the teacher presses Retry: the assumption includes that press.
  Lost sessions are bounded by `MaxLost`, races with online marking are not.
* `offline`: the interval timer starts passes while the device is online, and a
  pass or a button goes on while its tab is open. `SavesSettle` assumes that at
  some point the device stays online and requests stop failing
  (`NetworkRecovers`). It excepts a record whose tab was closed while it was being
  sent: no code lists a SYNCING record again.
* `reporting`: the consumer loop goes on (weak fairness of its steps), and it is
  restarted finitely often (`<>[][~ConsumerRestarts]_…`): a consumer that is killed
  before every commit gets nowhere. Tools and publishers owe nothing.
* Gateway (in the same run): time passes, somebody keeps asking, a forwarded call
  is answered or fails, and from some point on the service is up
  (`<>[][~ServiceDown]_…`). Then the breaker closes and stays closed.

## 6. Proofs

`tlapm` checks eight modules with 51 theorems that `PROJECT.json` lists and the
lemmas they rest on. They hold for any sets and numbers that satisfy the named
assumptions of the modules (that what is summed or counted is finite, that keys and
null values are not confused, that limits are positive).

All invariants follow one pattern. Apart from the row lock of
`record_payment` no handler keeps anything from changing while it works, so a promise is not inductive alone: one
must say, for each request in flight, which part of what it read is *still true
when it commits*, because nobody takes it back, because everybody else is
refused or waits, or because the thing is in `raced`.

**PaymentProofs**, the ledger. `IInv` is inductive (`InductiveInvariant`). The promises
alone are not: that a commit keeps `paid <= Total` needs to know that the
arguments still fit the snapshot of the session (`LoadedIsPayable`) and that the
snapshot is current when the compare-and-swap matches; `LockKeepsSnapshot` needs
that a session past its checks holds the row lock (`LoadedHoldsLock`); and
`LedgerBalanced` needs lemmas about the sum over the payments table when a row is
appended. The sums are recursive functions over `0..Len(log)`, whose one-step
unfolding is all the proofs use. From `IInv` follow `TypeCorrect`,
`PaymentsBalance`, `NoOverpayment`, `KeysRecordOnce`, `StatusIsHonest`,
`LockProtectsSnapshot`; `RecordedMoneyStays` is an action property, and
`LedgerRefined` shows that each step posts a payment or leaves the abstract
ledger alone.

**PaymentProofs**, the checkout. `CheckoutRefinesPayments`: every step of the checkout
is a step of `FeePayments` or leaves its variables alone, with any number of
transactions, webhooks, polls and tills. So the theorems above hold for the
composed system (`CheckoutKeepsTheBooks`). `BookedMoneyIsReal` says that a payment
under the key of a transaction has the amount that one of its PAID notices named, or its own
amount if that one named none. It, `OkIsFinal` and
`WebhookNeverCollides` rest on `SettledInv`: the amount a webhook books was named by a
notice (`BookedIsAmount` types it); webhooks take turns on the
loop and nobody else uses their keys, so a key found free stays free until
the commit; a row the gateway has reported on is filled in; and a webhook rejected
under a real row lock read that there is no room, which stays so because
`paid` never falls.

**AttendanceSyncProofs.** `TypeCorrect` strengthens the type invariant by
`RowsStay` (a row a session has loaded is still there). `BatchesAreWhole` adds
`IdsKept`: the id of every event of a busy session is still to be merged, or
known to be processed, or about to be recorded by the session itself.
`EventsCountOnce` adds that a session merges an id once (`IdsMergedOnce`); between
sessions the unique constraint refuses the second commit. It assumes
`IdsAreDevices`, that no two devices make one id, as the unique constraint is per
device. `LatestMarkWins` and `RegisterImplemented` hold for any number of threads: they need
`JudgeInv`, that each mark a session has merged was judged by the row it *loaded*. If that
row is still stored, what is written is what the merge computed; if not, the marks it leaves
behind an older one are in `overrun`. `LoopShowsLatest` is what is left of the plain
rule: with the event loop alone (`Threads = {}`) nothing is overrun and `LatestMarkShown`
holds. With a thread it is false (section 7).

**OfflineQueueProofs.** `NoSaveIsLost`, for any number of saves, managers and
closed tabs. That a record says SYNCED is decided some awaits before it is put,
so `QueueInv` is about what a process has *decided* (`Decided`): it will write
SYNCED only for a save the server has performed, will clear only records it saw
SYNCED, and what it retries or lists was no more than waiting. It assumes nothing of
the answers: what was refused without an `error` field is in `misread`, and only a
refusal puts a save there.

**AcademicsProofs.** `CurriculumInv` adds to the promises that what was released is still in the national
tree (`ReleasesInTree`), that the version on show was released
(`PublishedIsReleased`), that a school without the subject has no row
(`NoSubjectNoRows`), and that what a request in flight read is still true enough to
act on (`RequestsSound`: rows it saw linked still are, as no handler unlinks one).
`CurrentCompleteHolds` and `ParentsResolveHolds` follow for any number of units
(the run has one, where the second is nearly empty); `CustomRowsAreKept` is an
action property; `PreviewsForetell` compares the preview with the upgrade on any
typed state. For the marks, `MarkBookInv` says what a save, a grading and a review
know (`Knows`, `SaveKnows`) and that a save is in the key store only after it was
performed (`SavedOnce`): `MarksStayLast`, `BankStaysExact`. They need that a
score lies between none and `MaxMarks`, and that the questions are finitely many.

**RosterAndReportProofs**, the roster. Rows and links never vanish, so what a request found is
there; what it found pending, not enrolled or not linked is still so unless another
request on the same row was in flight with it, and then the row is in `raced`
(`Grounded` requests, `OneAtATime`). From this `ReviewsStayExact`
and `FamiliesStayLinked`, where a link that a review made knows the phone its draft gave.
`DeletionExcludesEnrolment` is an invariant of all deleted students and all enrolments,
however an enrolment came about; it excepts students in `raced` and `reopened`.

**RosterAndReportProofs**, sums. Every report counts and adds up, and nearly all
its promises say that a sum by groups is the sum of the whole: an induction over finite
sets, for which the library's theorems take an operator that no installed prover
can instantiate. It is made by *least counterexample* instead. Strict
inclusion is well-founded on the finite subsets of a set (`FS_StrictSubsetOrderingWellFounded`
of `FiniteSetTheorems`), so a family of subsets without a least member is empty
(`LeastSubset`, `NoLeast`). The fold behind `Total` and `SumOf` is a CHOSEN
function: that a function with its equation exists is `AddsExists`, that two of them agree is
`AddsUnique`. From these come `SumFirst`, `SumSplit`, `SumPlus`, `SumAtMost`, and the two
facts all reports use, `SumGroups` (a sum by the values of any function is the whole) and
`CountCover` (a set is at most as large as its covers together).

**RosterAndReportProofs**, the ministry. `NationAlwaysAddsUp` holds for each typed
country, so it needs only `CountryIsTyped`: schools split by their code, rows and
pupils by their school, a teacher is counted once per region at least.
`ReportsAreAlwaysSound` needs `ReportInvariant`: each query of the report under way
saw *some* typed country (`ReportShape`), the present one if nothing
overtook it (`OneCountry`), and nothing is on the audit trail before the answer. That
a part is at most its whole is then a fact about two counts of one query, or, for
the policy report, about two queries of one country.

**RosterAndReportProofs**, a school's reports. `ReportsAlwaysAgree` is a fact about
each typed school (`SchoolIsAlwaysTyped`); its longest part is that the gradebook, grouped
by learner, and the class performance, grouped by subject, add up the same marked rows.
`EnquiriesAlwaysAgree` needs `EnquiryInvariant`: what a dropout report has listed,
read and ranked is together its page, and of now unless something was committed
(`DropoutHolds`); a guardian's archive names children that are still linked, because no
request unlinks one, and a school's, so far, is what is committed (`ArchiveHolds`).
`DropoutsAlwaysAgree` adds `RanksAreProper`: each ranked risk has the band of its score and
one signal of a kind at most. That the pages hold everybody once needs that a sorted list *exists* (the
riskiest first, by least counterexample again) and that the intervals of the
pages partition it; it is proved for the page sizes the property names, one and two. That
presence and payment never raise a risk goes signal by signal, over every order the
rows of a day may come in.

`MinistryAlwaysAgrees` and `SchoolReportsAlwaysAgree` put these together, as the run
checks them.

**ReportingProofs.** `PipelineInv` adds four facts: while no tool ran across the
consumer one session at most is open (`Alone`) and what it read still holds, its
events not in the inbox and its rows those of the tables (for
`ProjectionIsFoldHolds`); the consumer's session is about the message after its
position, and nothing it has been through is skipped, whether its
offset landed or not (`PassedOver`, for `NothingSkippedHolds`).
`BreakerInv` (types and `BreakerAgrees`) is inductive. `DeliveriesStayExact`: an entry
that was not handed out again is waiting and never handed out, or in exactly one
batch, or done, and its message follows the batch that sent it; a pending one has
attempts left unless it is in `stale` (an administrator who retries saw a row that is
still there, `RetriesInv`, and left a count of zero). An attempt at this
proof found two overlapping arms of a `CASE` in `Deliveries`; they are disjoint now,
as the `if`/`elif` of the code. `DoorStaysExact`: a bucket of requests never falls
while its window lasts; who passed was counted within the limit, and the first that
was refused came after as many as the limit allows, so that nobody is refused while
there is room; an answer moves one number of the metrics; and what a readiness probe
knows of a service it saw since the stamp it is given.

**ServicesProofs.** `AccountsStayExact`: a request about an invitation, a login, a
session or a link still has the row it read unless raced; a user has the address its
invitation had. `HomeworkStaysExact` follows the bytes of a file: an upload in
flight has bytes and no row, a deletion has its row, an instance being made has no row and one
maker, and a file that was found had a row, so that no bytes are written after
they were deleted.

`ServicesStayExact` is about `ServicesSpec`, all services of `MCServices` without its
bounds. `ServicesInv` says that the invariant of the handlers in `focus` holds and
that the others have no rows (`OthersRest`: no step of one touches the rows of
another).

* Keys (`OnceInv`): a request past the look-up knows that the work of its key is
  not done, or that it did it itself, unless another request had the key too or one
  broke off between work and key.
* Invoices (`BillingInv`): a request that bills knows a total its structure has had;
  that there is one invoice follows from the unique pair, not from what was read.
* Messages (`MessagesInv`): one that writes a count has the count of its thread as it
  is, and what it is about to mark covers what is unread, unless the thread is in
  `raced`; the retries of a notice follow likewise.
* Records (`RecordsInv`): a kind of record has *rules*, "while the column `mark` is
  unset, `col` says one of `only`". They survive any overlap for two reasons that
  need each other: a request that sets `col` to something else sends `mark` too, and
  a mark once set is never unset, so that an UPDATE that leaves `mark` out because
  it did not differ from what was read leaves it set. `RecordsAgree` alone is not
  inductive. That a row is removed is known to those who read it: they save both
  columns of an opt-out, so all of it is in `raced`.
* Forms (`FilingInv`): the calls made for a paper are at least its rows *and* the
  requests that have called and are about to store (`CallsCover`).

**SchoolProofs.** `SchoolStaysExact` is about `SchoolDesksSpec`, all desks, the calendar
and the office of `MCSchoolDesks` without the bounds of the run. `SchoolInv` says, as
`ServicesInv` does, that the invariant of what is in `focus` holds and that the rest has no rows.
Fifteen of the sixteen invariants have the same three parts: the types; what a
request in flight knows of the rows, which is still so or in `raced`; and the
promise. Some of them say more:

* Library (`BookWell`): the copies on the shelf and those on loan are together what the school
  has, and a request that returns a loan knows that the loan it read is out.
* Boarding: a request that has counted the beds knows that the room is not full now
  (fewer occupants than its capacity), and once it has looked the student up it knows
  that the student has no bed, unless the room or the boarder is in `raced`.
* Calendar: a row that is about to be written fits *all* others of its scope, and is
  active only if the others are about to be deactivated or it was the active one; what it read,
  the column-wise UPDATE of what differs gives the row that was meant. A term's
  year exists always, but its dates may have moved.
* Campuses: the campuses a request is about to clear are those that are primary.
* Classes and subjects (`NamesAgree`): holds however requests overlap, as the unique
  key is asked about the row as it *will* be, not about what was meant.
* Go-live: every check before the one a request is at passed when asked, and what
  ceased to pass is in `lapsed`.
* Invitations of teachers need no requests at all: one import is one step.

`DeskAssumption`, `CalendarAssumption` and `OfficeAssumption` say that the null values are
neither rows nor people; the run evaluates them.

`MinistryAssumption` and `ReportsAssumption` say that what is counted is finite and
that null values are no numbers, learners or grades; the runs evaluate them.

The type invariants `TypeOK` of `FeePayments`, `CurriculumTypeOK`, `AttendanceSync!TypeOK`, `CountryTypeOK` and
`SchoolTypeOK` of `SchoolReports` are theorems and are not run.

Only model-checked is all liveness (`PaidIsSettled`, `BatchIsRecorded`, `SavesSettle`,
`EveryEventSettles`, `BreakerRecovers`), which is out of reach of the prover. Every other
property of a passing run is stated by a theorem.
## 7. Where code and documents disagree

Two disagreements have a run that ends in a violation (`PROJECT.json` quotes the
lines):

* **`checkout_wedge`**: the webhook blocks the event loop on the row lock of
  a rejected cash request, whose session only the loop can close.
* **`attendance_overrun`**: "latest last_modified_at wins" (`attendance_service.py:12`,
  and `docs/decisions/010`, line 25, for attendance) is false when `POST /attendance/records`
  (a pool thread) and the sync overlap on a cell: the one that read first and commits last writes
  its older mark over the newer one.

The others came up while modelling. The properties are stated so that they hold
around them, as their comments say; each can be reproduced by dropping the hedge.

Money:

* The defaulters query turns an invoice that was paid in between back to OVERDUE
  (`fees_service.py`, `get_defaulters`): `StatusHonest` says what PAID means, and
  nothing of a settled invoice that is not PAID.
* A fraction of a cent leaves an invoice fully credited and never PAID: the amount
  as sent is compared, the amount as stored is rounded.
* The status poll writes PAID without a payment row, against the lifecycle
  documented in `models/fees.py`; confirming a manual payment only sets PAID,
  although its docstring says that it finalises `paid_amount`.
* Audit rows are "best effort" and `record_audit_event` must "NOT abort the
  caller's work" (`eduzim_shared/audit.py`), yet the row joins the caller's
  transaction. For the national curriculum it does not: its handlers commit before they record it,
  nothing commits afterwards, and the audit rows are rolled back
  when the session closes (`shared/eduzim_shared/routes.py:178-185` speaks of a fall-back commit).
* A crash between the work and its key repeats an announcement or a payment
  start on retry, and two requests at once under one key work twice.

Attendance, marks and the queue:

* A refusal without an `error` field counts as success (`client.ts:98`), and the save is
  dropped from the queue. `POST /attendance/sync` refuses a batch it cannot
  authorize with a 503 and "Your changes have not been saved; please retry." in `detail`
  (`attendance_routes.py:78-86`). `RefusedSavesStay` in `OfflineQueue` states what that promises;
  it is false, and no run checks it: `NothingLost` excepts the saves in `misread`.
* Two managers that keep failing on one save may reset each
  other's retry count for ever, and a save whose tab is closed while SYNCING is
  never sent again.
* The queue sends a save again with a fresh `X-Request-Id`, so an older page of
  marks retried after a newer one overwrites it: `MarksAreLast` is about the
  last save the server performs. Automatic grading across a save can leave a
  row absent and with marks, although `models/assessment.py` says null when absent.

Curriculum and roster:

* A republished version tells schools they are stale and can upgrade
  (`national_curriculum_routes.py:360-363`), but the upgrade is refused for ever
  by the unique constraint (`models/curriculum.py:60`) once a school's own row has the code of
  a new national one. Two republications at once raise the version by one. The
  preview does not count parents that an upgrade rewires, against
  `docs/decisions/024`, line 20.
* `approve_parent_draft` looks for the phone "" and inserts "(unknown)", so
  it never finds what it inserted. It does find a parent that the desk entered with an
  empty phone (`student_routes.py:77` sets no length), and then links every draft without a phone to
  that one (`drafts.py:440-444`): `FamiliesStayApart` says what is left.
* "Enrollment for soft-deleted student rejected" (`services/academics/tests/test_student.py:19`)
  holds of POST. PUT looks only at the enrolment (`student_service.py:359-380`) and enrols
  a deleted student again; `DeleteAndEnrolExclude` excepts these (`reopened`).
* `promote_students` compares with "ACTIVE",
  which no enrolment has. `bulk.py:202` calls a method that does not exist and
  swallows the error. An approval and a rejection at once leave a rejected draft with a student.

Desks, homework and accounts:

* `update_academic_year` never checks its terms, though `school_service.py:151`
  says "Term dates must fall within academic year". Two activations at once can
  leave no active year or two, and two updates at once a year that ends before it begins.
* Two issues of the last copy both succeed, a room can be overfull after a race,
  two parents' signatures on one slip can mix, and a found asset keeps its old
  holder.
* `POST /onboarding/go-live` "asserts every academics-side step is green"
  (`onboarding_routes.py:22`), but only a red step blocks it (line 273); an amber one lets the school
  through. A step that was green while the request worked may turn red again, the teachers'
  step by removing a class teacher too: `lapsed` collects those.
* A failed clone of a file is a "row-level error in the response" only according
  to the comment; the response just counts. Nobody marks the attachments of a
  deleted owner deleted, against `models/attachment.py`. A clone that answers late
  is audited as failed although the files appear. A resubmission keeps its old grade.
* A self-service password reset leaves the sessions alive, the administrator's
  ends them. "Create a fresh invitation" after five resends returns the same row,
  still at five. `POST /invitations` is said to answer a repeated call with "the existing
  row's token + manual_code" (`invitations.py:29-32`); it makes new ones and keeps their
  hash, so the first token is dead. The tokens of an invitation are not told apart in
  `Accounts`, which asserts nothing of them. An invitee with a phone only gets an address at which no
  one can log in.

Reporting and gateway:

* Publishers wrap an event so that `school_id` is never at the top level, and
  the topics subscribed are not those published, although `consumer.py:7`
  claims a match: the events of the platform's own services are all
  `unhandled`. A rebuild that meets a poisoned event leaves the projections
  empty. A tool across the consumer loses or doubles counts (`mixed`).
* A success that arrives late closes an open circuit, and a half-open one lets
  any number of probes through.

Announcements:

* No route and no worker makes an outbox entry for anybody: every route
  builds `CommunicationService(db)` with the default audience resolver, which finds
  nobody, and only tests call `process_pending`. `Deliveries` starts behind that: an
  audience was found.
* A provider's report that is faster than the batch's commit finds no message, is
  acknowledged and dropped. A batch that dies is handed out again. A retry makes an entry
  PENDING "so the worker picks it up again on its next sweep" (`routes.py:231-232` of
  communications); one that read the entry failed at a count of zero (nobody to have it) and
  commits after others have retried and counted writes the status but not the count: at the
  limit the worker never picks it up (`stale`). A deleted
  announcement is still delivered.

Gateway door:

* The first prefix of `SERVICE_ROUTES` that fits decides, and `/api/v1/comm`
  (`routes.py:54`) stands before `/api/v1/comment-bank` (`:69`), so that the
  comment bank's paths go to communications. Some rules of `RBAC_MAP` are
  likewise never reached (those of the comment bank, 335-338, among them).
* A sync that names no device shares the bucket of its caller's other requests, with a
  different limit. Fixed windows allow twice the limit across a border.

Ministry reports:

* National counts of pupils and teachers include those filed under a school without
  a row, regional ones do not; a teacher of two regions is counted in both.
* The rate of attendance is documented as P / (P + A + L) (`ministry_routes.py:311`);
  late pupils count as not present. The pupil–teacher ratio speaks of active classes, which its
  query does not look at.
* The policy report counts dropouts and pupils in two queries, so that a rate can
  exceed one. A comparison of no schools leaves no audit row, and a
  failed audit is swallowed, though "every aggregation call is recorded" (`:15`).

A school's own reports:

* `class_performance` divides the average of the counted marks by the average
  maximum over all rows, absentees included: papers of different maxima can average
  above 100 %.
* "N+ consecutive days absent" (`dropout_engine.py:65-90`) counts attendance rows, so
  one day of five periods counts five times, and the rows of a day have no order.
* An average that rounds to 50.0 is shown as a D and does not pass. A mark beside an
  absence counts on the report card and not in the gradebook.
* The archive of a parent ends in an error after its bytes were sent: `_stream` of
  `export_routes.py:297-301` uses a `buf` it does not have. The files of a school's
  archive may not fit together if rows are added while it is made.
* Attendance rows and marks may name a learner the school does not have: neither has a
  foreign key and no handler looks. Learners of one score
  are listed by name, those of one name too in no fixed order, so that two requests
  for pages may repeat one of them and leave out another.
* No code sets `archived_at` or `deleted_at` of topics, works and assessments, which these
  queries filter by.

## 8. What is not modelled

* Of the ledger: nothing that changes state. Of the checkout:
  demo mode, the signature check, and a notice whose amount reads as NaN (its comparison raises,
  the answer is a 500 and nothing is booked); Paynow's
  reference is taken as stored at initiate, so that a transaction has one key.
  The `Idempotency-Key` of initiate is in `OncePerKey`, apart from the ledger.
* Of the attendance service: the authorization before a batch, the Kafka event
  after it, the list of batches.
* Of the offline queue: the read cache, the 409 shortcut (no sync handler's route
  answers 409), the token refresh of the client. A handler's effect is one step,
  "the server performs the save"; what the server then does is `AttendanceSync`
  and `MarkBook`.
* Of the curriculum: objectives, resources and lesson links; rows more than one
  level deep; archiving; a second adoption under another code.
* Of the roster: the phone of a parent that changes (its rule is in `SchoolOffice`), the
  class checks of enrolments.
* Of the academics routes: lists, `/ministry/geography`, and what the fields of a form
  say. A form or record that only differs in its fields is one value of `form` or
  `kind`.
* Of the reporting service: the endpoints that read the projections (dashboard, trends,
  financial), Excel and PDF layout, and messages that are no JSON object.
* Of communications: the resolution of an audience, templates and wording; a provider's
  report is one step.
* Of the gateway: headers, cookies and the decoding of tokens; internal paths (404,
  not counted), an administrator's passing every check, the test mode without a limiter.
* Tenancy: one school; every query of the modelled parts is scoped to it, except
  the idempotency lookup of payments and the reports of the ministry.
* Web pages, themes, deployment, migrations, seeds and scripts: no state machine of
  their own, and about half of the repository's lines. The constraints that the
  migrations create are read from the models.
