# A TLA+ model of Panelist

Panelist routes grading tasks to experts, compares the grades of a task, has
them reviewed, pays for them and exports them as a versioned dataset. The
program is a FastAPI service over PostgreSQL with no in-process state: every
request is one database transaction at READ COMMITTED, the tables are the
state, and the concurrency is that of transactions that overlap. Most of its
hard behaviour lies in one question: what does a transaction still believe that
another one has changed since it read it?

These modules answer it for the core services. They are read with TLC on small
instances and, for the theorems below, with TLAPS for every value of the
constants. Run in this directory:

    tlasany TaskFlow.tla
    tlc -workers 2 -config MCTaskFlow_trio.cfg MCTaskFlow
    tlapm TaskFlow_proofs.tla

`PROJECT.json` maps each definition to the lines of `src/` it stands for, and
names for each property a mutation of the code that breaks it.

## How the code becomes actions

- A table is a variable, or one variable per column that matters. A row is
  named by what is unique about it: a grade by its task and expert
  (`uq_grade_task_expert`), a review by its grade, a payout by its grade, a
  delivery by its version.
- A handler whose first read of each row that it changes takes the row's lock
  (`SELECT ... FOR UPDATE`, an `UPDATE ... WHERE`) is **one action**: nothing
  that another transaction commits can come between what it read and what it
  writes.
- A handler that acts on a row it has read without a lock is split **at that
  read**. The session keeps what it has loaded in the identity map: a later
  `SELECT ... FOR UPDATE` waits for the lock but does not refresh the object, and
  a flush writes only the attributes that differ from what was loaded. So an open
  transaction is a record with the values that it loaded, and
  `Written(...)` writes only what differs from them.
- An error response, a lost connection and a crash of the process all come to a
  session that is closed without a commit (`db.get_db`): an action that drops
  the record of the open transaction. Nothing else is lost by a crash, as nothing
  is kept in memory; the one thing that is not rolled back is the object store of
  the deliveries.
- Rows inserted by an open transaction are not visible to others; `"open"` in
  the histories of `Ledger` and `Calibration` marks them. `created_at` is
  PostgreSQL's `now()`, the beginning of the transaction, so a signal or a
  check takes its place in the order when its transaction begins, not when it
  commits.

## The parts of the system

| Part | State it keeps | Operations | What is hard |
|---|---|---|---|
| Routing (`routing.py`, `routers/tasks.py`) | `tasks.status`, holder, lease, `served_count` | claim_next, claim_by_id, release, reclaim_expired, create_tasks | claims that race, leases that expire while a grade arrives, golden tasks that never complete |
| Grading and review (`grading.py`) | `grades`, `reviews`, `grades_received` | submit, review, _requeue | reviews of one task at once; the count of grades still in play |
| Consensus (`consensus.py`) | `consensus` | evaluate, redeliver, resolve | which grade stands after rejections in any order |
| Rubric versions (`rubrics.py`) | `rubrics.superseded_by_id`, `tasks.rubric_id`, `pinned_rubric_id` | publish, superseded_among | publications between a claim and its grade, or between two graders |
| Payouts (`payouts.py`) | `payouts`, `payout_periods` | create_for_grade, release_withheld, close_period | a period that closes while approvals and pauses are under way |
| Attention checks (`attention.py`) | `attention_results`, `experts.status` | evaluate, rolling_pass_rate, enforce | checks at once; a pause against an approval |
| Calibration (`calibration.py`) | `experts.tier`, score, samples, `tier_changes` | score, update | updates at once; bands, window, flapping |
| Delivery (`delivery.py`) | `deliveries`, the bucket | export, verify | exports at once; a crash between the object and its row |
| Reports (`ops.py`, `analytics.py`, lists of the routers) | none | lists of work, overview, reminders, agreement | several queries over the same rows have to tell one story |
| Migrations and their deploy (`alembic/`, Terraform's migrate container) | the catalog, `alembic_version` | upgrade, downgrade, the restart of a service task | two tasks migrate at once, one dies, the old release serves on |
| Experts, keys, audit, CLI | rows of `experts`, `api_keys`, `audit_events` | CRUD, `panelist tick`, bootstrap | little of its own, see "Not modelled" |
| `sim/`, `web/` | - | - | not modelled, but for the schema's reset |

The parts meet in the rows they share. A submission of a golden task runs an
attention check, which may pause its expert and update the calibration; a
review creates a payout and updates the calibration; an adjudication does both
for every grader; a claim reads the standing and the tier that these have
written; the export reads what reviews and rounds have decided. The modules cut
these connections where one side reads only a value:

- `TaskFlow` takes the expert row of a claim (active or not, rank of the tier)
  as a parameter with any value, so whatever the calibration and the attention
  checks do is covered.
- `Ledger` takes any grade of an expert as approved at any time, once;
  that a grade is reviewed at most once is `VerdictFinal` of `TaskFlow`.
- `Calibration` takes any sequence of signals; experts share nothing there.
- `Delivery` takes its rows from `Dataset`, the promise that `TaskFlow` is
  proved to implement, and moves tiers at will.
- `Rubrics` repeats the states of a task only as far as versions depend on them.
- `Reports` and `PayoutReports` read the state of `TaskFlow` and of `Ledger` and are checked
  in their runs. `Agreement` composes `TaskFlow` with the versions that its grades are given on,
  which the reports on agreement depend on; a publication is one step there.
- `LockOrder` has every kind of transaction at once, and of the rows only what decides which
  ones are locked next.
- `TaskFlow` takes a claim as one step. `Routing` shows why it may: taken apart into
  the statements that the database executes, claims still implement one lease
  per task. There, a graded task goes back to the queue or leaves it at will.

## The modules

| Module | What it is |
|---|---|
| `Consensus` | the choice of the delivered grade: `WithinTolerance`, `ClosestToMean`, `Repick`, in integers (a mean is compared by its sum and the number of grades) |
| `Dataset` | what the export promises: at most one row per task, and no row is taken back |
| `TaskFlow` | queue, leases, claims, grades, rounds, reviews, adjudications; implements `Dataset` |
| `Leases` | what routing promises to experts: a task is leased to one of them at a time, and graded once by each |
| `Routing` | claims, sweeps, submissions and releases under row locks; implements `Leases` |
| `Statements` | what payout periods promise: a grade is in one statement at most, a closed statement never changes |
| `Ledger` | payments, periods, attention checks, pauses, reinstatements; implements `Statements` |
| `Calibration` | one expert's signals, score and tier |
| `Rubrics` | the versions of one rubric and the tasks graded against them |
| `Archive` | what versions of a delivery promise: 1, 2, 3 ..., and what is read under one never changes |
| `Delivery` | exports over a table and a bucket; implements `Archive` |
| `Reports` | what operators and reviewers read of the task flow: lists, overview, reminders, decisions |
| `Agreement` | the task flow under rubric versions, and the reports on the agreement of its graders |
| `PayoutReports` | totals, statements, ledger and unbilled money over `Ledger` |
| `Schema` | the five revisions as sequences of statements over a catalog, and the schema of the models |
| `Migrations` | the schema under a rolling deploy: migrations that race, fail and die beside tasks that serve |
| `LockOrder` | the order in which every transaction locks its rows; who waits for whom |
| `Sums` | the laws of sums over finite sets that the reports' theorems need |
| `TaskFlow_proofs` (with `Reports` and `Agreement`), `Routing_proofs`, `Ledger_proofs` (with `PayoutReports`), `Versions_proofs` (`Rubrics` and, through `MCDelivery`, `Delivery`), `Calibration_proofs`, `LockOrder_proofs`, `Migrations_proofs` (with `MCMigrations`) | theorems |
| `MCTaskFlow`, `MCAgreement`, `MCRouting`, `MCLedger`, `MCCalibration`, `MCRubrics`, `MCDelivery`, `MCLockOrder` | instances for TLC |
| `MCMigrations` | `Migrations` with what the five scripts do when nothing disturbs them, for TLC to evaluate |

A definition called a *faulty variant* is not part of the specification. It
states a plausible mistake in the code, and serves to see that the property that
guards against it is able to fail.

### TaskFlow

`status`, `holder`, `lease`, `received` are the columns of `tasks`; `score` and
`position` the grades and their order of submission; `verdict` the reviews;
`round` and `delivered` the consensus rows; `reviewing` the reviews in flight.

| Action | Code |
|---|---|
| `Expire` | the clock passes `lease_expires_at` |
| `ReclaimExpired` | `POST /tasks/reclaim`, `panelist tick`, and the beginning of each claim |
| `ClaimNext`, `ClaimById` | the two claims, each with the reclaim it begins with |
| `Release` | `routing.release` |
| `Submit` | `grading.submit`, with the round it opens (`consensus.evaluate`) |
| `StartReview` | `grading.review` up to the flush of the review: the grade is locked, the task is loaded |
| `FinishReview` | its rest: the task's lock, `_requeue` or the new status, `consensus.redeliver`, the commit |
| `AbortReview` | no rate card (422), or any failure before the commit |
| `Resolve` | `consensus.resolve` |

The order of the queue, the priorities and the keyed hash that prefers golden
tasks decide only *which* eligible task is claimed; since claims skip rows that
are locked, any eligible task may be the one, and the model takes any.

### Routing

`status`, `holder` and `live` are columns of `tasks` (`live`: the lease has not
expired), `open` the transactions under way, each with the rows that its UPDATE has
still to visit (`todo`), those it has reclaimed, and the row it has selected; it holds
the locks of the last two. What it has changed is not in the variables before it
commits.

| Action | Code |
|---|---|
| `Begin` | the snapshot of the UPDATE in `reclaim_expired`, in a claim or a sweep |
| `ReclaimRow` | the UPDATE gets the lock of one of these rows and checks it again |
| `PickNext` | `_pick`: the first row, by priority, deadline and seq, that is eligible and not locked |
| `PickById` | the SELECT of `claim_by_id` |
| `Commit` | `_assign` and the commit in `routers/tasks.py`; a claim that found nothing |
| `BeginGivingUp`, `GiveUp` | `submit` or `release`: the lock and the check, then the commit |
| `Abort` | 409, 403, 423, any failure, a deadlock that the database breaks |
| `Expire`, `Requeue` | the clock; a rejection that requeues |

Two idealisations: a lease does not pass *while* an UPDATE waits for its row (it is
hours long, the wait is not), and the SELECT of `_pick` is one step. Within that one
statement PostgreSQL takes the grades from the snapshot and the row from its newest
version, so a task that its expert claims *and* grades between the two would be served
to them again; the unique constraint then refuses their second grade.

### Ledger

A payment (a review's or an adjudication's) has loaded its experts when it
begins: `BeginPayment` remembers whose were paused, `FinishPayment` creates the
payouts by that. A failed check reads the rolling rate (`FailCheck`) and enforces
it (`FinishFailed`); both act on the standing loaded at its beginning. A status
change releases on the standing it loaded. Closing a period is one UPDATE.

`MCLedger` adds history variables. `alone`: no two transactions have overlapped. `leftPending`:
what was pending when an admin paused its author, who is paused since; `set_status` withholds
nothing. `leftWithheld`: what was withheld when its author went from paused to inactive, and still
is; only the step from paused to active releases. The properties named `Alone...` are the promises
that hold as long as nothing overlaps, with every standing an admin may set (the divergences below
say what becomes of them otherwise); the others hold whatever overlaps. `AloneSpec` is `Ledger`'s
behaviour with these variables and no bound of its own; TLC explores `MCSpec`, a bounded part of
it, and the theorems about `Alone...` are about `AloneSpec`. `MCCalibration` has an `alone` for
`Calibration`.

### Reports and PayoutReports

One operator per query. A report is a value of one state: what is said of two reports is said
of the moment in which both are read. The overview runs its queries one by one, each with a
snapshot of its own, so a response may mix several moments. Means are left as a sum and a
number.

### Agreement

`Flow` is a step of `TaskFlow` with what it does to versions: a claim pins the one that the task
is on, a grade is given on the pinned one (`gradedOn`). `Publish` is `rubrics.publish`, from any
version: its check reads a version that may have been superseded since. A version has one
criterion, and `Key` says which versions' criteria share a key. The reports join on different
things: `pair_agreement` and `global_agreement` on the criterion, which belongs to one version
(analytics.py:62, 130), `task_agreement` on its key (analytics.py:88). For most tasks that is the
same, since their grades are of one version. A single-grader task that was rejected, moved by a
publication and graded again has grades of two versions (`Regraded`): their pair is no pair of the
first two reports, and one of the third if the keys are equal. `ReportsAgree` says that nothing
else tells the reports apart.

### Calibration

`BeginSignal` and `BeginTick` load the expert; `Update` reads the signals and
computes score and tier; `Commit` writes the columns that differ from what was
loaded, and the `tier_changes` row. A rate is a whole number of thousandths, which tells
all rates of windows up to 32 apart, so the window is bounded by 32
(`CalibrationAssumption`); the code's default is 20. Whether a rate promotes or demotes is
decided on the numbers of agreeing signals and samples, without the rounding.

### Rubrics

`BeginPublish` and `BeginCreate` have found a version current, without a lock;
`FinishPublish` and `FinishCreate` act on it. Claims pin, submissions grade
against the pin, rejections put back single-grader tasks. Nothing serialises publications, so any
number may be open. `made` keeps what the audit event of a publication records, its version and
the previous one, and, as history, the newest version when it loaded that one; it guards nothing.

### Delivery

`Select` runs the query of `_rows`, `Build` loads the experts with their tiers
and makes the body, `Number` reads `MAX(version)`, `Store` puts the object,
`Commit` inserts the row and commits; `Fail` is every failure and every crash.
A row of the table also keeps, as history, the newest version when its export began.
A checksum stands for the body it is the hash of, and the twelve digits in the
object's name are taken to be enough to tell bodies apart.

### Schema and Migrations

A catalog is a set of objects (tables, later columns, indexes, foreign keys, enum types and
values, the row of `alembic_version`). A statement adds and drops objects, locks tables and
updates rows; PostgreSQL refuses one that adds what is there, drops what is not, or leaves a
row with a value that its type has not. `Upgrade[v]` and `Downgrade[v]` transcribe the
revisions; each ends with Alembic's `Move` of the version row, which fails if another
migration has moved it. `SchemaOf(v)` is what one upgrade after the other makes of nothing,
`Metadata` what `models.py` declares.

| Action | Code |
|---|---|
| `Release` | a new image, with one more revision |
| `Start` | the migrate container of a service task: `alembic upgrade head` reads the version |
| `Reset` | `alembic downgrade`: `reset_schema` of the benchmarks, an operator |
| `Run`, `Fail` | the next statement, accepted or refused; statements wait for the other migration's locks |
| `Commit` | `run_migrations_online`: one transaction for all revisions; then the api container starts |
| `Crash` | the task dies; the transaction is rolled back |
| `Serve` | a serving task of any release writes a row; it waits for locks and needs what its models map |
| `Stop` | a task of the old release is stopped |

After the first statement of a migration, another one waits until the first has ended: the
scripts begin with a statement that needs what the other one has locked (the version row, the
same table, or the same name). A reset is taken to begin while no task migrates.

### LockOrder

A transaction has the rows it holds (`held`) and those that its current statement has still to
lock, in order (`todo`). What locks a row: `FOR UPDATE`, an UPDATE, and the foreign key of a row
that names it. The last is easy to miss: the insertion of a review, and each write of
`delivered_grade_id`, lock the grade they name (`KEY SHARE`) against a `FOR UPDATE`. Writes
come when the session flushes: before the next query (autoflush) or at the commit.

| Action | Code |
|---|---|
| `BeginSweep`, `BeginClaim`, `BeginGivingUp`, `BeginReview`, `BeginResolve`, `BeginPublish`, `BeginStatus`, `BeginClose` | the first locking statement of each kind of transaction |
| `Lock` | a statement gets its next row, or waits |
| `PickTask` | `FOR UPDATE SKIP LOCKED`, then the expert's `served_count` |
| `ScoreExperts` | the tick's walk over the experts by name |
| `Grade` | `submit`: the round's pick, the pause of a failed check |
| `ReviewTask`, `ReviewExpert` | `review`: task and round, then redelivery and score |
| `ResolveTask`, `ResolveGrade` | `resolve`: the task, then grade by grade the grade and its author |
| `MoveQueue` | the UPDATE of `publish`: any of the queued tasks without a grade in play, as the others are on other versions; requeued single-grader tasks are among them (`Untouched`) |
| `Commit...`, `End` | the commits; every other end, the victim of a deadlock included |

Idealisations: two runs of one UPDATE statement meet its rows in the same order, except for the
one of `publish`, which may use another plan; experts have distinct names; the payouts of one
expert are one row; a lock on a grade is exclusive; requests that are bound to be refused are
left out, since they hold one row and wait for none.

## What TLC checks

| Run | Instance | Shows |
|---|---|---|
| `trio_reviewed` | one task for 3 of 4 experts, scores 1-4, tolerance 2, 3 reviews in flight | in any order of reviews and adjudications: rounds open exactly with the last grade; an agreed round delivers a grade that is not rejected; nothing is reviewed under an open adjudication; an approved task has its row or an unreviewed pick, and the reminder counts the latter; no undecided grade is missing from every list; decisions are final; `Dataset` is implemented |
| `solo_requeued` | a single-grader task and a golden one, 3 experts, scores 1-2, 2 reviews in flight, 2 versions whose criteria share a key, fair | `grades_received` is the number of grades in play, and tells whether the task waits; golden tasks stay reusable and out of the dataset; three agreement reports compare the same grades, but for those of a task that was moved to another version between two grades; a lease that is abandoned ends |
| `overlapping_reviews` | one task for 2 experts | **violated**: `RowsOfApprovedTasks`, see below |
| `payouts_ledger` | 2 experts, 3 grades, 2 periods, 3 transactions open | `Statements` is implemented; the books balance; withheld money is never paid before a release; as long as nothing overlaps, a paused expert has pending only what an admin's pause left, another one withheld only what the step to inactive left, and a failed check below the threshold pauses |
| `late_approval` | 1 expert, 1 grade, 2 transactions open | **violated**: `PausedWithheld` |
| `calibration_signals` | window 5, 4 samples, 8 signals, 2 transactions open, fair | `tier_changes` leads to the tier and one signal never takes a move back, as long as updates do not overlap; a score left stale by overlapping ones becomes current again |
| `rubric_versions` | a single-grader task and one for 3, 4 versions, 2 transactions open, publications among them | a version is superseded twice only by publications that overlapped, and the versions form a chain otherwise; a round compares grades of one version; what was shown is graded; a task in the queue keeps up |
| `deploys_rolling` | 2 hosts, 5 releases, 1 crash, 1 reset, a task and a key | the committed schema is that of its version, and at head that of the models; a migration fails only when it was overtaken; serving tasks of the release before find what they map; tasks under way get their pin |
| `deploys_end` | 2 hosts, 5 releases, 1 crash, no rows, fair | a task that begins to upgrade ends up serving |
| `lock_circles` | 2 sessions, every kind of transaction over a task for 2 and, beside it, a golden one, a requeued single-grader one, or another one for 2 | there are two kinds of deadlock and no third, see below |
| `exports_overlapping` | 2 rows, 2 tiers, 2 exports in flight, versions 1 to 3 | versions have no gap, read back as described, never change, and lack rows only of versions that were committed while their export was under way |
| `claims_locked` | 2 tasks, 2 experts, 3 sessions | statement by statement, `Leases` is implemented; an UPDATE that waited takes no live lease; `claim_next` serves nobody a task that they have graded |

### Bounds

Every bound is a constant with a guard of its own, or a named constraint of an instance.

- *Experts, tasks, grades.* Tasks do not touch each other's rows, so one task
  with several graders and one single-grader task beside a golden one are enough
  for `TaskFlow`; four experts for three seats let a claimant be turned away.
  Experts of `TaskFlow` are symmetric in the run that declares it: no definition
  but the parameters tells them apart, and the order of submission is `position`.
- `Sessions`: a sweep or a claim that waits, the one it waits for, and a third that
  overtakes both. Experts and sessions of `Routing` are symmetric (only equality tells
  them apart); tasks are not, for `Place` orders them.
- `MaxReviews`: three reviews at once are all the grades of the task.
- `Scores` 1-4 with tolerance 2: agreeing, tied, and disagreeing triples.
- `MaxOpen`: two transactions that overlap show every hazard we know; three let
  a third one come between them.
- `MaxOverlappingChecks`, `MaxOverlappingSignals`: as `MaxChecks` and `MaxSignals`, once
  transactions have overlapped; in `MCLedger` only one expert's transactions follow then. The
  long histories matter to the `Alone...` properties, the overlaps to the others.
- `MaxChecks`, `MaxSignals`: the window is full and has dropped a result.
- `MaxVersions`, `MaxPublishing`, `MaxExports`: a publication or an export before,
  during and after another, two of them open at a time. `solo_requeued` has two versions: a
  task moves once, which makes grades of two versions.
- `Checked` of `MCLedger`: one expert grades golden tasks and is the one whose standing admins set,
  to any value; the other one shows that nothing of theirs is touched. `Checked` of
  `MCAgreement`: the golden task is leased, graded and reviewed before the other one is graded, and
  rests afterwards, with its grades but without reviews; what a handler does to one of them does not
  depend on the other, and no report on agreement reads reviews.
- `Hosts`: a task that migrates and one that races it or serves beside it. `MaxCrashes`,
  `MaxResets`: one of each, at any point; a second would start from a schema that is that of
  its version again (`CatalogOfItsVersion`), and the theorems are for any number.
  `deploys_end` has no reset, after which an old release has no revision to upgrade to.
- `Sessions` of `LockOrder`: circles of two. `Checked` of `MCLockOrder`: beside the task for two,
  one other task at a time, in the part of its life in which transactions of different tasks meet:
  leases that run out, claims and failed checks with the golden one, a publication that moves both
  tasks with the requeued one, two open adjudications with the second one for two. Circles of
  any length, over any number of tasks, are the matter of the theorem.

### Fairness

`Fairness` of `TaskFlow`, in `VersionedFairSpec` of `Agreement`, has weak fairness of the
clock and of the reclaim: `panelist tick` runs from cron or an ECS scheduled task (ARCHITECTURE.md,
"Operations"). Claims, submissions and reviews are not fair: nobody has to grade.
`FairSpec` of `Calibration` adds weak fairness of the steps of open transactions
(a request waits for nothing but the database, and ends), and strong fairness of the
tick's own steps: not every tick fails. `FairSpec` of `Migrations` has weak fairness of each
host's start, statements and commit: the service restarts a task whose container failed, as
the api container depends on the migrate container's success (`main.tf`).

## Divergences met

Two are runs of their own.

1. **A rejection overwrites an approval it has not seen** (`overlapping_reviews`,
   grading.py:160). The review loads the task before it locks it; the approval of
   another grade commits in between. The task ends `rejected` while the dataset
   keeps its row. `ApprovedSticks` shows that this is the only way: a review
   that *begins* after the approval never takes it back.
2. **A late approval pays a paused expert** (`late_approval`, payouts.py:48).
   ARCHITECTURE.md:29 says that approvals for a paused expert are created as withheld.

Others came up while modelling. They are in the model, and a property that does
not hold with them is checked where they cannot happen:

- A row of an export carries the tier that its expert has when the export runs
  (delivery.py:45), so after a promotion the same approved set has another checksum,
  although ARCHITECTURE.md:63 says "The same approved set always yields the same
  checksum". `Delivery` moves tiers at will and checks each version against its own row.
- ARCHITECTURE.md:10 says of two claims that "nobody waits". SKIP LOCKED does not, but
  the UPDATE before it does: for the overdue rows that another claim has just reclaimed,
  and for all those that a tick has, until it has gone through every expert. Nothing
  is lost by it (`claims_locked`).
- Two publications from one version both go through: both have found it current, and neither
  locks it (rubrics.py:21). If the second reads the highest number after the first has
  committed it takes the next one; the version then names the second as its successor, and two
  versions stay current. ARCHITECTURE.md:19 says "Publishing from a superseded version is a
  409". `rubric_versions` has such publications, and `Chain` says what is left: a version is
  superseded twice only by publications that had loaded it before.
- A task that was leased while a version was published returns to the queue without a grade and
  stays on the superseded version (routing.py:165): publications move queued tasks only, and
  none starts from that version again. README.md:250 says that `rubric_id` "follows the newest
  version while queued". `QueuedKeepUp` shows that only tasks that were leased, graded or
  created around a publication are left behind.
- The reminder "have been rejected twice and are back in the queue" (ops.py:153) counts by
  rejections alone: a task that is graded again, or approved since, is still counted.
  `ReportsAgree` has what is left of it.
- Two reviews of one task can deadlock: a rejection holds the task and picks the grade
  whose review waits for the task (consensus.py:113). So can a resolution and a tick, or two
  resolutions, on experts' rows: one goes by grades, the other by names. PostgreSQL fails one
  of the two requests, and nothing retries it.
- `panelist bootstrap --key` prints "admin key ready" also when that key is there but has been
  revoked (cli.py:46).
- `claim_by_id` does not ask whether the expert has graded the task before
  (routing.py:148); their second grade fails on the unique constraint, and the
  lease ends by itself.
- An admin's PATCH to `paused` withholds nothing (routers/experts.py:121): what the expert has
  pending stays pending, and the next closing pays it. Only a failed check withholds, as
  ARCHITECTURE.md:29 says of the check. `AlonePausedWithheld` says that this is the only way for a
  paused expert to have pending money, as long as nothing overlaps.
- An expert who is paused, set to `inactive` and then to `active` keeps their
  payouts withheld: only the step from `paused` to `active` releases
  (routers/experts.py:122). `AloneWithheldPaused` says that this is the only way to have money
  withheld without being paused, as long as nothing overlaps.
- A newer version of the dataset may lack rows of an older one: an export selects its rows before
  it reads its number (delivery.py:126-128), so one that selects early and numbers late commits
  version 2 without rows of version 1. `LacksOnlyOverlapping` says that it lacks rows only of
  versions that were committed while it was under way.
- The agreement per task groups scores by the key of their criterion, the agreement of pairs and
  the global one join on the criterion (analytics.py:88; 62, 130). A single-grader task that was
  rejected, moved to a new version and graded again is compared by the first and by neither of
  the others (`ReportsAgree`).
- Two failed checks at once: neither rate counts the other's result, and an
  expert below the threshold stays active until the next failure
  (attention.py:67). `AloneLowRatePauses` is checked as long as nothing overlaps.
- Two calibration updates at once record one move twice in `tier_changes`
  (calibration.py:71). `AloneHistoryExplains` is checked as long as updates do not
  overlap; `ScoreFresh` always.

## What TLAPS proves

For any tasks, experts, scores, grades, tiers, hosts, and any number of transactions in flight.
Every invariant and action property of the runs is here;
the bounds of the runs are constants in these theorems, with any value.

| Module | Theorems |
|---|---|
| `TaskFlow_proofs` | `TypeCorrect`, `InvariantHolds`; `ClosestToMeanPicks`: the delivered grade is one of the pool, none is closer to the mean, and none as close is earlier; `VerdictsAreFinal`; `DatasetImplemented`: `TaskFlow` implements `Dataset`; `FlowInvariant`; of the task flow `GradeCount`, `QueuedWhileIncomplete`, `RoundWhenComplete`, `DeliveredStands`, `AdjudicationUntouched`, `GoldenReusable`, `ApprovedAccounted`, `ApprovedSticks`; of the reports `RemindersTrue`, `NothingOutOfSight`; of `VersionedSpec` `ReportsAgree` |
| `Routing_proofs` | `RoutingInvariant`, `LeasesImplemented`, `LiveLeases`, `NeverServedTwice` |
| `Ledger_proofs` | `LedgerInvariant`, `StatementsImplemented`, `WithheldMoneyWaits`; `BooksAlwaysBalance`; of `AloneSpec` the three `Alone...` properties |
| `Versions_proofs` | of exports `DeliveryInvariant`, `ArchiveImplemented`, `LackingMeansOverlapping`; of rubrics, whatever publications overlap, `RubricInvariant`, `RoundsCompareOneVersion`, `ShownVersionIsGraded`, `VersionsFormAChain`, `QueueKeepsUp` |
| `Calibration_proofs` | `TypeInvariant`; of `AloneSpec` `HistoryExplainsTier`, and `OneSignalTakesNothingBack` if the band is wide enough |
| `LockOrder_proofs` | `DeadlocksAreKnown` |
| `Migrations_proofs` | `MigrationsInvariant`; `CatalogIsVersions`, `OnlyOvertakenFail`, `ServingReads`; `UpgradePins` |

The assumptions are the named ones of the modules (`TaskFlowAssumption`,
`RoutingAssumption`, `LedgerAssumption`, `AmountAssumption`, `ReportsAssumption`, `AgreementAssumption`,
`RubricsAssumption`, `CalibrationAssumption`, `LockOrderAssumption`, `MigrationsAssumption`;
the exports need none):
experts, and for the reports tasks and grades, are finitely many, as are the sessions of
`LockOrder`, where names and scan list each expert and each task once; every task requires a
grade at least, scores are positive, amounts are not negative, and constants have their types.
One theorem has a hypothesis, `OneSignalTakesNothingBack`: `WideBand`, that is
`(PromoteAt - DemoteAt) * MinSamples > 1000`: among the fewest samples that count, one signal
weighs less than the distance of the two edges. The code's defaults (0.9, 0.6, 5 samples) have a
product of 1.5, and so has every window from there. Settings without it, like a single sample, do
flap: a signal takes the rate from one edge to the other. Of the two kinds of history variables,
those in `Delivery` and `Rubrics` are read by no guard, and those of `MCLedger` and
`MCCalibration` are added to the behaviour from outside.

**Why nothing is taken out of the dataset.** A row of a task with a round is its
delivered grade, when that is approved; a row of a single-grader task is its
approved grade. `VerdictFinal` keeps the approval, so a row could only go when the
round changes its pick, or come twice when a single-grader task gets a second
approved grade. The first: `redeliver` picks again only when the delivered grade is
the one being rejected, which was not approved; that needs `ReviewsOfGrades` (a
review in flight has its grade to itself, from the row lock of the grade). The
second: a single-grader task waits for a grade only when all of its grades are
rejected (`SingleWaits`). A round that opens while grades are approved could
also hide a row; `SeveralWait` says that a task with several graders has no review, nor
one in flight, before its round is open. An adjudication could overrule a
review; `AdjudicationWaits` says there is none. These four with `TypeOK` are
`IInv`, which is inductive, although the review acts on a stale task:
`_reject_if_consensus_pending` reads it unlocked, yet a task leaves adjudication only by
`resolve`, and becomes pending only by a submission to a task that waits, which no review in
flight is of.

**Why counts and rounds are right.** Three layers. On top of `IInv`, `CountInv`:
`grades_received` is the number of grades in play and tells whether the task waits. A rejection
writes a count that it computed from the task it loaded, so this needs `LoadedComplete`: what a
review in flight has loaded is a complete task, and of a single-grader task the count 1. On top of
both, `RoundInv`: a round is open exactly for the complete tasks with several graders, its pick
stands, and an approved task has an approved grade (`ApprovedByReview`). `FlowInv` names
what of this no property says, and `trio_reviewed` checks it.

**Why the reports agree.** A sum of the community modules is a fold whose recursion chooses its
order. `Sums` proves what its value does not depend on: the order (`SumTake`), the grouping
(`SumByClasses`, `CountByClasses`) and the names of the elements (`SumRenamed`). The provers
have no induction over sets; the lemma `Smallest` takes its place: a law that fails for
some subset of a finite set fails for a smallest one. A report is then a matter of naming the
class of each row: a payout's row of the ledger, its period, the pair of experts of a
comparison. `ReportsAgree` needs one invariant more, that the grades of a task are ranked
without ties (`Ranked`): `task_agreement` counts a pair of grades once because exactly one of them
comes first. And it needs to know which tasks have grades of several versions: `VersionInv` says
that a golden task, or one for several graders, has grades of one version only, since a publication moves
tasks without a grade in play, and that a single-grader task has grades of several only after a
rejection. For tasks with grades of one version the join on the criterion and the grouping by
key compare the same pairs (`KeyedIsJoined`); so the sums over pairs of experts, the global report
and the golden tasks are equal, and the exact agreements of the regular tasks, added up with
and without the regraded ones, enclose the global number (`ExactBetween`). `BooksBalance` needs that a paid row is one with a closed period.

**Why a task has one holder.** A transaction acts on rows it has locked, no row is locked
twice (`LockedOnce`), and whatever it has found behind a lock still stands when it
commits (`Stands`): reclaimed rows are overdue, the selected row is queued or reclaimed,
the row given up is held by its expert. Rows that others change are not its own, which is
all that the induction needs; the lemmas `StepKeeps` and `EndKeeps` say it once for the
steps that change no row and for those that end a transaction.

**Why a statement does not change.** A payout has a period exactly when it is paid,
and no payment in flight has a grade with a payout; so the UPDATEs of a pause
(pending to withheld), of a release (withheld to pending) and of a closing (pending
to paid) never meet a paid row.

**Why money and standing agree as long as nothing overlaps.** `AloneInv`: at most one
transaction is open, and what it has read is still so (`Undisturbed`), the rate of a failed check
included; the status of every payout is then decided on the standing that the expert has, or is
explained by `leftPending` or `leftWithheld`, which only a status change adds to.

**Why a version does not change.** An object's name has the checksum of its content, so
a put can only replace an object by an equal one (`ReadsBack`); the object is there
before the row; and numbers come from the highest committed version, so that the
version of an export is in `1 .. Newest + 1` and the unique column admits only
`Newest + 1` (`Numbered`).

**Why what was shown is graded.** A pin is set with the lease and kept while the task is
leased or graded (`AssignedPinned`, `GradedAgainst`); publications move queued tasks without a
pin only. A version becomes current with its publication, which supersedes the
one before; whatever an open publication has loaded was current then, so a sibling committed since
has a higher number than all that it had seen (`ChainInv`). That is why two versions from one come
only from publications that overlapped, and why, when there are none such, each version is followed
by the next.

**Why one signal takes nothing back.** The last move was made on a rate beyond one edge
(`Supports`). One signal more changes the number of agreeing signals among the last ones by one at
most, also when the window drops another one (`OneMoreKeepsSide`), which by `WideBand` is not
enough to reach the other edge.

**Why deadlocks are of two kinds.** `IInv` of `LockOrder_proofs` says of every statement of every
transaction which rows are held when it waits, and for which row (`Shape`). Three facts make it
inductive: whoever holds a task keeps others from changing it, an UPDATE meets its rows in
order (`InOrder`), and a review gets past its grade only when the task is settled, which
is why it meets no submission and no resolution (`Settled`, `Life`). From there it is a
chase along the rows, `BehindMoney` to `BehindTask`: whoever waits for the payouts
of an expert waits for a closing, which waits for the payouts of a later one, and never comes
back; whoever waits for a grade waits for another review of the task; nobody in a circle waits for
a round; whoever waits for an expert waits for a tick or a resolution, and ticks alone go by
name. What is left would be a circle over tasks alone, of sweeps, ticks and claims that
reclaim in one order: none, since a finite order has a last task (`NoAscent`). A publication
moves queued tasks in an order of its own, but it could only be waited for by another one, and
there is one row of the rubric to hold. Circles may have any length: a set of transactions that
wait for each other has a circle in it (`CircleAmong`), and a deadlock is a smallest one.

**Why migrations do not hurt each other.** The schema is five fixed scripts, and what they do one
after the other is computed, not proved: `ScriptsAssumption` says of every place of every upgrade
and downgrade which statement follows, that it is accepted, which values it may take away and what
is locked by then. It has no parameter, and TLC evaluates it whenever it checks `deploys_end`.
What is left to prove is that a migration is where its script says it is, with other hosts, crashes
and serving tasks around it (`OnPath`): only one migration has locks; a row that a serving task
writes is of a table that is not locked, so it has no state that was converted before (`LocksRows`),
and a value is taken away only when no row can have it (`KeepsRows`). A migration that another has
overtaken sees the other's version row (`Overtaken`), so it cannot get past the `Move` that ends
its first revision: it commits nothing. From there `CatalogOfItsVersion` and
`FailsOnlyOvertaken` follow at once, `InProgressPinned` because the pins are set behind the lock
that adds their column, and `ServingTasksRead` because versions only grow without a downgrade.

Model-checked only:

- *Liveness* (`AbandonedReturns`, `ScoreFresh`, `DeployEnds`): fairness is out of the prover's reach.
- *What the scripts compute* (`ScriptsAssumption`): evaluated, see above.

`IInv` of `Ledger`, `Delivery`, `TaskFlow` and `LockOrder_proofs` and the parts added to them in
the other proof modules were checked with TLC before they were proved; the runs have what follows from them.

## Not modelled

- *`served_count` and the golden preference*: planned; `Routing` is the one queue or the other.
- *Amounts*: a constant of the grade (`Amount`); the rounding of a fraction of the rate (half
  to even) is planned.
- *Floating-point means* in `_closest_to_mean`: integers here; grades whose distances
  differ by a rounding error are out of reach.
- *The directory instead of a bucket*: `write_bytes` is not atomic, so an export of the
  same version and body that crashes half way can truncate a committed file.
- *API keys and scopes*: a request looks its key up once, so a revocation takes effect with the
  next request by construction. *Audit trail*: an INSERT in the transaction of what it records.
- *Means and deviations per criterion*: a grade is one score here. *Metrics, serialisation,
  the list of paused experts, the last delivery in the overview*: read-only.
- *Old releases after a reset or a new head*: a task of an old release that restarts against a
  revision it does not know fails in Alembic; tasks of 3.0.0 that read `adjudication`, which
  their enum does not have, fail in SQLAlchemy. *A downgrade loses data* (rounds, pins,
  calibration), and a second upgrade does not bring it back: `Kept` says what is left.
- *The columns and constraints that come and go with their table*; prepared statements that
  a changed schema invalidates.
- *`sim/` and `web/`*: a driver of the services, and a single-threaded port of the 1.0.0
  services with a page around it. *compose, most of Terraform*: configuration.

PostgreSQL's row locks, its catalog, READ COMMITTED, Alembic's version row and SQLAlchemy's
session are external: `PROJECT.json` marks the definitions that stand for them.

## Plan

Written, in this order: the task flow with the dataset it promises, the ledger, the
calibration, the rubric versions, the deliveries, the claims under row locks, the migrations
under a deploy, the reports, the order of the locks. To come:

1. `Serves`: `served_count`, read and written without a lock, and the keyed preference for
   golden tasks that depends on it.
2. Pure functions against reference definitions: rounding of rates, rolling windows.
3. `Port`: the sequential semantics of `web/src/sim/platform.ts`.
4. `Access`: keys and roles, if a scope is ever checked against state that changes.
5. Proofs: the modules to come; the refinements and invariants of the present ones are proved.
