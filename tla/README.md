# A TLA+ model of xcp_pulse

xcp_pulse is a small self-hosted web application that collects logs from XCP-ng hosts
through Xen Orchestra, redacts them, and builds support packages. It is one Python process
with one SQLite database, a thread pool that serves requests, one thread that runs
background jobs, and a few daemon threads. Nearly everything that can go wrong in it goes
wrong *between* two statements: two requests, a request and the worker, a request and a
restart. That is what is modelled here.

Contents: [inventory](#inventory), [modules](#modules), [runs](#runs),
[fairness](#fairness), [proofs](#proofs), [findings](#findings),
[facts worth knowing](#facts-worth-knowing), [not modelled](#not-modelled), [plan](#plan).

## Inventory

| Part | Source | State it keeps | Operations | Talks to |
|---|---|---|---|---|
| Job table and queue | `app/jobs.py` | a `jobs` row per job: kind, state, created_at, cancel_requested | enqueue, claim_next, mark_\*, request_cancel, reset_orphans, has_active | every page, the worker |
| Job worker | `app/job_runner.py` | one thread, its wake and stop events | loop, run_one, wake, stop | the table; job bodies through `JobContext` |
| Process lifecycle | `app/main.py` | up or not | lifespan start (migrate, reset_orphans, finish_pending_update, worker, daily checker) and end | all of the below |
| Artifact store | `app/artifacts.py`, `app/retention.py` | a file on disk and an `artifacts` row for each result | store_file, delete_for_job, delete_job, apply | job bodies, pages |
| Job chain, support package | `app/routes/support_package.py`, `app/job_*.py` | jobs that name other jobs in their parameters | package a new or a stored collection, extract, redact, findings, inventory | queue, store, rules |
| Redaction rules | `app/redact.py` | which rules are on | set_enabled_rules, redaction itself | redaction and collection bodies |
| Collection download | `app/job_collect.py`, `app/xo_client.py` | a `.part` file, a working archive, counts | stream, salvage, mask, report | Xen Orchestra, store |
| Log dates and categories | `app/log_dates.py`, `app/log_categories.py` | none | ranges from forms, file filter, line filter | extraction |
| Self-update | `app/update.py`, `app/routes/update.py` | one `update_state` row; the updater container | check, apply, run_update, reap, dismiss, finish_pending_update | docker, the registry, the next process |
| Users and sessions | `app/users.py`, `app/security.py`, `app/totp.py`, `app/routes/auth.py`, `app/routes/users.py` | `users`, `sessions`, `login_attempts` rows | sign in and out, accounts, second factor | every request |
| Database layer | `app/db.py`, `app/activity.py` | the shared connection with its open transaction, the worker's connection, schema version | migrate, transaction, execute, commit, rollback | everything |
| TLS settings | `app/tls.py`, `app/routes/settings.py`, `docker/entrypoint.sh` | a certificate and a key file, and what nginx has read of them | install, generate, reload | nginx, the container |
| Findings rules | `app/findings.py`, `app/job_findings.py`, `app/job_inventory.py`, `app/job_log_findings.py`, `app/routes/findings.py` | the stored inventory and report | refresh, collect_findings source by source, correlate_reports | Xen Orchestra, findings jobs, the page |
| Xen Orchestra connection | `app/xo_connection.py`, `app/crypto.py`, `app/xo_client.py` | one encrypted row with the last test's result | save, delete, test, tell a refusal from an answer | Xen Orchestra, every job that asks it |
| The rest | config, logging, dashboard, docs, health, templates, docker, tests | | | |

How they interact. A route handler reads, then enqueues one or more jobs, each by a commit
of its own, and wakes the worker. The worker claims the oldest queued job and runs its body,
which reads rows and files that earlier jobs have stored, talks to Xen Orchestra, and stores
artifacts. Meanwhile other requests cancel, delete, apply a retention policy or change the
redaction rules. Request handlers share one connection whose lock covers a single call
(`_LockedConnection`), and the worker has another. For a statement that its handler commits at
once, which nearly all are, *a statement with its commit is the unit of atomicity*, and that
is the grain of most modules; what the few longer transactions do to it is `Database`.

What makes each part correct, and what is hard about it:

* **Queue and worker.** A job runs at most once; a `running` row has an owner, or had one that
  died; no finished job becomes active again; jobs are claimed in the order the chains count on;
  every job settles; no wake-up that was made is lost. Hard: check-then-act in `claim_next` and
  `request_cancel`, crashes mid-job, the race between the last look at the table and the wait.
* **Artifact store.** A file never becomes unreachable, a row never points at nothing unless
  a deletion was begun, an active job's files stay. Hard: file and row are changed by
  separate steps, deletions can fail half-way, run twice, and be cut by a crash.
* **Chain.** A package is whole and, when it is made of fresh files, masked; no body starts
  before what it depends on. Hard: what a route has read is stale when the body runs.
* **Collection.** A cut transfer yields exactly the files that arrived whole, no half-written
  file stays, reports count what was masked, the days asked for are kept. Hard: a download
  ends in six ways, and the numbers are accumulated along the way.
* **Self-update.** Every update ends, with an outcome it has earned, and leaves a container
  that runs unless its updater is gone between stop and start. Hard: the thread that does it
  dies with the container it replaces, the updater may die or fail at any command, and the
  outcome is written by whichever of three writers comes first.
* **Users.** An administrator remains; a request acts with rights its user had; a session
  that ended stays ended; a second factor that is on can be passed, and a backup code that
  was spent cannot be used again. Hard: guards that count in one statement and act in another.
* **Database layer.** Redaction fails safe, an answered handler's writes stay, the worker gets
  the write lock, a restart finds a schema it can go on from. Hard: the transaction belongs to
  the connection, so any handler's commit or rollback ends every other handler's; a script
  commits statement by statement and records its version last.
* **Settings.** A test result is about the connection it is shown with; a certificate that was
  reported as saved is the one stored, and in the end the one served. Hard: a test outlasts
  the row it read; two files are replaced by two renames while nginx may be reading them.
* **Findings.** A report names each failure that was there, once, with the right count; what
  was not answered is never shown as clean. Hard: seven sources are asked one after the other
  while rights change, pools refuse, and the server comes and goes.

`PROJECT.json` lists every component with its status, every hazard with its line, and for
every definition the lines of the source it stands for.

## Modules

| Module | What it is |
|---|---|
| `WorkQueue` | abstract specification: an at-most-once queue, without rows, threads or statements |
| `JobQueue` | the jobs table, the worker and the request handlers; implements `WorkQueue` |
| `JobQueueProofs` | theorems about `JobQueue` |
| `ArtifactStore` | files and rows, deletion, retention, crashes between any two steps |
| `ArtifactStoreProofs` | theorems about `ArtifactStore` |
| `JobChain` | the jobs a support package is built from, and all that interferes |
| `JobChainProofs` | theorems about `JobChain` |
| `Collection` | one collection with its download, salvage and report, then extractions from it |
| `CollectionProofs` | theorems about `Collection` |
| `SelfUpdate` | the update row, its four kinds of writer, and docker |
| `SelfUpdateProofs` | theorems about `SelfUpdate` |
| `Accounts` | users, sessions, sign-in, the second factor, the checks that open a request |
| `AccountsProofs` | theorems about `Accounts` |
| `Database` | the shared connection's transaction, the worker's connection, the write lock, migrations |
| `DatabaseProofs` | theorems about `Database` |
| `XoConnection` | the connection row with its saves, deletion and overlapping tests |
| `TlsInstall` | certificate and key, the entrypoint, nginx and its reloads |
| `Settings` | `XoConnection` and `TlsInstall` in one container |
| `Findings` | a refresh or a findings run against a Xen Orchestra that changes, and the page |
| `SettingsFindingsProofs` | theorems about `Settings` and about `Findings`, which share no variable |
| `MC*` | instances for TLC: symmetry sets, and the model values that are records |

The modules share no variables; they meet at facts that one of them establishes and another
assumes, except in `Settings`, which composes two: one stop takes the container from both.
`JobChain` numbers jobs in the order they are claimed, which is `JobQueue`'s
`ClaimsInOrder`, and has one worker whose running job is always its own, which is
`RunningIsOwned`. `JobChain` and `Collection` store an artifact in one step; what is inside
that step, and what a crash does to it, is `ArtifactStore`. `Findings` is what an inventory and
a findings job of `JobChain` find out. `Database` says when the grain of the others is right:
for every handler of one statement, unless another's rollback comes before its commit.

**`JobQueue`.** `state`, `kind`, `created`, `cancelRequested` are the columns; `wake` is the
event; `wpc`/`wjob`/`verdict` is where each worker thread is in `_loop`, `run_one` and
`claim_next`; `rpc`, `rjob`, `rkinds`, `rtime` is a request handler with what it has read and
the kinds it has yet to queue. A route is a sequence of kinds (`Routes`). `Insert` is `enqueue`:
it draws `created_at` from the moments since its route began, or last queued, and advances the
clock at its commit, so timestamps can tie and can be committed out of order. After `Enqueue`
comes the next of a chain or the wake-up (`_enqueue_chain`), and after the wake-up of
`start_collection` comes `EnqueueExtraction`, which nothing wakes the worker for
(`app/routes/collect.py:199-220`). `RequestFails` is a handler whose statement raises with part
of its chain queued. `unannounced` (history) is what was queued in either of these ways.
`CancelRead` and `CancelQueuedWrite`/`CancelRunningWrite` are the read and the unguarded write
of `request_cancel`. `WorkerDies` is any statement outside the body that raises: the thread is
gone, it `Holds` nothing any more, and the row it was running is `Abandoned`.

**`ArtifactStore`.** `row[a]` and `file[a]` give the job that artifact `a`'s row and body are
recorded under. `WriteFile` then `Record` is `store_file`; `ListFiles`, `Unlink`, `Rmtree`,
`DeleteRows` is `delete_for_job`, followed by `DeleteJob`. `UnlinkFails` raises, and keeps rows
and job; `Rmtree` removes any part of the directory, because it is called with
`ignore_errors=True` (`app/artifacts.py:243`), and the rows and the job go whatever it left
(`recorded` and `swallowed` remember which files had a row, and which it left). `StartApply` is
`run_cleanup`: it names what `Plan` says (`retention.plan`: the newest `KeepCount` of the
succeeded collections stay, and of the rest those still young), and the steps after it delete
those one at a time.

**`JobChain`.** A route's decision is a record `plan` (what it found, what it has enqueued so
far), copied into each job it enqueues as the job's parameters. A body is two steps, its
look-ups and its copying, because what it looked up can go in between.

**`Collection`.** The host's bundle is a sequence of log files; it arrives in units, one for a
file's header and one for each line. A download may be refused, end, be appended an error page
to, stall until the read times out, be reset, or be cancelled. A member is `Complete` when all
its units have arrived; repacking copies complete members and stops at the first other. An
extraction applies `Wanted` to files and `LineInRange` to lines.

**`SelfUpdate`.** The columns of `update_state`; the image the registry publishes, the one the
host has pulled and the one the container was made from; the process; the updater; and a
program counter for each update thread, request and checker. Docker, compose and the
registry are external and modelled from the command lines the code gives them. The pull may
fail, the recreation may fail or its container die before it stops this container, between the
stop and the start, or after it (`Pull`, `RecreateDies`, `StartContainer`); what docker was told
to stop goes on stopping.

**`Accounts`.** `user` and `session` are the two tables, `attempts` the failures counted
against an address. A request `r` is at `pc[r]` about `req[r]`: a session request passes
`ReadSession`, `ReadAccount`, `Touch` (`get_session_user`, `touch_session`) and, for the pages
of administrators, `ReadRole`, before the first step of its own; a sign-in passes `Submit`,
`Authenticate` or `CheckCode`, then `Fail`, or `ClearFailures` and `SignIn`. Removing an
administrator is `ReadTarget`, `CountOthers` and `WriteAccount`: the guard's two queries and
the UPDATE, with anything in between. `device` is what a user's authenticator holds, which
only scanning a setup page changes. Backup codes are numbered as they are issued; a sign-in
reads the list into `seen` (`CheckCode`) and `SpendCode` writes what remains of *that* list.
Six variables are history: `raced` marks a removal under
whose guard an account changed, `overlapped` that such a removal went through, `rights` what
each request's user has been during it, `disturbed` the users whose second factor was opened
again while on or reset while being turned on, `spent` the backup codes each user has signed
in with, `collided` the users whose codes were written from a list that was no longer theirs.

**`Database`.** `committed` is what a new reader sees, `work` what the open transaction sees,
`holder` whose that is: the shared connection's, the worker's, or nobody's. `Execute` begins a
transaction where there is none and waits for the other connection's; `Commit` and `Rollback`
end the shared one for everybody in it. Three handlers stand for all, because they hold it
differently: a save of the rules (`set_enabled_rules`: DELETE, INSERTs, commit, and rollback
when two saves insert the same name), a cleanup (`apply`: a job's DELETE stays uncommitted
while the files of the next are removed, and an error there leaves it open), and
`log_activity`, one statement and its commit. The worker waits up to 30 seconds for the lock:
`WorkerTimesOut` is possible unless some handler that holds it is about to make its next call
(`CallsSoon`), which only one that is removing files is not. `Start`, `Migrate`,
`RecordVersion` and `Serve` are `migrate`, a statement at a time, since `executescript` commits
as it goes; `Crash` can come between any two, and `MigrateFails` is the statement that meets
what an earlier process has left of the same script. `who`, `overlapped` and `undone` are history.

**`Settings`.** In `XoConnection` a test reads the row (`BuildClient`) and, as long as Xen
Orchestra takes to answer, later writes its result by id (`RecordTestResult`); `late` and
`overtaken` are history and mark a save in between. In `TlsInstall` an upload is validated,
replaces the certificate, then the key, then signals nginx; a reload reads the certificate,
then the key; the entrypoint generates a pair, one file at a time, only if a file is missing.
A pair is a model value that both its halves carry; every self-signed pair has one name, since
nothing tells two of them apart. A file that was half written when the container stopped is
`Broken`.

**`Findings`.** `log`, `missing`, `refusing`, `totals` and `access` are Xen Orchestra's side:
what happened in the pools, and how it answers the stored token (as to an administrator, as to
an account that sees nothing, with a refusal, or not at all). They change only while a job
runs; what happened before is in `Init`, which enumerates it. A run reads its seven sources in
order (`ReadSource`); each is `Fetched` by the filter sent to the server, cut to the range, and
grouped by name with a count and the time of the last. Backups that are overdue, patches by
pool and dashboard totals are the three other kinds. A running backup is a record that has not
failed. A behaviour ends with its first report. `Correlate` is what the page makes of that and
of any report from logs. `MaxTrouble` bounds how much is wrong in all.

Common conventions. History variables (`born`, `withdrawn`, `begun`, `owed`, `torn`, ...) are
only written by actions and only read by properties. Bounds are constants named `Max...`.
Definitions that begin with "Faulty variant" are plausible bugs that no action uses: each is
substituted for the definition after it to see the property it is named for fail.

## Runs

All finish within five minutes. "Pass" runs check everything in the right-hand column.

| Run | Instance | What it shows |
|---|---|---|
| `job_queue` | 2 jobs, 2 workers, 1 request, routes of one job and of two, one kind without a body, failing statements of workers and handlers, 1 restart | `NoDoubleClaim`, `RunningIsOwned`, `NoResurrection`, `ImplementsWorkQueue`. Two workers although the application starts one: `claim_next` says that it is safe for several. |
| `job_queue_live` | 2 jobs, 1 worker, 2 requests with a route of two jobs, 1 restart | `NoLostWakeup`, `ClaimsInOrder`, and under fairness `EveryJobSettles`. Two requests are needed for two enqueues to overlap, and a route of two jobs for the wake-up to come before, between or after. |
| `artifact_store` | 2 jobs, 2 artifacts, 2 requests, 1 crash | `FilesReclaimable`, `RowsHaveBodies`, `KeepsNewest`, `ActiveFilesStay`. Two requests delete the same job at once; two artifacts let one unlink succeed and the next fail, and `rmtree` leave one file of two; `KeepCount = 1` leaves one of two collections to be planned for. With 3 jobs and 1 artifact it holds as well (4 million states). |
| `job_chain` | 5 jobs, 1 stored collection, 2 requests, 2 rule sets, 1 mishap | `NeverEarly`, `PackagesAreWhole`, `CompleteChainPackages`, `FreshPackagesMasked`. Five jobs hold the longest chain (collection, extraction, redaction, findings, package) or two short ones interleaved. |
| `self_update` | 1 request, 1 checker, 2 updates, 2 images, 1 mishap | `OutcomeReported`, `NeverStranded`, `SuccessIsEarned`, and under fairness `UpdateEnds`, `OfferIsWithdrawn`. The mishap is any failing command, a recreation that dies at any point, a crash, or an update by hand. |
| `collection` | bundles of up to 3 of 5 files, an audit trail, 5 date forms | `SalvagesWholeFiles`, `NothingHalfWritten`, `ReportsCount`, `AskedLinesKept`, and under fairness `JobEnds`. The files are of every kind the code tells apart: a directory, text, binary, rotated or not, lines with a full timestamp, without a year, and without one. |
| `accounts` | 2 users, 2 roles, 2 sessions, 2 requests at a time and 3 in all, 2 secrets, 2 backup codes, limit 1, 1 lapse (an expiry or a restart) | `AdminRemains`, `ActsWithinRights`, `SecondFactorWorks`, `LockoutHolds`, `SessionsStayDead`. It starts from an empty table or one with an administrator, with or without second factors, and at most one session, as a process before may have left them, so that three requests reach what would take more from nothing. |
| `database` | 2 handlers, 2 rules, 2 collections, 2 migrations of 2 statements, 2 writes of the worker, 2 crashes | `RulesFailSafe`, `ReportedWritesLast`, `OnlyCleanupsStarve`, and under fairness `StartsAgain`. Two of everything that can overlap; two crashes, because a second one can come in the start after the first. |
| `settings` | 2 credentials, 2 tests at a time, 2 pairs and the generated one, 3 uploads, 2 stops | `ResultsAreCurrent`, `ReportedPairStays`, and under fairness `ServesWhatIsStored`. Deadlock is checked. Three uploads: one to be read by half, one to be half replaced, one after both. |
| `findings` | 2 names, 2 pools, 1 total, 3 moments in the past, a window of 3, overdue after 1, 2 troubles | `FailuresReported`, `UnreadIsSaid`, `EchoesPair`. One name has a rule and the other is noise; two troubles are two failures of one name, or one and a server that goes away between two sources; the total is of the same condition as the ruled name, so a log report can echo an event or a state; the ranges are every kind the form makes. |
| `job_queue_terminal`, `job_chain_masked` | the smallest that shows it | each refutes one sentence of the documentation: see [findings](#findings). |

Every component has a type invariant; they are proved for all values of the constants (see
[proofs](#proofs)) rather than run.

Why the bounds are enough. Every hazard involves at most two actors and one interruption, and
the instances have two of each actor that can meet its like, and one interruption wherever a
second one would only begin the same thing again (after a restart, what threads remembered
is gone, so a second restart starts from states the first has already produced). Where an
instance is small in one direction a proof is not: the theorems below hold for any number of
jobs, workers, artifacts, users, sessions, handlers, credentials, uploads, requests and
restarts. `RequestsMayFail` is off in `job_queue_live`, where it would only add to the jobs
that `NoLostWakeup` exempts; `job_queue` and the proofs have it. In `self_update`, `collection` and
`job_chain` a mishap is any one of several kinds, counted together: pairs of *different*
mishaps are therefore not covered there.

`CHECK_DEADLOCK FALSE` is said everywhere but in `settings` because the other instances are
finite: when its jobs or images are used up and nobody clicks, the system rightly stops. That it
does not stop too early is what the liveness properties are for.

## Fairness

* `JobQueue`: the worker's steps, the wake after an enqueue, the exit of a stopping process
  and the boot after it (`restart: unless-stopped`). A body ends, since each request it makes
  has a timeout, which is `Collection`'s `JobEnds`. Statements are assumed to succeed
  (`DbMayFail = FALSE`): after one that fails in `claim_next` nothing runs jobs until the
  process restarts. No request is obliged to be made.
* `SelfUpdate`: threads and docker commands go on, the process comes back, the daily checker
  checks, and requests reap: the update page reloads itself every three seconds while an
  update is in progress, and reaping is the first thing it does. Time passes (`Tick`), but
  not past `_RECREATE_TIMEOUT` while a docker command with its own, shorter timeout runs.
* `Collection`: the body goes on, and a read that gets nothing times out. A reset, a stall and
  a cancellation are never obliged to happen.
* `Database`: a handler that has begun runs on (`Continue`), the worker commits what it has
  executed, and the container is started again and migrates (`Boot`). No request need arrive,
  and nothing obliges the worker to be given the lock.
* `Settings`: docker restarts the container and the entrypoint runs to its end, an upload's
  handler runs on, and nginx handles its signals, one reload after the other. Tests of the
  connection, uploads and stops are never obliged to happen.

## Proofs

`JobQueueProofs` proves, for all values of the constants allowed by `JobQueueAssumption` and
`RoutesAssumption` (routes are non-empty sequences of kinds): `TypeCorrect`, `ClaimExclusive`
(NoDoubleClaim), `NoOrphans` (RunningIsOwned), `NothingResurrects`, `FirstInFirstOut`
(ClaimsInOrder), `NoWakeupLost` (NoLostWakeup, for one worker) and `Implementation`
(ImplementsWorkQueue). The inductive invariant `IInv` adds to the type invariant what a program
counter knows: past its SELECT a worker has a job that has had a row (`WorkerHasJob`), what it
owns is neither new nor queued (`OwnedWasClaimed`, which is what makes a second claim fail), a
request has a target or a job still to queue (`RequestHasTarget`), a process that is down runs
nothing, and two facts about time. `StampedBeforeBorn` says that stamps precede commits, and
`SelectedIsFirst` that whatever is queued beside a selected job was committed after that job was
stamped: without it the order could be lost between the two statements of a claim. For the
wake-up, which is proved job by job, `ClaimedOrCancelled` says that a worker that reads "no job"
after its claim does so only because that job was cancelled and deleted meanwhile, which is the
exception. For the refinement each action is mapped to a step of `WorkQueue` or to a stutter.

`ArtifactStoreProofs` proves `StoreTypeCorrect`, `NothingUnreclaimable` (FilesReclaimable),
`NoBrokenDownload` (RowsHaveBodies), `ActiveFilesKept` (ActiveFilesStay) and `NewestKept`
(KeepsNewest), from `ArtifactStoreAssumption`: the jobs are finitely many and numbered by
their creation. The last is by the newest collection that a plan names (`PlanSpares`): of the
`KeepCount` stored ones after it, either none was named before, and the plan spares them, or
one was, and what was spared for that one is newer still. A collection, once succeeded, can
only be cancelled late or deleted, since no body is in it (`OverStays`). The invariant
`Inv` says that what a deletion works on has ended and stays so (`DeletesEnded`), that a body
runs a job that is `running` or was withdrawn from it (`BodyRuns`), that after `rmtree` only
such a body can have put a recorded file back (`Emptied`), that ids just drawn are in no row and no
list (`NewIds`), where the last file written is (`LastFile`), that a file whose row is still
there is unlinked before `rmtree` runs (`StillRecorded`, `UnlinksAll`: this is why an error
that `rmtree` swallows strands no file that had a row), that recorded files are in their
own job's directory (`AtHome`), and that a deletion lists its own job's files (`Lists`).

`AccountsProofs` proves `AccountsTyped`, `AdminAlwaysRemains`, `AlwaysActsWithinRights`,
`SecondFactorAlwaysWorks`, `LockoutAlwaysHolds` and `DeadSessionsStayDead`, which with type
correctness are the properties of its run. `Shape` says that a request is about things that
exist and is where its operation can be (`HasSubject`, `FitsPlace`), that a process which is
down runs nothing and one which is up has bootstrapped; it is kept because no step takes an
account or a session back (`Grows`). Five invariants stand on it, each with a lemma that every
step of a request keeps it. `AdminInv` says what the guard's look is worth: at the write of a
removal that was not raced, someone else is an administrator still (`SafeToWrite`). `RightsInv`
says that a request has seen whatever its user is at the moment, so that a check that succeeds
on the table succeeds on what was seen. `FactorInv` says that whoever is between the check of a
code and the write that turns the factor on has the secret, unless disturbed. `CodesInv` says
that no code is known that was not issued, so that codes issued later are new to everyone.
`LockoutInv` trades each failure for the request that records it. `NoAccountAssumption` says
only that the value which stands for "no row" is not a row.

`JobChainProofs` proves `JobChainTypeCorrect`, `NoneEarly` (NeverEarly), `FreshlyMasked`
(FreshPackagesMasked), `PackagesWhole` (PackagesAreWhole) and `CompleteChainsPackage`
(CompleteChainPackages), for any number of jobs, requests and rule sets. `Moved` says what
every step that enqueues nothing does to the jobs, so that facts about old jobs are kept
by one lemma. Job numbers are used in order (`QueueFilled`), plans name earlier jobs
(`AfterEarlier`), the worker's job is the one that runs (`WorkerInStep`), and what a succeeded
job stored is there and, if it was made with its archive, masked (`StoredInStep`). A request
that will enqueue a package has the rest of its chain before or behind it (`RequestsInStep`),
a package was queued after a whole chain (`PackagesInStep`), and its body has settled on
things that have ended (`BodySettled`, `PackedInStep`).

`SelfUpdateProofs` proves `SelfUpdateTypeCorrect`, `OutcomesReported`, `StrandsOnlyBetween`
(NeverStranded) and `SuccessesAreEarned`. The argument is who may be at work: unless updates
overlapped, one thread is past its mark (`AloneInUpdate`) and no updater works before that
thread launched it (`NoneBeforeLaunch`); who is about to record a success has seen an updater
finish (`WorkIsDone`), a process that starts was started by an updater or a restart
(`StartedBySomebody`); and an outcome that is owed is still to come from one of four places
(`OutcomeToCome`, `FailureIsSaid`).

`CollectionProofs` proves `CollectionTypeCorrect`, `NothingHalfWrittenHolds`,
`WholeFilesSalvaged` (SalvagesWholeFiles), `AskedLinesAreKept` and `ReportCountsMasked`
(ReportsCount), for bundles of any length and contents, from `CollectionAssumption`. What that
says of logs is that no line is younger than its file's last write: the file filter rests on
that. The year that the line filter guesses is not assumed to be right: it is an exception of
`AskedLinesKept`. `ReadInStep`
is the loop invariant of the repacking: the working archive is, whole and masked, the members
met so far, all of which are complete, or once it has ended just those that arrived.
`CopyInStep` carries that to the stored copy; `WorkingFiles` and `RawThere` say which file is
there at which step.

Two more invariants stand on that one. `ExtractionInStep` says that an extraction's archive
holds, of the files met so far, all that are wanted and arrived whole, and of each the lines in
its range: `AskedLinesAreKept` then comes down to arithmetic on days, that the range made of a
form holds every moment of the days asked for (`AskedIsInRange`), and that a file with such a
line was last written on the first of them or later (`WrittenToLater`). `CountInStep` says that
the running count is what there was to mask in the files met so far, and afterwards what there
is in the copies, or more if the bundle was cut, since the values of the file that was cut are
counted and the file is left out. What is counted is a set, of the places with something to mask
(`Origin`), so that adding a file adds its places (`PlacesAdd`, `HitsAdd`). Sums and filters
over a bundle are recursive functions; `Stepwise` says that such a function exists and `UpTo` is
the induction along it, both proved from well-founded induction on a set rather than on an
operator.

`DatabaseProofs` proves `DatabaseTypeCorrect`, `RedactionFailsSafe` (RulesFailSafe),
`ReportsLast` (ReportedWritesLast), `StarvedByCleanupsOnly` (OnlyCleanupsStarve) and
`ServesWholeSchema` (the safety half of StartsAgain), for any number of handlers, rules,
collections and migrations. `Consistent` ties the lock to the transaction; `SavesApart` states
the fail-safe of those who see the open transaction as well, which is what the next commit
makes everyone see; `WritesKept` says that a handler's statements are in the open transaction
or committed, until somebody's rollback undoes them; `HeldByRunning` says whose statements
those can be; `SchemaInStep` says that the schema is never behind its version.

`SettingsFindingsProofs` proves `SettingsTypeCorrect`, `ResultsStayCurrent` (ResultsAreCurrent) and
`ReportedPairsStay` (ReportedPairStays). A test that no save overtook has asked with what the
row holds (`TestsAreFresh`); an upload is always at a pair that matched when it was validated
(`UploadInStep`), and the entrypoint generates only where no reported pair is
(`GeneratesForNobody`). It also proves the safety half of `ServesWhatIsStored`:
`StartsUnlessTorn`, that nginx comes up with every start but after a torn pair, and
`NothingStaleAtRest`, that it serves what is stored whenever no upload, signal or reload is
under way. For those, certificate and key are of one pair but while they are written
(`FilesInStep`), and a reload that nothing follows is reading the stored certificate
(`ServedInStep`).

For `Findings`, which is in the same module, it proves `FindingsTypeCorrect`,
`UnreadIsAlwaysSaid` (UnreadIsSaid), `FailuresAreReported` (FailuresReported) and
`EchoesArePaired` (EchoesPair), for any number of names, pools, totals, records and changes,
from `FindingsAssumption`: names, pools and totals are told apart from "none", the pools and
totals are finitely many, and the moments are natural numbers. The invariant `IInv` says of each
source a run or a report has read (`EntrySound`) what the three properties will ask of it,
measured against the log as long as it was when that source was asked (`upto`). That is kept
because the log only grows (`LogGrows`): no later record is due at an earlier reading
(`DueStays`). That a reading is sound at the moment it is made (`AnswerIsSound`) has two parts.
Whatever is made of an answer, a source that was refused is unread (`PatchesSaid` is the case of
a pool that is refused beside others). And the grouping of the records is their summary
(`GroupedIsSummary`): by induction over the records fetched, in either order, each row has the
count and the latest time of those met so far (`RowsAre`, `RowsAdd`), and those met at the end
are all that were due (`SeenAll`, `DueIsFound`). For the backups that are overdue, a job has a
latest run among finitely many (`LargestIsThere`, `OverdueIsFound`). The pairs on the page are
by induction over the listing (`CorrelatePairs`): what is paired up to a finding is a matching
that no finding before it could add to (`PairedUpTo`, with `EchoesAreIncidents`: the page's test
is the property's), and since pairs are never undone a log finding that was taken stays taken
(`PairedNext`). It needs that a report lists finitely many findings (`FoundIsFinite`).

The invariants were checked with TLC before they were proved.

Every safety invariant and action property that a run checks is therefore also a theorem. Only
model-checked is liveness, which is out of the prover's reach: `EveryJobSettles`, `UpdateEnds`,
`OfferIsWithdrawn`, `JobEnds`, `StartsAgain` (its safety half is `ServesWholeSchema`) and
`ServesWhatIsStored` (its safety half is `NothingStaleAtRest`). The two properties that a run
refutes have, of course, no theorem.

## Findings

Places where the code does something else than a sentence of the repository says. Each has
a run whose counterexample shows it; the full text is in `PROJECT.json`.

1. `job_queue_terminal`: a terminal state can be left. `request_cancel` decides on an earlier
   read and its UPDATE has no state guard, so a job claimed in between is `cancelled` while it
   runs and `succeeded` later (`jobs.py:259`).
2. `job_chain_masked`: packaging a *stored* collection that has no redacted copy queues a
   redaction that treats the compressed archive as text, so nothing in it is masked
   (`job_redact.py:209`).

## Facts worth knowing

Found while modelling, and part of the models:

* A job withdrawn by the race of finding 1 can also be *deleted* while its body runs; the
  body then makes the directory again and its next INSERT fails on the foreign key.
  `FilesReclaimable` has exactly this excuse (`withdrawn`).
* Not every job is announced. "Every route that enqueues a job needs" `wake_worker`
  (`dependencies.py:218-220`), but `start_collection` calls it after the collection and then
  queues the extraction (`collect.py:199`, `:209`). If the collection has failed by then, the
  worker waits on a clear event beside the extraction until its poll a second later. The same
  goes for a chain whose handler raises half-way. `NoLostWakeup` exempts these jobs by name
  (`unannounced`) and `EveryJobSettles` does not: the poll is what they rely on.
* A worker thread that dies on a failing statement leaves its row `running` with nobody running
  it, and the process goes on without a worker: `RunningIsOwned` names the row (`Abandoned`),
  and shows that there is no other kind of unowned row and that a restart clears it.
* `rmtree` ignores its errors, and the rows and the job go regardless (`artifacts.py:243-246`).
  A file that never had a row (a scratch file, or a body whose INSERT never came) and that it
  fails to remove is stranded, which the docstring above it means to avoid (`:232-235`). A
  file with a row is not: its own `unlink` raises first. `FilesReclaimable` says both.
* After the race of finding 1, a deletion can make `claim_next` read "no job" while others are
  queued; the idle poll is what saves them (`RacedAway` in `NoLostWakeup`).
* Three more sentences of the documentation are not quite so. Any restart while an update is in
  progress records a success, whether or not the container was replaced (`update.py:322`,
  beside the comment at `:316-318`; `restarted` in `SuccessIsEarned`). A rotated file last written
  after the end of the range is dropped whole, with the lines in it that are inside
  (`job_extract.py:138`, beside `README.md:130-132`; `AskedLinesKept` has the exception). A
  bundle cut inside its first file is stored as an empty redacted archive, which the comment at
  `job_collect.py:406-407` means to avoid (`:409`).
* Two requests can both start an update, since the flag is tested in the request and set by
  the thread; the second one's `docker rm -f` removes the first one's updater. Between the
  stop of the container and the start of its replacement that strands the deployment
  (`overlapped` in `NeverStranded`).
* "If the recreation dies, this process keeps running" (`update.py:332`) is so only until the
  recreation has stopped it. An updater that fails or dies between its stop and its start
  leaves a stopped container that no restart policy applies to, and nobody to reap the update
  (`cutShort` in `NeverStranded`; `UpdateEnds` and `OfferIsWithdrawn` except it as `Stranded`). One
  that fails after the start, at another service, is recorded as a success by the new process.
* The flag of an update is cleared by one statement and its outcome written by the next; a
  process that ends in between has ended the update without a word (`torn`).
* A cancellation seen at the checkpoint between finishing a working file and storing it
  leaves that file behind (`NothingHalfWritten` allows a complete one, and no other).
* A connection reset deletes what was received.
* Two removals of administrators that overlap can leave none: each counts the other
  (`overlapped` in `AdminRemains`). So can a demotion that overlaps a disabling.
* Opening the second-factor setup page while the factor is on replaces the secret, so the
  authenticator's codes stop working at once (`disturbed` in `SecondFactorWorks`); a reset
  between the check of a code and the write that follows it leaves the factor on without a
  secret.
* A sign-in whose account is disabled between its two steps still creates a session, which the
  first request with it destroys.
* An administrator who is demoted while a request of theirs runs can finish that request, and
  no other (`rights` in `ActsWithinRights`).
* The limit on failed sign-ins is read before the password is checked and written after, so
  each request under way can add one failure beyond it.
* "Since the last reboot" without an uptime is treated as a custom range.
* The masked-value count of an extraction includes lines that its date filter then drops,
  which is why `ReportsCount` speaks of collections only; the docstring of `_mask_stream` says that a
  dropped line never was a candidate for the counts (`job_collect.py:459-461`).
* Two sign-ins with backup codes that overlap each write the list they read, less their own
  code: the later one makes the earlier one's code good again (`users.py:284-290`; `collided` in
  `SecondFactorWorks`).
* The second step of a sign-in starts over when the second factor was reset meanwhile, but not
  when the account was disabled, as its comment says (`auth.py:181-185`): the session it then
  creates is destroyed by the first request with it.
* Two saves of the rules that overlap can end with rules off that are neither's choice: one's
  INSERTs go into the other's transaction (`redact.py:316`, beside the docstring at `:302-304`
  and `db.py:352`; `overlapped` in `RulesFailSafe`). Nothing is ever off that nobody asked for.
* A rollback undoes what any handler has executed and not committed, and that handler then
  commits nothing and answers as if it had (`undone` in `ReportedWritesLast`).
* A cleanup that fails at the files of one collection leaves the DELETE of the one before it
  uncommitted. Until any other request commits, the worker cannot write, and after 30 seconds
  its thread is dead (`Abandoned` in `OnlyCleanupsStarve`).
* A process that dies between a migration's first statement and its version row never starts
  again: the migration is run again and its first statement fails (`Torn` in `StartsAgain`).
* A test of the Xen Orchestra connection that a save overtakes writes its result beside the new
  credentials (`late` in `ResultsAreCurrent`).
* A stop between the two renames of an upload, or while the entrypoint writes its pair, leaves a
  certificate without its key; nginx does not start with that, and no later start replaces it
  (`torn` in `ServesWhatIsStored`).
* "What nginx is actually serving right now", on the settings page, is the stored certificate:
  after a reload that read half of a later upload it is not what nginx serves until the next.
* A task or a backup run that began before the range and failed within it is not asked for, and
  neither is the last run of a job that stopped before the range began, so that it is not
  overdue; a job that was deleted is reported overdue (`FailuresReported` has both exceptions).
* "A state finding (no timestamp) is never excluded by" the window, says the comment at
  `findings.py:653-655`. It is: both sides fall back to the time their report was made
  (`:716-726`), which the docstring at `:690-698` explains for log findings and a test insists on
  (`tests/test_findings.py:1107-1113`). `SameIncident` in `EchoesPair` follows the code.
* The patches are "unread" if some pool refused and the others have none missing, although the
  docstring speaks of every pool; and so a refusal never reads as "nothing missing".

## Not modelled

* *Regular expressions, parsing and classification of text*: redaction patterns, rules for log
  lines, log categories. They are pure functions of text; a model would repeat them.
* *Rendering, configuration, logging, health pages*: no behaviour over time.
* *Hashing, encryption, certificate parsing, TLS verification*: library calls. Codes of an
  authenticator are right or wrong; certificates match their keys or do not.
* *Changes of passwords*: a password is only ever compared, and changing one ends no session.
* *Wall clocks that step back*: `created_at` is wall-clock time, and the chains rely on it not
  going backwards; so do the models.
* *The scan limit of a cleanup*: it looks at the 500 newest collection jobs, and `Plan` at
  all of them.
* *Duplicates of a job*: `has_active` and `enqueue` are two statements, so two requests can queue
  the same kind twice. The queue has the race and keeps all its properties with both queued.
* *Severities, wording, order and fractions in findings*: how a finding reads, not whether it
  is there.

## Plan

What is left, in this order.

1. Changes of passwords in `Accounts`, with the activity log's part in their transaction.
2. The scan limit and the clock of a cleanup in `ArtifactStore`, and a clock that steps back in
   `JobQueue`, to see which properties need it not to.
3. The safety halves of the other liveness properties, as `ServesWholeSchema` is of
   `StartsAgain` and `NothingStaleAtRest` of `ServesWhatIsStored`: what has to be true of a state
   for the next step towards the goal to be possible.
4. Composition of `JobQueue` with `Database`: a worker that dies waiting for the write lock, and
   the jobs that then wait for a restart.
