------------------------------ MODULE Database ------------------------------
(***************************************************************************)
(* The database layer (app/db.py) and what its one shared connection does  *)
(* to the handlers that write through it.                                  *)
(*                                                                         *)
(* Every request handler uses the connection in app.state.db.  Its lock    *)
(* covers one call, its transaction covers them all: whatever any handler  *)
(* has executed since the last commit is one transaction, any handler's    *)
(* commit keeps it and any handler's rollback undoes it.  The worker has a *)
(* connection of its own, and SQLite lets one connection write at a time.  *)
(*                                                                         *)
(* The handlers are the three that hold a transaction in different ways:   *)
(* the redaction rules (a transaction() of several statements), a cleanup  *)
(* (file removal between statements) and log_activity (one statement and   *)
(* its commit), which the other two end with and every other handler is.   *)
(***************************************************************************)
EXTENDS Naturals, FiniteSets

CONSTANTS
    Handlers,     \* requests, each of which runs once
    Rules,        \* the names in redact.RULES
    Collections,  \* the stored collections a cleanup may name
    Scripts,      \* how many migrations this version has
    Statements,   \* how many statements each of them has
    MaxBeats,     \* bound: how often the worker writes
    MaxCrashes    \* bound: how often the process dies and is started again

ASSUME DatabaseAssumption ==
    /\ IsFiniteSet(Handlers)
    /\ Scripts \in Nat /\ Statements \in Nat \ {0}
    /\ MaxBeats \in Nat /\ MaxCrashes \in Nat

VARIABLES
    phase,      \* the process: "down", "migrating" or "serving"
    recorded,   \* schema_version: the last migration recorded
    applied,    \* how many statements of the migrations the schema has
    at,         \* migrate: how many statements of the next script this process has run
    crashes,
    committed,  \* the database as every new reader sees it
    holder,     \* whose transaction holds the write lock, or "nobody"
    work,       \* the database as that transaction sees it
    pc,         \* where each handler is
    off,        \* set_enabled_rules: the rules a save switches off
    named,      \* apply: the collections a cleanup's plan names
    todo,       \* apply: those it has not come to yet
    item,       \* apply: the one it is at, or has deleted last
    worker,     \* "idle", "waiting" for the write lock, "writing" or "dead"
    beats,      \* how many writes of the worker have been committed
    who,        \* history: the handlers with statements in the open transaction
    overlapped, \* history: a save began while another was between its statements
    undone      \* history: the handlers whose statements another's rollback undid

schemaVars == <<recorded, applied, at>>
dataVars == <<committed, holder, work, who>>
planVars == <<named, todo, item>>
handlerVars == <<pc, off, planVars>>
workerVars == <<worker, beats>>
processVars == <<phase, crashes>>
history == <<overlapped, undone>>
vars == <<processVars, schemaVars, dataVars, handlerVars, workerVars, history>>

\* What the tables hold: redaction_disabled, each collection's job row with its artifact
\* rows, whose activity is logged, and how often the worker has written.
Data == [off : SUBSET Rules,
         left : [Collections -> {"stored", "emptied", "deleted"}],
         log : SUBSET Handlers,
         beats : 0 .. MaxBeats]

Ended == {"done", "raised", "gone"}
Running(h) == pc[h] \notin Ended \cup {"idle"}

\* A save between its DELETE and the end of its transaction().
Saving(h) == pc[h] \in {"deleted", "inserted", "conflict"}

TypeOK ==
    /\ phase \in {"down", "migrating", "serving"}
    /\ recorded \in 0 .. Scripts /\ applied \in 0 .. Scripts * Statements
    /\ at \in 0 .. Statements /\ crashes \in 0 .. MaxCrashes
    /\ committed \in Data /\ work \in Data
    /\ holder \in {"nobody", "shared", "worker"}
    /\ who \subseteq Handlers
    /\ pc \in [Handlers -> {"idle", "deleted", "inserted", "conflict", "files", "rows",
                            "rowsGone", "job", "lastCommit", "log", "logged"} \cup Ended]
    /\ off \in [Handlers -> SUBSET Rules]
    /\ named \in [Handlers -> SUBSET Collections]
    /\ todo \in [Handlers -> SUBSET Collections]
    /\ item \in [Handlers -> SUBSET Collections]
    /\ worker \in {"idle", "waiting", "writing", "dead"} /\ beats \in 0 .. MaxBeats
    /\ overlapped \in BOOLEAN /\ undone \subseteq Handlers

\* The database of an earlier version, or none yet, with every rule on.
Init ==
    /\ phase = "down" /\ crashes = 0
    /\ recorded \in 0 .. Scripts /\ applied = recorded * Statements /\ at = 0
    /\ committed = [off |-> {}, left |-> [c \in Collections |-> "stored"],
                    log |-> {}, beats |-> 0]
    /\ work = committed /\ holder = "nobody" /\ who = {}
    /\ pc = [h \in Handlers |-> "idle"]
    /\ off = [h \in Handlers |-> {}]
    /\ named = [h \in Handlers |-> {}]
    /\ todo = named /\ item = named
    /\ worker = "idle" /\ beats = 0
    /\ overlapped = FALSE /\ undone = {}

(***************************************************************************)
(* The connection.                                                         *)
(***************************************************************************)

\* A statement that writes, on the shared connection: it opens a transaction if none is
\* open, for which it waits until the worker's own is over.
Execute(h, data) ==
    /\ holder # "worker"
    /\ holder' = "shared" /\ work' = data /\ who' = who \cup {h}
    /\ UNCHANGED committed

\* What a handler's query returns: the open transaction's rows, whoever wrote them.
View == IF holder = "worker" THEN committed ELSE work

\* Faulty variant: forget to commit.
CommitNothing(h) == UNCHANGED dataVars

\* commit(): everything on the shared connection, or nothing when nothing is open.
Commit(h) ==
    IF holder = "shared"
    THEN committed' = work /\ holder' = "nobody" /\ who' = {} /\ UNCHANGED work
    ELSE UNCHANGED dataVars

\* Faulty variant: let the exception through and leave the transaction as it is.
RollbackNothing(h) == UNCHANGED <<dataVars, undone>>

\* rollback(): likewise, other handlers' statements included.
Rollback(h) ==
    IF holder = "shared"
    THEN /\ work' = committed /\ holder' = "nobody" /\ who' = {}
         /\ undone' = undone \cup (who \ {h})
         /\ UNCHANGED committed
    ELSE UNCHANGED <<dataVars, undone>>

Step(h, from, to) ==
    /\ phase = "serving" /\ pc[h] = from /\ pc' = [pc EXCEPT ![h] = to]
    /\ UNCHANGED <<processVars, schemaVars, workerVars>>

(***************************************************************************)
(* redaction_rules_save and set_enabled_rules.                             *)
(***************************************************************************)

\* DELETE FROM redaction_disabled.
SaveDeletes(h) ==
    /\ Step(h, "idle", "deleted")
    /\ Execute(h, [View EXCEPT !.off = {}])
    /\ \E names \in SUBSET Rules : off' = [off EXCEPT ![h] = names]
    /\ overlapped' = (overlapped \/ \E g \in Handlers : Saving(g))
    /\ UNCHANGED <<planVars, undone>>

\* Faulty variant: store the rules that are on.
RowsInverted(h) == Rules \ off[h]

\* The rows of the executemany: a rule that is not wanted.
RowsToInsert(h) == off[h]

\* executemany(INSERT): no statement at all when every rule is wanted.
SaveInserts(h) ==
    /\ Step(h, "deleted", "inserted")
    /\ RowsToInsert(h) \cap View.off = {}
    /\ IF RowsToInsert(h) = {}
       THEN UNCHANGED dataVars
       ELSE Execute(h, [View EXCEPT !.off = @ \cup RowsToInsert(h)])
    /\ UNCHANGED <<off, planVars, history>>

\* name is the primary key: the first row that another save has inserted meanwhile raises,
\* and the rows before it stay in the transaction.
SaveConflicts(h) ==
    /\ Step(h, "deleted", "conflict")
    /\ RowsToInsert(h) \cap View.off # {}
    /\ \E before \in SUBSET (RowsToInsert(h) \ View.off) :
           Execute(h, [View EXCEPT !.off = @ \cup before])
    /\ UNCHANGED <<off, planVars, history>>

\* transaction(): commit when the block ends.
SaveCommits(h) ==
    /\ Step(h, "inserted", "log")
    /\ Commit(h)
    /\ UNCHANGED <<off, planVars, history>>

\* transaction(): roll back when it raises, and let the exception through.
SaveRollsBack(h) ==
    /\ Step(h, "conflict", "raised")
    /\ Rollback(h)
    /\ UNCHANGED <<off, planVars, overlapped>>

(***************************************************************************)
(* run_cleanup, retention.apply and delete_for_job.                        *)
(***************************************************************************)

\* plan(): ArtifactStore computes which; here any that are there.
StartCleanup(h) ==
    /\ Step(h, "idle", "files")
    /\ \E plan \in SUBSET {c \in Collections : View.left[c] # "deleted"} :
           plan # {} /\ named' = [named EXCEPT ![h] = plan] /\ todo' = [todo EXCEPT ![h] = plan]
    /\ UNCHANGED <<dataVars, off, item, history>>

\* delete_for_job: unlink the files.
RemoveFiles(h) ==
    /\ Step(h, "files", "rows")
    /\ \E c \in todo[h] :
           item' = [item EXCEPT ![h] = {c}] /\ todo' = [todo EXCEPT ![h] = @ \ {c}]
    /\ UNCHANGED <<dataVars, off, named, history>>

\* delete_for_job: an unlink raises, and with it the handler.
RemoveFilesFails(h) ==
    /\ Step(h, "files", "raised")
    /\ UNCHANGED <<dataVars, off, planVars, history>>

\* delete_for_job: DELETE FROM artifacts WHERE job_id = ?.
DeleteArtifactRows(h) ==
    /\ Step(h, "rows", "rowsGone")
    /\ Execute(h, [View EXCEPT !.left = [c \in Collections |->
                      IF c \in item[h] /\ @[c] = "stored" THEN "emptied" ELSE @[c]]])
    /\ UNCHANGED <<off, planVars, history>>

CommitArtifactRows(h) ==
    /\ Step(h, "rowsGone", "job")
    /\ Commit(h)
    /\ UNCHANGED <<off, planVars, history>>

\* apply: DELETE FROM jobs WHERE id = ?, and on to the next collection.
DeleteJobRow(h) ==
    /\ Step(h, "job", IF todo[h] = {} THEN "lastCommit" ELSE "files")
    /\ Execute(h, [View EXCEPT !.left = [c \in Collections |->
                      IF c \in item[h] THEN "deleted" ELSE @[c]]])
    /\ UNCHANGED <<off, planVars, history>>

CommitCleanup(h) ==
    /\ Step(h, "lastCommit", "log")
    /\ Commit(h)
    /\ UNCHANGED <<off, planVars, history>>

(***************************************************************************)
(* log_activity, alone or at the end of the above.                         *)
(***************************************************************************)

LogActivity(h) ==
    /\ \E from \in {"idle", "log"} : Step(h, from, "logged")
    /\ Execute(h, [View EXCEPT !.log = @ \cup {h}])
    /\ UNCHANGED <<off, planVars, history>>

CommitLog(h) ==
    /\ Step(h, "logged", "done")
    /\ Commit(h)
    /\ UNCHANGED <<off, planVars, history>>

(***************************************************************************)
(* The worker's connection.                                                *)
(***************************************************************************)

WorkerWants ==
    /\ phase = "serving" /\ worker = "idle" /\ beats < MaxBeats
    /\ worker' = "waiting"
    /\ UNCHANGED <<processVars, schemaVars, dataVars, handlerVars, beats, history>>

WorkerExecutes ==
    /\ phase = "serving" /\ worker = "waiting" /\ holder = "nobody"
    /\ worker' = "writing" /\ holder' = "worker"
    /\ work' = [committed EXCEPT !.beats = @ + 1]
    /\ UNCHANGED <<processVars, schemaVars, committed, who, handlerVars, beats, history>>

WorkerCommits ==
    /\ phase = "serving" /\ worker = "writing"
    /\ worker' = "idle" /\ beats' = beats + 1
    /\ committed' = work /\ holder' = "nobody"
    /\ UNCHANGED <<processVars, schemaVars, work, who, handlerVars, history>>

\* A handler whose next step is a call of the connection takes it well within 30 seconds;
\* one that removes files takes as long as the disk does, one that has ended takes none.
CallsSoon(h) == Running(h) /\ pc[h] # "files"

\* PRAGMA busy_timeout: "database is locked" is raised outside any job's body and ends the
\* thread.
WorkerTimesOut ==
    /\ phase = "serving" /\ worker = "waiting"
    /\ holder = "shared" /\ ~\E h \in Handlers : CallsSoon(h)
    /\ worker' = "dead"
    /\ UNCHANGED <<processVars, schemaVars, dataVars, handlerVars, beats, history>>

(***************************************************************************)
(* The process.                                                            *)
(***************************************************************************)

\* The restart policy starts the container again whenever the process has ended.
Start ==
    /\ phase = "down"
    /\ phase' = "migrating" /\ at' = 0
    /\ UNCHANGED <<crashes, recorded, applied, dataVars, handlerVars, workerVars, history>>

\* executescript: a statement of the next script, committed by itself.
Migrate ==
    /\ phase = "migrating" /\ recorded < Scripts /\ at < Statements
    /\ applied = recorded * Statements + at
    /\ applied' = applied + 1 /\ at' = at + 1
    /\ UNCHANGED <<processVars, recorded, dataVars, handlerVars, workerVars, history>>

\* CREATE TABLE or ALTER TABLE of something that is there raises, and lifespan with it.
MigrateFails ==
    /\ phase = "migrating" /\ recorded < Scripts /\ at < Statements
    /\ applied # recorded * Statements + at
    /\ phase' = "down"
    /\ UNCHANGED <<crashes, schemaVars, dataVars, handlerVars, workerVars, history>>

\* Faulty variant: record the migration before it is run.
ScriptPending == at = 0

ScriptIsRun == at = Statements

\* INSERT INTO schema_version, and the commit of transaction().
RecordVersion ==
    /\ phase = "migrating" /\ recorded < Scripts /\ ScriptIsRun
    /\ recorded' = recorded + 1 /\ at' = 0
    /\ UNCHANGED <<processVars, applied, dataVars, handlerVars, workerVars, history>>

Serve ==
    /\ phase = "migrating" /\ recorded = Scripts
    /\ phase' = "serving"
    /\ UNCHANGED <<crashes, schemaVars, dataVars, handlerVars, workerVars, history>>

\* The process dies: open transactions are gone, and so are the handlers.
Crash ==
    /\ phase # "down" /\ crashes < MaxCrashes
    /\ phase' = "down" /\ crashes' = crashes + 1 /\ at' = 0
    /\ work' = committed /\ holder' = "nobody" /\ who' = {}
    /\ pc' = [h \in Handlers |-> IF Running(h) THEN "gone" ELSE pc[h]]
    /\ worker' = "idle"
    /\ UNCHANGED <<recorded, applied, committed, off, planVars, beats, history>>

Continue(h) ==
    \/ SaveInserts(h) \/ SaveConflicts(h) \/ SaveCommits(h) \/ SaveRollsBack(h)
    \/ RemoveFiles(h) \/ RemoveFilesFails(h)
    \/ DeleteArtifactRows(h) \/ CommitArtifactRows(h) \/ DeleteJobRow(h) \/ CommitCleanup(h)
    \/ pc[h] # "idle" /\ LogActivity(h)
    \/ CommitLog(h)

Begin(h) == SaveDeletes(h) \/ StartCleanup(h) \/ LogActivity(h)

Worker == WorkerWants \/ WorkerExecutes \/ WorkerCommits \/ WorkerTimesOut

Boot == Start \/ Migrate \/ MigrateFails \/ RecordVersion \/ Serve

Next ==
    \/ \E h \in Handlers : Begin(h) \/ Continue(h)
    \/ Worker
    \/ Boot
    \/ Crash

\* A handler that has begun is run to its end, the worker commits what it has executed, and
\* the container is started again; no request need ever arrive.
Fairness ==
    /\ \A h \in Handlers : WF_vars(Continue(h))
    /\ WF_vars(WorkerCommits)
    /\ WF_vars(Boot)

Spec == Init /\ [][Next]_vars /\ Fairness

(***************************************************************************)
(* Properties.                                                             *)
(***************************************************************************)

\* What some save has asked to be switched off, or nothing.
Asked == {{}} \cup {off[h] : h \in Handlers}

\* Redaction fails safe (set_enabled_rules on the shared connection): no rule is off, for any
\* reader, unless some save asked for it, and as long as saves do not overlap the rules that
\* are off are one save's choice or none at all, whoever commits its half-done work.
RulesFailSafe ==
    /\ committed.off \subseteq UNION Asked
    /\ overlapped \/ committed.off \in Asked

\* What was reported stays (every handler's execute and commit, beside the others'): a handler
\* that has answered has its writes in the database whatever crashes, unless another handler's
\* rollback came between its statement and its commit; and the worker loses none.
ReportedWritesLast ==
    /\ \A h \in Handlers \ undone :
           pc[h] = "done" =>
               h \in committed.log /\ \A c \in named[h] : committed.left[c] = "deleted"
    /\ beats = committed.beats

\* A cleanup that has failed at the files of a collection, with its DELETE of the one before
\* uncommitted: nobody is left to end its transaction.
Abandoned(h) == h \in who /\ pc[h] = "raised" /\ item[h] # {}

\* Only a cleanup starves the worker (retention.apply): the worker waits out its 30 seconds
\* only for a cleanup that has abandoned its transaction, or holds it while it removes the
\* next collection's files.
OnlyCleanupsStarve ==
    [][worker = "waiting" /\ worker' = "dead" =>
          \E h \in Handlers : Abandoned(h) \/ (h \in who /\ pc[h] = "files")]_vars

\* The schema holds statements of a migration that is not recorded and not being run.
Torn == applied > recorded * Statements + at

\* The process serves again after any restart (init_db, migrate), and on a complete schema,
\* unless it died between a migration's first statement and its version row.
StartsAgain == []<>(Torn \/ (phase = "serving" /\ applied = Scripts * Statements))

=============================================================================
