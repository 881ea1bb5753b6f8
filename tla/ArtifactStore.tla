---------------------------- MODULE ArtifactStore ----------------------------
(***************************************************************************)
(* The artifact store (app/artifacts.py) and the two things that empty it, *)
(* retention.delete_job and retention.apply (app/retention.py).            *)
(*                                                                         *)
(* An artifact is a file in its job's directory and a row that names it.   *)
(* No transaction covers both, so each file operation and each committed   *)
(* statement is a step of its own, and the worker's body, the requests     *)
(* that delete and a crash may come between any two of them.               *)
(*                                                                         *)
(* The queue is JobQueue's, seen from here: a claim is one step, and a     *)
(* cancellation is the read and the unguarded write it is there.           *)
(***************************************************************************)
EXTENDS Naturals, FiniteSets

CONSTANTS
    Jobs,         \* jobs already queued, numbered in the order of their creation
    Artifacts,    \* the artifact ids (uuid4) and scratch names bodies may draw
    Requests,     \* request-handler threads
    None,
    KeepCount,    \* keep_count, as every cleanup form submits it
    MaxRestarts   \* bound: how often the process may crash and come back

ASSUME ArtifactStoreAssumption ==
    /\ None \notin Jobs \cup Artifacts
    /\ Jobs \subseteq Nat /\ IsFiniteSet(Jobs)
    /\ KeepCount \in Nat /\ MaxRestarts \in Nat

VARIABLES
    state,      \* jobs.state, or "deleted" once the row is gone
    row,        \* artifacts.job_id of each artifact row, None without a row
    file,       \* the job in whose directory the file lies, None without a file
    fresh,      \* the ids not drawn yet
    restarts,
    wpc,        \* the body: "idle", "body" or "wrote" (a file, no row yet)
    wjob,       \* the job whose body the worker is in
    wfile,      \* the file it has written last
    rpc,        \* where each request is
    rjob,       \* the job it is about
    rfiles,     \* delete_for_job: the listed artifacts still to unlink
    rplan,      \* retention.apply: the jobs still to delete
    withdrawn,  \* history: jobs whose cancellation was written after their claim
    begun,      \* history: jobs whose files a request has begun to delete
    planned,    \* history: jobs that a cleanup's plan has named
    recorded,   \* history: ids that have had a row
    swallowed   \* history: files that rmtree could not remove, and said nothing of

storeVars == <<row, file, fresh>>
workerVars == <<wpc, wjob, wfile>>
requestVars == <<rpc, rjob, rfiles, rplan>>
history == <<withdrawn, begun, planned, recorded, swallowed>>
vars == <<state, storeVars, restarts, workerVars, requestVars, history>>

ACTIVE_STATES == {"queued", "running"}
TERMINAL_STATES == {"succeeded", "failed", "cancelled"}

Exists(j) == state[j] # "deleted"

\* Faulty variant: any job that exists may be deleted.
DeletableAny(j) == Exists(j)

\* delete_job: SELECT id FROM jobs WHERE id = ? AND state NOT IN ('queued', 'running').
Deletable(j) == state[j] \in TERMINAL_STATES

\* Faulty variant: any newer job counts, whatever became of it.
StoredAny(j) == Exists(j)

\* collections: succeeded jobs only.
Stored(j) == state[j] = "succeeded"

\* plan: the newest KeepCount are kept, and of the rest the young ones, of which there
\* are none when keep_days is zero.  What is young depends on the clock.
Plan(young) ==
    {j \in Jobs : Stored(j) /\ Cardinality({k \in Jobs : k > j /\ Stored(k)}) >= KeepCount}
        \ young

\* list_for_job.
Listed(j) == {a \in Artifacts : row[a] = j}

\* Faulty variant: only what has a row, and leave the rest of the directory.
RecordedIn(j) == {a \in Listed(j) : file[a] = j}

\* What rmtree takes: the job's whole directory, recorded or not.
DirectoryOf(j) == {a \in Artifacts : file[a] = j}

RequestPcs == {"idle", "cancel", "list", "unlink", "rows", "job"}

Init ==
    /\ state = [j \in Jobs |-> "queued"]
    /\ row = [a \in Artifacts |-> None]
    /\ file = [a \in Artifacts |-> None]
    /\ fresh = Artifacts
    /\ restarts = 0
    /\ wpc = "idle"
    /\ wjob = None
    /\ wfile = None
    /\ rpc = [r \in Requests |-> "idle"]
    /\ rjob = [r \in Requests |-> None]
    /\ rfiles = [r \in Requests |-> {}]
    /\ rplan = [r \in Requests |-> {}]
    /\ withdrawn = {}
    /\ begun = {}
    /\ planned = {}
    /\ recorded = {}
    /\ swallowed = {}

-----------------------------------------------------------------------------
(* The worker's body *)

\* claim_next takes the oldest.
Claim(j) ==
    /\ wpc = "idle"
    /\ state[j] = "queued"
    /\ \A k \in Jobs : state[k] = "queued" => j =< k
    /\ state' = [state EXCEPT ![j] = "running"]
    /\ wpc' = "body"
    /\ wjob' = j
    /\ UNCHANGED <<storeVars, restarts, wfile, requestVars, history>>

\* Faulty variant: the row first, and the file when there is time.
RecordFirst(a) ==
    /\ wpc = "body"
    /\ a \in fresh
    /\ Exists(wjob)
    /\ fresh' = fresh \ {a}
    /\ row' = [row EXCEPT ![a] = wjob]
    /\ recorded' = recorded \cup {a}
    /\ UNCHANGED <<state, file, restarts, workerVars, requestVars, withdrawn, begun, planned,
                   swallowed>>

\* store_file and store_json up to _insert: mkdir the job's directory, then put
\* the body there under a new id.  A body's scratch files go there as well.
WriteFile(a) ==
    /\ wpc = "body"
    /\ a \in fresh
    /\ fresh' = fresh \ {a}
    /\ file' = [file EXCEPT ![a] = wjob]
    /\ wpc' = "wrote"
    /\ wfile' = a
    /\ UNCHANGED <<state, row, restarts, wjob, requestVars, history>>

\* _insert.  Without its jobs row the foreign key refuses it, and the body raises.
Record ==
    /\ wpc = "wrote"
    /\ Exists(wjob)
    /\ row' = [row EXCEPT ![wfile] = wjob]
    /\ wpc' = "body"
    /\ wfile' = None
    /\ recorded' = recorded \cup {wfile}
    /\ UNCHANGED <<state, file, fresh, restarts, wjob, requestVars, withdrawn, begun, planned,
                   swallowed>>

\* The body has returned, or has raised with or without a file it never recorded.
Verdicts == IF wpc = "wrote" THEN {"failed", "cancelled"} ELSE TERMINAL_STATES

\* run_one's mark_*: UPDATE jobs SET state = ... WHERE id = ?
Finish ==
    /\ wpc \in {"body", "wrote"}
    /\ \E v \in Verdicts :
          state' = [state EXCEPT ![wjob] = IF Exists(wjob) THEN v ELSE @]
    /\ wpc' = "idle"
    /\ wjob' = None
    /\ wfile' = None
    /\ UNCHANGED <<storeVars, restarts, requestVars, history>>

-----------------------------------------------------------------------------
(* Cancelling a queued job, as request_cancel does it *)

CancelRead(r, j) ==
    /\ rpc[r] = "idle"
    /\ state[j] = "queued"
    /\ rpc' = [rpc EXCEPT ![r] = "cancel"]
    /\ rjob' = [rjob EXCEPT ![r] = j]
    /\ UNCHANGED <<state, storeVars, restarts, workerVars, rfiles, rplan, history>>

CancelWrite(r) ==
    LET j == rjob[r] IN
    /\ rpc[r] = "cancel"
    /\ state' = [state EXCEPT ![j] = IF Exists(j) THEN "cancelled" ELSE @]
    /\ withdrawn' = IF wjob = j THEN withdrawn \cup {j} ELSE withdrawn
    /\ rpc' = [rpc EXCEPT ![r] = "idle"]
    /\ rjob' = [rjob EXCEPT ![r] = None]
    /\ UNCHANGED <<storeVars, restarts, workerVars, rfiles, rplan, begun, planned, recorded,
                   swallowed>>

-----------------------------------------------------------------------------
(* Deleting: one job outright, or every collection past the limits *)

StartDelete(r, j) ==
    /\ rpc[r] = "idle"
    /\ Deletable(j)
    /\ rpc' = [rpc EXCEPT ![r] = "list"]
    /\ rjob' = [rjob EXCEPT ![r] = j]
    /\ UNCHANGED <<state, storeVars, restarts, workerVars, rfiles, rplan, history>>

\* run_cleanup: apply plans afresh, then goes through what it planned one job at a
\* time.  An empty plan changes nothing.
StartApply(r, young) ==
    /\ rpc[r] = "idle"
    /\ \E j \in Plan(young) :
          /\ rjob' = [rjob EXCEPT ![r] = j]
          /\ rplan' = [rplan EXCEPT ![r] = Plan(young) \ {j}]
    /\ planned' = planned \cup Plan(young)
    /\ rpc' = [rpc EXCEPT ![r] = "list"]
    /\ UNCHANGED <<state, storeVars, restarts, workerVars, rfiles, withdrawn, begun, recorded,
                   swallowed>>

\* delete_for_job: artifacts = list_for_job(conn, job_id)
ListFiles(r) ==
    /\ rpc[r] = "list"
    /\ rfiles' = [rfiles EXCEPT ![r] = Listed(rjob[r])]
    /\ begun' = begun \cup {rjob[r]}
    /\ rpc' = [rpc EXCEPT ![r] = "unlink"]
    /\ UNCHANGED <<state, storeVars, restarts, workerVars, rjob, rplan, withdrawn, planned,
                   recorded, swallowed>>

\* artifact_path(...).unlink(missing_ok=True), one listed artifact at a time.
Unlink(r, a) ==
    /\ rpc[r] = "unlink"
    /\ a \in rfiles[r]
    /\ file' = [file EXCEPT ![a] = None]
    /\ rfiles' = [rfiles EXCEPT ![r] = @ \ {a}]
    /\ UNCHANGED <<state, row, fresh, restarts, workerVars, rpc, rjob, rplan, history>>

\* unlink raises (permissions, I/O): the handler ends with what it has not done
\* undone, the rest of its plan included.
UnlinkFails(r) ==
    /\ rpc[r] = "unlink"
    /\ rfiles[r] # {}
    /\ rpc' = [rpc EXCEPT ![r] = "idle"]
    /\ rjob' = [rjob EXCEPT ![r] = None]
    /\ rfiles' = [rfiles EXCEPT ![r] = {}]
    /\ rplan' = [rplan EXCEPT ![r] = {}]
    /\ UNCHANGED <<state, storeVars, restarts, workerVars, history>>

\* shutil.rmtree(job_dir, ignore_errors=True): whatever part of the directory it cannot
\* remove it leaves, and the deletion goes on as if it were gone.
Rmtree(r) ==
    /\ rpc[r] = "unlink"
    /\ rfiles[r] = {}
    /\ \E left \in SUBSET DirectoryOf(rjob[r]) :
          /\ file' = [a \in Artifacts |->
                        IF a \in DirectoryOf(rjob[r]) \ left THEN None ELSE file[a]]
          /\ swallowed' = swallowed \cup left
    /\ rpc' = [rpc EXCEPT ![r] = "rows"]
    /\ UNCHANGED <<state, row, fresh, restarts, workerVars, rjob, rfiles, rplan, withdrawn,
                   begun, planned, recorded>>

RowsWithout(j) == [a \in Artifacts |-> IF row[a] = j THEN None ELSE row[a]]

\* DELETE FROM artifacts WHERE job_id = ?
DeleteRows(r) ==
    /\ rpc[r] = "rows"
    /\ row' = RowsWithout(rjob[r])
    /\ rpc' = [rpc EXCEPT ![r] = "job"]
    /\ UNCHANGED <<state, file, fresh, restarts, workerVars, rjob, rfiles, rplan, history>>

\* DELETE FROM jobs WHERE id = ?, at its commit, with the cascade to what has been
\* recorded since; then the next job of the plan, if there is one.
DeleteJob(r) ==
    /\ rpc[r] = "job"
    /\ state' = [state EXCEPT ![rjob[r]] = "deleted"]
    /\ row' = RowsWithout(rjob[r])
    /\ \/ /\ rplan[r] = {}
          /\ rpc' = [rpc EXCEPT ![r] = "idle"]
          /\ rjob' = [rjob EXCEPT ![r] = None]
          /\ UNCHANGED rplan
       \/ \E j \in rplan[r] :
          /\ rpc' = [rpc EXCEPT ![r] = "list"]
          /\ rjob' = [rjob EXCEPT ![r] = j]
          /\ rplan' = [rplan EXCEPT ![r] = @ \ {j}]
    /\ UNCHANGED <<file, fresh, restarts, workerVars, rfiles, history>>

-----------------------------------------------------------------------------

\* The process dies and the lifespan starts the next one: reset_orphans fails what
\* was running.  Files and rows stay as they are.
Restart ==
    /\ restarts < MaxRestarts
    /\ restarts' = restarts + 1
    /\ state' = [j \in Jobs |-> IF state[j] = "running" THEN "failed" ELSE state[j]]
    /\ wpc' = "idle"
    /\ wjob' = None
    /\ wfile' = None
    /\ rpc' = [r \in Requests |-> "idle"]
    /\ rjob' = [r \in Requests |-> None]
    /\ rfiles' = [r \in Requests |-> {}]
    /\ rplan' = [r \in Requests |-> {}]
    /\ UNCHANGED <<storeVars, history>>

WorkerStep ==
    \/ \E j \in Jobs : Claim(j)
    \/ \E a \in Artifacts : WriteFile(a)
    \/ Record \/ Finish

RequestStep(r) ==
    \/ \E j \in Jobs : CancelRead(r, j) \/ StartDelete(r, j)
    \/ CancelWrite(r)
    \/ \E young \in SUBSET Jobs : StartApply(r, young)
    \/ \E a \in Artifacts : Unlink(r, a)
    \/ ListFiles(r) \/ UnlinkFails(r) \/ Rmtree(r) \/ DeleteRows(r) \/ DeleteJob(r)

Next == WorkerStep \/ (\E r \in Requests : RequestStep(r)) \/ Restart

Spec == Init /\ [][Next]_vars

-----------------------------------------------------------------------------
(* Properties *)

\* Every variable keeps its type.
TypeOK ==
    /\ state \in [Jobs -> ACTIVE_STATES \cup TERMINAL_STATES \cup {"deleted"}]
    /\ row \in [Artifacts -> Jobs \cup {None}]
    /\ file \in [Artifacts -> Jobs \cup {None}]
    /\ fresh \subseteq Artifacts
    /\ restarts \in Nat
    /\ wpc \in {"idle", "body", "wrote"}
    /\ wjob \in Jobs \cup {None}
    /\ wfile \in Artifacts \cup {None}
    /\ rpc \in [Requests -> RequestPcs]
    /\ rjob \in [Requests -> Jobs \cup {None}]
    /\ rfiles \in [Requests -> SUBSET Artifacts]
    /\ rplan \in [Requests -> SUBSET Jobs]
    /\ withdrawn \subseteq Jobs
    /\ begun \subseteq Jobs
    /\ planned \subseteq Jobs
    /\ recorded \subseteq Artifacts
    /\ swallowed \subseteq Artifacts

\* delete_for_job's docstring: "a file with no row is invisible and never reclaimed"
\* (app/artifacts.py:232-235).  Whatever crashes, fails half-way or runs twice, a file
\* that outlives its job was left by a body whose job was withdrawn under it, or is one
\* that never had a row (a scratch file, or a body lost in a crash before its INSERT) and
\* that rmtree failed on in silence (app/artifacts.py:243).  A file that has had a row is
\* unlinked where an error is raised, and keeps the job that can be deleted again.
FilesReclaimable ==
    \A a \in Artifacts :
        file[a] # None => \/ Exists(file[a])
                          \/ file[a] \in withdrawn
                          \/ a \in swallowed \ recorded

\* The same docstring: "a row with no file is a broken download".  A row is never ahead
\* of its file, and never outlives its job; one whose body is missing belongs to a job a
\* deletion was begun on, which an interrupted deletion leaves there to be deleted again.
RowsHaveBodies ==
    \A a \in Artifacts :
        row[a] # None => /\ Exists(row[a])
                         /\ file[a] = row[a] \/ row[a] \in begun

\* delete_job: "Only an active job is refused, since deleting the files a running
\* download is still writing ..." (app/retention.py:187-189).  Between the SELECT that
\* refuses and the last unlink, no file of an active job goes.
ActiveFilesStay ==
    [][\A a \in Artifacts :
         file[a] # None /\ file'[a] = None => state[file[a]] \notin ACTIVE_STATES]_vars

\* plan's docstring: "the newest keep_count collections are kept whatever their age ...
\* That ordering is what stops a long gap in collecting from emptying the store"
\* (app/retention.py:113-116).  Plans are made and carried out while collections finish,
\* are deleted and are planned for by others: for every collection that cleanups take,
\* there are KeepCount newer ones that none of them takes, unless an operator has
\* deleted or cancelled those since.
KeepsNewest ==
    \A j \in planned :
        Cardinality({k \in Jobs \ planned :
                        k > j /\ state[k] \in {"succeeded", "cancelled", "deleted"}}) >= KeepCount

=============================================================================
