------------------------------- MODULE JobQueue -------------------------------
(***************************************************************************)
(* The jobs table (app/jobs.py), the worker that empties it                *)
(* (app/job_runner.py) and the request handlers that fill it, cancel from  *)
(* it and delete from it (app/routes/jobs.py, app/retention.py).           *)
(*                                                                         *)
(* A step is one SQL statement with its commit, or one operation on the    *)
(* worker's wake event, because that is what the threads interleave at:    *)
(* request handlers share one connection whose lock covers a call, not a   *)
(* handler (app/db.py, _LockedConnection), and a worker has its own        *)
(* connection.  A handler that reads and then writes is therefore two      *)
(* steps, and keeps what it read in its own program counter between them.  *)
(*                                                                         *)
(* Columns nothing decides on (progress, step, error, params, started_at,  *)
(* finished_at) are left out.                                              *)
(***************************************************************************)
EXTENDS Naturals, FiniteSets, Sequences

CONSTANTS
    Jobs,         \* the job ids that may be drawn
    Workers,      \* threads running JobWorker._loop; the application starts one
    Requests,     \* request-handler threads
    Kinds,        \* job kinds
    Registered,   \* the kinds register() gave a body
    Guarded,      \* the kinds every route asks has_active about before enqueue
    Routes,       \* the kinds each route enqueues, in its order
    None,         \* no job, no kind
    DbMayFail,    \* whether a worker's statement may raise (locked, disk full)
    RequestsMayFail,  \* whether a handler's statement may
    MaxRestarts   \* bound: how often the process may stop and come back

ASSUME JobQueueAssumption ==
    /\ None \notin Jobs \cup Kinds
    /\ Registered \subseteq Kinds
    /\ Guarded \subseteq Kinds
    /\ DbMayFail \in BOOLEAN
    /\ RequestsMayFail \in BOOLEAN
    /\ MaxRestarts \in Nat

\* What a handler may have left to enqueue, in order.
Plans == Seq(Kinds)

ASSUME RoutesAssumption == Routes \subseteq Plans \ {<<>>}

VARIABLES
    state,            \* jobs.state, or "absent" before the row, "deleted" after it
    kind,             \* jobs.kind
    created,          \* jobs.created_at
    cancelRequested,  \* jobs.cancel_requested
    clock,            \* time.time(): it moves on while an INSERT commits
    process,          \* the application process: "up", "stopping" or "down"
    restarts,         \* how often it has come back, against MaxRestarts
    wake,             \* JobWorker._wake
    wpc,              \* where each worker is in _loop / run_one / claim_next
    wjob,             \* the job that worker has selected or is running
    verdict,          \* the mark_* call the worker has decided on
    rpc,              \* where each request handler is
    rjob,             \* the job it read
    rkinds,           \* the kinds it has yet to enqueue
    rtime,            \* the clock when it started, or last enqueued
    rqueued,          \* history: what it has queued since its last wake_worker
    unannounced,      \* history: queued by a handler that calls no wake_worker after
    born              \* history: the clock once the INSERT had committed

rows == <<state, kind, created, cancelRequested>>
workerVars == <<wpc, wjob, verdict>>
requestVars == <<rpc, rjob, rkinds, rtime, rqueued>>
history == <<unannounced, born>>
vars == <<rows, clock, process, restarts, wake, workerVars, requestVars, history>>

-----------------------------------------------------------------------------

QUEUED == "queued"
RUNNING == "running"
SUCCEEDED == "succeeded"
FAILED == "failed"
CANCELLED == "cancelled"

TERMINAL_STATES == {SUCCEEDED, FAILED, CANCELLED}
ACTIVE_STATES == {QUEUED, RUNNING}
RowStates == TERMINAL_STATES \cup ACTIVE_STATES  \* the row exists

\* has_active(conn, kind).
HasActive(k) == \E j \in Jobs : kind[j] = k /\ state[j] \in ACTIVE_STATES

\* Faulty variant for the runs: the newest first.
NewestFirst ==
    {j \in Jobs :
        /\ state[j] = QUEUED
        /\ \A i \in Jobs : state[i] = QUEUED => created[j] >= created[i]}

\* SELECT id FROM jobs WHERE state = 'queued' ORDER BY created_at LIMIT 1: rows
\* with equal timestamps may come back in either order.
Oldest ==
    {j \in Jobs :
        /\ state[j] = QUEUED
        /\ \A i \in Jobs : state[i] = QUEUED => created[j] <= created[i]}

\* Faulty variants: claim_next's UPDATE without its guard, and with a weaker one.
ClaimableAny(j) == state[j] \in RowStates
ClaimableActive(j) == state[j] \in ACTIVE_STATES

\* The guard of claim_next's UPDATE ... WHERE id = ? AND state = 'queued'.
Claimable(j) == state[j] = QUEUED

\* What a route asks before it enqueues the first of its jobs, about all of them.
MayStart(ks) == \A i \in DOMAIN ks : ks[i] \in Guarded => ~HasActive(ks[i])

\* Faulty variant: a route that queues its last job and forgets wake_worker.
ForgetsWake(ks) == IF ks = <<>> THEN {"idle"} ELSE {"more"}

\* What a route does once a job is queued and the kinds ks are still to come.  A
\* chain queues them all and wakes the worker once; start_collection wakes it for
\* the collection and then queues the extraction.
AfterEnqueue(ks) == {"wake"} \cup (IF ks = <<>> THEN {} ELSE {"more"})

\* Faulty variants: startup leaves orphans alone, or queues them again.
OrphanLeft(s) == s
OrphanRequeued(s) == IF s = RUNNING THEN QUEUED ELSE s

\* What reset_orphans makes of a row at startup.
AfterReset(s) == IF s = RUNNING THEN FAILED ELSE s

\* A live worker owns its job from the claim's UPDATE until its mark_* call.
Holds(w) == wpc[w] \in {"claimed", "body", "mark"} /\ wjob[w] # None

\* The thread that owned the job is dead, in this process.
Abandoned(j) == \E w \in Workers : wpc[w] = "dead" /\ wjob[w] = j

WorkerPcs == {"loop", "select", "selected", "claimed", "body", "mark",
              "idle", "woken", "off", "dead"}
RequestPcs == {"idle", "enqueue", "more", "wake", "extract",
               "cancelQueued", "cancelRunning", "delete"}

Init ==
    /\ state = [j \in Jobs |-> "absent"]
    /\ kind = [j \in Jobs |-> None]
    /\ created = [j \in Jobs |-> 0]
    /\ cancelRequested = [j \in Jobs |-> FALSE]
    /\ clock = 0
    /\ process = "up"
    /\ restarts = 0
    /\ wake = FALSE
    /\ wpc = [w \in Workers |-> "loop"]
    /\ wjob = [w \in Workers |-> None]
    /\ verdict = [w \in Workers |-> None]
    /\ rpc = [r \in Requests |-> "idle"]
    /\ rjob = [r \in Requests |-> None]
    /\ rkinds = [r \in Requests |-> <<>>]
    /\ rtime = [r \in Requests |-> 0]
    /\ rqueued = [r \in Requests |-> {}]
    /\ unannounced = {}
    /\ born = [j \in Jobs |-> 0]

-----------------------------------------------------------------------------
(* Request handlers *)

\* A route that starts one job or several: has_active first, where a kind is
\* guarded, and back to the page when one is active.
StartRequest(r, ks) ==
    /\ process = "up"
    /\ rpc[r] = "idle"
    /\ MayStart(ks)
    /\ rpc' = [rpc EXCEPT ![r] = "enqueue"]
    /\ rkinds' = [rkinds EXCEPT ![r] = ks]
    /\ rtime' = [rtime EXCEPT ![r] = clock]
    /\ UNCHANGED <<rows, clock, process, restarts, wake, workerVars, rjob, rqueued, history>>

\* jobs.enqueue: created_at was read at some moment since the handler's last
\* statement, and the clock has moved on by the time the INSERT is committed.
Insert(r, j) ==
    /\ state[j] = "absent"
    /\ kind' = [kind EXCEPT ![j] = Head(rkinds[r])]
    /\ rkinds' = [rkinds EXCEPT ![r] = Tail(@)]
    /\ \E t \in rtime[r]..clock : created' = [created EXCEPT ![j] = t]
    /\ state' = [state EXCEPT ![j] = QUEUED]
    /\ born' = [born EXCEPT ![j] = clock + 1]
    /\ clock' = clock + 1
    /\ UNCHANGED <<cancelRequested, process, restarts, wake, workerVars, rjob>>

\* A job the handler will wake the worker for.
Enqueue(r) ==
    /\ rpc[r] \in {"enqueue", "more"}
    /\ \E j \in Jobs :
        /\ Insert(r, j)
        /\ rqueued' = [rqueued EXCEPT ![r] = @ \cup {j}]
    /\ \E pc \in AfterEnqueue(rkinds'[r]) : rpc' = [rpc EXCEPT ![r] = pc]
    /\ rtime' = [rtime EXCEPT ![r] = clock']
    /\ UNCHANGED unannounced

\* wake_worker -> JobWorker.wake.
Wake(r) ==
    /\ rpc[r] = "wake"
    /\ wake' = TRUE
    /\ rpc' = [rpc EXCEPT ![r] = IF rkinds[r] = <<>> THEN "idle" ELSE "extract"]
    /\ rtime' = [rtime EXCEPT ![r] = IF rkinds[r] = <<>> THEN 0 ELSE @]
    /\ rqueued' = [rqueued EXCEPT ![r] = {}]
    /\ UNCHANGED <<rows, clock, process, restarts, workerVars, rjob, rkinds, history>>

\* The extraction that start_collection queues after its wake_worker: it relies on
\* the worker being busy with the collection, and nothing is woken for it.
EnqueueExtraction(r) ==
    /\ rpc[r] = "extract"
    /\ \E j \in Jobs :
        /\ Insert(r, j)
        /\ unannounced' = unannounced \cup {j}
    /\ rpc' = [rpc EXCEPT ![r] = IF rkinds'[r] = <<>> THEN "idle" ELSE "extract"]
    /\ rtime' = [rtime EXCEPT ![r] = IF rkinds'[r] = <<>> THEN 0 ELSE clock']
    /\ UNCHANGED rqueued

\* A handler's statement raises: the page says so, what is committed stays, and a
\* chain that was half queued is not announced.
RequestFails(r) ==
    /\ RequestsMayFail
    /\ rpc[r] \notin {"idle", "wake"}
    /\ rpc' = [rpc EXCEPT ![r] = "idle"]
    /\ rjob' = [rjob EXCEPT ![r] = None]
    /\ rkinds' = [rkinds EXCEPT ![r] = <<>>]
    /\ rtime' = [rtime EXCEPT ![r] = 0]
    /\ rqueued' = [rqueued EXCEPT ![r] = {}]
    /\ unannounced' = unannounced \cup rqueued[r]
    /\ UNCHANGED <<rows, clock, process, restarts, wake, workerVars, born>>

\* request_cancel's get_job, and which of the two UPDATEs it leads to.
CancelRead(r, j) ==
    /\ process = "up"
    /\ rpc[r] = "idle"
    /\ state[j] \in ACTIVE_STATES
    /\ rjob' = [rjob EXCEPT ![r] = j]
    /\ rpc' = [rpc EXCEPT ![r] = IF state[j] = QUEUED THEN "cancelQueued"
                                                      ELSE "cancelRunning"]
    /\ UNCHANGED <<rows, clock, process, restarts, wake, workerVars, rkinds, rtime, rqueued, history>>

\* UPDATE jobs SET state = 'cancelled', cancel_requested = 1 WHERE id = ?
CancelQueuedWrite(r) ==
    LET j == rjob[r] IN
    /\ rpc[r] = "cancelQueued"
    /\ IF state[j] \in RowStates
       THEN /\ state' = [state EXCEPT ![j] = CANCELLED]
            /\ cancelRequested' = [cancelRequested EXCEPT ![j] = TRUE]
       ELSE UNCHANGED <<state, cancelRequested>>
    /\ rpc' = [rpc EXCEPT ![r] = "idle"]
    /\ rjob' = [rjob EXCEPT ![r] = None]
    /\ UNCHANGED <<kind, created, clock, process, restarts, wake, workerVars,
                   rkinds, rtime, rqueued, history>>

\* UPDATE jobs SET cancel_requested = 1 WHERE id = ?
CancelRunningWrite(r) ==
    LET j == rjob[r] IN
    /\ rpc[r] = "cancelRunning"
    /\ cancelRequested' = [cancelRequested EXCEPT ![j] = @ \/ state[j] \in RowStates]
    /\ rpc' = [rpc EXCEPT ![r] = "idle"]
    /\ rjob' = [rjob EXCEPT ![r] = None]
    /\ UNCHANGED <<state, kind, created, clock, process, restarts, wake, workerVars,
                   rkinds, rtime, rqueued, history>>

\* retention.delete_job's SELECT ... AND state NOT IN ('queued', 'running'), or
\* retention.apply finding a succeeded collection past the limits.
DeleteRead(r, j) ==
    /\ process = "up"
    /\ rpc[r] = "idle"
    /\ state[j] \in TERMINAL_STATES
    /\ rjob' = [rjob EXCEPT ![r] = j]
    /\ rpc' = [rpc EXCEPT ![r] = "delete"]
    /\ UNCHANGED <<rows, clock, process, restarts, wake, workerVars, rkinds, rtime, rqueued, history>>

\* DELETE FROM jobs WHERE id = ?
DeleteWrite(r) ==
    /\ rpc[r] = "delete"
    /\ state' = [state EXCEPT ![rjob[r]] = "deleted"]
    /\ rpc' = [rpc EXCEPT ![r] = "idle"]
    /\ rjob' = [rjob EXCEPT ![r] = None]
    /\ UNCHANGED <<kind, created, cancelRequested, clock, process, restarts, wake,
                   workerVars, rkinds, rtime, rqueued, history>>

RequestStep(r) ==
    \/ \E ks \in Routes : StartRequest(r, ks)
    \/ \E j \in Jobs : CancelRead(r, j) \/ DeleteRead(r, j)
    \/ Enqueue(r) \/ Wake(r) \/ EnqueueExtraction(r) \/ RequestFails(r)
    \/ CancelQueuedWrite(r) \/ CancelRunningWrite(r) \/ DeleteWrite(r)

-----------------------------------------------------------------------------
(* The worker *)

\* while not self._stop.is_set(): run_one
EnterRunOne(w) ==
    /\ wpc[w] = "loop"
    /\ process = "up"
    /\ wpc' = [wpc EXCEPT ![w] = "select"]
    /\ UNCHANGED <<rows, clock, process, restarts, wake, wjob, verdict, requestVars, history>>

LeaveLoop(w) ==
    /\ wpc[w] = "loop"
    /\ process = "stopping"
    /\ wpc' = [wpc EXCEPT ![w] = "off"]
    /\ UNCHANGED <<rows, clock, process, restarts, wake, wjob, verdict, requestVars, history>>

\* claim_next's SELECT finds nothing: run_one returns False, and the loop waits.
SelectNone(w) ==
    /\ wpc[w] = "select"
    /\ Oldest = {}
    /\ wpc' = [wpc EXCEPT ![w] = "idle"]
    /\ UNCHANGED <<rows, clock, process, restarts, wake, wjob, verdict, requestVars, history>>

SelectOldest(w) ==
    /\ wpc[w] = "select"
    /\ \E j \in Oldest : wjob' = [wjob EXCEPT ![w] = j]
    /\ wpc' = [wpc EXCEPT ![w] = "selected"]
    /\ UNCHANGED <<rows, clock, process, restarts, wake, verdict, requestVars, history>>

\* claim_next's UPDATE ... WHERE id = ? AND state = 'queued'; look again when it
\* changed no row.
Claim(w) ==
    LET j == wjob[w] IN
    /\ wpc[w] = "selected"
    /\ IF Claimable(j)
       THEN /\ state' = [state EXCEPT ![j] = RUNNING]
            /\ wpc' = [wpc EXCEPT ![w] = "claimed"]
            /\ UNCHANGED wjob
       ELSE /\ wpc' = [wpc EXCEPT ![w] = "select"]
            /\ wjob' = [wjob EXCEPT ![w] = None]
            /\ UNCHANGED state
    /\ UNCHANGED <<kind, created, cancelRequested, clock, process, restarts, wake,
                   verdict, requestVars, history>>

\* claim_next's get_job, then run_one's look in the registry.  A row that is
\* gone again reads as "no job".
StartBody(w) ==
    LET j == wjob[w] IN
    /\ wpc[w] = "claimed"
    /\ IF state[j] \notin RowStates
       THEN /\ wpc' = [wpc EXCEPT ![w] = "idle"]
            /\ wjob' = [wjob EXCEPT ![w] = None]
            /\ UNCHANGED verdict
       ELSE IF kind[j] \in Registered
       THEN /\ wpc' = [wpc EXCEPT ![w] = "body"]
            /\ UNCHANGED <<wjob, verdict>>
       ELSE /\ wpc' = [wpc EXCEPT ![w] = "mark"]
            /\ verdict' = [verdict EXCEPT ![w] = FAILED]
            /\ UNCHANGED wjob
    /\ UNCHANGED <<rows, clock, process, restarts, wake, requestVars, history>>

\* JobContext.check_cancelled, alone or from progress, raises JobCancelled.
Checkpoint(w) ==
    LET j == wjob[w] IN
    /\ wpc[w] = "body"
    /\ state[j] \in RowStates
    /\ cancelRequested[j]
    /\ wpc' = [wpc EXCEPT ![w] = "mark"]
    /\ verdict' = [verdict EXCEPT ![w] = CANCELLED]
    /\ UNCHANGED <<rows, clock, process, restarts, wake, wjob, requestVars, history>>

\* The body returns, or raises something else.
BodyEnds(w) ==
    /\ wpc[w] = "body"
    /\ wpc' = [wpc EXCEPT ![w] = "mark"]
    /\ \E v \in {SUCCEEDED, FAILED} : verdict' = [verdict EXCEPT ![w] = v]
    /\ UNCHANGED <<rows, clock, process, restarts, wake, wjob, requestVars, history>>

\* mark_succeeded, mark_failed or mark_cancelled: UPDATE ... WHERE id = ?
Mark(w) ==
    LET j == wjob[w] IN
    /\ wpc[w] = "mark"
    /\ state' = [state EXCEPT ![j] = IF @ \in RowStates THEN verdict[w] ELSE @]
    /\ wpc' = [wpc EXCEPT ![w] = "loop"]
    /\ wjob' = [wjob EXCEPT ![w] = None]
    /\ verdict' = [verdict EXCEPT ![w] = None]
    /\ UNCHANGED <<kind, created, cancelRequested, clock, process, restarts, wake,
                   requestVars, history>>

\* self._wake.wait(_IDLE_POLL_SECONDS) returns because the event is set ...
Woken(w) ==
    /\ wpc[w] = "idle"
    /\ wake
    /\ wpc' = [wpc EXCEPT ![w] = "woken"]
    /\ UNCHANGED <<rows, clock, process, restarts, wake, wjob, verdict, requestVars, history>>

\* ... or because the interval has passed.
Poll(w) ==
    /\ wpc[w] = "idle"
    /\ ~wake
    /\ wpc' = [wpc EXCEPT ![w] = "woken"]
    /\ UNCHANGED <<rows, clock, process, restarts, wake, wjob, verdict, requestVars, history>>

\* self._wake.clear()
ClearWake(w) ==
    /\ wpc[w] = "woken"
    /\ wake' = FALSE
    /\ wpc' = [wpc EXCEPT ![w] = "loop"]
    /\ UNCHANGED <<rows, clock, process, restarts, wjob, verdict, requestVars, history>>

\* A statement outside the body raises.  run_one catches what the body raises and
\* nothing else, and _loop catches nothing: the thread ends, and no one starts
\* another before the process does.
WorkerDies(w) ==
    /\ DbMayFail
    /\ wpc[w] \in {"select", "selected", "claimed", "mark"}
    /\ wpc' = [wpc EXCEPT ![w] = "dead"]
    /\ wjob' = [wjob EXCEPT ![w] = IF Holds(w) THEN @ ELSE None]
    /\ verdict' = [verdict EXCEPT ![w] = None]
    /\ UNCHANGED <<rows, clock, process, restarts, wake, requestVars, history>>

WorkerStep(w) ==
    \/ EnterRunOne(w) \/ LeaveLoop(w)
    \/ SelectNone(w) \/ SelectOldest(w) \/ Claim(w) \/ StartBody(w)
    \/ Checkpoint(w) \/ BodyEnds(w) \/ Mark(w)
    \/ Woken(w) \/ Poll(w) \/ ClearWake(w)

-----------------------------------------------------------------------------
(* The process *)

\* The end of the lifespan: JobWorker.stop sets both events.
Stop ==
    /\ process = "up"
    /\ restarts < MaxRestarts
    /\ process' = "stopping"
    /\ wake' = TRUE
    /\ UNCHANGED <<rows, clock, restarts, workerVars, requestVars, history>>

\* Threads and what they remember go; the database stays.
Gone ==
    /\ process' = "down"
    /\ wake' = FALSE
    /\ wpc' = [w \in Workers |-> "off"]
    /\ wjob' = [w \in Workers |-> None]
    /\ verdict' = [w \in Workers |-> None]
    /\ rpc' = [r \in Requests |-> "idle"]
    /\ rjob' = [r \in Requests |-> None]
    /\ rkinds' = [r \in Requests |-> <<>>]
    /\ rtime' = [r \in Requests |-> 0]
    /\ rqueued' = [r \in Requests |-> {}]
    /\ UNCHANGED <<rows, clock, restarts, history>>

\* stop() joins for five seconds and no longer: the daemon thread may still be
\* in a body when the process ends.
Exit == process = "stopping" /\ Gone

Crash == process = "up" /\ restarts < MaxRestarts /\ Gone

\* The lifespan: reset_orphans, then JobWorker.start.
Boot ==
    /\ process = "down"
    /\ process' = "up"
    /\ restarts' = restarts + 1
    /\ state' = [j \in Jobs |-> AfterReset(state[j])]
    /\ wpc' = [w \in Workers |-> "loop"]
    /\ UNCHANGED <<kind, created, cancelRequested, clock, wake, wjob, verdict,
                   requestVars, history>>

Next ==
    \/ \E r \in Requests : RequestStep(r)
    \/ \E w \in Workers : WorkerStep(w) \/ WorkerDies(w)
    \/ Stop \/ Exit \/ Crash \/ Boot

Spec == Init /\ [][Next]_vars

\* Threads keep running, a wait with a timeout returns, bodies end (every request
\* they make has a timeout), a stopping process exits, and the container restarts
\* (restart: unless-stopped).  Nobody has to click anything.
Fairness ==
    /\ \A w \in Workers : WF_vars(WorkerStep(w))
    /\ \A r \in Requests : WF_vars(Enqueue(r) \/ Wake(r) \/ EnqueueExtraction(r))
    /\ WF_vars(Exit)
    /\ WF_vars(Boot)

FairSpec == Spec /\ Fairness

-----------------------------------------------------------------------------
(* Properties *)

\* Every variable keeps its type: what each column, program counter and event holds.
TypeOK ==
    /\ state \in [Jobs -> RowStates \cup {"absent", "deleted"}]
    /\ kind \in [Jobs -> Kinds \cup {None}]
    /\ created \in [Jobs -> Nat]
    /\ cancelRequested \in [Jobs -> BOOLEAN]
    /\ clock \in Nat
    /\ process \in {"up", "stopping", "down"}
    /\ restarts \in Nat
    /\ wake \in BOOLEAN
    /\ wpc \in [Workers -> WorkerPcs]
    /\ wjob \in [Workers -> Jobs \cup {None}]
    /\ verdict \in [Workers -> TERMINAL_STATES \cup {None}]
    /\ rpc \in [Requests -> RequestPcs]
    /\ rjob \in [Requests -> Jobs \cup {None}]
    /\ rkinds \in [Requests -> Plans]
    /\ rtime \in [Requests -> Nat]
    /\ rqueued \in [Requests -> SUBSET Jobs]
    /\ unannounced \in SUBSET Jobs
    /\ born \in [Jobs -> Nat]

\* No two workers ever own the same job, whatever the requests write in between:
\* the "AND state = 'queued'" that claim_next's comment relies on (app/jobs.py:174-182).
NoDoubleClaim ==
    \A v, w \in Workers : Holds(v) /\ Holds(w) /\ wjob[v] = wjob[w] => v = w

\* In a process that is up, a row says "running" only while a live worker owns it, or
\* after a statement of this process's worker raised and took the thread with it: such
\* a row is abandoned, nobody moves it on, and it stays "running" until the next start.
\* No orphan survives a start (app/jobs.py:320-327).
RunningIsOwned ==
    \A j \in Jobs :
        state[j] = RUNNING =>
            \/ process = "down"
            \/ \E w \in Workers : Holds(w) /\ wjob[w] = j
            \/ DbMayFail /\ Abandoned(j)

\* A job whose INSERT had committed before another job's created_at was read is
\* claimed before that other one, although a claim is two statements: what the
\* chains of routes/support_package.py count on when they call the queue FIFO.
ClaimsInOrder ==
    [][\A i, j \in Jobs :
         state[j] = QUEUED /\ state'[j] = RUNNING /\ i # j /\ born[i] <= created[j]
           => state[i] # QUEUED]_vars

\* Nothing brings a finished or deleted job back: no claim, cancellation, restart or
\* late mark_* ever writes an active state over a terminal one.
NoResurrection ==
    [][\A j \in Jobs :
         /\ state[j] \in TERMINAL_STATES => state'[j] \in TERMINAL_STATES \cup {"deleted"}
         /\ state[j] = "deleted" => state'[j] = "deleted"]_vars

\* The queue implements app/jobs.py's promise: at most one execution of each job, none
\* of a job withdrawn in time, and a restart that loses only what was executing.
QueueView ==
    INSTANCE WorkQueue WITH
        pending <- {j \in Jobs : state[j] = QUEUED},
        executing <- [w \in Workers |-> IF Holds(w) THEN wjob[w] ELSE None],
        settled <- {j \in Jobs :
                      /\ state[j] \notin {"absent", QUEUED}
                      /\ ~\E w \in Workers : Holds(w) /\ wjob[w] = j}

ImplementsWorkQueue == QueueView!QueueSpec

\* A job whose row was deleted after a cancellation: when the cancellation was the
\* racing one (see TerminalIsFinal), claim_next reads the row back as "no job", and
\* the worker goes idle without having looked at what else is queued.
RacedAway == \E j \in Jobs : state[j] = "deleted" /\ cancelRequested[j]

\* Its handler has yet to call wake_worker for this job.
WakeToCome(j) == \E r \in Requests : rpc[r] \in {"more", "wake"} /\ j \in rqueued[r]

\* With one worker, no wake-up is lost between the SELECT, the wait and the clear: it
\* waits on a clear event beside a queued job only while the wake() for that job is
\* still to come.  The exceptions are what the idle poll is needed for
\* (app/job_runner.py:104-116): RacedAway, and the jobs no wake() follows at all - the
\* extraction queued with a collection (app/routes/collect.py:209-220), which a
\* collection that fails fast leaves waiting, and a chain whose handler raised half-way.
NoLostWakeup ==
    \A w \in Workers, j \in Jobs :
        wpc[w] = "idle" /\ ~wake /\ state[j] = QUEUED /\ j \notin unannounced
          => RacedAway \/ WakeToCome(j)

\* Every job that was queued reaches a terminal state (or is deleted after one), and no
\* stop, crash or restart leaves a row active for ever (app/jobs.py:320-327).
EveryJobSettles ==
    \A j \in Jobs :
        state[j] \in ACTIVE_STATES ~> state[j] \in TERMINAL_STATES \cup {"deleted"}

\* app/jobs.py:27: "Terminal states are the ones a job never leaves".
TerminalIsFinal ==
    [][\A j \in Jobs :
         state[j] \in TERMINAL_STATES => state'[j] \in {state[j], "deleted"}]_vars

=============================================================================
