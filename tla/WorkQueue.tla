------------------------------ MODULE WorkQueue ------------------------------
(***************************************************************************)
(* What the background queue of app/jobs.py and app/job_runner.py promises *)
(* the rest of the application, with no database rows, no threads and no   *)
(* statements: a job that was submitted is executed at most once, a job    *)
(* withdrawn before it started is never executed, each worker executes one *)
(* job at a time, and what a dying worker or a restart loses is what was   *)
(* executing and nothing else.                                             *)
(***************************************************************************)

CONSTANTS
    Jobs,     \* the job ids that may ever be drawn (uuid4: never drawn twice)
    Workers,  \* the threads that execute jobs
    None      \* the absence of a job

VARIABLES
    pending,    \* submitted, not started
    executing,  \* executing[w]: the job w is executing, or None
    settled     \* withdrawn, finished, or lost to a restart

queueVars == <<pending, executing, settled>>

Executing == {executing[w] : w \in Workers} \ {None}

QueueInit ==
    /\ pending = {}
    /\ executing = [w \in Workers |-> None]
    /\ settled = {}

Submit(j) ==
    /\ j \notin pending \cup settled \cup Executing
    /\ pending' = pending \cup {j}
    /\ UNCHANGED <<executing, settled>>

Withdraw(j) ==
    /\ j \in pending
    /\ pending' = pending \ {j}
    /\ settled' = settled \cup {j}
    /\ UNCHANGED executing

Begin(w, j) ==
    /\ executing[w] = None
    /\ j \in pending
    /\ pending' = pending \ {j}
    /\ executing' = [executing EXCEPT ![w] = j]
    /\ UNCHANGED settled

\* The execution is over: the job is done, or the worker is.
End(w) ==
    /\ executing[w] # None
    /\ settled' = settled \cup {executing[w]}
    /\ executing' = [executing EXCEPT ![w] = None]
    /\ UNCHANGED pending

\* A restart: whatever was executing is over, and pending work is kept.
Lose ==
    /\ settled' = settled \cup Executing
    /\ executing' = [w \in Workers |-> None]
    /\ UNCHANGED pending

QueueNext ==
    \/ \E j \in Jobs : Submit(j) \/ Withdraw(j)
    \/ \E w \in Workers : End(w) \/ \E j \in Jobs : Begin(w, j)
    \/ Lose

QueueSpec == QueueInit /\ [][QueueNext]_queueVars

=============================================================================
