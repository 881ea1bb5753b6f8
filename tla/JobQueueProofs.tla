---------------------------- MODULE JobQueueProofs ----------------------------
(***************************************************************************)
(* Proofs about JobQueue, for any number of jobs, workers, requests and    *)
(* restarts.                                                               *)
(***************************************************************************)
EXTENDS JobQueue, WellFoundedInduction, TLAPS

\* Past its SELECT, a worker has a job, and that job has had a row.
WorkerHasJob ==
    \A w \in Workers :
        /\ wpc[w] \in {"selected", "claimed", "body", "mark"} =>
              wjob[w] \in Jobs /\ state[wjob[w]] # "absent"
        /\ wpc[w] \in {"loop", "select", "idle", "woken", "off"} => wjob[w] = None
        /\ wpc[w] = "mark" => verdict[w] \in TERMINAL_STATES

\* An owned job has been claimed: it is neither new nor queued.
OwnedWasClaimed ==
    \A w \in Workers : Holds(w) => state[wjob[w]] \notin {"absent", QUEUED}

\* A request past its read names a job that had a row when it was read.
RequestHasTarget ==
    \A r \in Requests :
        /\ rpc[r] \in {"enqueue", "more", "extract"} => rkinds[r] # <<>>
        /\ rpc[r] \in {"cancelQueued", "cancelRunning"} =>
              rjob[r] \in Jobs /\ state[rjob[r]] # "absent"
        /\ rpc[r] = "delete" =>
              rjob[r] \in Jobs /\ state[rjob[r]] \in TERMINAL_STATES \cup {"deleted"}

\* A process that is down runs nothing.
DownIsQuiet == process = "down" => \A w \in Workers : wpc[w] = "off"

\* No timestamp lies in the future, and a row is committed after it was stamped.
StampedBeforeBorn ==
    \A j \in Jobs :
        /\ created[j] <= clock
        /\ state[j] # "absent" => created[j] < born[j]

\* What claim_next selected stays in front of everything queued since its stamp.
SelectedIsFirst ==
    \A w \in Workers, i \in Jobs :
        wpc[w] = "selected" /\ state[i] = QUEUED /\ i # wjob[w] => created[wjob[w]] < born[i]

IInv ==
    /\ TypeOK
    /\ WorkerHasJob
    /\ OwnedWasClaimed
    /\ RequestHasTarget
    /\ DownIsQuiet
    /\ StampedBeforeBorn
    /\ SelectedIsFirst
    /\ NoDoubleClaim
    /\ RunningIsOwned

-----------------------------------------------------------------------------

\* None is neither a job nor a kind.
LEMMA NoneIsNothing == None \notin Jobs /\ None \notin Kinds
  BY JobQueueAssumption

\* Used in every proof below: None, what each variable holds, and the names of states
\* and groups of variables.
USE NoneIsNothing
    DEF TypeOK, Holds, rows, workerVars, requestVars, history, RowStates, TERMINAL_STATES,
        ACTIVE_STATES, QUEUED, RUNNING, SUCCEEDED, FAILED, CANCELLED, WorkerPcs, RequestPcs

\* A plan may be empty, is one when a route begins, and stays one as it is carried out.
LEMMA PlanFacts ==
  /\ <<>> \in Plans
  /\ Routes \subseteq Plans \ {<<>>}
  /\ \A ks \in Plans : ks # <<>> => Head(ks) \in Kinds /\ Tail(ks) \in Plans
  BY RoutesAssumption DEF Plans

\* Nothing has happened yet.
LEMMA InvInit == Init => IInv
  <1> SUFFICES ASSUME Init PROVE IInv
    OBVIOUS
  <1> USE DEF Init, IInv
  <1>1. TypeOK /\ DownIsQuiet /\ RequestHasTarget
    BY PlanFacts DEF DownIsQuiet, RequestHasTarget
  <1>2. WorkerHasJob /\ OwnedWasClaimed
    BY DEF WorkerHasJob, OwnedWasClaimed
  <1>3. StampedBeforeBorn /\ SelectedIsFirst
    BY DEF StampedBeforeBorn, SelectedIsFirst
  <1>4. NoDoubleClaim /\ RunningIsOwned
    BY DEF NoDoubleClaim, RunningIsOwned, Abandoned
  <1>5. QED
    BY <1>1, <1>2, <1>3, <1>4

\* A request handler's statement keeps the invariant: it creates a row that did not
\* exist or writes one that did, and never what a worker remembers.
LEMMA InvRequest == ASSUME IInv, NEW r \in Requests, RequestStep(r) PROVE IInv'
  <1>1. CASE \E ks \in Routes : StartRequest(r, ks)
    BY <1>1, PlanFacts DEF StartRequest, IInv, WorkerHasJob, OwnedWasClaimed, RequestHasTarget, DownIsQuiet,
        StampedBeforeBorn, SelectedIsFirst, NoDoubleClaim, RunningIsOwned, Abandoned
  <1>2. CASE Enqueue(r) \/ EnqueueExtraction(r)
    <2>1. PICK j \in Jobs : Insert(r, j)
      BY <1>2 DEF Enqueue, EnqueueExtraction
    <2>2. rkinds[r] # <<>>
      BY <1>2 DEF Enqueue, EnqueueExtraction, IInv, RequestHasTarget
    <2>3. TypeOK'
      <3>1. Head(rkinds[r]) \in Kinds /\ Tail(rkinds[r]) \in Plans
        <4>1. rkinds[r] \in Plans
          BY DEF IInv
        <4>2. QED
          BY ONLY <2>2, <4>1, PlanFacts
      <3>2. rpc' \in [Requests -> RequestPcs]
        <4>1. PICK pc \in {"wake", "more", "idle", "extract"} : rpc' = [rpc EXCEPT ![r] = pc]
          BY ONLY <1>2 DEF Enqueue, EnqueueExtraction, AfterEnqueue
        <4>2. rpc \in [Requests -> RequestPcs]
          BY DEF IInv
        <4>3. QED
          BY ONLY <4>1, <4>2 DEF RequestPcs
      <3>3. clock' \in Nat /\ rtime' \in [Requests -> Nat]
        <4>1. clock' = clock + 1 /\ clock \in Nat /\ rtime \in [Requests -> Nat]
          BY <2>1 DEF Insert, IInv
        <4>2. \E n \in {0, clock'} : rtime' = [rtime EXCEPT ![r] = n]
          BY <1>2 DEF Enqueue, EnqueueExtraction
        <4>3. QED
          BY ONLY <4>1, <4>2
      <3>4. rqueued' \in [Requests -> SUBSET Jobs] /\ unannounced' \in SUBSET Jobs
        <4>1. CASE Enqueue(r)
          BY <4>1 DEF Enqueue, IInv
        <4>2. CASE EnqueueExtraction(r)
          <5>1. PICK i \in Jobs : unannounced' = unannounced \cup {i}
            BY <4>2 DEF EnqueueExtraction
          <5>2. rqueued' = rqueued
            BY <4>2 DEF EnqueueExtraction
          <5>3. QED
            BY <5>1, <5>2 DEF IInv
        <4>3. QED
          BY <1>2, <4>1, <4>2
      <3>5. /\ state' \in [Jobs -> RowStates \cup {"absent", "deleted"}]
            /\ kind' \in [Jobs -> Kinds \cup {None}]
        BY <2>1, <3>1 DEF Insert, IInv
      <3>6. created' \in [Jobs -> Nat] /\ born' \in [Jobs -> Nat]
        BY <2>1 DEF Insert, IInv
      <3>7. rkinds' \in [Requests -> Plans]
        BY <2>1, <3>1 DEF Insert, IInv
      <3>8. UNCHANGED <<cancelRequested, process, restarts, wake, wpc, wjob, verdict, rjob>>
        BY <2>1 DEF Insert
      <3>9. QED
        BY <3>2, <3>3, <3>4, <3>5, <3>6, <3>7, <3>8 DEF IInv
    <2>4. RequestHasTarget'
      <3>a. \E pc \in {"idle", "more", "wake", "extract"} :
              /\ rpc' = [rpc EXCEPT ![r] = pc]
              /\ pc \in {"more", "extract"} => rkinds'[r] # <<>>
        <4>1. CASE Enqueue(r)
          BY <4>1 DEF Enqueue, AfterEnqueue
        <4>2. CASE EnqueueExtraction(r)
          BY <4>2 DEF EnqueueExtraction
        <4>3. QED
          BY <1>2, <4>1, <4>2
      <3>b. rjob' = rjob /\ rkinds' = [rkinds EXCEPT ![r] = Tail(@)]
        BY <2>1 DEF Insert
      <3>c. rpc \in [Requests -> RequestPcs] /\ rkinds \in [Requests -> Plans]
        BY DEF IInv
      <3>1. rpc'[r] \in {"more", "extract"} => rkinds'[r] # <<>>
        BY <3>a, <3>c
      <3>2. /\ rpc'[r] \in {"idle", "more", "wake", "extract"} /\ rjob' = rjob
            /\ \A q \in Requests \ {r} : rpc'[q] = rpc[q] /\ rkinds'[q] = rkinds[q]
        BY <3>a, <3>b, <3>c
      <3>3. state[j] = "absent" /\ state' = [state EXCEPT ![j] = QUEUED]
        BY <2>1 DEF Insert
      <3>4. QED
        BY <3>1, <3>2, <3>3 DEF IInv, RequestHasTarget
    <2>5. WorkerHasJob' /\ OwnedWasClaimed' /\ DownIsQuiet'
      <3>1. /\ state[j] = "absent" /\ state' = [state EXCEPT ![j] = QUEUED]
            /\ UNCHANGED <<process, wpc, wjob, verdict>>
        BY <2>1 DEF Insert
      <3>2. WorkerHasJob'
        BY <3>1 DEF IInv, WorkerHasJob
      <3>3. OwnedWasClaimed' /\ DownIsQuiet'
        BY <3>1 DEF IInv, OwnedWasClaimed, DownIsQuiet
      <3>4. QED
        BY <3>2, <3>3
    <2>6. StampedBeforeBorn' /\ SelectedIsFirst'
      BY <2>1 DEF Insert, IInv, StampedBeforeBorn, SelectedIsFirst, WorkerHasJob
    <2>7. NoDoubleClaim' /\ RunningIsOwned'
      BY <2>1 DEF Insert, IInv, NoDoubleClaim, RunningIsOwned, Abandoned
    <2>8. QED
      BY <2>3, <2>4, <2>5, <2>6, <2>7 DEF IInv
  <1>3. CASE Wake(r)
    BY <1>3 DEF Wake, IInv, WorkerHasJob, OwnedWasClaimed, RequestHasTarget, DownIsQuiet,
        StampedBeforeBorn, SelectedIsFirst, NoDoubleClaim, RunningIsOwned, Abandoned
  <1>4. CASE \E j \in Jobs : CancelRead(r, j)
    BY <1>4 DEF CancelRead, IInv, WorkerHasJob, OwnedWasClaimed, RequestHasTarget, DownIsQuiet,
        StampedBeforeBorn, SelectedIsFirst, NoDoubleClaim, RunningIsOwned, Abandoned
  <1>5. CASE CancelQueuedWrite(r)
    <2> USE <1>5 DEF CancelQueuedWrite, IInv
    <2>1. rjob[r] \in Jobs /\ state[rjob[r]] # "absent"
      BY DEF RequestHasTarget
    <2>2. TypeOK' /\ DownIsQuiet' /\ NoDoubleClaim'
      BY <2>1 DEF DownIsQuiet, NoDoubleClaim
    <2>3. WorkerHasJob'
      BY <2>1 DEF WorkerHasJob
    <2>4. OwnedWasClaimed'
      BY <2>1 DEF OwnedWasClaimed, WorkerHasJob
    <2>5. RequestHasTarget'
      BY <2>1 DEF RequestHasTarget
    <2>6. StampedBeforeBorn' /\ SelectedIsFirst'
      BY <2>1 DEF StampedBeforeBorn, SelectedIsFirst
    <2>7. RunningIsOwned'
      BY <2>1 DEF RunningIsOwned, Abandoned
    <2>8. QED
      BY <2>2, <2>3, <2>4, <2>5, <2>6, <2>7
  <1>6. CASE CancelRunningWrite(r)
    BY <1>6 DEF CancelRunningWrite, IInv, WorkerHasJob, OwnedWasClaimed, RequestHasTarget, DownIsQuiet,
        StampedBeforeBorn, SelectedIsFirst, NoDoubleClaim, RunningIsOwned, Abandoned
  <1>7. CASE \E j \in Jobs : DeleteRead(r, j)
    BY <1>7 DEF DeleteRead, IInv, WorkerHasJob, OwnedWasClaimed, RequestHasTarget, DownIsQuiet,
        StampedBeforeBorn, SelectedIsFirst, NoDoubleClaim, RunningIsOwned, Abandoned
  <1>8. CASE DeleteWrite(r)
    <2> USE <1>8 DEF DeleteWrite, IInv
    <2>1. rjob[r] \in Jobs /\ state[rjob[r]] \in TERMINAL_STATES \cup {"deleted"}
      BY DEF RequestHasTarget
    <2>2. TypeOK' /\ DownIsQuiet' /\ NoDoubleClaim'
      BY <2>1 DEF DownIsQuiet, NoDoubleClaim
    <2>3. WorkerHasJob' /\ OwnedWasClaimed'
      BY <2>1 DEF WorkerHasJob, OwnedWasClaimed
    <2>4. RequestHasTarget'
      BY <2>1 DEF RequestHasTarget
    <2>5. StampedBeforeBorn' /\ SelectedIsFirst'
      BY <2>1 DEF StampedBeforeBorn, SelectedIsFirst
    <2>6. RunningIsOwned'
      BY <2>1 DEF RunningIsOwned, Abandoned
    <2>7. QED
      BY <2>2, <2>3, <2>4, <2>5, <2>6
  <1>9. CASE RequestFails(r)
    BY <1>9, PlanFacts DEF RequestFails, IInv, WorkerHasJob, OwnedWasClaimed, RequestHasTarget, DownIsQuiet,
        StampedBeforeBorn, SelectedIsFirst, NoDoubleClaim, RunningIsOwned, Abandoned
  <1>10. QED
    BY <1>1, <1>2, <1>3, <1>4, <1>5, <1>6, <1>7, <1>8, <1>9 DEF RequestStep

\* The worker's reads and its moves between the loop, the wait and the body write no
\* row; what it selects is in front of the queue.
LEMMA InvWorkerMoves ==
  ASSUME IInv, NEW w \in Workers,
         \/ EnterRunOne(w) \/ LeaveLoop(w) \/ SelectNone(w) \/ SelectOldest(w)
         \/ StartBody(w) \/ Checkpoint(w) \/ BodyEnds(w)
         \/ Woken(w) \/ Poll(w) \/ ClearWake(w) \/ WorkerDies(w)
  PROVE  IInv'
  <1>1. CASE EnterRunOne(w)
    BY <1>1 DEF EnterRunOne, IInv, WorkerHasJob, OwnedWasClaimed, RequestHasTarget, DownIsQuiet,
        StampedBeforeBorn, SelectedIsFirst, NoDoubleClaim, RunningIsOwned, Abandoned
  <1>2. CASE LeaveLoop(w)
    BY <1>2 DEF LeaveLoop, IInv, WorkerHasJob, OwnedWasClaimed, RequestHasTarget, DownIsQuiet,
        StampedBeforeBorn, SelectedIsFirst, NoDoubleClaim, RunningIsOwned, Abandoned
  <1>3. CASE SelectNone(w)
    BY <1>3 DEF SelectNone, IInv, WorkerHasJob, OwnedWasClaimed, RequestHasTarget, DownIsQuiet,
        StampedBeforeBorn, SelectedIsFirst, NoDoubleClaim, RunningIsOwned, Abandoned
  <1>4. CASE SelectOldest(w)
    <2> USE <1>4 DEF SelectOldest, Oldest, IInv
    <2>1. TypeOK' /\ DownIsQuiet' /\ RequestHasTarget'
      BY DEF DownIsQuiet, RequestHasTarget, WorkerHasJob
    <2>2. WorkerHasJob'
      BY DEF WorkerHasJob
    <2>3. OwnedWasClaimed' /\ RunningIsOwned'
      BY DEF OwnedWasClaimed, RunningIsOwned, Abandoned
    <2>4. NoDoubleClaim'
      BY DEF NoDoubleClaim
    <2>5. StampedBeforeBorn'
      BY DEF StampedBeforeBorn
    <2>6. SelectedIsFirst'
      BY DEF SelectedIsFirst, StampedBeforeBorn
    <2>7. QED
      BY <2>1, <2>2, <2>3, <2>4, <2>5, <2>6
  <1>5. CASE StartBody(w)
    <2> USE <1>5 DEF StartBody, IInv
    <2>1. TypeOK' /\ DownIsQuiet' /\ RequestHasTarget'
      <3>1. TypeOK'
        BY DEF WorkerHasJob
      <3>2. DownIsQuiet'
        BY DEF DownIsQuiet
      <3>3. RequestHasTarget'
        BY DEF RequestHasTarget
      <3>4. QED
        BY <3>1, <3>2, <3>3
    <2>2. WorkerHasJob'
      BY DEF WorkerHasJob
    <2>3. OwnedWasClaimed' /\ RunningIsOwned'
      BY DEF OwnedWasClaimed, RunningIsOwned, Abandoned
    <2>4. NoDoubleClaim'
      BY DEF NoDoubleClaim
    <2>5. StampedBeforeBorn'
      BY DEF StampedBeforeBorn
    <2>6. SelectedIsFirst'
      BY DEF SelectedIsFirst, StampedBeforeBorn
    <2>7. QED
      BY <2>1, <2>2, <2>3, <2>4, <2>5, <2>6
  <1>6. CASE Checkpoint(w)
    BY <1>6 DEF Checkpoint, IInv, WorkerHasJob, OwnedWasClaimed, RequestHasTarget, DownIsQuiet,
        StampedBeforeBorn, SelectedIsFirst, NoDoubleClaim, RunningIsOwned, Abandoned
  <1>7. CASE BodyEnds(w)
    BY <1>7 DEF BodyEnds, IInv, WorkerHasJob, OwnedWasClaimed, RequestHasTarget, DownIsQuiet,
        StampedBeforeBorn, SelectedIsFirst, NoDoubleClaim, RunningIsOwned, Abandoned
  <1>8. CASE Woken(w)
    BY <1>8 DEF Woken, IInv, WorkerHasJob, OwnedWasClaimed, RequestHasTarget, DownIsQuiet,
        StampedBeforeBorn, SelectedIsFirst, NoDoubleClaim, RunningIsOwned, Abandoned
  <1>9. CASE Poll(w)
    BY <1>9 DEF Poll, IInv, WorkerHasJob, OwnedWasClaimed, RequestHasTarget, DownIsQuiet,
        StampedBeforeBorn, SelectedIsFirst, NoDoubleClaim, RunningIsOwned, Abandoned
  <1>10. CASE ClearWake(w)
    <2> USE <1>10 DEF ClearWake, IInv
    <2>1. TypeOK' /\ DownIsQuiet' /\ RequestHasTarget'
      BY DEF DownIsQuiet, RequestHasTarget
    <2>2. WorkerHasJob' /\ OwnedWasClaimed'
      BY DEF WorkerHasJob, OwnedWasClaimed
    <2>3. StampedBeforeBorn' /\ SelectedIsFirst'
      BY DEF StampedBeforeBorn, SelectedIsFirst
    <2>4. NoDoubleClaim' /\ RunningIsOwned'
      BY DEF NoDoubleClaim, RunningIsOwned, Abandoned, WorkerHasJob
    <2>5. QED
      BY <2>1, <2>2, <2>3, <2>4
  <1>11. CASE WorkerDies(w)
    <2> USE <1>11 DEF WorkerDies, IInv
    <2>1. TypeOK' /\ DownIsQuiet' /\ RequestHasTarget'
      BY DEF DownIsQuiet, RequestHasTarget
    <2>2. WorkerHasJob' /\ OwnedWasClaimed'
      BY DEF WorkerHasJob, OwnedWasClaimed
    <2>3. StampedBeforeBorn' /\ SelectedIsFirst'
      BY DEF StampedBeforeBorn, SelectedIsFirst
    <2>4. NoDoubleClaim'
      BY DEF NoDoubleClaim
    <2>5. RunningIsOwned'
      BY DEF RunningIsOwned, Abandoned
    <2>6. QED
      BY <2>1, <2>2, <2>3, <2>4, <2>5
  <1>12. QED
    BY <1>1, <1>2, <1>3, <1>4, <1>5, <1>6, <1>7, <1>8, <1>9, <1>10, <1>11

\* The two statements of a worker that write the row: the claim, which its guard
\* keeps off a job someone owns, and the mark_* call that gives the job up.
LEMMA InvWorkerWrites ==
  ASSUME IInv, NEW w \in Workers, Claim(w) \/ Mark(w) PROVE IInv'
  <1>1. CASE Claim(w)
    <2> USE <1>1 DEF Claim, Claimable, IInv
    <2>1. wjob[w] \in Jobs /\ wpc[w] = "selected"
      BY DEF WorkerHasJob
    <2>2. TypeOK' /\ DownIsQuiet' /\ StampedBeforeBorn'
      BY <2>1 DEF DownIsQuiet, StampedBeforeBorn
    <2>3. RequestHasTarget' /\ WorkerHasJob'
      <3>1. RequestHasTarget'
        <4>1. UNCHANGED <<rpc, rkinds, rjob>>
          BY ONLY <1>1 DEF Claim, requestVars
        <4>2. ASSUME NEW i \in Jobs
              PROVE  state'[i] = state[i] \/ (state[i] = QUEUED /\ state'[i] = RUNNING)
          <5>1. \/ UNCHANGED state
                \/ /\ state[wjob[w]] = QUEUED
                   /\ state' = [state EXCEPT ![wjob[w]] = RUNNING]
            BY ONLY <1>1 DEF Claim, Claimable
          <5>2. state \in [Jobs -> RowStates \cup {"absent", "deleted"}]
            OBVIOUS
          <5>3. QED
            BY ONLY <5>1, <5>2, <4>2
        <4>3. RequestHasTarget
          OBVIOUS
        <4>4. QED
          BY ONLY <4>1, <4>2, <4>3
             DEF RequestHasTarget, QUEUED, RUNNING, TERMINAL_STATES, SUCCEEDED, FAILED, CANCELLED
      <3>2. WorkerHasJob'
        BY <2>1 DEF WorkerHasJob
      <3>3. QED
        BY <3>1, <3>2
    <2>4. OwnedWasClaimed' /\ SelectedIsFirst'
      BY <2>1 DEF OwnedWasClaimed, SelectedIsFirst, WorkerHasJob
    <2>5. NoDoubleClaim'
      <3>1. ASSUME NEW v \in Workers, v # w, Holds(v), state[wjob[w]] = QUEUED
            PROVE  wjob[v] # wjob[w]
        BY <3>1 DEF OwnedWasClaimed
      <3>2. QED
        BY <2>1, <3>1 DEF NoDoubleClaim
    <2>6. RunningIsOwned'
      BY <2>1 DEF RunningIsOwned, Abandoned
    <2>7. QED
      BY <2>2, <2>3, <2>4, <2>5, <2>6
  <1>2. CASE Mark(w)
    BY <1>2 DEF Mark, IInv, WorkerHasJob, OwnedWasClaimed, RequestHasTarget, DownIsQuiet,
        StampedBeforeBorn, SelectedIsFirst, NoDoubleClaim, RunningIsOwned, Abandoned
  <1>3. QED
    BY <1>1, <1>2

\* The process: its end takes every thread's memory, its start fails every orphan.
LEMMA InvProcess == ASSUME IInv, Stop \/ Exit \/ Crash \/ Boot PROVE IInv'
  <1>1. CASE Stop
    BY <1>1 DEF Stop, IInv, WorkerHasJob, OwnedWasClaimed, RequestHasTarget, DownIsQuiet,
        StampedBeforeBorn, SelectedIsFirst, NoDoubleClaim, RunningIsOwned, Abandoned
  <1>2. ASSUME Gone PROVE IInv'
    <2> USE <1>2 DEF Gone, IInv
    <2>1. TypeOK' /\ DownIsQuiet' /\ RequestHasTarget'
      BY PlanFacts DEF DownIsQuiet, RequestHasTarget
    <2>2. WorkerHasJob' /\ OwnedWasClaimed'
      BY DEF WorkerHasJob, OwnedWasClaimed
    <2>3. StampedBeforeBorn' /\ SelectedIsFirst'
      BY DEF StampedBeforeBorn, SelectedIsFirst
    <2>4. NoDoubleClaim' /\ RunningIsOwned'
      BY DEF NoDoubleClaim, RunningIsOwned, Abandoned
    <2>5. QED
      BY <2>1, <2>2, <2>3, <2>4
  <1>3. CASE Boot
    BY <1>3 DEF Boot, AfterReset, IInv, WorkerHasJob, OwnedWasClaimed, RequestHasTarget, DownIsQuiet,
        StampedBeforeBorn, SelectedIsFirst, NoDoubleClaim, RunningIsOwned, Abandoned
  <1>4. QED
    BY <1>1, <1>2, <1>3 DEF Exit, Crash

LEMMA InvNext == IInv /\ [Next]_vars => IInv'
  <1> SUFFICES ASSUME IInv, [Next]_vars PROVE IInv'
    OBVIOUS
  <1>1. ASSUME NEW r \in Requests, RequestStep(r) PROVE IInv'
    BY <1>1, InvRequest
  <1>2. ASSUME NEW w \in Workers, WorkerStep(w) \/ WorkerDies(w) PROVE IInv'
    BY <1>2, InvWorkerMoves, InvWorkerWrites DEF WorkerStep
  <1>3. CASE Stop \/ Exit \/ Crash \/ Boot
    BY <1>3, InvProcess
  <1>4. CASE UNCHANGED vars
    BY <1>4 DEF vars, IInv, WorkerHasJob, OwnedWasClaimed, RequestHasTarget, DownIsQuiet,
        StampedBeforeBorn, SelectedIsFirst, NoDoubleClaim, RunningIsOwned, Abandoned
  <1>5. QED
    BY <1>1, <1>2, <1>3, <1>4 DEF Next

\* The inductive invariant holds in every reachable state.
THEOREM Invariance == Spec => []IInv
  BY InvInit, InvNext, PTL DEF Spec

\* Every variable keeps its type, whatever the interleaving; mark_* only ever writes
\* a terminal state because run_one has decided on one first.
THEOREM TypeCorrect == Spec => []TypeOK
  <1>1. IInv => TypeOK
    BY DEF IInv
  <1>2. QED
    BY Invariance, <1>1, PTL

\* However many workers there are, no job is owned by two (claim_next's guard).
THEOREM ClaimExclusive == Spec => []NoDoubleClaim
  <1>1. IInv => NoDoubleClaim
    BY DEF IInv
  <1>2. QED
    BY Invariance, <1>1, PTL

\* In a process that is up, a row says "running" only while a live worker owns it, or
\* while the thread that owned it lies dead of a statement that raised (reset_orphans).
THEOREM NoOrphans == Spec => []RunningIsOwned
  <1>1. IInv => RunningIsOwned
    BY DEF IInv
  <1>2. QED
    BY Invariance, <1>1, PTL

-----------------------------------------------------------------------------
(* The wait of a single worker *)

\* A job that is not running any more between the claim and get_job was cancelled: only
\* request_cancel writes over a state that it read earlier.
ClaimedOrCancelled ==
    \A w \in Workers :
        wpc[w] = "claimed" => state[wjob[w]] = RUNNING \/ cancelRequested[wjob[w]]

\* Every step keeps that: an owned job is marked by its owner only, and cancel_requested is
\* never cleared.
LEMMA ClaimedStaysOrCancelled ==
  ASSUME IInv, ClaimedOrCancelled, [Next]_vars
  PROVE  ClaimedOrCancelled'
  <1> USE DEF IInv
  <1>1. ASSUME NEW r \in Requests, RequestStep(r) PROVE ClaimedOrCancelled'
    BY <1>1 DEF RequestStep, StartRequest, Enqueue, EnqueueExtraction, Insert, RequestFails, Wake, CancelRead, CancelQueuedWrite,
                CancelRunningWrite, DeleteRead, DeleteWrite, ClaimedOrCancelled, WorkerHasJob,
                RequestHasTarget
  <1>2. ASSUME NEW w \in Workers, WorkerStep(w) \/ WorkerDies(w) PROVE ClaimedOrCancelled'
    <2>1. CASE Claim(w)
      BY <2>1 DEF Claim, Claimable, ClaimedOrCancelled, WorkerHasJob, OwnedWasClaimed
    <2>2. CASE Mark(w)
      BY <2>2 DEF Mark, ClaimedOrCancelled, WorkerHasJob, NoDoubleClaim
    <2>3. CASE StartBody(w)
      BY <2>3 DEF StartBody, ClaimedOrCancelled
    <2>4. ASSUME ~Claim(w), ~Mark(w), ~StartBody(w)
          PROVE  /\ UNCHANGED <<state, cancelRequested>>
                 /\ \A v \in Workers : wpc'[v] = "claimed" => wpc[v] = "claimed" /\ wjob'[v] = wjob[v]
      BY <1>2, <2>4 DEF WorkerStep, EnterRunOne, LeaveLoop, SelectNone, SelectOldest,
                        Checkpoint, BodyEnds, Woken, Poll, ClearWake, WorkerDies
    <2>5. QED
      BY <2>1, <2>2, <2>3, <2>4 DEF ClaimedOrCancelled
  <1>3. CASE Stop \/ Exit \/ Crash \/ Boot
    BY <1>3 DEF Stop, Exit, Crash, Gone, Boot, ClaimedOrCancelled, DownIsQuiet
  <1>4. CASE UNCHANGED vars
    BY <1>4 DEF vars, ClaimedOrCancelled
  <1>5. QED
    BY <1>1, <1>2, <1>3, <1>4 DEF Next

\* A row that was deleted after a cancellation stays so.
LEMMA RacedAwayStays ==
  ASSUME IInv, [Next]_vars, RacedAway
  PROVE  RacedAway'
  <1>1. PICK j \in Jobs : state[j] = "deleted" /\ cancelRequested[j]
    BY DEF RacedAway
  <1>2. state'[j] = "deleted" /\ cancelRequested'[j]
    <2> USE <1>1 DEF IInv
    <2>1. ASSUME NEW r \in Requests, RequestStep(r) PROVE state'[j] = "deleted" /\ cancelRequested'[j]
      BY <2>1 DEF RequestStep, StartRequest, Enqueue, EnqueueExtraction, Insert, RequestFails, Wake, CancelRead, CancelQueuedWrite,
                  CancelRunningWrite, DeleteRead, DeleteWrite, RequestHasTarget
    <2>2. ASSUME NEW w \in Workers, WorkerStep(w) \/ WorkerDies(w) PROVE state'[j] = "deleted" /\ cancelRequested'[j]
      BY <2>2 DEF WorkerStep, EnterRunOne, LeaveLoop, SelectNone, SelectOldest, Claim, Claimable,
                  StartBody, Checkpoint, BodyEnds, Mark, Woken, Poll, ClearWake, WorkerDies,
                  WorkerHasJob
    <2>3. CASE Stop \/ Exit \/ Crash \/ Boot
      BY <2>3 DEF Stop, Exit, Crash, Gone, Boot, AfterReset
    <2>4. CASE UNCHANGED vars
      BY <2>4 DEF vars
    <2>5. QED
      BY <2>1, <2>2, <2>3, <2>4 DEF Next
  <1>3. QED
    BY <1>2 DEF RacedAway

\* A SELECT that finds nothing means that nothing is queued: some stamp is the smallest.
LEMMA OldestThere ==
  ASSUME IInv, NEW j \in Jobs, state[j] = QUEUED
  PROVE  Oldest # {}
  <1> DEFINE Stamps == {created[i] : i \in {k \in Jobs : state[k] = QUEUED}}
  <1>1. Stamps \subseteq Nat /\ Stamps # {}
    <2>1. created \in [Jobs -> Nat]
      BY DEF IInv
    <2>2. QED
      BY ONLY <2>1, j \in Jobs, state[j] = QUEUED
  <1>2. PICK n \in Stamps : \A m \in Stamps : n <= m
    <2> DEFINE Earlier == {p \in Nat \X Nat : p[1] < p[2]}
    <2>1. IsWellFoundedOn(Earlier, Nat)
      BY NatLessThanWellFounded DEF OpToRel
    <2> HIDE DEF Stamps, Earlier
    <2>2. PICK n \in Stamps : \A m \in Stamps : ~(<<m, n>> \in Earlier)
      <3>1. Stamps \subseteq Nat
        BY <1>1
      <3>2. Stamps # {}
        BY <1>1
      <3>3. QED
        BY ONLY <3>1, <3>2, <2>1, WFMin, Zenon
    <2>3. ASSUME NEW m \in Stamps PROVE n <= m
      <3>1. m \in Nat /\ n \in Nat
        BY <1>1, <2>2
      <3>2. ~(m < n)
        <4>1. <<m, n>> \in Nat \X Nat /\ <<m, n>> \notin Earlier
          BY <2>2, <2>3, <3>1
        <4>2. QED
          BY <4>1 DEF Earlier
      <3>3. QED
        BY ONLY <3>1, <3>2, SMT
    <2>4. QED
      BY <2>3
  <1>3. PICK i \in Jobs : state[i] = QUEUED /\ created[i] = n
    BY <1>2
  <1>4. i \in Oldest
    BY <1>2, <1>3 DEF Oldest
  <1>5. QED
    BY <1>4

\* With one worker a wake-up that is due is never cleared before it is seen.
LEMMA WakeupKept ==
  ASSUME \A v, w \in Workers : v = w,
         IInv, ClaimedOrCancelled, NoLostWakeup, [Next]_vars
  PROVE  NoLostWakeup'
  <1> SUFFICES ASSUME ~RacedAway, ~RacedAway' PROVE NoLostWakeup'
    BY RacedAwayStays DEF NoLostWakeup
  <1> USE DEF IInv
  <1>1. ASSUME NEW r \in Requests, RequestStep(r) PROVE NoLostWakeup'
    <2>1. CASE Enqueue(r)
      <3>1. rpc'[r] \in {"more", "wake"} /\ \A q \in Requests \ {r} : rpc'[q] = rpc[q]
        BY <2>1 DEF Enqueue, AfterEnqueue
      <3>2. PICK j \in Jobs : /\ state' = [state EXCEPT ![j] = QUEUED]
                              /\ rqueued' = [rqueued EXCEPT ![r] = @ \cup {j}]
        BY <2>1 DEF Enqueue, Insert
      <3>3. UNCHANGED <<wake, wpc, unannounced>>
        BY <2>1 DEF Enqueue, Insert
      <3>4. \A i \in Jobs : WakeToCome(i) \/ i = j => WakeToCome(i)'
        BY <3>1, <3>2 DEF WakeToCome
      <3>5. QED
        BY <3>2, <3>3, <3>4 DEF NoLostWakeup
    <2>2. CASE EnqueueExtraction(r)
      <3>1. PICK j \in Jobs : /\ state' = [state EXCEPT ![j] = QUEUED]
                              /\ unannounced' = unannounced \cup {j}
        BY <2>2 DEF EnqueueExtraction, Insert
      <3>2. UNCHANGED <<wake, wpc, rqueued>> /\ \A q \in Requests \ {r} : rpc'[q] = rpc[q]
        BY <2>2 DEF EnqueueExtraction, Insert
      <3>3. \A i \in Jobs : WakeToCome(i) => WakeToCome(i)'
        BY <2>2, <3>2 DEF EnqueueExtraction, WakeToCome
      <3>4. QED
        BY <3>1, <3>2, <3>3 DEF NoLostWakeup
    <2>3. CASE RequestFails(r)
      <3>1. \A i \in Jobs : WakeToCome(i) => WakeToCome(i)' \/ i \in unannounced'
        BY <2>3 DEF RequestFails, WakeToCome
      <3>2. UNCHANGED <<wake, wpc, state>> /\ unannounced \subseteq unannounced'
        BY <2>3 DEF RequestFails
      <3>3. QED
        BY <3>1, <3>2 DEF NoLostWakeup
    <2>4. CASE Wake(r)
      BY <2>4 DEF Wake, NoLostWakeup
    <2>5. ASSUME ~Enqueue(r), ~EnqueueExtraction(r), ~RequestFails(r), ~Wake(r)
          PROVE  NoLostWakeup'
      <3>1. /\ UNCHANGED <<wake, wpc, rqueued, unannounced>>
            /\ rpc[r] \notin {"more", "wake"}
            /\ \A q \in Requests \ {r} : rpc'[q] = rpc[q]
            /\ \A i \in Jobs : state'[i] = QUEUED => state[i] = QUEUED
        BY <1>1, <2>5 DEF RequestStep, StartRequest, CancelRead, CancelQueuedWrite,
                          CancelRunningWrite, DeleteRead, DeleteWrite
      <3>2. \A i \in Jobs : WakeToCome(i) => WakeToCome(i)'
        BY <3>1 DEF WakeToCome
      <3>3. QED
        BY <3>1, <3>2 DEF NoLostWakeup
    <2>6. QED
      BY <2>1, <2>2, <2>3, <2>4, <2>5
  <1>2. ASSUME NEW w \in Workers, WorkerStep(w) \/ WorkerDies(w) PROVE NoLostWakeup'
    <2>1. CASE SelectNone(w)
      BY <2>1, OldestThere DEF SelectNone, NoLostWakeup, WakeToCome
    <2>2. CASE StartBody(w)
      BY <2>2 DEF StartBody, ClaimedOrCancelled, WorkerHasJob, RacedAway, NoLostWakeup
    <2>3. ASSUME ~SelectNone(w), ~StartBody(w) PROVE wpc'[w] # "idle"
      BY <1>2, <2>3 DEF WorkerStep, EnterRunOne, LeaveLoop, SelectOldest, Claim,
                        Checkpoint, BodyEnds, Mark, Woken, Poll, ClearWake, WorkerDies
    <2>4. QED
      BY <2>1, <2>2, <2>3 DEF NoLostWakeup
  <1>3. CASE Stop \/ Exit \/ Crash \/ Boot
    BY <1>3 DEF Stop, Exit, Crash, Gone, Boot, NoLostWakeup, WakeToCome
  <1>4. CASE UNCHANGED vars
    BY <1>4 DEF vars, NoLostWakeup, WakeToCome
  <1>5. QED
    BY <1>1, <1>2, <1>3, <1>4 DEF Next

\* With the one worker that the application starts, any number of requests, routes and
\* restarts, it never waits beside a queued job that a handler announced or is about to
\* announce without the wake-up being still to come, except after the race that RacedAway
\* names; a job that no handler announces waits for the poll.
THEOREM NoWakeupLost ==
  ASSUME \A v, w \in Workers : v = w
  PROVE  Spec => []NoLostWakeup
  <1>1. Init => ClaimedOrCancelled /\ NoLostWakeup
    BY DEF Init, ClaimedOrCancelled, NoLostWakeup
  <1>2. IInv /\ ClaimedOrCancelled /\ NoLostWakeup /\ [Next]_vars
            => (ClaimedOrCancelled /\ NoLostWakeup)'
    BY ClaimedStaysOrCancelled, WakeupKept
  <1>3. QED
    BY Invariance, <1>1, <1>2, PTL DEF Spec

-----------------------------------------------------------------------------
(* Action properties *)

\* Neither a claim, a cancellation, a restart nor a late mark_* brings a finished or
\* deleted job back.
THEOREM NothingResurrects == Spec => NoResurrection
  <1> DEFINE Stays ==
        \A j \in Jobs :
            /\ state[j] \in TERMINAL_STATES => state'[j] \in TERMINAL_STATES \cup {"deleted"}
            /\ state[j] = "deleted" => state'[j] = "deleted"
  <1>1. IInv /\ [Next]_vars => [Stays]_vars
    <2> SUFFICES ASSUME IInv, Next PROVE Stays
      OBVIOUS
    <2> USE DEF IInv
    <2>1. ASSUME NEW r \in Requests, RequestStep(r) PROVE Stays
      BY <2>1 DEF RequestStep, StartRequest, Enqueue, EnqueueExtraction, Insert, RequestFails, Wake, CancelRead, CancelQueuedWrite,
                  CancelRunningWrite, DeleteRead, DeleteWrite, RequestHasTarget
    <2>2. ASSUME NEW w \in Workers, WorkerStep(w) \/ WorkerDies(w) PROVE Stays
      <3>1. CASE Claim(w)
        BY <3>1 DEF Claim, Claimable, WorkerHasJob
      <3>2. CASE Mark(w)
        BY <3>2 DEF Mark, WorkerHasJob
      <3>3. ASSUME ~Claim(w), ~Mark(w) PROVE UNCHANGED state
        BY <2>2, <3>3 DEF WorkerStep, EnterRunOne, LeaveLoop, SelectNone, SelectOldest, StartBody,
                    Checkpoint, BodyEnds, Woken, Poll, ClearWake, WorkerDies
      <3>4. QED
        BY <3>1, <3>2, <3>3
    <2>3. CASE Stop \/ Exit \/ Crash \/ Boot
      BY <2>3 DEF Stop, Exit, Crash, Gone, Boot, AfterReset
    <2>4. QED
      BY <2>1, <2>2, <2>3 DEF Next
  <1>2. QED
    BY Invariance, <1>1, PTL DEF Spec, NoResurrection

\* The queue is first in, first out for jobs enqueued one after the other, for any
\* number of workers and although a claim is two statements.
THEOREM FirstInFirstOut == Spec => ClaimsInOrder
  <1> DEFINE InOrder ==
        \A i, j \in Jobs :
            state[j] = QUEUED /\ state'[j] = RUNNING /\ i # j /\ born[i] <= created[j]
              => state[i] # QUEUED
  <1>1. IInv /\ [Next]_vars => [InOrder]_vars
    <2> SUFFICES ASSUME IInv, Next PROVE InOrder
      OBVIOUS
    <2> USE DEF IInv
    <2>1. ASSUME NEW r \in Requests, RequestStep(r) PROVE InOrder
      BY <2>1 DEF RequestStep, StartRequest, Enqueue, EnqueueExtraction, Insert, RequestFails, Wake, CancelRead, CancelQueuedWrite,
                  CancelRunningWrite, DeleteRead, DeleteWrite
    <2>2. ASSUME NEW w \in Workers, WorkerStep(w) \/ WorkerDies(w) PROVE InOrder
      <3>1. CASE Claim(w)
        BY <3>1 DEF Claim, Claimable, WorkerHasJob, SelectedIsFirst
      <3>2. CASE Mark(w)
        BY <3>2 DEF Mark, WorkerHasJob
      <3>3. ASSUME ~Claim(w), ~Mark(w) PROVE UNCHANGED state
        BY <2>2, <3>3 DEF WorkerStep, EnterRunOne, LeaveLoop, SelectNone, SelectOldest, StartBody,
                    Checkpoint, BodyEnds, Woken, Poll, ClearWake, WorkerDies
      <3>4. QED
        BY <3>1, <3>2, <3>3
    <2>3. CASE Stop \/ Exit \/ Crash \/ Boot
      BY <2>3 DEF Stop, Exit, Crash, Gone, Boot, AfterReset
    <2>4. QED
      BY <2>1, <2>2, <2>3 DEF Next
  <1>2. QED
    BY Invariance, <1>1, PTL DEF Spec, ClaimsInOrder

-----------------------------------------------------------------------------
(* Refinement of WorkQueue *)

\* The abstract queue starts empty.
LEMMA ViewInit == Init => QueueView!QueueInit
  BY DEF Init, QueueView!QueueInit

\* What a step leaves of the view when it changes neither which jobs are queued, nor
\* which have been claimed or finished, nor who owns what.
LEMMA ViewUnchanged ==
  ASSUME TypeOK,
         \A j \in Jobs : /\ state'[j] = QUEUED <=> state[j] = QUEUED
                         /\ state'[j] = "absent" <=> state[j] = "absent",
         \A w \in Workers : /\ Holds(w)' <=> Holds(w)
                            /\ Holds(w) => wjob'[w] = wjob[w]
  PROVE  UNCHANGED QueueView!queueVars
  BY DEF QueueView!queueVars

\* An INSERT submits, a cancellation before the claim withdraws, and every other
\* statement of a request is invisible.
LEMMA ViewRequest ==
  ASSUME IInv, NEW r \in Requests, RequestStep(r)
  PROVE  QueueView!QueueNext \/ UNCHANGED QueueView!queueVars
  <1> USE DEF IInv
  <1>1. CASE Enqueue(r) \/ EnqueueExtraction(r)
    <2>1. PICK j \in Jobs : /\ state[j] = "absent"
                            /\ state' = [state EXCEPT ![j] = QUEUED]
      BY <1>1 DEF Enqueue, EnqueueExtraction, Insert
    <2>2. UNCHANGED <<wpc, wjob>>
      BY <1>1 DEF Enqueue, EnqueueExtraction, Insert
    <2>3. \A w \in Workers : Holds(w) => wjob[w] # j
      BY <2>1 DEF OwnedWasClaimed
    <2>4. QueueView!Submit(j)
      BY <2>1, <2>2, <2>3 DEF QueueView!Submit, QueueView!Executing
    <2>5. QED
      BY <2>4 DEF QueueView!QueueNext
  <1>2. CASE CancelQueuedWrite(r)
    <2> PICK j \in Jobs : j = rjob[r]
      BY <1>2 DEF CancelQueuedWrite, RequestHasTarget
    <2>1. state[j] # "absent" /\ UNCHANGED <<wpc, wjob>>
      BY <1>2 DEF CancelQueuedWrite, RequestHasTarget
    <2>2. CASE state[j] = QUEUED
      <3>1. state' = [state EXCEPT ![j] = CANCELLED]
        BY <1>2, <2>2 DEF CancelQueuedWrite
      <3>2. \A w \in Workers : Holds(w) => wjob[w] # j
        BY <2>2 DEF OwnedWasClaimed
      <3>3. QueueView!Withdraw(j)
        BY <2>1, <2>2, <3>1, <3>2 DEF QueueView!Withdraw
      <3>4. QED
        BY <2>1, <3>3 DEF QueueView!QueueNext
    <2>3. CASE state[j] # QUEUED
      BY <1>2, <2>1, <2>3, ViewUnchanged DEF CancelQueuedWrite
    <2>4. QED
      BY <2>2, <2>3
  <1>3. CASE DeleteWrite(r)
    BY <1>3, ViewUnchanged DEF DeleteWrite, RequestHasTarget
  <1>4. CASE /\ ~Enqueue(r) /\ ~EnqueueExtraction(r)
             /\ ~CancelQueuedWrite(r) /\ ~DeleteWrite(r)
    <2>1. UNCHANGED <<state, wpc, wjob>>
      BY <1>4 DEF RequestStep, StartRequest, RequestFails, Wake, CancelRead, CancelRunningWrite,
                  DeleteRead
    <2>2. QED
      BY <2>1, ViewUnchanged
  <1>5. QED
    BY <1>1, <1>2, <1>3, <1>4

\* A successful claim begins an execution; mark_*, or a row that is gone when it is
\* read back, ends it; a worker that dies ends it too.
LEMMA ViewWorker ==
  ASSUME IInv, NEW w \in Workers, WorkerStep(w) \/ WorkerDies(w)
  PROVE  QueueView!QueueNext \/ UNCHANGED QueueView!queueVars
  <1> USE DEF IInv
  <1>1. CASE Claim(w)
    <2> PICK j \in Jobs : j = wjob[w]
      BY <1>1 DEF Claim, WorkerHasJob
    <2>1. ~Holds(w)
      BY <1>1 DEF Claim
    <2>2. CASE Claimable(j)
      <3>1. /\ state' = [state EXCEPT ![j] = RUNNING]
            /\ wpc' = [wpc EXCEPT ![w] = "claimed"]
            /\ wjob' = wjob
        BY <1>1, <2>2 DEF Claim
      <3>2. state[j] = QUEUED /\ wpc[w] # "claimed"
        BY <1>1, <2>2 DEF Claim, Claimable
      <3>3. Holds(w)'
        BY <3>1
      <3>4. \A v \in Workers : v # w => (Holds(v)' <=> Holds(v))
        BY <3>1
      <3>5. \A v \in Workers : Holds(v) => wjob[v] # j
        BY <3>2 DEF OwnedWasClaimed
      <3>6. {i \in Jobs : state'[i] = QUEUED} = {i \in Jobs : state[i] = QUEUED} \ {j}
        BY <3>1, <3>2
      <3>7. \A i \in Jobs : (\E v \in Workers : Holds(v)' /\ wjob'[v] = i)
                              <=> (\E v \in Workers : Holds(v) /\ wjob[v] = i) \/ i = j
        BY <2>1, <3>1, <3>3, <3>4
      <3>8. [v \in Workers |-> IF Holds(v)' THEN wjob'[v] ELSE None]
              = [[v \in Workers |-> IF Holds(v) THEN wjob[v] ELSE None] EXCEPT ![w] = j]
        BY <3>1, <3>3, <3>4
      <3>9. {i \in Jobs : /\ state'[i] \notin {"absent", QUEUED}
                          /\ ~\E v \in Workers : Holds(v)' /\ wjob'[v] = i}
              = {i \in Jobs : /\ state[i] \notin {"absent", QUEUED}
                              /\ ~\E v \in Workers : Holds(v) /\ wjob[v] = i}
        BY <3>1, <3>2, <3>7
      <3>10. QueueView!Begin(w, j)
        BY <2>1, <3>2, <3>6, <3>8, <3>9 DEF QueueView!Begin
      <3>11. QED
        BY <3>10 DEF QueueView!QueueNext
    <2>3. CASE ~Claimable(j)
      BY <1>1, <2>1, <2>3, ViewUnchanged DEF Claim
    <2>4. QED
      BY <2>2, <2>3
  <1>2. ASSUME Holds(w), ~Holds(w)',
               \A v \in Workers \ {w} : wpc'[v] = wpc[v] /\ wjob'[v] = wjob[v],
               \A i \in Jobs : /\ state'[i] = QUEUED <=> state[i] = QUEUED
                               /\ state'[i] = "absent" <=> state[i] = "absent"
        PROVE  QueueView!QueueNext
    <2> PICK j \in Jobs : j = wjob[w]
      BY <1>2
    <2>1. state[j] \notin {"absent", QUEUED}
      BY <1>2 DEF OwnedWasClaimed
    <2>2. \A v \in Workers : v # w => (Holds(v)' <=> Holds(v)) /\ wjob'[v] = wjob[v]
      BY <1>2
    <2>3. \A v \in Workers : v # w /\ Holds(v) => wjob[v] # j
      BY <1>2 DEF NoDoubleClaim
    <2>4. QueueView!End(w)
      <3> DEFINE Held(i) == \E v \in Workers : Holds(v) /\ wjob[v] = i
                 HeldNext(i) == \E v \in Workers : Holds(v)' /\ wjob'[v] = i
      <3>1. \A i \in Jobs : HeldNext(i) <=> Held(i) /\ i # j
        BY <1>2, <2>2, <2>3
      <3>2. [v \in Workers |-> IF Holds(v)' THEN wjob'[v] ELSE None]
              = [[v \in Workers |-> IF Holds(v) THEN wjob[v] ELSE None] EXCEPT ![w] = None]
        BY <1>2, <2>2
      <3>3. {i \in Jobs : state'[i] \notin {"absent", QUEUED} /\ ~HeldNext(i)}
              = {i \in Jobs : state[i] \notin {"absent", QUEUED} /\ ~Held(i)} \cup {j}
        BY <1>2, <2>1, <3>1
      <3>4. {i \in Jobs : state'[i] = QUEUED} = {i \in Jobs : state[i] = QUEUED}
        BY <1>2
      <3>5. QED
        BY <1>2, <3>2, <3>3, <3>4 DEF QueueView!End
    <2>5. QED
      BY <2>4 DEF QueueView!QueueNext
  <1>3. CASE Mark(w)
    BY <1>2, <1>3 DEF Mark, WorkerHasJob, OwnedWasClaimed
  <1>4. CASE StartBody(w)
    <2> DEFINE j == wjob[w]
    <2>1. CASE state[j] \notin RowStates
      BY <1>2, <1>4, <2>1 DEF StartBody, WorkerHasJob
    <2>2. CASE state[j] \in RowStates
      BY <1>4, <2>2, ViewUnchanged DEF StartBody
    <2>3. QED
      BY <2>1, <2>2
  <1>5. CASE SelectOldest(w)
    BY <1>5, ViewUnchanged DEF SelectOldest
  <1>6. CASE WorkerDies(w)
    <2>1. CASE Holds(w)
      BY <1>2, <1>6, <2>1 DEF WorkerDies
    <2>2. CASE ~Holds(w)
      BY <1>6, <2>2, ViewUnchanged DEF WorkerDies
    <2>3. QED
      BY <2>1, <2>2
  <1>7. CASE EnterRunOne(w) \/ LeaveLoop(w) \/ SelectNone(w) \/ Checkpoint(w) \/ BodyEnds(w)
             \/ Woken(w) \/ Poll(w) \/ ClearWake(w)
    BY <1>7, ViewUnchanged DEF EnterRunOne, LeaveLoop, SelectNone, Checkpoint, BodyEnds,
                               Woken, Poll, ClearWake
  <1>8. QED
    BY <1>1, <1>3, <1>4, <1>5, <1>6, <1>7 DEF WorkerStep

\* The end of the process loses what was executing; its start changes nothing here.
LEMMA ViewProcess ==
  ASSUME IInv, Stop \/ Exit \/ Crash \/ Boot
  PROVE  QueueView!QueueNext \/ UNCHANGED QueueView!queueVars
  <1> USE DEF IInv
  <1>1. CASE Gone
    <2>1. state' = state /\ \A w \in Workers : ~Holds(w)'
      BY <1>1 DEF Gone
    <2>2. \A w \in Workers : Holds(w) => wjob[w] \in Jobs /\ state[wjob[w]] \notin {"absent", QUEUED}
      BY DEF OwnedWasClaimed
    <2>3. QueueView!Lose
      BY <2>1, <2>2 DEF QueueView!Lose, QueueView!Executing
    <2>4. QED
      BY <2>3 DEF QueueView!QueueNext
  <1>2. CASE Stop
    BY <1>2, ViewUnchanged DEF Stop
  <1>3. CASE Boot
    BY <1>3, ViewUnchanged DEF Boot, AfterReset, DownIsQuiet
  <1>4. QED
    BY <1>1, <1>2, <1>3 DEF Exit, Crash

\* The rows, the worker and the requests implement the abstract queue: each job is
\* executed at most once, never once withdrawn, and a restart loses only what was
\* executing.
THEOREM Implementation == Spec => ImplementsWorkQueue
  <1>1. IInv /\ [Next]_vars => [QueueView!QueueNext]_(QueueView!queueVars)
    <2> SUFFICES ASSUME IInv, [Next]_vars
                 PROVE  QueueView!QueueNext \/ UNCHANGED QueueView!queueVars
      OBVIOUS
    <2>1. CASE UNCHANGED vars
      BY <2>1, ViewUnchanged DEF vars, IInv
    <2>2. CASE Next
      BY <2>2, ViewRequest, ViewWorker, ViewProcess DEF Next
    <2>3. QED
      BY <2>1, <2>2
  <1>2. QED
    BY ViewInit, Invariance, <1>1, PTL DEF Spec, ImplementsWorkQueue, QueueView!QueueSpec

=============================================================================
