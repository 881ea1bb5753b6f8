------------------------- MODULE ArtifactStoreProofs -------------------------
(***************************************************************************)
(* Theorems about ArtifactStore, for any number of jobs, artifacts,        *)
(* requests and restarts.                                                  *)
(***************************************************************************)
EXTENDS ArtifactStore, FiniteSetTheorems, WellFoundedInduction, TLAPS

\* A request past its SELECT is deleting something that has ended.
Deleting(r) == rpc[r] \in {"list", "unlink", "rows", "job"}

Ended(j) == state[j] \in TERMINAL_STATES \cup {"deleted"}

\* What a deletion works on has ended, and stays so: nothing queues or claims it again.
DeletesEnded ==
    \A r \in Requests :
        /\ Deleting(r) => rjob[r] \in Jobs /\ Ended(rjob[r])
        /\ \A j \in rplan[r] : Ended(j)
        /\ rpc[r] = "cancel" => rjob[r] \in Jobs

\* The body's job is running unless a late cancellation has overwritten that.
BodyRuns ==
    /\ wpc = "idle" <=> wjob = None
    /\ wjob # None => state[wjob] = "running" \/ wjob \in withdrawn
    /\ wpc = "wrote" <=> wfile # None

\* Once rmtree has run, a file in the directory was put there again by a withdrawn body, or
\* never had a row and is one that rmtree failed on.
Emptied ==
    \A r \in Requests : \A a \in Artifacts :
        rpc[r] \in {"rows", "job"} /\ file[a] = rjob[r] =>
            rjob[r] \in withdrawn \/ a \in swallowed \ recorded

\* A file that has had a row still has it, unless its job was withdrawn.
StillRecorded ==
    \A a \in recorded :
        file[a] # None => row[a] = file[a] \/ file[a] \in withdrawn

\* What a deletion has yet to unlink is in its list.
UnlinksAll ==
    \A r \in Requests : \A a \in Artifacts :
        rpc[r] = "unlink" /\ file[a] = rjob[r] /\ row[a] = rjob[r] =>
            a \in rfiles[r] \/ rjob[r] \in withdrawn

\* An id not drawn yet, or just drawn, has no row and is in nobody's list.
Unrecorded(a) ==
    /\ row[a] = None
    /\ a \notin recorded
    /\ \A r \in Requests : a \notin rfiles[r]

NewIds ==
    /\ \A a \in fresh : Unrecorded(a)
    /\ wfile # None => Unrecorded(wfile) /\ wfile \notin fresh

\* The body's last file is where it was put, unless a deletion has been there.
LastFile ==
    wfile # None => file[wfile] = wjob \/ (file[wfile] = None /\ wjob \in begun)

\* A recorded file is nowhere but in its job's directory.
AtHome == \A a \in Artifacts : row[a] # None => file[a] \in {None, row[a]}

\* What a request lists belongs to the job it deletes, and it has said so.
Lists ==
    \A r \in Requests :
        /\ rpc[r] = "unlink" => rjob[r] \in begun
        /\ rpc[r] # "unlink" => rfiles[r] = {}
        /\ \A a \in rfiles[r] : {row[a], file[a]} \subseteq {None, rjob[r]}

Inv ==
    /\ TypeOK
    /\ DeletesEnded /\ BodyRuns /\ Emptied /\ FilesReclaimable
    /\ NewIds /\ LastFile /\ AtHome /\ Lists /\ RowsHaveBodies
    /\ StillRecorded /\ UnlinksAll

\* What most steps need of the constants.
LEMMA NoneIsNothing == None \notin Jobs \cup Artifacts /\ MaxRestarts \in Nat
BY ArtifactStoreAssumption

USE NoneIsNothing
USE DEF TypeOK, DeletesEnded, Deleting, Ended, BodyRuns, Emptied, FilesReclaimable,
        NewIds, Unrecorded, LastFile, AtHome, Lists, RowsHaveBodies, Exists,
        StillRecorded, UnlinksAll,
        ACTIVE_STATES, TERMINAL_STATES, RequestPcs,
        storeVars, workerVars, requestVars, history, vars

\* Every initial state satisfies the invariant.
LEMMA InitInv == Init => Inv
BY DEF Init, Inv

\* The body's steps preserve it.
LEMMA WorkerInv == Inv /\ WorkerStep => Inv'
<1> SUFFICES ASSUME Inv, WorkerStep PROVE Inv'
  OBVIOUS
<1>1. CASE \E j \in Jobs : Claim(j)
  BY <1>1 DEF Inv, Claim
<1>2. CASE \E a \in Artifacts : WriteFile(a)
  BY <1>2 DEF Inv, WriteFile
<1>3. CASE Record
  BY <1>3 DEF Inv, Record
<1>4. CASE Finish
  BY <1>4 DEF Inv, Finish, Verdicts
<1> QED
  BY <1>1, <1>2, <1>3, <1>4 DEF WorkerStep

\* So do the steps of a request.
LEMMA RequestInv == ASSUME NEW r \in Requests PROVE Inv /\ RequestStep(r) => Inv'
<1> SUFFICES ASSUME Inv, RequestStep(r) PROVE Inv'
  OBVIOUS
<1>1. CASE \E j \in Jobs : CancelRead(r, j)
  BY <1>1 DEF Inv, CancelRead
<1>2. CASE \E j \in Jobs : StartDelete(r, j)
  BY <1>2 DEF Inv, StartDelete, Deletable
<1>3. CASE CancelWrite(r)
  BY <1>3 DEF Inv, CancelWrite
<1>4. CASE \E young \in SUBSET Jobs : StartApply(r, young)
  <2>1. PICK young \in SUBSET Jobs : StartApply(r, young)
    BY <1>4
  <2> DEFINE expired == Plan(young)
  <2>2. expired \subseteq Jobs /\ \A j \in expired : state[j] = "succeeded"
    BY DEF Plan, Stored
  <2>3. /\ rpc[r] = "idle"
        /\ \E j \in expired : /\ rjob' = [rjob EXCEPT ![r] = j]
                              /\ rplan' = [rplan EXCEPT ![r] = expired \ {j}]
        /\ planned' = planned \cup expired
        /\ rpc' = [rpc EXCEPT ![r] = "list"]
        /\ UNCHANGED <<state, storeVars, restarts, workerVars, rfiles, withdrawn, begun,
                       recorded, swallowed>>
    BY <2>1 DEF StartApply
  <2> HIDE DEF expired
  <2> QED
    BY <2>2, <2>3 DEF Inv
<1>5. CASE \E a \in Artifacts : Unlink(r, a)
  BY <1>5 DEF Inv, Unlink
<1>6. CASE ListFiles(r)
  BY <1>6 DEF Inv, ListFiles, Listed
<1>7. CASE UnlinkFails(r)
  BY <1>7 DEF Inv, UnlinkFails
<1>8. CASE Rmtree(r)
  <2>1. PICK left \in SUBSET DirectoryOf(rjob[r]) :
             /\ file' = [a \in Artifacts |->
                           IF a \in DirectoryOf(rjob[r]) \ left THEN None ELSE file[a]]
             /\ swallowed' = swallowed \cup left
    BY <1>8 DEF Rmtree
  <2>2. /\ rpc[r] = "unlink" /\ rjob[r] \in begun /\ rfiles[r] = {}
        /\ rpc' = [rpc EXCEPT ![r] = "rows"]
        /\ UNCHANGED <<state, row, fresh, restarts, workerVars, rjob, rfiles, rplan,
                       withdrawn, begun, planned, recorded>>
    BY <1>8 DEF Inv, Rmtree
  <2>3. /\ left \subseteq Artifacts /\ swallowed' \subseteq Artifacts
        /\ \A a \in left : file[a] = rjob[r] /\ a \in swallowed'
        /\ file' \in [Artifacts -> Jobs \cup {None}]
        /\ \A a \in Artifacts : /\ file'[a] \in {None, file[a]}
                                /\ file'[a] = rjob[r] => a \in left
                                /\ file[a] # rjob[r] => file'[a] = file[a]
    <3>1. \A a \in Artifacts : a \in DirectoryOf(rjob[r]) <=> file[a] = rjob[r]
      BY DEF DirectoryOf
    <3>2. left \subseteq Artifacts /\ \A a \in left : file[a] = rjob[r]
      BY <2>1 DEF DirectoryOf
    <3>3. swallowed' \subseteq Artifacts /\ \A a \in left : a \in swallowed'
      BY <2>1, <3>2 DEF Inv
    <3>4. \A a \in Artifacts :
              file'[a] = IF file[a] = rjob[r] /\ a \notin left THEN None ELSE file[a]
      BY <2>1, <3>1
    <3>5. file' \in [Artifacts -> Jobs \cup {None}]
      BY <2>1 DEF Inv
    <3>6. rjob[r] # None
      BY <2>2 DEF Inv
    <3> QED
      BY <3>2, <3>3, <3>4, <3>5, <3>6
  <2>4. rjob[r] \in Jobs /\ rjob[r] # None
    BY <2>2 DEF Inv
  <2>5. \A a \in left : rjob[r] \in withdrawn \/ a \notin recorded
    BY <2>2, <2>3, <2>4 DEF Inv
  <2>7. (TypeOK /\ DeletesEnded /\ BodyRuns)'
    BY <2>2, <2>3 DEF Inv
  <2>8. FilesReclaimable'
    BY <2>1, <2>2, <2>3 DEF Inv
  <2>9. (NewIds /\ StillRecorded /\ UnlinksAll)'
    BY <2>2, <2>3 DEF Inv
  <2>10. Emptied'
    BY <2>1, <2>2, <2>3, <2>5 DEF Inv
  <2>11. (LastFile /\ AtHome)'
    BY <2>2, <2>3 DEF Inv
  <2>12. RowsHaveBodies'
    BY <2>2, <2>3 DEF Inv
  <2>6. Lists'
    <3> SUFFICES ASSUME NEW q \in Requests
                 PROVE  /\ rpc'[q] = "unlink" => rjob[q] \in begun
                        /\ rpc'[q] # "unlink" => rfiles[q] = {}
                        /\ \A a \in rfiles[q] : {row[a], file'[a]} \subseteq {None, rjob[q]}
      BY <2>2
    <3>1. rpc'[r] = "rows"
      BY <2>2 DEF Inv
    <3>2. \A a \in rfiles[q] : {row[a], file'[a]} \subseteq {None, rjob[q]}
      BY <2>3 DEF Inv
    <3> QED
      BY <2>2, <3>1, <3>2 DEF Inv
  <2> QED
    BY <2>6, <2>7, <2>8, <2>9, <2>10, <2>11, <2>12 DEF Inv
<1>9. CASE DeleteRows(r)
  BY <1>9 DEF Inv, DeleteRows, RowsWithout
<1>10. CASE DeleteJob(r)
  <2>1. /\ row' \in [Artifacts -> Jobs \cup {None}]
        /\ \A a \in Artifacts : row'[a] = IF row[a] = rjob[r] THEN None ELSE row[a]
    BY <1>10 DEF Inv, DeleteJob, RowsWithout
  <2>2. /\ rpc[r] = "job" /\ rjob[r] \in Jobs /\ Ended(rjob[r])
        /\ state' = [state EXCEPT ![rjob[r]] = "deleted"]
        /\ UNCHANGED <<file, fresh, restarts, workerVars, rfiles, history>>
    BY <1>10 DEF Inv, DeleteJob
  <2>3. /\ rpc' \in [Requests -> RequestPcs]
        /\ rjob' \in [Requests -> Jobs \cup {None}]
        /\ rplan' \in [Requests -> SUBSET Jobs]
        /\ rpc'[r] \in {"idle", "list"} /\ rfiles[r] = {}
        /\ \A q \in Requests \ {r} :
              rpc'[q] = rpc[q] /\ rjob'[q] = rjob[q] /\ rplan'[q] = rplan[q]
    BY <1>10, SMTT(30) DEF Inv, DeleteJob
  <2>4. TypeOK'
    BY <2>1, <2>2, <2>3 DEF Inv
  <2>5. DeletesEnded'
    BY <1>10, <2>2 DEF Inv, DeleteJob
  <2>6. BodyRuns'
    BY <2>2 DEF Inv
  <2>7. (Emptied /\ NewIds /\ LastFile /\ AtHome)'
    BY <2>1, <2>2, <2>3 DEF Inv
  <2>8. (FilesReclaimable /\ StillRecorded /\ UnlinksAll)'
    BY <2>1, <2>2, <2>3 DEF Inv
  <2>9. RowsHaveBodies'
    BY <2>1, <2>2 DEF Inv
  <2>10. Lists'
    BY <2>1, <2>2, <2>3 DEF Inv
  <2> QED
    BY <2>4, <2>5, <2>6, <2>7, <2>8, <2>9, <2>10 DEF Inv
<1> QED
  BY <1>1, <1>2, <1>3, <1>4, <1>5, <1>6, <1>7, <1>8, <1>9, <1>10 DEF RequestStep

\* And a restart, with everything that was in memory gone.
LEMMA RestartInv == Inv /\ Restart => Inv'
BY DEF Inv, Restart

\* Every step of the store preserves the invariant.
LEMMA NextInv == Inv /\ [Next]_vars => Inv'
<1> SUFFICES ASSUME Inv, [Next]_vars PROVE Inv'
  OBVIOUS
<1>1. CASE WorkerStep
  BY <1>1, WorkerInv
<1>2. CASE \E r \in Requests : RequestStep(r)
  BY <1>2, RequestInv
<1>3. CASE Restart
  BY <1>3, RestartInv
<1>4. CASE UNCHANGED vars
  BY <1>4 DEF Inv
<1> QED
  BY <1>1, <1>2, <1>3, <1>4 DEF Next

\* The invariant holds in every reachable state.
THEOREM StoreInvariance == Spec => []Inv
<1>1. Init => Inv
  BY InitInv
<1>2. Inv /\ [Next]_vars => Inv'
  BY NextInv
<1> QED
  BY <1>1, <1>2, PTL DEF Spec

\* Type correctness of the store's state, whatever crashes in between.
THEOREM StoreTypeCorrect == Spec => []TypeOK
<1>1. Inv => TypeOK
  BY DEF Inv
<1> QED
  BY <1>1, StoreInvariance, PTL

\* A file outlives its job only under a body whose job was withdrawn, or when it never had
\* a row and rmtree failed on it in silence (delete_for_job).
THEOREM NothingUnreclaimable == Spec => []FilesReclaimable
<1>1. Inv => FilesReclaimable
  BY DEF Inv
<1> QED
  BY <1>1, StoreInvariance, PTL

\* Artifact rows never run ahead of their files (store_file, store_json, delete_for_job).
THEOREM NoBrokenDownload == Spec => []RowsHaveBodies
<1>1. Inv => RowsHaveBodies
  BY DEF Inv
<1> QED
  BY <1>1, StoreInvariance, PTL

\* No step takes a file from a job that is queued or running (delete_job, apply).
THEOREM ActiveFilesKept == Spec => ActiveFilesStay
<1>1. Inv /\ [Next]_vars =>
        [\A a \in Artifacts :
            file[a] # None /\ file'[a] = None => state[file[a]] \notin ACTIVE_STATES]_vars
  <2> SUFFICES ASSUME Inv, Next, NEW a \in Artifacts, file[a] # None, file'[a] = None
               PROVE  state[file[a]] \notin ACTIVE_STATES
    OBVIOUS
  <2>1. CASE WorkerStep
    BY <2>1 DEF Inv, WorkerStep, Claim, WriteFile, Record, Finish
  <2>2. ASSUME NEW r \in Requests, RequestStep(r) PROVE state[file[a]] \notin ACTIVE_STATES
    <3>1. CASE \E b \in Artifacts : Unlink(r, b)
      BY <3>1 DEF Inv, Unlink
    <3>2. CASE Rmtree(r)
      BY <3>2 DEF Inv, Rmtree, DirectoryOf
    <3> QED
      BY <2>2, <3>1, <3>2 DEF RequestStep, CancelRead, StartDelete, CancelWrite, StartApply,
         ListFiles, UnlinkFails, DeleteRows, DeleteJob
  <2>3. CASE Restart
    BY <2>3 DEF Restart
  <2> QED
    BY <2>1, <2>2, <2>3 DEF Next
<1> QED
  BY <1>1, StoreInvariance, PTL DEF Spec, ActiveFilesStay

-----------------------------------------------------------------------------
(* What cleanups leave (plan, apply) *)

\* Where a collection that has succeeded can still get to.
Over == {"succeeded", "cancelled", "deleted"}

\* The collections newer than j that no cleanup has taken.  A body may still overwrite a
\* late cancellation with its own verdict, so its job is not among them.
Spared(j) == {k \in Jobs \ planned : k > j /\ state[k] \in Over /\ k # wjob}

BodyNotOver == wjob # None => state[wjob] \in {"running", "cancelled", "deleted"}

KInv ==
    /\ Inv
    /\ BodyNotOver
    /\ \A j \in planned : Cardinality(Spared(j)) >= KeepCount

\* Spared's sets are finite, and more jobs are no fewer.
LEMMA SparedFinite ==
    ASSUME NEW S \in SUBSET Jobs, NEW T \in SUBSET S
    PROVE  Cardinality(T) \in Nat /\ Cardinality(S) \in Nat /\ Cardinality(T) =< Cardinality(S)
<1>1. IsFiniteSet(S)
  BY ArtifactStoreAssumption, FS_Subset
<1>2. IsFiniteSet(T) /\ Cardinality(T) =< Cardinality(S)
  BY <1>1, FS_Subset
<1> QED
  BY <1>1, <1>2, FS_CardinalityType

\* Of some jobs one is the newest: the one with the fewest after it.
LEMMA Newest ==
    ASSUME NEW S \in SUBSET Jobs, S # {}
    PROVE  \E j \in S : \A k \in S : k =< j
<1> DEFINE After(j) == {k \in S : k > j}
           sizes == {Cardinality(After(j)) : j \in S}
<1>1. \A j \in S : IsFiniteSet(After(j)) /\ Cardinality(After(j)) \in Nat
  BY ArtifactStoreAssumption, FS_Subset, FS_CardinalityType
<1>2. sizes \subseteq Nat /\ sizes # {}
  BY <1>1
<1>3. PICK n \in sizes : \A m \in sizes : ~ (<<m, n>> \in OpToRel(<, Nat))
  <2> HIDE DEF sizes
  <2> QED
    BY <1>2, WFMin, NatLessThanWellFounded
<1>4. PICK j \in S : n = Cardinality(After(j))
  OBVIOUS
<1>5. \A k \in S : ~ (Cardinality(After(k)) < Cardinality(After(j)))
  BY <1>1, <1>3, <1>4 DEF OpToRel
<1>6. ASSUME NEW k \in S, k > j PROVE FALSE
  <2>1. After(k) \in SUBSET After(j) /\ k \in After(j) /\ k \notin After(k)
    <3>1. \A i \in S : i \in Nat
      BY ArtifactStoreAssumption
    <3> QED
      BY <3>1, <1>6
  <2>2. Cardinality(After(k)) =< Cardinality(After(j))
        /\ Cardinality(After(k)) # Cardinality(After(j))
    <3> HIDE DEF After
    <3> QED
      BY <1>1, <2>1, FS_Subset
  <2>3. Cardinality(After(k)) \in Nat /\ Cardinality(After(j)) \in Nat
        /\ ~ (Cardinality(After(k)) < Cardinality(After(j)))
    BY <1>1, <1>5
  <2> QED
    BY <2>2, <2>3
<1> QED
  BY <1>6, ArtifactStoreAssumption

\* What a step does to a job that is over and in nobody's hands: it stays so.
LEMMA OverStays ==
    ASSUME Inv, BodyNotOver, [Next]_vars
    PROVE  /\ BodyNotOver'
           /\ \A k \in Jobs : state[k] \in Over /\ k # wjob => state'[k] \in Over /\ k # wjob'
<1> USE DEF BodyNotOver, Over
<1>1. CASE WorkerStep
  BY <1>1 DEF Inv, WorkerStep, Claim, WriteFile, Record, Finish, Verdicts
<1>2. ASSUME NEW r \in Requests, RequestStep(r)
      PROVE  /\ BodyNotOver'
             /\ \A k \in Jobs : state[k] \in Over /\ k # wjob => state'[k] \in Over /\ k # wjob'
  <2>1. CASE CancelWrite(r)
    BY <2>1 DEF Inv, CancelWrite
  <2>2. CASE DeleteJob(r)
    BY <2>2 DEF Inv, DeleteJob
  <2>3. CASE UNCHANGED <<state, wjob>>
    BY <2>3
  <2> QED
    BY <1>2, <2>1, <2>2, <2>3 DEF RequestStep, CancelRead, StartDelete, StartApply, ListFiles,
       Unlink, UnlinkFails, Rmtree, DeleteRows
<1>3. CASE Restart
  BY <1>3 DEF Inv, Restart
<1>4. CASE UNCHANGED vars
  BY <1>4
<1> QED
  BY <1>1, <1>2, <1>3, <1>4 DEF Next

\* Only the start of a cleanup names jobs.
LEMMA OnlyCleanupsPlan ==
    ASSUME [Next]_vars
    PROVE  \/ planned' = planned
           \/ \E young \in SUBSET Jobs : /\ planned' = planned \cup Plan(young)
                                         /\ UNCHANGED <<state, wjob>>
<1>1. CASE WorkerStep
  BY <1>1 DEF WorkerStep, Claim, WriteFile, Record, Finish
<1>2. CASE \E r \in Requests : RequestStep(r)
  BY <1>2 DEF RequestStep, CancelRead, CancelWrite, StartDelete, StartApply, ListFiles,
     Unlink, UnlinkFails, Rmtree, DeleteRows, DeleteJob
<1>3. CASE Restart
  BY <1>3 DEF Restart
<1> QED
  BY <1>1, <1>2, <1>3 DEF Next

\* A plan leaves KeepCount newer ones of everything planned so far.  Of what it names the
\* newest has KeepCount stored collections after it.  If an earlier plan has named one of
\* those, the ones spared for that are newer still; otherwise it spares them itself.
LEMMA PlanSpares ==
    ASSUME KInv, NEW young \in SUBSET Jobs, planned' = planned \cup Plan(young),
           UNCHANGED <<state, wjob>>, NEW j \in planned'
    PROVE  Cardinality(Spared(j)') >= KeepCount
<1> DEFINE named == Plan(young)
<1>a. \A i \in Jobs : i \in Nat
  BY ArtifactStoreAssumption
<1>b. KeepCount \in Nat
  BY ArtifactStoreAssumption
<1>c. /\ planned \subseteq Jobs /\ named \subseteq Jobs
      /\ \A i \in Jobs : Spared(i) \in SUBSET Jobs /\ Spared(i)' \in SUBSET Jobs
  BY DEF KInv, Inv, Plan, Spared
<1>d. \A i \in planned : Cardinality(Spared(i)) >= KeepCount
  BY DEF KInv
<1>1. CASE named = {}
  <2>1. j \in planned /\ Spared(j)' = Spared(j)
    BY <1>1 DEF Spared
  <2> QED
    BY <2>1, <1>d
<1>2. CASE named # {}
  <2>1. PICK top \in named : \A i \in named : i =< top
    BY <1>2, <1>c, Newest
  <2>2. \A i \in Jobs : i >= top => Spared(i)' = Spared(i)
    <3> SUFFICES ASSUME NEW i \in Jobs, i >= top, NEW k \in Jobs, k > i PROVE k \notin named
      BY DEF Spared
    <3> QED
      BY <2>1, <1>a, <1>c
  <2>3. \A i, k \in Jobs : i =< k => Spared(k)' \subseteq Spared(i)'
    BY <1>a DEF Spared
  <2>4. ASSUME NEW i \in Jobs, NEW k \in Jobs, i =< k, Cardinality(Spared(k)') >= KeepCount
        PROVE  Cardinality(Spared(i)') >= KeepCount
    <3>1. /\ Cardinality(Spared(k)') \in Nat /\ Cardinality(Spared(i)') \in Nat
          /\ Cardinality(Spared(k)') =< Cardinality(Spared(i)')
      BY <2>3, <2>4, <1>c, SparedFinite
    <3> QED
      BY <2>4, <3>1, <1>b
  <2>5. Cardinality(Spared(top)') >= KeepCount
    <3> DEFINE stored == {k \in Jobs : k > top /\ Stored(k)}
    <3>1. Cardinality(stored) >= KeepCount
      BY <2>1 DEF Plan
    <3>2. CASE \E k \in stored : k \in planned
      <4>1. PICK k \in stored : k \in planned
        BY <3>2
      <4>2. k \in Jobs /\ top \in Jobs /\ top =< k /\ Cardinality(Spared(k)) >= KeepCount
        BY <4>1, <2>1, <1>a, <1>c, <1>d
      <4> QED
        BY <4>2, <2>2, <2>4
    <3>3. CASE \A k \in stored : k \notin planned
      <4>1. stored \subseteq Spared(top)'
        <5> SUFFICES ASSUME NEW k \in stored
                     PROVE  k \notin planned' /\ state'[k] \in Over /\ k # wjob'
          BY DEF Spared
        <5>1. k \notin named
          BY <2>1, <1>a, <1>c
        <5>2. state[k] = "succeeded" /\ k # wjob
          BY NoneIsNothing DEF Stored, KInv, BodyNotOver
        <5> QED
          BY <5>1, <5>2, <3>3 DEF Over
      <4>2. /\ Cardinality(stored) \in Nat /\ Cardinality(Spared(top)') \in Nat
            /\ Cardinality(stored) =< Cardinality(Spared(top)')
        BY <4>1, <2>1, <1>c, SparedFinite
      <4> QED
        BY <3>1, <4>2, <1>b
    <3> QED
      BY <3>2, <3>3
  <2>6. CASE j >= top
    <3>1. j \in planned \/ j = top
      BY <2>1, <2>6, <1>a, <1>c
    <3> QED
      BY <3>1, <2>2, <2>5, <2>6, <1>c, <1>d
  <2>7. CASE ~ (j >= top)
    BY <2>1, <2>4, <2>5, <2>7, <1>a, <1>c
  <2> QED
    BY <2>6, <2>7
<1> QED
  BY <1>1, <1>2

\* For every collection that cleanups take, KeepCount newer ones stay, unless an operator
\* deletes or cancels them (retention.plan, retention.apply, run_cleanup).
THEOREM NewestKept == Spec => []KeepsNewest
<1>1. Init => KInv
  BY InitInv DEF Init, KInv, BodyNotOver
<1>2. KInv /\ [Next]_vars => KInv'
  <2> SUFFICES ASSUME KInv, [Next]_vars PROVE KInv'
    OBVIOUS
  <2>1. Inv /\ BodyNotOver /\ Inv'
    BY NextInv DEF KInv
  <2>2. /\ BodyNotOver'
        /\ \A k \in Jobs : state[k] \in Over /\ k # wjob => state'[k] \in Over /\ k # wjob'
    BY <2>1, OverStays
  <2>3. ASSUME planned' = planned, NEW j \in planned
        PROVE  Cardinality(Spared(j)') >= KeepCount
    <3>1. Spared(j) \subseteq Spared(j)' /\ Spared(j)' \in SUBSET Jobs
      BY <2>2, <2>3 DEF Spared
    <3>2. /\ Cardinality(Spared(j)) \in Nat /\ Cardinality(Spared(j)') \in Nat
          /\ Cardinality(Spared(j)) =< Cardinality(Spared(j)')
      BY <3>1, SparedFinite
    <3>3. Cardinality(Spared(j)) >= KeepCount /\ KeepCount \in Nat
      BY ArtifactStoreAssumption DEF KInv
    <3> QED
      BY <3>2, <3>3
  <2>4. \A j \in planned' : Cardinality(Spared(j)') >= KeepCount
    BY <2>3, OnlyCleanupsPlan, PlanSpares
  <2> QED
    BY <2>1, <2>2, <2>4 DEF KInv
<1>3. KInv => KeepsNewest
  <2> SUFFICES ASSUME KInv, NEW j \in planned
               PROVE  Cardinality({k \in Jobs \ planned :
                          k > j /\ state[k] \in {"succeeded", "cancelled", "deleted"}}) >= KeepCount
    BY DEF KeepsNewest
  <2> DEFINE kept == {k \in Jobs \ planned :
                          k > j /\ state[k] \in {"succeeded", "cancelled", "deleted"}}
  <2>1. Spared(j) \subseteq kept /\ kept \in SUBSET Jobs
    BY DEF Spared, Over
  <2>2. /\ Cardinality(Spared(j)) \in Nat /\ Cardinality(kept) \in Nat
        /\ Cardinality(Spared(j)) =< Cardinality(kept)
    BY <2>1, SparedFinite
  <2>3. Cardinality(Spared(j)) >= KeepCount /\ KeepCount \in Nat
    BY ArtifactStoreAssumption DEF KInv
  <2> QED
    BY <2>2, <2>3
<1> QED
  BY <1>1, <1>2, <1>3, PTL DEF Spec

=============================================================================
