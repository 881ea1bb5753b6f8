--------------------------- MODULE DatabaseProofs ---------------------------
(***************************************************************************)
(* Theorems about Database, for any number of handlers, rules, collections *)
(* and migrations.                                                         *)
(***************************************************************************)
EXTENDS Database, TLAPS

\* The write lock and the transaction that holds it agree, and so do the worker and its writes.
Consistent ==
    /\ holder = "nobody" => work = committed
    /\ holder = "shared" => who # {} /\ work.beats = committed.beats
    /\ holder # "shared" => who = {}
    /\ holder = "worker" <=> worker = "writing"
    /\ worker = "writing" => work = [committed EXCEPT !.beats = @ + 1]
    /\ worker \in {"waiting", "writing"} => beats < MaxBeats
    /\ phase # "serving" => holder = "nobody" /\ worker = "idle"
    /\ beats = committed.beats

\* A script has been run as far as this process has got, or further.
SchemaInStep ==
    /\ applied >= recorded * Statements + at
    /\ at > 0 => applied = recorded * Statements + at
    /\ phase = "serving" => recorded = Scripts

\* A handler that has not begun has read nothing, and only a cleanup has named anything.
Unbegun ==
    \A h \in Handlers :
        /\ pc[h] = "idle" => off[h] = {}
        /\ pc[h] \in {"idle", "deleted", "inserted", "conflict"} =>
               named[h] = {} /\ item[h] = {}

\* The rules fail safe for those who see the open transaction too, because saves that do not
\* overlap insert into an empty table.
SavesApart ==
    /\ work.off \subseteq UNION Asked /\ committed.off \subseteq UNION Asked
    /\ ~overlapped =>
           /\ work.off \in Asked /\ committed.off \in Asked
           /\ \A g, h \in Handlers : Saving(g) /\ Saving(h) => g = h
           /\ \A h \in Handlers : pc[h] = "deleted" => work.off = {}

\* What a handler has said, so far as it has come, that the database holds.
HasLogged(h) == pc[h] \in {"logged", "done"}
HasDeleted(h) ==
    named[h] \ (todo[h] \cup IF pc[h] \in {"rows", "rowsGone", "job"} THEN item[h] ELSE {})

Holds(h, data) ==
    /\ HasLogged(h) => h \in data.log
    /\ \A c \in HasDeleted(h) : data.left[c] = "deleted"

\* Whatever one database holds of that, the other does.
Keeps(data, later) ==
    /\ data.log \subseteq later.log
    /\ \A c \in Collections : data.left[c] = "deleted" => later.left[c] = "deleted"

\* A handler's statements are in the open transaction, or committed once it is none of the
\* transaction's, until another's rollback undoes them.
WritesKept ==
    /\ Keeps(committed, work)
    /\ \A h \in Handlers :
           pc[h] \in {"lastCommit", "log", "logged", "done"} => named[h] \cap todo[h] = {}
    /\ \A h \in Handlers \ undone :
           pc[h] \notin {"raised", "gone"} =>
               /\ Holds(h, work)
               /\ h \notin who \/ pc[h] = "done" => Holds(h, committed)

\* Who has statements in the transaction is running or has failed at a collection's files.
HeldByRunning ==
    /\ \A h \in who : Running(h) \/ (pc[h] = "raised" /\ item[h] # {})
    /\ \A h \in who : pc[h] = "files" => item[h] # {}
    /\ \A h \in Handlers : pc[h] \in {"rows", "rowsGone", "job"} => item[h] # {}

----------------------------------------------------------------------------

\* What most steps need of the constants.
LEMMA Bounds ==
    /\ Scripts \in Nat /\ Statements \in Nat \ {0} /\ MaxBeats \in Nat /\ MaxCrashes \in Nat
BY DatabaseAssumption

\* What a query returns has the type of a database.
LEMMA ViewType == TypeOK => View \in Data
BY DEF TypeOK, View

\* A handler's step leaves the process and the worker alone, and treats the database in one of
\* four ways: it executes a statement that leaves the worker's rows as they are, commits,
\* rolls back, or leaves it.
LEMMA HandlerSteps ==
    ASSUME TypeOK, NEW h \in Handlers, Begin(h) \/ Continue(h)
    PROVE  /\ UNCHANGED <<processVars, schemaVars, workerVars>> /\ phase = "serving"
           /\ \/ \E data \in Data : Execute(h, data) /\ data.beats = View.beats /\ UNCHANGED undone
              \/ Commit(h) /\ UNCHANGED undone
              \/ pc[h] = "conflict" /\ Rollback(h)
              \/ UNCHANGED <<dataVars, undone>>
<1> View \in Data
  BY ViewType
<1> USE DEF Step, history, Begin, Continue
<1>1. CASE SaveDeletes(h)
  BY <1>1 DEF SaveDeletes, Data
<1>2. CASE StartCleanup(h)
  BY <1>2 DEF StartCleanup
<1>3. CASE LogActivity(h)
  BY <1>3 DEF LogActivity, Data
<1>4. CASE SaveInserts(h)
  <2>1. RowsToInsert(h) \in SUBSET Rules
    BY DEF RowsToInsert, TypeOK
  <2> QED
    BY <1>4, <2>1 DEF SaveInserts, Data
<1>5. CASE SaveConflicts(h)
  <2>1. RowsToInsert(h) \in SUBSET Rules
    BY DEF RowsToInsert, TypeOK
  <2> QED
    BY <1>5, <2>1 DEF SaveConflicts, Data
<1>6. CASE SaveCommits(h)
  BY <1>6 DEF SaveCommits
<1>7. CASE SaveRollsBack(h)
  BY <1>7 DEF SaveRollsBack
<1>8. CASE RemoveFiles(h)
  BY <1>8 DEF RemoveFiles
<1>9. CASE RemoveFilesFails(h)
  BY <1>9 DEF RemoveFilesFails
<1>10. CASE DeleteArtifactRows(h)
  BY <1>10 DEF DeleteArtifactRows, Data
<1>11. CASE CommitArtifactRows(h)
  BY <1>11 DEF CommitArtifactRows
<1>12. CASE DeleteJobRow(h)
  BY <1>12 DEF DeleteJobRow, Data
<1>13. CASE CommitCleanup(h)
  BY <1>13 DEF CommitCleanup
<1>14. CASE CommitLog(h)
  BY <1>14 DEF CommitLog
<1> QED
  BY <1>1, <1>2, <1>3, <1>4, <1>5, <1>6, <1>7, <1>8, <1>9, <1>10, <1>11, <1>12, <1>13, <1>14

\* The database keeps its type in every such treatment.
LEMMA DataTyped ==
    ASSUME TypeOK, NEW h \in Handlers, Begin(h) \/ Continue(h)
    PROVE  /\ committed' \in Data /\ work' \in Data
           /\ holder' \in {"nobody", "shared", "worker"} /\ who' \subseteq Handlers
           /\ undone' \subseteq Handlers
<1>1. CASE \E data \in Data : Execute(h, data) /\ UNCHANGED undone
  BY <1>1 DEF Execute, TypeOK
<1>2. CASE Commit(h) /\ UNCHANGED undone
  BY <1>2 DEF Commit, TypeOK, dataVars
<1>3. CASE Rollback(h)
  BY <1>3 DEF Rollback, TypeOK, dataVars
<1>4. CASE UNCHANGED <<dataVars, undone>>
  BY <1>4 DEF TypeOK, dataVars
<1> QED
  BY <1>1, <1>2, <1>3, <1>4, HandlerSteps

\* Every step keeps the types.
LEMMA TypePreserved == TypeOK /\ Consistent /\ SchemaInStep /\ [Next]_vars => TypeOK'
<1> SUFFICES ASSUME TypeOK, Consistent, SchemaInStep, [Next]_vars PROVE TypeOK'
  OBVIOUS
<1> USE Bounds
<1>1. ASSUME NEW h \in Handlers, Begin(h) \/ Continue(h)
      PROVE  TypeOK'
  <2>1. /\ UNCHANGED <<processVars, schemaVars, workerVars>>
        /\ committed' \in Data /\ work' \in Data
        /\ holder' \in {"nobody", "shared", "worker"} /\ who' \subseteq Handlers
        /\ undone' \subseteq Handlers
    BY <1>1, HandlerSteps, DataTyped
  <2>2. /\ pc' \in [Handlers -> {"idle", "deleted", "inserted", "conflict", "files", "rows",
                            "rowsGone", "job", "lastCommit", "log", "logged"} \cup Ended]
        /\ off' \in [Handlers -> SUBSET Rules]
        /\ named' \in [Handlers -> SUBSET Collections]
        /\ todo' \in [Handlers -> SUBSET Collections]
        /\ item' \in [Handlers -> SUBSET Collections]
        /\ overlapped' \in BOOLEAN
    <3> USE DEF TypeOK, Begin, Continue, Step, Ended, planVars, history
    <3>1. CASE SaveDeletes(h) \/ SaveInserts(h) \/ SaveConflicts(h) \/ SaveCommits(h) \/ SaveRollsBack(h)
      BY <3>1 DEF SaveDeletes, SaveInserts, SaveConflicts, SaveCommits, SaveRollsBack
    <3>2. CASE StartCleanup(h) \/ RemoveFiles(h) \/ RemoveFilesFails(h)
      BY <3>2 DEF StartCleanup, RemoveFiles, RemoveFilesFails
    <3>3. CASE DeleteArtifactRows(h) \/ CommitArtifactRows(h) \/ DeleteJobRow(h) \/ CommitCleanup(h)
      BY <3>3 DEF DeleteArtifactRows, CommitArtifactRows, DeleteJobRow, CommitCleanup
    <3>4. CASE LogActivity(h) \/ CommitLog(h)
      BY <3>4 DEF LogActivity, CommitLog
    <3> QED
      BY <1>1, <3>1, <3>2, <3>3, <3>4
  <2> QED
    BY <2>1, <2>2 DEF TypeOK, processVars, schemaVars, workerVars
<1>2. CASE Worker
  <2> USE <1>2 DEF Worker, TypeOK, Consistent, processVars, schemaVars, handlerVars, planVars,
                   history, dataVars
  <2>1. CASE WorkerWants \/ WorkerTimesOut
    BY <2>1 DEF WorkerWants, WorkerTimesOut
  <2>2. CASE WorkerExecutes
    <3>1. work' \in Data
      BY <2>2 DEF WorkerExecutes, Data
    <3> QED
      BY <2>2, <3>1 DEF WorkerExecutes
  <2>3. CASE WorkerCommits
    <3>1. beats' \in 0 .. MaxBeats
      BY <2>3 DEF WorkerCommits
    <3> QED
      BY <2>3, <3>1 DEF WorkerCommits
  <2> QED
    BY <2>1, <2>2, <2>3
<1>3. CASE Boot
  <2> USE <1>3 DEF Boot, TypeOK, SchemaInStep, processVars, schemaVars, handlerVars, planVars,
                   workerVars, history, dataVars
  <2>1. CASE Start \/ MigrateFails \/ Serve
    BY <2>1 DEF Start, MigrateFails, Serve
  <2>2. CASE Migrate
    <3>1. (recorded + 1) * Statements <= Scripts * Statements
      BY <2>2 DEF Migrate
    <3>2. applied' \in 0 .. Scripts * Statements /\ at' \in 0 .. Statements
      BY <2>2, <3>1 DEF Migrate
    <3> QED
      BY <2>2, <3>2 DEF Migrate
  <2>3. CASE RecordVersion
    BY <2>3 DEF RecordVersion
  <2> QED
    BY <2>1, <2>2, <2>3
<1>4. CASE Crash
  BY <1>4 DEF Crash, TypeOK, Ended, handlerVars, planVars, workerVars, history
<1>5. CASE UNCHANGED vars
  BY <1>5 DEF TypeOK, vars, processVars, schemaVars, handlerVars, planVars, workerVars, history, dataVars
<1> QED
  BY <1>1, <1>2, <1>3, <1>4, <1>5 DEF Next

\* Every step keeps the lock, the transaction and the worker in agreement.
LEMMA ConsistentPreserved == TypeOK /\ Consistent /\ [Next]_vars => Consistent'
<1> SUFFICES ASSUME TypeOK, Consistent, [Next]_vars PROVE Consistent'
  OBVIOUS
<1> USE Bounds DEF Consistent
<1>1. ASSUME NEW h \in Handlers, Begin(h) \/ Continue(h)
      PROVE  Consistent'
  <2>1. UNCHANGED <<phase, worker, beats>> /\ phase = "serving"
    BY <1>1, HandlerSteps DEF processVars, workerVars
  <2>2. CASE \E data \in Data : Execute(h, data) /\ data.beats = View.beats
    <3>1. holder # "worker" /\ View.beats = committed.beats
      BY <2>2 DEF Execute, View, TypeOK
    <3>2. /\ holder' = "shared" /\ who' # {} /\ committed' = committed
          /\ work'.beats = committed.beats
      BY <2>2, <3>1 DEF Execute
    <3> QED
      BY <2>1, <3>1, <3>2
  <2>3. CASE Commit(h)
    BY <2>1, <2>3 DEF Commit, dataVars
  <2>4. CASE Rollback(h)
    BY <2>1, <2>4 DEF Rollback, dataVars
  <2>5. CASE UNCHANGED dataVars
    BY <2>1, <2>5 DEF dataVars
  <2> QED
    BY <1>1, <2>2, <2>3, <2>4, <2>5, HandlerSteps
<1>2. CASE Worker
  <2> USE <1>2 DEF Worker, processVars, dataVars
  <2>1. CASE WorkerWants \/ WorkerTimesOut
    BY <2>1 DEF WorkerWants, WorkerTimesOut
  <2>2. CASE WorkerExecutes
    BY <2>2 DEF WorkerExecutes
  <2>3. CASE WorkerCommits
    <3>1. work.beats = committed.beats + 1
      BY <2>3 DEF WorkerCommits, TypeOK, Data
    <3> QED
      BY <2>3, <3>1 DEF WorkerCommits
  <2> QED
    BY <2>1, <2>2, <2>3
<1>3. CASE Boot
  BY <1>3 DEF Boot, Start, Migrate, MigrateFails, RecordVersion, Serve, processVars, dataVars, workerVars
<1>4. CASE Crash
  BY <1>4 DEF Crash
<1>5. CASE UNCHANGED vars
  BY <1>5 DEF vars, processVars, dataVars, workerVars
<1> QED
  BY <1>1, <1>2, <1>3, <1>4, <1>5 DEF Next

\* Only boot and a crash touch the schema, and a statement is run once.
LEMMA SchemaPreserved == TypeOK /\ SchemaInStep /\ [Next]_vars => SchemaInStep'
<1> SUFFICES ASSUME TypeOK, SchemaInStep, [Next]_vars PROVE SchemaInStep'
  OBVIOUS
<1> USE Bounds DEF SchemaInStep
<1>1. ASSUME NEW h \in Handlers, Begin(h) \/ Continue(h)
      PROVE  SchemaInStep'
  BY <1>1, HandlerSteps DEF processVars, schemaVars
<1>2. CASE Worker
  BY <1>2 DEF Worker, WorkerWants, WorkerExecutes, WorkerCommits, WorkerTimesOut, processVars, schemaVars
<1>3. CASE Boot
  <2> USE DEF processVars, schemaVars, TypeOK
  <2>1. CASE Start \/ Migrate \/ MigrateFails \/ Serve
    <3>1. recorded * Statements \in Nat
      BY DEF TypeOK
    <3>2. CASE Start
      BY <3>1, <3>2 DEF Start
    <3>3. CASE Migrate
      <4>1. /\ applied' = recorded * Statements + at' /\ at' = at + 1
            /\ recorded' = recorded /\ phase' = "migrating"
        BY <3>1, <3>3 DEF Migrate
      <4>2. at' \in Nat
        BY <4>1
      <4>3. applied' = recorded' * Statements + at'
        BY <4>1
      <4>4. recorded' * Statements \in Nat
        BY <3>1, <4>1
      <4>5. applied' >= recorded' * Statements + at'
        BY <4>2, <4>3, <4>4
      <4> QED
        BY <4>1, <4>3, <4>5
    <3>4. CASE MigrateFails
      BY <3>1, <3>4 DEF MigrateFails
    <3>5. CASE Serve
      BY <3>1, <3>5 DEF Serve
    <3> QED
      BY <2>1, <3>2, <3>3, <3>4, <3>5
  <2>2. CASE RecordVersion
    <3>1. (recorded + 1) * Statements = recorded * Statements + Statements
      BY DEF TypeOK
    <3> QED
      BY <2>2, <3>1 DEF RecordVersion, ScriptIsRun
  <2> QED
    BY <1>3, <2>1, <2>2 DEF Boot
<1>4. CASE Crash
  <2>1. recorded * Statements \in Nat
    BY DEF TypeOK
  <2> QED
    BY <1>4, <2>1 DEF Crash, TypeOK
<1>5. CASE UNCHANGED vars
  BY <1>5 DEF vars, processVars, schemaVars
<1> QED
  BY <1>1, <1>2, <1>3, <1>4, <1>5 DEF Next

\* A query sees the rows of the open transaction: the worker's touches none of a handler's.
LEMMA ViewIsWork ==
    ASSUME TypeOK, Consistent
    PROVE  View.off = work.off /\ View.log = work.log /\ View.left = work.left
BY DEF TypeOK, Consistent, View, Data

\* Only a save's own steps change its state as a save; every other step of a handler leaves
\* the rules in its view as they are.
LEMMA OtherStepsKeepRules ==
    ASSUME TypeOK, Consistent, NEW h \in Handlers,
           \/ StartCleanup(h) \/ RemoveFiles(h) \/ RemoveFilesFails(h)
           \/ DeleteArtifactRows(h) \/ CommitArtifactRows(h) \/ DeleteJobRow(h)
           \/ CommitCleanup(h) \/ LogActivity(h) \/ CommitLog(h) \/ SaveCommits(h)
    PROVE  /\ work'.off = work.off /\ committed'.off \in {work.off, committed.off}
           /\ off' = off /\ overlapped' = overlapped
           /\ \A g \in Handlers : pc'[g] # pc[g] =>
                  pc'[g] \notin {"idle", "deleted", "inserted", "conflict"}
<1> View \in Data /\ View.off = work.off
  BY ViewType, ViewIsWork
<1> USE DEF Step, dataVars, history, Ended
<1>1. CASE StartCleanup(h) \/ RemoveFiles(h) \/ RemoveFilesFails(h)
  BY <1>1 DEF StartCleanup, RemoveFiles, RemoveFilesFails, TypeOK
<1>2. CASE CommitArtifactRows(h) \/ CommitCleanup(h) \/ CommitLog(h) \/ SaveCommits(h)
  BY <1>2 DEF CommitArtifactRows, CommitCleanup, CommitLog, SaveCommits, Commit, TypeOK
<1>3. CASE DeleteArtifactRows(h)
  BY <1>3 DEF DeleteArtifactRows, Execute, Data, TypeOK
<1>4. CASE DeleteJobRow(h)
  BY <1>4 DEF DeleteJobRow, Execute, Data, TypeOK
<1>5. CASE LogActivity(h)
  BY <1>5 DEF LogActivity, Execute, Data, TypeOK
<1> QED
  BY <1>1, <1>2, <1>3, <1>4, <1>5

\* Handlers begin with nothing, and saves name no collections.
LEMMA UnbegunPreserved == TypeOK /\ Unbegun /\ [Next]_vars => Unbegun'
<1> SUFFICES ASSUME TypeOK, Unbegun, [Next]_vars PROVE Unbegun'
  OBVIOUS
<1> USE DEF Unbegun
<1>1. ASSUME NEW h \in Handlers, Begin(h) \/ Continue(h)
      PROVE  Unbegun'
  <2> USE DEF Begin, Continue, Step, planVars, TypeOK
  <2>1. CASE SaveDeletes(h) \/ SaveInserts(h) \/ SaveConflicts(h) \/ SaveCommits(h) \/ SaveRollsBack(h)
    BY <2>1 DEF SaveDeletes, SaveInserts, SaveConflicts, SaveCommits, SaveRollsBack
  <2>2. CASE StartCleanup(h) \/ RemoveFiles(h) \/ RemoveFilesFails(h)
    BY <2>2 DEF StartCleanup, RemoveFiles, RemoveFilesFails
  <2>3. CASE DeleteArtifactRows(h) \/ CommitArtifactRows(h) \/ DeleteJobRow(h) \/ CommitCleanup(h)
    BY <2>3 DEF DeleteArtifactRows, CommitArtifactRows, DeleteJobRow, CommitCleanup
  <2>4. CASE LogActivity(h) \/ CommitLog(h)
    BY <2>4 DEF LogActivity, CommitLog
  <2> QED
    BY <1>1, <2>1, <2>2, <2>3, <2>4
<1>2. CASE Worker
  BY <1>2 DEF Worker, WorkerWants, WorkerExecutes, WorkerCommits, WorkerTimesOut, handlerVars, planVars
<1>3. CASE Boot
  BY <1>3 DEF Boot, Start, Migrate, MigrateFails, RecordVersion, Serve, handlerVars, planVars
<1>4. CASE Crash
  BY <1>4 DEF Crash, Running, Ended, planVars, TypeOK
<1>5. CASE UNCHANGED vars
  BY <1>5 DEF vars, handlerVars, planVars
<1> QED
  BY <1>1, <1>2, <1>3, <1>4, <1>5 DEF Next

\* No step leaves rules off that nobody asked for.
LEMMA SavesPreserved ==
    TypeOK /\ Consistent /\ Unbegun /\ SavesApart /\ [Next]_vars => SavesApart'
<1> SUFFICES ASSUME TypeOK, Consistent, Unbegun, SavesApart, [Next]_vars PROVE SavesApart'
  OBVIOUS
<1>1. ASSUME NEW h \in Handlers, Begin(h) \/ Continue(h)
      PROVE  SavesApart'
  <2>1. View \in Data /\ View.off = work.off
    BY ViewType, ViewIsWork
  <2>2. CASE SaveDeletes(h)
    <3>1. Asked \subseteq Asked' /\ {} \in Asked'
      BY <2>2 DEF SaveDeletes, Step, Unbegun, Asked, TypeOK
    <3>2. work'.off = {} /\ committed' = committed
      BY <2>1, <2>2 DEF SaveDeletes, Execute, Data
    <3>3. ~overlapped' => ~overlapped /\ \A g \in Handlers : ~Saving(g)
      BY <2>2 DEF SaveDeletes
    <3>4. \A g \in Handlers : Saving(g)' => Saving(g) \/ g = h
      BY <2>2 DEF SaveDeletes, Step, Saving, TypeOK
    <3> QED
      BY <3>1, <3>2, <3>3, <3>4 DEF SavesApart
  <2>3. CASE SaveInserts(h)
    <3>1. Asked' = Asked /\ off[h] \in Asked /\ committed' = committed /\ overlapped' = overlapped
      BY <2>3 DEF SaveInserts, Asked, Execute, dataVars, history
    <3>2. work'.off = work.off \cup off[h]
      BY <2>1, <2>3 DEF SaveInserts, RowsToInsert, Execute, Data, dataVars
    <3>3. /\ pc[h] = "deleted" /\ pc'[h] = "inserted"
          /\ \A g \in Handlers : g # h => pc'[g] = pc[g]
      BY <2>3 DEF SaveInserts, Step, TypeOK
    <3>4. ~overlapped => \A g \in Handlers : g # h => pc[g] # "deleted"
      BY <3>3 DEF SavesApart, Saving
    <3> QED
      BY <3>1, <3>2, <3>3, <3>4 DEF SavesApart, Saving
  <2>4. CASE SaveConflicts(h)
    <3>1. Asked' = Asked /\ off[h] \in Asked /\ committed' = committed /\ overlapped' = overlapped
      BY <2>4 DEF SaveConflicts, Asked, Execute, history
    <3>2. PICK before \in SUBSET (RowsToInsert(h) \ View.off) :
              Execute(h, [View EXCEPT !.off = @ \cup before])
      BY <2>4 DEF SaveConflicts
    <3>3. work'.off = work.off \cup before /\ before \subseteq off[h]
      BY <2>1, <3>2 DEF RowsToInsert, Execute, Data
    <3>4. overlapped
      BY <2>1, <2>4 DEF SaveConflicts, Step, SavesApart
    <3> QED
      BY <3>1, <3>3, <3>4 DEF SavesApart
  <2>5. CASE SaveRollsBack(h)
    <3>1. Asked' = Asked /\ committed' = committed /\ overlapped' = overlapped
      BY <2>5 DEF SaveRollsBack, Asked, Rollback, dataVars
    <3>2. work' = committed \/ work' = work
      BY <2>5 DEF SaveRollsBack, Rollback, dataVars
    <3>3. /\ pc[h] = "conflict" /\ pc'[h] = "raised"
          /\ \A g \in Handlers : g # h => pc'[g] = pc[g]
      BY <2>5 DEF SaveRollsBack, Step, TypeOK
    <3>4. ~overlapped => \A g \in Handlers : pc'[g] # "deleted"
      BY <3>3 DEF SavesApart, Saving
    <3> QED
      BY <3>1, <3>2, <3>3, <3>4 DEF SavesApart, Saving
  <2>6. CASE \/ StartCleanup(h) \/ RemoveFiles(h) \/ RemoveFilesFails(h)
             \/ DeleteArtifactRows(h) \/ CommitArtifactRows(h) \/ DeleteJobRow(h)
             \/ CommitCleanup(h) \/ LogActivity(h) \/ CommitLog(h) \/ SaveCommits(h)
    BY <2>6, OtherStepsKeepRules DEF SavesApart, Saving, Asked
  <2> QED
    BY <1>1, <2>2, <2>3, <2>4, <2>5, <2>6 DEF Begin, Continue
<1>2. CASE Worker
  <2>1. off' = off /\ pc' = pc /\ overlapped' = overlapped
    BY <1>2 DEF Worker, WorkerWants, WorkerExecutes, WorkerCommits, WorkerTimesOut, handlerVars, history
  <2>2. work'.off = work.off /\ committed'.off \in {work.off, committed.off}
    BY <1>2 DEF Worker, WorkerWants, WorkerExecutes, WorkerCommits, WorkerTimesOut, dataVars,
                Consistent, TypeOK, Data
  <2> QED
    BY <2>1, <2>2 DEF SavesApart, Asked, Saving
<1>3. CASE Boot
  BY <1>3 DEF Boot, Start, Migrate, MigrateFails, RecordVersion, Serve, dataVars, handlerVars,
              history, SavesApart, Asked, Saving
<1>4. CASE Crash
  <2>1. /\ work' = committed /\ committed' = committed /\ off' = off /\ overlapped' = overlapped
        /\ \A h \in Handlers : ~Saving(h)'
    BY <1>4 DEF Crash, history, Running, Ended, Saving, TypeOK
  <2> QED
    BY <2>1 DEF SavesApart, Asked, Saving
<1>5. CASE UNCHANGED vars
  BY <1>5 DEF vars, dataVars, handlerVars, history, SavesApart, Asked, Saving
<1> QED
  BY <1>1, <1>2, <1>3, <1>4, <1>5 DEF Next

\* The step of one handler changes nothing of what another has said.
LEMMA OthersSayTheSame ==
    ASSUME TypeOK, NEW h \in Handlers, Begin(h) \/ Continue(h), NEW g \in Handlers, g # h
    PROVE  /\ pc'[g] = pc[g] /\ named'[g] = named[g] /\ todo'[g] = todo[g] /\ item'[g] = item[g]
           /\ HasLogged(g)' = HasLogged(g) /\ HasDeleted(g)' = HasDeleted(g)
<1> USE DEF Step, TypeOK, Begin, Continue, planVars
<1>1. pc'[g] = pc[g] /\ named'[g] = named[g] /\ todo'[g] = todo[g] /\ item'[g] = item[g]
  <2>1. CASE SaveDeletes(h) \/ SaveInserts(h) \/ SaveConflicts(h) \/ SaveCommits(h) \/ SaveRollsBack(h)
    BY <2>1 DEF SaveDeletes, SaveInserts, SaveConflicts, SaveCommits, SaveRollsBack
  <2>2. CASE StartCleanup(h) \/ RemoveFiles(h) \/ RemoveFilesFails(h)
    BY <2>2 DEF StartCleanup, RemoveFiles, RemoveFilesFails
  <2>3. CASE DeleteArtifactRows(h) \/ CommitArtifactRows(h) \/ DeleteJobRow(h) \/ CommitCleanup(h)
    BY <2>3 DEF DeleteArtifactRows, CommitArtifactRows, DeleteJobRow, CommitCleanup
  <2>4. CASE LogActivity(h) \/ CommitLog(h)
    BY <2>4 DEF LogActivity, CommitLog
  <2> QED
    BY <2>1, <2>2, <2>3, <2>4
<1> QED
  BY <1>1 DEF HasLogged, HasDeleted

\* A handler says something new only by its INSERT into the log and its DELETE of a job row.
LEMMA OwnWords ==
    ASSUME TypeOK, Unbegun, WritesKept, NEW h \in Handlers, Begin(h) \/ Continue(h)
    PROVE  /\ HasLogged(h)' => HasLogged(h) \/ LogActivity(h)
           /\ pc'[h] # "raised" =>
                  HasDeleted(h)' \subseteq HasDeleted(h) \cup (IF DeleteJobRow(h) THEN item[h] ELSE {})
           /\ pc'[h] \in {"lastCommit", "log", "logged", "done"} => named'[h] \cap todo'[h] = {}
<1> USE DEF Step, TypeOK, planVars, HasLogged, HasDeleted
<1>1. CASE SaveDeletes(h)
  BY <1>1 DEF SaveDeletes, Unbegun
<1>2. CASE SaveInserts(h)
  BY <1>2 DEF SaveInserts, Unbegun
<1>3. CASE SaveConflicts(h)
  BY <1>3 DEF SaveConflicts, Unbegun
<1>4. CASE SaveCommits(h)
  BY <1>4 DEF SaveCommits, Unbegun
<1>5. CASE SaveRollsBack(h)
  BY <1>5 DEF SaveRollsBack
<1>6. CASE StartCleanup(h)
  BY <1>6 DEF StartCleanup
<1>7. CASE RemoveFiles(h)
  BY <1>7 DEF RemoveFiles
<1>8. CASE RemoveFilesFails(h)
  BY <1>8 DEF RemoveFilesFails
<1>9. CASE DeleteArtifactRows(h)
  BY <1>9 DEF DeleteArtifactRows
<1>10. CASE CommitArtifactRows(h)
  BY <1>10 DEF CommitArtifactRows
<1>11. CASE DeleteJobRow(h)
  BY <1>11 DEF DeleteJobRow
<1>12. CASE CommitCleanup(h)
  BY <1>12 DEF CommitCleanup, WritesKept
<1>13. CASE LogActivity(h)
  BY <1>13 DEF LogActivity, WritesKept, Unbegun
<1>14. CASE CommitLog(h)
  BY <1>14 DEF CommitLog, WritesKept
<1> QED
  BY <1>1, <1>2, <1>3, <1>4, <1>5, <1>6, <1>7, <1>8, <1>9, <1>10, <1>11, <1>12, <1>13, <1>14
     DEF Begin, Continue

\* No statement takes back what the transaction holds of a handler's word.
LEMMA DataMoves ==
    ASSUME TypeOK, Consistent, NEW h \in Handlers, Begin(h) \/ Continue(h), Keeps(committed, work)
    PROVE  \/ /\ committed' = committed /\ Keeps(work, work')
              /\ who' = who \cup {h} /\ undone' = undone
              /\ LogActivity(h) => h \in work'.log
              /\ DeleteJobRow(h) => \A c \in item[h] : work'.left[c] = "deleted"
           \/ /\ Keeps(work, committed') /\ Keeps(committed, committed') /\ work' = work /\ who' = {}
              /\ undone' = undone /\ ~LogActivity(h) /\ ~DeleteJobRow(h)
              /\ Keeps(committed', work')
           \/ /\ pc[h] = "conflict" /\ pc'[h] = "raised" /\ committed' = committed
              /\ work' \in {work, committed} /\ undone' = undone \cup (who \ {h})
              /\ who' = {}
           \/ /\ UNCHANGED <<dataVars, undone>> /\ ~LogActivity(h) /\ ~DeleteJobRow(h)
              /\ ~CommitLog(h)
<1> /\ View \in Data /\ View.log = work.log /\ View.left = work.left
    /\ item[h] \subseteq Collections
  BY ViewType, ViewIsWork DEF TypeOK
<1> USE DEF Step, history, dataVars
<1>1. CASE SaveDeletes(h)
  BY <1>1 DEF SaveDeletes, Execute, Data, Keeps, LogActivity, DeleteJobRow, TypeOK
<1>2. CASE StartCleanup(h) \/ RemoveFiles(h) \/ RemoveFilesFails(h)
  BY <1>2 DEF StartCleanup, RemoveFiles, RemoveFilesFails, LogActivity, DeleteJobRow, CommitLog, TypeOK
<1>3. CASE SaveInserts(h)
  BY <1>3 DEF SaveInserts, Execute, Data, Keeps, LogActivity, DeleteJobRow, CommitLog, TypeOK
<1>4. CASE SaveConflicts(h)
  BY <1>4 DEF SaveConflicts, Execute, Data, Keeps, LogActivity, DeleteJobRow, TypeOK
<1>5. CASE DeleteArtifactRows(h)
  BY <1>5 DEF DeleteArtifactRows, Execute, Data, Keeps, LogActivity, DeleteJobRow, TypeOK
<1>6. CASE DeleteJobRow(h)
  BY <1>6 DEF DeleteJobRow, Execute, Data, Keeps, LogActivity, TypeOK
<1>7. CASE LogActivity(h)
  BY <1>7 DEF LogActivity, Execute, Data, Keeps, DeleteJobRow, TypeOK
<1>8. CASE CommitArtifactRows(h) \/ CommitCleanup(h) \/ CommitLog(h) \/ SaveCommits(h)
  <2>1. Commit(h) /\ UNCHANGED undone /\ ~LogActivity(h) /\ ~DeleteJobRow(h)
    BY <1>8 DEF CommitArtifactRows, CommitCleanup, CommitLog, SaveCommits, LogActivity, DeleteJobRow, TypeOK
  <2>2. /\ Keeps(work, committed') /\ Keeps(committed, committed') /\ work' = work /\ who' = {}
        /\ Keeps(committed', work')
    BY <2>1 DEF Commit, Consistent, Keeps, TypeOK, Data
  <2> QED
    BY <2>1, <2>2
<1>9. CASE SaveRollsBack(h)
  BY <1>9 DEF SaveRollsBack, Rollback, Consistent, TypeOK
<1> QED
  BY <1>1, <1>2, <1>3, <1>4, <1>5, <1>6, <1>7, <1>8, <1>9 DEF Begin, Continue

\* The writes of every handler that nobody's rollback has undone are kept by every step.
LEMMA WritesPreserved ==
    TypeOK /\ Consistent /\ Unbegun /\ WritesKept /\ [Next]_vars => WritesKept'
<1> SUFFICES ASSUME TypeOK, Consistent, Unbegun, WritesKept, [Next]_vars PROVE WritesKept'
  OBVIOUS
<1>0. \A g \in Handlers : HasDeleted(g) \subseteq Collections
  BY DEF HasDeleted, TypeOK
<1>1. ASSUME NEW h \in Handlers, Begin(h) \/ Continue(h)
      PROVE  WritesKept'
  <2>1. Keeps(committed, work)
    BY DEF WritesKept
  <2>2. Keeps(committed', work')
    BY <1>1, <2>1, DataMoves DEF Keeps, dataVars
  <2>3. ASSUME NEW g \in Handlers
        PROVE  pc'[g] \in {"lastCommit", "log", "logged", "done"} => named'[g] \cap todo'[g] = {}
    <3>1. CASE g = h
      BY <1>1, <3>1, OwnWords
    <3>2. CASE g # h
      BY <1>1, <3>2, OthersSayTheSame DEF WritesKept
    <3> QED
      BY <3>1, <3>2
  <2>4. ASSUME NEW g \in Handlers, g \notin undone', pc'[g] \notin {"raised", "gone"}
        PROVE  /\ Holds(g, work)'
               /\ g \notin who' \/ pc'[g] = "done" => Holds(g, committed)'
    <3>1. CASE g = h
      <4>1. /\ HasLogged(h)' => HasLogged(h) \/ LogActivity(h)
            /\ HasDeleted(h)' \subseteq HasDeleted(h) \cup (IF DeleteJobRow(h) THEN item[h] ELSE {})
        BY <1>1, <2>4, <3>1, OwnWords
      <4>2. h \notin undone /\ pc[h] \notin {"raised", "gone"}
        <5>1. h \notin undone
          BY <1>1, <2>1, <2>4, <3>1, DataMoves
        <5>2. pc[h] \notin {"raised", "gone"}
          BY <1>1 DEF Begin, Continue, Step, SaveDeletes, StartCleanup, LogActivity, SaveInserts,
             SaveConflicts, SaveCommits, SaveRollsBack, RemoveFiles, RemoveFilesFails,
             DeleteArtifactRows, CommitArtifactRows, DeleteJobRow, CommitCleanup, CommitLog
        <5> QED
          BY <5>1, <5>2
      <4>3. Holds(h, work) /\ (h \notin who \/ pc[h] = "done" => Holds(h, committed))
        BY <4>2 DEF WritesKept
      <4>4. pc'[h] = "done" => CommitLog(h)
        BY <1>1, <4>2 DEF Begin, Continue, Step, SaveDeletes, StartCleanup, LogActivity,
           SaveInserts, SaveConflicts, SaveCommits, SaveRollsBack, RemoveFiles,
           RemoveFilesFails, DeleteArtifactRows, CommitArtifactRows, DeleteJobRow,
           CommitCleanup, CommitLog, TypeOK
      <4>5. CASE /\ committed' = committed /\ Keeps(work, work')
                 /\ who' = who \cup {h} /\ undone' = undone
                 /\ LogActivity(h) => h \in work'.log
                 /\ DeleteJobRow(h) => \A c \in item[h] : work'.left[c] = "deleted"
        <5>1. Holds(h, work)'
          BY <1>0, <4>1, <4>3, <4>5 DEF Holds, Keeps
        <5>2. pc'[h] # "done"
          BY <4>4, <4>5 DEF CommitLog, Commit, dataVars, Consistent
        <5> QED
          BY <3>1, <4>5, <5>1, <5>2
      <4>6. CASE /\ Keeps(work, committed') /\ Keeps(committed, committed') /\ work' = work
                 /\ ~LogActivity(h) /\ ~DeleteJobRow(h)
        BY <1>0, <3>1, <4>1, <4>3, <4>6 DEF Holds, Keeps
      <4>7. CASE UNCHANGED <<dataVars, undone>> /\ ~LogActivity(h) /\ ~DeleteJobRow(h) /\ ~CommitLog(h)
        BY <3>1, <4>1, <4>3, <4>4, <4>7 DEF Holds, dataVars
      <4> QED
        BY <1>1, <2>1, <2>4, <3>1, <4>5, <4>6, <4>7, DataMoves
    <3>2. CASE g # h
      <4>1. pc'[g] = pc[g] /\ HasLogged(g)' = HasLogged(g) /\ HasDeleted(g)' = HasDeleted(g)
        BY <1>1, <3>2, OthersSayTheSame
      <4>2. g \notin undone /\ pc[g] \notin {"raised", "gone"}
        BY <1>1, <2>1, <2>4, <4>1, DataMoves DEF dataVars
      <4>3. Holds(g, work) /\ (g \notin who \/ pc[g] = "done" => Holds(g, committed))
        BY <4>2 DEF WritesKept
      <4>4. CASE committed' = committed /\ Keeps(work, work') /\ who' = who \cup {h}
        BY <1>0, <4>1, <4>3, <4>4 DEF Holds, Keeps
      <4>5. CASE Keeps(work, committed') /\ Keeps(committed, committed') /\ work' = work
        BY <1>0, <4>1, <4>3, <4>5 DEF Holds, Keeps
      <4>6. CASE /\ committed' = committed /\ work' \in {work, committed}
                 /\ undone' = undone \cup (who \ {h})
        <5>1. g \notin who
          BY <2>4, <3>2, <4>6
        <5> QED
          BY <4>1, <4>3, <4>6, <5>1 DEF Holds
      <4>7. CASE UNCHANGED <<dataVars, undone>>
        BY <4>1, <4>3, <4>7 DEF Holds, dataVars
      <4> QED
        BY <1>1, <2>1, <4>4, <4>5, <4>6, <4>7, DataMoves
    <3> QED
      BY <3>1, <3>2
  <2> QED
    BY <2>2, <2>3, <2>4 DEF WritesKept
<1>2. CASE Worker
  <2>1. UNCHANGED <<handlerVars, history, who>>
    BY <1>2 DEF Worker, WorkerWants, WorkerExecutes, WorkerCommits, WorkerTimesOut, dataVars
  <2>2. /\ work'.log = work.log /\ work'.left = work.left
        /\ \/ committed'.log = committed.log /\ committed'.left = committed.left
           \/ committed'.log = work.log /\ committed'.left = work.left
    BY <1>2 DEF Worker, WorkerWants, WorkerExecutes, WorkerCommits, WorkerTimesOut, dataVars,
                Consistent, TypeOK, Data
  <2> QED
    BY <2>1, <2>2 DEF WritesKept, Keeps, Holds, HasLogged, HasDeleted, handlerVars, planVars, history
<1>3. CASE Boot
  <2>1. UNCHANGED <<dataVars, handlerVars, history>>
    BY <1>3 DEF Boot, Start, Migrate, MigrateFails, RecordVersion, Serve
  <2> QED
    BY <2>1 DEF WritesKept, Keeps, Holds, HasLogged, HasDeleted, dataVars, handlerVars, planVars, history
<1>4. CASE Crash
  <2>1. /\ work' = committed /\ committed' = committed /\ undone' = undone /\ who' = {}
        /\ UNCHANGED planVars
        /\ \A h \in Handlers :
               (pc'[h] = pc[h] /\ pc[h] \in Ended \cup {"idle"}) \/ pc'[h] = "gone"
    BY <1>4 DEF Crash, history, Running, TypeOK
  <2>2. \A h \in Handlers : pc[h] = "idle" => ~HasLogged(h) /\ HasDeleted(h) = {}
    BY DEF Unbegun, HasLogged, HasDeleted
  <2>3. Keeps(committed', work')
    BY <2>1 DEF Keeps
  <2>4. ASSUME NEW h \in Handlers, h \notin undone', pc'[h] \notin {"raised", "gone"}
        PROVE  Holds(h, committed)'
    <3>1. pc'[h] = pc[h] /\ pc[h] \in {"done", "idle"} /\ h \notin undone
      BY <2>1, <2>4 DEF Ended
    <3>2. Holds(h, committed)
      BY <2>2, <3>1 DEF WritesKept, Holds
    <3> QED
      BY <2>1, <3>1, <3>2 DEF Holds, HasLogged, HasDeleted, planVars
  <2> QED
    BY <2>1, <2>3, <2>4 DEF WritesKept, Holds, Ended, planVars
<1>5. CASE UNCHANGED vars
  BY <1>5 DEF vars, dataVars, handlerVars, planVars, history, WritesKept, Keeps, Holds, HasLogged, HasDeleted
<1> QED
  BY <1>1, <1>2, <1>3, <1>4, <1>5 DEF Next

\* Whoever has statements in the transaction is there to end it, or is a cleanup that failed.
LEMMA HeldPreserved ==
    TypeOK /\ Consistent /\ Unbegun /\ HeldByRunning /\ [Next]_vars => HeldByRunning'
<1> SUFFICES ASSUME TypeOK, Consistent, Unbegun, HeldByRunning, [Next]_vars PROVE HeldByRunning'
  OBVIOUS
<1>1. ASSUME NEW h \in Handlers, Begin(h) \/ Continue(h)
      PROVE  HeldByRunning'
  <2> USE DEF Step, TypeOK, planVars, Running, Ended, HeldByRunning
  <2>1. \A g \in Handlers : g # h => pc'[g] = pc[g] /\ item'[g] = item[g]
    BY <1>1, OthersSayTheSame
  <2>2. CASE who' \subseteq who \cup {h} /\ pc'[h] \notin Ended \cup {"idle", "files"} /\ item'[h] = item[h]
             /\ (pc'[h] \in {"rows", "rowsGone", "job"} => item[h] # {})
    BY <2>1, <2>2
  <2>3. CASE SaveDeletes(h) \/ SaveInserts(h) \/ SaveConflicts(h) \/ LogActivity(h) \/ DeleteArtifactRows(h)
    <3>1. who' \subseteq who \cup {h} /\ item' = item
      BY <2>3 DEF SaveDeletes, SaveInserts, SaveConflicts, LogActivity, DeleteArtifactRows, Execute, dataVars
    <3> QED
      BY <2>2, <2>3, <3>1 DEF SaveDeletes, SaveInserts, SaveConflicts, LogActivity, DeleteArtifactRows
  <2>4. CASE SaveCommits(h) \/ CommitArtifactRows(h) \/ CommitCleanup(h) \/ CommitLog(h) \/ SaveRollsBack(h)
    <3>1. who' = {} /\ item' = item
      BY <2>4 DEF SaveCommits, CommitArtifactRows, CommitCleanup, CommitLog, SaveRollsBack,
                  Commit, Rollback, Consistent, dataVars
    <3>2. pc'[h] \in {"rows", "rowsGone", "job"} => item[h] # {}
      BY <2>4 DEF SaveCommits, CommitArtifactRows, CommitCleanup, CommitLog, SaveRollsBack
    <3> QED
      BY <2>1, <3>1, <3>2
  <2>5. CASE StartCleanup(h)
    <3>1. h \notin who
      BY <2>5 DEF StartCleanup
    <3> QED
      BY <2>1, <2>5, <3>1 DEF StartCleanup, dataVars
  <2>6. CASE RemoveFiles(h)
    BY <2>1, <2>6 DEF RemoveFiles, dataVars
  <2>7. CASE RemoveFilesFails(h)
    BY <2>1, <2>7 DEF RemoveFilesFails, dataVars
  <2>8. CASE DeleteJobRow(h)
    BY <2>1, <2>8 DEF DeleteJobRow, Execute
  <2> QED
    BY <1>1, <2>3, <2>4, <2>5, <2>6, <2>7, <2>8 DEF Begin, Continue
<1>2. CASE Worker
  <2>1. UNCHANGED <<handlerVars, who>>
    BY <1>2 DEF Worker, WorkerWants, WorkerExecutes, WorkerCommits, WorkerTimesOut, dataVars
  <2> QED
    BY <2>1 DEF HeldByRunning, Running, handlerVars, planVars
<1>3. CASE Boot
  <2>1. UNCHANGED <<handlerVars, who>>
    BY <1>3 DEF Boot, Start, Migrate, MigrateFails, RecordVersion, Serve, dataVars
  <2> QED
    BY <2>1 DEF HeldByRunning, Running, handlerVars, planVars
<1>4. CASE Crash
  BY <1>4 DEF Crash, HeldByRunning, Running, Ended, planVars, TypeOK
<1>5. CASE UNCHANGED vars
  BY <1>5 DEF vars, dataVars, handlerVars, planVars, HeldByRunning, Running
<1> QED
  BY <1>1, <1>2, <1>3, <1>4, <1>5 DEF Next

----------------------------------------------------------------------------

\* The inductive invariant.
Inv ==
    /\ TypeOK /\ Consistent /\ SchemaInStep
    /\ Unbegun /\ SavesApart /\ WritesKept /\ HeldByRunning

\* It holds at first.
LEMMA InvInit == Init => Inv
<1> SUFFICES ASSUME Init PROVE Inv
  OBVIOUS
<1> USE Bounds DEF Init
<1>1. committed \in Data
  BY DEF Data
<1>2. recorded * Statements \in 0 .. Scripts * Statements
  OBVIOUS
<1>3. TypeOK
  <2>1. applied \in 0 .. Scripts * Statements /\ at \in 0 .. Statements
    BY <1>2
  <2>2. pc \in [Handlers -> {"idle", "deleted", "inserted", "conflict", "files", "rows",
                            "rowsGone", "job", "lastCommit", "log", "logged"} \cup Ended]
    OBVIOUS
  <2>3. off \in [Handlers -> SUBSET Rules] /\ named \in [Handlers -> SUBSET Collections]
    OBVIOUS
  <2>4. todo \in [Handlers -> SUBSET Collections] /\ item \in [Handlers -> SUBSET Collections]
    BY <2>3
  <2>5. committed \in Data /\ work \in Data
    BY <1>1
  <2>6. recorded \in 0 .. Scripts /\ crashes \in 0 .. MaxCrashes /\ beats \in 0 .. MaxBeats
    OBVIOUS
  <2>7. /\ phase = "down" /\ holder = "nobody" /\ who = {} /\ worker = "idle"
        /\ overlapped = FALSE /\ undone = {}
    OBVIOUS
  <2> QED
    BY ONLY <2>1, <2>2, <2>3, <2>4, <2>5, <2>6, <2>7 DEF TypeOK
<1>4. Consistent
  BY DEF Consistent
<1>5. SchemaInStep
  BY <1>2 DEF SchemaInStep
<1>6. Unbegun /\ HeldByRunning
  BY DEF Unbegun, HeldByRunning
<1>7. SavesApart
  BY DEF SavesApart, Asked, Saving
<1>8. WritesKept
  BY DEF WritesKept, Keeps, Holds, HasLogged, HasDeleted
<1> QED
  BY <1>3, <1>4, <1>5, <1>6, <1>7, <1>8 DEF Inv

\* Every reachable state satisfies it.
THEOREM Invariance == Spec => []Inv
<1>1. Inv /\ [Next]_vars => Inv'
  BY TypePreserved, ConsistentPreserved, SchemaPreserved, UnbegunPreserved, SavesPreserved,
     WritesPreserved, HeldPreserved DEF Inv
<1> QED
  BY <1>1, InvInit, PTL DEF Spec

\* Type correctness of the database, its two connections and the handlers.
THEOREM DatabaseTypeCorrect == Spec => []TypeOK
BY Invariance, PTL DEF Inv

\* Whoever commits or rolls back whose half-done save: no rule is off that no save switched
\* off, and without overlapping saves the rules that are off are one save's.
THEOREM RedactionFailsSafe == Spec => []RulesFailSafe
<1>1. Inv => RulesFailSafe
  BY DEF Inv, SavesApart, RulesFailSafe
<1> QED
  BY <1>1, Invariance, PTL

\* What a handler has reported is in the database, unless another's rollback undid it.
THEOREM ReportsLast == Spec => []ReportedWritesLast
<1>1. Inv => ReportedWritesLast
  <2> SUFFICES ASSUME Inv PROVE ReportedWritesLast
    OBVIOUS
  <2>1. beats = committed.beats
    BY DEF Inv, Consistent
  <2>2. ASSUME NEW h \in Handlers, h \notin undone, pc[h] = "done"
        PROVE  h \in committed.log /\ \A c \in named[h] : committed.left[c] = "deleted"
    <3>1. Holds(h, committed) /\ named[h] \cap todo[h] = {}
      BY <2>2 DEF Inv, WritesKept
    <3> QED
      BY <2>2, <3>1 DEF Holds, HasLogged, HasDeleted
  <2> QED
    BY <2>1, <2>2 DEF ReportedWritesLast
<1> QED
  BY <1>1, Invariance, PTL

\* The worker gives up waiting for the write lock only because of a cleanup.
THEOREM StarvedByCleanupsOnly == Spec => OnlyCleanupsStarve
<1>1. ASSUME Inv, [Next]_vars, worker = "waiting", worker' = "dead"
      PROVE  \E h \in Handlers : Abandoned(h) \/ (h \in who /\ pc[h] = "files")
  <2>1. WorkerTimesOut
    <3>1. ASSUME NEW h \in Handlers, Begin(h) \/ Continue(h)
          PROVE  worker' = worker
      BY <1>1, <3>1, HandlerSteps DEF Inv, workerVars
    <3> QED
      BY <1>1, <3>1 DEF Next, Worker, WorkerWants, WorkerExecutes, WorkerCommits, Boot, Start,
         Migrate, MigrateFails, RecordVersion, Serve, Crash, vars, workerVars
  <2>2. PICK h \in who : TRUE
    BY <1>1, <2>1 DEF WorkerTimesOut, Inv, Consistent
  <2>3. h \in Handlers /\ ~CallsSoon(h)
    BY <1>1, <2>1, <2>2 DEF WorkerTimesOut, Inv, TypeOK
  <2> QED
    BY <1>1, <2>2, <2>3 DEF Inv, HeldByRunning, CallsSoon, Abandoned
<1>2. Inv /\ [Next]_vars =>
          [worker = "waiting" /\ worker' = "dead" =>
              \E h \in Handlers : Abandoned(h) \/ (h \in who /\ pc[h] = "files")]_vars
  BY <1>1
<1> QED
  BY <1>2, Invariance, PTL DEF Spec, OnlyCleanupsStarve

\* A process that serves (after migrate) has every migration's statements in its schema,
\* whatever died in between: a torn migration never passes for a whole one.
SchemaComplete == phase = "serving" => applied = Scripts * Statements

THEOREM ServesWholeSchema == Spec => []SchemaComplete
<1>1. Inv => SchemaComplete
  <2> SUFFICES ASSUME Inv, phase = "serving" PROVE applied = Scripts * Statements
    BY DEF SchemaComplete
  <2>1. recorded = Scripts /\ applied >= recorded * Statements + at
        /\ applied \in 0 .. Scripts * Statements /\ at \in Nat
    BY Bounds DEF Inv, SchemaInStep, TypeOK
  <2>2. Scripts * Statements \in Nat
    BY Bounds
  <2> QED
    BY <2>1, <2>2
<1> QED
  BY <1>1, Invariance, PTL

=============================================================================
