-------------------------- MODULE SelfUpdateProofs --------------------------
(***************************************************************************)
(* What is proved of self-update: its types, that an update always leaves  *)
(* an outcome, that a success is earned and what alone strands the         *)
(* deployment, each with the same excuses as in the model.                 *)
(***************************************************************************)
EXTENDS SelfUpdate, TLAPS

\* An update thread that has marked the row is alone beyond its mark, unless updates overlap.
Begun == UpdatePcs \ {"off", "read", "mark"}
AloneInUpdate ==
    ~overlapped =>
        \A t, u \in Updates : t # u /\ upc[t] \in Begun => upc[u] \notin Begun

\* No updater works before the thread has launched its own.
NoneBeforeLaunch ==
    ~overlapped =>
        \A t \in Updates : upc[t] \in {"clearResult", "remove", "launch"} => ~UpdaterBusy

\* A thread that goes on to record a success has seen an updater finish.
WorkIsDone ==
    \A t \in Updates :
        (\/ upc[t] \in {"endSucceeded", "reportSuccess"}
         \/ upc[t] = "wait" /\ updater = "ok")
        => finished \/ overlapped

\* A process starts because an updater or a restart started it.
StartedBySomebody == process \in {"booting", "finishing"} => finished \/ restarted

\* A thread that is about to clear the flag of a failed update has recorded the failure.
FailureIsSaid == \A t \in Updates : upc[t] = "endFailed" => ~owed \/ overlapped

\* An outcome that is owed is still to come: the flag is up, or somebody is between
\* clearing it and recording the outcome.
OutcomeToCome ==
    owed =>
        \/ inProgress \/ overlapped \/ torn
        \/ \E t \in Updates : upc[t] = "reportSuccess"
        \/ \E r \in Requests : cpc[r] = "reapReport"
        \/ process = "finishing"

IInv == TypeOK /\ AloneInUpdate /\ NoneBeforeLaunch /\ NeverStranded /\ WorkIsDone
               /\ StartedBySomebody /\ FailureIsSaid /\ OutcomeToCome

-----------------------------------------------------------------------------

\* Every write to the row is of its type.
LEMMA RowTypes ==
    ASSUME TypeOK, [Next]_vars
    PROVE  RowTypeOK'
<1> USE DEF TypeOK, RowTypeOK, ClientTypeOK
<1>1. ASSUME NEW c \in Checkers, CheckRecord(c) PROVE RowTypeOK'
  <2>1. latest' \in 1..MaxImages \cup {None}
    BY <1>1 DEF CheckRecord, Clients
  <2>2. available' = IsNews(cdigest[c]) \/ available' = available
    BY <1>1 DEF CheckRecord
  <2>3. available' \in BOOLEAN
    BY <2>2 DEF IsNews
  <2>4. QED BY <1>1, <2>1, <2>3 DEF CheckRecord
<1>2. ASSUME NEW r \in Requests, ReapClear(r) PROVE RowTypeOK'
  BY <1>2 DEF ReapClear, row
<1>3. ASSUME NEW r \in Requests, ReapReport(r) PROVE RowTypeOK'
  BY <1>3 DEF ReapReport, row
<1>4. CASE Dismiss
  BY <1>4 DEF Dismiss, row
<1>5. ASSUME NEW t \in Updates, Mark(t) PROVE RowTypeOK'
  BY <1>5 DEF Mark, row
<1>6. ASSUME NEW t \in Updates, ClearResult(t) PROVE RowTypeOK'
  BY <1>6 DEF ClearResult, row
<1>7. ASSUME NEW t \in Updates, ReportFailure(t) PROVE RowTypeOK'
  BY <1>7 DEF ReportFailure, row
<1>8. ASSUME NEW t \in Updates, EndFailed(t) PROVE RowTypeOK'
  BY <1>8 DEF EndFailed, row
<1>9. ASSUME NEW t \in Updates, EndSucceeded(t) PROVE RowTypeOK'
  BY <1>9 DEF EndSucceeded, row
<1>10. ASSUME NEW t \in Updates, ReportSuccess(t) PROVE RowTypeOK'
  BY <1>10 DEF ReportSuccess, row
<1>11. CASE Boot
  BY <1>11 DEF Boot, FinishPending, row
<1>12. CASE BootReport
  BY <1>12 DEF BootReport, row
<1>13. CASE Tick
  BY <1>13 DEF Tick, row
<1>14. CASE \/ UNCHANGED vars \/ RecreateDies \/ (\E c \in Checkers : CheckFetch(c))
           \/ (\E r \in Requests : ReapRead(r)) \/ (\E t \in Updates : Apply(t))
           \/ (\E t \in Updates : ReadState(t)) \/ (\E t \in Updates : RemoveUpdater(t))
           \/ (\E t \in Updates : Launch(t)) \/ (\E t \in Updates : Waited(t)) \/ Pull
           \/ UpToDate \/ StopContainer \/ StartContainer \/ Exit \/ Restart \/ Crash
           \/ HostUpdate \/ Publish
  <2>1. UNCHANGED <<aged, available, inProgress, latest, result>>
    BY <1>14 DEF vars, RecreateDies, row, CheckFetch, ReapRead, Apply, ReadState, RemoveUpdater, Launch,
              Waited, Pull, UpToDate, StopContainer, StartContainer, Exit, Restart, Crash,
              HostUpdate, Publish
  <2>2. QED BY <2>1
<1>15. QED
  BY <1>1, <1>2, <1>3, <1>4, <1>5, <1>6, <1>7, <1>8, <1>9, <1>10, <1>11, <1>12,
     <1>13, <1>14 DEF Next, UpdateStep, UpdaterStep, ProcessStep

\* What is published, pulled and running stays an image.
LEMMA HostTypes ==
    ASSUME TypeOK, [Next]_vars
    PROVE  HostTypeOK'
<1> USE DEF TypeOK, HostTypeOK
<1>1. ASSUME NEW t \in Updates, RemoveUpdater(t) PROVE HostTypeOK'
  BY <1>1 DEF RemoveUpdater, host
<1>2. ASSUME NEW t \in Updates, Launch(t) PROVE HostTypeOK'
  BY <1>2 DEF Launch, host
<1>3. ASSUME NEW t \in Updates, Waited(t) PROVE HostTypeOK'
  BY <1>3 DEF Waited, host
<1>4. CASE Pull
  BY <1>4 DEF Pull, host
<1>5. CASE UpToDate
  BY <1>5 DEF UpToDate, host
<1>6. CASE StopContainer
  BY <1>6 DEF StopContainer, host
<1>7. CASE StartContainer
  BY <1>7 DEF StartContainer, host
<1>8. CASE Exit
  BY <1>8 DEF Exit, host
<1>9. CASE Restart
  BY <1>9 DEF Restart, host
<1>10. CASE Boot
  BY <1>10 DEF Boot, FinishPending, host
<1>11. CASE BootReport
  BY <1>11 DEF BootReport, host
<1>12. CASE Crash
  BY <1>12 DEF Crash, host
<1>13. CASE HostUpdate
  BY <1>13 DEF HostUpdate, host
<1>14. CASE Publish
  BY <1>14, SelfUpdateAssumption DEF Publish
<1>15. CASE \/ UNCHANGED vars \/ (\E c \in Checkers : CheckFetch(c))
           \/ (\E c \in Checkers : CheckRecord(c)) \/ (\E r \in Requests : ReapRead(r))
           \/ (\E r \in Requests : ReapClear(r)) \/ (\E r \in Requests : ReapReport(r))
           \/ Dismiss \/ (\E t \in Updates : Apply(t))
           \/ (\E t \in Updates : ReadState(t)) \/ (\E t \in Updates : Mark(t))
           \/ (\E t \in Updates : ClearResult(t))
           \/ (\E t \in Updates : ReportFailure(t)) \/ (\E t \in Updates : EndFailed(t))
           \/ (\E t \in Updates : EndSucceeded(t))
           \/ (\E t \in Updates : ReportSuccess(t)) \/ Tick
  <2>1. UNCHANGED <<held, image, process, published, pulled, updater>>
    BY <1>15 DEF vars, host, CheckFetch, CheckRecord, ReapRead, ReapClear, ReapReport,
              Dismiss, Apply, ReadState, Mark, ClearResult, ReportFailure, EndFailed,
              EndSucceeded, ReportSuccess, Tick
  <2>2. QED BY <2>1
<1>16. CASE RecreateDies
  BY <1>16 DEF RecreateDies, host
<1>17. QED
  BY <1>1, <1>2, <1>3, <1>4, <1>5, <1>6, <1>7, <1>8, <1>9, <1>10, <1>11, <1>12,
     <1>13, <1>14, <1>15, <1>16 DEF Next, UpdateStep, UpdaterStep, ProcessStep

\* A thread stays within run_update.
LEMMA ThreadTypes ==
    ASSUME TypeOK, [Next]_vars
    PROVE  ThreadTypeOK'
<1> USE DEF TypeOK, ThreadTypeOK, RowTypeOK, UpdatePcs
<1>1. ASSUME NEW t \in Updates, Apply(t) PROVE ThreadTypeOK'
  BY <1>1 DEF Apply, Move, threads
<1>2. ASSUME NEW t \in Updates, ReadState(t) PROVE ThreadTypeOK'
  BY <1>2 DEF ReadState, Move, threads
<1>3. ASSUME NEW t \in Updates, Mark(t) PROVE ThreadTypeOK'
  BY <1>3 DEF Mark, Move, threads
<1>4. ASSUME NEW t \in Updates, ClearResult(t) PROVE ThreadTypeOK'
  BY <1>4 DEF ClearResult, Move, threads
<1>5. ASSUME NEW t \in Updates, RemoveUpdater(t) PROVE ThreadTypeOK'
  <2>1. unchanged' = [unchanged EXCEPT ![t] = ulatest[t] \in Deployed]
    BY <1>5 DEF RemoveUpdater
  <2>2. unchanged \in [Updates -> BOOLEAN]
    OBVIOUS
  <2>3. unchanged' \in [Updates -> BOOLEAN]
    <3> HIDE DEF TypeOK, ThreadTypeOK
    <3> QED BY <2>1, <2>2, SMT
  <2>4. QED BY <1>5, <2>3 DEF RemoveUpdater, Move
<1>6. ASSUME NEW t \in Updates, Launch(t) PROVE ThreadTypeOK'
  BY <1>6 DEF Launch, Move, threads
<1>7. ASSUME NEW t \in Updates, Waited(t) PROVE ThreadTypeOK'
  BY <1>7 DEF Waited, Move, threads
<1>8. ASSUME NEW t \in Updates, ReportFailure(t) PROVE ThreadTypeOK'
  BY <1>8 DEF ReportFailure, Move, threads
<1>9. ASSUME NEW t \in Updates, EndFailed(t) PROVE ThreadTypeOK'
  BY <1>9 DEF EndFailed, Move, threads
<1>10. ASSUME NEW t \in Updates, EndSucceeded(t) PROVE ThreadTypeOK'
  BY <1>10 DEF EndSucceeded, Move, threads
<1>11. ASSUME NEW t \in Updates, ReportSuccess(t) PROVE ThreadTypeOK'
  BY <1>11 DEF ReportSuccess, Move, threads
<1>12. CASE Exit
  BY <1>12 DEF Exit, Gone, threads
<1>13. CASE Crash
  BY <1>13 DEF Crash, Gone, threads
<1>14. CASE HostUpdate
  BY <1>14 DEF HostUpdate, Gone, threads
<1>15. CASE Tick
  BY <1>15 DEF Tick, threads
<1>16. CASE \/ UNCHANGED vars \/ RecreateDies \/ (\E c \in Checkers : CheckFetch(c))
           \/ (\E c \in Checkers : CheckRecord(c)) \/ (\E r \in Requests : ReapRead(r))
           \/ (\E r \in Requests : ReapClear(r)) \/ (\E r \in Requests : ReapReport(r))
           \/ Dismiss \/ Pull \/ UpToDate \/ StopContainer \/ StartContainer \/ Restart
           \/ Boot \/ BootReport \/ Publish
  <2>1. UNCHANGED <<overdue, ulatest, unchanged, upc>>
    BY <1>16 DEF vars, RecreateDies, threads, CheckFetch, CheckRecord, ReapRead, ReapClear, ReapReport,
              Dismiss, Pull, UpToDate, StopContainer, StartContainer, Restart, Boot,
              BootReport, Publish
  <2>2. QED BY <2>1
<1>17. QED
  BY <1>1, <1>2, <1>3, <1>4, <1>5, <1>6, <1>7, <1>8, <1>9, <1>10, <1>11, <1>12,
     <1>13, <1>14, <1>15, <1>16 DEF Next, UpdateStep, UpdaterStep, ProcessStep

\* A request stays within its handler.
LEMMA ClientTypes ==
    ASSUME TypeOK, [Next]_vars
    PROVE  ClientTypeOK'
<1> USE DEF TypeOK, ClientTypeOK, HostTypeOK, Clients
<1>1. ASSUME NEW c \in Checkers, CheckFetch(c) PROVE ClientTypeOK'
  BY <1>1 DEF CheckFetch, Go, clients
<1>2. ASSUME NEW c \in Checkers, CheckRecord(c) PROVE ClientTypeOK'
  BY <1>2 DEF CheckRecord, Go, clients
<1>3. ASSUME NEW r \in Requests, ReapRead(r) PROVE ClientTypeOK'
  BY <1>3 DEF ReapRead, Go, clients
<1>4. ASSUME NEW r \in Requests, ReapClear(r) PROVE ClientTypeOK'
  BY <1>4 DEF ReapClear, Go, clients
<1>5. ASSUME NEW r \in Requests, ReapReport(r) PROVE ClientTypeOK'
  BY <1>5 DEF ReapReport, Go, clients
<1>6. CASE Exit
  BY <1>6 DEF Exit, Gone, clients
<1>7. CASE Crash
  BY <1>7 DEF Crash, Gone, clients
<1>8. CASE HostUpdate
  BY <1>8 DEF HostUpdate, Gone, clients
<1>9. CASE \/ UNCHANGED vars \/ RecreateDies \/ Dismiss \/ (\E t \in Updates : Apply(t))
           \/ (\E t \in Updates : ReadState(t)) \/ (\E t \in Updates : Mark(t))
           \/ (\E t \in Updates : ClearResult(t))
           \/ (\E t \in Updates : RemoveUpdater(t)) \/ (\E t \in Updates : Launch(t))
           \/ (\E t \in Updates : Waited(t)) \/ (\E t \in Updates : ReportFailure(t))
           \/ (\E t \in Updates : EndFailed(t)) \/ (\E t \in Updates : EndSucceeded(t))
           \/ (\E t \in Updates : ReportSuccess(t)) \/ Pull \/ UpToDate \/ StopContainer
           \/ StartContainer \/ Restart \/ Boot \/ BootReport \/ Publish \/ Tick
  <2>1. UNCHANGED <<cdigest, cpc>>
    BY <1>9 DEF vars, RecreateDies, clients, Dismiss, Apply, ReadState, Mark, ClearResult,
              RemoveUpdater, Launch, Waited, ReportFailure, EndFailed, EndSucceeded,
              ReportSuccess, Pull, UpToDate, StopContainer, StartContainer, Restart, Boot,
              BootReport, Publish, Tick
  <2>2. QED BY <2>1
<1>10. QED
  BY <1>1, <1>2, <1>3, <1>4, <1>5, <1>6, <1>7, <1>8, <1>9 DEF Next, UpdateStep,
     UpdaterStep, ProcessStep

\* What is remembered stays of its type.
LEMMA HistoryTypes ==
    ASSUME TypeOK, [Next]_vars
    PROVE  HistoryTypeOK'
<1> USE DEF TypeOK, HistoryTypeOK
<1>1. ASSUME NEW c \in Checkers, CheckRecord(c) PROVE HistoryTypeOK'
  BY <1>1 DEF CheckRecord, Mishap, history
<1>2. ASSUME NEW r \in Requests, ReapReport(r) PROVE HistoryTypeOK'
  BY <1>2 DEF ReapReport, history
<1>3. ASSUME NEW t \in Updates, Mark(t) PROVE HistoryTypeOK'
  BY <1>3 DEF Mark, history
<1>4. ASSUME NEW t \in Updates, ClearResult(t) PROVE HistoryTypeOK'
  <2>1. mishaps' = mishaps \/ mishaps' = mishaps + 1
    BY <1>4 DEF ClearResult, Mishap
  <2>2. UNCHANGED history
    BY <1>4 DEF ClearResult
  <2>3. QED BY <2>1, <2>2 DEF history
<1>5. ASSUME NEW t \in Updates, Launch(t) PROVE HistoryTypeOK'
  BY <1>5 DEF Launch, Mishap, history
<1>6. ASSUME NEW t \in Updates, ReportFailure(t) PROVE HistoryTypeOK'
  BY <1>6 DEF ReportFailure, history
<1>7. ASSUME NEW t \in Updates, ReportSuccess(t) PROVE HistoryTypeOK'
  BY <1>7 DEF ReportSuccess, history
<1>8. CASE Pull
  BY <1>8 DEF Pull, Mishap, history
<1>9. CASE UpToDate
  BY <1>9 DEF UpToDate, history
<1>10. CASE StopContainer
  BY <1>10 DEF StopContainer, history
<1>11. CASE StartContainer
  <2>1. mishaps' = mishaps \/ mishaps' = mishaps + 1
    BY ONLY <1>11 DEF StartContainer, Mishap
  <2>2. mishaps' \in Nat
    BY ONLY <2>1, TypeOK DEF TypeOK, HistoryTypeOK
  <2>3. finished' = TRUE /\ cutShort' = FALSE /\ UNCHANGED <<owed, restarted, overlapped, torn>>
    BY ONLY <1>11 DEF StartContainer
  <2>4. QED BY <2>2, <2>3
<1>12. CASE Exit
  BY <1>12 DEF Exit, Gone, history
<1>13. CASE Restart
  BY <1>13 DEF Restart, history
<1>14. CASE BootReport
  BY <1>14 DEF BootReport, history
<1>15. CASE Crash
  BY <1>15 DEF Crash, Mishap, Gone, history
<1>16. CASE HostUpdate
  BY <1>16 DEF HostUpdate, Mishap, Gone, history
<1>17. CASE \/ UNCHANGED vars \/ (\E c \in Checkers : CheckFetch(c))
           \/ (\E r \in Requests : ReapRead(r)) \/ (\E r \in Requests : ReapClear(r))
           \/ Dismiss \/ (\E t \in Updates : Apply(t))
           \/ (\E t \in Updates : ReadState(t)) \/ (\E t \in Updates : RemoveUpdater(t))
           \/ (\E t \in Updates : Waited(t)) \/ (\E t \in Updates : EndFailed(t))
           \/ (\E t \in Updates : EndSucceeded(t)) \/ Boot \/ Publish \/ Tick
  <2>1. UNCHANGED <<cutShort, finished, mishaps, overlapped, owed, restarted, torn>>
    BY <1>17 DEF vars, history, CheckFetch, ReapRead, ReapClear, Dismiss, Apply,
              ReadState, RemoveUpdater, Waited, EndFailed, EndSucceeded, Boot, Publish,
              Tick
  <2>2. QED BY <2>1
<1>18. CASE RecreateDies
  BY <1>18 DEF RecreateDies, Mishap, history
<1>19. QED
  BY <1>1, <1>2, <1>3, <1>4, <1>5, <1>6, <1>7, <1>8, <1>9, <1>10, <1>11, <1>12,
     <1>13, <1>14, <1>15, <1>16, <1>17, <1>18 DEF Next, UpdateStep, UpdaterStep, ProcessStep

\* Two threads are past their marks only when the second has seen the first.
LEMMA AloneKeeps ==
    ASSUME IInv, [Next]_vars
    PROVE  AloneInUpdate'
<1> USE DEF IInv, TypeOK, HostTypeOK, ThreadTypeOK, AloneInUpdate, Begun, UpdatePcs
<1>1. ASSUME NEW t \in Updates, Apply(t) PROVE AloneInUpdate'
  BY <1>1 DEF Apply, Move, threads, history
<1>2. ASSUME NEW t \in Updates, ReadState(t) PROVE AloneInUpdate'
  BY <1>2 DEF ReadState, Move, threads, history
<1>3. ASSUME NEW t \in Updates, Mark(t) PROVE AloneInUpdate'
  BY <1>3 DEF Mark, Move, threads, history
<1>4. ASSUME NEW t \in Updates, ClearResult(t) PROVE AloneInUpdate'
  <2>1. upc[t] \in Begun /\ UNCHANGED overlapped
    BY <1>4 DEF ClearResult, history
  <2>2. \A u \in Updates : u # t => upc'[u] = upc[u]
    BY <1>4 DEF ClearResult, Move
  <2>3. QED BY <2>1, <2>2
<1>5. ASSUME NEW t \in Updates, RemoveUpdater(t) PROVE AloneInUpdate'
  BY <1>5 DEF RemoveUpdater, Move, threads, history
<1>6. ASSUME NEW t \in Updates, Launch(t) PROVE AloneInUpdate'
  BY <1>6 DEF Launch, Move, threads, history
<1>7. ASSUME NEW t \in Updates, Waited(t) PROVE AloneInUpdate'
  BY <1>7 DEF Waited, Move, threads, history
<1>8. ASSUME NEW t \in Updates, ReportFailure(t) PROVE AloneInUpdate'
  BY <1>8 DEF ReportFailure, Move, threads, history
<1>9. ASSUME NEW t \in Updates, EndFailed(t) PROVE AloneInUpdate'
  BY <1>9 DEF EndFailed, Move, threads, history
<1>10. ASSUME NEW t \in Updates, EndSucceeded(t) PROVE AloneInUpdate'
  BY <1>10 DEF EndSucceeded, Move, threads, history
<1>11. ASSUME NEW t \in Updates, ReportSuccess(t) PROVE AloneInUpdate'
  BY <1>11 DEF ReportSuccess, Move, threads, history
<1>12. CASE Exit
  BY <1>12 DEF Exit, Gone, threads, history
<1>13. CASE Crash
  BY <1>13 DEF Crash, Gone, threads, history
<1>14. CASE HostUpdate
  BY <1>14 DEF HostUpdate, Gone, threads, history
<1>15. CASE \/ UNCHANGED vars \/ RecreateDies \/ (\E c \in Checkers : CheckFetch(c))
           \/ (\E c \in Checkers : CheckRecord(c)) \/ (\E r \in Requests : ReapRead(r))
           \/ (\E r \in Requests : ReapClear(r)) \/ (\E r \in Requests : ReapReport(r))
           \/ Dismiss \/ Pull \/ UpToDate \/ StopContainer \/ StartContainer \/ Restart
           \/ Boot \/ BootReport \/ Publish \/ Tick
  <2>1. UNCHANGED <<overlapped, upc>>
    BY <1>15 DEF vars, RecreateDies, threads, history, CheckFetch, CheckRecord, ReapRead, ReapClear,
              ReapReport, Dismiss, Pull, UpToDate, StopContainer, StartContainer, Restart,
              Boot, BootReport, Publish, Tick
  <2>2. QED BY <2>1
<1>16. QED
  BY <1>1, <1>2, <1>3, <1>4, <1>5, <1>6, <1>7, <1>8, <1>9, <1>10, <1>11, <1>12,
     <1>13, <1>14, <1>15 DEF Next, UpdateStep, UpdaterStep, ProcessStep

\* A thread that marks the row while an updater works overlaps with it.
LEMMA NoneBeforeKeeps ==
    ASSUME IInv, [Next]_vars
    PROVE  NoneBeforeLaunch'
<1> USE DEF IInv, TypeOK, HostTypeOK, ThreadTypeOK, NoneBeforeLaunch, AloneInUpdate, Begun, UpdatePcs, UpdaterBusy
<1>1. ASSUME NEW t \in Updates, Apply(t) PROVE NoneBeforeLaunch'
  BY <1>1 DEF Apply, Move, host, threads, history
<1>2. ASSUME NEW t \in Updates, ReadState(t) PROVE NoneBeforeLaunch'
  BY <1>2 DEF ReadState, Move, host, threads, history
<1>3. ASSUME NEW t \in Updates, Mark(t) PROVE NoneBeforeLaunch'
  BY <1>3 DEF Mark, Move, host, threads, history
<1>4. ASSUME NEW t \in Updates, ClearResult(t) PROVE NoneBeforeLaunch'
  BY <1>4 DEF ClearResult, Move, host, threads, history
<1>5. ASSUME NEW t \in Updates, RemoveUpdater(t) PROVE NoneBeforeLaunch'
  BY <1>5 DEF RemoveUpdater, Move, host, threads, history
<1>6. ASSUME NEW t \in Updates, Launch(t) PROVE NoneBeforeLaunch'
  BY <1>6 DEF Launch, Move, host, threads, history
<1>7. ASSUME NEW t \in Updates, Waited(t) PROVE NoneBeforeLaunch'
  BY <1>7 DEF Waited, Move, host, threads, history
<1>8. ASSUME NEW t \in Updates, ReportFailure(t) PROVE NoneBeforeLaunch'
  BY <1>8 DEF ReportFailure, Move, host, threads, history
<1>9. ASSUME NEW t \in Updates, EndFailed(t) PROVE NoneBeforeLaunch'
  BY <1>9 DEF EndFailed, Move, host, threads, history
<1>10. ASSUME NEW t \in Updates, EndSucceeded(t) PROVE NoneBeforeLaunch'
  BY <1>10 DEF EndSucceeded, Move, host, threads, history
<1>11. ASSUME NEW t \in Updates, ReportSuccess(t) PROVE NoneBeforeLaunch'
  BY <1>11 DEF ReportSuccess, Move, host, threads, history
<1>12. CASE Pull
  BY <1>12 DEF Pull, host, threads, history
<1>13. CASE UpToDate
  BY <1>13 DEF UpToDate, host, threads, history
<1>14. CASE StopContainer
  BY <1>14 DEF StopContainer, host, threads, history
<1>15. CASE StartContainer
  BY <1>15 DEF StartContainer, host, threads, history
<1>16. CASE Exit
  BY <1>16 DEF Exit, Gone, host, threads, history
<1>17. CASE Crash
  BY <1>17 DEF Crash, Gone, host, threads, history
<1>18. CASE HostUpdate
  BY <1>18 DEF HostUpdate, Gone, host, threads, history
<1>19. CASE \/ UNCHANGED vars \/ (\E c \in Checkers : CheckFetch(c))
           \/ (\E c \in Checkers : CheckRecord(c)) \/ (\E r \in Requests : ReapRead(r))
           \/ (\E r \in Requests : ReapClear(r)) \/ (\E r \in Requests : ReapReport(r))
           \/ Dismiss \/ Restart \/ Boot \/ BootReport \/ Publish \/ Tick
  <2>1. UNCHANGED <<overlapped, upc, updater>>
    BY <1>19 DEF vars, host, threads, history, CheckFetch, CheckRecord, ReapRead,
              ReapClear, ReapReport, Dismiss, Restart, Boot, BootReport, Publish, Tick
  <2>2. QED BY <2>1
<1>20. CASE RecreateDies
  BY <1>20 DEF RecreateDies, host, threads, history
<1>21. QED
  BY <1>1, <1>2, <1>3, <1>4, <1>5, <1>6, <1>7, <1>8, <1>9, <1>10, <1>11, <1>12,
     <1>13, <1>14, <1>15, <1>16, <1>17, <1>18, <1>19, <1>20 DEF Next, UpdateStep, UpdaterStep,
     ProcessStep

\* Only a second update, or its own end, takes away the updater that will start the
\* container.
LEMMA StrandedKeeps ==
    ASSUME IInv, [Next]_vars
    PROVE  NeverStranded'
<1> USE DEF IInv, TypeOK, HostTypeOK, ThreadTypeOK, NeverStranded, Stranded, NoneBeforeLaunch, UpdaterBusy
<1>1. ASSUME NEW t \in Updates, Mark(t) PROVE NeverStranded'
  BY <1>1 DEF Mark, host, history
<1>2. ASSUME NEW t \in Updates, RemoveUpdater(t) PROVE NeverStranded'
  BY <1>2 DEF RemoveUpdater, host, history
<1>3. ASSUME NEW t \in Updates, Launch(t) PROVE NeverStranded'
  BY <1>3 DEF Launch, host, history
<1>4. ASSUME NEW t \in Updates, Waited(t) PROVE NeverStranded'
  BY <1>4 DEF Waited, host, history
<1>5. CASE Pull
  BY <1>5 DEF Pull, host, history
<1>6. CASE UpToDate
  BY <1>6 DEF UpToDate, host, history
<1>7. CASE StopContainer
  BY <1>7 DEF StopContainer, host, history
<1>8. CASE StartContainer
  BY <1>8 DEF StartContainer, host, history
<1>9. CASE \/ UNCHANGED vars \/ (\E c \in Checkers : CheckFetch(c))
           \/ (\E c \in Checkers : CheckRecord(c)) \/ (\E r \in Requests : ReapRead(r))
           \/ (\E r \in Requests : ReapClear(r)) \/ (\E r \in Requests : ReapReport(r))
           \/ Dismiss \/ (\E t \in Updates : Apply(t))
           \/ (\E t \in Updates : ReadState(t)) \/ (\E t \in Updates : ClearResult(t))
           \/ (\E t \in Updates : ReportFailure(t)) \/ (\E t \in Updates : EndFailed(t))
           \/ (\E t \in Updates : EndSucceeded(t))
           \/ (\E t \in Updates : ReportSuccess(t)) \/ Exit \/ Restart \/ Boot
           \/ BootReport \/ Crash \/ HostUpdate \/ Publish \/ Tick
  <2>1. UNCHANGED <<cutShort, held, overlapped, updater>>
    BY <1>9 DEF vars, host, history, CheckFetch, CheckRecord, ReapRead, ReapClear,
              ReapReport, Dismiss, Apply, ReadState, ClearResult, ReportFailure,
              EndFailed, EndSucceeded, ReportSuccess, Exit, Restart, Boot, BootReport,
              Crash, HostUpdate, Publish, Tick
  <2>2. QED BY <2>1
<1>10. CASE RecreateDies
  BY <1>10 DEF RecreateDies, host, history
<1>11. QED
  BY <1>1, <1>2, <1>3, <1>4, <1>5, <1>6, <1>7, <1>8, <1>9, <1>10 DEF Next, UpdateStep,
     UpdaterStep, ProcessStep

\* An updater is found done only after it has worked.
LEMMA WorkKeeps ==
    ASSUME IInv, [Next]_vars
    PROVE  WorkIsDone'
<1> USE DEF IInv, TypeOK, HostTypeOK, ThreadTypeOK, WorkIsDone, UpdatePcs
<1>1. ASSUME NEW t \in Updates, Apply(t) PROVE WorkIsDone'
  BY <1>1 DEF Apply, Move, host, threads, history
<1>2. ASSUME NEW t \in Updates, ReadState(t) PROVE WorkIsDone'
  BY <1>2 DEF ReadState, Move, host, threads, history
<1>3. ASSUME NEW t \in Updates, Mark(t) PROVE WorkIsDone'
  BY <1>3 DEF Mark, Move, host, threads, history
<1>4. ASSUME NEW t \in Updates, ClearResult(t) PROVE WorkIsDone'
  BY <1>4 DEF ClearResult, Move, host, threads, history
<1>5. ASSUME NEW t \in Updates, RemoveUpdater(t) PROVE WorkIsDone'
  BY <1>5 DEF RemoveUpdater, Move, host, threads, history
<1>6. ASSUME NEW t \in Updates, Launch(t) PROVE WorkIsDone'
  BY <1>6 DEF Launch, Move, host, threads, history
<1>7. ASSUME NEW t \in Updates, Waited(t) PROVE WorkIsDone'
  BY <1>7 DEF Waited, Move, host, threads, history
<1>8. ASSUME NEW t \in Updates, ReportFailure(t) PROVE WorkIsDone'
  BY <1>8 DEF ReportFailure, Move, host, threads, history
<1>9. ASSUME NEW t \in Updates, EndFailed(t) PROVE WorkIsDone'
  BY <1>9 DEF EndFailed, Move, host, threads, history
<1>10. ASSUME NEW t \in Updates, EndSucceeded(t) PROVE WorkIsDone'
  BY <1>10 DEF EndSucceeded, Move, host, threads, history
<1>11. ASSUME NEW t \in Updates, ReportSuccess(t) PROVE WorkIsDone'
  BY <1>11 DEF ReportSuccess, Move, host, threads, history
<1>12. CASE Pull
  BY <1>12 DEF Pull, host, threads, history
<1>13. CASE UpToDate
  BY <1>13 DEF UpToDate, host, threads, history
<1>14. CASE StopContainer
  BY <1>14 DEF StopContainer, host, threads, history
<1>15. CASE StartContainer
  BY <1>15 DEF StartContainer, host, threads, history
<1>16. CASE Exit
  BY <1>16 DEF Exit, Gone, host, threads, history
<1>17. CASE Crash
  BY <1>17 DEF Crash, Gone, host, threads, history
<1>18. CASE HostUpdate
  BY <1>18 DEF HostUpdate, Gone, host, threads, history
<1>19. CASE \/ UNCHANGED vars \/ (\E c \in Checkers : CheckFetch(c))
           \/ (\E c \in Checkers : CheckRecord(c)) \/ (\E r \in Requests : ReapRead(r))
           \/ (\E r \in Requests : ReapClear(r)) \/ (\E r \in Requests : ReapReport(r))
           \/ Dismiss \/ Restart \/ Boot \/ BootReport \/ Publish \/ Tick
  <2>1. UNCHANGED <<finished, overlapped, upc, updater>>
    BY <1>19 DEF vars, host, threads, history, CheckFetch, CheckRecord, ReapRead,
              ReapClear, ReapReport, Dismiss, Restart, Boot, BootReport, Publish, Tick
  <2>2. QED BY <2>1
<1>20. CASE RecreateDies
  BY <1>20 DEF RecreateDies, host, threads, history
<1>21. QED
  BY <1>1, <1>2, <1>3, <1>4, <1>5, <1>6, <1>7, <1>8, <1>9, <1>10, <1>11, <1>12,
     <1>13, <1>14, <1>15, <1>16, <1>17, <1>18, <1>19, <1>20 DEF Next, UpdateStep, UpdaterStep,
     ProcessStep

\* The starts of a process are the updater, the restart policy and the host.
LEMMA StartsKeep ==
    ASSUME IInv, [Next]_vars
    PROVE  StartedBySomebody'
<1> USE DEF IInv, TypeOK, HostTypeOK, ThreadTypeOK, StartedBySomebody, Running
<1>1. ASSUME NEW t \in Updates, Mark(t) PROVE StartedBySomebody'
  BY <1>1 DEF Mark, host, history
<1>2. CASE UpToDate
  BY <1>2 DEF UpToDate, host, history
<1>3. CASE StopContainer
  BY <1>3 DEF StopContainer, host, history
<1>4. CASE StartContainer
  BY <1>4 DEF StartContainer, host, history
<1>5. CASE Exit
  BY <1>5 DEF Exit, host, history
<1>6. CASE Restart
  BY <1>6 DEF Restart, host, history
<1>7. CASE Boot
  BY <1>7 DEF Boot, FinishPending, host, history
<1>8. CASE BootReport
  BY <1>8 DEF BootReport, host, history
<1>9. CASE Crash
  BY <1>9 DEF Crash, host, history
<1>10. CASE HostUpdate
  BY <1>10 DEF HostUpdate, host, history
<1>11. CASE \/ UNCHANGED vars \/ RecreateDies \/ (\E c \in Checkers : CheckFetch(c))
           \/ (\E c \in Checkers : CheckRecord(c)) \/ (\E r \in Requests : ReapRead(r))
           \/ (\E r \in Requests : ReapClear(r)) \/ (\E r \in Requests : ReapReport(r))
           \/ Dismiss \/ (\E t \in Updates : Apply(t))
           \/ (\E t \in Updates : ReadState(t)) \/ (\E t \in Updates : ClearResult(t))
           \/ (\E t \in Updates : RemoveUpdater(t)) \/ (\E t \in Updates : Launch(t))
           \/ (\E t \in Updates : Waited(t)) \/ (\E t \in Updates : ReportFailure(t))
           \/ (\E t \in Updates : EndFailed(t)) \/ (\E t \in Updates : EndSucceeded(t))
           \/ (\E t \in Updates : ReportSuccess(t)) \/ Pull \/ Publish \/ Tick
  <2>1. UNCHANGED <<finished, process, restarted>>
    BY <1>11 DEF vars, RecreateDies, host, history, CheckFetch, CheckRecord, ReapRead, ReapClear,
              ReapReport, Dismiss, Apply, ReadState, ClearResult, RemoveUpdater, Launch,
              Waited, ReportFailure, EndFailed, EndSucceeded, ReportSuccess, Pull,
              Publish, Tick
  <2>2. QED BY <2>1
<1>12. QED
  BY <1>1, <1>2, <1>3, <1>4, <1>5, <1>6, <1>7, <1>8, <1>9, <1>10, <1>11 DEF
     Next, UpdateStep, UpdaterStep, ProcessStep

\* A failure is recorded before its flag is cleared.
LEMMA FailureKeeps ==
    ASSUME IInv, [Next]_vars
    PROVE  FailureIsSaid'
<1> USE DEF IInv, TypeOK, HostTypeOK, ThreadTypeOK, FailureIsSaid
<1>1. ASSUME NEW r \in Requests, ReapReport(r) PROVE FailureIsSaid'
  BY <1>1 DEF ReapReport, threads, history
<1>2. ASSUME NEW t \in Updates, Apply(t) PROVE FailureIsSaid'
  BY <1>2 DEF Apply, Move, threads, history
<1>3. ASSUME NEW t \in Updates, ReadState(t) PROVE FailureIsSaid'
  BY <1>3 DEF ReadState, Move, threads, history
<1>4. ASSUME NEW t \in Updates, Mark(t) PROVE FailureIsSaid'
  BY <1>4 DEF Mark, Move, threads, history
<1>5. ASSUME NEW t \in Updates, ClearResult(t) PROVE FailureIsSaid'
  BY <1>5 DEF ClearResult, Move, threads, history
<1>6. ASSUME NEW t \in Updates, RemoveUpdater(t) PROVE FailureIsSaid'
  BY <1>6 DEF RemoveUpdater, Move, threads, history
<1>7. ASSUME NEW t \in Updates, Launch(t) PROVE FailureIsSaid'
  BY <1>7 DEF Launch, Move, threads, history
<1>8. ASSUME NEW t \in Updates, Waited(t) PROVE FailureIsSaid'
  BY <1>8 DEF Waited, Move, threads, history
<1>9. ASSUME NEW t \in Updates, ReportFailure(t) PROVE FailureIsSaid'
  BY <1>9 DEF ReportFailure, Move, threads, history
<1>10. ASSUME NEW t \in Updates, EndFailed(t) PROVE FailureIsSaid'
  BY <1>10 DEF EndFailed, Move, threads, history
<1>11. ASSUME NEW t \in Updates, EndSucceeded(t) PROVE FailureIsSaid'
  BY <1>11 DEF EndSucceeded, Move, threads, history
<1>12. ASSUME NEW t \in Updates, ReportSuccess(t) PROVE FailureIsSaid'
  BY <1>12 DEF ReportSuccess, Move, threads, history
<1>13. CASE Exit
  BY <1>13 DEF Exit, Gone, threads, history
<1>14. CASE BootReport
  BY <1>14 DEF BootReport, threads, history
<1>15. CASE Crash
  BY <1>15 DEF Crash, Gone, threads, history
<1>16. CASE HostUpdate
  BY <1>16 DEF HostUpdate, Gone, threads, history
<1>17. CASE \/ UNCHANGED vars \/ RecreateDies \/ (\E c \in Checkers : CheckFetch(c))
           \/ (\E c \in Checkers : CheckRecord(c)) \/ (\E r \in Requests : ReapRead(r))
           \/ (\E r \in Requests : ReapClear(r)) \/ Dismiss \/ Pull \/ UpToDate
           \/ StopContainer \/ StartContainer \/ Restart \/ Boot \/ Publish \/ Tick
  <2>1. UNCHANGED <<overlapped, owed, upc>>
    BY <1>17 DEF vars, RecreateDies, threads, history, CheckFetch, CheckRecord, ReapRead, ReapClear,
              Dismiss, Pull, UpToDate, StopContainer, StartContainer, Restart, Boot,
              Publish, Tick
  <2>2. QED BY <2>1
<1>18. QED
  BY <1>1, <1>2, <1>3, <1>4, <1>5, <1>6, <1>7, <1>8, <1>9, <1>10, <1>11, <1>12,
     <1>13, <1>14, <1>15, <1>16, <1>17 DEF Next, UpdateStep, UpdaterStep, ProcessStep

\* A flag is cleared on the way to an outcome.
LEMMA OutcomeKeeps ==
    ASSUME IInv, [Next]_vars
    PROVE  OutcomeToCome'
<1> USE DEF IInv, TypeOK, HostTypeOK, ThreadTypeOK, OutcomeToCome, FailureIsSaid, ClientTypeOK, Clients
<1>1. ASSUME NEW c \in Checkers, CheckFetch(c) PROVE OutcomeToCome'
  BY <1>1 DEF CheckFetch, Go, row, host, threads, clients, history
<1>2. ASSUME NEW c \in Checkers, CheckRecord(c) PROVE OutcomeToCome'
  BY <1>2 DEF CheckRecord, Go, row, host, threads, clients, history
<1>3. ASSUME NEW r \in Requests, ReapRead(r) PROVE OutcomeToCome'
  BY <1>3 DEF ReapRead, Go, row, host, threads, clients, history
<1>4. ASSUME NEW r \in Requests, ReapClear(r) PROVE OutcomeToCome'
  BY <1>4 DEF ReapClear, Go, row, host, threads, clients, history
<1>5. ASSUME NEW r \in Requests, ReapReport(r) PROVE OutcomeToCome'
  BY <1>5 DEF ReapReport, Go, row, host, threads, clients, history
<1>6. ASSUME NEW t \in Updates, Apply(t) PROVE OutcomeToCome'
  BY <1>6 DEF Apply, Move, row, host, threads, clients, history
<1>7. ASSUME NEW t \in Updates, ReadState(t) PROVE OutcomeToCome'
  BY <1>7 DEF ReadState, Move, row, host, threads, clients, history
<1>8. ASSUME NEW t \in Updates, Mark(t) PROVE OutcomeToCome'
  BY <1>8 DEF Mark, Move, row, host, threads, clients, history
<1>9. ASSUME NEW t \in Updates, ClearResult(t) PROVE OutcomeToCome'
  BY <1>9 DEF ClearResult, Move, row, host, threads, clients, history
<1>10. ASSUME NEW t \in Updates, RemoveUpdater(t) PROVE OutcomeToCome'
  BY <1>10 DEF RemoveUpdater, Move, row, host, threads, clients, history
<1>11. ASSUME NEW t \in Updates, Launch(t) PROVE OutcomeToCome'
  BY <1>11 DEF Launch, Move, row, host, threads, clients, history
<1>12. ASSUME NEW t \in Updates, Waited(t) PROVE OutcomeToCome'
  BY <1>12 DEF Waited, Move, row, host, threads, clients, history
<1>13. ASSUME NEW t \in Updates, ReportFailure(t) PROVE OutcomeToCome'
  BY <1>13 DEF ReportFailure, Move, row, host, threads, clients, history
<1>14. ASSUME NEW t \in Updates, EndFailed(t) PROVE OutcomeToCome'
  BY <1>14 DEF EndFailed, Move, row, host, threads, clients, history
<1>15. ASSUME NEW t \in Updates, EndSucceeded(t) PROVE OutcomeToCome'
  BY <1>15 DEF EndSucceeded, Move, row, host, threads, clients, history
<1>16. ASSUME NEW t \in Updates, ReportSuccess(t) PROVE OutcomeToCome'
  BY <1>16 DEF ReportSuccess, Move, row, host, threads, clients, history
<1>17. CASE StopContainer
  BY <1>17 DEF StopContainer, row, host, threads, clients, history
<1>18. CASE StartContainer
  BY <1>18 DEF StartContainer, row, host, threads, clients, history
<1>19. CASE Exit
  BY <1>19 DEF Exit, Gone, row, host, threads, clients, history
<1>20. CASE Restart
  BY <1>20 DEF Restart, row, host, threads, clients, history
<1>21. CASE Boot
  BY <1>21 DEF Boot, FinishPending, row, host, threads, clients, history
<1>22. CASE BootReport
  BY <1>22 DEF BootReport, row, host, threads, clients, history
<1>23. CASE Crash
  BY <1>23 DEF Crash, Gone, row, host, threads, clients, history
<1>24. CASE HostUpdate
  BY <1>24 DEF HostUpdate, Gone, row, host, threads, clients, history
<1>25. CASE \/ UNCHANGED vars \/ RecreateDies \/ Dismiss \/ Pull \/ UpToDate \/ Publish \/ Tick
  <2>1. UNCHANGED <<cpc, inProgress, overlapped, owed, process, torn, upc>>
    BY <1>25 DEF vars, RecreateDies, row, host, threads, clients, history, Dismiss, Pull, UpToDate,
              Publish, Tick
  <2>2. QED BY <2>1
<1>26. QED
  BY <1>1, <1>2, <1>3, <1>4, <1>5, <1>6, <1>7, <1>8, <1>9, <1>10, <1>11, <1>12,
     <1>13, <1>14, <1>15, <1>16, <1>17, <1>18, <1>19, <1>20, <1>21, <1>22, <1>23, <1>24,
     <1>25 DEF Next, UpdateStep, UpdaterStep, ProcessStep

-----------------------------------------------------------------------------

\* The inductive invariant of self-update.
THEOREM Invariance == Spec => []IInv
<1>1. Init => IInv
  <2> SUFFICES ASSUME Init PROVE IInv
    OBVIOUS
  <2>1. RowTypeOK
    BY DEF Init, RowTypeOK
  <2>2. HostTypeOK
    <3>1. 1 \in 1..MaxImages /\ {0, 1} \subseteq 0..MaxImages
      BY SelfUpdateAssumption
    <3>2. image \in {0, 1} /\ published = 1 /\ pulled = image
      BY DEF Init
    <3>3. process = "up" /\ held = FALSE /\ updater = "none"
      BY DEF Init
    <3>4. QED BY <3>1, <3>2, <3>3 DEF HostTypeOK
  <2>3. ThreadTypeOK
    BY DEF Init, ThreadTypeOK, UpdatePcs
  <2>4. ClientTypeOK
    BY DEF Init, ClientTypeOK
  <2>5. HistoryTypeOK
    BY DEF Init, HistoryTypeOK
  <2>6. AloneInUpdate /\ NoneBeforeLaunch /\ NeverStranded
    BY DEF Init, AloneInUpdate, Begun, NoneBeforeLaunch, NeverStranded, Stranded
  <2>7. WorkIsDone /\ StartedBySomebody /\ FailureIsSaid /\ OutcomeToCome
    BY DEF Init, WorkIsDone, StartedBySomebody, FailureIsSaid, OutcomeToCome
  <2>8. QED BY <2>1, <2>2, <2>3, <2>4, <2>5, <2>6, <2>7 DEF IInv, TypeOK
<1>2. IInv /\ [Next]_vars => IInv'
  <2> SUFFICES ASSUME IInv, [Next]_vars PROVE IInv'
    OBVIOUS
  <2>1. TypeOK
    BY DEF IInv
  <2>2. TypeOK'
    BY <2>1, RowTypes, HostTypes, ThreadTypes, ClientTypes, HistoryTypes DEF TypeOK
  <2>3. AloneInUpdate' /\ NoneBeforeLaunch' /\ NeverStranded'
    BY AloneKeeps, NoneBeforeKeeps, StrandedKeeps
  <2>4. WorkIsDone' /\ StartedBySomebody' /\ FailureIsSaid' /\ OutcomeToCome'
    BY WorkKeeps, StartsKeep, FailureKeeps, OutcomeKeeps
  <2>5. QED BY <2>2, <2>3, <2>4 DEF IInv
<1>3. QED BY <1>1, <1>2, PTL DEF Spec

\* The types of self-update.
THEOREM SelfUpdateTypeCorrect == Spec => []TypeOK
<1>1. IInv => TypeOK BY DEF IInv
<1>2. QED BY <1>1, Invariance, PTL

\* For any number of requests, update threads, images and mishaps: an update that is over
\* has left an outcome, with the excuses the property names.
THEOREM OutcomesReported == Spec => []OutcomeReported
<1>1. IInv => OutcomeReported
  <2> SUFFICES ASSUME IInv, process = "up", \A t \in Updates : upc[t] = "off",
                      \A r \in Requests : cpc[r] # "reapReport", ~inProgress, owed
               PROVE  overlapped \/ torn
    BY DEF OutcomeReported
  <2>1. OutcomeToCome
    BY DEF IInv
  <2>2. QED BY <2>1 DEF OutcomeToCome
<1>2. QED BY <1>1, Invariance, PTL

\* A deployment is left without a container only by an update that removes another's
\* updater, or by an updater that ends, between its stop and its start: whatever the
\* threads, requests, crashes and restarts, and in whatever order.
THEOREM StrandsOnlyBetween == Spec => []NeverStranded
<1>1. IInv => NeverStranded BY DEF IInv
<1>2. QED BY <1>1, Invariance, PTL

\* A success is recorded after an updater's work, a restart of the process's own, or an
\* overlap.
THEOREM SuccessesAreEarned == Spec => SuccessIsEarned
<1> DEFINE A == result # "success" /\ result' = "success"
                    => finished \/ restarted \/ overlapped
<1>1. IInv /\ [Next]_vars => [A]_vars
  <2> SUFFICES ASSUME IInv, [Next]_vars, result # "success", result' = "success"
               PROVE  finished \/ restarted \/ overlapped
    OBVIOUS
  <2>1. ASSUME NEW t \in Updates, ReportSuccess(t)
        PROVE  finished \/ overlapped
    BY <2>1 DEF ReportSuccess, IInv, WorkIsDone
  <2>2. CASE BootReport
    BY <2>2 DEF BootReport, IInv, StartedBySomebody
  <2>3. ASSUME NEW r \in Requests, ReapRead(r) \/ ReapClear(r) \/ ReapReport(r)
        PROVE  FALSE
    BY <2>3 DEF ReapRead, ReapClear, ReapReport, row
  <2>4. ASSUME NEW c \in Checkers, CheckFetch(c) \/ CheckRecord(c)
        PROVE  FALSE
    BY <2>4 DEF CheckFetch, CheckRecord, row
  <2>5. ASSUME NEW t \in Updates,
               \/ Apply(t) \/ ReadState(t) \/ Mark(t) \/ ClearResult(t) \/ RemoveUpdater(t)
               \/ Launch(t) \/ Waited(t) \/ ReportFailure(t) \/ EndFailed(t) \/ EndSucceeded(t)
        PROVE  FALSE
    BY <2>5 DEF Apply, ReadState, Mark, ClearResult, RemoveUpdater, Launch, Waited,
                ReportFailure, EndFailed, EndSucceeded, row
  <2>6. CASE UpdaterStep \/ Exit \/ Restart \/ Boot
    BY <2>6 DEF UpdaterStep, Pull, UpToDate, StopContainer, StartContainer, Exit, Restart,
                Boot, row
  <2>7. CASE Dismiss \/ RecreateDies \/ Crash \/ HostUpdate \/ Publish \/ Tick \/ UNCHANGED vars
    BY <2>7 DEF Dismiss, RecreateDies, Crash, HostUpdate, Publish, Tick, row, vars
  <2>8. QED
    BY <2>1, <2>2, <2>3, <2>4, <2>5, <2>6, <2>7 DEF Next, UpdateStep, ProcessStep
<1>2. QED BY <1>1, Invariance, PTL DEF Spec, SuccessIsEarned

=============================================================================
