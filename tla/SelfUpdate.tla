----------------------------- MODULE SelfUpdate -----------------------------
(***************************************************************************)
(* Self-update (app/update.py, app/routes/update.py): one row of state,    *)
(* and the four kinds of thread that write it, namely request handlers,    *)
(* the daily checker, the threads that apply an update, and the startup of *)
(* the next process.                                                       *)
(*                                                                         *)
(* An update is done by a throwaway container (the updater), which pulls   *)
(* the image and has compose recreate this container when its image has    *)
(* changed.  The updater and docker are external: they are modelled from   *)
(* the command line that run_update gives them.                            *)
(*                                                                         *)
(* A step is one committed statement or one docker command.  Images are    *)
(* numbered in the order they are published; a locally built one is 0.     *)
(***************************************************************************)
EXTENDS Naturals, FiniteSets

CONSTANTS
    Requests,     \* request-handler threads
    Checkers,     \* the threads that look for an update: the daily one, or "Check now"
    Updates,      \* the threads that may be started to apply an update
    None,
    MaxImages,    \* bound: how many images are ever published
    MaxMishaps    \* bound: failing commands, crashes and updates by hand, together

ASSUME SelfUpdateAssumption ==
    /\ MaxImages \in Nat \ {0}
    /\ MaxMishaps \in Nat
    /\ None \notin Nat

VARIABLES
    latest,      \* update_state.latest_digest
    available,   \* update_state.available
    inProgress,  \* update_state.in_progress
    aged,        \* started_at is _RECREATE_TIMEOUT old
    result,      \* update_state.last_result: "", "success" or "failed"
    published,   \* the image the registry's tag names
    pulled,      \* the image the host's tag names
    image,       \* the image this container was created from
    process,     \* "up", "stopping", "down", "booting", or "finishing" (between the
                 \* two statements of finish_pending_update)
    held,        \* docker was told to stop this container: no restart policy applies
    updater,     \* "none", or what the updater container is at
    upc,         \* where each update thread is in run_update
    ulatest,     \* state.latest_digest as that thread read it
    unchanged,   \* its web_unchanged
    overdue,     \* its docker wait has lasted for _RECREATE_TIMEOUT
    cpc,         \* where each request, or the checker, is
    cdigest,     \* the digest it fetched
    mishaps,
    owed,        \* history: an update was begun and no outcome recorded since
    finished,    \* history: since it was begun, an updater finished its work
    restarted,   \* history: since it was begun, the process restarted in its container
    overlapped,  \* history: an update was begun while another was under way
    cutShort,    \* history: an updater ended between its stop and its start
    torn         \* history: a process ended between two statements that go together

row == <<latest, available, inProgress, aged, result>>
host == <<published, pulled, image, process, held, updater>>
threads == <<upc, ulatest, unchanged, overdue>>
clients == <<cpc, cdigest>>
history == <<owed, finished, restarted, overlapped, cutShort, torn>>
vars == <<row, host, threads, clients, mishaps, history>>

-----------------------------------------------------------------------------

Clients == Requests \cup Checkers

\* Threads of this process go on running while it is being stopped.
Running == process \in {"up", "stopping"}

UpdaterBusy == updater \in {"pull", "recreate", "swap"}

\* _deployed_digests: a locally built image has none.
Deployed == IF image = 0 THEN {} ELSE {image}

\* Faulty variant: only an update that has failed already is reaped.
StalledSilent == inProgress /\ aged /\ result = "failed"

\* reap_stalled_update's test.
Stalled == inProgress /\ aged

\* Faulty variant: the flag is only ever raised.
IsNewsAnyway(digest) == available \/ digest \notin Deployed

\* available = digest not in deployed
IsNews(digest) == digest \notin Deployed

UpdatePcs == {"off", "read", "mark", "clearResult", "remove", "launch", "wait",
              "reportFailure", "endFailed", "endSucceeded", "reportSuccess"}

Init ==
    /\ published = 1
    /\ image \in {0, 1}
    /\ pulled = image
    /\ latest = None
    /\ available = FALSE
    /\ inProgress = FALSE
    /\ aged = FALSE
    /\ result = ""
    /\ process = "up"
    /\ held = FALSE
    /\ updater = "none"
    /\ upc = [t \in Updates |-> "off"]
    /\ ulatest = [t \in Updates |-> None]
    /\ unchanged = [t \in Updates |-> FALSE]
    /\ overdue = [t \in Updates |-> FALSE]
    /\ cpc = [c \in Clients |-> "idle"]
    /\ cdigest = [c \in Clients |-> None]
    /\ mishaps = 0
    /\ owed = FALSE
    /\ finished = FALSE
    /\ restarted = FALSE
    /\ overlapped = FALSE
    /\ cutShort = FALSE
    /\ torn = FALSE

\* One more of what can go wrong.
Mishap == mishaps < MaxMishaps /\ mishaps' = mishaps + 1

Move(t, pc) == upc' = [upc EXCEPT ![t] = pc]
Go(c, pc) == cpc' = [cpc EXCEPT ![c] = pc]

-----------------------------------------------------------------------------
(* Requests and the daily checker *)

\* "Check now" reaps a stalled update before it asks; the daily checker does not.
MayAsk(c) == c \in Requests => ~Stalled

\* check_for_updates asks the registry; when it does not answer, nothing is recorded.
CheckFetch(c) ==
    /\ process = "up"
    /\ cpc[c] = "idle"
    /\ MayAsk(c)
    /\ Go(c, "record")
    /\ cdigest' = [cdigest EXCEPT ![c] = published]
    /\ UNCHANGED <<row, host, threads, mishaps, history>>

\* ... and records what it heard against the image that is running.  A local build, or
\* docker not answering, leaves the old verdict.
CheckRecord(c) ==
    /\ Running
    /\ cpc[c] = "record"
    /\ latest' = cdigest[c]
    /\ \/ Deployed # {} /\ available' = IsNews(cdigest[c]) /\ UNCHANGED mishaps
       \/ Deployed = {} /\ UNCHANGED <<available, mishaps>>
       \/ Deployed # {} /\ Mishap /\ UNCHANGED available
    /\ Go(c, "idle")
    /\ cdigest' = [cdigest EXCEPT ![c] = None]
    /\ UNCHANGED <<inProgress, aged, result, host, threads, history>>

\* The Update page and "Check now" reap first.
ReapRead(r) ==
    /\ process = "up"
    /\ cpc[r] = "idle"
    /\ Stalled
    /\ Go(r, "reap")
    /\ UNCHANGED <<row, host, threads, cdigest, mishaps, history>>

\* Faulty variant: the updater that took too long is removed as well.
ReapClearKilling(r) ==
    /\ Running
    /\ cpc[r] = "reap"
    /\ inProgress' = FALSE
    /\ updater' = "none"
    /\ Go(r, "reapReport")
    /\ UNCHANGED <<latest, available, aged, result, published, pulled, image, process, held,
                   threads, cdigest, mishaps, history>>

ReapClear(r) ==
    /\ Running
    /\ cpc[r] = "reap"
    /\ inProgress' = FALSE
    /\ Go(r, "reapReport")
    /\ UNCHANGED <<latest, available, aged, result, host, threads, cdigest, mishaps, history>>

\* Faulty variant: the flag alone.
ReapSilently(r) ==
    /\ Running
    /\ cpc[r] = "reapReport"
    /\ Go(r, "idle")
    /\ UNCHANGED <<row, host, threads, cdigest, mishaps, history>>

ReapReport(r) ==
    /\ Running
    /\ cpc[r] = "reapReport"
    /\ result' = "failed"
    /\ owed' = FALSE
    /\ Go(r, "idle")
    /\ UNCHANGED <<latest, available, inProgress, aged, host, threads, cdigest, mishaps,
                   finished, restarted, overlapped,
                   cutShort, torn>>

\* dismiss_result.
Dismiss ==
    /\ process = "up"
    /\ result # ""
    /\ result' = ""
    /\ UNCHANGED <<latest, available, inProgress, aged, host, threads, clients, mishaps,
                   history>>

\* apply_update, or apply_anyway on a local build.
MayApply == ~inProgress /\ (available \/ image = 0)

\* The request tests the row, and starts a thread that will mark it.
Apply(t) ==
    /\ process = "up"
    /\ upc[t] = "off"
    /\ MayApply
    /\ Move(t, "read")
    /\ UNCHANGED <<row, host, ulatest, unchanged, overdue, clients, mishaps, history>>

-----------------------------------------------------------------------------
(* run_update *)

ReadState(t) ==
    /\ Running
    /\ upc[t] = "read"
    /\ ulatest' = [ulatest EXCEPT ![t] = latest]
    /\ Move(t, "mark")
    /\ UNCHANGED <<row, host, unchanged, overdue, clients, mishaps, history>>

\* _set(conn, in_progress=1, started_at=time.time())
Mark(t) ==
    /\ Running
    /\ upc[t] = "mark"
    /\ inProgress' = TRUE
    /\ aged' = FALSE
    /\ Move(t, "clearResult")
    /\ owed' = TRUE
    /\ finished' = FALSE
    /\ restarted' = FALSE
    /\ overlapped' = (\/ overlapped \/ UpdaterBusy
                      \/ \E u \in Updates \ {t} : upc[u] # "off")
    /\ UNCHANGED <<latest, available, result, host, ulatest, unchanged, overdue, clients,
                   mishaps, cutShort, torn>>

\* _set_result(conn, ""), and the end of it when there is no project directory.
ClearResult(t) ==
    /\ Running
    /\ upc[t] = "clearResult"
    /\ result' = ""
    /\ \/ Move(t, "remove") /\ UNCHANGED <<ulatest, mishaps>>
       \/ Move(t, "reportFailure") /\ Mishap /\ ulatest' = [ulatest EXCEPT ![t] = None]
    /\ UNCHANGED <<latest, available, inProgress, aged, host, unchanged, overdue,
                   clients, history>>

\* web_unchanged is decided, and docker rm -f removes whatever updater there is.
RemoveUpdater(t) ==
    /\ Running
    /\ upc[t] = "remove"
    /\ unchanged' = [unchanged EXCEPT ![t] = ulatest[t] \in Deployed]
    /\ ulatest' = [ulatest EXCEPT ![t] = None]
    /\ updater' = "none"
    /\ Move(t, "launch")
    /\ UNCHANGED <<row, published, pulled, image, process, held, overdue, clients,
                   mishaps, history>>

\* docker run --detach --name ...: refused when the name is taken.  A survivor waits for
\* the updater; otherwise the rest is left to the replacement's startup.
Launch(t) ==
    /\ Running
    /\ upc[t] = "launch"
    /\ IF updater = "none"
       THEN \/ /\ updater' = "pull"
               /\ Move(t, IF unchanged[t] THEN "wait" ELSE "off")
               /\ UNCHANGED mishaps
            \/ /\ Mishap
               /\ updater' \in {"none", "pull"}
               /\ Move(t, "reportFailure")
       ELSE /\ Move(t, "reportFailure")
            /\ UNCHANGED <<updater, mishaps>>
    /\ unchanged' = [unchanged EXCEPT ![t] = FALSE]
    /\ UNCHANGED <<row, published, pulled, image, process, held, ulatest, overdue,
                   clients, history>>

\* Faulty variant: the updater's exit code is not looked at.
WaitedForAny(t) ==
    /\ Running
    /\ upc[t] = "wait"
    /\ updater \in {"ok", "failed", "none"}
    /\ updater' = "none"
    /\ Move(t, "endSucceeded")
    /\ overdue' = [overdue EXCEPT ![t] = FALSE]
    /\ UNCHANGED <<row, published, pulled, image, process, held, ulatest, unchanged,
                   clients, mishaps, history>>

\* docker wait returns: the updater is done, or is gone, or it has taken too long.
Waited(t) ==
    /\ Running
    /\ upc[t] = "wait"
    /\ \/ /\ updater = "ok"
          /\ updater' = "none"
          /\ Move(t, "endSucceeded")
       \/ /\ updater \in {"failed", "none"} \/ overdue[t]
          /\ Move(t, "reportFailure")
          /\ UNCHANGED updater
    /\ overdue' = [overdue EXCEPT ![t] = FALSE]
    /\ UNCHANGED <<row, published, pulled, image, process, held, ulatest, unchanged,
                   clients, mishaps, history>>

ReportFailure(t) ==
    /\ Running
    /\ upc[t] = "reportFailure"
    /\ result' = "failed"
    /\ owed' = FALSE
    /\ Move(t, "endFailed")
    /\ UNCHANGED <<latest, available, inProgress, aged, host, ulatest, unchanged, overdue,
                   clients, mishaps, finished, restarted, overlapped,
                   cutShort, torn>>

EndFailed(t) ==
    /\ Running
    /\ upc[t] = "endFailed"
    /\ inProgress' = FALSE
    /\ Move(t, "off")
    /\ UNCHANGED <<latest, available, aged, result, host, ulatest, unchanged, overdue,
                   clients, mishaps, history>>

EndSucceeded(t) ==
    /\ Running
    /\ upc[t] = "endSucceeded"
    /\ available' = FALSE
    /\ inProgress' = FALSE
    /\ Move(t, "reportSuccess")
    /\ UNCHANGED <<latest, aged, result, host, ulatest, unchanged, overdue, clients,
                   mishaps, history>>

ReportSuccess(t) ==
    /\ Running
    /\ upc[t] = "reportSuccess"
    /\ result' = "success"
    /\ owed' = FALSE
    /\ Move(t, "off")
    /\ UNCHANGED <<latest, available, inProgress, aged, host, ulatest, unchanged, overdue,
                   clients, mishaps, finished, restarted, overlapped,
                   cutShort, torn>>

UpdateStep(t) ==
    \/ ReadState(t) \/ Mark(t) \/ ClearResult(t) \/ RemoveUpdater(t) \/ Launch(t)
    \/ Waited(t) \/ ReportFailure(t) \/ EndFailed(t) \/ EndSucceeded(t) \/ ReportSuccess(t)

-----------------------------------------------------------------------------
(* The updater: docker compose pull && docker compose up -d *)

Pull ==
    /\ updater = "pull"
    /\ \/ updater' = "recreate" /\ pulled' = published /\ UNCHANGED mishaps
       \/ updater' = "failed" /\ Mishap /\ UNCHANGED pulled
    /\ UNCHANGED <<row, published, image, process, held, threads, clients, history>>

\* up -d leaves a container that runs the pulled image alone ...
UpToDate ==
    /\ updater = "recreate"
    /\ pulled = image
    /\ updater' = "ok"
    /\ finished' = TRUE
    /\ UNCHANGED <<row, published, pulled, image, process, held, threads, clients, mishaps,
                   owed, restarted, overlapped, cutShort, torn>>

\* ... and stops any other, which takes as long as the process takes to end.
StopContainer ==
    /\ updater = "recreate"
    /\ pulled # image
    /\ updater' = "swap"
    /\ held' = TRUE
    /\ process' = IF process = "down" THEN "down" ELSE "stopping"
    /\ torn' = (torn \/ process = "finishing")
    /\ UNCHANGED <<row, published, pulled, image, threads, clients, mishaps,
                   owed, finished, restarted, overlapped, cutShort>>

\* A service that up -d brings up after this container may still fail.
StartContainer ==
    /\ updater = "swap"
    /\ process = "down"
    /\ \/ updater' = "ok" /\ UNCHANGED mishaps
       \/ updater' = "failed" /\ Mishap
    /\ image' = pulled
    /\ held' = FALSE
    /\ process' = "booting"
    /\ finished' = TRUE
    /\ cutShort' = FALSE
    /\ UNCHANGED <<row, published, pulled, threads, clients, owed, restarted, overlapped,
                   torn>>

\* "If the recreation dies": up -d fails, or its container ends, before it has stopped
\* this one or after.  What docker was told to stop goes on stopping.
RecreateDies ==
    /\ updater \in {"recreate", "swap"}
    /\ Mishap
    /\ updater' = "failed"
    /\ cutShort' = (cutShort \/ updater = "swap")
    /\ UNCHANGED <<row, published, pulled, image, process, held, threads, clients, owed,
                   finished, restarted, overlapped, torn>>

UpdaterStep == Pull \/ UpToDate \/ StopContainer \/ StartContainer

-----------------------------------------------------------------------------
(* The process and its surroundings *)

\* Threads end with their process; what was between two statements stays so.
Gone ==
    /\ upc' = [t \in Updates |-> "off"]
    /\ ulatest' = [t \in Updates |-> None]
    /\ unchanged' = [t \in Updates |-> FALSE]
    /\ overdue' = [t \in Updates |-> FALSE]
    /\ cpc' = [c \in Clients |-> "idle"]
    /\ cdigest' = [c \in Clients |-> None]
    /\ torn' = (\/ torn
                \/ process = "finishing"
                \/ \E r \in Requests : cpc[r] = "reapReport"
                \/ \E t \in Updates : upc[t] = "reportSuccess")

Exit ==
    /\ process = "stopping"
    /\ Gone
    /\ process' = "down"
    /\ UNCHANGED <<row, published, pulled, image, held, updater, mishaps,
                   owed, finished, restarted, overlapped, cutShort>>

Crash ==
    /\ process \in {"up", "booting", "finishing"}
    /\ Mishap
    /\ Gone
    /\ process' = "down"
    /\ UNCHANGED <<row, published, pulled, image, held, updater,
                   owed, finished, restarted, overlapped, cutShort>>

\* restart: unless-stopped
Restart ==
    /\ process = "down"
    /\ ~held
    /\ process' = "booting"
    /\ restarted' = TRUE
    /\ UNCHANGED <<row, published, pulled, image, held, updater, threads, clients, mishaps,
                   owed, finished, overlapped, cutShort, torn>>

\* docker compose pull && docker compose up -d, by hand on the host.
HostUpdate ==
    /\ process = "up"
    /\ ~UpdaterBusy
    /\ image # published
    /\ Mishap
    /\ Gone
    /\ pulled' = published
    /\ image' = published
    /\ process' = "booting"
    /\ finished' = TRUE
    /\ UNCHANGED <<row, published, held, updater, owed, restarted, overlapped, cutShort>>

\* finish_pending_update: read the flag, and clear it ...
FinishPending ==
    /\ process = "booting"
    /\ process' = IF inProgress THEN "finishing" ELSE "up"
    /\ available' = (available /\ ~inProgress)
    /\ inProgress' = FALSE

Boot ==
    /\ FinishPending
    /\ UNCHANGED <<latest, aged, result, published, pulled, image, held, updater, threads,
                   clients, mishaps, history>>

\* ... then record the success.
BootReport ==
    /\ process = "finishing"
    /\ process' = "up"
    /\ result' = "success"
    /\ owed' = FALSE
    /\ UNCHANGED <<latest, available, inProgress, aged, published, pulled, image, held,
                   updater, threads, clients, mishaps, finished, restarted, overlapped,
                   cutShort, torn>>

Publish ==
    /\ published < MaxImages
    /\ published' = published + 1
    /\ UNCHANGED <<row, pulled, image, process, held, updater, threads, clients, mishaps,
                   history>>

\* _RECREATE_TIMEOUT passes.  It is longer than everything a thread does before it
\* waits or ends: its docker commands time out after 150 seconds together.
Tick ==
    /\ \A t \in Updates : upc[t] \in {"off", "wait"}
    /\ aged' = (aged \/ inProgress)
    /\ overdue' = [t \in Updates |-> upc[t] = "wait"]
    /\ <<aged, overdue>>' # <<aged, overdue>>
    /\ UNCHANGED <<latest, available, inProgress, result, host, upc, ulatest, unchanged,
                   clients, mishaps, history>>

ProcessStep == Exit \/ Restart \/ Boot \/ BootReport

Next ==
    \/ \E c \in Checkers : CheckFetch(c) \/ CheckRecord(c)
    \/ \E r \in Requests : ReapRead(r) \/ ReapClear(r) \/ ReapReport(r)
    \/ Dismiss
    \/ \E t \in Updates : Apply(t) \/ UpdateStep(t)
    \/ UpdaterStep \/ ProcessStep
    \/ RecreateDies \/ Crash \/ HostUpdate \/ Publish \/ Tick

Spec == Init /\ [][Next]_vars

\* start_background_checker's loop: whatever a check runs into, it checks again.
Daily(c) == WF_vars(CheckFetch(c)) /\ WF_vars(CheckRecord(c))

\* Threads, the updater and time go on, and the page keeps refreshing itself while an
\* update is in progress (app/templates/update.html).  Nobody has to apply anything.
Fairness ==
    /\ \A t \in Updates : WF_vars(UpdateStep(t))
    /\ \A r \in Requests : WF_vars(ReapRead(r)) /\ WF_vars(ReapClear(r) \/ ReapReport(r))
    /\ \A c \in Checkers : Daily(c)
    /\ WF_vars(UpdaterStep)
    /\ WF_vars(ProcessStep)
    /\ WF_vars(Tick)

FairSpec == Spec /\ Fairness

-----------------------------------------------------------------------------
(* Properties *)

RowTypeOK ==
    /\ latest \in 1..MaxImages \cup {None}
    /\ available \in BOOLEAN /\ inProgress \in BOOLEAN /\ aged \in BOOLEAN
    /\ result \in {"", "success", "failed"}

HostTypeOK ==
    /\ published \in 1..MaxImages
    /\ pulled \in 0..MaxImages
    /\ image \in 0..MaxImages
    /\ process \in {"up", "stopping", "down", "booting", "finishing"}
    /\ held \in BOOLEAN
    /\ updater \in {"none", "pull", "recreate", "swap", "ok", "failed"}

ThreadTypeOK ==
    /\ upc \in [Updates -> UpdatePcs]
    /\ ulatest \in [Updates -> 1..MaxImages \cup {None}]
    /\ unchanged \in [Updates -> BOOLEAN]
    /\ overdue \in [Updates -> BOOLEAN]

ClientTypeOK ==
    /\ cpc \in [Clients -> {"idle", "record", "reap", "reapReport"}]
    /\ cdigest \in [Clients -> 1..MaxImages \cup {None}]

HistoryTypeOK ==
    /\ mishaps \in Nat
    /\ owed \in BOOLEAN /\ finished \in BOOLEAN /\ restarted \in BOOLEAN
    /\ overlapped \in BOOLEAN /\ cutShort \in BOOLEAN /\ torn \in BOOLEAN

\* Every variable keeps its type.
TypeOK == RowTypeOK /\ HostTypeOK /\ ThreadTypeOK /\ ClientTypeOK /\ HistoryTypeOK

\* An update that is over has left an outcome to show, whoever ended it: its own thread,
\* a request that reaped it, or the startup of the next process.  The excuses are a
\* second update started beside it, and a process that ended between the statement that
\* clears the flag and the one that records the outcome (app/update.py:324, 343, 437).
OutcomeReported ==
    /\ process = "up"
    /\ \A t \in Updates : upc[t] = "off"
    /\ \A r \in Requests : cpc[r] # "reapReport"
    /\ ~inProgress
    => ~owed \/ overlapped \/ torn

\* A success is recorded only after an updater has done its work (this container was
\* recreated, or found current), except by a process that restarted on its own in the
\* meantime (app/update.py:313-321) and by updates that overlap.
SuccessIsEarned ==
    [][result # "success" /\ result' = "success" => finished \/ restarted \/ overlapped]_vars

\* This container was stopped by docker, and there is no updater to start another.
Stranded == held /\ updater # "swap"

\* A deployment is left without a container that runs or is about to in two ways alone: a
\* second update removed the first one's updater between its stop and its start
\* (app/update.py:277-279), or that updater itself ended there, so that, unlike what
\* app/update.py:332-335 says, no process keeps running.  Nothing else that this program
\* does (reaping, reporting, waiting, a crash or a restart at any point) strands it.
NeverStranded == Stranded => overlapped \/ cutShort

\* "the UI would spin on "pulling images" forever" (app/update.py:332-335): an update in
\* progress ends, whatever became of its thread, its updater or its process, as long as
\* there is a container to serve the page.
UpdateEnds == inProgress ~> ~inProgress \/ Stranded

\* An offer of the image that is already running is withdrawn: after an update by hand,
\* after one that was reaped and then went through, after two that overlapped
\* (app/update.py:176-184, 237).
Outdated == available /\ latest = image
OfferIsWithdrawn == Outdated ~> ~Outdated \/ Stranded

=============================================================================
