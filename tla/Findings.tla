------------------------------ MODULE Findings ------------------------------
(***************************************************************************)
(* What Xen Orchestra is asked and what is made of its answers: the client *)
(* (app/xo_client.py), the inventory refresh (app/job_inventory.py), the   *)
(* findings run (app/job_findings.py, app/findings.py), the findings read  *)
(* from a log bundle (app/job_log_findings.py) and the page that sets the  *)
(* two reports side by side (app/routes/findings.py).                      *)
(*                                                                         *)
(* A run reads seven sources one after the other while Xen Orchestra goes  *)
(* on: things happen in the pools, the account loses or gains rights, the  *)
(* server goes away.  A source that cannot be read never fails the run; it *)
(* is recorded as unread.                                                  *)
(*                                                                         *)
(* Time is in steps of BACKUP_STALE_DAYS.  A record is what one message,   *)
(* alarm, task or backup run is to its rule: a name that tells it apart (a *)
(* message's name and object, a task's name and failure, a job's name),    *)
(* whether it failed, when it began and when it ended.                     *)
(***************************************************************************)
EXTENDS Integers, FiniteSets, SequencesExt

CONSTANTS
    Names,       \* what records are grouped by
    Ruled,       \* the names MESSAGE_RULES and MESSAGE_PREFIX_RULES know
    Noise,       \* the names of tasks TASK_NOISE_PATTERNS match
    Family,      \* _finding_family: the condition a name or a total belongs to
    Pools,       \* the pools Xen Orchestra manages
    Totals,      \* the dashboard totals that are worth a finding when not zero
    None,        \* nothing stored, no job, no end of a range, no family
    Window,      \* DEFAULT_WINDOW_DAYS
    Stale,       \* BACKUP_STALE_DAYS
    EchoWindow,  \* CORRELATION_WINDOW_SECONDS
    Times,       \* when things have happened before the first job starts
    Dates,       \* the dates a range may begin or end with
    Now,         \* when that is
    MaxTrouble   \* bound: how much is wrong, and how often something changes

ASSUME FindingsAssumption ==
    /\ Ruled \subseteq Names /\ Noise \subseteq Names /\ DOMAIN Family = Names \cup Pools \cup Totals
    /\ None \notin Names \cup Pools \cup Totals
    /\ IsFiniteSet(Pools) /\ IsFiniteSet(Totals)
    /\ Window \in Nat /\ Stale \in Nat /\ EchoWindow \in Nat /\ Now \in Nat /\ Window <= Now
    /\ Times \subseteq 0 .. Now /\ Dates \subseteq 0 .. Now /\ MaxTrouble \in Nat

VARIABLES
    now,
    log,        \* Xen Orchestra: its messages, alarms, tasks, backup and restore runs
    missing,    \* Xen Orchestra: the pools with missing patches
    refusing,   \* Xen Orchestra: the pools whose patch list it will not report
    totals,     \* Xen Orchestra: the dashboard totals that are not zero
    access,     \* how it answers the stored token
    changes,    \* how often something changed since the first job started
    inventory,  \* the pools of the last successful refresh, or None
    report,     \* the last successful findings run, or None
    job         \* the job the worker runs, or None

xoState == <<now, log, missing, refusing, totals, access, changes>>
results == <<inventory, report>>
vars == <<xoState, results, job>>

\* The order of collect_findings.
Sources == <<"messages", "alarms", "tasks", "patches", "backups", "restores", "dashboard">>
Events == {"messages", "alarms"}
Runs == {"tasks", "backups", "restores"}

Records(times, end) ==
    [source : Events, name : Names, failed : {TRUE}, start : {end}, end : {end}]
        \cup [source : Runs, name : Names, failed : BOOLEAN, start : times, end : {end}]

\* An event begins and ends at once.
Possible(r) == r.start <= r.end /\ (r.source \in Events => r.start = r.end)

Finding == [name : DOMAIN Family, at : Nat \cup {None}, count : Nat]

-----------------------------------------------------------------------------
(* The client: which answers are collections, and which are failures *)

\* _raise_for_collection, _get: 200 and a list.  A revoked token (401), a server that is
\* down, slow, or behind a proxy that answers for it raise XoError.
ReadsAsCollection == access \in {"admin", "restricted"}

\* Routes filtered by ACL answer a restricted account with 200 [].
Visible(all) == IF access = "admin" THEN all ELSE {}

\* is_admin's route, which has no such filter: it refuses everyone else.
ReadsDashboard == access = "admin"

\* missing_patches: 401, 403 and 404 are a refusal; a pool the account cannot see is a 404.
ReadsPatches(p) == access = "admin" /\ p \notin refusing

\* _events: the server-side filter, on the moment a record began.
Fetched(source, cutoff) ==
    {i \in DOMAIN log : access = "admin" /\ log[i].source = source /\ log[i].start > cutoff}

-----------------------------------------------------------------------------
(* The rules: how records become findings *)

Inside(r, range) == r.end >= range.start /\ (range.end # None => r.end <= range.end)

\* A message needs a rule, an alarm does not (_message_rule, report_unknown).
RuledMessage(r) == r.name \in Ruled

\* A failed sign-in is a task too, and noise.
FailedTask(r) == r.failed /\ r.name \notin Noise

FailedRun(r) == r.failed

Reportable(r) ==
    \/ r.source = "messages" /\ RuledMessage(r)
    \/ r.source = "alarms"
    \/ r.source = "tasks" /\ FailedTask(r)
    \/ r.source \in {"backups", "restores"} /\ FailedRun(r)

\* f, with v for x.
With(f, x, v) == [y \in DOMAIN f \cup {x} |-> IF y = x THEN v ELSE f[y]]

\* A grouping that starts counting again when it meets a later occurrence.
CountedFromLatest(groups, r) ==
    With(groups, r.name,
         IF r.name \in DOMAIN groups /\ groups[r.name].at >= r.end
         THEN [at |-> groups[r.name].at, count |-> groups[r.name].count + 1]
         ELSE [at |-> r.end, count |-> 1])

\* One row per name: how often, and when last.  (_classify_events keeps the latest
\* occurrence and counts the others, whatever the order they come in; _from_tasks and
\* _failed_runs count and keep the latest time.)
Counted(groups, r) ==
    With(groups, r.name,
         IF r.name \notin DOMAIN groups THEN [at |-> r.end, count |-> 1]
         ELSE [at |-> IF groups[r.name].at >= r.end THEN groups[r.name].at ELSE r.end,
               count |-> groups[r.name].count + 1])

\* The records come in the order of the log or in its reverse: Xen Orchestra promises none.
Grouped(fetched, range, newestFirst) ==
    LET kept == {i \in fetched : Reportable(log[i]) /\ Inside(log[i], range)}
        place == [n \in DOMAIN log |-> IF newestFirst THEN Len(log) + 1 - n ELSE n]
        groups[n \in 0 .. Len(log)] ==
            IF n = 0 THEN <<>>
            ELSE IF place[n] \in kept THEN Counted(groups[n - 1], log[place[n]])
            ELSE groups[n - 1]
        rows == groups[Len(log)]
    IN {[name |-> n, at |-> rows[n].at, count |-> rows[n].count] : n \in DOMAIN rows}

\* _stale_backups: the jobs whose latest run among those fetched is too long ago.
StaleBackups(fetched, moment) ==
    {[name |-> log[i].name, at |-> log[i].start, count |-> 1] : i \in
        {j \in fetched :
            /\ log[j].start < moment - Stale
            /\ \A k \in fetched : log[k].name = log[j].name => log[k].start <= log[j].start}}

Unread == [read |-> FALSE, findings |-> {}, stale |-> {}, checked |-> {}]

Read(findings, stale, checked) ==
    [read |-> TRUE, findings |-> findings, stale |-> stale, checked |-> checked]

\* A patch check that is unread only if every pool refused.
PatchSourceIfAny(pools) ==
    LET checked == {p \in pools : ReadsPatches(p)}
    IN IF checked = {}
       THEN Unread
       ELSE Read({[name |-> p, at |-> None, count |-> 1] : p \in checked \cap missing}, {}, checked)

\* _from_patches: a refused pool makes the source unread only if no other pool has patches
\* missing.
PatchSource(pools) ==
    LET checked == {p \in pools : ReadsPatches(p)}
        behind == checked \cap missing
    IN IF pools = {} \/ (pools # checked /\ behind = {})
       THEN Unread
       ELSE Read({[name |-> p, at |-> None, count |-> 1] : p \in behind}, {}, checked)

\* _dashboard_patches, _dashboard_backups, _dashboard_storage, _dashboard_hosts: states, to
\* which the window does not apply.
DashboardFindings == {[name |-> t, at |-> None, count |-> 1] : t \in totals}

DashboardSource == IF ReadsDashboard THEN Read(DashboardFindings, {}, {}) ELSE Unread

\* _from_messages, _from_alarms, _from_tasks, _from_backups, _from_restores.
EventSource(source, range, moment, newestFirst) ==
    LET fetched == Fetched(source, range.start)
    IN IF ReadsAsCollection
       THEN Read(Grouped(fetched, range, newestFirst),
                 IF source = "backups" THEN StaleBackups(fetched, moment) ELSE {}, {})
       ELSE Unread

SourceResult(source, newestFirst) ==
    CASE source = "patches" -> PatchSource(job.pools)
      [] source = "dashboard" -> DashboardSource
      [] OTHER -> EventSource(source, job.range, job.moment, newestFirst)

-----------------------------------------------------------------------------
(* The page: findings of the two reports that are about the same incident *)

\* collect_log_findings: one finding for each rule that matched, in no time of its own; two
\* rules may be of one family, because a rule without one is classified by its text.
LogFindings == UNION {[1 .. n -> {Family[x] : x \in DOMAIN Family} \ {None}] : n \in 0 .. 2}

\* Whether the page may set an API finding beside a log finding of a report made at `scanned`.
\* A state has no time of its own and counts as seen when its report was made: the comment
\* at :653-655 says that the window never excludes one.
Echo(finding, family, created, scanned) ==
    LET at == IF finding.at = None THEN created ELSE finding.at
    IN /\ Family[finding.name] = family
       /\ at - scanned <= EchoWindow /\ scanned - at <= EchoWindow

\* A page that forgets which log findings it has used.
UnmatchedForgotten(confirmed, logs) == DOMAIN logs

\* The log findings an API finding may still be set beside.
Unmatched(confirmed, logs) ==
    DOMAIN logs \ {confirmed[i] : i \in DOMAIN confirmed}

\* correlate_reports: each API finding, worst first, takes the first log finding that echoes
\* it and is not taken; confirmed_by is set on both.
Correlate(api, logs, created, scanned) ==
    LET confirmed[n \in 0 .. Len(api)] ==
            IF n = 0 THEN <<>>
            ELSE LET before == confirmed[n - 1]
                     free == {j \in Unmatched(before, logs) :
                                Echo(api[n], logs[j], created, scanned)}
                 IN IF free = {} THEN before
                    ELSE With(before, n, CHOOSE j \in free : \A k \in free : j <= k)
    IN confirmed[Len(api)]

-----------------------------------------------------------------------------
(* The jobs *)

\* The worker's three kinds of job here, and what each holds between its steps.
Accesses == {"admin", "restricted", "refused", "down"}
\* history: how Xen Orchestra answered when it was asked for pools, and for hosts.
Inventory == [pools : SUBSET Pools, answers : SUBSET Accesses]
Refresh == [kind : {"refresh"}, found : Inventory]
DateRange == [start : Int, end : Nat \cup {None}]
Run == [kind : {"findings"},
        range : DateRange, moment : Nat,
        pools : SUBSET Pools,
        sources : Seq([result : [read : BOOLEAN, findings : SUBSET Finding,
                                 stale : SUBSET Finding, checked : SUBSET Pools],
                       \* history: how XO answered then, how much of its log there was, and
                       \* which pools it would not report or had patches missing on
                       access : Accesses,
                       upto : Nat, refusing : SUBSET Pools, missing : SUBSET Pools])]

Trouble == Len(log) + Cardinality(missing) + Cardinality(refusing) + Cardinality(totals)
              + changes + (IF access = "admin" THEN 0 ELSE 1)

\* Whatever has been going on in the pools, and whatever an earlier refresh has stored.
Init ==
    /\ now = Now
    /\ log \in {<<>>} \cup {<<r>> : r \in {q \in UNION {Records(Times, t) : t \in Times} : Possible(q)}}
    /\ missing \in SUBSET Pools /\ refusing \in SUBSET Pools /\ totals \in SUBSET Totals
    /\ access \in Accesses
    /\ changes = 0
    /\ Trouble <= MaxTrouble
    /\ inventory \in {None, [pools |-> Pools, answers |-> {"admin"}]}
    /\ report = None
    /\ job = None

\* range_from_form, at run time: no range, the last days, from a date on, or up to one.
Ranges ==
    [start : {now - Window, now - Stale} \cup Dates, end : {None}]
        \cup [start : {0}, end : Dates]

\* Bound: a behaviour ends with the first report that is stored.
NoReportYet == report = None

\* inventory(): pools first, then hosts; either failing fails the job.
StartRefresh ==
    /\ job = None /\ NoReportYet /\ ReadsAsCollection
    /\ job' = [kind |-> "refresh", found |-> [pools |-> Visible(Pools), answers |-> {access}]]
    /\ UNCHANGED <<xoState, results>>

StoreInventory ==
    /\ job # None /\ job.kind = "refresh" /\ ReadsAsCollection
    /\ inventory' = [job.found EXCEPT !.answers = @ \cup {access}]
    /\ job' = None
    /\ UNCHANGED <<xoState, report>>

\* run: the range, the pools of known_inventory, and the moment of collect_findings.
StartFindings ==
    /\ job = None /\ NoReportYet
    /\ \E range \in Ranges :
        job' = [kind |-> "findings", range |-> range, moment |-> now,
                pools |-> IF inventory = None THEN {} ELSE inventory.pools, sources |-> <<>>]
    /\ UNCHANGED <<xoState, results>>

Reading == job # None /\ job.kind = "findings"

\* One source, in the order of collect_findings; an XoError makes it unread.
ReadSource ==
    /\ Reading /\ Len(job.sources) < Len(Sources)
    /\ \E newestFirst \in BOOLEAN :
          job' = [job EXCEPT !.sources = Append(@,
                 [result |-> SourceResult(Sources[Len(@) + 1], newestFirst),
                  access |-> access, upto |-> Len(log),
                  refusing |-> refusing, missing |-> missing])]
    /\ UNCHANGED <<xoState, results>>

\* The two artifacts; storing one of them failing fails the job.
StoreReport ==
    /\ Reading /\ Len(job.sources) = Len(Sources)
    /\ report' = job
    /\ job' = None
    /\ UNCHANGED <<xoState, inventory>>

\* Cancelled at a source boundary, refused, failed or stopped: nothing is stored.
EndWithoutResult ==
    /\ job # None
    /\ job' = None
    /\ UNCHANGED <<xoState, results>>

-----------------------------------------------------------------------------
(* What goes on while a job runs; what went on before is in Init *)

Happens ==
    /\ job # None /\ Trouble < MaxTrouble
    /\ \E r \in Records(Times \cup {now}, now) : Possible(r) /\ log' = Append(log, r)
    /\ UNCHANGED <<now, missing, refusing, totals, access, changes, results, job>>

Changes ==
    /\ job # None /\ Trouble < MaxTrouble
    /\ changes' = changes + 1
    /\ \/ now' = now + 1 /\ UNCHANGED access
       \/ access' \in Accesses /\ UNCHANGED now
    /\ UNCHANGED <<log, missing, refusing, totals, results, job>>

Next ==
    \/ StartRefresh \/ StoreInventory
    \/ StartFindings \/ ReadSource \/ StoreReport
    \/ EndWithoutResult
    \/ Happens \/ Changes

Spec == Init /\ [][Next]_vars

-----------------------------------------------------------------------------
(* Properties *)

\* Every variable keeps its type.
TypeOK ==
    /\ now \in Nat /\ changes \in Nat
    /\ log \in Seq([source : Events \cup Runs, name : Names, failed : BOOLEAN,
                    start : Nat, end : Nat])
    /\ \A i \in DOMAIN log : Possible(log[i])
    /\ missing \in SUBSET Pools /\ refusing \in SUBSET Pools /\ totals \in SUBSET Totals
    /\ access \in Accesses
    /\ inventory # None => inventory \in Inventory
    /\ report # None => report \in Run
    /\ job # None => job \in Refresh \cup Run

Source(name) == CHOOSE i \in DOMAIN Sources : Sources[i] = name

\* The failures of one source a report has to name: those Xen Orchestra had when it was
\* asked, that ended in the report's range and had begun in it too.
Due(source, upto, range) ==
    {i \in 1 .. upto : /\ log[i].source = source /\ Reportable(log[i])
                       /\ log[i].start > range.start
                       /\ range.end = None \/ log[i].end <= range.end}

\* One row for each name among some records: how many there are, and when the last was.
Summary(due) ==
    {[name |-> n,
      at |-> Max({log[i].end : i \in {j \in due : log[j].name = n}}),
      count |-> Cardinality({i \in due : log[i].name = n})]
     : n \in {log[i].name : i \in due}}

\* The backup jobs that ran in the range, and whose last run is too long ago.
Overdue(upto, range, moment) ==
    LET runs == {i \in 1 .. upto : log[i].source = "backups"}
    IN {n \in {log[i].name : i \in {j \in runs : log[j].start > range.start}} :
            \A i \in runs : log[i].name = n => log[i].start < moment - Stale}

\* A report read with an administrator's account names every failure that was due, once per
\* name, with how many there were and when the last was - however Xen Orchestra orders
\* them - and no other; and it names every backup job whose last run is too long ago and no
\* other.
\* (Both exceptions are in the server-side filter: a task or run that began before the
\* range and failed within it is not asked for, and neither is the last run of a job that
\* stopped before the range began.)
FailuresReported ==
    report # None =>
      /\ \A source \in Events \cup Runs :
            LET entry == report.sources[Source(source)]
            IN entry.access = "admin" =>
                 entry.result.findings = Summary(Due(source, entry.upto, report.range))
      /\ LET entry == report.sources[Source("backups")]
         IN entry.access = "admin" =>
              {f.name : f \in entry.result.stale}
                = Overdue(entry.upto, report.range, report.moment)

\* A source a report shows as read was answered, and patches are called complete only if
\* every pool of the stored inventory reported none; a refusal or an outage is never
\* shown as nothing found.  No refresh that was not answered becomes the stored inventory.
\* (_raise_for_collection, missing_patches, pool_dashboard, collect_findings.)
UnreadIsSaid ==
    /\ inventory # None => inventory.answers \subseteq {"admin", "restricted"}
    /\ report # None =>
        /\ \A i \in DOMAIN report.sources :
            LET entry == report.sources[i]
            IN entry.result.read => entry.access \in {"admin", "restricted"}
        /\ report.sources[Source("dashboard")].result.read
              => report.sources[Source("dashboard")].access = "admin"
        /\ LET entry == report.sources[Source("patches")]
           IN entry.result.read /\ entry.result.findings = {} =>
                /\ report.pools # {}
                /\ entry.access = "admin"
                /\ report.pools \cap (entry.refusing \cup entry.missing) = {}

\* What a report found, as the page lists it: in any order, which is more than sort_findings
\* can produce.
Listings(r) ==
    SetToSeqs(UNION {
        {[source |-> Sources[i], name |-> f.name, at |-> f.at]
            : f \in r.sources[i].result.findings \cup r.sources[i].result.stale}
        : i \in DOMAIN r.sources})

\* What an API finding and a log finding of one incident have in common: a condition, and
\* the hour - of what happened, or, of a state, which has no time, the hour its report was
\* made in.
SameIncident(finding, family, created, scanned) ==
    LET Near(t) == t - scanned <= EchoWindow /\ scanned - t <= EchoWindow
    IN /\ Family[finding.name] = family
       /\ finding.at # None => Near(finding.at)
       /\ finding.at = None => Near(created)

\* Two findings that confirm each other are of one incident, no finding confirms two, and
\* no two of one incident are both left unconfirmed (correlate_reports, for every log
\* report).  An old report's state is thus left out by the window, as the code, its docstring
\* (app/findings.py:690-698) and a test (tests/test_findings.py:1107-1113) have it, and not,
\* as the comment at app/findings.py:653-655 says, "never excluded by this".
EchoesPair ==
    report # None =>
        \A api \in Listings(report), logs \in LogFindings, scanned \in Times :
            LET confirmed == Correlate(api, logs, report.moment, scanned)
                Same(i, j) == SameIncident(api[i], logs[j], report.moment, scanned)
            IN /\ \A i \in DOMAIN confirmed : Same(i, confirmed[i])
               /\ \A i, k \in DOMAIN confirmed : confirmed[i] = confirmed[k] => i = k
               /\ \A i \in DOMAIN api \ DOMAIN confirmed :
                     \A j \in DOMAIN logs : Same(i, j) => \E k \in DOMAIN confirmed : confirmed[k] = j

=============================================================================
