------------------------------- MODULE JobChain -------------------------------
(***************************************************************************)
(* Jobs that depend on one another: a collection, the extractions and      *)
(* redactions made from it, and the support package that ships them with a *)
(* findings run and an inventory (app/routes/collect.py, jobs.py,          *)
(* findings.py and support_package.py; app/job_collect.py, job_extract.py, *)
(* job_redact.py, job_findings.py, job_inventory.py and                    *)
(* job_support_package.py).                                                *)
(*                                                                         *)
(* A route reads, then enqueues its jobs one commit at a time, each naming *)
(* the ones before it.  Nothing ties them together afterwards but the      *)
(* order of the queue, so every body looks again at what it was queued     *)
(* after; between that look and its use of the files, and between any two  *)
(* jobs, others may delete, cancel, change the redaction rules or crash.   *)
(*                                                                         *)
(* Jobs are numbered in the order they are enqueued, which by JobQueue's   *)
(* ClaimsInOrder is the order they are claimed in.  "failed" stands for    *)
(* failed and for cancelled: every reader here refuses the two alike.      *)
(***************************************************************************)
EXTENDS Naturals, Sequences, FiniteSets, SequencesExt

CONSTANTS
    MaxJobs,      \* bound: how many jobs are ever enqueued
    Requests,     \* request-handler threads
    RuleSets,     \* the sets of redaction rules that may be switched on
    Stored,       \* how many collections are stored when the run begins
    MaxMishaps    \* bound: how many failures, cancellations, deletions, changes
                  \* of the rules and crashes there are, all together

Jobs == 1..MaxJobs
None == 0

ASSUME JobChainAssumption ==
    /\ {MaxJobs, Stored, MaxMishaps} \subseteq Nat
    /\ Stored <= MaxJobs
    /\ None \notin RuleSets

COLLECT == "collect_logs"
EXTRACT == "extract_categories"
REDACT == "redact_artifact"
FINDINGS == "api_findings"
INVENTORY == "refresh_inventory"
PACKAGE == "support_package"
Kinds == {COLLECT, EXTRACT, REDACT, FINDINGS, INVENTORY, PACKAGE}

VARIABLES
    job,       \* each job's row
    files,     \* the names of the artifacts each job has stored
    rules,     \* the redaction rules switched on (enabled_rules)
    used,      \* the rules each job's stored report says were on
    masked,    \* the jobs whose redacted copy has its log lines masked
    packed,    \* for each stored package, the job whose redacted copy it ships
    wpc,       \* the worker: "idle", "body" or "copy" (past its checks)
    wjob,      \* the job it runs
    wfrom,     \* the job whose redacted copy a package body has settled on
    todo,      \* the kinds each request has still to enqueue
    plan,      \* what it knows while it does
    mishaps    \* counted against MaxMishaps

workerVars == <<wpc, wjob, wfrom>>
requestVars == <<todo, plan>>
vars == <<job, files, rules, used, masked, packed, workerVars, requestVars, mishaps>>

-----------------------------------------------------------------------------

ACTIVE_STATES == {"queued", "running"}

NothingMade == [k \in Kinds |-> None]

\* What a route has decided: the collection it is about (None when it collects one
\* itself), the jobs it has enqueued, whether its collection redacts, and, for the
\* properties, the rules and the earlier redaction it went by.
NoPlan == [source |-> None, made |-> NothingMade, redact |-> FALSE,
           rules |-> None, relied |-> None]

NoJob == [kind |-> "none", state |-> "absent", byJob |-> FALSE, plan |-> NoPlan]

KindOf(j) == job[j].kind
StateOf(j) == job[j].state
Source(j) == job[j].plan.source
Member(j, k) == job[j].plan.made[k]
WithState(j, s) == [job EXCEPT ![j].state = s]

HasActive(k) == \E j \in Jobs : KindOf(j) = k /\ StateOf(j) \in ACTIVE_STATES

\* _busy of the support package page, and the check of the collect page.
Busy == \E k \in Kinds : HasActive(k)
Collecting == HasActive(COLLECT) \/ HasActive(EXTRACT)

\* existing_redaction: the finished redactions of a collection's raw bundle whose
\* report says they ran with the given rules.
Redactions(c, on) ==
    {j \in Jobs : /\ KindOf(j) = REDACT /\ StateOf(j) = "succeeded"
                  /\ Source(j) = c /\ "report" \in files[j] /\ used[j] = on}

Newest(S) == IF S = {} THEN None ELSE CHOOSE j \in S : \A i \in S : i <= j

\* What a job of each kind stores, in the order it stores it.
Outputs(j) ==
    CASE KindOf(j) = COLLECT   -> IF job[j].plan.redact THEN <<"logs", "redacted", "report">>
                                                       ELSE <<"logs">>
      [] KindOf(j) = EXTRACT   -> <<"extract", "report">>
      [] KindOf(j) = REDACT    -> <<"redacted", "report">>
      [] KindOf(j) = FINDINGS  -> <<"findings.json", "findings.md">>
      [] KindOf(j) = INVENTORY -> <<"inventory">>
      [] KindOf(j) = PACKAGE   -> <<"package">>

\* What a body that is cut short may have stored: a proper prefix of that.  Nothing
\* looks at what any but a collection leaves behind.
PartialOutputs(j) ==
    IF KindOf(j) = COLLECT
    THEN {ToSet(SubSeq(Outputs(j), 1, n)) : n \in 0..(Len(Outputs(j)) - 1)}
    ELSE {{}}

\* Faulty variant: no copy is masked.
MasksNothing(k) == FALSE

\* _redact_tarball masks the lines of the archive's members; _redact_file, which is
\* all redact_artifact has, reads the compressed stream itself as text.
MasksMembers(k) == k \in {COLLECT, EXTRACT}

Init ==
    \E on \in RuleSets, redact \in [1..Stored -> BOOLEAN] :
    /\ rules = on
    /\ job = [j \in Jobs |-> IF j <= Stored
                             THEN [NoJob EXCEPT !.kind = COLLECT, !.state = "succeeded",
                                                !.plan.redact = redact[j]]
                             ELSE NoJob]
    /\ files = [j \in Jobs |-> IF j <= Stored THEN ToSet(Outputs(j)) ELSE {}]
    /\ used = [j \in Jobs |-> IF "report" \in files[j] THEN on ELSE None]
    /\ masked = {j \in Jobs : "redacted" \in files[j]}
    /\ packed = [j \in Jobs |-> None]
    /\ wpc = "idle"
    /\ wjob = None
    /\ wfrom = None
    /\ todo = [r \in Requests |-> <<>>]
    /\ plan = [r \in Requests |-> NoPlan]
    /\ mishaps = 0

-----------------------------------------------------------------------------
(* The routes: what each checks, and the jobs it then enqueues *)

\* Bound: a request begins only when there are job numbers left for all it will enqueue.
Room(n) ==
    n + FoldSet(LAMBDA r, sum : sum + Len(todo[r]), 0, Requests)
      <= Cardinality({j \in Jobs : StateOf(j) = "absent"})

Begin(r, kinds, p) ==
    /\ todo[r] = <<>>
    /\ Room(Len(kinds))
    /\ todo' = [todo EXCEPT ![r] = kinds]
    /\ plan' = [plan EXCEPT ![r] = p]
    /\ UNCHANGED <<job, files, rules, used, masked, packed, workerVars, mishaps>>

\* start_collection, with an extraction behind it when categories or dates are given.
StartCollection(r, redact, extract) ==
    /\ ~Collecting
    /\ Begin(r, <<COLLECT>> \o extract, [NoPlan EXCEPT !.redact = redact])

\* start_extraction: of a stored collection's raw bundle, by its artifact id.
StartExtraction(r, c) ==
    /\ KindOf(c) = COLLECT /\ "logs" \in files[c]
    /\ ~Collecting
    /\ Begin(r, <<EXTRACT>>, [NoPlan EXCEPT !.source = c])

\* start_redaction ("Redact now"), refused when there is one with the same rules.
StartRedaction(r, c) ==
    /\ "logs" \in files[c]
    /\ ~HasActive(REDACT)
    /\ Redactions(c, rules) = {}
    /\ Begin(r, <<REDACT>>, [NoPlan EXCEPT !.source = c])

\* _enqueue_chain, behind the caller's own extraction.
Chain(extract, redact) == extract \o <<FINDINGS, INVENTORY>> \o redact \o <<PACKAGE>>

\* package_collection: a dated package extracts anew; any other needs a redaction of
\* the collection's raw bundle, and queues one unless a redact_artifact job answers.
StartPackage(r, c, dated) ==
    LET earlier == Newest(Redactions(c, rules))
        p == [NoPlan EXCEPT !.source = c, !.rules = rules, !.relied = earlier]
        redact == IF "logs" \in files[c] /\ earlier = None THEN <<REDACT>> ELSE <<>>
    IN
    /\ KindOf(c) = COLLECT /\ StateOf(c) # "deleted"
    /\ ~Busy
    /\ dated => "logs" \in files[c]
    /\ Begin(r, IF dated THEN Chain(<<EXTRACT>>, <<>>) ELSE Chain(<<>>, redact), p)

\* collect_and_package: the collection always redacts.
StartCollectAndPackage(r, extract) ==
    /\ ~Busy
    /\ Begin(r, <<COLLECT>> \o Chain(extract, <<>>),
             [NoPlan EXCEPT !.redact = TRUE, !.rules = rules])

\* One enqueue of a route: jobs of the same request are named by their ids; an
\* extraction behind its own collection, and a redaction in front of its package,
\* name the collection instead of a file it has not stored yet.
Enqueue(r) ==
    /\ todo[r] # <<>>
    /\ \E j \in Jobs :
        /\ StateOf(j) = "absent"
        /\ \A i \in 1..(j - 1) : StateOf(i) # "absent"
        /\ LET k == Head(todo[r])
               p == plan[r]
               c == IF p.source = None THEN p.made[COLLECT] ELSE p.source
           IN /\ job' = [job EXCEPT ![j] =
                    [kind |-> k, state |-> "queued",
                     plan |-> IF k = PACKAGE THEN [p EXCEPT !.source = c]
                              ELSE [NoPlan EXCEPT !.source = c, !.redact = p.redact],
                     byJob |-> IF k = REDACT THEN Len(todo[r]) > 1 ELSE p.source = None]]
              /\ plan' = [plan EXCEPT ![r] = IF Len(todo[r]) = 1 THEN NoPlan
                                             ELSE [p EXCEPT !.made[k] = j]]
    /\ todo' = [todo EXCEPT ![r] = Tail(@)]
    /\ UNCHANGED <<files, rules, used, masked, packed, workerVars, mishaps>>

-----------------------------------------------------------------------------
(* The bodies *)

\* Faulty variant: the newest first.
NewestUp(j) == StateOf(j) = "queued" /\ \A i \in Jobs : StateOf(i) = "queued" => i <= j

NextUp(j) == StateOf(j) = "queued" /\ \A i \in Jobs : StateOf(i) = "queued" => j <= i

\* claim_next: strictly in order, one at a time.  A collection, a findings run and an
\* inventory refresh need nothing stored, and have no checks to make.
Claim(j) ==
    /\ wpc = "idle"
    /\ NextUp(j)
    /\ job' = WithState(j, "running")
    /\ wpc' = IF KindOf(j) \in {EXTRACT, REDACT, PACKAGE} THEN "body" ELSE "copy"
    /\ wjob' = j
    /\ UNCHANGED <<files, rules, used, masked, packed, wfrom, requestVars, mishaps>>

\* The two _resolve_source: by job, or by the artifact's own id.
SourceResolves(j) ==
    /\ job[j].byJob => StateOf(Source(j)) = "succeeded"
    /\ "logs" \in files[Source(j)]

\* Faulty variant: only the collection's own report, or its chain's.
OwnReportOnly(j) ==
    IF Member(j, EXTRACT) # None THEN Member(j, EXTRACT)
    ELSE IF Member(j, REDACT) # None THEN Member(j, REDACT) ELSE Source(j)

\* job_support_package: the job whose report and redacted copy the package ships.
RedactionSource(j) ==
    LET c == Source(j)
        earlier == IF "logs" \in files[c] THEN Newest(Redactions(c, rules)) ELSE None
    IN IF Member(j, EXTRACT) # None THEN Member(j, EXTRACT)
       ELSE IF Member(j, REDACT) # None THEN Member(j, REDACT)
       ELSE IF "report" \in files[c] \/ earlier = None THEN c
       ELSE earlier

\* The artifacts a package copies, and the jobs it takes them from.
Parts(j, from) ==
    {<<from, IF from = Member(j, EXTRACT) THEN "extract" ELSE "redacted">>,
     <<Member(j, FINDINGS), "findings.json">>, <<Member(j, FINDINGS), "findings.md">>,
     <<Member(j, INVENTORY), "inventory">>}

\* Faulty variant: whatever became of them between the checks and the copy.
PartsAnyway(j, from) == {}

\* What must still be on disk when the archive is written.
PartsToCopy(j, from) == Parts(j, from)

\* _resolve_job.
Resolves(j) == j # None /\ StateOf(j) = "succeeded"

PackageResolves(j) ==
    LET from == RedactionSource(j) IN
    /\ \A i \in {Source(j), Member(j, FINDINGS), Member(j, INVENTORY)} : Resolves(i)
    /\ Member(j, EXTRACT) # None => Resolves(Member(j, EXTRACT))
    /\ Member(j, REDACT) # None => Resolves(Member(j, REDACT))
    /\ "report" \in files[from]
    /\ \A part \in Parts(j, from) : part[2] \in files[part[1]]

\* The checks a body begins with.
Checks(j) == IF KindOf(j) = PACKAGE THEN PackageResolves(j) ELSE SourceResolves(j)

Resolve ==
    /\ wpc = "body"
    /\ Checks(wjob)
    /\ wfrom' = IF KindOf(wjob) = PACKAGE THEN RedactionSource(wjob) ELSE None
    /\ wpc' = "copy"
    /\ UNCHANGED <<job, files, rules, used, masked, packed, wjob, requestVars, mishaps>>

\* Opening the files found by the checks, which may have gone since.
Readable(j) ==
    /\ KindOf(j) \in {EXTRACT, REDACT} => "logs" \in files[Source(j)]
    /\ KindOf(j) = PACKAGE =>
         \A part \in PartsToCopy(j, wfrom) : part[2] \in files[part[1]]

\* The rules that a redaction's report names: those that are on when it runs.
RulesApplied(stored) == IF "report" \in stored THEN rules ELSE None

\* A body that gets all it needs: its artifacts are stored, and it is marked succeeded.
Succeed ==
    LET stored == ToSet(Outputs(wjob)) IN
    /\ wpc = "copy"
    /\ Readable(wjob)
    /\ files' = [files EXCEPT ![wjob] = stored]
    /\ used' = [used EXCEPT ![wjob] = RulesApplied(stored)]
    /\ masked' = IF MasksMembers(KindOf(wjob)) /\ "report" \in stored
                 THEN masked \cup {wjob} ELSE masked
    /\ packed' = [packed EXCEPT ![wjob] = IF "package" \in stored THEN wfrom ELSE None]
    /\ job' = WithState(wjob, "succeeded")
    /\ wpc' = "idle" /\ wjob' = None /\ wfrom' = None
    /\ UNCHANGED <<rules, requestVars, mishaps>>

\* One more of what can go wrong.
Mishap == mishaps < MaxMishaps /\ mishaps' = mishaps + 1

Raise ==
    /\ \E left \in IF wpc = "body" THEN {{}} ELSE PartialOutputs(wjob) :
          files' = [files EXCEPT ![wjob] = left]
    /\ job' = WithState(wjob, "failed")
    /\ wpc' = "idle" /\ wjob' = None /\ wfrom' = None

\* A body raises because of what it finds ...
Refuse ==
    /\ \/ wpc = "body" /\ ~Checks(wjob)
       \/ wpc = "copy" /\ ~Readable(wjob)
    /\ Raise
    /\ UNCHANGED <<rules, used, masked, packed, requestVars, mishaps>>

\* ... or for any other reason: Xen Orchestra, the disk, a cancellation.
Fail ==
    /\ wpc \in {"body", "copy"}
    /\ Mishap
    /\ Raise
    /\ UNCHANGED <<rules, used, masked, packed, requestVars>>

-----------------------------------------------------------------------------
(* What happens around them *)

\* request_cancel of a queued job.
Cancel(j) ==
    /\ Mishap
    /\ StateOf(j) = "queued"
    /\ job' = WithState(j, "failed")
    /\ UNCHANGED <<files, rules, used, masked, packed, workerVars, requestVars>>

\* delete_job, or the cleanup, of a finished job: ArtifactStore has its steps.
Delete(j) ==
    /\ Mishap
    /\ StateOf(j) \in {"succeeded", "failed"}
    /\ job' = WithState(j, "deleted")
    /\ files' = [files EXCEPT ![j] = {}]
    /\ UNCHANGED <<rules, used, masked, packed, workerVars, requestVars>>

\* The redaction page saves another choice of rules.
ChangeRules(on) ==
    /\ Mishap
    /\ on # rules
    /\ rules' = on
    /\ UNCHANGED <<job, files, used, masked, packed, workerVars, requestVars>>

\* A crash and the next start: the running job is failed with what it had stored,
\* and a request that was half-way through its chain leaves it at that.
Restart ==
    /\ Mishap
    /\ IF wjob = None THEN UNCHANGED <<job, files, workerVars>> ELSE Raise
    /\ todo' = [r \in Requests |-> <<>>]
    /\ plan' = [r \in Requests |-> NoPlan]
    /\ UNCHANGED <<rules, used, masked, packed>>

RequestStep(r) ==
    \/ \E extract \in {<<>>, <<EXTRACT>>} :
          \/ StartCollectAndPackage(r, extract)
          \/ \E redact \in BOOLEAN : StartCollection(r, redact, extract)
    \/ \E c \in Jobs :
          \/ StartExtraction(r, c) \/ StartRedaction(r, c)
          \/ \E dated \in BOOLEAN : StartPackage(r, c, dated)
    \/ Enqueue(r)

Next ==
    \/ \E r \in Requests : RequestStep(r)
    \/ \E j \in Jobs : Claim(j) \/ Cancel(j) \/ Delete(j)
    \/ Resolve \/ Succeed \/ Refuse \/ Fail
    \/ \E on \in RuleSets : ChangeRules(on)
    \/ Restart

Spec == Init /\ [][Next]_vars

-----------------------------------------------------------------------------
(* Properties *)

States == ACTIVE_STATES \cup {"absent", "succeeded", "failed", "deleted"}
FileNames == {"logs", "redacted", "report", "extract", "findings.json", "findings.md",
              "inventory", "package"}

PlanType == [source : Jobs \cup {None}, made : [Kinds -> Jobs \cup {None}], redact : BOOLEAN,
             rules : RuleSets \cup {None}, relied : Jobs \cup {None}]
JobType == [kind : Kinds \cup {"none"}, state : States, byJob : BOOLEAN, plan : PlanType]

\* Every variable keeps its type.
TypeOK ==
    /\ job \in [Jobs -> JobType]
    /\ files \in [Jobs -> SUBSET FileNames]
    /\ rules \in RuleSets
    /\ used \in [Jobs -> RuleSets \cup {None}]
    /\ masked \subseteq Jobs
    /\ packed \in [Jobs -> Jobs \cup {None}]
    /\ wpc \in {"idle", "body", "copy"}
    /\ wjob \in Jobs \cup {None}
    /\ wfrom \in Jobs \cup {None}
    /\ todo \in [Requests -> Seq(Kinds)]
    /\ plan \in [Requests -> PlanType]
    /\ mishaps \in Nat

\* The jobs a job was queued after.
QueuedAfter(j) ==
    ({Source(j)} \cup {Member(j, k) : k \in Kinds}) \ {None}

\* job_support_package._resolve_job: "Cannot actually happen given the FIFO queue and
\* single worker" (app/job_support_package.py:247; job_extract.py:235 and
\* job_redact.py:195 say the same).  No body ever finds a job it was queued after still
\* queued or running, whatever is cancelled, deleted, lost in a crash or queued by
\* another request in between.
NeverEarly ==
    wpc = "body" => \A i \in QueuedAfter(wjob) : StateOf(i) \notin ACTIVE_STATES

\* A package is stored only at a moment when everything it ships is stored by a job that
\* succeeded: "a package never ships with a gap" (app/job_support_package.py:8-13).
PackagesAreWhole ==
    [][\A p \in Jobs :
         packed[p] = None /\ packed'[p] # None =>
           \A part \in Parts(p, packed'[p]) :
              StateOf(part[1]) = "succeeded" /\ part[2] \in files[part[1]]]_vars

\* When everything a package was queued after has succeeded and is still there, the
\* package finds a redacted copy to ship; the excuses are a change of rules, or the
\* deletion of the redaction the route relied on, since the route looked
\* (app/routes/support_package.py:139-146).
CompleteChainPackages ==
    wpc = "body" /\ KindOf(wjob) = PACKAGE /\ (\A i \in QueuedAfter(wjob) : Resolves(i))
      => \/ PackageResolves(wjob)
         \/ rules # job[wjob].plan.rules
         \/ LET relied == job[wjob].plan.relied IN relied # None /\ ~Resolves(relied)

\* A package made with its own collection, or for a date range, ships a copy whose log
\* lines are masked, as job_collect and job_extract make them.
FreshPackagesMasked ==
    \A p \in Jobs :
        packed[p] # None /\ (Member(p, COLLECT) # None \/ Member(p, EXTRACT) # None)
          => packed[p] \in masked

\* A collection without a redacted copy: "a package is never allowed to ship that gap,
\* so one is queued into the same chain" (app/routes/support_package.py:131-134).  Every
\* package ships a copy whose log lines are masked.
PackagesMasked == \A p \in Jobs : packed[p] # None => packed[p] \in masked

=============================================================================
