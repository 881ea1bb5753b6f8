--------------------------- MODULE JobChainProofs ---------------------------
(***************************************************************************)
(* What is proved of the job chain: its types, that no body runs before a  *)
(* job it was queued after is over, that packages are whole, that a        *)
(* complete chain packages, and that a fresh package is masked.            *)
(***************************************************************************)
EXTENDS JobChain, WellFoundedInduction, TLAPS

-----------------------------------------------------------------------------
(* Operators *)

\* The newest of some jobs is one of them.
LEMMA NewestIsOne ==
    ASSUME NEW S \in SUBSET Jobs, S # {}
    PROVE  Newest(S) \in S
<1> DEFINE T == {MaxJobs - j : j \in S}
<1>1. MaxJobs \in Nat
  BY JobChainAssumption
<1>2. T \subseteq Nat
  BY <1>1 DEF Jobs
<1>3. T # {}
  <2>1. PICK j \in S : TRUE
    OBVIOUS
  <2>2. MaxJobs - j \in T
    BY <2>1
  <2>3. QED BY <2>2
<1>4. PICK x \in T : \A y \in T : ~(<<y, x>> \in OpToRel(<, Nat))
  <2> HIDE DEF T
  <2> QED BY <1>2, <1>3, WFMin, NatLessThanWellFounded
<1>5. \A y \in T : ~(y < x)
  BY <1>2, <1>4 DEF OpToRel
<1>6. PICK j \in S : x = MaxJobs - j
  OBVIOUS
<1>7. ASSUME NEW i \in S PROVE i <= j
  <2>1. MaxJobs - i \in T
    OBVIOUS
  <2>2. ~(MaxJobs - i < MaxJobs - j)
    BY <2>1, <1>5, <1>6
  <2>3. QED BY <2>2, <1>1 DEF Jobs
<1>8. QED BY <1>7 DEF Newest

\* No redaction, or one.
LEMMA NewestType ==
    ASSUME NEW S \in SUBSET Jobs
    PROVE  Newest(S) \in Jobs \cup {None}
<1>1. QED BY NewestIsOne DEF Newest

\* The members of a written-out sequence.
LEMMA ToSet1 == ASSUME NEW a PROVE ToSet(<<a>>) = {a}
<1>1. DOMAIN <<a>> = {1} /\ <<a>>[1] = a
  OBVIOUS
<1>2. QED BY <1>1 DEF ToSet

\* The same of two.
LEMMA ToSet2 == ASSUME NEW a, NEW b PROVE ToSet(<<a, b>>) = {a, b}
<1>1. DOMAIN <<a, b>> = {1, 2}
  OBVIOUS
<1>2. <<a, b>>[1] = a /\ <<a, b>>[2] = b
  OBVIOUS
<1>3. QED BY <1>1, <1>2, Zenon DEF ToSet

\* The same of three.
LEMMA ToSet3 == ASSUME NEW a, NEW b, NEW c PROVE ToSet(<<a, b, c>>) = {a, b, c}
<1>1. DOMAIN <<a, b, c>> = {1, 2, 3}
  OBVIOUS
<1>2. <<a, b, c>>[1] = a /\ <<a, b, c>>[2] = b /\ <<a, b, c>>[3] = c
  OBVIOUS
<1>3. QED BY <1>1, <1>2, Zenon DEF ToSet

\* Every kind of job stores files of its own.
LEMMA OutputsOfKinds ==
    ASSUME NEW j \in Jobs
    PROVE  /\ KindOf(j) = COLLECT => ToSet(Outputs(j)) =
                IF job[j].plan.redact THEN {"logs", "redacted", "report"} ELSE {"logs"}
           /\ KindOf(j) = EXTRACT => ToSet(Outputs(j)) = {"extract", "report"}
           /\ KindOf(j) = REDACT => ToSet(Outputs(j)) = {"redacted", "report"}
           /\ KindOf(j) = FINDINGS => ToSet(Outputs(j)) = {"findings.json", "findings.md"}
           /\ KindOf(j) = INVENTORY => ToSet(Outputs(j)) = {"inventory"}
           /\ KindOf(j) = PACKAGE => ToSet(Outputs(j)) = {"package"}
<1> USE DEF Outputs, COLLECT, EXTRACT, REDACT, FINDINGS, INVENTORY, PACKAGE
<1>1. CASE KindOf(j) = COLLECT
  BY <1>1, ToSet1, ToSet3
<1>2. CASE KindOf(j) = EXTRACT
  BY <1>2, ToSet2
<1>3. CASE KindOf(j) = REDACT
  BY <1>3, ToSet2
<1>4. CASE KindOf(j) = FINDINGS
  BY <1>4, ToSet2
<1>5. CASE KindOf(j) = INVENTORY
  BY <1>5, ToSet1
<1>6. CASE KindOf(j) = PACKAGE
  BY <1>6, ToSet1
<1>7. QED BY <1>1, <1>2, <1>3, <1>4, <1>5, <1>6

\* A job that is cut short has stored some of that.
LEMMA PartialIsPart ==
    ASSUME NEW j \in Jobs, KindOf(j) \in Kinds, NEW left \in PartialOutputs(j)
    PROVE  left \subseteq FileNames
<1>1. CASE KindOf(j) = COLLECT
  <2>1. Outputs(j) = <<"logs", "redacted", "report">> \/ Outputs(j) = <<"logs">>
    BY <1>1 DEF Outputs, COLLECT, EXTRACT, REDACT, FINDINGS, INVENTORY, PACKAGE
  <2>2. Outputs(j) \in Seq(FileNames)
    <3>1. {"logs", "redacted", "report"} \subseteq FileNames
      BY DEF FileNames
    <3>2. <<"logs", "redacted", "report">> \in Seq(FileNames) /\ <<"logs">> \in Seq(FileNames)
      BY <3>1
    <3>3. QED BY <2>1, <3>2
  <2>3. PICK n \in 0..(Len(Outputs(j)) - 1) : left = ToSet(SubSeq(Outputs(j), 1, n))
    BY <1>1 DEF PartialOutputs
  <2>4. SubSeq(Outputs(j), 1, n) \in Seq(FileNames)
    BY <2>2, <2>3
  <2>5. QED BY <2>3, <2>4 DEF ToSet
<1>2. CASE KindOf(j) # COLLECT
  BY <1>2 DEF PartialOutputs
<1>3. QED BY <1>1, <1>2

\* What a job stores has a name.
LEMMA OutputsAreFiles ==
    ASSUME NEW j \in Jobs, KindOf(j) \in Kinds
    PROVE  ToSet(Outputs(j)) \subseteq FileNames
<1>1. QED BY OutputsOfKinds DEF Kinds, FileNames

\* Setting the state of a job changes nothing else.
LEMMA WithStateIs ==
    ASSUME TypeOK, NEW j \in Jobs, NEW s \in States
    PROVE  /\ WithState(j, s) \in [Jobs -> JobType]
           /\ \A i \in Jobs : /\ WithState(j, s)[i].kind = KindOf(i)
                              /\ WithState(j, s)[i].plan = job[i].plan
                              /\ WithState(j, s)[i].state = IF i = j THEN s ELSE StateOf(i)
<1> USE DEF WithState, KindOf, StateOf
<1>1. job \in [Jobs -> JobType] /\ job[j] \in JobType
  BY DEF TypeOK
<1>2. [job[j] EXCEPT !.state = s] \in JobType
  BY <1>1 DEF JobType
<1>3. WithState(j, s) = [job EXCEPT ![j] = [job[j] EXCEPT !.state = s]]
  OBVIOUS
<1>4. WithState(j, s) \in [Jobs -> JobType]
  BY <1>1, <1>2, <1>3
<1>5. ASSUME NEW i \in Jobs
      PROVE  /\ WithState(j, s)[i].kind = KindOf(i)
             /\ WithState(j, s)[i].plan = job[i].plan
             /\ WithState(j, s)[i].state = IF i = j THEN s ELSE StateOf(i)
  <2>1. CASE i = j
    BY <1>1, <1>3, <2>1 DEF JobType
  <2>2. CASE i # j
    BY <1>1, <1>3, <2>2
  <2>3. QED BY <2>1, <2>2
<1>6. QED BY <1>4, <1>5

-----------------------------------------------------------------------------
(* The inductive invariant *)

\* Job numbers are used in order.
QueueFilled ==
    \A i, j \in Jobs : i < j /\ StateOf(i) = "absent" => StateOf(j) = "absent"

\* The running job is the worker's, and the worker's job is running.
WorkerInStep ==
    /\ wpc = "idle" <=> wjob = None
    /\ \A j \in Jobs : StateOf(j) = "running" <=> j = wjob

\* A job that is not there has nothing, and any other has a kind.
KindsKnown ==
    \A j \in Jobs : IF StateOf(j) = "absent" THEN job[j] = NoJob /\ files[j] = {}
                    ELSE KindOf(j) \in Kinds

\* What a succeeded job stored is there, and masked when it is a copy made with its archive;
\* nothing of a deleted job is.
StoredInStep ==
    \A j \in Jobs :
        /\ StateOf(j) = "succeeded" =>
            /\ files[j] = ToSet(Outputs(j))
            /\ MasksMembers(KindOf(j)) /\ "report" \in files[j] => j \in masked
        /\ StateOf(j) = "deleted" => files[j] = {}

\* The jobs that a plan names.
Named(p) == ({p.source} \cup {p.made[k] : k \in Kinds}) \ {None}

\* A job was queued after earlier ones.
AfterEarlier == \A j \in Jobs : \A i \in Named(job[j].plan) : i \in Jobs /\ i < j

\* The redaction that a route relied on was the right one when it looked.
ReliedKnown(p) ==
    p.relied # None =>
        /\ KindOf(p.relied) = REDACT /\ Source(p.relied) = p.source
        /\ used[p.relied] = p.rules
        /\ StateOf(p.relied) \in {"succeeded", "deleted"}

\* A kind that a request has enqueued or will.
Coming(t, p, k) == k \in ToSet(t) \/ p.made[k] # None

\* A request that will enqueue a package has the rest of the chain behind or before it.
PackageAhead(t, p) ==
    /\ Coming(t, p, FINDINGS) /\ Coming(t, p, INVENTORY)
    /\ \/ /\ p.source = None /\ p.relied = None /\ p.redact
          /\ Coming(t, p, COLLECT) /\ ~Coming(t, p, REDACT)
       \/ /\ p.source # None /\ KindOf(p.source) = COLLECT
          /\ ~Coming(t, p, COLLECT)
          /\ \/ Coming(t, p, EXTRACT) \/ Coming(t, p, REDACT) \/ p.relied # None
             \/ StateOf(p.source) \in {"failed", "deleted"}
    /\ ReliedKnown(p)

MadeKnown(p) == \A k \in Kinds : p.made[k] # None => KindOf(p.made[k]) = k

RequestOK(t, p) ==
    /\ \A i \in Named(p) : i \in Jobs /\ StateOf(i) # "absent"
    /\ MadeKnown(p)
    /\ p.made[COLLECT] # None => p.source = None /\ job[p.made[COLLECT]].plan.redact = p.redact
    /\ COLLECT \in ToSet(t) => p.source = None
    /\ \A n \in 1..Len(t) : t[n] = PACKAGE => n = Len(t)
    /\ PACKAGE \in ToSet(t) => PackageAhead(t, p)

RequestsInStep == \A r \in Requests : RequestOK(todo[r], plan[r])

\* A package was queued after a whole chain.
PackageOK(p) ==
    /\ MadeKnown(p)
    /\ p.made[FINDINGS] # None /\ p.made[INVENTORY] # None
    /\ p.source # None /\ KindOf(p.source) = COLLECT
    /\ IF p.made[COLLECT] # None
       THEN p.source = p.made[COLLECT] /\ job[p.source].plan.redact /\ p.made[REDACT] = None
       ELSE \/ p.made[EXTRACT] # None \/ p.made[REDACT] # None \/ p.relied # None
            \/ StateOf(p.source) \in {"failed", "deleted"}
    /\ ReliedKnown(p)

PackagesInStep == \A j \in Jobs : KindOf(j) = PACKAGE => PackageOK(job[j].plan)

\* What a package's body has settled on.
FreshlyMade(j) == Member(j, COLLECT) # None \/ Member(j, EXTRACT) # None

BodySettled ==
    wpc = "copy" /\ KindOf(wjob) = PACKAGE =>
        /\ wfrom \in Jobs
        /\ \A part \in Parts(wjob, wfrom) :
            part[1] \in Jobs /\ StateOf(part[1]) \in {"succeeded", "deleted"}
        /\ FreshlyMade(wjob) => wfrom \in masked

\* Only packages that are done are packed.
PackedInStep ==
    \A j \in Jobs : packed[j] # None =>
        KindOf(j) = PACKAGE /\ StateOf(j) \in {"succeeded", "deleted"}

IInv == /\ TypeOK /\ QueueFilled /\ WorkerInStep /\ KindsKnown /\ StoredInStep
        /\ AfterEarlier /\ RequestsInStep /\ PackagesInStep /\ BodySettled /\ PackedInStep
        /\ NeverEarly /\ FreshPackagesMasked

-----------------------------------------------------------------------------
(* Steps *)

\* A step that enqueues nothing: jobs keep what they were queued with, and their states
\* go forward.
Moved ==
    \A i \in Jobs :
        /\ KindOf(i)' = KindOf(i) /\ job'[i].plan = job[i].plan
        /\ \/ StateOf(i)' = StateOf(i) /\ job'[i] = job[i] /\ files'[i] = files[i]
           \/ StateOf(i) = "queued" /\ StateOf(i)' \in {"running", "failed"}
           \/ StateOf(i) = "running" /\ StateOf(i)' \in {"succeeded", "failed"}
           \/ StateOf(i) \in {"succeeded", "failed"} /\ StateOf(i)' = "deleted" /\ files'[i] = {}
        /\ StateOf(i) # "running" => used'[i] = used[i] /\ packed'[i] = packed[i]
        /\ i \in masked => i \in masked'

\* The jobs are moved by a change of one state.
LEMMA MoveOne ==
    ASSUME TypeOK, NEW j \in Jobs, NEW s \in States,
           job' = WithState(j, s),
           \A i \in Jobs : i # j => files'[i] = files[i]
    PROVE  /\ job' \in [Jobs -> JobType]
           /\ StateOf(j)' = s
           /\ \A i \in Jobs : /\ KindOf(i)' = KindOf(i) /\ job'[i].plan = job[i].plan
                              /\ i # j => /\ StateOf(i)' = StateOf(i) /\ job'[i] = job[i]
                                          /\ files'[i] = files[i]
<1>1. job' \in [Jobs -> JobType] /\ job \in [Jobs -> JobType]
  BY WithStateIs DEF TypeOK
<1>2. \A i \in Jobs : i # j => job'[i] = job[i]
  BY <1>1 DEF WithState
<1>3. QED BY <1>1, <1>2, WithStateIs DEF KindOf, StateOf

\* The job that the worker runs.
LEMMA WorkersJob ==
    ASSUME IInv, wpc # "idle"
    PROVE  wjob \in Jobs /\ StateOf(wjob) = "running" /\ KindOf(wjob) \in Kinds
<1>1. wjob \in Jobs
  BY DEF IInv, TypeOK, WorkerInStep
<1>2. QED BY <1>1 DEF IInv, WorkerInStep, KindsKnown

\* A claim keeps the types, and moves.
LEMMA ClaimMoves ==
    ASSUME IInv, NEW j \in Jobs, Claim(j)
    PROVE  TypeOK' /\ Moved
<1>1. job' = WithState(j, "running") /\ UNCHANGED <<files, used, masked, packed>>
  BY DEF Claim
<1>2. StateOf(j) = "queued"
  BY DEF Claim, NextUp
<1>3. /\ job' \in [Jobs -> JobType] /\ StateOf(j)' = "running"
      /\ \A i \in Jobs : /\ KindOf(i)' = KindOf(i) /\ job'[i].plan = job[i].plan
                         /\ i # j => StateOf(i)' = StateOf(i) /\ job'[i] = job[i]
  BY <1>1, MoveOne DEF IInv, States, ACTIVE_STATES
<1>4. TypeOK'
  BY <1>3 DEF IInv, TypeOK, Claim, requestVars
<1>5. Moved
  BY <1>1, <1>2, <1>3 DEF Moved
<1>6. QED BY <1>4, <1>5

\* A package's body settles on a job.
LEMMA RedactionSourceType ==
    ASSUME IInv, NEW j \in Jobs
    PROVE  RedactionSource(j) \in Jobs \cup {None}
<1>1. job[j].plan \in PlanType
  BY DEF IInv, TypeOK, JobType
<1>2. Source(j) \in Jobs \cup {None}
  BY <1>1 DEF PlanType, Source
<1>3. \A k \in Kinds : Member(j, k) \in Jobs \cup {None}
  BY <1>1 DEF PlanType, Member
<1>4. Newest(Redactions(Source(j), rules)) \in Jobs \cup {None}
  BY NewestType DEF Redactions
<1>5. QED BY <1>2, <1>3, <1>4 DEF RedactionSource, Kinds

\* A body that has looked at what it needs moves nothing.
LEMMA ResolveMoves ==
    ASSUME IInv, Resolve
    PROVE  TypeOK' /\ Moved
<1>1. wjob \in Jobs
  BY WorkersJob DEF Resolve
<1>2. wfrom' \in Jobs \cup {None}
  BY <1>1, RedactionSourceType DEF Resolve
<1>3. TypeOK'
  BY <1>2 DEF IInv, TypeOK, Resolve, requestVars
<1>4. Moved
  BY DEF Moved, Resolve, KindOf, StateOf
<1>5. QED BY <1>3, <1>4

\* A body that succeeds stores its files.
LEMMA SucceedMoves ==
    ASSUME IInv, Succeed
    PROVE  TypeOK' /\ Moved
<1> DEFINE stored == ToSet(Outputs(wjob))
<1>1. wjob \in Jobs /\ StateOf(wjob) = "running" /\ stored \subseteq FileNames
  BY WorkersJob, OutputsAreFiles DEF Succeed
<1>2. /\ job' = WithState(wjob, "succeeded") /\ files' = [files EXCEPT ![wjob] = stored]
      /\ used' = [used EXCEPT ![wjob] = RulesApplied(stored)]
      /\ masked' \in {masked, masked \cup {wjob}}
      /\ packed' = [packed EXCEPT ![wjob] = IF "package" \in stored THEN wfrom ELSE None]
      /\ UNCHANGED <<rules, requestVars, mishaps>>
      /\ wpc' = "idle" /\ wjob' = None /\ wfrom' = None
  BY DEF Succeed
<1> HIDE DEF stored
<1>3. \A i \in Jobs : i # wjob => files'[i] = files[i] /\ used'[i] = used[i] /\ packed'[i] = packed[i]
  BY <1>2 DEF IInv, TypeOK
<1> PICK w \in Jobs : w = wjob
  BY <1>1
<1>4. /\ job' \in [Jobs -> JobType] /\ StateOf(w)' = "succeeded"
      /\ \A i \in Jobs : /\ KindOf(i)' = KindOf(i) /\ job'[i].plan = job[i].plan
                         /\ i # w => StateOf(i)' = StateOf(i) /\ job'[i] = job[i]
  BY <1>2, <1>3, MoveOne DEF IInv, States
<1>5. TypeOK'
  <2>1. RulesApplied(stored) \in RuleSets \cup {None}
    BY DEF RulesApplied, IInv, TypeOK
  <2>2. files' \in [Jobs -> SUBSET FileNames]
    BY <1>1, <1>2 DEF IInv, TypeOK
  <2>3. used' \in [Jobs -> RuleSets \cup {None}] /\ packed' \in [Jobs -> Jobs \cup {None}]
    BY <2>1, <1>2 DEF IInv, TypeOK
  <2>4. QED BY <1>1, <1>2, <1>4, <2>2, <2>3 DEF IInv, TypeOK, requestVars
<1>6. Moved
  BY <1>1, <1>2, <1>3, <1>4 DEF Moved
<1>7. QED BY <1>5, <1>6

\* A body that raises leaves what it had stored.
LEMMA RaiseMoves ==
    ASSUME IInv, wpc # "idle", Raise, mishaps' \in Nat, rules' \in RuleSets,
           todo' \in [Requests -> Seq(Kinds)], plan' \in [Requests -> PlanType],
           UNCHANGED <<used, masked, packed>>
    PROVE  TypeOK' /\ Moved
<1>1. wjob \in Jobs /\ StateOf(wjob) = "running" /\ KindOf(wjob) \in Kinds
  BY WorkersJob
<1>2. PICK left \in IF wpc = "body" THEN {{}} ELSE PartialOutputs(wjob) :
            files' = [files EXCEPT ![wjob] = left]
  BY DEF Raise
<1>3. left \subseteq FileNames
  BY <1>1, <1>2, PartialIsPart
<1>4. files' \in [Jobs -> SUBSET FileNames] /\ \A i \in Jobs : i # wjob => files'[i] = files[i]
  BY <1>1, <1>2, <1>3 DEF IInv, TypeOK
<1>5. job' = WithState(wjob, "failed") /\ wpc' = "idle" /\ wjob' = None /\ wfrom' = None
  BY DEF Raise
<1> PICK w \in Jobs : w = wjob
  BY <1>1
<1>6. /\ job' \in [Jobs -> JobType] /\ StateOf(w)' = "failed"
      /\ \A i \in Jobs : /\ KindOf(i)' = KindOf(i) /\ job'[i].plan = job[i].plan
                         /\ i # w => StateOf(i)' = StateOf(i) /\ job'[i] = job[i]
  BY <1>4, <1>5, MoveOne DEF IInv, States
<1>7. TypeOK'
  BY <1>4, <1>5, <1>6 DEF IInv, TypeOK
<1>8. Moved
  BY <1>1, <1>4, <1>6 DEF Moved
<1>9. QED BY <1>7, <1>8

\* A request that has nothing left to enqueue.
LEMMA EmptyPlans ==
    /\ NoPlan \in PlanType /\ Named(NoPlan) = {}
    /\ [r \in Requests |-> <<>>] \in [Requests -> Seq(Kinds)]
    /\ [r \in Requests |-> NoPlan] \in [Requests -> PlanType]
<1>1. NothingMade \in [Kinds -> Jobs \cup {None}]
  BY DEF NothingMade
<1>2. NoPlan \in PlanType
  BY <1>1 DEF NoPlan, PlanType
<1>3. Named(NoPlan) = {}
  BY DEF Named, NoPlan, NothingMade
<1>4. <<>> \in Seq(Kinds)
  OBVIOUS
<1>5. QED BY <1>2, <1>3, <1>4

\* A job that is over changes its state only when a step says so.
LEMMA EndMoves ==
    ASSUME IInv, NEW j \in Jobs,
           \/ StateOf(j) = "queued" /\ job' = WithState(j, "failed") /\ files' = files
           \/ /\ StateOf(j) \in {"succeeded", "failed"} /\ job' = WithState(j, "deleted")
              /\ files' = [files EXCEPT ![j] = {}],
           mishaps' \in Nat, UNCHANGED <<rules, used, masked, packed, workerVars, requestVars>>
    PROVE  TypeOK' /\ Moved
<1>1. files' \in [Jobs -> SUBSET FileNames]
  BY DEF IInv, TypeOK
<1>2. \A i \in Jobs : i # j => files'[i] = files[i]
  BY DEF IInv, TypeOK
<1>3. PICK s \in {"failed", "deleted"} :
        /\ job' = WithState(j, s)
        /\ \/ StateOf(j) = "queued" /\ s = "failed"
           \/ StateOf(j) \in {"succeeded", "failed"} /\ s = "deleted" /\ files'[j] = {}
  BY DEF IInv, TypeOK
<1>4. /\ job' \in [Jobs -> JobType] /\ StateOf(j)' = s
      /\ \A i \in Jobs : /\ KindOf(i)' = KindOf(i) /\ job'[i].plan = job[i].plan
                         /\ i # j => StateOf(i)' = StateOf(i) /\ job'[i] = job[i]
  BY <1>2, <1>3, MoveOne DEF IInv, States
<1>5. TypeOK'
  BY <1>1, <1>4 DEF IInv, TypeOK, workerVars, requestVars
<1>6. Moved
  BY <1>2, <1>3, <1>4 DEF Moved
<1>7. QED BY <1>5, <1>6

\* Neither a cancellation nor a deletion does more.
LEMMA CancelDeleteMove ==
    ASSUME IInv, NEW j \in Jobs, Cancel(j) \/ Delete(j)
    PROVE  TypeOK' /\ Moved
<1>1. mishaps' \in Nat
  BY DEF Cancel, Delete, Mishap, IInv, TypeOK
<1>2. QED BY <1>1, EndMoves DEF Cancel, Delete

\* A body that raises, for any reason.
LEMMA FailuresMove ==
    ASSUME IInv, Refuse \/ Fail \/ Restart
    PROVE  TypeOK' /\ Moved
<1>1. mishaps' \in Nat
  BY DEF Refuse, Fail, Restart, Mishap, IInv, TypeOK
<1>2. rules' \in RuleSets /\ UNCHANGED <<used, masked, packed>>
  BY DEF Refuse, Fail, Restart, IInv, TypeOK
<1>3. todo' \in [Requests -> Seq(Kinds)] /\ plan' \in [Requests -> PlanType]
  BY EmptyPlans DEF Refuse, Fail, Restart, IInv, TypeOK, requestVars
<1>4. CASE Raise /\ wpc # "idle"
  BY <1>1, <1>2, <1>3, <1>4, RaiseMoves
<1>5. CASE UNCHANGED <<job, files, workerVars>>
  BY <1>1, <1>2, <1>3, <1>5 DEF Moved, IInv, TypeOK, workerVars, KindOf, StateOf
<1>6. QED BY <1>4, <1>5 DEF Refuse, Fail, Restart, IInv, WorkerInStep

\* A change of the rules changes nothing else.
LEMMA ChangeRulesMoves ==
    ASSUME IInv, NEW on \in RuleSets, ChangeRules(on)
    PROVE  TypeOK' /\ Moved
<1>1. mishaps' \in Nat
  BY DEF ChangeRules, Mishap, IInv, TypeOK
<1>2. QED BY <1>1 DEF ChangeRules, IInv, TypeOK, Moved, workerVars, requestVars, KindOf, StateOf

\* The kinds are told apart.
LEMMA KindsDiffer ==
    /\ {COLLECT, EXTRACT, REDACT, FINDINGS, INVENTORY, PACKAGE} = Kinds
    /\ PACKAGE \notin {COLLECT, EXTRACT, REDACT, FINDINGS, INVENTORY}
    /\ COLLECT \notin {EXTRACT, REDACT, FINDINGS, INVENTORY}
    /\ REDACT \notin {EXTRACT, FINDINGS, INVENTORY}
    /\ EXTRACT \notin {FINDINGS, INVENTORY} /\ FINDINGS # INVENTORY
    /\ "none" \notin Kinds
<1>1. QED BY DEF Kinds, COLLECT, EXTRACT, REDACT, FINDINGS, INVENTORY, PACKAGE

\* The members of a concatenation.
LEMMA ConcatHolds ==
    ASSUME NEW S, NEW s \in Seq(S), NEW t \in Seq(S)
    PROVE  s \o t \in Seq(S) /\ ToSet(s \o t) = ToSet(s) \cup ToSet(t)
<1> DEFINE st == s \o t
<1>1. st \in Seq(S) /\ Len(st) = Len(s) + Len(t)
  OBVIOUS
<1>2. \A i \in 1..Len(s) : st[i] = s[i] /\ i \in 1..Len(st)
  OBVIOUS
<1>3. \A i \in 1..Len(t) : st[i + Len(s)] = t[i] /\ i + Len(s) \in 1..Len(st)
  OBVIOUS
<1>4. \A i \in 1..Len(st) :
        i \in 1..Len(s) \/ (i - Len(s) \in 1..Len(t) /\ i = (i - Len(s)) + Len(s))
  BY <1>1
<1>5. DOMAIN st = 1..Len(st) /\ DOMAIN s = 1..Len(s) /\ DOMAIN t = 1..Len(t)
  BY <1>1
<1> HIDE DEF st
<1>6. ASSUME NEW i \in 1..Len(st) PROVE st[i] \in ToSet(s) \cup ToSet(t)
  <2>1. CASE i \in 1..Len(s)
    BY <1>2, <1>5, <2>1 DEF ToSet
  <2>2. CASE i - Len(s) \in 1..Len(t) /\ i = (i - Len(s)) + Len(s)
    <3>1. st[i] = t[i - Len(s)]
      BY <1>3, <2>2
    <3>2. QED BY <1>5, <2>2, <3>1 DEF ToSet
  <2>3. QED BY <1>4, <2>1, <2>2
<1>7. \A i \in 1..Len(s) : s[i] \in ToSet(st)
  BY <1>2, <1>5 DEF ToSet
<1>8. ASSUME NEW i \in 1..Len(t) PROVE t[i] \in ToSet(st)
  <2>1. st[i + Len(s)] = t[i] /\ i + Len(s) \in DOMAIN st
    BY <1>3, <1>5
  <2>2. QED BY <2>1 DEF ToSet
<1>9. ToSet(st) = ToSet(s) \cup ToSet(t)
  BY <1>5, <1>6, <1>7, <1>8 DEF ToSet
<1>10. QED BY <1>1, <1>9 DEF st

\* A chain is a sequence of kinds, with the package at its end.
EndsWithPackage(t) ==
    t \in Seq(Kinds) /\ \A n \in 1..Len(t) : t[n] = PACKAGE => n = Len(t)

\* What the chains of the routes hold.
LEMMA ChainHolds ==
    ASSUME NEW extract \in Seq(Kinds), NEW redact \in Seq(Kinds),
           PACKAGE \notin ToSet(extract), PACKAGE \notin ToSet(redact)
    PROVE  /\ EndsWithPackage(Chain(extract, redact))
           /\ ToSet(Chain(extract, redact)) =
                ToSet(extract) \cup {FINDINGS, INVENTORY} \cup ToSet(redact) \cup {PACKAGE}
<1> DEFINE a == extract \o <<FINDINGS, INVENTORY>>
           b == a \o redact
           t == b \o <<PACKAGE>>
<1>1. Chain(extract, redact) = t
  BY DEF Chain
<1>2. <<FINDINGS, INVENTORY>> \in Seq(Kinds) /\ <<PACKAGE>> \in Seq(Kinds)
  BY KindsDiffer
<1>3. a \in Seq(Kinds) /\ ToSet(a) = ToSet(extract) \cup {FINDINGS, INVENTORY}
  <2>1. a \in Seq(Kinds) /\ ToSet(a) = ToSet(extract) \cup ToSet(<<FINDINGS, INVENTORY>>)
    <3> DEFINE pair == <<FINDINGS, INVENTORY>>
    <3>1. pair \in Seq(Kinds)
      BY <1>2
    <3> HIDE DEF pair
    <3>2. extract \o pair \in Seq(Kinds) /\ ToSet(extract \o pair) = ToSet(extract) \cup ToSet(pair)
      BY ONLY <3>1, extract \in Seq(Kinds), ConcatHolds, ZenonT(30)
    <3>3. QED BY <3>2 DEF pair
  <2>2. QED BY <2>1, ToSet2
<1>4. b \in Seq(Kinds) /\ ToSet(b) = ToSet(a) \cup ToSet(redact)
  <2> HIDE DEF a
  <2> QED BY ONLY <1>3, redact \in Seq(Kinds), ConcatHolds, ZenonT(30)
<1>5. t \in Seq(Kinds) /\ ToSet(t) = ToSet(b) \cup {PACKAGE}
  <2> HIDE DEF b
  <2>1. t \in Seq(Kinds) /\ ToSet(t) = ToSet(b) \cup ToSet(<<PACKAGE>>)
    <3> DEFINE last == <<PACKAGE>>
    <3>1. last \in Seq(Kinds) /\ b \in Seq(Kinds)
      BY <1>2, <1>4
    <3> HIDE DEF a, last
    <3>2. b \o last \in Seq(Kinds) /\ ToSet(b \o last) = ToSet(b) \cup ToSet(last)
      BY ONLY <3>1, ConcatHolds, ZenonT(30)
    <3>3. QED BY <3>2 DEF last
  <2>2. QED BY <2>1, ToSet1
<1>6. PACKAGE \notin ToSet(b)
  BY <1>3, <1>4, KindsDiffer
<1>7. ASSUME NEW n \in 1..Len(t), t[n] = PACKAGE PROVE n = Len(t)
  <2> HIDE DEF b
  <2>1. Len(t) = Len(b) + 1 /\ \A i \in 1..Len(b) : t[i] = b[i]
    BY <1>4
  <2>2. \A i \in 1..Len(b) : b[i] # PACKAGE
    BY <1>4, <1>6 DEF ToSet
  <2>3. n \notin 1..Len(b)
    BY <1>7, <2>1, <2>2
  <2>4. QED BY <2>1, <2>3, <1>4
<1> HIDE DEF a, b, t
<1>8. QED BY <1>1, <1>3, <1>4, <1>5, <1>7 DEF EndsWithPackage

\* The same behind a collection.
LEMMA FrontHolds ==
    ASSUME NEW t, EndsWithPackage(t)
    PROVE  /\ EndsWithPackage(<<COLLECT>> \o t)
           /\ ToSet(<<COLLECT>> \o t) = {COLLECT} \cup ToSet(t)
<1>1. <<COLLECT>> \in Seq(Kinds) /\ t \in Seq(Kinds)
  BY KindsDiffer DEF EndsWithPackage
<1>2. <<COLLECT>> \o t \in Seq(Kinds) /\ ToSet(<<COLLECT>> \o t) = {COLLECT} \cup ToSet(t)
  <2>1. /\ <<COLLECT>> \o t \in Seq(Kinds)
        /\ ToSet(<<COLLECT>> \o t) = ToSet(<<COLLECT>>) \cup ToSet(t)
    <3> DEFINE front == <<COLLECT>>
    <3>1. front \in Seq(Kinds)
      BY <1>1
    <3> HIDE DEF front
    <3>2. front \o t \in Seq(Kinds) /\ ToSet(front \o t) = ToSet(front) \cup ToSet(t)
      BY ONLY <1>1, <3>1, ConcatHolds, ZenonT(30)
    <3>3. QED BY <3>2 DEF front
  <2>2. QED BY <2>1, ToSet1
<1>3. ASSUME NEW n \in 1..Len(<<COLLECT>> \o t), (<<COLLECT>> \o t)[n] = PACKAGE
      PROVE  n = Len(<<COLLECT>> \o t)
  <2>1. Len(<<COLLECT>> \o t) = 1 + Len(t) /\ (<<COLLECT>> \o t)[1] = COLLECT
    BY <1>1
  <2>2. n # 1
    BY <1>3, <2>1, KindsDiffer
  <2>3. n - 1 \in 1..Len(t) /\ t[n - 1] = PACKAGE
    BY <1>1, <1>3, <2>1, <2>2
  <2>4. n - 1 = Len(t)
    BY <2>3 DEF EndsWithPackage
  <2>5. QED BY <1>1, <2>1, <2>4
<1>4. QED BY <1>2, <1>3 DEF EndsWithPackage

\* The sequences that the routes put together.
LEMMA ShortSequences ==
    /\ <<>> \in Seq(Kinds) /\ ToSet(<<>>) = {}
    /\ \A k \in Kinds : <<k>> \in Seq(Kinds) /\ ToSet(<<k>>) = {k}
<1>1. <<>> \in Seq(Kinds) /\ \A k \in Kinds : <<k>> \in Seq(Kinds)
  OBVIOUS
<1>2. ToSet(<<>>) = {}
  <2>1. DOMAIN <<>> = {}
    OBVIOUS
  <2>2. QED BY <2>1 DEF ToSet
<1>3. QED BY <1>1, <1>2, ToSet1

\* A request without a package in it.
LEMMA PlainRequest ==
    ASSUME NEW t \in Seq(Kinds), NEW p, p.made = NothingMade, PACKAGE \notin ToSet(t),
           p.source # None => p.source \in Jobs /\ StateOf(p.source) # "absent",
           p.source = None \/ COLLECT \notin ToSet(t)
    PROVE  RequestOK(t, p)
<1>1. \A k \in Kinds : p.made[k] = None
  BY DEF NothingMade
<1>2. \A i \in Named(p) : i \in Jobs /\ StateOf(i) # "absent"
  BY <1>1 DEF Named
<1>3. \A n \in 1..Len(t) : t[n] # PACKAGE
  BY DEF ToSet
<1>4. QED BY <1>1, <1>2, <1>3, KindsDiffer DEF RequestOK, MadeKnown

\* collect_and_package begins a whole chain.
LEMMA CollectAndPackageBegins ==
    ASSUME IInv, NEW r \in Requests, NEW extract \in {<<>>, <<EXTRACT>>},
           StartCollectAndPackage(r, extract)
    PROVE  \E t \in Seq(Kinds), p \in PlanType : Begin(r, t, p) /\ RequestOK(t, p)
<1> DEFINE t == <<COLLECT>> \o Chain(extract, <<>>)
           p == [NoPlan EXCEPT !.redact = TRUE, !.rules = rules]
<1>1. extract \in Seq(Kinds) /\ ToSet(extract) \subseteq {EXTRACT}
  BY ShortSequences, KindsDiffer
<1>2. EndsWithPackage(t) /\ {COLLECT, FINDINGS, INVENTORY} \subseteq ToSet(t) /\ REDACT \notin ToSet(t)
  <2>1. /\ EndsWithPackage(Chain(extract, <<>>))
        /\ ToSet(Chain(extract, <<>>)) =
              ToSet(extract) \cup {FINDINGS, INVENTORY} \cup ToSet(<<>>) \cup {PACKAGE}
    <3>1. PACKAGE \notin ToSet(extract) /\ PACKAGE \notin ToSet(<<>>) /\ <<>> \in Seq(Kinds)
      BY <1>1, ShortSequences, KindsDiffer
    <3>2. PICK e \in Seq(Kinds), d \in Seq(Kinds) : e = extract /\ d = <<>>
      BY <1>1, <3>1
    <3>3. /\ EndsWithPackage(Chain(e, d))
          /\ ToSet(Chain(e, d)) =
                ToSet(e) \cup {FINDINGS, INVENTORY} \cup ToSet(d) \cup {PACKAGE}
      BY <1>1, <3>1, <3>2, ChainHolds
    <3>4. QED BY <3>2, <3>3
  <2>2. QED BY <1>1, <2>1, FrontHolds, ShortSequences, KindsDiffer
<1>3. p \in PlanType /\ p.made = NothingMade /\ p.source = None /\ p.relied = None /\ p.redact
  <2>1. NoPlan \in PlanType /\ rules \in RuleSets
    BY EmptyPlans DEF IInv, TypeOK
  <2>2. QED BY <2>1 DEF PlanType, NoPlan
<1> HIDE DEF t, p
<1>4. \A k \in Kinds : p.made[k] = None
  BY <1>3 DEF NothingMade
<1>5. RequestOK(t, p)
  <2>1. Named(p) = {} /\ MadeKnown(p) /\ p.made[COLLECT] = None
    BY <1>3, <1>4, KindsDiffer DEF Named, MadeKnown
  <2>2. PackageAhead(t, p)
    BY <1>2, <1>3, <1>4, KindsDiffer DEF PackageAhead, Coming, ReliedKnown
  <2>3. QED BY <1>2, <1>3, <2>1, <2>2 DEF RequestOK, EndsWithPackage
<1>6. Begin(r, t, p)
  BY DEF StartCollectAndPackage, t, p
<1>7. QED BY <1>2, <1>3, <1>5, <1>6 DEF EndsWithPackage

\* package_collection begins a chain with a redacted copy in it, or one to rely on, unless
\* the collection has failed.
LEMMA PackageBegins ==
    ASSUME IInv, NEW r \in Requests, NEW c \in Jobs, NEW dated \in BOOLEAN,
           StartPackage(r, c, dated)
    PROVE  \E t \in Seq(Kinds), p \in PlanType : Begin(r, t, p) /\ RequestOK(t, p)
<1> DEFINE earlier == Newest(Redactions(c, rules))
           p == [NoPlan EXCEPT !.source = c, !.rules = rules, !.relied = earlier]
           redact == IF "logs" \in files[c] /\ earlier = None THEN <<REDACT>> ELSE <<>>
           t == IF dated THEN Chain(<<EXTRACT>>, <<>>) ELSE Chain(<<>>, redact)
<1>1. /\ KindOf(c) = COLLECT /\ StateOf(c) # "deleted" /\ ~Busy
      /\ dated => "logs" \in files[c]
      /\ Begin(r, t, p)
  BY DEF StartPackage
<1>2. earlier \in Jobs \cup {None} /\ (earlier # None => earlier \in Redactions(c, rules))
  <2>1. Redactions(c, rules) \in SUBSET Jobs
    BY DEF Redactions
  <2>2. QED BY <2>1, NewestIsOne DEF Newest
<1>3. p \in PlanType /\ p.made = NothingMade /\ p.source = c /\ p.relied = earlier /\ p.rules = rules
  <2>1. NoPlan \in PlanType /\ rules \in RuleSets
    BY EmptyPlans DEF IInv, TypeOK
  <2> HIDE DEF earlier
  <2>2. QED BY <2>1, <1>2 DEF PlanType, NoPlan
<1>4. \A k \in Kinds : p.made[k] = None
  BY <1>3 DEF NothingMade
<1>5. c \in Jobs /\ c # None /\ StateOf(c) # "absent"
  BY <1>1, KindsDiffer DEF IInv, KindsKnown, Jobs, None, NoJob, KindOf
<1>6. ReliedKnown(p)
  BY <1>2, <1>3 DEF ReliedKnown, Redactions
<1>7. redact \in {<<>>, <<REDACT>>}
  OBVIOUS
<1>8. "logs" \in files[c] \/ StateOf(c) = "failed"
  <2>1. StateOf(c) \notin ACTIVE_STATES
    BY <1>1, KindsDiffer DEF Busy, HasActive
  <2>2. StateOf(c) \in States
    BY DEF IInv, TypeOK, JobType, StateOf
  <2>3. CASE StateOf(c) = "succeeded"
    <3>1. files[c] = ToSet(Outputs(c))
      BY <2>3 DEF IInv, StoredInStep
    <3>2. QED BY <3>1, <1>1, OutputsOfKinds
  <2>4. QED BY <1>1, <1>5, <2>1, <2>2, <2>3 DEF States, ACTIVE_STATES
<1> HIDE DEF p, redact, earlier
<1>9. /\ EndsWithPackage(t) /\ {FINDINGS, INVENTORY} \subseteq ToSet(t) /\ COLLECT \notin ToSet(t)
      /\ IF dated THEN EXTRACT \in ToSet(t) ELSE REDACT \in ToSet(t) \/ redact = <<>>
  <2>1. CASE dated
    <3>1. <<EXTRACT>> \in Seq(Kinds) /\ ToSet(<<EXTRACT>>) = {EXTRACT}
      BY ShortSequences, KindsDiffer
    <3>2. /\ EndsWithPackage(t)
          /\ ToSet(t) = ToSet(<<EXTRACT>>) \cup {FINDINGS, INVENTORY} \cup ToSet(<<>>) \cup {PACKAGE}
      <4>1. PACKAGE \notin ToSet(<<EXTRACT>>) /\ PACKAGE \notin ToSet(<<>>) /\ <<>> \in Seq(Kinds)
        BY <3>1, ShortSequences, KindsDiffer
      <4>2. PICK e \in Seq(Kinds), d \in Seq(Kinds) : e = <<EXTRACT>> /\ d = <<>>
        BY <3>1, <4>1
      <4>3. /\ EndsWithPackage(Chain(e, d))
            /\ ToSet(Chain(e, d)) =
                  ToSet(e) \cup {FINDINGS, INVENTORY} \cup ToSet(d) \cup {PACKAGE}
        BY <4>1, <4>2, ChainHolds
      <4>4. QED BY <2>1, <4>2, <4>3
    <3>3. QED BY <2>1, <3>1, <3>2, ShortSequences, KindsDiffer
  <2>2. CASE ~dated
    <3>1. redact \in Seq(Kinds) /\ ToSet(redact) \subseteq {REDACT}
              /\ (redact # <<>> => REDACT \in ToSet(redact))
      BY <1>7, ShortSequences, KindsDiffer
    <3>2. /\ EndsWithPackage(t)
          /\ ToSet(t) = ToSet(<<>>) \cup {FINDINGS, INVENTORY} \cup ToSet(redact) \cup {PACKAGE}
      <4>1. /\ PACKAGE \notin ToSet(redact) /\ PACKAGE \notin ToSet(<<>>)
            /\ <<>> \in Seq(Kinds)
        BY <3>1, ShortSequences, KindsDiffer
      <4>2. PICK e \in Seq(Kinds), d \in Seq(Kinds) : e = <<>> /\ d = redact
        BY <3>1, <4>1
      <4>3. /\ EndsWithPackage(Chain(e, d))
            /\ ToSet(Chain(e, d)) =
                  ToSet(e) \cup {FINDINGS, INVENTORY} \cup ToSet(d) \cup {PACKAGE}
        BY <4>1, <4>2, ChainHolds
      <4>4. QED BY <2>2, <4>2, <4>3
    <3>3. QED BY <2>2, <3>1, <3>2, ShortSequences, KindsDiffer
  <2>3. QED BY <2>1, <2>2
<1>10. redact = <<>> /\ "logs" \in files[c] => earlier # None \/ dated
  BY DEF redact
<1>11. PackageAhead(t, p)
  <2>1. Coming(t, p, FINDINGS) /\ Coming(t, p, INVENTORY) /\ ~Coming(t, p, COLLECT)
    BY <1>4, <1>9, KindsDiffer DEF Coming
  <2>2. \/ Coming(t, p, EXTRACT) \/ Coming(t, p, REDACT) \/ p.relied # None
        \/ StateOf(p.source) \in {"failed", "deleted"}
    BY <1>3, <1>8, <1>9, <1>10 DEF Coming
  <2>3. QED BY <1>1, <1>3, <1>5, <1>6, <2>1, <2>2 DEF PackageAhead
<1>12. RequestOK(t, p)
  <2>1. \A i \in Named(p) : i \in Jobs /\ StateOf(i) # "absent"
    BY <1>3, <1>4, <1>5 DEF Named
  <2>2. MadeKnown(p) /\ p.made[COLLECT] = None
    BY <1>4, KindsDiffer DEF MadeKnown
  <2>3. QED BY <1>9, <1>11, <2>1, <2>2 DEF RequestOK, EndsWithPackage
<1>13. QED BY <1>1, <1>3, <1>9, <1>12 DEF EndsWithPackage

\* Every other route begins without a package.
LEMMA OthersBegin ==
    ASSUME IInv, NEW r \in Requests,
           \/ \E redact \in BOOLEAN, extract \in {<<>>, <<EXTRACT>>} :
                StartCollection(r, redact, extract)
           \/ \E c \in Jobs : StartExtraction(r, c) \/ StartRedaction(r, c)
    PROVE  \E t \in Seq(Kinds), p \in PlanType : Begin(r, t, p) /\ RequestOK(t, p)
<1>1. CASE \E redact \in BOOLEAN, extract \in {<<>>, <<EXTRACT>>} :
            StartCollection(r, redact, extract)
  <2>1. PICK redact \in BOOLEAN, extract \in {<<>>, <<EXTRACT>>} :
            StartCollection(r, redact, extract)
    BY <1>1
  <2> DEFINE t == <<COLLECT>> \o extract
             p == [NoPlan EXCEPT !.redact = redact]
  <2>2. p \in PlanType /\ p.made = NothingMade /\ p.source = None
    BY EmptyPlans DEF PlanType, NoPlan
  <2>3. t \in Seq(Kinds) /\ PACKAGE \notin ToSet(t)
    <3>1. <<COLLECT>> \in Seq(Kinds) /\ ToSet(<<COLLECT>>) = {COLLECT}
      BY ShortSequences, KindsDiffer
    <3>2. extract \in Seq(Kinds) /\ ToSet(extract) \subseteq {EXTRACT}
      BY ShortSequences, KindsDiffer
    <3>3. PICK front \in Seq(Kinds), back \in Seq(Kinds) : front = <<COLLECT>> /\ back = extract
      BY <3>1, <3>2
    <3>4. front \o back \in Seq(Kinds) /\ ToSet(front \o back) = ToSet(front) \cup ToSet(back)
      BY ConcatHolds
    <3>5. QED BY <3>1, <3>2, <3>3, <3>4, KindsDiffer
  <2>4. Begin(r, t, p)
    BY <2>1 DEF StartCollection
  <2> HIDE DEF t, p
  <2>5. QED BY <2>2, <2>3, <2>4, PlainRequest
<1>2. CASE \E c \in Jobs : StartExtraction(r, c) \/ StartRedaction(r, c)
  <2>1. PICK c \in Jobs : StartExtraction(r, c) \/ StartRedaction(r, c)
    BY <1>2
  <2> DEFINE p == [NoPlan EXCEPT !.source = c]
  <2>2. PICK k \in {EXTRACT, REDACT} : Begin(r, <<k>>, p)
    BY <2>1 DEF StartExtraction, StartRedaction
  <2>3. StateOf(c) # "absent"
    BY <2>1 DEF StartExtraction, StartRedaction, IInv, KindsKnown
  <2>4. p \in PlanType /\ p.made = NothingMade /\ p.source = c
    BY EmptyPlans DEF PlanType, NoPlan
  <2>5. <<k>> \in Seq(Kinds) /\ PACKAGE \notin ToSet(<<k>>) /\ COLLECT \notin ToSet(<<k>>)
    BY ShortSequences, KindsDiffer
  <2> HIDE DEF p
  <2>6. RequestOK(<<k>>, p)
    BY <2>3, <2>4, <2>5, PlainRequest
  <2>7. QED BY <2>2, <2>4, <2>5, <2>6
<1>3. QED BY <1>1, <1>2

-----------------------------------------------------------------------------
(* What requests and packages know stays so *)

\* A job that is there keeps what others may know of it.
Kept ==
    \A i \in Jobs : StateOf(i) # "absent" =>
        /\ StateOf(i)' # "absent" /\ KindOf(i)' = KindOf(i) /\ job'[i].plan = job[i].plan
        /\ StateOf(i) \in {"failed", "deleted"} => StateOf(i)' \in {"failed", "deleted"}
        /\ StateOf(i) \in {"succeeded", "deleted"} =>
            StateOf(i)' \in {"succeeded", "deleted"} /\ used'[i] = used[i]

\* A move keeps it.
LEMMA MovedKept ==
    ASSUME Moved
    PROVE  Kept
<1>1. QED BY DEF Moved, Kept

\* What a route relied on stays what it was.
LEMMA ReliedKept ==
    ASSUME IInv, Kept, NEW p \in PlanType, ReliedKnown(p)
    PROVE  ReliedKnown(p)'
<1>1. CASE p.relied = None
  BY <1>1 DEF ReliedKnown
<1>2. CASE p.relied # None
  <2>1. p.relied \in Jobs
    BY <1>2 DEF PlanType
  <2>2. QED BY <1>2, <2>1 DEF ReliedKnown, Kept, Source
<1>3. QED BY <1>1, <1>2

\* The jobs that a request has made keep their kinds.
LEMMA MadeKept ==
    ASSUME IInv, Kept, NEW p, MadeKnown(p), \A i \in Named(p) : i \in Jobs /\ StateOf(i) # "absent"
    PROVE  MadeKnown(p)'
<1>1. \A k \in Kinds : p.made[k] # None => p.made[k] \in Named(p)
  BY DEF Named
<1>2. QED BY <1>1 DEF MadeKnown, Kept

\* What a request knows stays true.
LEMMA RequestKept ==
    ASSUME IInv, Kept, NEW t \in Seq(Kinds), NEW p \in PlanType, RequestOK(t, p)
    PROVE  RequestOK(t, p)'
<1>1. \A i \in Named(p) : i \in Jobs /\ StateOf(i) # "absent"
  BY DEF RequestOK
<1>2. (\A i \in Named(p) : i \in Jobs /\ StateOf(i) # "absent")'
  BY <1>1 DEF Kept
<1>3. MadeKnown(p)'
  BY <1>1, MadeKept DEF RequestOK
<1>4. p.source # None => p.source \in Named(p)
  BY DEF Named
<1>5. p.made[COLLECT] # None =>
        p.source = None /\ job'[p.made[COLLECT]].plan.redact = p.redact
  <2>1. p.made[COLLECT] # None => p.made[COLLECT] \in Named(p)
    BY KindsDiffer DEF Named
  <2>2. QED BY <1>1, <2>1 DEF RequestOK, Kept
<1>6. ASSUME PACKAGE \in ToSet(t) PROVE PackageAhead(t, p)'
  <2>1. PackageAhead(t, p)
    BY <1>6 DEF RequestOK
  <2>2. ReliedKnown(p)'
    BY <2>1, ReliedKept DEF PackageAhead
  <2>3. \A k \in Kinds : Coming(t, p, k)' <=> Coming(t, p, k)
    BY DEF Coming
  <2>4. p.source # None => /\ KindOf(p.source)' = KindOf(p.source)
                           /\ StateOf(p.source) \in {"failed", "deleted"} =>
                                StateOf(p.source)' \in {"failed", "deleted"}
    BY <1>1, <1>4 DEF Kept
  <2>5. QED BY <2>1, <2>2, <2>3, <2>4, KindsDiffer DEF PackageAhead
<1>7. QED BY <1>2, <1>3, <1>5, <1>6 DEF RequestOK

\* What a package knows stays true.
LEMMA PackageKept ==
    ASSUME IInv, Kept, NEW p \in PlanType, PackageOK(p),
           \A i \in Named(p) : i \in Jobs /\ StateOf(i) # "absent"
    PROVE  PackageOK(p)'
<1>1. p.source \in Named(p)
  BY DEF Named, PackageOK
<1>2. MadeKnown(p)' /\ ReliedKnown(p)'
  BY MadeKept, ReliedKept DEF PackageOK
<1>3. /\ KindOf(p.source)' = KindOf(p.source)
      /\ job'[p.source].plan = job[p.source].plan
      /\ StateOf(p.source) \in {"failed", "deleted"} => StateOf(p.source)' \in {"failed", "deleted"}
  BY <1>1 DEF Kept
<1>4. QED BY <1>2, <1>3 DEF PackageOK

\* Whom a job was queued after is there.
LEMMA NamedAreThere ==
    ASSUME IInv, NEW j \in Jobs, StateOf(j) # "absent"
    PROVE  \A i \in Named(job[j].plan) : i \in Jobs /\ i < j /\ StateOf(i) # "absent"
<1>1. QED BY DEF IInv, AfterEarlier, QueueFilled

-----------------------------------------------------------------------------
(* One enqueue of a route *)

\* The first kind of a sequence, and the rest.
LEMMA HeadAndTail ==
    ASSUME NEW t \in Seq(Kinds), t # <<>>
    PROVE  /\ Head(t) \in Kinds /\ Tail(t) \in Seq(Kinds) /\ Len(Tail(t)) = Len(t) - 1
           /\ Head(t) = t[1] /\ \A n \in 1..Len(Tail(t)) : Tail(t)[n] = t[n + 1]
           /\ Len(t) \in Nat \ {0}
           /\ ToSet(t) = {Head(t)} \cup ToSet(Tail(t))
<1>1. /\ Head(t) \in Kinds /\ Tail(t) \in Seq(Kinds) /\ Len(Tail(t)) = Len(t) - 1
      /\ Head(t) = t[1] /\ \A n \in 1..Len(Tail(t)) : Tail(t)[n] = t[n + 1]
      /\ Len(t) \in Nat \ {0}
  OBVIOUS
<1>2. DOMAIN t = 1..Len(t) /\ DOMAIN Tail(t) = 1..Len(Tail(t))
  BY <1>1
<1>3. ASSUME NEW n \in 1..Len(t) PROVE t[n] \in {Head(t)} \cup ToSet(Tail(t))
  <2>1. CASE n = 1
    BY <1>1, <2>1
  <2>2. CASE n # 1
    <3>1. n - 1 \in 1..Len(Tail(t)) /\ Tail(t)[n - 1] = t[n]
      BY <1>1, <2>2
    <3>2. QED BY <3>1, <1>2 DEF ToSet
  <2>3. QED BY <2>1, <2>2
<1>4. Head(t) \in ToSet(t)
  BY <1>1, <1>2 DEF ToSet
<1>5. ASSUME NEW n \in 1..Len(Tail(t)) PROVE Tail(t)[n] \in ToSet(t)
  <2>1. n + 1 \in 1..Len(t) /\ Tail(t)[n] = t[n + 1]
    BY <1>1
  <2>2. QED BY <2>1, <1>2 DEF ToSet
<1>6. ToSet(t) = {Head(t)} \cup ToSet(Tail(t))
  BY <1>2, <1>3, <1>4, <1>5 DEF ToSet
<1>7. QED BY <1>1, <1>6

\* The job that an enqueue adds.
Added(r, j, k, c) ==
    [kind |-> k, state |-> "queued",
     plan |-> IF k = PACKAGE THEN [plan[r] EXCEPT !.source = c]
              ELSE [NoPlan EXCEPT !.source = c, !.redact = plan[r].redact],
     byJob |-> IF k = REDACT THEN Len(todo[r]) > 1 ELSE plan[r].source = None]

SourceFor(p) == IF p.source = None THEN p.made[COLLECT] ELSE p.source

\* What an enqueue does, taken apart.
EnqueuesAt(r, j, k, c) ==
    /\ todo[r] # <<>> /\ k = Head(todo[r]) /\ c = SourceFor(plan[r])
    /\ StateOf(j) = "absent" /\ \A i \in 1..(j - 1) : StateOf(i) # "absent"
    /\ job' = [job EXCEPT ![j] = Added(r, j, k, c)]
    /\ plan' = [plan EXCEPT ![r] = IF Len(todo[r]) = 1 THEN NoPlan
                                   ELSE [plan[r] EXCEPT !.made[k] = j]]
    /\ todo' = [todo EXCEPT ![r] = Tail(todo[r])]
    /\ UNCHANGED <<files, rules, used, masked, packed, workerVars, mishaps>>

\* Every enqueue is one of these.
LEMMA EnqueueIs ==
    ASSUME IInv, NEW r \in Requests, Enqueue(r)
    PROVE  \E j \in Jobs : \E k \in Kinds, c \in Jobs \cup {None} : EnqueuesAt(r, j, k, c)
<1>1. PICK j \in Jobs :
        /\ StateOf(j) = "absent" /\ \A i \in 1..(j - 1) : StateOf(i) # "absent"
        /\ job' = [job EXCEPT ![j] = Added(r, j, Head(todo[r]), SourceFor(plan[r]))]
        /\ plan' = [plan EXCEPT ![r] = IF Len(todo[r]) = 1 THEN NoPlan
                                       ELSE [plan[r] EXCEPT !.made[Head(todo[r])] = j]]
  BY DEF Enqueue, Added, SourceFor
<1>2. Head(todo[r]) \in Kinds
  BY HeadAndTail DEF Enqueue, IInv, TypeOK
<1>3. SourceFor(plan[r]) \in Jobs \cup {None}
  BY KindsDiffer DEF SourceFor, IInv, TypeOK, PlanType
<1>4. QED BY <1>1, <1>2, <1>3 DEF EnqueuesAt, Enqueue

\* What an enqueue adds is typed, and leaves the other jobs alone.
LEMMA EnqueueAdds ==
    ASSUME IInv, NEW r \in Requests, NEW j \in Jobs, NEW k \in Kinds, NEW c \in Jobs \cup {None},
           EnqueuesAt(r, j, k, c)
    PROVE  /\ TypeOK' /\ Kept
           /\ \A i \in Jobs : StateOf(i) # "absent" <=> i < j
           /\ \A i \in Jobs \ {j} : job'[i] = job[i] /\ StateOf(i)' = StateOf(i)
                                    /\ KindOf(i)' = KindOf(i)
           /\ job'[j] = Added(r, j, k, c)
           /\ KindOf(j)' = k /\ StateOf(j)' = "queued"
           /\ plan'[r] \in PlanType /\ todo'[r] = Tail(todo[r])
           /\ \A q \in Requests \ {r} : plan'[q] = plan[q] /\ todo'[q] = todo[q]
<1>1. /\ plan[r] \in PlanType /\ todo[r] \in Seq(Kinds) /\ Len(todo[r]) \in Nat \ {0}
      /\ Tail(todo[r]) \in Seq(Kinds)
  BY HeadAndTail DEF IInv, TypeOK, EnqueuesAt
<1>2. Added(r, j, k, c) \in JobType /\ Added(r, j, k, c).kind = k /\ Added(r, j, k, c).state = "queued"
  <2> DEFINE q == IF k = PACKAGE THEN [plan[r] EXCEPT !.source = c]
                  ELSE [NoPlan EXCEPT !.source = c, !.redact = plan[r].redact]
             b == IF k = REDACT THEN Len(todo[r]) > 1 ELSE plan[r].source = None
  <2>1. q \in PlanType
    BY <1>1, EmptyPlans DEF PlanType
  <2>2. b \in BOOLEAN
    <3>1. (Len(todo[r]) > 1) \in BOOLEAN
      BY SMT
    <3>2. (plan[r].source = None) \in BOOLEAN
      BY SMT
    <3>3. QED BY <3>1, <3>2
  <2>3. Added(r, j, k, c) = [kind |-> k, state |-> "queued", plan |-> q, byJob |-> b]
    BY DEF Added
  <2> HIDE DEF q, b
  <2>4. QED BY <2>1, <2>2, <2>3 DEF JobType, States, ACTIVE_STATES
<1>3. /\ job' \in [Jobs -> JobType] /\ job'[j] = Added(r, j, k, c)
      /\ \A i \in Jobs \ {j} : job'[i] = job[i]
  BY <1>2 DEF EnqueuesAt, IInv, TypeOK
<1>4. [plan[r] EXCEPT !.made[k] = j] \in PlanType
  BY <1>1 DEF PlanType
<1>5. plan' \in [Requests -> PlanType] /\ \A q \in Requests \ {r} : plan'[q] = plan[q]
  BY <1>4, EmptyPlans DEF EnqueuesAt, IInv, TypeOK
<1>6. /\ todo' \in [Requests -> Seq(Kinds)] /\ todo'[r] = Tail(todo[r])
      /\ \A q \in Requests \ {r} : todo'[q] = todo[q]
  BY <1>1 DEF EnqueuesAt, IInv, TypeOK
<1>7. TypeOK'
  BY <1>3, <1>5, <1>6 DEF EnqueuesAt, IInv, TypeOK, workerVars
<1>8. \A i \in Jobs : StateOf(i) # "absent" <=> i < j
  BY JobChainAssumption DEF EnqueuesAt, IInv, QueueFilled, Jobs
<1>9. \A i \in Jobs \ {j} : StateOf(i)' = StateOf(i) /\ KindOf(i)' = KindOf(i)
  BY <1>3 DEF StateOf, KindOf
<1>10. KindOf(j)' = k /\ StateOf(j)' = "queued"
  BY <1>2, <1>3 DEF KindOf, StateOf
<1>11. Kept
  BY <1>3, <1>8, <1>9 DEF Kept, EnqueuesAt, Jobs
<1>12. QED BY <1>3, <1>5, <1>6, <1>7, <1>8, <1>9, <1>10, <1>11

\* A request that has enqueued a job knows the same as before, and the new job.
LEMMA RequestGoesOn ==
    ASSUME IInv, NEW r \in Requests, NEW j \in Jobs, NEW k \in Kinds, NEW c \in Jobs \cup {None},
           EnqueuesAt(r, j, k, c)
    PROVE  RequestOK(todo[r], plan[r])'
<1> PICK t \in Seq(Kinds), p \in PlanType : t = todo[r] /\ p = plan[r]
  BY DEF IInv, TypeOK
<1> DEFINE rest == Tail(t)
           known == [p EXCEPT !.made[k] = j]
<1>1. /\ t \in Seq(Kinds) /\ t # <<>> /\ k = Head(t) /\ c = SourceFor(p)
      /\ p \in PlanType /\ RequestOK(t, p)
  BY DEF IInv, RequestsInStep, EnqueuesAt
<1>2. /\ rest \in Seq(Kinds) /\ Len(rest) = Len(t) - 1 /\ ToSet(t) = {k} \cup ToSet(rest)
      /\ k = t[1] /\ \A n \in 1..Len(rest) : rest[n] = t[n + 1]
      /\ Len(t) \in Nat \ {0}
  BY <1>1, HeadAndTail
<1>3. /\ todo'[r] = rest /\ Kept /\ KindOf(j)' = k /\ StateOf(j)' = "queued"
      /\ job'[j] = Added(r, j, k, c)
      /\ \A i \in Jobs : StateOf(i) # "absent" <=> i < j
      /\ \A i \in Jobs \ {j} : job'[i] = job[i]
  BY EnqueueAdds
<1>4. plan'[r] = IF Len(t) = 1 THEN NoPlan ELSE known
  BY DEF EnqueuesAt, IInv, TypeOK
<1>5. /\ known.source = p.source /\ known.redact = p.redact /\ known.rules = p.rules
      /\ known.relied = p.relied /\ known.made[k] = j
      /\ \A x \in Kinds \ {k} : known.made[x] = p.made[x]
  BY <1>1 DEF PlanType
<1> HIDE DEF rest, known
<1>6. CASE Len(t) = 1
  <2>1. rest \in Seq(Kinds) /\ Len(rest) = 0
    BY <1>2, <1>6
  <2>2. ToSet(rest) = {} /\ \A n \in 1..Len(rest) : FALSE
    BY <2>1 DEF ToSet
  <2>3. plan'[r] = NoPlan
    BY <1>4, <1>6
  <2>4. \A x \in Kinds : NoPlan.made[x] = None
    BY DEF NoPlan, NothingMade
  <2>5. RequestOK(rest, NoPlan)'
    BY <2>2, <2>4, EmptyPlans, KindsDiffer DEF RequestOK, MadeKnown
  <2>6. QED BY <1>3, <2>3, <2>5
<1>7. CASE Len(t) # 1
  <2>1. plan'[r] = known
    BY <1>4, <1>7
  <2>2. Named(known) \subseteq Named(p) \cup {j}
    BY <1>5 DEF Named
  <2>3. \A i \in Named(p) : i \in Jobs /\ StateOf(i) # "absent" /\ i # j
    BY <1>1, <1>3 DEF RequestOK, Jobs
  <2>4. \A i \in Named(known) : i \in Jobs /\ StateOf(i)' # "absent"
    BY <1>3, <2>2, <2>3 DEF Kept
  <2>5. \A x \in Kinds : p.made[x] # None => p.made[x] \in Named(p)
    BY DEF Named
  <2>6. \A x \in Kinds : known.made[x] # None => KindOf(known.made[x])' = x
    <3> SUFFICES ASSUME NEW x \in Kinds, known.made[x] # None
                 PROVE  KindOf(known.made[x])' = x
      OBVIOUS
    <3>1. CASE x = k
      BY <1>3, <1>5, <3>1
    <3>2. CASE x # k
      <4>1. known.made[x] = p.made[x] /\ p.made[x] \in Named(p)
        BY <1>5, <2>5, <3>2
      <4>2. KindOf(p.made[x]) = x
        BY <1>1, <4>1 DEF RequestOK, MadeKnown
      <4>3. QED BY <4>1, <4>2, <2>3, <1>3 DEF Kept
    <3>3. QED BY <3>1, <3>2
  <2>7. known.made[COLLECT] # None =>
          known.source = None /\ job'[known.made[COLLECT]].plan.redact = known.redact
    <3>1. CASE k = COLLECT
      <4>1. p.source = None
        BY <1>1, <1>2, <3>1 DEF RequestOK
      <4>2. Added(r, j, k, c).plan = [NoPlan EXCEPT !.source = c, !.redact = p.redact]
        BY <3>1, KindsDiffer DEF Added
      <4>3. Added(r, j, k, c).plan.redact = p.redact
        BY <4>2, EmptyPlans DEF PlanType
      <4>4. QED BY <1>3, <1>5, <3>1, <4>1, <4>3
    <3>2. CASE k # COLLECT
      <4>1. known.made[COLLECT] = p.made[COLLECT]
        BY <1>5, <3>2, KindsDiffer
      <4>2. p.made[COLLECT] # None => p.made[COLLECT] \in Named(p)
        BY <2>5, KindsDiffer
      <4>3. QED BY <1>1, <1>3, <1>5, <2>3, <4>1, <4>2 DEF RequestOK
    <3>3. QED BY <3>1, <3>2
  <2>8. COLLECT \in ToSet(rest) => known.source = None
    BY <1>1, <1>2, <1>5 DEF RequestOK
  <2>9. \A n \in 1..Len(rest) : rest[n] = PACKAGE => n = Len(rest)
    <3> SUFFICES ASSUME NEW n \in 1..Len(rest), rest[n] = PACKAGE
                 PROVE  n = Len(rest)
      OBVIOUS
    <3>1. n + 1 \in 1..Len(t) /\ t[n + 1] = PACKAGE
      BY <1>2
    <3>2. n + 1 = Len(t)
      BY <1>1, <3>1 DEF RequestOK
    <3>3. QED BY <3>2, <1>2
  <2>10. ASSUME PACKAGE \in ToSet(rest)
         PROVE  PackageAhead(rest, known)'
    <3>1. PackageAhead(t, p)
      BY <1>1, <1>2, <2>10 DEF RequestOK
    <3>2. \A x \in Kinds : Coming(rest, known, x) <=> Coming(t, p, x)
      BY <1>2, <1>5 DEF Coming, Jobs, None
    <3>3. \A x \in Kinds : Coming(rest, known, x)' <=> Coming(rest, known, x)
      BY DEF Coming
    <3>4. ReliedKnown(p)'
      BY <1>1, <1>3, <3>1, ReliedKept DEF PackageAhead
    <3>5. ReliedKnown(known)'
      BY <1>5, <3>4 DEF ReliedKnown
    <3>6. p.source # None => p.source \in Named(p)
      BY DEF Named
    <3>7. p.source # None => /\ KindOf(p.source)' = KindOf(p.source)
                             /\ StateOf(p.source) \in {"failed", "deleted"} =>
                                  StateOf(p.source)' \in {"failed", "deleted"}
      BY <1>3, <2>3, <3>6 DEF Kept
    <3>8. QED BY <1>5, <3>1, <3>2, <3>3, <3>5, <3>7, KindsDiffer DEF PackageAhead
  <2>11. RequestOK(rest, known)'
    BY <2>4, <2>6, <2>7, <2>8, <2>9, <2>10 DEF RequestOK, MadeKnown
  <2>12. QED BY <1>3, <2>1, <2>11
<1>8. QED BY <1>6, <1>7

\* A package that is enqueued knows its whole chain.
LEMMA PackageBegun ==
    ASSUME IInv, NEW r \in Requests, NEW j \in Jobs, NEW c \in Jobs \cup {None},
           EnqueuesAt(r, j, PACKAGE, c)
    PROVE  PackageOK(job[j].plan)'
<1> PICK t \in Seq(Kinds), p \in PlanType : t = todo[r] /\ p = plan[r]
  BY DEF IInv, TypeOK
<1> DEFINE q == [p EXCEPT !.source = c]
<1>1. t # <<>> /\ PACKAGE = Head(t) /\ c = SourceFor(p) /\ RequestOK(t, p)
  <2>1. t # <<>> /\ PACKAGE = Head(t) /\ c = SourceFor(p)
    BY DEF EnqueuesAt
  <2>2. RequestOK(t, p)
    BY DEF IInv, RequestsInStep
  <2>3. QED BY <2>1, <2>2
<1>2. job'[j].plan = q /\ Kept
  <2>1. PACKAGE \in Kinds
    BY KindsDiffer
  <2>2. job'[j] = Added(r, j, PACKAGE, c) /\ Kept
    BY <2>1, EnqueueAdds
  <2>3. Added(r, j, PACKAGE, c).plan = [p EXCEPT !.source = c]
    BY DEF Added
  <2>4. QED BY <2>2, <2>3
<1>3. /\ q.source = c /\ q.made = p.made /\ q.rules = p.rules /\ q.relied = p.relied
      /\ q \in PlanType
  BY DEF PlanType
<1> HIDE DEF q
<1>4. Len(t) = 1 /\ t[1] = PACKAGE /\ PackageAhead(t, p)
  <2>1. t[1] = PACKAGE /\ Len(t) \in Nat \ {0} /\ PACKAGE \in ToSet(t)
    BY <1>1, HeadAndTail
  <2>2. Len(t) = 1
    <3>1. \A n \in 1..Len(t) : t[n] = PACKAGE => n = Len(t)
      BY <1>1 DEF RequestOK
    <3>2. 1 \in 1..Len(t)
      BY <2>1
    <3>3. QED BY <2>1, <3>1, <3>2
  <2>3. QED BY <1>1, <2>1, <2>2 DEF RequestOK
<1>5. ToSet(t) = {PACKAGE}
  BY <1>4 DEF ToSet
<1>6. \A x \in Kinds \ {PACKAGE} : Coming(t, p, x) <=> p.made[x] # None
  BY <1>5 DEF Coming
<1>7. \A x \in Kinds : p.made[x] # None => p.made[x] \in Named(p)
  BY DEF Named
<1>8. \A i \in Named(p) : i \in Jobs /\ StateOf(i) # "absent"
  BY <1>1 DEF RequestOK
<1>9. p.source # None => p.source \in Named(p)
  BY DEF Named
<1>10. MadeKnown(q)'
  <2>1. MadeKnown(p)'
    BY <1>1, <1>2, <1>8, MadeKept DEF RequestOK
  <2>2. QED BY <1>3, <2>1 DEF MadeKnown
<1>11. q.made[FINDINGS] # None /\ q.made[INVENTORY] # None
  BY <1>3, <1>4, <1>6, KindsDiffer DEF PackageAhead
<1>12. ReliedKnown(p)'
  BY <1>2, <1>4, ReliedKept DEF PackageAhead
<1>13. CASE p.source = None
  <2>1. p.relied = None /\ p.redact /\ p.made[COLLECT] # None /\ p.made[REDACT] = None
    BY <1>4, <1>6, <1>13, KindsDiffer DEF PackageAhead
  <2>2. c = p.made[COLLECT] /\ c \in Named(p)
    BY <1>1, <1>7, <1>13, <2>1, KindsDiffer DEF SourceFor
  <2>3. KindOf(c) = COLLECT /\ job[c].plan.redact
    BY <1>1, <2>1, <2>2, KindsDiffer DEF RequestOK, MadeKnown
  <2>4. KindOf(c)' = COLLECT /\ job'[c].plan.redact
    BY <1>2, <1>8, <2>2, <2>3 DEF Kept
  <2>5. ReliedKnown(q)'
    BY <1>3, <2>1 DEF ReliedKnown
  <2>6. QED BY <1>2, <1>3, <1>10, <1>11, <2>1, <2>2, <2>4, <2>5 DEF PackageOK
<1>14. CASE p.source # None
  <2>1. c = p.source /\ KindOf(c) = COLLECT /\ p.made[COLLECT] = None
    BY <1>1, <1>4, <1>6, <1>14, KindsDiffer DEF PackageAhead, SourceFor
  <2>2. \/ p.made[EXTRACT] # None \/ p.made[REDACT] # None \/ p.relied # None
        \/ StateOf(c) \in {"failed", "deleted"}
    BY <1>4, <1>6, <1>14, <2>1, KindsDiffer DEF PackageAhead
  <2>3. /\ KindOf(c)' = COLLECT
        /\ StateOf(c) \in {"failed", "deleted"} => StateOf(c)' \in {"failed", "deleted"}
    BY <1>2, <1>8, <1>9, <1>14, <2>1 DEF Kept
  <2>4. ReliedKnown(q)'
    BY <1>3, <1>12, <2>1 DEF ReliedKnown
  <2>5. QED BY <1>2, <1>3, <1>10, <1>11, <1>14, <2>1, <2>2, <2>3, <2>4 DEF PackageOK
<1>15. QED BY <1>13, <1>14

\* An enqueue keeps the invariant.
LEMMA EnqueueKeeps ==
    ASSUME IInv, NEW r \in Requests, Enqueue(r)
    PROVE  IInv'
<1> PICK j \in Jobs, k \in Kinds, c \in Jobs \cup {None} : EnqueuesAt(r, j, k, c)
  BY EnqueueIs
<1>1. /\ TypeOK' /\ Kept
      /\ \A i \in Jobs : StateOf(i) # "absent" <=> i < j
      /\ \A i \in Jobs \ {j} : job'[i] = job[i] /\ StateOf(i)' = StateOf(i)
                               /\ KindOf(i)' = KindOf(i)
      /\ job'[j] = Added(r, j, k, c)
      /\ KindOf(j)' = k /\ StateOf(j)' = "queued"
      /\ \A q \in Requests \ {r} : plan'[q] = plan[q] /\ todo'[q] = todo[q]
  BY EnqueueAdds
<1>2. /\ UNCHANGED <<files, rules, used, masked, packed, wpc, wjob, wfrom>>
      /\ StateOf(j) = "absent" /\ c = SourceFor(plan[r])
  BY DEF EnqueuesAt, workerVars
<1>3. Jobs \subseteq Nat
  BY DEF Jobs
<1>4. QueueFilled'
  BY <1>1, <1>3 DEF QueueFilled
<1>5. WorkerInStep'
  BY <1>1, <1>2 DEF IInv, WorkerInStep
<1>6. KindsKnown'
  BY <1>1, <1>2 DEF IInv, KindsKnown
<1>7. StoredInStep'
  <2> SUFFICES ASSUME NEW i \in Jobs
               PROVE  /\ StateOf(i)' = "succeeded" =>
                            /\ files'[i] = ToSet(Outputs(i))'
                            /\ MasksMembers(KindOf(i))' /\ "report" \in files'[i] => i \in masked'
                      /\ StateOf(i)' = "deleted" => files'[i] = {}
    BY DEF StoredInStep
  <2>1. CASE i = j
    BY <1>1, <2>1
  <2>2. CASE i # j
    <3>1. KindOf(i)' = KindOf(i) /\ job'[i] = job[i] /\ StateOf(i)' = StateOf(i)
      BY <1>1, <2>2
    <3>2. Outputs(i)' = Outputs(i)
      BY <3>1 DEF Outputs, KindOf
    <3>3. ToSet(Outputs(i))' = ToSet(Outputs(i))
      BY <3>2 DEF ToSet
    <3>4. QED BY <1>2, <3>1, <3>3 DEF IInv, StoredInStep, MasksMembers
  <2>3. QED BY <2>1, <2>2
<1>8. AfterEarlier'
  <2> SUFFICES ASSUME NEW i \in Jobs, NEW n \in Named(job'[i].plan)
               PROVE  n \in Jobs /\ n < i
    BY DEF AfterEarlier, Named
  <2>1. CASE i # j
    BY <1>1, <2>1 DEF IInv, AfterEarlier
  <2>2. CASE i = j
    <3> PICK p \in PlanType : p = plan[r]
      BY DEF IInv, TypeOK
    <3>1. \A m \in Named(p) : m \in Jobs /\ m < j
      BY <1>1 DEF IInv, RequestsInStep, RequestOK
    <3>2. c # None => c \in Named(p)
      BY <1>2, KindsDiffer DEF Named, SourceFor
    <3>3. Named(Added(r, j, k, c).plan) \subseteq Named(p) \cup ({c} \ {None})
      <4>1. CASE k = PACKAGE
        <5>1. Added(r, j, k, c).plan = [p EXCEPT !.source = c]
          BY <4>1 DEF Added
        <5>2. QED BY <5>1 DEF Named, PlanType
      <4>2. CASE k # PACKAGE
        <5>1. Added(r, j, k, c).plan = [NoPlan EXCEPT !.source = c, !.redact = p.redact]
          BY <4>2 DEF Added
        <5>2. /\ Added(r, j, k, c).plan.source = c
              /\ Added(r, j, k, c).plan.made = NothingMade
          BY <5>1 DEF NoPlan
        <5>3. QED BY <5>2 DEF Named, NothingMade
      <4>3. QED BY <4>1, <4>2
    <3>4. QED BY <1>1, <2>2, <3>1, <3>2, <3>3
  <2>3. QED BY <2>1, <2>2
<1>9. RequestsInStep'
  <2> SUFFICES ASSUME NEW q \in Requests PROVE RequestOK(todo[q], plan[q])'
    BY DEF RequestsInStep
  <2>1. CASE q = r
    BY <2>1, RequestGoesOn
  <2>2. CASE q # r
    <3> PICK t \in Seq(Kinds), p \in PlanType : t = todo[q] /\ p = plan[q]
      BY DEF IInv, TypeOK
    <3>1. RequestOK(t, p)'
      BY <1>1, RequestKept DEF IInv, RequestsInStep
    <3>2. t = todo'[q] /\ p = plan'[q]
      BY <1>1, <2>2
    <3>3. QED BY <3>1, <3>2
  <2>3. QED BY <2>1, <2>2
<1>10. PackagesInStep'
  <2> SUFFICES ASSUME NEW i \in Jobs, KindOf(i)' = PACKAGE PROVE PackageOK(job[i].plan)'
    BY DEF PackagesInStep
  <2>1. CASE i = j
    <3>1. k = PACKAGE
      BY <1>1, <2>1
    <3>2. QED BY <2>1, <3>1, PackageBegun
  <2>2. CASE i # j
    <3> PICK p \in PlanType : p = job[i].plan
      BY DEF IInv, TypeOK, JobType
    <3>1. StateOf(i) # "absent"
      BY <1>1, <2>2, KindsDiffer DEF IInv, KindsKnown, NoJob, KindOf
    <3>2. PackageOK(p) /\ \A n \in Named(p) : n \in Jobs /\ StateOf(n) # "absent"
      BY <1>1, <2>2, <3>1, NamedAreThere DEF IInv, PackagesInStep
    <3>3. PackageOK(p)'
      BY <1>1, <3>2, PackageKept
    <3>4. QED BY <1>1, <2>2, <3>3
  <2>3. QED BY <2>1, <2>2
<1>11. wpc # "idle" => wjob \in Jobs \ {j}
  BY <1>2, WorkersJob
<1>12. BodySettled'
  <2> SUFFICES ASSUME wpc' = "copy", KindOf(wjob)' = PACKAGE
               PROVE  /\ wfrom' \in Jobs
                      /\ \A part \in Parts(wjob, wfrom)' :
                            part[1] \in Jobs /\ StateOf(part[1])' \in {"succeeded", "deleted"}
                      /\ FreshlyMade(wjob)' => wfrom' \in masked'
    BY DEF BodySettled
  <2> PICK w \in Jobs \ {j} : w = wjob
    BY <1>2, <1>11
  <2>1. wpc = "copy" /\ KindOf(wjob) = PACKAGE /\ w = wjob'
    BY <1>1, <1>2 DEF KindOf
  <2>2. Parts(wjob, wfrom)' = Parts(wjob, wfrom) /\ (FreshlyMade(wjob)' <=> FreshlyMade(wjob))
    BY <1>1, <1>2, <2>1 DEF Parts, FreshlyMade, Member
  <2>3. QED BY <1>1, <1>2, <2>1, <2>2 DEF IInv, BodySettled
<1>13. PackedInStep'
  BY <1>1, <1>2 DEF IInv, PackedInStep
<1>14. NeverEarly'
  <2> SUFFICES ASSUME wpc' = "body", NEW i \in QueuedAfter(wjob)'
               PROVE  StateOf(i)' \notin ACTIVE_STATES
    BY DEF NeverEarly, QueuedAfter, Source, Member
  <2> PICK w \in Jobs \ {j} : w = wjob
    BY <1>2, <1>11
  <2>1. QueuedAfter(wjob)' = QueuedAfter(wjob) /\ QueuedAfter(wjob) = Named(job[w].plan)
    BY <1>1, <1>2 DEF QueuedAfter, Source, Member, Named
  <2>2. StateOf(w) # "absent"
    BY <1>2, WorkersJob
  <2>3. i \in Jobs \ {j}
    BY <2>1, <2>2, <1>2, NamedAreThere
  <2>4. QED BY <1>1, <1>2, <2>1, <2>3 DEF IInv, NeverEarly
<1>15. FreshPackagesMasked'
  <2> SUFFICES ASSUME NEW i \in Jobs, packed'[i] # None,
                      Member(i, COLLECT)' # None \/ Member(i, EXTRACT)' # None
               PROVE  packed'[i] \in masked'
    BY DEF FreshPackagesMasked
  <2>1. i # j
    BY <1>2 DEF IInv, PackedInStep
  <2>2. QED BY <1>1, <1>2, <2>1 DEF IInv, FreshPackagesMasked, Member
<1>16. QED BY <1>1, <1>4, <1>5, <1>6, <1>7, <1>8, <1>9, <1>10, <1>12, <1>13, <1>14, <1>15 DEF IInv

\* The beginning of a request keeps the invariant.
LEMMA BeginKeeps ==
    ASSUME IInv, NEW r \in Requests, NEW t \in Seq(Kinds), NEW p \in PlanType,
           Begin(r, t, p), RequestOK(t, p)
    PROVE  IInv'
<1>1. UNCHANGED <<job, files, rules, used, masked, packed, wpc, wjob, wfrom, mishaps>>
  BY DEF Begin, workerVars
<1>2. todo' = [todo EXCEPT ![r] = t] /\ plan' = [plan EXCEPT ![r] = p]
  BY DEF Begin
<1>3. TypeOK'
  BY <1>1, <1>2 DEF IInv, TypeOK
<1>4. Kept
  BY <1>1 DEF Kept, StateOf, KindOf
<1>5. RequestsInStep'
  <2> SUFFICES ASSUME NEW q \in Requests PROVE RequestOK(todo[q], plan[q])'
    BY DEF RequestsInStep
  <2>1. PICK u \in Seq(Kinds), x \in PlanType :
            u = todo'[q] /\ x = plan'[q] /\ RequestOK(u, x)
    BY <1>2 DEF IInv, TypeOK, RequestsInStep
  <2>2. RequestOK(u, x)'
    BY <1>4, <2>1, RequestKept
  <2>3. QED BY <2>1, <2>2
<1>6. QueueFilled' /\ WorkerInStep' /\ KindsKnown' /\ AfterEarlier'
  BY <1>1 DEF IInv, QueueFilled, WorkerInStep, KindsKnown, AfterEarlier, StateOf, KindOf, Named
<1>7. StoredInStep' /\ PackedInStep' /\ FreshPackagesMasked'
  <2>1. StoredInStep'
    BY <1>1 DEF IInv, StoredInStep, StateOf, KindOf, MasksMembers, Outputs, ToSet
  <2>2. PackedInStep'
    BY <1>1 DEF IInv, PackedInStep, StateOf, KindOf
  <2>3. FreshPackagesMasked'
    BY <1>1 DEF IInv, FreshPackagesMasked, StateOf, KindOf, Member
  <2>4. QED
    BY <2>1, <2>2, <2>3
<1>8. PackagesInStep'
  BY <1>1 DEF IInv, PackagesInStep, PackageOK, MadeKnown, ReliedKnown, StateOf, KindOf, Source
<1>9. BodySettled' /\ NeverEarly'
  BY <1>1 DEF IInv, BodySettled, NeverEarly, StateOf, KindOf, Parts, FreshlyMade, Member,
              QueuedAfter, Source
<1>10. QED BY <1>3, <1>5, <1>6, <1>7, <1>8, <1>9 DEF IInv

-----------------------------------------------------------------------------
(* What the steps that enqueue nothing keep *)

\* The jobs keep their order, and packages their chains.
LEMMA MovedKeeps ==
    ASSUME IInv, TypeOK', Moved
    PROVE  QueueFilled' /\ KindsKnown' /\ AfterEarlier' /\ PackagesInStep'
<1>1. QueueFilled'
  BY DEF IInv, QueueFilled, Moved
<1>2. KindsKnown'
  <2> SUFFICES ASSUME NEW i \in Jobs
               PROVE  IF StateOf(i)' = "absent" THEN job'[i] = NoJob /\ files'[i] = {}
                      ELSE KindOf(i)' \in Kinds
    BY DEF KindsKnown
  <2>1. CASE StateOf(i)' = "absent"
    <3>1. StateOf(i) = "absent" /\ job'[i] = job[i] /\ files'[i] = files[i]
      BY <2>1 DEF Moved
    <3>2. QED BY <2>1, <3>1 DEF IInv, KindsKnown
  <2>2. CASE StateOf(i)' # "absent"
    <3>1. StateOf(i) # "absent" /\ KindOf(i)' = KindOf(i)
      BY <2>2 DEF Moved
    <3>2. QED BY <2>2, <3>1 DEF IInv, KindsKnown
  <2>3. QED BY <2>1, <2>2
<1>3. AfterEarlier'
  BY DEF IInv, AfterEarlier, Moved, Named
<1>4. PackagesInStep'
  <2> SUFFICES ASSUME NEW i \in Jobs, KindOf(i)' = PACKAGE PROVE PackageOK(job[i].plan)'
    BY DEF PackagesInStep
  <2> PICK p \in PlanType : p = job[i].plan
    BY DEF IInv, TypeOK, JobType
  <2>1. KindOf(i) = PACKAGE /\ job'[i].plan = p
    BY DEF Moved
  <2>2. StateOf(i) # "absent"
    BY <2>1, KindsDiffer DEF IInv, KindsKnown, NoJob, KindOf
  <2>3. PackageOK(p) /\ \A n \in Named(p) : n \in Jobs /\ StateOf(n) # "absent"
    BY <2>1, <2>2, NamedAreThere DEF IInv, PackagesInStep
  <2>4. PackageOK(p)'
    BY <2>3, MovedKept, PackageKept
  <2>5. QED BY <2>1, <2>4
<1>5. QED BY <1>1, <1>2, <1>3, <1>4

\* Requests keep what they know.
LEMMA RequestsMoved ==
    ASSUME IInv, TypeOK', Moved, UNCHANGED <<todo, plan>>
    PROVE  RequestsInStep'
<1> SUFFICES ASSUME NEW q \in Requests PROVE RequestOK(todo[q], plan[q])'
  BY DEF RequestsInStep
<1>1. PICK t \in Seq(Kinds), p \in PlanType : t = todo[q] /\ p = plan[q] /\ RequestOK(t, p)
  BY DEF IInv, TypeOK, RequestsInStep
<1>2. RequestOK(t, p)'
  BY <1>1, MovedKept, RequestKept
<1>3. QED BY <1>1, <1>2

\* How the running job may end: without a package, or with all it should store.
EndsWell ==
    \A i \in Jobs : StateOf(i) = "running" =>
        \/ packed'[i] = packed[i] /\ StateOf(i)' # "succeeded"
        \/ /\ StateOf(i)' = "succeeded" /\ files'[i] = ToSet(Outputs(i))
           /\ MasksMembers(KindOf(i)) /\ "report" \in files'[i] => i \in masked'
           /\ packed'[i] # None =>
                KindOf(i) = PACKAGE /\ (FreshlyMade(i) => packed'[i] \in masked')

\* What is stored stays in step.
LEMMA StoredMoved ==
    ASSUME IInv, TypeOK', Moved, EndsWell
    PROVE  StoredInStep' /\ PackedInStep' /\ FreshPackagesMasked'
<1>1. ASSUME NEW i \in Jobs
      PROVE  ToSet(Outputs(i))' = ToSet(Outputs(i))
  BY DEF Moved, Outputs, ToSet
<1>2. StoredInStep'
  <2> SUFFICES ASSUME NEW i \in Jobs
               PROVE  /\ StateOf(i)' = "succeeded" =>
                            /\ files'[i] = ToSet(Outputs(i))'
                            /\ MasksMembers(KindOf(i))' /\ "report" \in files'[i] => i \in masked'
                      /\ StateOf(i)' = "deleted" => files'[i] = {}
    BY DEF StoredInStep
  <2>1. KindOf(i)' = KindOf(i) /\ (MasksMembers(KindOf(i))' <=> MasksMembers(KindOf(i)))
    BY DEF Moved, MasksMembers
  <2>2. CASE StateOf(i) = "running"
    BY <1>1, <2>1, <2>2 DEF Moved, EndsWell
  <2>3. CASE StateOf(i) # "running"
    BY <1>1, <2>1, <2>3 DEF Moved, IInv, StoredInStep
  <2>4. QED BY <2>2, <2>3
<1>3. PackedInStep'
  BY DEF IInv, PackedInStep, Moved, EndsWell
<1>4. FreshPackagesMasked'
  <2> SUFFICES ASSUME NEW i \in Jobs, packed'[i] # None,
                      Member(i, COLLECT)' # None \/ Member(i, EXTRACT)' # None
               PROVE  packed'[i] \in masked'
    BY DEF FreshPackagesMasked
  <2>1. FreshlyMade(i)
    BY DEF FreshlyMade, Member, Moved
  <2>2. masked \subseteq masked'
    BY DEF Moved, IInv, TypeOK
  <2>3. CASE packed'[i] = packed[i]
    BY <2>1, <2>2, <2>3 DEF IInv, FreshPackagesMasked, FreshlyMade
  <2>4. CASE packed'[i] # packed[i]
    BY <2>1, <2>4 DEF Moved, EndsWell
  <2>5. QED BY <2>3, <2>4
<1>5. QED BY <1>2, <1>3, <1>4

\* The worker's body keeps what it has settled on while others act.
LEMMA WorkerKept ==
    ASSUME IInv, TypeOK', Moved, UNCHANGED <<wpc, wjob, wfrom>>,
           \A i \in Jobs : StateOf(i)' = "running" <=> StateOf(i) = "running"
    PROVE  WorkerInStep' /\ BodySettled' /\ NeverEarly'
<1>1. WorkerInStep'
  BY DEF IInv, WorkerInStep
<1>2. BodySettled'
  <2> SUFFICES ASSUME wpc' = "copy", KindOf(wjob)' = PACKAGE
               PROVE  /\ wfrom' \in Jobs
                      /\ \A part \in Parts(wjob, wfrom)' :
                            part[1] \in Jobs /\ StateOf(part[1])' \in {"succeeded", "deleted"}
                      /\ FreshlyMade(wjob)' => wfrom' \in masked'
    BY DEF BodySettled
  <2> PICK w \in Jobs : w = wjob
    BY WorkersJob
  <2>1. wpc = "copy" /\ KindOf(wjob) = PACKAGE
    BY DEF Moved, KindOf
  <2>2. Parts(wjob, wfrom)' = Parts(wjob, wfrom) /\ (FreshlyMade(wjob)' <=> FreshlyMade(wjob))
    BY DEF Parts, FreshlyMade, Member, Moved
  <2>3. /\ wfrom \in Jobs
        /\ \A part \in Parts(wjob, wfrom) :
              part[1] \in Jobs /\ StateOf(part[1]) \in {"succeeded", "deleted"}
        /\ FreshlyMade(wjob) => wfrom \in masked
    BY <2>1 DEF IInv, BodySettled
  <2>4. \A i \in Jobs : StateOf(i) \in {"succeeded", "deleted"} =>
                            StateOf(i)' \in {"succeeded", "deleted"}
    BY DEF Moved
  <2>5. QED BY <2>2, <2>3, <2>4 DEF Moved
<1>3. NeverEarly'
  <2> SUFFICES ASSUME wpc' = "body", NEW i \in QueuedAfter(wjob)'
               PROVE  StateOf(i)' \notin ACTIVE_STATES
    BY DEF NeverEarly, QueuedAfter, Source, Member
  <2> PICK w \in Jobs : w = wjob
    BY WorkersJob
  <2>1. QueuedAfter(wjob)' = QueuedAfter(wjob) /\ QueuedAfter(wjob) = Named(job[w].plan)
    BY DEF QueuedAfter, Source, Member, Named, Moved
  <2>2. StateOf(w) # "absent"
    BY WorkersJob
  <2>3. i \in Jobs
    BY <2>1, <2>2, NamedAreThere
  <2>4. StateOf(i) \notin ACTIVE_STATES
    BY <2>1 DEF IInv, NeverEarly
  <2>5. QED BY <2>3, <2>4 DEF Moved, ACTIVE_STATES
<1>4. QED BY <1>1, <1>2, <1>3

\* When the worker's job is over, nothing runs.
LEMMA WorkerFreed ==
    ASSUME IInv, wpc' = "idle", wjob' = None, \A i \in Jobs : StateOf(i)' # "running"
    PROVE  WorkerInStep' /\ BodySettled' /\ NeverEarly'
<1>1. QED BY DEF WorkerInStep, BodySettled, NeverEarly, Jobs, None

-----------------------------------------------------------------------------
(* The steps that enqueue nothing *)

\* A job claimed is the oldest queued, so nothing it was queued after is still to run.
LEMMA ClaimKeeps ==
    ASSUME IInv, NEW j \in Jobs, Claim(j)
    PROVE  IInv'
<1>1. TypeOK' /\ Moved
  BY ClaimMoves
<1>2. /\ wpc = "idle" /\ NextUp(j) /\ job' = WithState(j, "running") /\ wjob' = j
      /\ wpc' = IF KindOf(j) \in {EXTRACT, REDACT, PACKAGE} THEN "body" ELSE "copy"
      /\ UNCHANGED <<files, rules, used, masked, packed, wfrom, todo, plan>>
  BY DEF Claim, requestVars
<1>3. \A i \in Jobs : StateOf(i) # "running"
  BY <1>2 DEF IInv, WorkerInStep, Jobs, None
<1>4. /\ StateOf(j)' = "running" /\ KindOf(j)' = KindOf(j) /\ job'[j].plan = job[j].plan
      /\ \A i \in Jobs : i # j => StateOf(i)' = StateOf(i)
  BY <1>2, MoveOne DEF IInv, States, ACTIVE_STATES
<1>5. QueueFilled' /\ KindsKnown' /\ AfterEarlier' /\ PackagesInStep' /\ RequestsInStep'
  BY <1>1, <1>2, MovedKeeps, RequestsMoved
<1>6. StoredInStep' /\ PackedInStep' /\ FreshPackagesMasked'
  BY <1>1, <1>3, StoredMoved DEF EndsWell
<1>7. WorkerInStep'
  BY <1>2, <1>3, <1>4 DEF WorkerInStep, Jobs, None
<1>8. BodySettled'
  <2>1. KindOf(wjob)' = KindOf(j)
    BY <1>2, <1>4 DEF KindOf
  <2>2. QED BY <1>2, <2>1 DEF BodySettled
<1>9. NeverEarly'
  <2> SUFFICES ASSUME wpc' = "body", NEW i \in QueuedAfter(wjob)'
               PROVE  StateOf(i)' \notin ACTIVE_STATES
    BY DEF NeverEarly, QueuedAfter, Source, Member
  <2>1. QueuedAfter(wjob)' = Named(job[j].plan)
    BY <1>2, <1>4 DEF QueuedAfter, Source, Member, Named
  <2>2. StateOf(j) = "queued"
    BY <1>2 DEF NextUp
  <2>3. i \in Jobs /\ i < j
    BY <2>1, <2>2, NamedAreThere
  <2>4. StateOf(i) # "queued"
    BY <1>2, <2>3 DEF NextUp, Jobs
  <2>5. i # j
    BY <2>3 DEF Jobs
  <2>6. QED BY <1>3, <1>4, <2>3, <2>4, <2>5 DEF ACTIVE_STATES
<1>10. QED BY <1>1, <1>5, <1>6, <1>7, <1>8, <1>9 DEF IInv

\* A body goes on only with everything it was queued after in place.
LEMMA ResolveKeeps ==
    ASSUME IInv, Resolve
    PROVE  IInv'
<1>1. TypeOK' /\ Moved
  BY ResolveMoves
<1>2. /\ wpc = "body" /\ wpc' = "copy" /\ Checks(wjob)
      /\ wfrom' = IF KindOf(wjob) = PACKAGE THEN RedactionSource(wjob) ELSE None
      /\ UNCHANGED <<job, files, rules, used, masked, packed, wjob, todo, plan>>
  BY DEF Resolve, requestVars
<1>3. QueueFilled' /\ KindsKnown' /\ AfterEarlier' /\ PackagesInStep' /\ RequestsInStep'
  BY <1>1, <1>2, MovedKeeps, RequestsMoved
<1>4. \A i \in Jobs : StateOf(i)' = StateOf(i)
  BY <1>2 DEF StateOf
<1>5. StoredInStep' /\ PackedInStep' /\ FreshPackagesMasked'
  BY <1>1, <1>2, <1>4, StoredMoved DEF EndsWell
<1>6. WorkerInStep' /\ NeverEarly'
  BY <1>2, <1>4 DEF IInv, WorkerInStep, NeverEarly
<1>7. BodySettled'
  <2> SUFFICES ASSUME KindOf(wjob)' = PACKAGE
               PROVE  /\ wfrom' \in Jobs
                      /\ \A part \in Parts(wjob, wfrom)' :
                            part[1] \in Jobs /\ StateOf(part[1])' \in {"succeeded", "deleted"}
                      /\ FreshlyMade(wjob)' => wfrom' \in masked'
    BY DEF BodySettled
  <2> PICK w \in Jobs : w = wjob
    BY <1>2, WorkersJob
  <2> PICK from \in Jobs \cup {None} : from = RedactionSource(w)
    BY RedactionSourceType
  <2> PICK p \in PlanType : p = job[w].plan
    BY DEF IInv, TypeOK, JobType
  <2>1. KindOf(w) = PACKAGE /\ wfrom' = from
    BY <1>2 DEF KindOf
  <2>2. PackageResolves(w)
    BY <1>2, <2>1 DEF Checks
  <2>3. /\ \A i \in {p.source, p.made[FINDINGS], p.made[INVENTORY]} : Resolves(i)
        /\ p.made[EXTRACT] # None => Resolves(p.made[EXTRACT])
        /\ p.made[REDACT] # None => Resolves(p.made[REDACT])
        /\ "report" \in files[from]
        /\ \A part \in Parts(w, from) : part[2] \in files[part[1]]
    BY <2>2 DEF PackageResolves, Source, Member
  <2>4. /\ \A k \in Kinds : p.made[k] \in Jobs \cup {None}
        /\ p.source \in Jobs \cup {None}
    BY DEF PlanType
  <2>5. PackageOK(p)
    BY <2>1 DEF IInv, PackagesInStep
  <2>6. from \in Jobs /\ StateOf(from) = "succeeded"
    <3>1. CASE from \in Redactions(p.source, rules)
      BY <3>1 DEF Redactions
    <3>2. CASE from \in {p.source, p.made[EXTRACT], p.made[REDACT]} /\ Resolves(from)
      BY <2>4, <3>2, KindsDiffer DEF Resolves
    <3>3. from \in Redactions(p.source, rules) \/
            (from \in {p.source, p.made[EXTRACT], p.made[REDACT]} /\ Resolves(from))
      <4>1. Redactions(p.source, rules) \in SUBSET Jobs
        BY DEF Redactions
      <4>2. Newest(Redactions(p.source, rules)) # None =>
              Newest(Redactions(p.source, rules)) \in Redactions(p.source, rules)
        BY <4>1, NewestIsOne DEF Newest
      <4>3. QED BY <2>3, <4>2 DEF RedactionSource, Source, Member
    <3>4. QED BY <3>1, <3>2, <3>3
  <2>7. \A part \in Parts(w, from) : part[1] \in Jobs /\ StateOf(part[1]) = "succeeded"
    <3>1. \A k \in {FINDINGS, INVENTORY} :
            p.made[k] \in Jobs /\ StateOf(p.made[k]) = "succeeded"
      BY <2>3, <2>4, KindsDiffer DEF Resolves
    <3>2. QED BY <2>6, <3>1 DEF Parts, Member
  <2>8. ASSUME FreshlyMade(w) PROVE from \in masked
    <3>1. CASE p.made[EXTRACT] # None
      <4>1. from = p.made[EXTRACT] /\ KindOf(from) = EXTRACT
        BY <2>5, <3>1, KindsDiffer DEF RedactionSource, Member, PackageOK, MadeKnown
      <4>2. QED BY <2>3, <2>6, <4>1 DEF IInv, StoredInStep, MasksMembers
    <3>2. CASE p.made[EXTRACT] = None
      <4>1. p.made[COLLECT] # None
        BY <2>8, <3>2 DEF FreshlyMade, Member
      <4>2. p.source = p.made[COLLECT] /\ job[p.source].plan.redact /\ p.made[REDACT] = None
        BY <2>5, <4>1 DEF PackageOK
      <4>3. KindOf(p.source) = COLLECT /\ p.source \in Jobs /\ StateOf(p.source) = "succeeded"
        BY <2>3, <2>4, <2>5 DEF PackageOK, Resolves
      <4>4. "report" \in files[p.source]
        <5>1. files[p.source] = ToSet(Outputs(p.source))
          BY <4>3 DEF IInv, StoredInStep
        <5>2. QED BY <4>2, <4>3, <5>1, OutputsOfKinds
      <4>5. from = p.source
        BY <3>2, <4>2, <4>4 DEF RedactionSource, Source, Member
      <4>6. QED BY <4>3, <4>4, <4>5 DEF IInv, StoredInStep, MasksMembers
    <3>3. QED BY <3>1, <3>2
  <2>9. /\ Parts(wjob, wfrom)' = Parts(w, from)
        /\ FreshlyMade(wjob)' <=> FreshlyMade(w)
    BY <1>2, <2>1 DEF Parts, FreshlyMade, Member
  <2>10. QED BY <1>2, <1>4, <2>1, <2>6, <2>7, <2>8, <2>9
<1>8. QED BY <1>1, <1>3, <1>5, <1>6, <1>7 DEF IInv

\* A body that succeeds stores what it should.
LEMMA SucceedKeeps ==
    ASSUME IInv, Succeed
    PROVE  IInv'
<1>1. TypeOK' /\ Moved
  BY SucceedMoves
<1> DEFINE stored == ToSet(Outputs(wjob))
<1>2. /\ wpc = "copy" /\ job' = WithState(wjob, "succeeded")
      /\ files' = [files EXCEPT ![wjob] = stored]
      /\ masked' = IF MasksMembers(KindOf(wjob)) /\ "report" \in stored
                   THEN masked \cup {wjob} ELSE masked
      /\ packed' = [packed EXCEPT ![wjob] = IF "package" \in stored THEN wfrom ELSE None]
      /\ wpc' = "idle" /\ wjob' = None /\ UNCHANGED <<todo, plan>>
  BY DEF Succeed, requestVars
<1> HIDE DEF stored
<1> PICK w \in Jobs : w = wjob
  BY <1>2, WorkersJob
<1>3. StateOf(w) = "running" /\ KindOf(w) \in Kinds /\ \A i \in Jobs : StateOf(i) = "running" <=> i = w
  BY <1>2, WorkersJob DEF IInv, WorkerInStep
<1>4. StateOf(w)' = "succeeded" /\ \A i \in Jobs : i # w => StateOf(i)' = StateOf(i)
  <2>1. \A i \in Jobs : i # w => files'[i] = files[i]
    BY <1>2 DEF IInv, TypeOK
  <2>2. QED BY <1>2, <2>1, MoveOne DEF IInv, States
<1>5. stored = ToSet(Outputs(w)) /\ files'[w] = stored
      /\ packed'[w] = IF "package" \in stored THEN wfrom ELSE None
  BY <1>2 DEF IInv, TypeOK, stored
<1>6. "package" \in stored => KindOf(w) = PACKAGE
  BY <1>3, <1>5, OutputsOfKinds, KindsDiffer
<1>7. packed'[w] # None => KindOf(w) = PACKAGE /\ (FreshlyMade(w) => packed'[w] \in masked')
  <2>1. SUFFICES ASSUME packed'[w] # None PROVE KindOf(w) = PACKAGE /\ (FreshlyMade(w) => packed'[w] \in masked')
    OBVIOUS
  <2>2. KindOf(w) = PACKAGE /\ packed'[w] = wfrom
    BY <1>5, <1>6, <2>1
  <2>3. FreshlyMade(w) => wfrom \in masked
    BY <1>2, <2>2 DEF IInv, BodySettled
  <2>4. QED BY <1>2, <2>2, <2>3
<1>8. EndsWell
  BY <1>2, <1>3, <1>4, <1>5, <1>7 DEF EndsWell
<1>9. QueueFilled' /\ KindsKnown' /\ AfterEarlier' /\ PackagesInStep' /\ RequestsInStep'
  BY <1>1, <1>2, MovedKeeps, RequestsMoved
<1>10. StoredInStep' /\ PackedInStep' /\ FreshPackagesMasked'
  BY <1>1, <1>8, StoredMoved
<1>11. WorkerInStep' /\ BodySettled' /\ NeverEarly'
  BY <1>2, <1>3, <1>4, WorkerFreed
<1>12. QED BY <1>1, <1>9, <1>10, <1>11 DEF IInv

\* A cancellation or a deletion takes no job from the worker.
LEMMA CancelDeleteKeep ==
    ASSUME IInv, NEW j \in Jobs, Cancel(j) \/ Delete(j)
    PROVE  IInv'
<1>1. TypeOK' /\ Moved
  BY CancelDeleteMove
<1>2. UNCHANGED <<used, masked, packed, wpc, wjob, wfrom, todo, plan>>
  BY DEF Cancel, Delete, workerVars, requestVars
<1>3. StateOf(j) \in {"queued", "succeeded", "failed"} /\ StateOf(j)' \in {"failed", "deleted"}
      /\ \A i \in Jobs : i # j => StateOf(i)' = StateOf(i)
  <2>1. PICK s \in {"failed", "deleted"} : job' = WithState(j, s)
    BY DEF Cancel, Delete
  <2>2. \A i \in Jobs : i # j => files'[i] = files[i]
    BY DEF Cancel, Delete, IInv, TypeOK
  <2>3. StateOf(j)' = s /\ \A i \in Jobs : i # j => StateOf(i)' = StateOf(i)
    BY <2>1, <2>2, MoveOne DEF IInv, States
  <2>4. QED BY <2>3 DEF Cancel, Delete
<1>4. \A i \in Jobs : StateOf(i)' = "running" <=> StateOf(i) = "running"
  BY <1>3
<1>5. EndsWell
  BY <1>2, <1>3 DEF EndsWell
<1>6. QED BY <1>1, <1>2, <1>4, <1>5, MovedKeeps, RequestsMoved, StoredMoved, WorkerKept DEF IInv

\* Nor does a body that raises leave a package behind, whatever made it raise.
LEMMA FailuresKeep ==
    ASSUME IInv, Refuse \/ Fail \/ Restart
    PROVE  IInv'
<1>1. TypeOK' /\ Moved
  BY FailuresMove
<1>2. UNCHANGED <<used, masked, packed>>
  BY DEF Refuse, Fail, Restart
<1>3. RequestsInStep'
  <2>1. CASE UNCHANGED <<todo, plan>>
    BY <1>1, <2>1, RequestsMoved
  <2>2. CASE \A r \in Requests : todo'[r] = <<>> /\ plan'[r] = NoPlan
    <3>1. \A k \in Kinds : NoPlan.made[k] = None
      BY DEF NoPlan, NothingMade
    <3>2. <<>> \in Seq(Kinds) /\ ToSet(<<>>) = {} /\ \A n \in 1..Len(<<>>) : FALSE
      BY ShortSequences
    <3>3. RequestOK(<<>>, NoPlan)'
      BY <3>1, <3>2, EmptyPlans, KindsDiffer DEF RequestOK, MadeKnown
    <3>4. QED BY <2>2, <3>3 DEF RequestsInStep
  <2>3. QED BY <2>1, <2>2 DEF Refuse, Fail, Restart, requestVars
<1>4. EndsWell /\ WorkerInStep' /\ BodySettled' /\ NeverEarly'
  <2>1. CASE UNCHANGED <<job, files, workerVars>>
    <3>1. UNCHANGED <<wpc, wjob, wfrom>> /\ \A i \in Jobs : StateOf(i)' = StateOf(i)
      BY <2>1 DEF workerVars, StateOf
    <3>2. EndsWell
      BY <1>2, <3>1 DEF EndsWell
    <3>3. QED BY <1>1, <3>1, <3>2, WorkerKept
  <2>2. CASE Raise /\ wpc # "idle"
    <3> PICK w \in Jobs : w = wjob
      BY <2>2, WorkersJob
    <3>1. \A i \in Jobs : StateOf(i) = "running" <=> i = w
      BY DEF IInv, WorkerInStep
    <3>2. \A i \in Jobs : i # w => files'[i] = files[i]
      BY <2>2 DEF Raise, IInv, TypeOK
    <3>3. StateOf(w)' = "failed" /\ \A i \in Jobs : i # w => StateOf(i)' = StateOf(i)
      BY <2>2, <3>2, MoveOne DEF Raise, IInv, States
    <3>4. EndsWell
      BY <1>2, <3>1, <3>3 DEF EndsWell
    <3>5. WorkerInStep' /\ BodySettled' /\ NeverEarly'
      BY <2>2, <3>1, <3>3, WorkerFreed DEF Raise
    <3>6. QED BY <3>4, <3>5
  <2>3. QED BY <2>1, <2>2 DEF Refuse, Fail, Restart, IInv, WorkerInStep
<1>5. QED BY <1>1, <1>3, <1>4, MovedKeeps, StoredMoved DEF IInv

\* A change of the rules leaves the jobs alone.
LEMMA ChangeRulesKeeps ==
    ASSUME IInv, NEW on \in RuleSets, ChangeRules(on)
    PROVE  IInv'
<1>1. TypeOK' /\ Moved
  BY ChangeRulesMoves
<1>2. UNCHANGED <<job, packed, wpc, wjob, wfrom, todo, plan>>
  BY DEF ChangeRules, workerVars, requestVars
<1>3. \A i \in Jobs : StateOf(i)' = StateOf(i)
  BY <1>2 DEF StateOf
<1>4. EndsWell
  BY <1>2, <1>3 DEF EndsWell
<1>5. QED BY <1>1, <1>2, <1>3, <1>4, MovedKeeps, RequestsMoved, StoredMoved, WorkerKept DEF IInv

-----------------------------------------------------------------------------
(* The theorems *)

\* The invariant holds when the run begins.
LEMMA InitHolds ==
    ASSUME Init
    PROVE  IInv
<1>1. PICK on \in RuleSets, redact \in [1..Stored -> BOOLEAN] :
        /\ rules = on
        /\ job = [j \in Jobs |-> IF j <= Stored
                                 THEN [NoJob EXCEPT !.kind = COLLECT, !.state = "succeeded",
                                                    !.plan.redact = redact[j]]
                                 ELSE NoJob]
        /\ files = [j \in Jobs |-> IF j <= Stored THEN ToSet(Outputs(j)) ELSE {}]
        /\ used = [j \in Jobs |-> IF "report" \in files[j] THEN on ELSE None]
        /\ masked = {j \in Jobs : "redacted" \in files[j]}
        /\ packed = [j \in Jobs |-> None]
        /\ wpc = "idle" /\ wjob = None /\ wfrom = None
        /\ todo = [r \in Requests |-> <<>>]
        /\ plan = [r \in Requests |-> NoPlan]
        /\ mishaps = 0
  BY DEF Init
<1>2. Stored \in Nat /\ MaxJobs \in Nat
  BY JobChainAssumption
<1>3. ASSUME NEW j \in Jobs
      PROVE  /\ job[j] \in JobType
             /\ job[j].plan.source = None /\ job[j].plan.made = NothingMade
             /\ IF j <= Stored THEN KindOf(j) = COLLECT /\ StateOf(j) = "succeeded"
                               ELSE job[j] = NoJob /\ files[j] = {}
  <2> USE EmptyPlans, KindsDiffer
  <2>1. NoJob \in JobType /\ NoJob.plan = NoPlan
    BY DEF NoJob, JobType, States, ACTIVE_STATES
  <2>2. NoPlan.source = None /\ NoPlan.made = NothingMade
    BY DEF NoPlan
  <2>3. CASE j <= Stored
    <3>1. j \in 1..Stored /\ redact[j] \in BOOLEAN
      BY <1>2, <2>3 DEF Jobs
    <3> DEFINE q == [NoPlan EXCEPT !.redact = redact[j]]
    <3>2. q \in PlanType /\ q.source = None /\ q.made = NothingMade
      BY <3>1, <2>2 DEF PlanType
    <3>3. job[j] = [NoJob EXCEPT !.kind = COLLECT, !.state = "succeeded", !.plan = q]
      BY <1>1, <2>1, <2>3 DEF NoJob
    <3> HIDE DEF q
    <3>4. job[j].kind = COLLECT /\ job[j].state = "succeeded" /\ job[j].plan = q
      BY <3>3 DEF NoJob
    <3>5. job[j] \in JobType
      BY <2>1, <3>2, <3>3 DEF JobType, States
    <3>6. QED BY <2>3, <3>2, <3>4, <3>5 DEF KindOf, StateOf
  <2>4. CASE ~(j <= Stored)
    BY <1>1, <2>1, <2>2, <2>4
  <2>5. QED BY <2>3, <2>4
<1>4. ASSUME NEW j \in Jobs PROVE files[j] \subseteq FileNames
  <2>1. CASE j <= Stored
    <3>1. files[j] = ToSet(Outputs(j)) /\ KindOf(j) \in Kinds
      BY <1>1, <1>3, <2>1, KindsDiffer
    <3>2. QED BY <3>1, OutputsAreFiles
  <2>2. CASE ~(j <= Stored)
    BY <1>3, <2>2
  <2>3. QED BY <2>1, <2>2
<1>5. TypeOK
  <2>1. job \in [Jobs -> JobType] /\ files \in [Jobs -> SUBSET FileNames]
    BY <1>1, <1>3, <1>4
  <2>2. used \in [Jobs -> RuleSets \cup {None}] /\ packed \in [Jobs -> Jobs \cup {None}]
    BY <1>1
  <2>3. todo \in [Requests -> Seq(Kinds)] /\ plan \in [Requests -> PlanType]
    BY <1>1, EmptyPlans
  <2>4. QED BY <1>1, <2>1, <2>2, <2>3 DEF TypeOK
<1>6. \A j \in Jobs : StateOf(j) = IF j <= Stored THEN "succeeded" ELSE "absent"
  BY <1>3 DEF StateOf, NoJob
<1>7. QueueFilled /\ WorkerInStep
  <2>1. QueueFilled
    <3> SUFFICES ASSUME NEW i \in Jobs, NEW j \in Jobs, i < j, StateOf(i) = "absent"
                 PROVE  StateOf(j) = "absent"
      BY DEF QueueFilled
    <3>1. ~(i <= Stored) /\ i \in Nat /\ j \in Nat
      BY <1>6 DEF Jobs
    <3>2. ~(j <= Stored)
      BY <1>2, <3>1
    <3>3. StateOf(j) = IF j <= Stored THEN "succeeded" ELSE "absent"
      BY <1>6
    <3>4. QED BY <3>2, <3>3
  <2>2. wpc = "idle" /\ wjob = None
    BY <1>1
  <2>3. \A j \in Jobs : j # None /\ StateOf(j) # "running"
    BY <1>6 DEF Jobs, None
  <2>4. WorkerInStep
    BY <2>2, <2>3 DEF WorkerInStep
  <2>5. QED BY <2>1, <2>4
<1>8. KindsKnown
  BY <1>3, <1>6, KindsDiffer DEF KindsKnown
<1>9. StoredInStep
  <2> SUFFICES ASSUME NEW j \in Jobs, StateOf(j) = "succeeded"
               PROVE  files[j] = ToSet(Outputs(j)) /\ ("report" \in files[j] => j \in masked)
    BY <1>6 DEF StoredInStep
  <2>1. files[j] = ToSet(Outputs(j)) /\ KindOf(j) = COLLECT
    BY <1>1, <1>3, <1>6
  <2>2. "report" \in files[j] => "redacted" \in files[j]
    BY <2>1, OutputsOfKinds
  <2>3. QED BY <1>1, <2>1, <2>2
<1>10. AfterEarlier
  BY <1>3 DEF AfterEarlier, Named, NothingMade
<1>11. RequestsInStep
  <2>1. \A k \in Kinds : NoPlan.made[k] = None
    BY DEF NoPlan, NothingMade
  <2>2. <<>> \in Seq(Kinds) /\ ToSet(<<>>) = {} /\ \A n \in 1..Len(<<>>) : FALSE
    BY ShortSequences
  <2>3. RequestOK(<<>>, NoPlan)
    BY <2>1, <2>2, EmptyPlans, KindsDiffer DEF RequestOK, MadeKnown
  <2>4. QED BY <1>1, <2>3 DEF RequestsInStep
<1>12. PackagesInStep
  BY <1>3, KindsDiffer DEF PackagesInStep, KindOf, NoJob
<1>13. BodySettled /\ PackedInStep /\ NeverEarly /\ FreshPackagesMasked
  BY <1>1 DEF BodySettled, PackedInStep, NeverEarly, FreshPackagesMasked
<1>14. QED BY <1>5, <1>7, <1>8, <1>9, <1>10, <1>11, <1>12, <1>13 DEF IInv

\* Every step of a request keeps the invariant.
LEMMA RequestStepKeeps ==
    ASSUME IInv, NEW r \in Requests, RequestStep(r)
    PROVE  IInv'
<1>1. CASE Enqueue(r)
  BY <1>1, EnqueueKeeps
<1>2. CASE \E extract \in {<<>>, <<EXTRACT>>} : StartCollectAndPackage(r, extract)
  <2>1. \E t \in Seq(Kinds), p \in PlanType : Begin(r, t, p) /\ RequestOK(t, p)
    BY <1>2, CollectAndPackageBegins
  <2>2. QED BY <2>1, BeginKeeps
<1>3. CASE \E c \in Jobs, dated \in BOOLEAN : StartPackage(r, c, dated)
  <2>1. \E t \in Seq(Kinds), p \in PlanType : Begin(r, t, p) /\ RequestOK(t, p)
    BY <1>3, PackageBegins
  <2>2. QED BY <2>1, BeginKeeps
<1>4. CASE \/ \E redact \in BOOLEAN, extract \in {<<>>, <<EXTRACT>>} :
                StartCollection(r, redact, extract)
           \/ \E c \in Jobs : StartExtraction(r, c) \/ StartRedaction(r, c)
  <2>1. \E t \in Seq(Kinds), p \in PlanType : Begin(r, t, p) /\ RequestOK(t, p)
    BY <1>4, OthersBegin
  <2>2. QED BY <2>1, BeginKeeps
<1>5. QED BY <1>1, <1>2, <1>3, <1>4 DEF RequestStep

\* So does every step of the system, and a stutter.
LEMMA NextKeeps ==
    ASSUME IInv, [Next]_vars
    PROVE  IInv'
<1>1. CASE \E r \in Requests : RequestStep(r)
  BY <1>1, RequestStepKeeps
<1>2. CASE \E j \in Jobs : Claim(j)
  BY <1>2, ClaimKeeps
<1>3. CASE \E j \in Jobs : Cancel(j) \/ Delete(j)
  BY <1>3, CancelDeleteKeep
<1>4. CASE Resolve
  BY <1>4, ResolveKeeps
<1>5. CASE Succeed
  BY <1>5, SucceedKeeps
<1>6. CASE Refuse \/ Fail \/ Restart
  BY <1>6, FailuresKeep
<1>7. CASE \E on \in RuleSets : ChangeRules(on)
  BY <1>7, ChangeRulesKeeps
<1>8. CASE UNCHANGED vars
  <2>1. UNCHANGED <<job, files, rules, used, masked, packed, wpc, wjob, wfrom, todo, plan, mishaps>>
    BY <1>8 DEF vars, workerVars, requestVars
  <2>2. TypeOK' /\ Moved
    BY <2>1 DEF IInv, TypeOK, Moved, KindOf, StateOf
  <2>3. \A i \in Jobs : StateOf(i)' = StateOf(i)
    BY <2>1 DEF StateOf
  <2>4. EndsWell
    BY <2>1, <2>3 DEF EndsWell
  <2>5. QED BY <2>1, <2>2, <2>3, <2>4, MovedKeeps, RequestsMoved, StoredMoved, WorkerKept DEF IInv
<1>9. QED BY <1>1, <1>2, <1>3, <1>4, <1>5, <1>6, <1>7, <1>8 DEF Next

\* The invariant holds throughout every behaviour.
THEOREM Invariance == Spec => []IInv
<1>1. Init => IInv
  BY InitHolds
<1>2. IInv /\ [Next]_vars => IInv'
  BY NextKeeps
<1>3. QED BY <1>1, <1>2, PTL DEF Spec

\* Every variable keeps its type, through every interleaving, mishap and restart.
THEOREM JobChainTypeCorrect == Spec => []TypeOK
<1>1. IInv => TypeOK
  BY DEF IInv
<1>2. QED BY <1>1, Invariance, PTL

\* "Cannot actually happen given the FIFO queue and single worker": no body ever finds a job
\* it was queued after still to run, for any number of jobs, requests and mishaps.
THEOREM NoneEarly == Spec => []NeverEarly
<1>1. IInv => NeverEarly
  BY DEF IInv
<1>2. QED BY <1>1, Invariance, PTL

\* A package made with its own collection, or for a date range, ships a masked copy.
THEOREM FreshlyMasked == Spec => []FreshPackagesMasked
<1>1. IInv => FreshPackagesMasked
  BY DEF IInv
<1>2. QED BY <1>1, Invariance, PTL

\* A package is stored only when all it ships is stored by a job that succeeded.
THEOREM PackagesWhole == Spec => PackagesAreWhole
<1>1. ASSUME IInv, [Next]_vars
      PROVE  [\A p \in Jobs :
                packed[p] = None /\ packed'[p] # None =>
                  \A part \in Parts(p, packed'[p]) :
                     StateOf(part[1]) = "succeeded" /\ part[2] \in files[part[1]]]_vars
  <2> SUFFICES ASSUME NEW p \in Jobs, packed[p] = None, packed'[p] # None,
                      NEW part \in Parts(p, packed'[p])
               PROVE  StateOf(part[1]) = "succeeded" /\ part[2] \in files[part[1]]
    OBVIOUS
  <2>1. packed' # packed
    OBVIOUS
  <2>2. Succeed
    BY <1>1, <2>1 DEF Next, RequestStep, StartCollectAndPackage, StartCollection, StartExtraction,
       StartRedaction, StartPackage, Begin, Enqueue, Claim, Cancel, Delete, Resolve, Refuse, Fail,
       ChangeRules, Restart, vars
  <2>3. wpc = "copy" /\ Readable(wjob)
    BY <2>2 DEF Succeed
  <2> PICK w \in Jobs : w = wjob
    BY <1>1, <2>3, WorkersJob
  <2> DEFINE stored == ToSet(Outputs(w))
  <2>4. KindOf(w) \in Kinds
    BY <1>1, <2>3, WorkersJob
  <2>5. packed' = [packed EXCEPT ![w] = IF "package" \in stored THEN wfrom ELSE None]
    BY <2>2 DEF Succeed
  <2> HIDE DEF stored
  <2>6. p = w /\ "package" \in stored /\ packed'[p] = wfrom
    BY <1>1, <2>5 DEF IInv, TypeOK
  <2>7. KindOf(w) = PACKAGE
    BY <2>4, <2>6, OutputsOfKinds, KindsDiffer DEF stored
  <2>8. part \in Parts(wjob, wfrom)
    BY <2>6
  <2>9. part[1] \in Jobs /\ StateOf(part[1]) \in {"succeeded", "deleted"}
    BY <1>1, <2>3, <2>7, <2>8 DEF IInv, BodySettled
  <2>10. part[2] \in files[part[1]]
    BY <2>3, <2>7, <2>8 DEF Readable, PartsToCopy
  <2>11. StateOf(part[1]) # "deleted"
    BY <1>1, <2>9, <2>10 DEF IInv, StoredInStep
  <2>12. QED BY <2>9, <2>10, <2>11
<1>2. QED BY <1>1, Invariance, PTL DEF Spec, PackagesAreWhole

\* A package whose whole chain has succeeded, and is still there, finds a copy to ship.
LEMMA ChainCompletes ==
    ASSUME IInv
    PROVE  CompleteChainPackages
<1> SUFFICES ASSUME wpc = "body", KindOf(wjob) = PACKAGE,
                    \A i \in QueuedAfter(wjob) : Resolves(i),
                    rules = job[wjob].plan.rules,
                    job[wjob].plan.relied # None => Resolves(job[wjob].plan.relied)
             PROVE  PackageResolves(wjob)
  BY DEF CompleteChainPackages
<1> PICK w \in Jobs : w = wjob
  BY WorkersJob
<1> PICK p \in PlanType : p = job[w].plan
  BY DEF IInv, TypeOK, JobType
<1> DEFINE c == p.source
           from == RedactionSource(w)
<1>1. PackageOK(p) /\ rules = p.rules /\ (p.relied # None => Resolves(p.relied))
  BY DEF IInv, PackagesInStep
<1>2. \A k \in Kinds : p.made[k] # None =>
        p.made[k] \in Jobs /\ StateOf(p.made[k]) = "succeeded" /\ KindOf(p.made[k]) = k
  BY <1>1 DEF QueuedAfter, Member, Resolves, PackageOK, MadeKnown, PlanType
<1>3. c \in Jobs /\ StateOf(c) = "succeeded" /\ KindOf(c) = COLLECT
  BY <1>1 DEF QueuedAfter, Source, Resolves, PackageOK, PlanType
<1>4. \A i \in Jobs : StateOf(i) = "succeeded" => files[i] = ToSet(Outputs(i))
  BY DEF IInv, StoredInStep
<1>5. \A i \in {c, p.made[FINDINGS], p.made[INVENTORY]} : Resolves(i)
  BY <1>1, <1>2, <1>3, KindsDiffer DEF PackageOK, Resolves, Jobs, None
<1>6. /\ {"findings.json", "findings.md"} \subseteq files[p.made[FINDINGS]]
      /\ "inventory" \in files[p.made[INVENTORY]]
  BY <1>1, <1>2, <1>4, OutputsOfKinds, KindsDiffer DEF PackageOK
<1>7. /\ "report" \in files[from]
      /\ (IF from = p.made[EXTRACT] THEN "extract" ELSE "redacted") \in files[from]
  <2>1. CASE p.made[EXTRACT] # None
    <3>1. from = p.made[EXTRACT]
      BY <2>1 DEF RedactionSource, Member
    <3>2. files[p.made[EXTRACT]] = {"extract", "report"}
      BY <1>2, <1>4, <2>1, OutputsOfKinds, KindsDiffer
    <3>3. QED BY <3>1, <3>2
  <2>2. CASE p.made[EXTRACT] = None /\ p.made[REDACT] # None
    <3>1. from = p.made[REDACT] /\ from # p.made[EXTRACT]
      BY <2>2 DEF RedactionSource, Member
    <3>2. files[p.made[REDACT]] = {"redacted", "report"}
      BY <1>2, <1>4, <2>2, OutputsOfKinds, KindsDiffer
    <3>3. QED BY <3>1, <3>2
  <2>3. CASE p.made[EXTRACT] = None /\ p.made[REDACT] = None /\ "report" \in files[c]
    <3>1. from = c /\ from # p.made[EXTRACT]
      BY <1>3, <2>3 DEF RedactionSource, Member, Source, Jobs, None
    <3>2. "redacted" \in files[c]
      BY <1>3, <1>4, <2>3, OutputsOfKinds
    <3>3. QED BY <2>3, <3>1, <3>2
  <2>4. CASE p.made[EXTRACT] = None /\ p.made[REDACT] = None /\ "report" \notin files[c]
    <3>1. files[c] = ToSet(Outputs(c)) /\ "logs" \in files[c] /\ ~job[c].plan.redact
      BY <1>3, <1>4, <2>4, OutputsOfKinds
    <3>2. p.relied # None
      BY <1>1, <1>3, <2>4, <3>1 DEF PackageOK
    <3>3. p.relied \in Jobs /\ StateOf(p.relied) = "succeeded" /\ KindOf(p.relied) = REDACT
          /\ Source(p.relied) = c /\ used[p.relied] = rules
      BY <1>1, <3>2 DEF PackageOK, ReliedKnown, Resolves, PlanType
    <3>4. p.relied \in Redactions(c, rules)
      BY <1>4, <3>3, OutputsOfKinds DEF Redactions
    <3> DEFINE earlier == Newest(Redactions(c, rules))
    <3>5. earlier \in Redactions(c, rules)
      <4>1. Redactions(c, rules) \in SUBSET Jobs /\ Redactions(c, rules) # {}
        BY <3>4 DEF Redactions
      <4>2. QED BY <4>1, NewestIsOne
    <3>6. earlier \in Jobs /\ earlier # None /\ KindOf(earlier) = REDACT
          /\ StateOf(earlier) = "succeeded"
      BY <3>5 DEF Redactions, Jobs, None
    <3> HIDE DEF earlier
    <3>7. from = earlier
      BY <2>4, <3>1, <3>6 DEF RedactionSource, Member, Source, earlier
    <3>8. files[earlier] = {"redacted", "report"}
      BY <1>4, <3>6, OutputsOfKinds
    <3>9. QED BY <2>4, <3>6, <3>7, <3>8
  <2>5. QED BY <2>1, <2>2, <2>3, <2>4
<1> HIDE DEF from, c
<1>8. \A part \in Parts(w, from) : part[2] \in files[part[1]]
  BY <1>6, <1>7 DEF Parts, Member
<1>9. /\ p.made[EXTRACT] # None => Resolves(p.made[EXTRACT])
      /\ p.made[REDACT] # None => Resolves(p.made[REDACT])
  BY <1>2, KindsDiffer DEF Resolves
<1>10. QED BY <1>5, <1>7, <1>8, <1>9 DEF PackageResolves, Source, Member, from, c

\* The same, throughout every behaviour: the excuses are a change of the rules, or the
\* deletion of the redaction that the route relied on.
THEOREM CompleteChainsPackage == Spec => []CompleteChainPackages
<1>1. IInv => CompleteChainPackages
  BY ChainCompletes
<1>2. QED BY <1>1, Invariance, PTL

=============================================================================
