--------------------------- MODULE CollectionProofs ---------------------------
(***************************************************************************)
(* What is proved of a collection and an extraction, for bundles of any    *)
(* number of files of any length and a transfer cut at any unit: types,    *)
(* that the redacted copy holds exactly the files that arrived whole, that *)
(* nothing half-written stays behind, that an extraction keeps the lines   *)
(* of the days asked for, and that the report counts what is masked.       *)
(***************************************************************************)
EXTENDS Collection, FiniteSetTheorems, SequenceTheorems, WellFoundedInduction, TLAPS

-----------------------------------------------------------------------------
(* Induction *)

\* Induction up to n, over the set of the numbers that have a property.
LEMMA UpTo ==
    ASSUME NEW n \in Nat, NEW T, 0 \in T, \A m \in 0..(n - 1) : m \in T => m + 1 \in T
    PROVE  0..n \subseteq T
<1> DEFINE U == (0..n) \ T
           Before == OpToRel(<, Nat)
<1> SUFFICES ASSUME U # {} PROVE FALSE
  OBVIOUS
<1>1. U \subseteq Nat
  OBVIOUS
<1>2. IsWellFoundedOn(Before, Nat)
  BY NatLessThanWellFounded, Zenon
<1>3. \A m, k \in Nat : m < k => <<m, k>> \in Before
  BY DEF OpToRel
<1> HIDE DEF Before
<1>4. PICK m \in U : \A k \in U : ~(<<k, m>> \in Before)
  <2> HIDE DEF U
  <2>1. QED BY ONLY <1>1, <1>2, U # {}, WFMin, Zenon
<1>5. m \in Nat /\ m # 0 /\ m - 1 \in Nat /\ m - 1 \in 0..(n - 1)
  OBVIOUS
<1>6. m - 1 \notin U
  <2>1. m - 1 < m
    BY <1>5
  <2>2. <<m - 1, m>> \in Before
    BY <1>3, <1>5, <2>1
  <2> HIDE DEF U
  <2>3. QED BY ONLY <1>4, <2>2
<1>7. m - 1 \in T /\ (m - 1) + 1 = m
  BY <1>5, <1>6
<1>8. m \in T
  BY <1>5, <1>7
<1>9. QED BY <1>8

\* Each value of f but its first is a step from the one before.
StepsFrom(f, base, step, n) == f[0] = base /\ \A k \in 1..n : f[k] = step[<<k, f[k - 1]>>]

\* Such a function exists, whatever the step.
LEMMA Stepwise ==
    ASSUME NEW n \in Nat, NEW S, NEW base \in S, NEW step \in [(1..n) \X S -> S]
    PROVE  \E f \in [0..n -> S] : StepsFrom(f, base, step, n)
<1> DEFINE Starts(f, m) == f \in [0..m -> S] /\ StepsFrom(f, base, step, m)
           T == {m \in 0..n : \E f : Starts(f, m)}
<1>1. 0 \in T
  <2> DEFINE g == [k \in 0..0 |-> base]
  <2>1. g \in [0..0 -> S] /\ g[0] = base /\ 1..0 = {}
    OBVIOUS
  <2>2. Starts(g, 0)
    BY <2>1 DEF StepsFrom
  <2> HIDE DEF Starts
  <2>3. QED BY <2>2
<1>2. ASSUME NEW m \in 0..(n - 1), m \in T PROVE m + 1 \in T
  <2>1. PICK f : Starts(f, m)
    BY <1>2
  <2> DEFINE e == step[<<m + 1, f[m]>>]
             g == [k \in 0..(m + 1) |-> IF k = m + 1 THEN e ELSE f[k]]
  <2>2. e \in S
    BY <2>1
  <2>3. /\ g[m + 1] = e /\ \A k \in 0..m : g[k] = f[k]
        /\ g \in [0..(m + 1) -> S]
    <3> HIDE DEF e
    <3>1. QED BY <2>1, <2>2
  <2>4. ASSUME NEW k \in 1..(m + 1) PROVE g[k] = step[<<k, g[k - 1]>>]
    <3> HIDE DEF g
    <3>1. k - 1 \in 0..m /\ g[k - 1] = f[k - 1]
      BY <2>3
    <3>2. CASE k = m + 1
      BY <2>3, <3>1, <3>2
    <3>3. CASE k # m + 1
      <4>1. k \in 1..m /\ k \in 0..m /\ g[k] = f[k]
        BY <2>3, <3>3
      <4>2. QED BY <2>1, <3>1, <4>1 DEF StepsFrom
    <3>4. QED BY <3>2, <3>3
  <2>5. Starts(g, m + 1)
    <3> HIDE DEF g
    <3>1. g[0] = base
      BY <2>1, <2>3 DEF StepsFrom
    <3>2. QED BY <2>3, <2>4, <3>1 DEF StepsFrom
  <2>6. m + 1 \in 0..n
    OBVIOUS
  <2> HIDE DEF Starts
  <2>7. QED BY <2>5, <2>6
<1>3. n \in T
  <2> HIDE DEF T
  <2>1. 0..n \subseteq T
    BY <1>1, <1>2, UpTo
  <2>2. QED BY <2>1
<1>4. QED BY <1>3

-----------------------------------------------------------------------------
(* Units *)

\* The units of file k, and of the first i files, told apart by their places.
UnitsOf(k) == {k} \X (0..Len(bundle[k].lines))

UnitSet(i) == UNION {UnitsOf(k) : k \in 1..i}

\* The log files of a bundle have lines.
LEMMA BundleLines ==
    ASSUME bundle \in Seq(Logs), NEW k \in 1..Len(bundle)
    PROVE  /\ bundle[k] \in Logs /\ bundle[k].lines \in Seq(Line)
           /\ Len(bundle[k].lines) \in Nat
<1>1. bundle[k] \in Logs
  OBVIOUS
<1>2. bundle[k].lines \in Seq(Line)
  BY <1>1, CollectionAssumption
<1>3. QED BY <1>1, <1>2, LenProperties

\* The units of some files can be counted.
LEMMA UnitsAreFinite ==
    ASSUME bundle \in Seq(Logs), NEW i \in 0..Len(bundle)
    PROVE  IsFiniteSet(UnitSet(i))
<1> DEFINE S == {UnitsOf(k) : k \in 1..i}
           f == [k \in 1..i |-> UnitsOf(k)]
<1>1. i \in Nat /\ Len(bundle) \in Nat /\ 1..i \subseteq 1..Len(bundle)
  BY LenProperties
<1>2. IsFiniteSet(1..i)
  BY <1>1, FS_Interval
<1>3. f \in Surjection(1..i, S)
  BY DEF Surjection
<1>4. IsFiniteSet(S)
  <2> HIDE DEF f, S
  <2> QED BY <1>2, <1>3, FS_Surjection
<1>5. ASSUME NEW k \in 1..i PROVE IsFiniteSet(UnitsOf(k))
  <2>1. Len(bundle[k].lines) \in Nat
    <3>1. k \in 1..Len(bundle)
      BY <1>1
    <3>2. QED BY <3>1, BundleLines
  <2>2. IsFiniteSet({k}) /\ IsFiniteSet(0..Len(bundle[k].lines))
    <3>1. IsFiniteSet({k})
      BY FS_Singleton
    <3>2. IsFiniteSet(0..Len(bundle[k].lines))
      <4>1. \A n \in Nat : IsFiniteSet(0..n)
        BY FS_Interval
      <4>2. QED BY <2>1, <4>1
    <3>3. QED BY <3>1, <3>2
  <2>3. QED BY <2>2, FS_Product DEF UnitsOf
<1>6. \A T \in S : IsFiniteSet(T)
  BY <1>5
<1>7. QED
  <2> HIDE DEF S
  <2>1. IsFiniteSet(UNION S)
    BY <1>4, <1>6, FS_UNION
  <2>2. QED BY <2>1 DEF UnitSet, S

\* Every file adds a unit at least, its header.
LEMMA UnitsGrow ==
    ASSUME bundle \in Seq(Logs), NEW i \in 0..Len(bundle)
    PROVE  /\ UnitsTo(i) \in Nat
           /\ \A n \in 0..Len(bundle) : i < n => UnitsTo(i) < UnitsTo(n)
<1>1. \A n : UnitsTo(n) = Cardinality(UnitSet(n))
  BY DEF UnitsTo, UnitSet, UnitsOf
<1>2. UnitsTo(i) \in Nat
  BY <1>1, UnitsAreFinite, FS_CardinalityType
<1>3. ASSUME NEW n \in 0..Len(bundle), i < n PROVE UnitsTo(i) < UnitsTo(n)
  <2>1. Len(bundle) \in Nat /\ n \in 1..Len(bundle)
    BY <1>3, LenProperties
  <2>2. IsFiniteSet(UnitSet(n)) /\ IsFiniteSet(UnitSet(i))
    BY UnitsAreFinite
  <2>3. UnitSet(i) \subseteq UnitSet(n)
    <3>1. 1..i \subseteq 1..n
      BY <1>3, <2>1
    <3>2. QED BY <3>1 DEF UnitSet
  <2>4. <<n, 0>> \in UnitSet(n)
    <3>1. <<n, 0>> \in UnitsOf(n)
      BY <2>1, BundleLines DEF UnitsOf
    <3>2. n \in 1..n
      BY <2>1
    <3>3. QED BY <3>1, <3>2 DEF UnitSet
  <2>5. <<n, 0>> \notin UnitSet(i)
    <3> SUFFICES ASSUME NEW k \in 1..i, <<n, 0>> \in UnitsOf(k) PROVE FALSE
      BY DEF UnitSet
    <3>1. n = k
      BY DEF UnitsOf
    <3>2. QED BY <3>1, <1>3, <2>1
  <2>6. Cardinality(UnitSet(i)) <= Cardinality(UnitSet(n))
        /\ Cardinality(UnitSet(i)) # Cardinality(UnitSet(n))
    BY <2>2, <2>3, <2>4, <2>5, FS_Subset
  <2>7. Cardinality(UnitSet(i)) \in Nat /\ Cardinality(UnitSet(n)) \in Nat
    BY <2>2, FS_CardinalityType
  <2>8. QED BY <1>1, <2>6, <2>7
<1>4. QED BY <1>2, <1>3

\* So the whole bundle has a size, and so has the trail.
LEMMA SizeType ==
    ASSUME bundle \in Seq(Logs), NEW f \in {"logs", "audit"}
    PROVE  Size(f) \in Nat
<1>1. Len(bundle) \in 0..Len(bundle) /\ Len(Trail) \in Nat
  BY LenProperties, CollectionAssumption
<1>2. QED BY <1>1, UnitsGrow DEF Size

\* What redact_text counts is a number.
LEMMA HitsType ==
    ASSUME NEW lines \in Seq(Line)
    PROVE  Hits(lines) \in Nat
<1> DEFINE S == HitLines(lines)
<1>1. DOMAIN lines = 1..Len(lines) /\ Len(lines) \in Nat
  BY LenProperties
<1>2. IsFiniteSet(1..Len(lines)) /\ S \in SUBSET (1..Len(lines))
  BY <1>1, FS_Interval DEF HitLines
<1> HIDE DEF S
<1>3. Cardinality(S) \in Nat
  BY <1>2, FS_Subset, FS_CardinalityType
<1>4. QED BY <1>3 DEF Hits, S

\* Masking changes no line but for what is masked.
LEMMA MaskedType ==
    ASSUME NEW lines \in Seq(Line)
    PROVE  /\ Masked(lines) \in Seq(Line)
           /\ DOMAIN Masked(lines) = DOMAIN lines /\ Len(Masked(lines)) = Len(lines)
<1>1. \A l \in Line : MaskedLine(l) \in Line
  BY DEF MaskedLine, Line
<1>2. DOMAIN lines = 1..Len(lines) /\ Len(lines) \in Nat /\ \A n \in DOMAIN lines : lines[n] \in Line
  BY LenProperties
<1>3. Masked(lines) \in Seq(Line) /\ DOMAIN Masked(lines) = DOMAIN lines
  BY <1>1, <1>2, IsASeq DEF Masked
<1>4. QED BY <1>2, <1>3, LenProperties

\* What has arrived of a file is some of its lines.
LEMMA LinesWithinType ==
    ASSUME bundle \in Seq(Logs), NEW i \in 1..Len(bundle), NEW n \in Nat
    PROVE  LinesWithin(i, n) \in Seq(Line)
<1> DEFINE body == bundle[i].lines
           room == n - UnitsTo(i - 1) - 1
           last1 == IF room < Len(body) THEN room ELSE Len(body)
<1>1. body \in Seq(Line) /\ Len(body) \in Nat
  BY BundleLines
<1>2. i - 1 \in 0..Len(bundle)
  BY LenProperties
<1>3. room \in Int
  BY <1>2, UnitsGrow
<1> HIDE DEF body, room
<1>4. last1 \in Int /\ \A k \in 1..last1 : body[k] \in Line
  BY <1>1, <1>3
<1>5. SubSeq(body, 1, last1) \in Seq(Line)
  BY <1>4, SubSeqProperties
<1>6. QED BY <1>5 DEF LinesWithin, body, room

-----------------------------------------------------------------------------
(* The inductive invariant *)

PartType == [units : 0..Size(file), page : BOOLEAN, open : BOOLEAN]
RawType(f) == [units : 0..Size(f), page : BOOLEAN]
Entries == {Entry(j, i) : j \in JobType, i \in 1..Len(bundle)}

Downloads == {"connect", "begin", "request", "chunk", "storing", "store"}
Repacks == {"read", "salvage", "keep"}

\* The working files are there while the job is at them.
WorkingFiles ==
    /\ pc \in {"connect", "begin", "request", "repack", "maskAudit", "report", "finish"} \cup Repacks
         => part = None
    /\ pc \in {"chunk", "storing", "store"} => part \in PartType
    /\ pc \in {"storing", "store"} => ~part.open
    /\ pc \notin {"idle"} \cup Repacks => out = None
    /\ pc \in Repacks => out \in Seq(Entries)

\* What a job repacks is stored.
RawThere ==
    /\ pc \in {"repack"} \cup Repacks => raw["logs"] \in RawType("logs")
    /\ pc \in Downloads /\ file = "audit" => raw["logs"] \in RawType("logs")
    /\ pc = "maskAudit" => raw["audit"] \in RawType("audit")

\* A whole file, masked, and an archive of the first n.
WholeEntry(i) ==
    [member |-> i, lines |-> IF bundle[i].kind = "text" THEN Masked(bundle[i].lines)
                             ELSE bundle[i].lines]

IsWhole(c, n) == Len(c) = n /\ \A i \in 1..n : c[i] = WholeEntry(i)

\* Just the first n files have arrived whole.
Arrived(n) == \A i \in 1..Len(bundle) : Complete(i) <=> i <= n

\* A collection writes every file it has met, until it meets one that was cut.
ReadInStep ==
    job.kind = "collect" =>
        /\ pc = "read" => IsWhole(out, members) /\ \A i \in 1..members : Complete(i)
        /\ pc \in {"salvage", "keep"} =>
            \E n \in 0..Len(bundle) : IsWhole(out, n) /\ Arrived(n)

CopyInStep ==
    /\ copies["logs"] # None =>
        /\ raw["logs"] \in RawType("logs")
        /\ \E n \in 0..Len(bundle) : IsWhole(copies["logs"], n) /\ Arrived(n)
    /\ pc \in Downloads => copies["logs"] = None

IInv == /\ TypeOK /\ WorkingFiles /\ RawThere /\ ReadInStep /\ CopyInStep
        /\ NothingHalfWritten

-----------------------------------------------------------------------------
(* Steps *)

\* A host's log files do not change while the job runs.
LEMMA BundleStays ==
    ASSUME bundle' = bundle
    PROVE  /\ \A i : UnitsTo(i)' = UnitsTo(i) /\ WholeEntry(i)' = WholeEntry(i)
           /\ \A f : Size(f)' = Size(f) /\ RawType(f)' = RawType(f)
           /\ Entries' = Entries
<1>1. \A i : UnitsTo(i)' = UnitsTo(i)
  BY DEF UnitsTo
<1>2. \A i : WholeEntry(i)' = WholeEntry(i)
  BY DEF WholeEntry
<1>3. \A f : Size(f)' = Size(f)
  BY <1>1 DEF Size
<1>4. \A f : RawType(f)' = RawType(f)
  BY <1>3 DEF RawType
<1>5. Entries' = Entries
  BY DEF Entries, Entry
<1>6. QED BY <1>1, <1>2, <1>3, <1>4, <1>5

\* What was copied stays whole while the raw bundle and the copies stay.
LEMMA CopyStays ==
    ASSUME IInv, UNCHANGED <<bundle, raw>>, copies'["logs"] = copies["logs"],
           pc' \in Downloads => pc \in Downloads
    PROVE  CopyInStep'
<1>1. \A i \in 1..Len(bundle) : Complete(i)' <=> Complete(i)
  BY BundleStays DEF Complete, Units
<1>2. \A c, n : (IsWhole(c, n) => Len(c) = n /\ \A i \in 1..n : c[i] = WholeEntry(i)')
  BY BundleStays DEF IsWhole
<1>3. QED BY <1>1, <1>2, BundleStays DEF IInv, CopyInStep, IsWhole, Arrived

\* The steps that only go on to the next, or end the job.
LEMMA ControlKeeps ==
    ASSUME IInv,
           UNCHANGED <<bundle, silent, file, part, raw, members, out, counts, copies, report>>,
           cancel' \in BOOLEAN,
           \/ /\ UNCHANGED <<job, last>>
              /\ <<pc, pc'>> \in {<<"connect", "begin">>, <<"begin", "request">>,
                                  <<"storing", "store">>, <<"salvage", "keep">>}
           \/ /\ pc # "idle" /\ pc' = "idle" /\ job' = None
              /\ \E o \in {"succeeded", "failed", "cancelled"} :
                    /\ last' = [kind |-> job.kind, outcome |-> o]
                    /\ \/ o = "cancelled" /\ pc \in {"storing", "salvage"}
                       \/ pc \in {"connect", "begin", "request", "report", "finish"}
    PROVE  IInv'
<1>1. /\ \A f : Size(f)' = Size(f) /\ RawType(f)' = RawType(f)
      /\ \A i : UnitsTo(i)' = UnitsTo(i) /\ WholeEntry(i)' = WholeEntry(i)
      /\ Entries' = Entries
  BY BundleStays
<1>2. TypeOK'
  BY <1>1 DEF IInv, TypeOK, JobType, Labels
<1>3. PartType' = PartType
  BY <1>1 DEF PartType
<1>4. WorkingFiles'
  BY <1>1, <1>3 DEF IInv, WorkingFiles, Repacks
<1>5. RawThere'
  BY <1>1 DEF IInv, RawThere, Repacks, Downloads
<1>6. ReadInStep'
  BY <1>1 DEF IInv, ReadInStep, IsWhole, Arrived, Complete, Units
<1>7. CopyInStep'
  BY CopyStays DEF Downloads
<1>8. NothingHalfWritten'
  BY DEF IInv, NothingHalfWritten, WorkingFiles, TypeOK, PartType, Repacks
<1>9. QED BY <1>2, <1>4, <1>5, <1>6, <1>7, <1>8 DEF IInv

\* A cancellation that is asked for, and a transfer that falls silent, move nothing.
LEMMA OthersKeep ==
    ASSUME IInv, Cancel \/ GoSilent \/ UNCHANGED vars
    PROVE  IInv'
<1>1. /\ UNCHANGED <<bundle, job, pc, file, part, raw, members, out, counts, copies, report, last>>
      /\ cancel' \in BOOLEAN /\ silent' \in BOOLEAN
  BY DEF IInv, TypeOK, Cancel, GoSilent, vars, transfer, repack, stored
<1>2. /\ \A f : Size(f)' = Size(f) /\ RawType(f)' = RawType(f)
      /\ \A i : UnitsTo(i)' = UnitsTo(i) /\ WholeEntry(i)' = WholeEntry(i)
      /\ Entries' = Entries
  BY <1>1, BundleStays
<1>3. TypeOK'
  BY <1>1, <1>2 DEF IInv, TypeOK
<1>4. PartType' = PartType
  BY <1>1, <1>2 DEF PartType
<1>5. WorkingFiles' /\ RawThere'
  BY <1>1, <1>2, <1>4 DEF IInv, WorkingFiles, RawThere
<1>6. ReadInStep'
  BY <1>1, <1>2 DEF IInv, ReadInStep, IsWhole, Arrived, Complete, Units
<1>7. CopyInStep'
  BY <1>1, CopyStays
<1>8. NothingHalfWritten'
  BY <1>1 DEF IInv, NothingHalfWritten
<1>9. QED BY <1>3, <1>5, <1>6, <1>7, <1>8 DEF IInv

\* The steps between two others.
LEMMA ControlSteps ==
    ASSUME IInv, Connect \/ Begin \/ Refused \/ Storing \/ Salvage \/ Finish
    PROVE  IInv'
<1>1. UNCHANGED <<bundle, silent, file, part, raw, members, out, counts, copies, report>>
      /\ cancel' \in BOOLEAN
  BY DEF IInv, TypeOK, Connect, Begin, Refused, Storing, Salvage, Finish, transfer, repack, stored
<1>2. \/ /\ UNCHANGED <<job, last>>
         /\ <<pc, pc'>> \in {<<"connect", "begin">>, <<"begin", "request">>,
                             <<"storing", "store">>, <<"salvage", "keep">>}
      \/ /\ pc # "idle" /\ pc' = "idle" /\ job' = None
         /\ \E o \in {"succeeded", "failed", "cancelled"} :
               /\ last' = [kind |-> job.kind, outcome |-> o]
               /\ \/ o = "cancelled" /\ pc \in {"storing", "salvage"}
                  \/ pc \in {"connect", "begin", "request", "report", "finish"}
  BY DEF Connect, Begin, Refused, Storing, Salvage, Finish, Checkpoint, End, Goto
<1>3. QED BY <1>1, <1>2, ControlKeeps

\* A job starts with nothing of its own.
LEMMA StartKeeps ==
    ASSUME IInv,
           \/ \E audit, redact \in BOOLEAN : StartCollection(audit, redact)
           \/ \E categories \in SUBSET Categories, rotated \in BOOLEAN, form \in Forms :
                StartExtraction(categories, rotated, form)
    PROVE  IInv'
<1>1. /\ bundle' = bundle /\ last' = last
      /\ cancel' = FALSE /\ file' = "logs" /\ silent' = FALSE /\ part' = None
      /\ members' = 0 /\ out' = None /\ counts' = 0 /\ copies' = NoCopies /\ report' = None
  BY DEF StartCollection, StartExtraction, Start
<1>2. /\ \A f : Size(f)' = Size(f) /\ RawType(f)' = RawType(f)
      /\ Entries' = Entries
  BY <1>1, BundleStays
<1>3. job' \in JobType /\ pc' \in {"connect", "repack"}
  <2>1. CASE \E audit, redact \in BOOLEAN : StartCollection(audit, redact)
    BY <2>1 DEF StartCollection, Start, Goto, JobType
  <2>2. CASE \E categories \in SUBSET Categories, rotated \in BOOLEAN, form \in Forms :
                StartExtraction(categories, rotated, form)
    <3>1. PICK categories \in SUBSET Categories, rotated \in BOOLEAN, form \in Forms :
                StartExtraction(categories, rotated, form)
      BY <2>2
    <3>2. job' = [kind |-> "extract", categories |-> categories, rotated |-> rotated,
                  form |-> form, range |-> RangeOf(form)]
          /\ pc' = "repack"
      BY <3>1 DEF StartExtraction, Start, Goto
    <3>3. QED BY <3>2 DEF JobType
  <2>3. QED BY <2>1, <2>2
<1>4. /\ DOMAIN raw' = {"logs", "audit"}
      /\ \A f \in {"logs", "audit"} : raw'[f] # None => raw'[f] \in RawType(f)
      /\ pc' = "repack" => raw'["logs"] \in RawType("logs")
  BY DEF IInv, TypeOK, StartCollection, StartExtraction, Start, Goto, NoRaw, RawType
<1>5. Len(bundle) \in Nat
  BY LenProperties DEF IInv, TypeOK
<1>6. TypeOK'
  <2>1. DOMAIN copies' = {"logs", "audit", "extract"} /\ \A c \in DOMAIN copies' : copies'[c] = None
    BY <1>1 DEF NoCopies
  <2>2. \A f \in {"logs", "audit"} :
          raw'[f] # None => raw'[f] \in [units : 0..Size(f)', page : BOOLEAN]
    BY <1>2, <1>4 DEF RawType
  <2>3. /\ bundle' \in Seq(Logs) /\ members' \in 0..Len(bundle') /\ counts' \in Nat
        /\ last' # None => last' \in [kind : {"collect", "extract"},
                                    outcome : {"succeeded", "failed", "cancelled"}]
    BY <1>1, <1>5 DEF IInv, TypeOK
  <2>4. pc' \in Labels /\ pc' # "idle"
    BY <1>3 DEF Labels
  <2>5. DOMAIN raw' = {"logs", "audit"} /\ job' \in JobType
    BY <1>3, <1>4
  <2>6. QED BY <1>1, <2>1, <2>2, <2>3, <2>4, <2>5 DEF TypeOK
<1>7. WorkingFiles'
  BY <1>1, <1>3 DEF WorkingFiles, Repacks
<1>8. RawThere'
  BY <1>1, <1>2, <1>3, <1>4 DEF RawThere, Repacks, Downloads
<1>9. ReadInStep' /\ CopyInStep' /\ NothingHalfWritten'
  BY <1>1, <1>3 DEF ReadInStep, CopyInStep, NothingHalfWritten, NoCopies
<1>10. QED BY <1>6, <1>7, <1>8, <1>9 DEF IInv

-----------------------------------------------------------------------------
(* The download *)

\* The steps of a transfer touch the .part file only; they end with it received, or gone.
LEMMA TransferKeeps ==
    ASSUME IInv,
           UNCHANGED <<bundle, cancel, file, raw, members, out, counts, copies, report>>,
           silent' \in BOOLEAN, pc \in {"request", "chunk"},
           \/ /\ UNCHANGED <<job, last>>
              /\ part' \in PartType
              /\ pc' = "chunk" \/ (pc' = "storing" /\ ~part'.open)
           \/ /\ pc' = "idle" /\ job' = None /\ part' = None
              /\ \E o \in {"failed", "cancelled"} : last' = [kind |-> job.kind, outcome |-> o]
    PROVE  IInv'
<1>1. /\ \A f : Size(f)' = Size(f) /\ RawType(f)' = RawType(f)
      /\ Entries' = Entries
  BY BundleStays
<1>2. PartType' = PartType
  BY <1>1 DEF PartType
<1>3. TypeOK'
  BY <1>1 DEF IInv, TypeOK, JobType, Labels, PartType
<1>4. WorkingFiles'
  BY <1>2 DEF IInv, WorkingFiles, Repacks
<1>5. RawThere' /\ ReadInStep'
  BY <1>1 DEF IInv, RawThere, ReadInStep, Repacks, Downloads
<1>6. CopyInStep'
  BY CopyStays DEF Downloads
<1>7. NothingHalfWritten'
  BY DEF IInv, NothingHalfWritten, WorkingFiles, Repacks
<1>8. QED BY <1>3, <1>4, <1>5, <1>6, <1>7 DEF IInv

\* However a transfer goes.
LEMMA TransferSteps ==
    ASSUME IInv, Accepted \/ Chunk \/ EndOfBody \/ Timeout \/ Reset
    PROVE  IInv'
<1>1. /\ UNCHANGED <<bundle, cancel, file, raw, members, out, counts, copies, report>>
      /\ silent' \in BOOLEAN /\ pc \in {"request", "chunk"}
  BY DEF IInv, TypeOK, Accepted, Chunk, EndOfBody, Timeout, Reset, repack, stored
<1>2. Size(file) \in Nat
  BY SizeType DEF IInv, TypeOK
<1>3. pc = "chunk" => part \in PartType
  BY DEF IInv, WorkingFiles
<1>4. CASE Accepted
  <2>1. part' \in PartType
    BY <1>2, <1>4 DEF Accepted, PartType
  <2>2. QED BY <1>1, <1>4, <2>1, TransferKeeps DEF Accepted, Goto
<1>5. CASE Chunk
  <2>1. CASE cancel
    BY <1>1, <1>5, <2>1, TransferKeeps DEF Chunk, OnChunk, Checkpoint, End, Goto
  <2>2. CASE ~cancel
    <3>1. part.units \in 0..Size(file) /\ part.units < Size(file)
      BY <1>3, <1>5 DEF Chunk, PartType
    <3>2. part' = [part EXCEPT !.units = part.units + 1] /\ part.units + 1 \in 0..Size(file)
      BY <1>2, <1>5, <2>2, <3>1 DEF Chunk
    <3>3. part' \in PartType
      BY <1>3, <1>5, <3>2 DEF Chunk, PartType
    <3>4. QED BY <1>1, <1>5, <2>2, <3>3, TransferKeeps DEF Chunk, OnChunk, Checkpoint, Goto
  <2>3. QED BY <2>1, <2>2
<1>6. ASSUME NEW page \in BOOLEAN, Received(page), pc = "chunk"
      PROVE  /\ UNCHANGED <<job, last>> /\ part' \in PartType
             /\ pc' = "storing" /\ ~part'.open
  <2>1. part' = [part EXCEPT !.page = page /\ part.units = 0, !.open = FALSE]
    BY <1>6 DEF Received
  <2>2. (page /\ part.units = 0) \in BOOLEAN
    BY SMT
  <2>3. part' \in PartType /\ ~part'.open
    BY <1>3, <1>6, <2>1, <2>2 DEF PartType
  <2>4. QED BY <1>6, <2>3 DEF Received, Goto
<1>7. CASE EndOfBody
  <2>1. PICK page \in BOOLEAN : Received(page)
    BY <1>7 DEF EndOfBody, ErrorPages
  <2>2. QED BY <1>1, <1>6, <1>7, <2>1, TransferKeeps DEF EndOfBody
<1>8. CASE Timeout
  <2>1. PICK page \in BOOLEAN : Received(page) \/ (part' = None /\ End("failed"))
    BY <1>8 DEF Timeout, ErrorPages
  <2>2. CASE Received(page)
    BY <1>1, <1>6, <1>8, <2>2, TransferKeeps DEF Timeout
  <2>3. CASE part' = None /\ End("failed")
    BY <1>1, <2>3, TransferKeeps DEF End, Goto
  <2>4. QED BY <2>1, <2>2, <2>3
<1>9. CASE Reset
  BY <1>1, <1>9, TransferKeeps DEF Reset, End, Goto
<1>10. QED BY <1>4, <1>5, <1>7, <1>8, <1>9

\* What has been received is stored.
LEMMA StoreKeeps ==
    ASSUME IInv, Store
    PROVE  IInv'
<1>1. /\ pc = "store" /\ raw' = [raw EXCEPT ![file] = [units |-> part.units, page |-> part.page]]
      /\ part' = None /\ file' \in {"logs", "audit"} /\ pc' \in {"begin", "repack", "finish"}
      /\ pc' = "repack" => file' = file
      /\ UNCHANGED <<bundle, job, cancel, silent, members, out, counts, copies, report, last>>
  BY DEF Store, Goto, repack, IInv, TypeOK
<1>2. /\ \A f : Size(f)' = Size(f) /\ RawType(f)' = RawType(f)
      /\ Entries' = Entries
  BY <1>1, BundleStays
<1>3. part \in PartType /\ copies["logs"] = None /\ out = None
  BY <1>1 DEF IInv, WorkingFiles, CopyInStep, Downloads, Repacks
<1>4. [units |-> part.units, page |-> part.page] \in RawType(file)
  BY <1>3 DEF PartType, RawType
<1>5. /\ DOMAIN raw' = {"logs", "audit"}
      /\ \A f \in {"logs", "audit"} : raw'[f] # None => raw'[f] \in RawType(f)
  BY <1>1, <1>4 DEF IInv, TypeOK, RawType
<1>6. TypeOK'
  BY <1>1, <1>2, <1>5 DEF IInv, TypeOK, Labels, RawType
<1>7. WorkingFiles'
  BY <1>1, <1>3 DEF WorkingFiles, Repacks
<1>8. RawThere'
  <2>1. file = "audit" => raw["logs"] \in RawType("logs")
    BY <1>1 DEF IInv, RawThere, Downloads
  <2>2. raw'["logs"] \in RawType("logs")
    BY <1>1, <1>4, <2>1 DEF IInv, TypeOK
  <2>3. QED BY <1>1, <1>2, <2>2 DEF RawThere, Repacks
<1>9. ReadInStep' /\ CopyInStep' /\ NothingHalfWritten'
  BY <1>1, <1>3 DEF ReadInStep, CopyInStep, NothingHalfWritten
<1>10. QED BY <1>6, <1>7, <1>8, <1>9 DEF IInv

-----------------------------------------------------------------------------
(* Repacking *)

\* The new archive is begun.
LEMMA RepackKeeps ==
    ASSUME IInv, Repack
    PROVE  IInv'
<1>1. /\ UNCHANGED <<bundle, cancel, silent, file, part, raw, copies, report>>
      /\ pc = "repack" /\ members' = 0 /\ counts' = 0
      /\ \/ /\ pc' = "read" /\ out' = <<>> /\ UNCHANGED <<job, last>>
         \/ /\ pc' = "idle" /\ out' = None /\ job' = None
            /\ last' = [kind |-> job.kind, outcome |-> "cancelled"]
  BY DEF Repack, Checkpoint, End, Goto, transfer, stored
<1>2. /\ \A f : Size(f)' = Size(f) /\ RawType(f)' = RawType(f)
      /\ Entries' = Entries
  BY <1>1, BundleStays
<1>3. Len(bundle) \in Nat /\ part = None /\ raw["logs"] \in RawType("logs") /\ job \in JobType
  BY <1>1, LenProperties DEF IInv, TypeOK, WorkingFiles, RawThere
<1>4. TypeOK'
  <2>1. job.kind \in {"collect", "extract"}
    BY <1>3 DEF JobType
  <2>2. last' # None => last' \in [kind : {"collect", "extract"},
                                  outcome : {"succeeded", "failed", "cancelled"}]
    BY <1>1, <2>1 DEF IInv, TypeOK
  <2>3. members' \in 0..Len(bundle) /\ counts' \in Nat
    BY <1>1, <1>3
  <2>4. IF pc' = "idle" THEN job' = None ELSE job' \in JobType
    BY <1>1, <1>3
  <2>5. pc' \in Labels
    BY <1>1 DEF Labels
  <2>6. /\ bundle' \in Seq(Logs) /\ members' \in 0..Len(bundle')
        /\ silent' \in BOOLEAN /\ cancel' \in BOOLEAN /\ file' \in {"logs", "audit"}
        /\ report' # None => report' \in Nat
    BY <1>1, <2>3 DEF IInv, TypeOK
  <2>7. part' = None /\ DOMAIN raw' = {"logs", "audit"}
    BY <1>1, <1>3 DEF IInv, TypeOK
  <2>8. \A f \in {"logs", "audit"} :
          raw'[f] # None => raw'[f] \in [units : 0..Size(f)', page : BOOLEAN]
    BY <1>1, <1>2 DEF IInv, TypeOK
  <2>9. /\ DOMAIN copies' = {"logs", "audit", "extract"}
        /\ \A c \in DOMAIN copies' : copies'[c] # None => \A e \in DOMAIN copies'[c] :
            copies'[c][e].member \in 0..Len(bundle')
    BY <1>1 DEF IInv, TypeOK
  <2>10. QED BY <2>2, <2>3, <2>4, <2>5, <2>6, <2>7, <2>8, <2>9 DEF TypeOK
<1>5. WorkingFiles'
  <2>1. part' = None
    BY <1>1, <1>3
  <2>2. pc' = "idle" \/ (pc' = "read" /\ out' = <<>>)
    BY <1>1
  <2>3. out' = <<>> => out' \in Seq(Entries')
    OBVIOUS
  <2>4. QED BY <2>1, <2>2, <2>3 DEF WorkingFiles, Repacks
<1>6. RawThere'
  BY <1>1, <1>2, <1>3 DEF RawThere, Repacks, Downloads
<1>7. ReadInStep'
  BY <1>1 DEF ReadInStep, IsWhole
<1>8. CopyInStep' /\ NothingHalfWritten'
  BY <1>1, <1>3, CopyStays DEF Downloads, NothingHalfWritten
<1>9. QED BY <1>4, <1>5, <1>6, <1>7, <1>8 DEF IInv

\* A file that has arrived whole is written, one that was cut ends the archive.
LEMMA ReadMemberKeeps ==
    ASSUME IInv, ReadMember
    PROVE  IInv'
<1> DEFINE m == bundle[members + 1]
<1>1. /\ UNCHANGED <<bundle, cancel, silent, file, part, raw, copies, report>>
      /\ pc = "read" /\ MoreMembers /\ members' = members + 1
      /\ \/ /\ pc' = "idle" /\ job' = None /\ out' = None /\ counts' = counts
            /\ last' = [kind |-> job.kind, outcome |-> "cancelled"]
         \/ /\ pc' = IF Wanted(job, m) /\ ~Complete(members + 1) THEN "salvage" ELSE "read"
            /\ out' = IF Wanted(job, m) /\ Complete(members + 1)
                      THEN Append(out, Entry(job, members + 1)) ELSE out
            /\ counts' \in {counts, counts + Hits(LinesWithin(members + 1, Units))}
            /\ UNCHANGED <<job, last>>
  BY DEF ReadMember, End, Goto, transfer, stored
<1>2. /\ \A f : Size(f)' = Size(f) /\ RawType(f)' = RawType(f)
      /\ \A i : UnitsTo(i)' = UnitsTo(i) /\ WholeEntry(i)' = WholeEntry(i)
      /\ Entries' = Entries
  BY <1>1, BundleStays
<1>3. Len(bundle) \in Nat /\ part = None /\ raw["logs"] \in RawType("logs") /\ job \in JobType
      /\ out \in Seq(Entries) /\ bundle \in Seq(Logs)
  BY <1>1, LenProperties DEF IInv, TypeOK, WorkingFiles, RawThere, Repacks
<1> PICK i \in 1..Len(bundle) : i = members + 1
  BY <1>1, <1>3 DEF IInv, TypeOK, MoreMembers
<1>4. Units \in Nat
  BY <1>3, SizeType DEF RawType, Units
<1>5. counts' \in Nat
  <2>1. LinesWithin(i, Units) \in Seq(Line)
    BY <1>3, <1>4, LinesWithinType
  <2>2. Hits(LinesWithin(i, Units)) \in Nat
    BY <2>1, HitsType
  <2>3. QED BY <1>1, <2>2 DEF IInv, TypeOK
<1>6. pc' # "idle" => out' \in Seq(Entries)
  <2>1. Entry(job, i) \in Entries
    BY <1>3 DEF Entries
  <2>2. Append(out, Entry(job, i)) \in Seq(Entries)
    BY <1>3, <2>1, AppendProperties
  <2>3. QED BY <1>1, <1>3, <2>2
<1>7. TypeOK'
  BY <1>1, <1>2, <1>3, <1>5 DEF IInv, TypeOK, JobType, Labels
<1>8. WorkingFiles'
  BY <1>1, <1>2, <1>3, <1>6 DEF WorkingFiles, Repacks
<1>9. RawThere'
  BY <1>1, <1>2, <1>3 DEF RawThere, Repacks, Downloads
<1>10. \A k : Complete(k)' <=> Complete(k)
  BY <1>1, <1>2 DEF Complete, Units
<1>11. ReadInStep'
  <2> SUFFICES ASSUME pc' # "idle", job'.kind = "collect"
               PROVE  \/ /\ pc' = "read" /\ IsWhole(out, i)'
                         /\ \A k \in 1..i : Complete(k)
                      \/ /\ pc' = "salvage"
                         /\ \E n \in 0..Len(bundle) : IsWhole(out, n)' /\ Arrived(n)
    <3>1. \A n : Arrived(n)' <=> Arrived(n)
      BY <1>1, <1>10 DEF Arrived
    <3>2. bundle' = bundle /\ members' = i
      BY <1>1
    <3>3. QED BY <1>10, <3>1, <3>2 DEF ReadInStep
  <2>1. job.kind = "collect" /\ job.range = None /\ Wanted(job, m) /\ out \in Seq(Entries)
    BY <1>1, <1>3 DEF JobType, Wanted
  <2>2. IsWhole(out, members) /\ \A k \in 1..members : Complete(k)
    BY <1>1, <2>1 DEF IInv, ReadInStep
  <2>3. members \in 0..Len(bundle)
    BY DEF IInv, TypeOK
  <2>4. CASE Complete(i)
    <3>1. Entry(job, i) = WholeEntry(i)
      BY <2>1 DEF Entry, Written, WholeEntry
    <3>2. Entry(job, i) \in Entries
      BY <1>3 DEF Entries
    <3>3. pc' = "read" /\ out' = Append(out, Entry(job, i))
      BY <1>1, <2>1, <2>4
    <3>4. /\ Len(out') = Len(out) + 1 /\ out'[Len(out) + 1] = Entry(job, i)
          /\ \A k \in 1..Len(out) : out'[k] = out[k]
      BY <2>1, <3>2, <3>3, AppendProperties
    <3>5. Len(out) = members /\ \A k \in 1..members : out[k] = WholeEntry(k)
      BY <2>2 DEF IsWhole
    <3>6. Len(out') = i /\ \A k \in 1..i : out'[k] = WholeEntry(k)
      BY <2>3, <3>1, <3>4, <3>5
    <3>7. \A k \in 1..i : Complete(k)
      BY <2>2, <2>3, <2>4
    <3>8. QED BY <1>2, <3>3, <3>6, <3>7 DEF IsWhole
  <2>5. CASE ~Complete(i)
    <3>1. pc' = "salvage" /\ out' = out
      BY <1>1, <2>1, <2>5
    <3>2. Arrived(members)
      <4> SUFFICES ASSUME NEW k \in 1..Len(bundle), k > members PROVE ~Complete(k)
        BY <2>2, <2>3 DEF Arrived
      <4>1. UnitsTo(i) <= UnitsTo(k) /\ UnitsTo(i) \in Nat /\ UnitsTo(k) \in Nat
        <5>1. i \in 0..Len(bundle) /\ k \in 0..Len(bundle) /\ (i < k \/ i = k)
          BY <1>3, <2>3
        <5>2. QED BY <1>3, <5>1, UnitsGrow
      <4>2. QED BY <1>4, <2>5, <4>1 DEF Complete
    <3>3. PICK n \in 0..Len(bundle) : n = members
      BY <2>3
    <3>4. IsWhole(out, n)'
      BY <1>2, <2>2, <3>1, <3>3 DEF IsWhole
    <3>5. QED BY <3>1, <3>2, <3>3, <3>4
  <2>6. QED BY <2>4, <2>5
<1>12. CopyInStep' /\ NothingHalfWritten'
  BY <1>1, <1>3, CopyStays DEF Downloads, NothingHalfWritten
<1>13. QED BY <1>7, <1>8, <1>9, <1>11, <1>12 DEF IInv

\* The archive ends: all that has arrived whole is in it.
LEMMA NoMoreMembersKeeps ==
    ASSUME IInv, NoMoreMembers
    PROVE  IInv'
<1>1. /\ UNCHANGED <<bundle, cancel, silent, file, part, raw, copies, report, members, counts>>
      /\ pc = "read" /\ ~MoreMembers
      /\ \/ /\ pc' = "idle" /\ job' = None /\ out' = None
            /\ last' = [kind |-> job.kind, outcome |-> "failed"]
         \/ pc' \in {"salvage", "keep"} /\ UNCHANGED <<job, out, last>>
  BY DEF NoMoreMembers, End, Goto, transfer, stored
<1>2. /\ \A f : Size(f)' = Size(f) /\ RawType(f)' = RawType(f)
      /\ \A i : UnitsTo(i)' = UnitsTo(i) /\ WholeEntry(i)' = WholeEntry(i)
      /\ Entries' = Entries
  BY <1>1, BundleStays
<1>3. Len(bundle) \in Nat /\ part = None /\ raw["logs"] \in RawType("logs") /\ job \in JobType
      /\ out \in Seq(Entries) /\ bundle \in Seq(Logs)
  BY <1>1, LenProperties DEF IInv, TypeOK, WorkingFiles, RawThere, Repacks
<1>4. TypeOK'
  BY <1>1, <1>2, <1>3 DEF IInv, TypeOK, JobType, Labels
<1>5. WorkingFiles'
  BY <1>1, <1>2, <1>3 DEF WorkingFiles, Repacks
<1>6. RawThere'
  BY <1>1, <1>2, <1>3 DEF RawThere, Repacks, Downloads
<1>7. ReadInStep'
  <2> SUFFICES ASSUME pc' # "idle", job.kind = "collect"
               PROVE  IsWhole(out, members) /\ Arrived(members) /\ members \in 0..Len(bundle)
    BY <1>1, <1>2 DEF ReadInStep, IsWhole, Arrived, Complete, Units
  <2>1. /\ IsWhole(out, members) /\ \A k \in 1..members : Complete(k)
        /\ members \in 0..Len(bundle)
    BY <1>1 DEF IInv, ReadInStep, TypeOK
  <2>2. Units \in Nat
    BY <1>3, SizeType DEF RawType, Units
  <2>3. Arrived(members)
    <3> SUFFICES ASSUME NEW k \in 1..Len(bundle), k > members PROVE ~Complete(k)
      BY <2>1 DEF Arrived
    <3>1. members < Len(bundle) /\ k \in 0..Len(bundle)
      BY <1>3, <2>1
    <3>2. UnitsTo(members) < UnitsTo(k) /\ UnitsTo(members) \in Nat /\ UnitsTo(k) \in Nat
      BY <1>3, <2>1, <3>1, UnitsGrow
    <3>3. ~(Units > UnitsTo(members))
      BY <1>1, <3>1 DEF MoreMembers
    <3>4. QED BY <2>2, <3>2, <3>3 DEF Complete
  <2>4. QED BY <2>1, <2>3
<1>8. CopyInStep' /\ NothingHalfWritten'
  BY <1>1, <1>3, CopyStays DEF Downloads, NothingHalfWritten
<1>9. QED BY <1>4, <1>5, <1>6, <1>7, <1>8 DEF IInv

\* Storing the archive.
LEMMA KeepKeeps ==
    ASSUME IInv, Keep
    PROVE  IInv'
<1> DEFINE c == IF job.kind = "extract" THEN "extract" ELSE "logs"
<1>1. /\ UNCHANGED <<bundle, job, cancel, silent, file, part, raw, report, members, counts, last>>
      /\ pc = "keep" /\ out' = None /\ copies' = [copies EXCEPT ![c] = out]
      /\ pc' = IF raw["audit"] # None /\ job.kind = "collect" THEN "maskAudit" ELSE "report"
  BY DEF Keep, Goto, transfer
<1>2. /\ \A f : Size(f)' = Size(f) /\ RawType(f)' = RawType(f)
      /\ \A i : UnitsTo(i)' = UnitsTo(i) /\ WholeEntry(i)' = WholeEntry(i)
      /\ Entries' = Entries
  BY <1>1, BundleStays
<1>3. Len(bundle) \in Nat /\ part = None /\ raw["logs"] \in RawType("logs") /\ job \in JobType
      /\ out \in Seq(Entries) /\ bundle \in Seq(Logs)
  BY <1>1, LenProperties DEF IInv, TypeOK, WorkingFiles, RawThere, Repacks
<1>4. /\ DOMAIN copies' = {"logs", "audit", "extract"}
      /\ copies'[c] = out /\ \A d \in {"logs", "audit", "extract"} \ {c} : copies'[d] = copies[d]
  BY <1>1 DEF IInv, TypeOK
<1>5. \A e \in DOMAIN out : out[e].member \in 0..Len(bundle)
  <2> SUFFICES ASSUME NEW e \in DOMAIN out PROVE out[e].member \in 0..Len(bundle)
    OBVIOUS
  <2>1. out[e] \in Entries
    BY <1>3, LenProperties
  <2>2. QED BY <2>1, <1>3 DEF Entries, Entry
<1>6. TypeOK'
  <2>1. \A d \in DOMAIN copies' : copies'[d] # None =>
          \A e \in DOMAIN copies'[d] : copies'[d][e].member \in 0..Len(bundle')
    BY <1>1, <1>4, <1>5 DEF IInv, TypeOK
  <2> HIDE DEF c
  <2>2. QED BY <1>1, <1>2, <1>3, <1>4, <2>1 DEF IInv, TypeOK, Labels
<1>7. WorkingFiles'
  BY <1>1, <1>3 DEF WorkingFiles, Repacks
<1>8. RawThere'
  <2>1. raw["audit"] # None => raw["audit"] \in RawType("audit")
    BY DEF IInv, TypeOK, RawType
  <2>2. QED BY <1>1, <1>2, <2>1 DEF RawThere, Repacks, Downloads
<1>9. ReadInStep' /\ NothingHalfWritten'
  BY <1>1 DEF ReadInStep, NothingHalfWritten
<1>10. CopyInStep'
  <2>1. CASE job.kind = "extract"
    <3>1. copies'["logs"] = copies["logs"] /\ pc' \notin Downloads
      BY <1>1, <1>4, <2>1 DEF Downloads
    <3>2. QED BY <1>1, <3>1, CopyStays
  <2>2. CASE job.kind # "extract"
    <3>1. job.kind = "collect" /\ copies'["logs"] = out
      BY <1>3, <1>4, <2>2 DEF JobType
    <3>2. PICK n \in 0..Len(bundle) : IsWhole(out, n) /\ Arrived(n)
      BY <1>1, <3>1 DEF IInv, ReadInStep
    <3>3. Arrived(n)'
      BY <1>1, <1>2, <3>2 DEF Arrived, Complete, Units
    <3>4. IsWhole(copies["logs"], n)'
      BY <1>2, <3>1, <3>2 DEF IsWhole
    <3>5. pc' \notin Downloads
      BY <1>1 DEF Downloads
    <3>6. QED BY <1>1, <1>2, <1>3, <3>3, <3>4, <3>5 DEF CopyInStep
  <2>3. QED BY <2>1, <2>2
<1>11. QED BY <1>6, <1>7, <1>8, <1>9, <1>10 DEF IInv

-----------------------------------------------------------------------------
(* The rest of a job *)

\* The audit trail is masked, and counted, as far as it has arrived.
LEMMA MaskAuditKeeps ==
    ASSUME IInv, MaskAudit
    PROVE  IInv'
<1> DEFINE lines == SubSeq(Trail, 1, raw["audit"].units)
           copy == <<[member |-> 0, lines |-> Masked(lines)]>>
<1>1. /\ UNCHANGED <<bundle, cancel, silent, file, part, raw, out, report, members>>
      /\ pc = "maskAudit"
      /\ \/ /\ pc' = "report" /\ UNCHANGED <<job, last>>
            /\ copies' = [copies EXCEPT !["audit"] = copy] /\ counts' = counts + Hits(lines)
         \/ /\ pc' = "idle" /\ job' = None /\ UNCHANGED <<copies, counts>>
            /\ last' = [kind |-> job.kind, outcome |-> "cancelled"]
  BY DEF MaskAudit, Checkpoint, End, Goto, transfer
<1>2. /\ \A f : Size(f)' = Size(f) /\ RawType(f)' = RawType(f)
  BY <1>1, BundleStays
<1>3. Len(bundle) \in Nat /\ part = None /\ out = None /\ job \in JobType
      /\ raw["audit"] \in RawType("audit")
  BY <1>1, LenProperties DEF IInv, TypeOK, WorkingFiles, RawThere, Repacks
<1>4. counts' \in Nat
  <2>1. raw["audit"].units \in 0..Len(Trail) /\ Trail \in Seq(Line) /\ Len(Trail) \in Nat
    BY <1>3, CollectionAssumption, LenProperties DEF RawType, Size
  <2>2. PICK n \in 0..Len(Trail) : n = raw["audit"].units
    BY <2>1
  <2>3. \A k \in 1..n : Trail[k] \in Line
    BY <2>1
  <2>4. SubSeq(Trail, 1, n) \in Seq(Line)
    BY <2>1, <2>3, SubSeqProperties
  <2>5. Hits(lines) \in Nat
    BY <2>2, <2>4, HitsType
  <2>6. QED BY <1>1, <2>5 DEF IInv, TypeOK
<1>5. /\ DOMAIN copies' = {"logs", "audit", "extract"}
      /\ \A c \in DOMAIN copies' : copies'[c] # None =>
            \A e \in DOMAIN copies'[c] : copies'[c][e].member \in 0..Len(bundle')
      /\ copies'["logs"] = copies["logs"]
  <2>1. DOMAIN copy = {1} /\ copy[1].member = 0
    BY DEF copy
  <2> HIDE DEF copy, lines
  <2>2. QED BY <1>1, <1>3, <2>1 DEF IInv, TypeOK
<1> HIDE DEF copy, lines
<1>6. TypeOK'
  <2>1. last' # None => last' \in [kind : {"collect", "extract"},
                                  outcome : {"succeeded", "failed", "cancelled"}]
    BY <1>1, <1>3 DEF IInv, TypeOK, JobType
  <2>2. pc' \in Labels /\ IF pc' = "idle" THEN job' = None ELSE job' \in JobType
    BY <1>1, <1>3 DEF Labels
  <2>3. UNCHANGED <<bundle, cancel, silent, file, part, raw, report, members>>
    BY <1>1
  <2>4. QED BY <1>2, <1>4, <1>5, <2>1, <2>2, <2>3 DEF IInv, TypeOK
<1>7. WorkingFiles' /\ RawThere' /\ ReadInStep' /\ NothingHalfWritten'
  BY <1>1, <1>3 DEF WorkingFiles, RawThere, ReadInStep, NothingHalfWritten, Repacks, Downloads
<1>8. CopyInStep'
  BY <1>1, <1>5, CopyStays DEF Downloads
<1>9. QED BY <1>6, <1>7, <1>8 DEF IInv

\* The report gives what was counted.
LEMMA ReportKeeps ==
    ASSUME IInv, Report
    PROVE  IInv'
<1>1. /\ UNCHANGED <<bundle, cancel, silent, file, part, raw, out, members, counts, copies>>
      /\ pc = "report" /\ report' \in {report, counts}
      /\ \/ pc' = "finish" /\ UNCHANGED <<job, last>>
         \/ /\ pc' = "idle" /\ job' = None
            /\ last' = [kind |-> job.kind, outcome |-> "cancelled"]
  BY DEF Report, Checkpoint, End, Goto, transfer, repack
<1>2. /\ \A f : Size(f)' = Size(f) /\ RawType(f)' = RawType(f)
  BY <1>1, BundleStays
<1>3. part = None /\ out = None /\ job \in JobType
  BY <1>1 DEF IInv, TypeOK, WorkingFiles, Repacks
<1>4. TypeOK'
  <2>1. last' # None => last' \in [kind : {"collect", "extract"},
                                  outcome : {"succeeded", "failed", "cancelled"}]
    BY <1>1, <1>3 DEF IInv, TypeOK, JobType
  <2>2. pc' \in Labels /\ IF pc' = "idle" THEN job' = None ELSE job' \in JobType
    BY <1>1, <1>3 DEF Labels
  <2>3. report' # None => report' \in Nat
    BY <1>1 DEF IInv, TypeOK
  <2>4. UNCHANGED <<bundle, cancel, silent, file, part, raw, members, counts, copies>>
    BY <1>1
  <2>5. QED BY <1>2, <2>1, <2>2, <2>3, <2>4 DEF IInv, TypeOK
<1>5. WorkingFiles' /\ RawThere' /\ ReadInStep' /\ NothingHalfWritten'
  BY <1>1, <1>3 DEF WorkingFiles, RawThere, ReadInStep, NothingHalfWritten, Repacks, Downloads
<1>6. CopyInStep'
  BY <1>1, CopyStays DEF Downloads
<1>7. QED BY <1>4, <1>5, <1>6 DEF IInv

-----------------------------------------------------------------------------
(* What the filter of an extraction keeps *)

\* What is kept is lines, and every line in the range is kept, wherever it is in the file.
LEMMA FilteredKeeps ==
    ASSUME NEW S, NEW lines \in Seq(S), NEW range
    PROVE  /\ FilteredLines(lines, range) \in Seq(S)
           /\ \A k \in DOMAIN lines : LineInRange(lines[k], range) =>
                 \E i \in DOMAIN FilteredLines(lines, range) :
                    FilteredLines(lines, range)[i] = lines[k]
<1> DEFINE n == Len(lines)
           R == Seq(S)
           step == [p \in (1..n) \X R |->
                      IF LineInRange(lines[p[1]], range) THEN Append(p[2], lines[p[1]]) ELSE p[2]]
           kept[k \in 0..Len(lines)] ==
              IF k = 0 THEN <<>>
              ELSE IF LineInRange(lines[k], range) THEN Append(kept[k - 1], lines[k])
              ELSE kept[k - 1]
           Has(s, k) == \E i \in DOMAIN s : s[i] = lines[k]
           Keeps(s, m) == /\ s \in R
                          /\ \A k \in 1..m : LineInRange(lines[k], range) => Has(s, k)
           T == {m \in 0..n : Keeps(kept[m], m)}
<1>1. n \in Nat /\ DOMAIN lines = 1..n /\ <<>> \in R /\ \A k \in 1..n : lines[k] \in S
  BY LenProperties
<1>2. step \in [(1..n) \X R -> R]
  BY <1>1, AppendProperties
<1>3. PICK f \in [0..n -> R] : StepsFrom(f, <<>>, step, n)
  <2> HIDE DEF step, n, R
  <2>1. n \in Nat /\ <<>> \in R
    BY ONLY <1>1
  <2>2. \E f \in [0..n -> R] : StepsFrom(f, <<>>, step, n)
    BY ONLY <1>2, <2>1, Stepwise, Zenon
  <2>3. QED BY <2>2
<1>4. f = [k \in 0..n |-> IF k = 0 THEN <<>> ELSE
             IF LineInRange(lines[k], range) THEN Append(f[k - 1], lines[k]) ELSE f[k - 1]]
  <2>1. \A k \in 1..n, s \in R : step[<<k, s>>] =
            IF LineInRange(lines[k], range) THEN Append(s, lines[k]) ELSE s
    OBVIOUS
  <2> HIDE DEF step, n, R
  <2>2. \A k \in 0..n : k # 0 => k \in 1..n /\ f[k - 1] \in R
    BY ONLY <1>1, f \in [0..n -> R]
  <2>3. \A k \in 0..n : f[k] = IF k = 0 THEN <<>> ELSE
            IF LineInRange(lines[k], range) THEN Append(f[k - 1], lines[k]) ELSE f[k - 1]
    <3>1. f[0] = <<>> /\ \A k \in 1..n : f[k] = step[<<k, f[k - 1]>>]
      BY <1>3, Zenon DEF StepsFrom
    <3>2. QED BY ONLY <2>1, <2>2, <3>1
  <2>4. QED BY ONLY <2>3, f \in [0..n -> R]
<1>5. kept = [k \in 0..n |-> IF k = 0 THEN <<>> ELSE
             IF LineInRange(lines[k], range) THEN Append(kept[k - 1], lines[k]) ELSE kept[k - 1]]
  BY ONLY <1>4, Zenon
<1>6. FilteredLines(lines, range) = kept[n]
  BY DEF FilteredLines
<1> HIDE DEF kept, n, R
<1>7. /\ kept[0] = <<>>
      /\ \A k \in 1..n : kept[k] = IF LineInRange(lines[k], range)
                                   THEN Append(kept[k - 1], lines[k]) ELSE kept[k - 1]
  <2>1. 0 \in 0..n /\ \A k \in 1..n : k \in 0..n /\ k # 0
    BY ONLY <1>1
  <2>2. \A k \in 0..n : kept[k] = IF k = 0 THEN <<>> ELSE
             IF LineInRange(lines[k], range) THEN Append(kept[k - 1], lines[k]) ELSE kept[k - 1]
    BY ONLY <1>5, Zenon
  <2>3. QED BY ONLY <2>1, <2>2
<1>8. 0 \in T
  BY <1>1, <1>7
<1>9. ASSUME NEW m \in 0..(n - 1), m \in T PROVE m + 1 \in T
  <2>1. m + 1 \in 1..n /\ m + 1 \in 0..n /\ (m + 1) - 1 = m /\ Keeps(kept[m], m)
    BY <1>1, <1>9
  <2>2. kept[m + 1] = IF LineInRange(lines[m + 1], range) THEN Append(kept[m], lines[m + 1])
                      ELSE kept[m]
    <3> HIDE DEF Keeps
    <3>1. QED BY ONLY <1>7, <2>1
  <2>3. kept[m] \in Seq(S) /\ lines[m + 1] \in S
    BY <1>1, <2>1 DEF R
  <2> DEFINE longer == Append(kept[m], lines[m + 1])
             l == Len(kept[m])
  <2>10. /\ longer \in R /\ l \in Nat /\ DOMAIN kept[m] = 1..l /\ DOMAIN longer = 1..(l + 1)
        /\ longer[l + 1] = lines[m + 1] /\ \A i \in 1..l : longer[i] = kept[m][i]
    <3>1. longer \in Seq(S) /\ Len(longer) = l + 1
      BY ONLY <2>3, AppendProperties
    <3>2. l \in Nat /\ DOMAIN kept[m] = 1..l /\ DOMAIN longer = 1..(l + 1)
      BY ONLY <2>3, <3>1, LenProperties
    <3>3. longer[l + 1] = lines[m + 1] /\ \A i \in 1..l : longer[i] = kept[m][i]
      BY ONLY <2>3, AppendProperties
    <3>4. QED BY <3>1, <3>2, <3>3 DEF R
  <2> HIDE DEF longer, l
  <2>4. longer \in R /\ Has(longer, m + 1)
    BY ONLY <2>10
  <2>5. ASSUME NEW k \in 1..m, Has(kept[m], k) PROVE Has(longer, k)
    BY ONLY <2>10, <2>5
  <2>6. \A k \in 1..(m + 1) : k = m + 1 \/ k \in 1..m
    BY ONLY m \in 0..(n - 1), <1>1
  <2> HIDE DEF Has
  <2>7. Keeps(kept[m + 1], m + 1)
    BY ONLY <2>1, <2>2, <2>4, <2>5, <2>6 DEF longer
  <2> HIDE DEF Keeps
  <2>8. QED BY <2>1, <2>7
<1>10. Keeps(kept[n], n)
  <2> HIDE DEF T
  <2>1. 0..n \subseteq T
    BY ONLY <1>1, <1>8, <1>9, UpTo
  <2> USE DEF T
  <2> HIDE DEF Keeps
  <2>2. QED BY <1>1, <2>1
<1>11. QED BY <1>1, <1>6, <1>10 DEF R

\* A day is the moments from its first to its last.
LEMMA DayBounds ==
    ASSUME NEW at \in Nat, NEW day \in Nat
    PROVE  /\ StartOf(day) =< at <=> day =< DayOf(at)
           /\ at =< EndOf(day) <=> DayOf(at) =< day
           /\ StartOf(day) \in Int /\ EndOf(day) \in Int
<1> DEFINE q == at \div DayLength
           r == at % DayLength
<1>1. DayLength \in Nat /\ DayLength >= 1 /\ day # None
  BY CollectionAssumption
<1>2. q \in Int /\ r \in 0..(DayLength - 1) /\ at = DayLength * q + r
  BY <1>1
<1>3. StartOf(day) = day * DayLength /\ EndOf(day) = day * DayLength + DayLength - 1 /\ DayOf(at) = q
  BY <1>1 DEF StartOf, EndOf, DayOf
<1> HIDE DEF q, r
<1>4. ASSUME NEW a \in Int, NEW b \in Int, a =< b PROVE a * DayLength =< b * DayLength
  <2>1. b - a \in Nat
    BY <1>4
  <2>2. \A x, y \in Nat : x * y \in Nat
    OBVIOUS
  <2>3. (b - a) * DayLength \in Nat
    BY ONLY <1>1, <2>1, <2>2
  <2>4. (b - a) * DayLength = b * DayLength - a * DayLength
    BY ONLY <1>1, a \in Int, b \in Int
  <2>5. a * DayLength \in Int /\ b * DayLength \in Int
    BY ONLY <1>1, a \in Int, b \in Int
  <2>6. QED BY ONLY <2>3, <2>4, <2>5
<1>5. q < day => q * DayLength + DayLength =< day * DayLength
  <2>1. q < day => (q + 1) * DayLength =< day * DayLength
    BY <1>2, <1>4
  <2>2. (q + 1) * DayLength = q * DayLength + DayLength
    BY ONLY <1>1, <1>2
  <2>3. QED BY <2>1, <2>2
<1>6. day < q => day * DayLength + DayLength =< q * DayLength
  <2>1. day < q => (day + 1) * DayLength =< q * DayLength
    BY <1>2, <1>4
  <2>2. (day + 1) * DayLength = day * DayLength + DayLength
    BY ONLY <1>1, day \in Nat
  <2>3. QED BY <2>1, <2>2
<1>7. /\ day * DayLength \in Int /\ q * DayLength \in Int /\ q * DayLength = DayLength * q
      /\ day =< q => day * DayLength =< q * DayLength
      /\ q =< day => q * DayLength =< day * DayLength
  BY <1>1, <1>2, <1>4
<1>8. QED BY <1>1, <1>2, <1>3, <1>5, <1>6, <1>7

\* A form of days is a range, and it asks for days.
LEMMA FormDays ==
    ASSUME NEW form \in Forms, RangeOf(form) # None
    PROVE  \/ form.preset = "recent" /\ RangeOf(form) = Recent
           \/ /\ form.preset # "recent"
              /\ RangeOf(form) = [start |-> StartOf(form.from), end |-> EndOf(form.to)]
<1>1. QED BY DEF RangeOf

\* What was asked for is in the range, for a line whose moment is read right.
LEMMA AskedIsInRange ==
    ASSUME NEW form \in Forms, NEW line \in Line, Asked(form, line.at),
           line.format = "syslog" => line.at \div YearLength = Now \div YearLength
    PROVE  LineInRange(line, RangeOf(form))
<1>1. line.at \in Nat /\ Now \in Nat /\ YearLength \in Nat \ {0} /\ None \notin Int
      /\ form.from \in Nat \cup {None} /\ form.to \in Nat \cup {None} /\ DayLength \in Nat
      /\ line.format \in {"iso", "syslog", "other"}
  BY CollectionAssumption DEF Line
<1> SUFFICES ASSUME RangeOf(form) # None, Timestamp(line) # None
             PROVE  Contains(RangeOf(form), Timestamp(line))
  BY DEF LineInRange
<1>2. Timestamp(line) = line.at
  <2>1. CASE line.format = "iso"
    BY <2>1 DEF Timestamp
  <2>2. CASE line.format = "syslog"
    <3>1. Timestamp(line) = (line.at \div YearLength) * YearLength + (line.at % YearLength)
      BY <2>2 DEF Timestamp
    <3>2. line.at = YearLength * (line.at \div YearLength) + (line.at % YearLength)
      <4>1. \A a, d \in Nat : d >= 1 => a = d * (a \div d) + (a % d)
        OBVIOUS
      <4>2. YearLength \in Nat /\ YearLength >= 1
        BY <1>1
      <4>3. QED BY ONLY <1>1, <4>1, <4>2
    <3>3. line.at \div YearLength \in Int
      BY <1>1
    <3>4. \A a \in Int : a * YearLength = YearLength * a
      BY <1>1
    <3>5. QED BY <3>1, <3>2, <3>3, <3>4
  <2>3. CASE line.format = "other"
    BY <2>3 DEF Timestamp
  <2>4. QED BY <1>1, <2>1, <2>2, <2>3
<1>3. CASE form.preset = "recent"
  <2>1. RangeOf(form) = [start |-> Now - DayLength, end |-> None]
    BY <1>3, FormDays DEF Recent
  <2>2. Now - DayLength =< line.at
    BY <1>3 DEF Asked
  <2>3. QED BY <1>2, <2>1, <2>2 DEF Contains
<1>4. CASE form.preset # "recent"
  <2>1. RangeOf(form) = [start |-> StartOf(form.from), end |-> EndOf(form.to)]
    BY <1>4, FormDays
  <2>2. StartOf(form.from) # None => StartOf(form.from) =< line.at
    <3>1. CASE form.from = None
      BY <3>1 DEF StartOf
    <3>2. CASE form.from # None
      <4>1. form.from \in Nat /\ form.from =< DayOf(line.at)
        BY <1>1, <1>4, <3>2 DEF Asked
      <4>2. QED BY <1>1, <4>1, DayBounds
    <3>3. QED BY <3>1, <3>2
  <2>3. EndOf(form.to) # None => line.at =< EndOf(form.to)
    <3>1. CASE form.to = None
      BY <3>1 DEF EndOf
    <3>2. CASE form.to # None
      <4>1. form.to \in Nat /\ DayOf(line.at) =< form.to
        BY <1>1, <1>4, <3>2 DEF Asked
      <4>2. QED BY <1>1, <4>1, DayBounds
    <3>3. QED BY <3>1, <3>2
  <2>4. QED BY <1>2, <2>1, <2>2, <2>3 DEF Contains
<1>5. QED BY <1>3, <1>4

\* A file with a line that was asked for is out of the range only if it was written to
\* after the last day.
LEMMA WrittenToLater ==
    ASSUME NEW form \in Forms, NEW m \in Logs, NEW k \in DOMAIN m.lines,
           Asked(form, m.lines[k].at), RangeOf(form) # None, ~Contains(RangeOf(form), m.mtime)
    PROVE  form.to # None /\ DayOf(m.mtime) > form.to
<1>1. /\ m.lines[k] \in Line /\ m.lines[k].at \in Nat /\ m.mtime \in Nat
      /\ m.lines[k].at =< m.mtime
  <2>1. /\ m.lines \in Seq(Line) /\ m.mtime \in 0..Now /\ Now \in Nat
        /\ m.lines[k].at =< m.mtime
    BY CollectionAssumption
  <2>2. m.lines[k] \in Line
    BY <2>1, LenProperties
  <2>3. QED BY <2>1, <2>2 DEF Line
<1>2. /\ None \notin Int /\ Now \in Nat /\ DayLength \in Nat
      /\ form.from \in Nat \cup {None} /\ form.to \in Nat \cup {None}
  BY CollectionAssumption
<1>3. form.preset # "recent" /\ RangeOf(form) = [start |-> StartOf(form.from), end |-> EndOf(form.to)]
  <2>1. ASSUME form.preset = "recent", RangeOf(form) = Recent PROVE FALSE
    <3>1. Now - DayLength =< m.lines[k].at
      BY <2>1 DEF Asked
    <3>2. Contains(RangeOf(form), m.mtime)
      BY <1>1, <1>2, <2>1, <3>1 DEF Contains, Recent
    <3>3. QED BY <3>2
  <2>2. QED BY <2>1, FormDays
<1>4. StartOf(form.from) # None => StartOf(form.from) =< m.mtime
  <2>1. CASE form.from = None
    BY <2>1 DEF StartOf
  <2>2. CASE form.from # None
    <3>1. form.from \in Nat /\ form.from =< DayOf(m.lines[k].at)
      BY <1>2, <1>3, <2>2 DEF Asked
    <3>2. StartOf(form.from) =< m.lines[k].at /\ StartOf(form.from) \in Int
      BY <1>1, <3>1, DayBounds
    <3>3. QED BY <1>1, <3>2
  <2>3. QED BY <2>1, <2>2
<1>5. EndOf(form.to) # None /\ ~(m.mtime =< EndOf(form.to))
  BY <1>3, <1>4 DEF Contains
<1>6. form.to \in Nat
  BY <1>2, <1>5 DEF EndOf
<1>7. DayOf(m.mtime) \in Int /\ ~(DayOf(m.mtime) =< form.to)
  <2>1. DayOf(m.mtime) \in Int
    BY <1>1, CollectionAssumption DEF DayOf
  <2>2. QED BY <1>1, <1>5, <1>6, <2>1, DayBounds
<1>8. QED BY <1>2, <1>6, <1>7

-----------------------------------------------------------------------------
(* An extraction as it goes *)

\* The archive has an entry for file i.
Holds(archive, i) == \E e \in DOMAIN archive : archive[e] = Entry(job, i)

\* It holds all that the job wants and that has arrived whole, of some files.
HoldsWanted(archive, files) ==
    \A i \in files : Wanted(job, bundle[i]) /\ Complete(i) => Holds(archive, i)

ExtractionInStep ==
    /\ pc = "maskAudit" => job.kind = "collect"
    /\ pc # "idle" /\ job.kind = "extract" =>
        /\ job.range = RangeOf(job.form)
        /\ pc = "read" => HoldsWanted(out, 1..members)
        /\ pc \in {"salvage", "keep"} => HoldsWanted(out, 1..Len(bundle))
        /\ pc = "report" => HoldsWanted(copies["extract"], 1..Len(bundle))

\* What an archive holds does not change while the files, the download and the job stay.
LEMMA HoldsStays ==
    ASSUME UNCHANGED <<bundle, raw, job>>
    PROVE  /\ \A archive, files : HoldsWanted(archive, files)' <=> HoldsWanted(archive, files)
           /\ \A i : Complete(i)' <=> Complete(i)
           /\ \A i : Entry(job, i)' = Entry(job, i)
<1>1. \A i : Entry(job, i)' = Entry(job, i)
  BY DEF Entry
<1>2. \A archive, i : Holds(archive, i)' <=> Holds(archive, i)
  BY <1>1 DEF Holds
<1>3. \A i : Complete(i)' <=> Complete(i)
  BY BundleStays DEF Complete, Units
<1>4. \A i : Wanted(job, bundle[i])' <=> Wanted(job, bundle[i])
  BY DEF Wanted
<1>5. QED BY <1>1, <1>2, <1>3, <1>4 DEF HoldsWanted

\* Nothing after a file that was cut has arrived.
LEMMA NothingAfter ==
    ASSUME bundle \in Seq(Logs), Units \in Nat, NEW i \in 1..Len(bundle), ~Complete(i)
    PROVE  \A k \in 1..Len(bundle) : Complete(k) => k < i
<1> SUFFICES ASSUME NEW k \in 1..Len(bundle), k >= i PROVE ~Complete(k)
  BY LenProperties
<1>1. UnitsTo(i) <= UnitsTo(k) /\ UnitsTo(i) \in Nat /\ UnitsTo(k) \in Nat
  <2>1. Len(bundle) \in Nat
    BY LenProperties
  <2>2. i \in 0..Len(bundle) /\ k \in 0..Len(bundle) /\ (i < k \/ i = k)
    BY <2>1
  <2>3. QED BY <2>2, UnitsGrow
<1>2. QED BY <1>1 DEF Complete

\* The steps that have nothing to do with an archive.
LEMMA ExtractionStays ==
    ASSUME ExtractionInStep,
           \/ pc' = "idle"
           \/ /\ pc # "idle" /\ job' = job
              /\ pc' \notin Repacks \cup {"maskAudit", "report"}
           \/ /\ UNCHANGED <<bundle, raw, job, out, members, copies>>
              /\ pc' = pc \/ (pc = "salvage" /\ pc' = "keep")
    PROVE  ExtractionInStep'
<1>1. CASE pc' = "idle"
  BY <1>1 DEF ExtractionInStep
<1>2. CASE pc # "idle" /\ job' = job /\ pc' \notin Repacks \cup {"maskAudit", "report"}
  BY <1>2 DEF ExtractionInStep, Repacks
<1>3. CASE /\ UNCHANGED <<bundle, raw, job, out, members, copies>>
           /\ pc' = pc \/ (pc = "salvage" /\ pc' = "keep")
  BY <1>3, HoldsStays DEF ExtractionInStep
<1>4. QED BY <1>1, <1>2, <1>3

\* A file that is wanted and has arrived is written.
LEMMA ExtractionReads ==
    ASSUME IInv, ExtractionInStep, ReadMember
    PROVE  ExtractionInStep'
<1> DEFINE m == bundle[members + 1]
<1>1. /\ UNCHANGED <<bundle, raw, copies>> /\ pc = "read" /\ MoreMembers /\ members' = members + 1
      /\ \/ pc' = "idle"
         \/ /\ pc' = IF Wanted(job, m) /\ ~Complete(members + 1) THEN "salvage" ELSE "read"
            /\ out' = IF Wanted(job, m) /\ Complete(members + 1)
                      THEN Append(out, Entry(job, members + 1)) ELSE out
            /\ job' = job
  BY DEF ReadMember, End, Goto, stored
<1>2. /\ Len(bundle) \in Nat /\ raw["logs"] \in RawType("logs") /\ job \in JobType
      /\ out \in Seq(Entries) /\ bundle \in Seq(Logs) /\ members \in 0..Len(bundle)
  BY <1>1, LenProperties DEF IInv, TypeOK, WorkingFiles, RawThere, Repacks
<1>3. Units \in Nat
  BY <1>2, SizeType DEF RawType, Units
<1> PICK i \in 1..Len(bundle) : i = members + 1
  BY <1>1, <1>2 DEF MoreMembers
<1> SUFFICES ASSUME pc' # "idle", job.kind = "extract"
             PROVE  /\ job.range = RangeOf(job.form)
                    /\ pc' = "read" => HoldsWanted(out', 1..i)
                    /\ pc' = "salvage" => HoldsWanted(out', 1..Len(bundle))
  <2>1. CASE pc' = "idle"
    BY <2>1 DEF ExtractionInStep
  <2>2. CASE pc' # "idle"
    <3>1. UNCHANGED <<bundle, raw, job>> /\ members' = i /\ pc' \in {"read", "salvage"}
      BY <1>1, <2>2
    <3>2. QED BY <2>2, <3>1, HoldsStays DEF ExtractionInStep
  <2>3. QED BY <2>1, <2>2
<1>4. job.range = RangeOf(job.form) /\ HoldsWanted(out, 1..members)
  BY <1>1 DEF ExtractionInStep
<1>5. /\ \A k : Holds(out, k) => Holds(out', k)
      /\ Wanted(job, m) /\ Complete(i) => Holds(out', i)
  <2>1. CASE Wanted(job, m) /\ Complete(i)
    <3>1. out' = Append(out, Entry(job, i)) /\ Entry(job, i) \in Entries
      BY <1>1, <1>2, <2>1 DEF Entries
    <3>2. /\ Len(out) \in Nat /\ DOMAIN out = 1..Len(out) /\ DOMAIN out' = 1..(Len(out) + 1)
          /\ out'[Len(out) + 1] = Entry(job, i) /\ \A e \in 1..Len(out) : out'[e] = out[e]
      BY <1>2, <3>1, AppendProperties, LenProperties
    <3>3. QED BY ONLY <3>2 DEF Holds
  <2>2. CASE ~(Wanted(job, m) /\ Complete(i))
    <3>1. out' = out
      BY <1>1, <2>2
    <3>2. QED BY <2>2, <3>1
  <2>3. QED BY <2>1, <2>2
<1>6. HoldsWanted(out', 1..i)
  <2>1. \A k \in 1..i : k = i \/ k \in 1..members
    BY <1>2
  <2>2. QED BY <1>4, <1>5, <2>1 DEF HoldsWanted
<1>7. ASSUME pc' = "salvage" PROVE HoldsWanted(out', 1..Len(bundle))
  <2>1. ~Complete(i)
    BY <1>1, <1>7
  <2>2. \A k \in 1..Len(bundle) : Complete(k) => k \in 1..i
    BY <1>2, <1>3, <2>1, NothingAfter
  <2>3. QED BY <1>6, <2>2 DEF HoldsWanted
<1>8. QED BY <1>4, <1>6, <1>7

\* The end of the archive.
LEMMA ExtractionEnds ==
    ASSUME IInv, ExtractionInStep, NoMoreMembers
    PROVE  ExtractionInStep'
<1>1. /\ UNCHANGED <<bundle, raw, copies, members>> /\ pc = "read" /\ ~MoreMembers
      /\ \/ pc' = "idle"
         \/ pc' \in {"salvage", "keep"} /\ UNCHANGED <<job, out>>
  BY DEF NoMoreMembers, End, Goto, stored
<1>2. /\ Len(bundle) \in Nat /\ raw["logs"] \in RawType("logs") /\ job \in JobType
      /\ bundle \in Seq(Logs) /\ members \in 0..Len(bundle)
  BY <1>1, LenProperties DEF IInv, TypeOK, RawThere, Repacks
<1>3. Units \in Nat
  BY <1>2, SizeType DEF RawType, Units
<1>4. ASSUME NEW k \in 1..Len(bundle), Complete(k) PROVE k \in 1..members
  <2> SUFFICES ASSUME k > members PROVE FALSE
    BY <1>2
  <2>1. members < Len(bundle) /\ k \in 0..Len(bundle)
    BY <1>2
  <2>2. UnitsTo(members) < UnitsTo(k) /\ UnitsTo(members) \in Nat /\ UnitsTo(k) \in Nat
    BY <1>2, <2>1, UnitsGrow
  <2>3. ~(Units > UnitsTo(members))
    BY <1>1, <2>1 DEF MoreMembers
  <2>4. QED BY <1>3, <1>4, <2>2, <2>3 DEF Complete
<1>5. CASE pc' = "idle"
  BY <1>5, ExtractionStays
<1>6. CASE pc' \in {"salvage", "keep"} /\ UNCHANGED <<job, out>>
  <2>1. job.kind = "extract" => job.range = RangeOf(job.form) /\ HoldsWanted(out, 1..members)
    BY <1>1 DEF ExtractionInStep
  <2>2. job.kind = "extract" => HoldsWanted(out, 1..Len(bundle))
    BY <1>4, <2>1 DEF HoldsWanted
  <2>3. QED BY <1>1, <1>6, <2>1, <2>2, HoldsStays DEF ExtractionInStep
<1>7. QED BY <1>1, <1>5, <1>6

\* Every step keeps an extraction in step.
LEMMA ExtractionKeeps ==
    ASSUME IInv, ExtractionInStep, [Next]_vars
    PROVE  ExtractionInStep'
<1>1. CASE \E audit, redact \in BOOLEAN : StartCollection(audit, redact)
  <2>1. job'.kind = "collect" /\ pc' = "connect"
    BY <1>1 DEF StartCollection, Start, Goto
  <2>2. QED BY <2>1 DEF ExtractionInStep
<1>2. CASE \E categories \in SUBSET Categories, rotated \in BOOLEAN, form \in Forms :
                StartExtraction(categories, rotated, form)
  <2>1. pc' = "repack" /\ job'.range = RangeOf(job'.form)
    BY <1>2 DEF StartExtraction, Start, Goto
  <2>2. QED BY <2>1 DEF ExtractionInStep
<1>3. CASE Cancel \/ GoSilent \/ UNCHANGED vars
  BY <1>3, ExtractionStays DEF Cancel, GoSilent, vars, repack, stored, transfer
<1>4. CASE Connect \/ Begin \/ Refused \/ Storing \/ Finish \/ Report
  <2>1. pc' = "idle" \/ (pc # "idle" /\ job' = job /\ pc' \in {"begin", "request", "store", "finish"})
    BY <1>4 DEF Connect, Begin, Refused, Storing, Finish, Report, Checkpoint, End, Goto
  <2>2. QED BY <2>1, ExtractionStays DEF Repacks
<1>5. CASE Salvage
  BY <1>5, ExtractionStays DEF Salvage, Checkpoint, End, Goto, repack, stored
<1>6. CASE Accepted \/ Chunk \/ EndOfBody \/ Timeout \/ Reset \/ Store
  <2>1. pc' = "idle" \/ (pc # "idle" /\ job' = job
                         /\ pc' \in {"chunk", "storing", "begin", "repack", "finish"})
    BY <1>6 DEF Accepted, Chunk, OnChunk, Checkpoint, EndOfBody, Timeout, Received, Reset, Store, End,
                Goto
  <2>2. QED BY <2>1, ExtractionStays DEF Repacks
<1>7. CASE Repack
  <2>1. /\ pc = "repack" /\ members' = 0
        /\ pc' = "idle" \/ (pc' = "read" /\ job' = job)
    BY <1>7 DEF Repack, Checkpoint, End, Goto
  <2>2. HoldsWanted(out, 1..0)'
    BY DEF HoldsWanted
  <2>3. QED BY <2>1, <2>2 DEF ExtractionInStep
<1>8. CASE ReadMember \/ NoMoreMembers
  BY <1>8, ExtractionReads, ExtractionEnds
<1>9. CASE Keep
  <2>1. /\ pc = "keep" /\ UNCHANGED <<bundle, raw, job>>
        /\ pc' = IF raw["audit"] # None /\ job.kind = "collect" THEN "maskAudit" ELSE "report"
        /\ job.kind = "extract" => copies'["extract"] = out
    BY <1>9 DEF Keep, Goto, IInv, TypeOK
  <2>2. QED BY <2>1, HoldsStays DEF ExtractionInStep
<1>10. CASE MaskAudit
  <2>1. /\ pc = "maskAudit"
        /\ pc' = "idle" \/ (pc' = "report" /\ job' = job)
    BY <1>10 DEF MaskAudit, Checkpoint, End, Goto
  <2>2. QED BY <2>1 DEF ExtractionInStep
<1>11. QED BY <1>1, <1>2, <1>3, <1>4, <1>5, <1>6, <1>7, <1>8, <1>9, <1>10 DEF Next, Body

-----------------------------------------------------------------------------
(* Counting *)

\* The places of some things in each of the first n of a row.
Places(H, n) == UNION {{k} \X H[k] : k \in 1..n}

\* They can be counted, one of the row after the other.
LEMMA PlacesAdd ==
    ASSUME NEW n \in Nat, NEW H, \A k \in 1..n : IsFiniteSet(H[k])
    PROVE  /\ IsFiniteSet(Places(H, n)) /\ Cardinality(Places(H, n)) \in Nat
           /\ n = 0 => Cardinality(Places(H, n)) = 0
           /\ n # 0 => Cardinality(Places(H, n)) = Cardinality(Places(H, n - 1)) + Cardinality(H[n])
<1>1. ASSUME NEW i \in 0..n PROVE IsFiniteSet(Places(H, i))
  <2> DEFINE S == {{k} \X H[k] : k \in 1..i}
             f == [k \in 1..i |-> {k} \X H[k]]
  <2>1. i \in Nat /\ 1..i \subseteq 1..n
    OBVIOUS
  <2>2. IsFiniteSet(1..i)
    BY <2>1, FS_Interval
  <2>3. f \in Surjection(1..i, S)
    BY DEF Surjection
  <2>4. IsFiniteSet(S)
    <3> HIDE DEF f, S
    <3>1. QED BY <2>2, <2>3, FS_Surjection
  <2>5. \A k \in 1..i : IsFiniteSet({k} \X H[k])
    BY <2>1, FS_Singleton, FS_Product
  <2>6. \A T \in S : IsFiniteSet(T)
    BY <2>5
  <2> HIDE DEF S
  <2>7. IsFiniteSet(UNION S)
    BY <2>4, <2>6, FS_UNION
  <2>8. QED BY <2>7 DEF Places, S
<1>2. Cardinality(Places(H, n)) \in Nat
  BY <1>1, FS_CardinalityType
<1>3. ASSUME n = 0 PROVE Cardinality(Places(H, n)) = 0
  <2>1. Places(H, n) = {}
    BY <1>3 DEF Places
  <2>2. QED BY <2>1, FS_EmptySet
<1>4. ASSUME n # 0
      PROVE  Cardinality(Places(H, n)) = Cardinality(Places(H, n - 1)) + Cardinality(H[n])
  <2> DEFINE A == Places(H, n - 1)
             B == {n} \X H[n]
  <2>1. n - 1 \in 0..n /\ n \in 1..n /\ (\A k \in 1..n : k \in 1..(n - 1) \/ k = n)
        /\ \A k \in 1..(n - 1) : k \in 1..n /\ k # n
    BY <1>4
  <2>2. Places(H, n) = A \cup B
    BY <2>1 DEF Places
  <2>3. A \cap B = {}
    BY <2>1 DEF Places
  <2>4. IsFiniteSet(A)
    BY <1>1, <2>1
  <2>5. IsFiniteSet({n}) /\ Cardinality({n}) = 1 /\ IsFiniteSet(H[n])
    BY <2>1, FS_Singleton
  <2>6. IsFiniteSet(B) /\ Cardinality(B) = Cardinality({n}) * Cardinality(H[n])
    BY <2>5, FS_Product
  <2>7. Cardinality(H[n]) \in Nat /\ Cardinality(A) \in Nat
    BY <2>4, <2>5, FS_CardinalityType
  <2>8. Cardinality(B) = Cardinality(H[n])
    BY <2>5, <2>6, <2>7
  <2> HIDE DEF A, B
  <2>9. Cardinality(A \cup B) = Cardinality(A) + Cardinality(B) - Cardinality(A \cap B)
    BY <2>4, <2>6, FS_Union
  <2>10. Cardinality(A \cap B) = 0
    BY <2>3, FS_EmptySet
  <2>11. QED BY <2>2, <2>7, <2>8, <2>9, <2>10 DEF A
<1>5. QED BY <1>1, <1>2, <1>3, <1>4

\* A file has the units of those before it, a header and its lines.
LEMMA UnitsAdd ==
    ASSUME bundle \in Seq(Logs), NEW i \in 1..Len(bundle)
    PROVE  UnitsTo(i) = UnitsTo(i - 1) + Len(bundle[i].lines) + 1
<1> DEFINE H == [k \in 1..Len(bundle) |-> 0..Len(bundle[k].lines)]
<1>1. Len(bundle) \in Nat /\ i \in Nat /\ i # 0 /\ i - 1 \in 0..Len(bundle)
      /\ 1..i \subseteq 1..Len(bundle) /\ 1..(i - 1) \subseteq 1..Len(bundle)
  BY LenProperties
<1>2. \A n \in Nat : IsFiniteSet(0..n) /\ Cardinality(0..n) = n + 1
  BY FS_Interval
<1>3. \A k \in 1..i : IsFiniteSet(H[k])
  BY <1>1, <1>2, BundleLines
<1>4. UnitsTo(i) = Cardinality(Places(H, i)) /\ UnitsTo(i - 1) = Cardinality(Places(H, i - 1))
  BY <1>1 DEF UnitsTo, Places
<1>5. Cardinality(H[i]) = Len(bundle[i].lines) + 1
  BY <1>2, BundleLines
<1> HIDE DEF H
<1>6. Cardinality(Places(H, i)) = Cardinality(Places(H, i - 1)) + Cardinality(H[i])
  BY <1>1, <1>3, PlacesAdd
<1>7. UnitsTo(i - 1) \in Nat /\ Len(bundle[i].lines) \in Nat
  BY <1>1, UnitsGrow, BundleLines
<1>8. QED BY <1>4, <1>5, <1>6, <1>7

\* Of a file that has arrived whole, every line is there.
LEMMA WholeIsThere ==
    ASSUME bundle \in Seq(Logs), Units \in Nat, NEW i \in 1..Len(bundle), Complete(i)
    PROVE  LinesWithin(i, Units) = bundle[i].lines
<1> DEFINE body == bundle[i].lines
           room == Units - UnitsTo(i - 1) - 1
<1>1. body \in Seq(Line) /\ Len(body) \in Nat
  BY BundleLines
<1>2. UnitsTo(i - 1) \in Nat /\ UnitsTo(i) = UnitsTo(i - 1) + Len(body) + 1
  <2>1. i - 1 \in 0..Len(bundle)
    BY LenProperties
  <2>2. QED BY <2>1, UnitsGrow, UnitsAdd
<1>3. room \in Int /\ room >= Len(body)
  BY <1>1, <1>2 DEF Complete
<1>4. (IF room < Len(body) THEN room ELSE Len(body)) = Len(body)
  <2> HIDE DEF room, body
  <2>1. QED BY <1>1, <1>3
<1>5. SubSeq(body, 1, Len(body)) = body
  BY <1>1, SubSeqFull
<1>6. QED BY <1>4, <1>5 DEF LinesWithin

\* The lines of a file that redact_text counts in.
Text(i) == IF bundle[i].kind = "text" THEN bundle[i].lines ELSE <<>>

\* What it counts in the first n files.
HitsTo(n) == Cardinality(UNION {{k} \X HitLines(Text(k)) : k \in 1..n})

\* It counts one file after the other.
LEMMA HitsAdd ==
    ASSUME bundle \in Seq(Logs), NEW n \in 0..Len(bundle)
    PROVE  /\ HitsTo(n) \in Nat
           /\ n = 0 => HitsTo(n) = 0
           /\ n # 0 => HitsTo(n) = HitsTo(n - 1) + Hits(Text(n))
<1> DEFINE H == [k \in 1..Len(bundle) |-> HitLines(Text(k))]
<1>1. Len(bundle) \in Nat /\ n \in Nat /\ 1..n \subseteq 1..Len(bundle)
      /\ 1..(n - 1) \subseteq 1..Len(bundle)
  BY LenProperties
<1>2. ASSUME NEW k \in 1..Len(bundle) PROVE IsFiniteSet(H[k])
  <2>1. Text(k) \in Seq(Line)
    BY BundleLines DEF Text
  <2>2. DOMAIN Text(k) = 1..Len(Text(k)) /\ Len(Text(k)) \in Nat
    BY <2>1, LenProperties
  <2>3. IsFiniteSet(1..Len(Text(k))) /\ HitLines(Text(k)) \in SUBSET (1..Len(Text(k)))
    BY <2>2, FS_Interval DEF HitLines
  <2>4. IsFiniteSet(HitLines(Text(k)))
    BY <2>3, FS_Subset
  <2>5. QED BY <2>4
<1>3. /\ HitsTo(n) = Cardinality(Places(H, n))
      /\ HitsTo(n - 1) = Cardinality(Places(H, n - 1))
      /\ n # 0 => Cardinality(H[n]) = Hits(Text(n))
  <2>1. \A k \in 1..Len(bundle) : H[k] = HitLines(Text(k))
    OBVIOUS
  <2>2. n # 0 => n \in 1..Len(bundle)
    BY <1>1
  <2> HIDE DEF H
  <2>3. \A k \in 1..n : {k} \X H[k] = {k} \X HitLines(Text(k))
    BY <1>1, <2>1
  <2>4. Places(H, n) = UNION {{k} \X HitLines(Text(k)) : k \in 1..n}
    BY ONLY <2>3 DEF Places
  <2>5. \A k \in 1..(n - 1) : {k} \X H[k] = {k} \X HitLines(Text(k))
    BY <1>1, <2>1
  <2>6. Places(H, n - 1) = UNION {{k} \X HitLines(Text(k)) : k \in 1..(n - 1)}
    BY ONLY <2>5 DEF Places
  <2>7. QED BY <2>1, <2>2, <2>4, <2>6 DEF HitsTo, Hits
<1> HIDE DEF H
<1>4. \A k \in 1..n : IsFiniteSet(H[k])
  BY <1>1, <1>2
<1>5. QED BY ONLY <1>1, <1>3, <1>4, PlacesAdd

\* What redact_text has counted in the files of a copy.
CountIn(copy) == Cardinality(UNION {{e} \X HitLines(Origin(copy[e])) : e \in DOMAIN copy})

\* A copy of the first n files counts what these have.
LEMMA LogsCount ==
    ASSUME bundle \in Seq(Logs), NEW n \in 0..Len(bundle), NEW c \in Seq(Entries),
           IsWhole(c, n)
    PROVE  CountIn(c) = HitsTo(n)
<1>1. Len(bundle) \in Nat /\ DOMAIN c = 1..n
  BY LenProperties DEF IsWhole
<1>2. \A e \in 1..n : Origin(c[e]) = Text(e)
  <2> SUFFICES ASSUME NEW e \in 1..n PROVE Origin(c[e]) = Text(e)
    OBVIOUS
  <2>1. c[e] = WholeEntry(e)
    BY DEF IsWhole
  <2>2. c[e].member = e /\ e # 0
    BY <1>1, <2>1 DEF WholeEntry
  <2>3. QED BY <2>2 DEF Origin, Text
<1>3. \A e \in 1..n : {e} \X HitLines(Origin(c[e])) = {e} \X HitLines(Text(e))
  BY <1>2
<1>4. {{e} \X HitLines(Origin(c[e])) : e \in DOMAIN c} = {{k} \X HitLines(Text(k)) : k \in 1..n}
  BY ONLY <1>1, <1>3
<1>5. QED BY <1>4 DEF CountIn, HitsTo

\* The copy of an audit trail counts what has been masked of it.
LEMMA AuditCount ==
    ASSUME NEW n \in 0..Len(Trail), NEW c,
           c = <<[member |-> 0, lines |-> Masked(SubSeq(Trail, 1, n))]>>
    PROVE  CountIn(c) = Hits(SubSeq(Trail, 1, n)) /\ Hits(SubSeq(Trail, 1, n)) \in Nat
<1> DEFINE lines == SubSeq(Trail, 1, n)
           H == [k \in 1..1 |-> HitLines(lines)]
<1>1. lines \in Seq(Line) /\ Len(lines) = n /\ n \in Nat
  <2>1. Trail \in Seq(Line) /\ Len(Trail) \in Nat
    BY CollectionAssumption, LenProperties
  <2>2. \A k \in 1..n : Trail[k] \in Line
    BY <2>1
  <2>3. lines \in Seq(Line) /\ Len(lines) = IF 1 =< n THEN n - 1 + 1 ELSE 0
    BY <2>1, <2>2, SubSeqProperties
  <2> HIDE DEF lines
  <2>4. QED BY <2>1, <2>3
<1>2. DOMAIN c = 1..1 /\ c[1].member = 0 /\ c[1].lines = Masked(lines)
  OBVIOUS
<1>3. Len(Masked(lines)) = n
  <2> HIDE DEF lines
  <2>1. QED BY <1>1, MaskedType
<1>4. Origin(c[1]) = lines
  BY <1>2, <1>3 DEF Origin
<1>5. {{e} \X HitLines(Origin(c[e])) : e \in DOMAIN c} = {{k} \X H[k] : k \in 1..1}
  <2>1. DOMAIN c = {1} /\ 1..1 = {1} /\ H[1] = HitLines(lines)
    BY <1>2
  <2> HIDE DEF H, lines
  <2>2. QED BY ONLY <1>4, <2>1
<1>6. CountIn(c) = Cardinality(Places(H, 1))
  BY <1>5 DEF CountIn, Places
<1>7. H[1] = HitLines(lines) /\ \A k \in 1..1 : IsFiniteSet(H[k])
  <2>1. IsFiniteSet(1..Len(lines)) /\ HitLines(lines) \in SUBSET (1..Len(lines))
    <3> HIDE DEF lines
    <3>1. QED BY <1>1, FS_Interval, LenProperties DEF HitLines
  <2>2. IsFiniteSet(HitLines(lines))
    <3> HIDE DEF lines
    <3>1. QED BY <2>1, FS_Subset
  <2>3. QED BY <2>2
<1> HIDE DEF H, lines
<1>8. /\ Cardinality(Places(H, 1)) = Cardinality(Places(H, 0)) + Cardinality(H[1])
      /\ Cardinality(Places(H, 0)) = 0
  <2>1. Cardinality(Places(H, 1)) = Cardinality(Places(H, 1 - 1)) + Cardinality(H[1])
    BY <1>7, PlacesAdd
  <2>2. Cardinality(Places(H, 0)) = 0
    BY PlacesAdd
  <2>3. QED BY <2>1, <2>2
<1>9. Cardinality(H[1]) = Hits(lines) /\ Hits(lines) \in Nat
  BY <1>1, <1>7, HitsType DEF Hits
<1>10. QED BY <1>6, <1>8, <1>9 DEF lines

\* What is stored as an archive is one, and never nothing.
LEMMA ArchiveIsSomething ==
    ASSUME bundle \in Seq(Logs), NEW archive \in Seq(Entries)
    PROVE  archive # None
<1> DEFINE E == [member : Nat, lines : Seq(Line)]
<1>1. Entries \subseteq E
  <2> SUFFICES ASSUME NEW j \in JobType, NEW i \in 1..Len(bundle) PROVE Entry(j, i) \in E
    BY DEF Entries
  <2>1. i \in Nat /\ bundle[i].lines \in Seq(Line)
    BY BundleLines, LenProperties
  <2>2. Masked(bundle[i].lines) \in Seq(Line)
    BY <2>1, MaskedType
  <2>3. FilteredLines(Masked(bundle[i].lines), j.range) \in Seq(Line)
    BY <2>2, FilteredKeeps
  <2>4. Written(j, bundle[i]) \in Seq(Line)
    BY <2>1, <2>2, <2>3 DEF Written
  <2>5. QED BY <2>1, <2>4 DEF Entry
<1>2. archive \in Seq(E)
  BY <1>1, SeqMonotonic
<1>3. QED BY <1>2, CollectionAssumption

-----------------------------------------------------------------------------
(* What has been counted *)

\* v counts n values, and nothing else if the whole bundle has arrived.
Covers(v, n) == n \in Nat /\ v >= n /\ (Units = Size("logs") => v = n)

CountInStep ==
    /\ pc # "idle" /\ job.kind = "collect" =>
        /\ pc \notin {"report", "finish"} => copies["audit"] = None
        /\ pc = "read" => counts = HitsTo(members)
        /\ pc \in {"salvage", "keep"} => Covers(counts, HitsTo(Len(out)))
        /\ pc = "maskAudit" => Covers(counts, Count("logs"))
        /\ pc = "report" => Covers(counts, Count("logs") + Count("audit"))
    /\ pc = "maskAudit" => job.kind = "collect"
    /\ pc = "report" /\ job.kind = "extract" => copies["extract"] # None
    /\ report # None =>
        /\ pc \in {"finish", "idle"}
        /\ copies["extract"] # None \/ Covers(report, Count("logs") + Count("audit"))

\* Counts do not change while the files, the download and the copies stay.
LEMMA CountsStay ==
    ASSUME UNCHANGED <<bundle, raw>>
    PROVE  /\ \A n : HitsTo(n)' = HitsTo(n)
           /\ \A v, n : Covers(v, n)' <=> Covers(v, n)
           /\ \A c : copies'[c] = copies[c] => Count(c)' = Count(c)
<1>1. \A n : HitsTo(n)' = HitsTo(n)
  BY DEF HitsTo, Text
<1>2. Units' = Units /\ Size("logs")' = Size("logs")
  BY BundleStays DEF Units
<1>3. \A c : copies'[c] = copies[c] => Count(c)' = Count(c)
  BY DEF Count, Origin
<1>4. QED BY <1>1, <1>2, <1>3 DEF Covers

\* The steps that count nothing.
LEMMA CountingStays ==
    ASSUME CountInStep, UNCHANGED <<bundle, raw, copies, report>>,
           \/ pc' = "idle" /\ (report # None => pc \in {"finish", "idle"})
           \/ /\ UNCHANGED <<job, counts, out, members>>
              /\ \/ pc' = pc
                 \/ pc = "salvage" /\ pc' = "keep"
                 \/ pc \in Downloads /\ pc' \in Downloads
    PROVE  CountInStep'
<1>1. report # None => copies["extract"] # None \/ Covers(report, Count("logs") + Count("audit"))'
  BY CountsStay DEF CountInStep
<1>2. CASE pc' = "idle" /\ (report # None => pc \in {"finish", "idle"})
  BY <1>1, <1>2 DEF CountInStep
<1>3. CASE UNCHANGED <<job, counts, out, members>> /\ pc' = pc
  BY <1>1, <1>3, CountsStay DEF CountInStep
<1>4. CASE UNCHANGED <<job, counts, out, members>> /\ pc = "salvage" /\ pc' = "keep"
  BY <1>1, <1>4, CountsStay DEF CountInStep
<1>5. CASE UNCHANGED <<job, counts, out, members>> /\ pc \in Downloads /\ pc' \in Downloads
  BY <1>1, <1>5 DEF CountInStep, Downloads
<1>6. QED BY <1>2, <1>3, <1>4, <1>5

\* A file of a collection is counted when it is read.
LEMMA CountingReads ==
    ASSUME IInv, CountInStep, ReadMember
    PROVE  CountInStep'
<1> DEFINE m == bundle[members + 1]
<1>1. /\ UNCHANGED <<bundle, raw, copies, report>> /\ pc = "read" /\ MoreMembers
      /\ members' = members + 1
      /\ \/ pc' = "idle"
         \/ /\ pc' = IF Wanted(job, m) /\ ~Complete(members + 1) THEN "salvage" ELSE "read"
            /\ out' = IF Wanted(job, m) /\ Complete(members + 1)
                      THEN Append(out, Entry(job, members + 1)) ELSE out
            /\ counts' = IF Wanted(job, m) /\ m.kind = "text"
                         THEN counts + Hits(LinesWithin(members + 1, Units)) ELSE counts
            /\ job' = job
  BY DEF ReadMember, End, Goto, stored
<1>2. /\ Len(bundle) \in Nat /\ raw["logs"] \in RawType("logs") /\ job \in JobType
      /\ out \in Seq(Entries) /\ bundle \in Seq(Logs) /\ members \in 0..Len(bundle)
      /\ counts \in Nat
  BY <1>1, LenProperties DEF IInv, TypeOK, WorkingFiles, RawThere, Repacks
<1>3. Units \in Nat
  BY <1>2, SizeType DEF RawType, Units
<1> PICK i \in 1..Len(bundle) : i = members + 1
  BY <1>1, <1>2 DEF MoreMembers
<1>4. report = None
  BY <1>1 DEF CountInStep
<1>5. CASE pc' = "idle"
  BY <1>1, <1>4, <1>5, CountingStays
<1>6. CASE pc' # "idle" /\ job.kind = "extract"
  <2>1. pc' \in {"read", "salvage"} /\ job' = job
    BY <1>1, <1>6
  <2>2. QED BY <1>1, <1>4, <1>6, <2>1 DEF CountInStep
<1>7. CASE pc' # "idle" /\ job.kind = "collect"
  <2>1. /\ copies["audit"] = None /\ counts = HitsTo(members)
        /\ IsWhole(out, members) /\ Wanted(job, m)
    BY <1>1, <1>7 DEF CountInStep, IInv, ReadInStep, Wanted
  <2>2. /\ HitsTo(i) = HitsTo(i - 1) + Hits(Text(i)) /\ i - 1 = members
        /\ HitsTo(members) \in Nat
    <3>1. i \in 0..Len(bundle) /\ i # 0 /\ i - 1 = members
      BY <1>2
    <3>2. QED BY <1>2, <3>1, HitsAdd
  <2>3. CASE Complete(i)
    <3>1. pc' = "read" /\ members' = i
      BY <1>1, <1>7, <2>1, <2>3
    <3>2. counts' = HitsTo(i)
      <4>1. CASE m.kind = "text"
        <5>1. counts' = counts + Hits(LinesWithin(i, Units)) /\ Text(i) = bundle[i].lines
          BY <1>1, <1>7, <2>1, <4>1 DEF Text
        <5>2. QED BY <1>2, <1>3, <2>1, <2>2, <2>3, <5>1, WholeIsThere
      <4>2. CASE m.kind # "text"
        <5>1. counts' = counts /\ Text(i) = <<>>
          BY <1>1, <1>7, <4>2 DEF Text
        <5>2. HitLines(<<>>) = {}
          BY DEF HitLines
        <5>3. Hits(<<>>) = 0
          BY <5>2, FS_EmptySet DEF Hits
        <5>4. QED BY <1>2, <2>1, <2>2, <5>1, <5>3
      <4>3. QED BY <4>1, <4>2
    <3>3. (counts = HitsTo(members))'
      BY <1>1, <3>1, <3>2, CountsStay
    <3>4. copies'["audit"] = None /\ report' = None
      BY <1>1, <1>4, <2>1
    <3>5. QED BY <3>1, <3>3, <3>4 DEF CountInStep
  <2>4. CASE ~Complete(i)
    <3>1. pc' = "salvage" /\ out' = out
      BY <1>1, <1>7, <2>1, <2>4
    <3>2. Len(out) = members
      BY <2>1 DEF IsWhole
    <3>3. counts' >= HitsTo(members)
      <4>1. Hits(LinesWithin(i, Units)) \in Nat
        BY <1>2, <1>3, LinesWithinType, HitsType
      <4>2. counts' \in {counts, counts + Hits(LinesWithin(i, Units))}
        BY <1>1, <1>7
      <4>3. QED BY <1>2, <2>1, <4>1, <4>2
    <3>4. Units # Size("logs")
      <4>1. UnitsTo(i) <= UnitsTo(Len(bundle)) /\ UnitsTo(i) \in Nat
            /\ UnitsTo(Len(bundle)) \in Nat
        <5>1. i \in 0..Len(bundle) /\ Len(bundle) \in 0..Len(bundle) /\ (i < Len(bundle) \/ i = Len(bundle))
          BY <1>2
        <5>2. QED BY <1>2, <5>1, UnitsGrow
      <4>2. QED BY <1>3, <2>4, <4>1 DEF Complete, Size
    <3>5. Covers(counts', HitsTo(Len(out)))
      BY <2>2, <3>2, <3>3, <3>4 DEF Covers
    <3>6. Covers(counts, HitsTo(Len(out)))'
      BY <1>1, <3>1, <3>5, CountsStay
    <3>7. copies'["audit"] = None /\ report' = None
      BY <1>1, <1>4, <2>1
    <3>8. QED BY <3>1, <3>6, <3>7 DEF CountInStep
  <2>5. QED BY <2>3, <2>4
<1>8. QED BY <1>2, <1>5, <1>6, <1>7 DEF JobType

\* A copy that is stored covers what was counted while it was written.
LEMMA CountingStores ==
    ASSUME IInv, CountInStep, Keep
    PROVE  CountInStep'
<1>1. /\ UNCHANGED <<bundle, job, raw, report, members, counts>> /\ pc = "keep"
      /\ copies' = [copies EXCEPT ![IF job.kind = "extract" THEN "extract" ELSE "logs"] = out]
      /\ pc' = IF raw["audit"] # None /\ job.kind = "collect" THEN "maskAudit" ELSE "report"
  BY DEF Keep, Goto
<1>2. /\ Len(bundle) \in Nat /\ job \in JobType /\ out \in Seq(Entries) /\ bundle \in Seq(Logs)
      /\ DOMAIN copies = {"logs", "audit", "extract"}
  BY <1>1, LenProperties DEF IInv, TypeOK, WorkingFiles, Repacks
<1>3. report' = None
  BY <1>1 DEF CountInStep
<1>4. CASE job.kind = "extract"
  <2>1. copies'["extract"] = out /\ out # None /\ pc' = "report"
    BY <1>1, <1>2, <1>4, ArchiveIsSomething
  <2>2. QED BY <1>1, <1>3, <1>4, <2>1 DEF CountInStep
<1>5. CASE job.kind = "collect"
  <2>1. copies'["logs"] = out /\ copies'["audit"] = None
    BY <1>1, <1>2, <1>5 DEF CountInStep
  <2>2. PICK n \in 0..Len(bundle) : IsWhole(out, n)
    BY <1>1, <1>5 DEF IInv, ReadInStep
  <2>3. Covers(counts, HitsTo(n))
    BY <1>1, <1>5, <2>2 DEF CountInStep, IsWhole
  <2>4. Count("logs")' = HitsTo(n)
    <3>1. copies'["logs"] # None
      BY <1>2, <2>1, ArchiveIsSomething
    <3>2. Count("logs")' = CountIn(out)
      BY <1>1, <2>1, <3>1 DEF Count, CountIn, Origin
    <3>3. CountIn(out) = HitsTo(n)
      BY <1>2, <2>2, LogsCount
    <3>4. QED BY <3>2, <3>3
  <2>5. Count("audit")' = 0
    BY <2>1 DEF Count
  <2>6. Covers(counts, Count("logs"))' /\ Covers(counts, Count("logs") + Count("audit"))'
    <3>1. HitsTo(n) \in Nat
      BY <2>3 DEF Covers
    <3>2. Count("logs")' + Count("audit")' = HitsTo(n) /\ counts' = counts
      BY <1>1, <2>4, <2>5, <3>1
    <3>3. \A v, k : Covers(v, k)' <=> Covers(v, k)
      BY <1>1, CountsStay
    <3>4. QED BY <2>3, <2>4, <3>2, <3>3
  <2>7. QED BY <1>1, <1>3, <1>5, <2>1, <2>6 DEF CountInStep
<1>6. QED BY <1>2, <1>4, <1>5 DEF JobType

\* The audit trail adds what is masked of it.
LEMMA CountingAudit ==
    ASSUME IInv, CountInStep, MaskAudit
    PROVE  CountInStep'
<1> DEFINE lines == SubSeq(Trail, 1, raw["audit"].units)
<1>1. /\ UNCHANGED <<bundle, raw, report>> /\ pc = "maskAudit"
      /\ \/ /\ pc' = "report" /\ job' = job /\ counts' = counts + Hits(lines)
            /\ copies' = [copies EXCEPT !["audit"] = <<[member |-> 0, lines |-> Masked(lines)]>>]
         \/ pc' = "idle" /\ copies' = copies
  BY DEF MaskAudit, Checkpoint, End, Goto
<1>2. /\ raw["audit"] \in RawType("audit") /\ counts \in Nat
      /\ DOMAIN copies = {"logs", "audit", "extract"}
  BY <1>1 DEF IInv, TypeOK, RawThere
<1>3. report = None /\ job.kind = "collect" /\ Covers(counts, Count("logs"))
  BY <1>1 DEF CountInStep
<1>4. CASE pc' = "idle"
  BY <1>1, <1>3, <1>4, CountingStays
<1>5. CASE pc' = "report"
  <2>1. raw["audit"].units \in 0..Len(Trail)
    BY <1>2 DEF RawType, Size
  <2>2. /\ copies'["audit"] = <<[member |-> 0, lines |-> Masked(lines)]>>
        /\ copies'["audit"] # None /\ copies'["logs"] = copies["logs"]
    <3>1. copies'["audit"] = <<[member |-> 0, lines |-> Masked(lines)]>>
          /\ copies'["logs"] = copies["logs"]
      BY <1>1, <1>2, <1>5
    <3>2. lines \in Seq(Line)
      <4>1. Trail \in Seq(Line) /\ Len(Trail) \in Nat
        BY CollectionAssumption, LenProperties
      <4>2. \A k \in 1..raw["audit"].units : Trail[k] \in Line
        BY <2>1, <4>1
      <4>3. QED BY <2>1, <4>1, <4>2, SubSeqProperties
    <3> HIDE DEF lines
    <3>3. <<[member |-> 0, lines |-> Masked(lines)]>> \in Seq([member : Nat, lines : Seq(Line)])
      BY <3>2, MaskedType
    <3>4. QED BY <3>1, <3>3, CollectionAssumption
  <2>3. Count("audit")' = Hits(lines) /\ Hits(lines) \in Nat
    <3>1. Count("audit")' = CountIn(copies'["audit"])
      BY <1>1, <2>2 DEF Count, CountIn, Origin
    <3>2. CountIn(copies'["audit"]) = Hits(lines) /\ Hits(lines) \in Nat
      BY <2>1, <2>2, AuditCount
    <3>3. QED BY <3>1, <3>2
  <2>4. Count("logs")' = Count("logs")
    BY <1>1, <2>2, CountsStay
  <2>5. Covers(counts + Hits(lines), Count("logs") + Hits(lines))
    <3> HIDE DEF lines
    <3>1. QED BY <1>2, <1>3, <2>3 DEF Covers
  <2>6. Covers(counts, Count("logs") + Count("audit"))'
    <3>1. counts' = counts + Hits(lines)
      BY <1>1, <1>5
    <3>2. \A v, k : Covers(v, k)' <=> Covers(v, k)
      BY <1>1, CountsStay
    <3>3. QED BY <2>3, <2>4, <2>5, <3>1, <3>2
  <2>7. job'.kind = "collect" /\ report' = None
    BY <1>1, <1>3, <1>5
  <2>8. QED BY <1>5, <2>6, <2>7 DEF CountInStep
<1>6. QED BY <1>1, <1>4, <1>5

\* Every step keeps the counts in step.
LEMMA CountingKeeps ==
    ASSUME IInv, CountInStep, [Next]_vars
    PROVE  CountInStep'
<1>1. CASE \/ \E audit, redact \in BOOLEAN : StartCollection(audit, redact)
           \/ \E categories \in SUBSET Categories, rotated \in BOOLEAN, form \in Forms :
                StartExtraction(categories, rotated, form)
  <2>1. pc' \in {"connect", "repack"} /\ report' = None /\ copies' = NoCopies
    BY <1>1 DEF StartCollection, StartExtraction, Start, Goto
  <2>2. QED BY <2>1 DEF CountInStep, NoCopies
<1>2. CASE Cancel \/ GoSilent \/ UNCHANGED vars
  BY <1>2, CountingStays DEF Cancel, GoSilent, vars, repack, stored, transfer
<1>3. CASE Connect \/ Begin \/ Refused \/ Storing \/ Salvage \/ Finish
  <2>1. UNCHANGED <<bundle, raw, copies, report, counts, out, members>>
    BY <1>3 DEF Connect, Begin, Refused, Storing, Salvage, Finish, repack, stored
  <2>2. \/ pc' = "idle" /\ (pc = "finish" \/ report = None)
        \/ /\ job' = job
           /\ \/ pc = "salvage" /\ pc' = "keep"
              \/ pc \in Downloads /\ pc' \in Downloads
    BY <1>3 DEF Connect, Begin, Refused, Storing, Salvage, Finish, Checkpoint, End, Goto,
                Downloads, CountInStep
  <2>3. QED BY <2>1, <2>2, CountingStays
<1>4. CASE Accepted \/ Chunk \/ EndOfBody \/ Timeout \/ Reset
  <2>1. UNCHANGED <<bundle, raw, copies, report, counts, out, members>>
    BY <1>4 DEF Accepted, Chunk, EndOfBody, Timeout, Reset, repack, stored
  <2>2. /\ pc \in {"request", "chunk"}
        /\ pc' = "idle" \/ (job' = job /\ pc' \in {"chunk", "storing"})
    BY <1>4 DEF Accepted, Chunk, OnChunk, Checkpoint, EndOfBody, Timeout, Received, Reset, End, Goto
  <2>3. report = None
    BY <2>2 DEF CountInStep
  <2>4. QED BY <2>1, <2>2, <2>3, CountingStays DEF Downloads
<1>5. CASE Store
  <2>1. /\ pc = "store" /\ pc' \in {"begin", "repack", "finish"}
        /\ UNCHANGED <<job, copies, report>>
    BY <1>5 DEF Store, Goto
  <2>2. report = None /\ (job.kind = "collect" => copies["audit"] = None)
    BY <2>1 DEF CountInStep
  <2>3. QED BY <2>1, <2>2 DEF CountInStep
<1>6. CASE Repack
  <2>1. /\ pc = "repack" /\ members' = 0 /\ counts' = 0 /\ UNCHANGED <<bundle, raw, copies, report>>
        /\ pc' = "idle" \/ (pc' = "read" /\ job' = job)
    BY <1>6 DEF Repack, Checkpoint, End, Goto, stored
  <2>2. report = None /\ (job.kind = "collect" => copies["audit"] = None)
    BY <2>1 DEF CountInStep
  <2>3. HitsTo(0) = 0
    <3>1. bundle \in Seq(Logs) /\ 0 \in 0..Len(bundle)
      BY LenProperties DEF IInv, TypeOK
    <3>2. QED BY <3>1, HitsAdd
  <2>4. (counts = HitsTo(members))'
    BY <2>1, <2>3, CountsStay
  <2>5. QED BY <2>1, <2>2, <2>4 DEF CountInStep
<1>7. CASE ReadMember
  BY <1>7, CountingReads
<1>8. CASE NoMoreMembers
  <2>1. /\ UNCHANGED <<bundle, raw, copies, report, members, counts>> /\ pc = "read"
        /\ pc' = "idle" \/ (pc' \in {"salvage", "keep"} /\ UNCHANGED <<job, out>>)
    BY <1>8 DEF NoMoreMembers, End, Goto, stored
  <2>2. report = None
    BY <2>1 DEF CountInStep
  <2>3. CASE pc' = "idle"
    BY <2>1, <2>2, <2>3, CountingStays
  <2>4. CASE pc' \in {"salvage", "keep"} /\ UNCHANGED <<job, out>>
    <3>1. ASSUME job.kind = "collect" PROVE copies["audit"] = None /\ Covers(counts, HitsTo(Len(out)))
      <4>1. copies["audit"] = None /\ counts = HitsTo(members) /\ Len(out) = members
        BY <2>1, <3>1 DEF CountInStep, IInv, ReadInStep, IsWhole
      <4>2. bundle \in Seq(Logs) /\ members \in 0..Len(bundle)
        BY DEF IInv, TypeOK
      <4>3. HitsTo(members) \in Nat
        BY <4>2, HitsAdd
      <4>4. QED BY <4>1, <4>3 DEF Covers
    <3>2. job.kind = "collect" => Covers(counts, HitsTo(Len(out)))'
      BY <2>1, <2>4, <3>1, CountsStay
    <3>3. QED BY <2>1, <2>2, <2>4, <3>1, <3>2 DEF CountInStep
  <2>5. QED BY <2>1, <2>3, <2>4
<1>9. CASE Keep \/ MaskAudit
  BY <1>9, CountingStores, CountingAudit
<1>10. CASE Report
  <2>1. /\ pc = "report" /\ UNCHANGED <<bundle, raw, copies, counts>>
        /\ \/ pc' = "idle" /\ report' = report
           \/ pc' = "finish" /\ job' = job /\ report' = counts
    BY <1>10 DEF Report, Checkpoint, End, Goto, repack
  <2>2. report = None /\ job.kind \in {"collect", "extract"}
    BY <2>1 DEF CountInStep, IInv, TypeOK, JobType
  <2>3. CASE pc' = "idle"
    BY <2>1, <2>2, <2>3, CountingStays
  <2>4. CASE pc' = "finish" /\ job' = job /\ report' = counts
    <3>1. copies["extract"] # None \/ Covers(counts, Count("logs") + Count("audit"))
      BY <2>1, <2>2 DEF CountInStep
    <3>2. copies'["extract"] # None \/ Covers(report, Count("logs") + Count("audit"))'
      BY <2>1, <2>4, <3>1, CountsStay
    <3>3. QED BY <2>4, <3>2 DEF CountInStep
  <2>5. QED BY <2>1, <2>3, <2>4
<1>11. QED BY <1>1, <1>2, <1>3, <1>4, <1>5, <1>6, <1>7, <1>8, <1>9, <1>10 DEF Next, Body

-----------------------------------------------------------------------------
(* The theorems *)

\* The invariant holds before the first job.
LEMMA InitHolds ==
    ASSUME Init
    PROVE  IInv
<1>1. bundle \in Seq(Logs)
  BY DEF Init
<1>2. Len(bundle) \in Nat
  BY <1>1, LenProperties
<1>3. TypeOK
  <2>1. members \in 0..Len(bundle) /\ counts \in Nat
    BY <1>2 DEF Init
  <2>2. DOMAIN raw = {"logs", "audit"} /\ \A f \in {"logs", "audit"} : raw[f] = None
    BY DEF Init, NoRaw
  <2>3. DOMAIN copies = {"logs", "audit", "extract"} /\ \A c \in DOMAIN copies : copies[c] = None
    BY DEF Init, NoCopies
  <2>4. /\ silent \in BOOLEAN /\ cancel \in BOOLEAN /\ file \in {"logs", "audit"}
        /\ pc \in Labels /\ pc = "idle" /\ job = None
        /\ part = None /\ report = None /\ last = None
    BY DEF Init, Labels
  <2>5. QED BY <1>1, <2>1, <2>2, <2>3, <2>4 DEF TypeOK
<1>4. WorkingFiles /\ RawThere /\ ReadInStep /\ CopyInStep /\ NothingHalfWritten
  BY DEF Init, WorkingFiles, RawThere, ReadInStep, CopyInStep, NothingHalfWritten, Repacks,
         Downloads, NoCopies
<1>5. QED BY <1>3, <1>4 DEF IInv

\* Every step keeps it.
LEMMA NextKeeps ==
    ASSUME IInv, [Next]_vars
    PROVE  IInv'
<1>1. CASE \/ \E audit, redact \in BOOLEAN : StartCollection(audit, redact)
           \/ \E categories \in SUBSET Categories, rotated \in BOOLEAN, form \in Forms :
                StartExtraction(categories, rotated, form)
  BY <1>1, StartKeeps
<1>2. CASE Cancel \/ GoSilent \/ UNCHANGED vars
  BY <1>2, OthersKeep
<1>3. CASE Connect \/ Begin \/ Refused \/ Storing \/ Salvage \/ Finish
  BY <1>3, ControlSteps
<1>4. CASE Accepted \/ Chunk \/ EndOfBody \/ Timeout \/ Reset
  BY <1>4, TransferSteps
<1>5. CASE Store \/ Repack \/ ReadMember \/ NoMoreMembers
  BY <1>5, StoreKeeps, RepackKeeps, ReadMemberKeeps, NoMoreMembersKeeps
<1>6. CASE Keep \/ MaskAudit \/ Report
  BY <1>6, KeepKeeps, MaskAuditKeeps, ReportKeeps
<1>7. QED BY <1>1, <1>2, <1>3, <1>4, <1>5, <1>6 DEF Next, Body

\* The invariant holds throughout every behaviour.
THEOREM Invariance == Spec => []IInv
<1>1. Init => IInv
  BY InitHolds
<1>2. IInv /\ [Next]_vars => IInv'
  BY NextKeeps
<1>3. QED BY <1>1, <1>2, PTL DEF Spec

\* Every variable keeps its type, whatever the bundle and wherever the transfer is cut.
THEOREM CollectionTypeCorrect == Spec => []TypeOK
<1>1. IInv => TypeOK
  BY DEF IInv
<1>2. QED BY <1>1, Invariance, PTL

\* "stops and keeps nothing half-written": a working file that stays behind was received to
\* its end, and its job was cancelled before it was stored.
THEOREM NothingHalfWrittenHolds == Spec => []NothingHalfWritten
<1>1. IInv => NothingHalfWritten
  BY DEF IInv
<1>2. QED BY <1>1, Invariance, PTL

\* A redacted copy in step holds the files that arrived whole.
LEMMA CopyIsWhole ==
    ASSUME IInv
    PROVE  SalvagesWholeFiles
<1> SUFFICES ASSUME copies["logs"] # None
             PROVE  /\ Len(copies["logs"]) = Cardinality(WholeFiles)
                    /\ \A i \in WholeFiles : copies["logs"][i] = WholeEntry(i)
  BY DEF SalvagesWholeFiles, WholeEntry
<1>1. PICK n \in 0..Len(bundle) : IsWhole(copies["logs"], n) /\ Arrived(n)
  BY DEF IInv, CopyInStep
<1>2. Len(bundle) \in Nat
  BY LenProperties DEF IInv, TypeOK
<1>3. WholeFiles = 1..n
  BY <1>1, <1>2 DEF WholeFiles, Arrived, Complete
<1>4. Cardinality(1..n) = n
  <2>1. n \in Nat
    BY <1>2
  <2>2. Cardinality(1..n) = IF 1 > n THEN 0 ELSE n - 1 + 1
    BY <2>1, FS_Interval
  <2>3. QED BY <2>1, <2>2
<1>5. QED BY <1>1, <1>3, <1>4 DEF IsWhole

\* The redacted copy of a bundle holds every file that arrived whole, masked and in order,
\* and nothing of a file that was cut, for bundles of any number and size of files.
THEOREM WholeFilesSalvaged == Spec => []SalvagesWholeFiles
<1>1. IInv => SalvagesWholeFiles
  BY CopyIsWhole
<1>2. QED BY <1>1, Invariance, PTL

\* When its archive is stored, an extraction has kept what was asked for.
LEMMA AskedIsKept ==
    ASSUME IInv, ExtractionInStep
    PROVE  AskedLinesKept
<1> SUFFICES ASSUME Extracted, NEW i \in WholeFiles, Selected(i), NEW k \in AskedLines(i),
                    ~(/\ bundle[i].rotated
                      /\ job.form.to # None /\ DayOf(bundle[i].mtime) > job.form.to),
                    ~(/\ bundle[i].lines[k].format = "syslog"
                      /\ bundle[i].lines[k].at \div YearLength # Now \div YearLength)
             PROVE  Kept(i, k)
  BY DEF AskedLinesKept
<1> DEFINE m == bundle[i]
           line == m.lines[k]
<1>1. /\ bundle \in Seq(Logs) /\ i \in 1..Len(bundle) /\ Complete(i)
      /\ job \in JobType /\ job.kind = "extract"
  BY DEF IInv, TypeOK, Extracted, WholeFiles, Complete
<1>2. m \in Logs /\ m.lines \in Seq(Line) /\ m.kind \in {"text", "binary", "directory"}
      /\ (m.kind = "directory" => m.lines = <<>>) /\ m.rotated \in BOOLEAN
  BY <1>1, BundleLines, CollectionAssumption
<1>3. k \in DOMAIN m.lines /\ line \in Line /\ Asked(job.form, line.at)
  BY <1>2, LenProperties DEF AskedLines
<1>4. job.form \in Forms /\ job.range = RangeOf(job.form)
      /\ HoldsWanted(copies["extract"], 1..Len(bundle))
  BY <1>1 DEF JobType, ExtractionInStep, Extracted
<1>5. Wanted(job, m)
  <2>1. m.rotated /\ job.range # None => Contains(job.range, m.mtime)
    BY <1>2, <1>3, <1>4, WrittenToLater
  <2>2. QED BY <2>1 DEF Wanted, Selected
<1>6. PICK e \in DOMAIN copies["extract"] : copies["extract"][e] = Entry(job, i)
  BY <1>1, <1>4, <1>5 DEF HoldsWanted, Holds
<1>7. copies["extract"][e].member = i /\ copies["extract"][e].lines = Written(job, m)
  BY <1>6 DEF Entry
<1>8. CASE m.kind # "text"
  BY <1>3, <1>7, <1>8 DEF Written, Kept
<1>9. CASE m.kind = "text"
  <2> DEFINE masked == Masked(m.lines)
  <2>1. masked \in Seq(Line) /\ DOMAIN masked = DOMAIN m.lines /\ masked[k] = MaskedLine(line)
    <3>1. masked \in Seq(Line) /\ DOMAIN masked = DOMAIN m.lines
      BY <1>2, MaskedType
    <3>2. QED BY <1>3, <3>1 DEF Masked
  <2>2. LineInRange(masked[k], job.range)
    <3>1. /\ MaskedLine(line) \in Line
          /\ MaskedLine(line).at = line.at /\ MaskedLine(line).format = line.format
      BY <1>3 DEF MaskedLine, Line
    <3>2. line.format = "syslog" => line.at \div YearLength = Now \div YearLength
      OBVIOUS
    <3> HIDE DEF line
    <3>3. QED BY <1>3, <1>4, <2>1, <3>1, <3>2, AskedIsInRange
  <2>3. \E n \in DOMAIN Written(job, m) : Written(job, m)[n] = masked[k]
    <3>1. CASE job.range = None
      BY <1>3, <1>9, <2>1, <3>1 DEF Written
    <3>2. CASE job.range # None
      <4>1. Written(job, m) = FilteredLines(masked, job.range)
        BY <1>9, <3>2 DEF Written
      <4> HIDE DEF masked
      <4>2. QED BY <1>3, <2>1, <2>2, <4>1, FilteredKeeps
    <3>3. QED BY <3>1, <3>2
  <2>4. QED BY <1>7, <1>9, <2>3 DEF Kept
<1>10. QED BY <1>8, <1>9

\* Of the files it selects that arrived whole, an extraction keeps every line of the days
\* asked for, for any log files and any range, but for the exceptions app/log_dates.py states.
THEOREM AskedLinesAreKept == Spec => []AskedLinesKept
<1>1. Init => ExtractionInStep
  BY DEF Init, ExtractionInStep
<1>2. IInv /\ ExtractionInStep /\ [Next]_vars => ExtractionInStep'
  BY ExtractionKeeps
<1>3. IInv /\ ExtractionInStep => AskedLinesKept
  BY AskedIsKept
<1>4. QED BY <1>1, <1>2, <1>3, Invariance, PTL DEF Spec

\* A collection's report counts at least what is masked in the copies, and just that when
\* the whole bundle has arrived, for bundles of any size and a transfer cut anywhere.
THEOREM ReportCountsMasked == Spec => []ReportsCount
<1>1. Init => CountInStep
  BY DEF Init, CountInStep
<1>2. IInv /\ CountInStep /\ [Next]_vars => CountInStep'
  BY CountingKeeps
<1>3. CountInStep => ReportsCount
  BY DEF CountInStep, ReportsCount, Covers
<1>4. QED BY <1>1, <1>2, <1>3, Invariance, PTL DEF Spec

=============================================================================
