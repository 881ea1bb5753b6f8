----------------------------- MODULE Collection -----------------------------
(***************************************************************************)
(* What a collection and an extraction do with a host's logs               *)
(* (app/job_collect.py, app/job_extract.py, app/xo_client.py and           *)
(* app/log_dates.py): the streamed download that can end in many ways, the *)
(* repacking that salvages a bundle cut short, and the filters that pick   *)
(* the files and lines of an extraction.                                   *)
(*                                                                         *)
(* A bundle is a sequence of log files, transferred as units: one for the  *)
(* header of a file, then one for each of its lines.  A chunk is a unit.   *)
(* Times are ticks; a day has DayLength of them.                           *)
(*                                                                         *)
(* Storing a file is a step here: ArtifactStore has its inside.  Which     *)
(* stored file a job reads is the subject of JobChain.                     *)
(***************************************************************************)
EXTENDS Integers, Sequences, FiniteSets

CONSTANTS
    Logs,           \* the log files that a host may have
    Trail,          \* the lines of its audit trail
    Forms,          \* date ranges that a form may submit
    MaxFiles,       \* bound: files in a bundle
    DayLength,
    YearLength,
    Now,            \* when the jobs run
    ProgressEvery,  \* _PROGRESS_EVERY_MEMBERS
    None

\* format: "iso" has a year, "syslog" has none, "other" does not parse.
Line == [at : 0..Now, format : {"iso", "syslog", "other"}, hit : BOOLEAN]

ASSUME CollectionAssumption ==
    /\ MaxFiles \in Nat \ {0} /\ DayLength \in Nat \ {0} /\ YearLength \in Nat \ {0}
    /\ Now \in Nat /\ ProgressEvery \in Nat \ {0}
    /\ None \notin Int /\ None \notin Seq([member : Nat, lines : Seq(Line)])
    /\ \A m \in Logs :
        /\ m.kind \in {"text", "binary", "directory"}
        /\ m.rotated \in BOOLEAN /\ m.mtime \in 0..Now
        /\ m.lines \in Seq(Line)
        /\ \A k \in DOMAIN m.lines : m.lines[k].at =< m.mtime
        /\ m.kind = "directory" => m.lines = <<>>
    /\ Trail \in Seq(Line)
    /\ \A f \in Forms : /\ f.preset \in {None, "recent", "since_reboot", "custom"}
                        /\ f.from \in Nat \cup {None} /\ f.to \in Nat \cup {None}

VARIABLES
    bundle,    \* the log files of the host, in the order of its archive
    silent,    \* the transfer has stalled
    job,       \* the job that runs, or None
    pc,        \* where it is
    file,      \* "logs" or "audit": what it downloads
    cancel,    \* cancel_requested
    part,      \* the .part file: None or what has been written
    raw,       \* the raw artifacts
    members,   \* repacking: archive members met
    out,       \* the archive being written (repacking.tmp, extracting.tmp), or None
    counts,    \* masked values counted
    copies,    \* what the job has stored: redacted logs, redacted audit, extract
    report,    \* the count that the stored report gives, or None
    last       \* the job that ran last, with how it ended

transfer == <<silent, file, part>>
repack == <<members, out, counts>>
stored == <<raw, copies, report>>
vars == <<bundle, job, pc, cancel, transfer, repack, stored, last>>

-----------------------------------------------------------------------------
(* Date ranges: app/log_dates.py *)

DayOf(at) == at \div DayLength

\* Faulty variant: the last day of a range ends when it begins.
MidnightOf(day) == IF day = None THEN None ELSE day * DayLength

\* _parse_form_date, of the first and of the last day.
StartOf(day) == IF day = None THEN None ELSE day * DayLength
EndOf(day) == IF day = None THEN None ELSE day * DayLength + DayLength - 1

\* preset_range of a preset of one day: no end, as logs go on being written.
Recent == [start |-> Now - DayLength, end |-> None]

\* range_from_form.  "Since the last reboot" needs an uptime, which an extraction has
\* not: it falls through to the dates, as "custom" does.
RangeOf(form) ==
    IF form.preset = "recent" THEN Recent
    ELSE IF form.from = None /\ form.to = None THEN None
    ELSE [start |-> StartOf(form.from), end |-> EndOf(form.to)]

Contains(range, at) ==
    /\ range.start # None => range.start =< at
    /\ range.end # None => at =< range.end

\* parse_log_timestamp: the current year is assumed when the line has none.
Timestamp(line) ==
    CASE line.format = "iso" -> line.at
      [] line.format = "syslog" -> (Now \div YearLength) * YearLength + (line.at % YearLength)
      [] line.format = "other" -> None

LineInRange(line, range) ==
    range = None \/ Timestamp(line) = None \/ Contains(range, Timestamp(line))

-----------------------------------------------------------------------------
(* The bundle as a stream *)

\* The units of the first i files: of each, its header and its lines.
UnitsTo(i) == Cardinality(UNION {{k} \X (0..Len(bundle[k].lines)) : k \in 1..i})

Size(f) == IF f = "logs" THEN UnitsTo(Len(bundle)) ELSE Len(Trail)

\* The lines of file i among the first n units.
LinesWithin(i, n) ==
    LET body == bundle[i].lines
        room == n - UnitsTo(i - 1) - 1
    IN SubSeq(body, 1, IF room < Len(body) THEN room ELSE Len(body))

\* RedactionRule.apply: nothing that a rule matches is left of a line.
MaskedLine(line) == [line EXCEPT !.hit = FALSE]

Masked(lines) == [k \in DOMAIN lines |-> MaskedLine(lines[k])]

\* What redact_text counts.
HitLines(lines) == {k \in DOMAIN lines : lines[k].hit}
Hits(lines) == Cardinality(HitLines(lines))

\* line_filter, on the masked line: what it rejects is left out entirely.
FilteredLines(lines, range) ==
    LET kept[k \in 0..Len(lines)] ==
            IF k = 0 THEN <<>>
            ELSE IF LineInRange(lines[k], range) THEN Append(kept[k - 1], lines[k])
            ELSE kept[k - 1]
    IN kept[Len(lines)]

\* member_filter, and no filter for the redacted copy of everything.
Wanted(j, m) ==
    \/ j.kind = "collect"
    \/ /\ m.category \in j.categories
       /\ m.kind = "directory"
          \/ /\ m.rotated => j.rotated
             /\ m.rotated /\ j.range # None => Contains(j.range, m.mtime)

\* What is written of a file.  Binary files are copied as they are; they have no lines.
Written(j, m) ==
    IF m.kind # "text" THEN m.lines
    ELSE IF j.range = None THEN Masked(m.lines)
    ELSE FilteredLines(Masked(m.lines), j.range)

Entry(j, i) == [member |-> i, lines |-> Written(j, bundle[i])]

-----------------------------------------------------------------------------
NoRaw == [f \in {"logs", "audit"} |-> None]
NoCopies == [c \in {"logs", "audit", "extract"} |-> None]

Init ==
    /\ bundle \in UNION {{b \in [1..n -> Logs] : \A i, k \in 1..n : b[i] = b[k] => i = k} :
                         n \in 1..MaxFiles}
    /\ silent = FALSE
    /\ job = None
    /\ pc = "idle"
    /\ file = "logs"
    /\ cancel = FALSE
    /\ part = None
    /\ raw = NoRaw
    /\ members = 0
    /\ out = None
    /\ counts = 0
    /\ copies = NoCopies
    /\ report = None
    /\ last = None

Goto(label) == pc' = label

\* The job is over: succeeded, failed or cancelled.
End(outcome) ==
    /\ job' = None
    /\ Goto("idle")
    /\ last' = [kind |-> job.kind, outcome |-> outcome]

\* context.progress: go on, or raise JobCancelled.
Checkpoint(label) ==
    IF cancel THEN End("cancelled") ELSE Goto(label) /\ UNCHANGED <<job, last>>

\* A job starts with nothing: what earlier ones have stored or left is theirs.
Start(params, label) ==
    /\ job' = params
    /\ cancel' = FALSE
    /\ file' = "logs"
    /\ silent' = FALSE
    /\ part' = None
    /\ members' = 0
    /\ out' = None
    /\ counts' = 0
    /\ copies' = NoCopies
    /\ report' = None
    /\ Goto(label)
    /\ UNCHANGED <<bundle, last>>

StartCollection(audit, redact) ==
    /\ last = None /\ job = None
    /\ Start([kind |-> "collect", audit |-> audit, redact |-> redact, range |-> None], "connect")
    /\ raw' = NoRaw

\* From a raw bundle that a collection has stored.
StartExtraction(categories, rotated, form) ==
    /\ last # None /\ job = None
    /\ last.kind = "collect"
    /\ raw["logs"] # None
    /\ categories # {}
    /\ Start([kind |-> "extract", categories |-> categories, rotated |-> rotated,
              form |-> form, range |-> RangeOf(form)], "repack")
    /\ raw' = [raw EXCEPT !["audit"] = None]

Cancel ==
    /\ job # None
    /\ ~cancel
    /\ cancel' = TRUE
    /\ UNCHANGED <<bundle, job, pc, transfer, repack, stored, last>>

-----------------------------------------------------------------------------
(* _download and download_to *)

\* build_client raises when there is no connection, or its token cannot be read.
Connect ==
    /\ pc = "connect"
    /\ Checkpoint("begin") \/ End("failed")
    /\ UNCHANGED <<bundle, cancel, transfer, repack, stored>>

Begin ==
    /\ pc = "begin"
    /\ Checkpoint("request")
    /\ UNCHANGED <<bundle, cancel, transfer, repack, stored>>

\* Any status but 200, or no connection: there is no file yet.
Refused ==
    /\ pc = "request"
    /\ End("failed")
    /\ UNCHANGED <<bundle, cancel, transfer, repack, stored>>

Accepted ==
    /\ pc = "request"
    /\ part' = [units |-> 0, page |-> FALSE, open |-> TRUE]
    /\ silent' = FALSE
    /\ Goto("chunk")
    /\ UNCHANGED <<bundle, job, cancel, file, repack, stored, last>>

\* on_chunk looks for a cancellation at every chunk.
OnChunk == Checkpoint("chunk")

\* A chunk is written, then on_chunk may raise: the file goes.
Chunk ==
    /\ pc = "chunk"
    /\ ~silent
    /\ part.units < Size(file)
    /\ OnChunk
    /\ part' = IF cancel THEN None ELSE [part EXCEPT !.units = @ + 1]
    /\ UNCHANGED <<bundle, cancel, silent, file, repack, stored>>

\* The connection is open and nothing comes any more, the end of the response included.
GoSilent ==
    /\ pc = "chunk"
    /\ silent' = TRUE
    /\ UNCHANGED <<bundle, job, pc, cancel, file, part, repack, stored, last>>

\* A host whose build of the bundle failed part-way may append an error page.  It is cut
\* off again, unless it is all there is.
ErrorPages == {page \in BOOLEAN : page => file = "logs" /\ part.units < Size(file)}

\* The transfer is over as far as download_to is concerned.
Received(page) ==
    /\ part' = [part EXCEPT !.page = page /\ part.units = 0, !.open = FALSE]
    /\ Goto("storing")
    /\ UNCHANGED <<job, last>>

\* The response ends, also when the host gave up part-way.
EndOfBody ==
    /\ pc = "chunk"
    /\ ~silent
    /\ \E page \in ErrorPages : Received(page)
    /\ UNCHANGED <<bundle, cancel, silent, file, repack, stored>>

\* Faulty variant: a timeout counts only when nothing has arrived.
TimeoutWithNothing ==
    /\ pc = "chunk"
    /\ silent
    /\ part.units = 0
    /\ part' = None
    /\ End("failed")
    /\ UNCHANGED <<bundle, cancel, silent, file, repack, stored>>

\* ReadTimeout: what has arrived is kept; nothing at all is a failure.
Timeout ==
    /\ pc = "chunk"
    /\ silent
    /\ \E page \in ErrorPages :
        IF page \/ part.units > 0 THEN Received(page) ELSE part' = None /\ End("failed")
    /\ UNCHANGED <<bundle, cancel, silent, file, repack, stored>>

\* Faulty variant: the file stays.
ResetKeeping ==
    /\ pc = "chunk"
    /\ End("failed")
    /\ UNCHANGED <<bundle, cancel, transfer, repack, stored>>

\* A connection reset, a protocol error, or a full disk.
Reset ==
    /\ pc = "chunk"
    /\ part' = None
    /\ End("failed")
    /\ UNCHANGED <<bundle, cancel, silent, file, repack, stored>>

\* context.progress(high, "Storing ...")
Storing ==
    /\ pc = "storing"
    /\ Checkpoint("store")
    /\ UNCHANGED <<bundle, cancel, transfer, repack, stored>>

\* store_file moves it in; the audit trail is next when it was asked for.
Store ==
    /\ pc = "store"
    /\ raw' = [raw EXCEPT ![file] = [units |-> part.units, page |-> part.page]]
    /\ part' = None
    /\ IF file = "logs" /\ job.audit
       THEN file' = "audit" /\ Goto("begin")
       ELSE file' = file /\ Goto(IF job.redact THEN "repack" ELSE "finish")
    /\ UNCHANGED <<bundle, job, cancel, silent, repack, copies, report, last>>

-----------------------------------------------------------------------------
(* _redact_tarball, for a redacted copy and for an extraction *)

Repack ==
    /\ pc = "repack"
    /\ Checkpoint("read")
    /\ members' = 0
    /\ counts' = 0
    /\ out' = IF cancel THEN None ELSE <<>>
    /\ UNCHANGED <<bundle, cancel, transfer, stored>>

\* How much of the archive there is to read.
Units == raw["logs"].units

\* The header of the next member is there, and what precedes it.
MoreMembers == members < Len(bundle) /\ Units > UnitsTo(members)

\* Faulty variant: a member is written however much of it there is.
AnyBody(i) == Units > UnitsTo(i - 1)

\* A member of which every line is there.
Complete(i) == Units >= UnitsTo(i)

ReadMember ==
    LET i == members + 1
        m == bundle[i]
        checked == i % ProgressEvery = 0
    IN  /\ pc = "read"
        /\ MoreMembers
        /\ members' = i
        /\ IF checked /\ cancel
           THEN End("cancelled") /\ out' = None /\ UNCHANGED counts
           ELSE /\ IF Wanted(job, m) /\ ~Complete(i)
                   THEN Goto("salvage")
                   ELSE UNCHANGED pc
                /\ out' = IF Wanted(job, m) /\ Complete(i) THEN Append(out, Entry(job, i))
                          ELSE out
                /\ counts' = IF Wanted(job, m) /\ m.kind = "text"
                             THEN counts + Hits(LinesWithin(i, Units))
                             ELSE counts
                /\ UNCHANGED <<job, last>>
    /\ UNCHANGED <<bundle, cancel, transfer, stored>>

\* No more members: at the end, at a cut between two of them, which reads as the end, or
\* inside one that was passed over.  Nothing readable at all is a failure.
NoMoreMembers ==
    /\ pc = "read"
    /\ ~MoreMembers
    /\ IF members = 0
       THEN End("failed") /\ out' = None
       ELSE /\ Goto(IF Units < UnitsTo(members) THEN "salvage" ELSE "keep")
            /\ UNCHANGED <<job, out, last>>
    /\ UNCHANGED <<bundle, cancel, transfer, members, counts, stored>>

\* context.progress(..., "the bundle ends early"), after the archive has been closed.
Salvage ==
    /\ pc = "salvage"
    /\ Checkpoint("keep")
    /\ UNCHANGED <<bundle, cancel, transfer, repack, stored>>

\* Storing the new archive.
Keep ==
    /\ pc = "keep"
    /\ copies' = [copies EXCEPT ![IF job.kind = "extract" THEN "extract" ELSE "logs"] = out]
    /\ out' = None
    /\ Goto(IF raw["audit"] # None /\ job.kind = "collect" THEN "maskAudit" ELSE "report")
    /\ UNCHANGED <<bundle, job, cancel, transfer, members, counts, raw, report, last>>

\* _redact_text_artifact: there is no telling that a text was cut short.
MaskAudit ==
    LET lines == SubSeq(Trail, 1, raw["audit"].units)
    IN  /\ pc = "maskAudit"
        /\ Checkpoint("report")
        /\ IF cancel THEN UNCHANGED <<copies, counts>>
           ELSE /\ copies' = [copies EXCEPT !["audit"] = <<[member |-> 0, lines |-> Masked(lines)]>>]
                /\ counts' = counts + Hits(lines)
        /\ UNCHANGED <<bundle, cancel, transfer, members, out, raw, report>>

\* Faulty variant: with an audit trail, the counts are those of a run over nothing.
ReportLast ==
    /\ pc = "report"
    /\ Checkpoint("finish")
    /\ report' = IF cancel THEN report ELSE IF copies["audit"] # None THEN 0 ELSE counts
    /\ UNCHANGED <<bundle, cancel, transfer, repack, raw, copies>>

\* build_report and store_json.
Report ==
    /\ pc = "report"
    /\ Checkpoint("finish")
    /\ report' = IF cancel THEN report ELSE counts
    /\ UNCHANGED <<bundle, cancel, transfer, repack, raw, copies>>

\* The last progress is a checkpoint as well.
Finish ==
    /\ pc = "finish"
    /\ End(IF cancel THEN "cancelled" ELSE "succeeded")
    /\ UNCHANGED <<bundle, cancel, transfer, repack, stored>>

-----------------------------------------------------------------------------
Categories == {m.category : m \in Logs}

Body ==
    \/ Connect \/ Begin \/ Refused \/ Accepted \/ Chunk \/ EndOfBody \/ Timeout
    \/ Storing \/ Store
    \/ Repack \/ ReadMember \/ NoMoreMembers \/ Salvage \/ Keep \/ MaskAudit
    \/ Report \/ Finish

Next ==
    \/ \E audit, redact \in BOOLEAN : StartCollection(audit, redact)
    \/ \E categories \in SUBSET Categories, rotated \in BOOLEAN, form \in Forms :
        StartExtraction(categories, rotated, form)
    \/ Cancel
    \/ GoSilent
    \/ Reset
    \/ Body

Spec == Init /\ [][Next]_vars

\* The worker's thread goes on; a read that gets nothing times out.  Nobody has to reset
\* the connection, or to cancel.
FairSpec == Spec /\ WF_vars(Body)

-----------------------------------------------------------------------------
(* Properties *)

Labels == {"idle", "connect", "begin", "request", "chunk", "storing", "store", "repack", "read",
           "salvage", "keep", "maskAudit", "report", "finish"}

JobType ==
    [kind : {"collect"}, audit : BOOLEAN, redact : BOOLEAN, range : {None}] \cup
    [kind : {"extract"}, categories : SUBSET Categories, rotated : BOOLEAN, form : Forms,
     range : {RangeOf(form) : form \in Forms}]

\* Every variable keeps its type.
TypeOK ==
    /\ bundle \in Seq(Logs)
    /\ silent \in BOOLEAN /\ cancel \in BOOLEAN
    /\ pc \in Labels
    /\ IF pc = "idle" THEN job = None ELSE job \in JobType
    /\ file \in {"logs", "audit"}
    /\ part # None => part \in [units : 0..Size(file), page : BOOLEAN, open : BOOLEAN]
    /\ DOMAIN raw = {"logs", "audit"}
    /\ \A f \in {"logs", "audit"} :
        raw[f] # None => raw[f] \in [units : 0..Size(f), page : BOOLEAN]
    /\ members \in 0..Len(bundle)
    /\ counts \in Nat
    /\ DOMAIN copies = {"logs", "audit", "extract"}
    /\ \A c \in DOMAIN copies : copies[c] # None => \A e \in DOMAIN copies[c] :
        copies[c][e].member \in 0..Len(bundle)
    /\ report # None => report \in Nat
    /\ last # None => last \in [kind : {"collect", "extract"},
                              outcome : {"succeeded", "failed", "cancelled"}]

\* The files of the bundle that the raw artifact holds whole.
WholeFiles == {i \in 1..Len(bundle) : Units >= UnitsTo(i)}

\* The redacted copy of a bundle holds every file that arrived whole, in the order of the
\* archive, with every line masked, and nothing of a file that was cut: "a header
\* promising bytes that never arrive is what makes an otherwise-salvageable archive
\* unreadable" (app/job_collect.py:439-444).
SalvagesWholeFiles ==
    copies["logs"] # None =>
        /\ Len(copies["logs"]) = Cardinality(WholeFiles)
        /\ \A i \in WholeFiles :
            copies["logs"][i] = [member |-> i,
                                 lines |-> IF bundle[i].kind = "text" THEN Masked(bundle[i].lines)
                                           ELSE bundle[i].lines]

\* "stops and keeps nothing half-written" (tests/test_job_collect.py:521): when no job
\* runs, a working file that stayed behind was received to its end, and its job was
\* cancelled between that and the storing of it.
NothingHalfWritten ==
    pc = "idle" /\ (part # None \/ out # None) =>
        /\ part # None => ~part.open
        /\ last.outcome = "cancelled"

\* The lines that an entry of a copy was masked from.
Origin(entry) ==
    IF entry.member = 0 THEN SubSeq(Trail, 1, Len(entry.lines))
    ELSE IF bundle[entry.member].kind = "text" THEN bundle[entry.member].lines
    ELSE <<>>

\* The values that are masked in a copy.
Count(c) ==
    IF copies[c] = None THEN 0
    ELSE Cardinality(UNION {{e} \X HitLines(Origin(copies[c][e])) : e \in DOMAIN copies[c]})

\* A collection's report counts what is masked in the copies it names, over both files,
\* and beyond that only values in a file that was cut and is in no copy.
ReportsCount ==
    report # None /\ copies["extract"] = None =>
        LET masked == Count("logs") + Count("audit")
        IN /\ report >= masked
           /\ Units = Size("logs") => report = masked

\* The days that the operator asked for.
Asked(form, at) ==
    IF form.preset = "recent" THEN Now - DayLength =< at
    ELSE /\ form.from # None => form.from =< DayOf(at)
         /\ form.to # None => DayOf(at) =< form.to

\* The extraction that has just stored its archive.
Extracted == pc = "report" /\ job.kind = "extract"

\* The lines of file i that an extraction was asked for.
AskedLines(i) == {k \in DOMAIN bundle[i].lines : Asked(job.form, bundle[i].lines[k].at)}

Kept(i, k) ==
    LET m == bundle[i]
        line == IF m.kind = "text" THEN Masked(m.lines)[k] ELSE m.lines[k]
    IN \E e \in DOMAIN copies["extract"] :
        copies["extract"][e].member = i /\ \E n \in DOMAIN copies["extract"][e].lines :
            copies["extract"][e].lines[n] = line

Selected(i) ==
    /\ bundle[i].category \in job.categories
    /\ bundle[i].rotated => job.rotated

\* Of the files it selects, an extraction keeps every line of the days asked for, the
\* last of them included, except in rotated files written to after the range, and lines
\* whose format has no year and that are not of this year (app/log_dates.py:37-44).
AskedLinesKept ==
    Extracted =>
        \A i \in WholeFiles : Selected(i) =>
            \A k \in AskedLines(i) :
                \/ Kept(i, k)
                \/ /\ bundle[i].rotated
                   /\ job.form.to # None /\ DayOf(bundle[i].mtime) > job.form.to
                \/ /\ bundle[i].lines[k].format = "syslog"
                   /\ bundle[i].lines[k].at \div YearLength # Now \div YearLength

\* A transfer ends, however it goes, and so does its job: "every byte of the bundle
\* arrives and the response then never terminates" (app/xo_client.py:561-563).
JobEnds == job # None ~> job = None

=============================================================================
