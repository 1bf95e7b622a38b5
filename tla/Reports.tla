------------------------------- MODULE Reports -------------------------------
(* Reports of scans, unit test runs, coverage runs and QA runs: POST reads the *)
(* run, then its results, renders them, writes one file per run and format and *)
(* upserts the row that points to it. The run may be executed meanwhile, fail   *)
(* after it completed, be cancelled at any point, or be executed once more, and *)
(* a second request for the same report may come at any point.                 *)
EXTENDS Integers, Sequences, FiniteSets

CONSTANTS RunRows,          \* by kind: what the run's rows may be, in the order they are saved
          Requests,
          MaxRedeliveries,  \* of the run's job
          MaxFaults,        \* requests that die or whose write fails
          None

\* Rows are a table; a result that passed carries no message. (A run has a status from the start.)
RowsAssumption ==
    /\ \A k \in DOMAIN RunRows : \A p \in RunRows[k] : p \in Seq({p[i] : i \in 1 .. Len(p)})
    /\ "qa" \in DOMAIN RunRows =>
          \A p \in RunRows["qa"] : \A i \in 1 .. Len(p) : p[i].passed => p[i].prefix = "none"
    /\ None \notin {"running", "completed", "failed", "cancelled"}

VARIABLES kind, plan,
          status, saved,    \* the run's row; of each table, how many rows are saved
          exec,             \* its execution: "starting", "running", "cleanup" or "over"
          gen,              \* the requests in flight
          file, row,        \* the stored object; whether a report row points to it
          redeliveries, faults,
          had, savedThen    \* ghosts: the statuses of the run since the last request began, and what
                            \* was saved then; nothing once one overlapped another or failed

vars == <<kind, plan, status, saved, exec, gen, file, row, redeliveries, faults, had, savedThen>>

run == <<kind, plan, status, saved, exec, redeliveries>>
requests == <<gen, file, row, faults, savedThen>>

(* What is read and in which order.                                            *)

Tables(k) == CASE k = "unit" -> <<"generatedFiles", "results">>
               [] k = "coverage" -> <<"fileResults">>
               [] k = "scan" -> <<"findings">>
               [] OTHER -> <<"results">>

ReadsRunLast(k) == Tables(k) \o <<"run">>     \* Mutant: the run's row is read after its results

Reads(k) == <<"run">> \o Tables(k)

\* createMany writes a table at once; findings and QA results are saved one after the other
BatchOf(k) == IF k \in {"unit", "coverage"} THEN Len(plan) ELSE 1

Whole(copy) == \A i \in DOMAIN Tables(kind) : copy[Tables(kind)[i]] = Len(plan)

Nothing == [t \in {"generatedFiles", "results", "fileResults", "findings"} |-> 0]

NoFile == [is |-> "missing", status |-> None, read |-> Nothing]
Damaged == [is |-> "damaged", status |-> None, read |-> Nothing]

Idle == [at |-> "idle", next |-> 1, status |-> None, read |-> Nothing]

(* What a report says of the rows it was given.                                *)

\* "SKIPPED: " and a reason, of which "Deselected before this run" is one
isSkipped(r) == r.prefix \in {"skipped", "deselected"}

isQuarantinedTestResult(r) == r.prefix = "deselected"

FailedSheet(rs) == {i \in DOMAIN rs : ~rs[i].passed /\ ~isSkipped(rs[i]) /\ ~isQuarantinedTestResult(rs[i])}
SkippedSheet(rs) == {i \in DOMAIN rs : isSkipped(rs[i]) /\ ~isQuarantinedTestResult(rs[i])}
QuarantinedSheet(rs) == {i \in DOMAIN rs : isQuarantinedTestResult(rs[i])}

StatusColumn(r) == IF r.passed THEN "Pass" ELSE IF isSkipped(r) THEN "Skipped" ELSE "Fail"

\* the counts of the summary sheet
ExcelSummary(rs) ==
    LET quarantined == Cardinality(QuarantinedSheet(rs))
        skipped == Cardinality(SkippedSheet(rs))
        passed == Cardinality({i \in DOMAIN rs : rs[i].passed})
    IN [total |-> Len(rs), passed |-> passed, skipped |-> skipped, quarantined |-> quarantined,
        failed |-> Len(rs) - passed - skipped - quarantined]

SEVERITY_PENALTY == [critical |-> 25, high |-> 10, medium |-> 4, low |-> 1, info |-> 0]

Open(rs) == {i \in DOMAIN rs : rs[i].status = "open"}
OpenOf(rs, severity) == Cardinality({i \in Open(rs) : rs[i].severity = severity})

computeReportSummary(rs) ==
    LET penalty == SEVERITY_PENALTY.critical * OpenOf(rs, "critical")
                   + SEVERITY_PENALTY.high * OpenOf(rs, "high")
                   + SEVERITY_PENALTY.medium * OpenOf(rs, "medium")
                   + SEVERITY_PENALTY.low * OpenOf(rs, "low")
                   + SEVERITY_PENALTY.info * OpenOf(rs, "info")
    IN [total |-> Len(rs), open |-> Cardinality(Open(rs)),
        healthScore |-> IF penalty > 100 THEN 0 ELSE 100 - penalty]

Init ==
    /\ kind \in DOMAIN RunRows /\ plan \in RunRows[kind]
    /\ status = "running" /\ exec = "running" /\ saved = Nothing
    /\ gen = [q \in Requests |-> Idle]
    /\ file = NoFile /\ row = FALSE
    /\ redeliveries = 0 /\ faults = 0
    /\ had = {} /\ savedThen = Nothing

(* The run, as its execution and whoever cancels it write it.                  *)

Becomes(new) == status' = new /\ had' = IF had = {} THEN {} ELSE had \cup {new}

\* The next rows of the first table that is not complete; a cancel that came after the one look at
\* the abort signal does not stop it.
Save ==
    /\ exec = "running" /\ ~Whole(saved)
    /\ \E i \in DOMAIN Tables(kind) :
          LET t == Tables(kind)[i] IN
          /\ saved[t] < Len(plan)
          /\ \A j \in 1 .. i - 1 : saved[Tables(kind)[j]] = Len(plan)
          /\ saved' = [saved EXCEPT ![t] = @ + BatchOf(kind)]
    /\ UNCHANGED <<kind, plan, status, had, exec, redeliveries, requests>>

\* also over the "cancelled" of such a cancel
Complete ==
    /\ exec = "running" /\ Whole(saved)
    /\ Becomes("completed") /\ exec' = "cleanup"
    /\ UNCHANGED <<kind, plan, saved, redeliveries, requests>>

\* An engine or a call that throws before the end; a cleanup or a report mail that throws after the
\* run completed. The catch block writes over whatever the row says.
RunFails ==
    /\ exec \in {"running", "cleanup"}
    /\ Becomes("failed") /\ exec' = "over"
    /\ UNCHANGED <<kind, plan, saved, redeliveries, requests>>

\* it is done, was aborted and leaves the row alone, or its process dies
ExecutionEnds ==
    /\ exec # "over" /\ exec' = "over"
    /\ UNCHANGED <<kind, plan, status, had, saved, redeliveries, requests>>

\* A cancel request that found the run active writes whenever it gets there (none is for QA runs).
Cancel ==
    /\ kind # "qa" /\ Becomes("cancelled")
    /\ UNCHANGED <<kind, plan, saved, exec, redeliveries, requests>>

\* A job delivered again runs the run anew unless it was cancelled: its rows stay.
Redeliver ==
    /\ kind # "qa" /\ exec = "over" /\ status # "cancelled"
    /\ redeliveries < MaxRedeliveries /\ redeliveries' = redeliveries + 1
    /\ exec' = "starting"
    /\ UNCHANGED <<kind, plan, status, had, saved, requests>>

WriteRunning ==
    /\ exec = "starting" /\ exec' = "running" /\ Becomes("running")
    /\ UNCHANGED <<kind, plan, saved, redeliveries, requests>>

(* A request.                                                                  *)

Go(q, next) == gen' = [gen EXCEPT ![q] = next]

Disturbed == had' = {} /\ savedThen' = Nothing

Generate(q) ==
    /\ gen[q] = Idle
    /\ Go(q, [Idle EXCEPT !.at = "read"])
    /\ IF \E other \in Requests : gen[other].at # "idle" THEN Disturbed
       ELSE had' = {status} /\ savedThen' = saved
    /\ UNCHANGED <<run, file, row, faults>>

ReadNext(q) ==
    LET g == gen[q]
        what == Reads(kind)[g.next]
    IN
    /\ g.at = "read"
    /\ Go(q, [at |-> IF g.next = Len(Reads(kind)) THEN "put" ELSE "read", next |-> g.next + 1,
              status |-> IF what = "run" THEN status ELSE g.status,
              read |-> IF what = "run" THEN g.read ELSE [g.read EXCEPT ![what] = saved[what]]])
    /\ UNCHANGED <<run, file, row, faults, had, savedThen>>

\* writeFile truncates, then writes; two at once may leave a mixture
Truncate(q) ==
    /\ gen[q].at = "put"
    /\ file' = Damaged /\ Go(q, [gen[q] EXCEPT !.at = "write"])
    /\ UNCHANGED <<run, row, faults, had, savedThen>>

WriteOut(q) ==
    /\ gen[q].at = "write"
    /\ \/ file' = [is |-> "whole", status |-> gen[q].status, read |-> gen[q].read]
       \/ had = {} /\ file' = Damaged
    /\ Go(q, [gen[q] EXCEPT !.at = "create"])
    /\ UNCHANGED <<run, row, faults, had, savedThen>>

Create(q) ==
    /\ gen[q].at = "create"
    /\ row' = TRUE /\ Go(q, Idle)
    /\ UNCHANGED <<run, file, faults, had, savedThen>>

\* a disk that is full, a database that is gone, a process that dies
Fails(q) ==
    /\ gen[q].at # "idle" /\ faults < MaxFaults /\ faults' = faults + 1
    /\ Go(q, Idle) /\ Disturbed
    /\ UNCHANGED <<run, file, row>>

Next == \/ Save \/ Complete \/ RunFails \/ ExecutionEnds \/ Cancel \/ Redeliver \/ WriteRunning
        \/ \E q \in Requests : \/ Generate(q) \/ ReadNext(q) \/ Truncate(q) \/ WriteOut(q)
                               \/ Create(q) \/ Fails(q)

Spec == Init /\ [][Next]_vars

RowsOf(copy, t) == SubSeq(plan, 1, copy.read[t])

SummaryAddsUp(rs) ==
    LET s == ExcelSummary(rs)
        failed == FailedSheet(rs)
        skips == SkippedSheet(rs) \cup QuarantinedSheet(rs)
    IN /\ s.failed = Cardinality(failed)
       /\ failed = {i \in DOMAIN rs : StatusColumn(rs[i]) = "Fail"}
       /\ skips = {i \in DOMAIN rs : StatusColumn(rs[i]) = "Skipped"}
       /\ SkippedSheet(rs) \cap QuarantinedSheet(rs) = {}

ScoreAddsUp(rs) ==
    LET summary == computeReportSummary(rs) IN
    summary.healthScore \in 0 .. 100 /\ (summary.open = 0 => summary.healthScore = 100)

\* The copy is not from before the last request: its status is one the run has had since, and no
\* result that was saved then is missing.
UpToDate(copy) ==
    /\ copy.status \in had
    /\ \A i \in DOMAIN Tables(kind) : copy.read[Tables(kind)[i]] >= savedThen[Tables(kind)[i]]

\* Whatever is requested while a run is executed, cancelled, fails after it completed or is executed
\* anew, and whatever earlier requests left behind by dying or overlapping: a report that calls its
\* run completed has all of its results, its sheets and counts agree, and a row never points to
\* nothing; once the last request ran alone to its end, the stored file is whole again and shows
\* the run as it was since that request began (GenerateReportUseCase and its three siblings,
\* LocalFilesystemObjectStorage.put, ExcelQaAutomationReportGenerator). A file that an overlap or a
\* dying request damaged stays so until then.
ReportIsHonest ==
    /\ row => file.is # "missing"
    /\ file.is = "whole" =>
          /\ file.status = "completed" => Whole(file.read)
          /\ kind = "qa" => SummaryAddsUp(RowsOf(file, "results"))
          /\ kind = "scan" => ScoreAddsUp(RowsOf(file, "findings"))
    /\ had # {} /\ (\A q \in Requests : gen[q] = Idle) =>
          row /\ file.is = "whole" /\ UpToDate(file)

(* What makes it so (proved in Services_proofs). A run's tables only grow, and are complete when  *)
(* it is called so, whatever it is called later; a request that read "completed" has all it read  *)
(* since; while requests do not overlap and none fails, what the one request has read, and the    *)
(* file it leaves, is not older than its beginning.                                              *)

Statuses == {"running", "completed", "failed", "cancelled"}
Copies == [DOMAIN Nothing -> 0 .. Len(plan)]

TypeOK ==
    /\ kind \in DOMAIN RunRows /\ plan \in RunRows[kind]
    /\ status \in Statuses /\ saved \in Copies
    /\ exec \in {"starting", "running", "cleanup", "over"}
    /\ gen \in [Requests -> [at : {"idle", "read", "put", "write", "create"},
                             next : 1 .. Len(Reads(kind)) + 1,
                             status : Statuses \cup {None}, read : Copies]]
    /\ file \in [is : {"missing", "damaged", "whole"}, status : Statuses \cup {None}, read : Copies]
    /\ row \in BOOLEAN
    /\ had \subseteq Statuses /\ savedThen \in Copies
    /\ redeliveries \in Nat /\ faults \in Nat

\* createMany leaves no table half written
WholeTables == kind \in {"unit", "coverage"} => \A t \in DOMAIN saved : saved[t] \in {0, Len(plan)}

RequestSoFar(q) ==
    LET g == gen[q] IN
    /\ g.at = "idle" => g = Idle
    /\ g.at = "read" <=> g.at # "idle" /\ g.next <= Len(Reads(kind))
    /\ g.next = 1 <=> g.status = None
    /\ g.status = "completed" =>
          Whole(saved) /\ \A i \in 2 .. g.next - 1 : g.read[Reads(kind)[i]] = Len(plan)
    /\ g.at \in {"write", "create"} => file.is # "missing"

CompletedIsSaved == /\ status = "completed" => Whole(saved)
                    /\ file.is = "whole" /\ file.status = "completed" => Whole(file.read)

\* no other request is in flight
Alone(q) == \A other \in Requests \ {q} : gen[other].at = "idle"

UndisturbedSoFar ==
    had # {} =>
        /\ status \in had
        /\ \A q \in Requests : gen[q].at # "idle" =>
              /\ Alone(q)
              /\ gen[q].next > 1 => gen[q].status \in had
              /\ \A i \in 2 .. gen[q].next - 1 :
                    gen[q].read[Reads(kind)[i]] >= savedThen[Reads(kind)[i]]
        /\ \A q \in Requests : gen[q].at = "create" => file.is = "whole" /\ UpToDate(file)
        /\ (\A q \in Requests : gen[q].at = "idle") =>
              row /\ file.is = "whole" /\ UpToDate(file)

\* what was saved when the last request began is saved
NothingUnsaved == \A t \in DOMAIN Nothing : savedThen[t] <= saved[t]

ReportsInv == /\ TypeOK /\ WholeTables /\ CompletedIsSaved /\ (row => file.is # "missing")
              /\ (\A q \in Requests : RequestSoFar(q)) /\ NothingUnsaved
              /\ UndisturbedSoFar
=============================================================================
