--------------------------- MODULE StagingSuite ---------------------------
(* One run of PytestStagingTestRunner: clone and install, then pytest once per *)
(* batch as a subprocess with a timeout, each batch read back from the JUnit   *)
(* report or, when pytest ended without one, from its report log.              *)
EXTENDS Integers, Sequences, FiniteSets, SequencesExt

CONSTANTS SubBatches,    \* BATCH1_SUB_BATCHES: a sequence of sequences of tests
          PanelAdmin,    \* the tests of PANELADMIN_FILE, in order
          Quarantined,   \* QUARANTINED_BATCH1_TESTS: deselected, never run
          Requested      \* onlyTestNames of a rerun, in order

VARIABLES mode,      \* "full", "skip1" (STAGING_SKIP_BATCH_1), "only" (STAGING_ONLY_PATH), "rerun"
          pc,        \* where runSuite is
          plan,      \* the batches to run
          batch,     \* the one being run
          proc,      \* its pytest process
          at,        \* the test pytest is executing, an index into plan[batch]
          ran,       \* what pytest observed of each phase of each test
          log,       \* report-log lines on disk: pairs of test and phase
          last,      \* the line written last: the one a kill may cut
          junit,     \* the JUnit report of the batch
          garbled,   \* batches whose JUnit report was cut by a kill
          results,   \* StagingTestResult rows collected
          progress   \* the last percentage reported

vars == <<mode, pc, plan, batch, proc, at, ran, log, last, junit, garbled, results, progress>>
pytest == <<at, ran, log, last, junit>>

Steps == <<"clone", "resolve", "pip", "dotenv", "browser", "batch">>
When == {"setup", "call", "teardown"}
Outcomes == {"passed", "failed", "skipped"}
Verdicts == {"passed", "failed", "skipped"}
AllTests == UNION {ToSet(s) : s \in ToSet(SubBatches)} \union ToSet(PanelAdmin) \union ToSet(Requested)
NoLine == <<>>
Row(t, v, source) == [test |-> t, verdict |-> v, via |-> source]
Stubs == {Row(q, "skipped", "stub") : q \in Quarantined}

PlanOf(m) == CASE m = "full" -> SubBatches \o <<PanelAdmin>>
               [] m = "skip1" -> <<PanelAdmin>>
               [] m = "only" -> <<SubBatches[1]>>
               [] m = "rerun" -> <<>>

\* No two batches collect the same test, and neither they nor a rerun a deselected one.
SuiteAssumption ==
    /\ SubBatches \in Seq(Seq(AllTests)) /\ SubBatches # <<>>
    /\ PanelAdmin \in Seq(AllTests) /\ Requested \in Seq(AllTests)
    /\ AllTests \intersect Quarantined = {}
    /\ \A b \in DOMAIN SubBatches :
         /\ ToSet(SubBatches[b]) \intersect ToSet(PanelAdmin) = {}
         /\ \A d \in DOMAIN SubBatches \ {b} :
              ToSet(SubBatches[b]) \intersect ToSet(SubBatches[d]) = {}

TypeOK == /\ mode \in {"full", "skip1", "only", "rerun"}
          /\ pc \in ToSet(Steps) \union {"returned", "threw", "untidy"}
          /\ batch \in 1 .. Len(plan) + 1 /\ at \in Nat \ {0}
          /\ proc \in {"none", "running", "ended"}
          /\ ran \in [AllTests -> [When -> Outcomes \union {"none"}]]
          /\ log \subseteq AllTests \X When /\ last \in log \union {NoLine}
          /\ junit \in {"absent", "cut", "whole"} /\ garbled \subseteq Nat
          /\ \A r \in results : r.verdict \in Verdicts /\ r.via \in {"junit", "log", "stub"}
          /\ progress \in 0 .. 100

Init == /\ mode \in {"full", "skip1", "only", "rerun"}
        /\ plan = PlanOf(mode)
        /\ pc = "clone" /\ batch = 1 /\ proc = "none" /\ at = 1
        /\ ran = [t \in AllTests |-> [w \in When |-> "none"]]
        /\ log = {} /\ last = NoLine /\ junit = "absent"
        /\ garbled = {} /\ results = {} /\ progress = 0

-----------------------------------------------------------------------------
(* runSuite before the batches: no step has a timeout, each may fail          *)

\* requireZeroExit: a step that exits non-zero, or cannot be spawned, ends the run
SetupStep(ok) ==
    /\ pc \in {"clone", "pip", "dotenv", "browser"}
    /\ pc' = IF ok THEN Steps[1 + CHOOSE i \in 1 .. 5 : Steps[i] = pc] ELSE "threw"
    /\ UNCHANGED <<mode, plan, batch, proc, pytest, garbled, results, progress>>

\* resolveOnlyTestNames: only names with exactly one definition survive, in their order (so
\* this is a set of one). A directory or file that cannot be read counts as holding none.
ResolveOnlyTestNames(definitions) ==
    LET found == {i \in DOMAIN Requested : definitions[Requested[i]] = 1}
        order == {s \in SeqOf(found, Len(Requested)) :
                    ToSet(s) = found /\ \A i, j \in DOMAIN s : i < j => s[i] < s[j]}
    IN {[k \in DOMAIN s |-> Requested[s[k]]] : s \in order}

Resolve ==
    /\ pc = "resolve"
    /\ IF mode # "rerun"
       THEN pc' = "pip" /\ plan' = plan
       ELSE \E definitions \in [ToSet(Requested) -> 0 .. 2] :
              \E ids \in ResolveOnlyTestNames(definitions) :
                IF ids = <<>> THEN pc' = "threw" /\ plan' = plan
                              ELSE pc' = "pip" /\ plan' = <<ids>>
    /\ UNCHANGED <<mode, batch, proc, pytest, garbled, results, progress>>

-----------------------------------------------------------------------------
(* pytest, and what it leaves on disk                                          *)

\* runPytest -> runSubprocess
StartPytest ==
    /\ pc = "batch" /\ proc = "none"
    /\ proc' = "running" /\ at' = 1 /\ junit' = "absent" /\ last' = NoLine
    /\ UNCHANGED <<mode, pc, plan, batch, ran, log, garbled, results, progress>>

\* the phase pytest runs next for t: a body only after a setup that passed, a teardown always
NextPhase(t) == IF ran[t]["setup"] = "none" THEN "setup"
                ELSE IF ran[t]["setup"] = "passed" /\ ran[t]["call"] = "none" THEN "call"
                ELSE "teardown"

\* Math.round(a / b)
Round(a, b) == (2 * a + b) \div (2 * b)

\* the share of the run a batch's own percentage stands for
Overall(b, percent) ==
    IF mode # "full" THEN percent
    ELSE IF b <= Len(SubBatches)
         THEN Round(79 * (100 * (b - 1) + percent), 100 * Len(SubBatches))
         ELSE 79 + Round(21 * percent, 100)

\* one phase of the current test ends; its report-log line is flushed at once, and
\* after the last phase -v prints the percentage makePercentTracker picks up
Phase(outcome) ==
    LET t == plan[batch][at]
        w == NextPhase(t) IN
      /\ proc = "running" /\ at <= Len(plan[batch])
      /\ w = "teardown" => outcome # "skipped"
      /\ ran' = [ran EXCEPT ![t][w] = outcome]
      /\ log' = log \union {<<t, w>>} /\ last' = <<t, w>>
      /\ at' = IF w = "teardown" THEN at + 1 ELSE at
      /\ progress' = IF w = "teardown"
                     THEN Overall(batch, (100 * at) \div Len(plan[batch])) ELSE progress
      /\ UNCHANGED <<mode, pc, plan, batch, proc, junit, garbled, results>>

\* the report is written in one go when the session is over, and then pytest exits
WriteJunit ==
    /\ proc = "running" /\ at > Len(plan[batch])
    /\ \/ junit = "absent" /\ junit' = "cut" /\ proc' = proc
       \/ junit = "cut" /\ junit' = "whole" /\ proc' = "ended"
    /\ UNCHANGED <<mode, pc, plan, batch, at, ran, log, last, garbled, results, progress>>

\* The process is gone before its session is over: it crashed, or the timer of
\* runSubprocess fired and the whole process group was killed. Either way runPytest
\* returns normally. The line being written may be cut.
Ended(cut) ==
    /\ proc = "running"
    /\ proc' = "ended" /\ last' = NoLine
    /\ log' = IF cut THEN log \ {last} ELSE log
    /\ garbled' = IF junit = "cut" THEN garbled \union {batch} ELSE garbled
    /\ UNCHANGED <<mode, pc, plan, batch, at, ran, junit, results, progress>>

PytestCrashes == \E cut \in BOOLEAN : Ended(cut)
TimerFires == \E cut \in BOOLEAN : Ended(cut)

-----------------------------------------------------------------------------
(* reading a batch back                                                        *)

\* what the log on disk says of a phase
Logged(t, w) == IF <<t, w>> \in log THEN ran[t][w] ELSE "none"

LogVerdictGuessed(t) ==               \* Mutant: a test that was set up counts as run
    IF Logged(t, "call") = "failed" \/ Logged(t, "setup") = "failed" THEN "failed"
    ELSE IF "skipped" \in {Logged(t, "setup"), Logged(t, "call")} THEN "skipped"
    ELSE IF Logged(t, "setup") = "passed" THEN "passed" ELSE "none"

\* parseReportLog: a test whose body never reported was in flight; it gets no row
LogVerdict(t) ==
    IF Logged(t, "call") = "failed" \/ Logged(t, "setup") = "failed" THEN "failed"
    ELSE IF "skipped" \in {Logged(t, "setup"), Logged(t, "call")} THEN "skipped"
    ELSE IF Logged(t, "call") = "passed" THEN "passed" ELSE "none"

ParseReportLog(tests) ==
    {Row(t, LogVerdict(t), "log") : t \in {u \in tests : LogVerdict(u) # "none"}}

\* the elements of a test's <testcase>s: pytest opens a second one for a teardown that
\* fails after a failed body
JunitCases(t) ==
    LET failure == IF ran[t]["call"] = "failed" THEN {"failure"} ELSE {}
        error == IF "failed" \in {ran[t]["setup"], ran[t]["teardown"]} THEN {"error"} ELSE {}
        skipped == IF "skipped" \in {ran[t]["setup"], ran[t]["call"]} THEN {"skipped"} ELSE {}
    IN IF failure # {} THEN {failure} \union {e \in {error} : e # {}} ELSE {error \union skipped}

\* parseJunitXml: failure, then error, then skipped, then pass
CaseVerdict(case) == IF case \intersect {"failure", "error"} # {} THEN "failed"
                     ELSE IF "skipped" \in case THEN "skipped" ELSE "passed"

ParseJunitXml(tests) ==
    UNION {{Row(t, CaseVerdict(c), "junit") : c \in JunitCases(t)} : t \in tests}

\* after a batch: the stubs of quarantined tests, then the next batch or the end. The rm of the
\* finally may fail ("untidy"): it throws in the place of what was to be returned.
BatchOver(rows) ==
    LET stubs == IF mode = "full" /\ batch = Len(SubBatches) THEN Stubs ELSE {}
    IN /\ results' = results \union rows \union stubs
       /\ batch' = batch + 1
       /\ pc' \in IF batch < Len(plan) THEN {"batch"}
                  ELSE IF results' = {} THEN {"threw"} ELSE {"returned", "untidy"}

BatchThrowsUncaught ==                \* Mutant: one lost batch ends the run
    pc' = "threw" /\ batch' = batch + 1 /\ results' = {}

\* runBatch throws: caught in a normal run, the end of a rerun or of an isolated run, and of
\* what it has collected
BatchThrows ==
    IF mode \in {"full", "skip1"} THEN BatchOver({})
    ELSE pc' = "threw" /\ batch' = batch + 1 /\ results' = {}

\* xvfb-run cannot be spawned
SpawnFails ==
    /\ pc = "batch" /\ proc = "none"
    /\ BatchThrows
    /\ UNCHANGED <<mode, plan, proc, pytest, garbled, progress>>

\* The row of a testcase the report was cut in: its elements may be missing.
CutRow(t, part) == Row(t, CaseVerdict(part), "junit")

\* runBatch: the JUnit report if there is one, else whatever the log holds. What a parser makes
\* of a report that was cut is an error, or a part of it and perhaps the testcase it was cut in.
ReadReport ==
    LET tests == ToSet(plan[batch])
        recovered == ParseReportLog(tests) IN
      /\ pc = "batch" /\ proc = "ended"
      /\ \/ junit = "whole" /\ BatchOver(ParseJunitXml(tests))
         \/ junit = "cut" /\ \E rows \in SUBSET ParseJunitXml(tests) :
              \/ BatchOver(rows)
              \/ \E t \in tests : \E case \in JunitCases(t) : \E part \in SUBSET case :
                   BatchOver(rows \union {CutRow(t, part)})
         \/ junit = "cut" /\ BatchThrows
         \/ junit = "absent" /\ recovered # {} /\ BatchOver(recovered)
         \/ junit = "absent" /\ recovered = {} /\ BatchThrows
      /\ proc' = "none"
      /\ UNCHANGED <<mode, plan, pytest, garbled, progress>>

Next == \/ \E ok \in BOOLEAN : SetupStep(ok)
        \/ Resolve \/ StartPytest \/ SpawnFails
        \/ \E o \in Outcomes : Phase(o)
        \/ WriteJunit \/ PytestCrashes \/ TimerFires \/ ReadReport

\* Node goes on after each await, and its timer fires; pytest owes nothing
Fairness == WF_vars(StartPytest \/ SpawnFails \/ TimerFires \/ ReadReport)

Spec == Init /\ [][Next]_vars /\ Fairness

-----------------------------------------------------------------------------
Over == pc \in {"returned", "threw", "untidy"}

\* pytest observed what the row says.
IsTrue(r) ==
    /\ r.via = "stub" <=> r.test \in Quarantined
    /\ r.via # "stub" =>
         /\ r.verdict = "passed" => ran[r.test]["setup"] = "passed" /\ ran[r.test]["call"] = "passed"
         /\ r.verdict = "failed" => \E w \in When : ran[r.test][w] = "failed"
         /\ r.verdict = "skipped" => "skipped" \in {ran[r.test]["setup"], ran[r.test]["call"]}

\* pytest was killed while it wrote the report, between a <testcase> and what it was to say of
\* it: the parser takes a testcase with nothing in it for a pass. It is the one row of its batch
\* that is not true.
CutShort(r) ==
    \E b \in DOMAIN plan \intersect garbled :
      /\ r.via = "junit" /\ r.verdict = "passed" /\ r.test \in ToSet(plan[b])
      /\ \A s \in results : s.test \in ToSet(plan[b]) => s = r \/ IsTrue(s)

\* A row says what pytest observed: nobody passes whose body did not, nobody fails in whom
\* nothing failed, and the test in flight when pytest is killed gets no verdict; except that
\* a JUnit report that was cut may pass one test that did not.
RowsAreTrue == \A r \in results : IsTrue(r) \/ CutShort(r)

\* However a batch ends, a verdict that reached the disk reaches the results, and no other batch
\* costs it; except when pytest is killed while it writes the JUnit report, and when the work
\* directory cannot be removed, which costs them all.
NothingFlushedIsLost ==
    Over /\ pc # "untidy" =>
      \A b \in 1 .. Len(plan) \ garbled : \A t \in ToSet(plan[b]) :
        LogVerdict(t) # "none" => \E r \in results : r.test = t

-----------------------------------------------------------------------------
(* The inductive invariant behind RowsAreTrue and NothingFlushedIsLost          *)

\* The batches to run: of different tests; an isolated run or a rerun is one batch, a full run
\* all of them.
PlanOK == /\ plan \in Seq(Seq(AllTests))
          /\ \A b, d \in DOMAIN plan : b # d => ToSet(plan[b]) \intersect ToSet(plan[d]) = {}
          /\ mode \in {"only", "rerun"} => Len(plan) <= 1
          /\ mode = "full" => Len(plan) = Len(SubBatches) + 1

\* pytest runs only while runSuite is at a batch, and a run is over after its last one or
\* before anything was logged.
InTurn == /\ pc \notin {"batch", "returned", "threw", "untidy"} => batch = 1 /\ results = {}
          /\ plan = <<>> => mode = "rerun" /\ pc \in {"clone", "resolve", "threw"}
          /\ pc = "batch" => batch <= Len(plan)
          /\ pc \in {"returned", "untidy"} => batch > Len(plan)
          /\ pc = "threw" => batch > Len(plan) \/ log = {}
          /\ proc # "none" => pc = "batch"

\* What pytest observed of a test it is done with, and of the batch it runs.
Executed(t) == /\ ran[t]["setup"] # "none"
               /\ ran[t]["setup"] = "passed" => ran[t]["call"] # "none"

BatchObserved ==
    /\ \A t \in AllTests : ran[t]["call"] # "none" => ran[t]["setup"] = "passed"
    /\ proc # "none" =>
         /\ \A i \in DOMAIN plan[batch] : i < at => Executed(plan[batch][i])
         /\ junit # "absent" => at > Len(plan[batch])
         /\ last # NoLine => last[1] \in ToSet(plan[batch])
         /\ junit = "cut" /\ proc = "ended" => batch \in garbled

\* The log holds lines of batches that have begun, the results rows of batches that are over.
LogSoFar == \A l \in log : \E b \in DOMAIN plan :
              /\ l[1] \in ToSet(plan[b])
              /\ b < batch \/ (b = batch /\ proc # "none")

RowsSoFar == \A r \in results :
               r.via # "stub" => \E b \in DOMAIN plan : b < batch /\ r.test \in ToSet(plan[b])

\* A batch that is over has its verdicts among the results.
Collected == \A b \in DOMAIN plan : b < batch /\ b \notin garbled =>
               \A t \in ToSet(plan[b]) : LogVerdict(t) # "none" => \E r \in results : r.test = t

IInv == TypeOK /\ PlanOK /\ InTurn /\ BatchObserved /\ LogSoFar /\ RowsSoFar /\ Collected
        /\ RowsAreTrue

\* Whatever pytest does - hang, crash, never start - a run that got as far as its
\* batches ends.
SuiteEnds == pc = "batch" ~> Over

\* docs/adr/0053: "Only if both batches produce zero results does the run fail outright."
FailsWithoutResults ==
    pc = "returned" => \E r \in results : r.via # "stub"
=============================================================================
