--------------------------- MODULE UnitTestEngine ---------------------------
(* runUnitTestGeneration, run after run, over one checkout on a developer's     *)
(* machine: what it leaves under "Unit tests/<generator>/", how often it calls  *)
(* the model, and the developer who goes on editing meanwhile. A run may stop    *)
(* anywhere (the worker process dies); the next one finds what it left.          *)
EXTENDS Naturals, Sequences, SequencesExt, FiniteSets

CONSTANTS Files,          \* source files of the target directory, in the order of the walk
          Typed,          \* those of them in TypeScript
          Cap,            \* MAX_DISCOVERED_FILES
          MaxAttempts,    \* DEFAULT_MAX_ATTEMPTS of withGeminiRetry
          MaxRuns,        \* bound: runs
          MaxEdits        \* bound: edits of the developer

VARIABLES tree,        \* tree[f]: "absent", "plain" or "functions": what f exports
          edits,
          jest,        \* what the checkout has: "none", its "own", or what was installed:
          babel,       \*   "alone" or "presets"; and whether babel.config.cjs was written
          disk,        \* disk[g][f]: the run whose test of f is on disk, 0 if none
          report,      \* report[g][t]: the local execution report of target t
          clock,       \* runs so far: the number of the current one
          gen, target, \* its generator and target
          byName,      \* target.functionName is given
          pc,          \* where it is
          todo,        \* files not visited yet
          attempt,     \* of the model, for the first of them
          calls,       \* generateContent calls of this run
          written,     \* generatedFiles
          cancelled    \* options.signal.aborted

vars == <<tree, edits, jest, babel, disk, report, clock, gen, target, byName, pc, todo, attempt,
          calls, written, cancelled>>
checkout == <<tree, edits, jest, babel>>
run == <<clock, gen, target, byName>>

Gens == {"gemini", "script"}
Sources == ToSet(Files)
Directory == "directory"
Targets == Sources \union {Directory}
NoReport == [run |-> 0, names |-> {}]

\* 15 files and 3 attempts in the code
UnitAssumption == Files \in Seq(Sources) /\ Cap \in Nat \ {0} /\ MaxAttempts \in Nat \ {0}

UnitTypeOK ==
    /\ tree \in [Sources -> {"absent", "plain", "functions"}] /\ edits \in Nat
    /\ jest \in {"none", "own", "alone", "presets"} /\ babel \in BOOLEAN
    /\ disk \in [Gens -> [Sources -> Nat]]
    /\ report \in [Gens -> [Targets -> [run : Nat, names : SUBSET Sources]]]
    /\ clock \in Nat /\ gen \in Gens /\ target \in Targets /\ byName \in BOOLEAN
    /\ pc \in {"idle", "clear", "next", "generate", "backoff", "jest", "install", "config", "run",
                "report"}
    /\ todo \in Seq(Sources) /\ attempt \in Nat /\ calls \in Nat
    /\ written \subseteq Sources /\ cancelled \in BOOLEAN

UnitInit == /\ tree \in [Sources -> {"plain", "functions"}] /\ edits = 0
        /\ jest \in {"none", "own"} /\ babel = FALSE
        /\ disk = [g \in Gens |-> [f \in Sources |-> 0]]
        /\ report = [g \in Gens |-> [t \in Targets |-> NoReport]]
        /\ clock = 0 /\ gen = "gemini" /\ target = Directory /\ byName = FALSE
        /\ pc = "idle" /\ todo = <<>> /\ attempt = 0 /\ calls = 0
        /\ written = {} /\ cancelled = FALSE

-----------------------------------------------------------------------------
(* the developer, the user, the machine                                        *)

Edit(f, content) ==
    /\ edits < MaxEdits /\ tree[f] # content
    /\ tree' = [tree EXCEPT ![f] = content] /\ edits' = edits + 1
    /\ UNCHANGED <<jest, babel, disk, report, run, pc, todo, attempt, calls, written,
                   cancelled>>

\* the cancel poll of RunUnitTestGenerationUseCase aborts the signal
Abort ==
    /\ pc # "idle" /\ ~cancelled
    /\ cancelled' = TRUE
    /\ UNCHANGED <<checkout, disk, report, run, pc, todo, attempt, calls, written>>

Dies ==
    /\ pc # "idle" /\ pc' = "idle"
    /\ UNCHANGED <<checkout, disk, report, run, todo, attempt, calls, written, cancelled>>

-----------------------------------------------------------------------------
(* discovery, and clearing the output of an earlier run                        *)

\* what the walk has found after n files: it stops at the cap
Found[n \in 0 .. Len(Files)] ==
    IF n = 0 THEN <<>>
    ELSE IF tree[Files[n]] # "absent" /\ Len(Found[n - 1]) < Cap
         THEN Append(Found[n - 1], Files[n])
         ELSE Found[n - 1]

\* a directory's files in sorted order, at most Cap of them; a file is itself
DiscoverSourceFiles(t) == IF t = Directory THEN Found[Len(Files)] ELSE <<t>>

\* discoverSourceFiles throws when the path is not there, and a functionName wants a
\* single file; both before anything is touched
Begin(g, t, function) ==
    /\ pc = "idle" /\ clock < MaxRuns
    /\ clock' = clock + 1 /\ gen' = g /\ target' = t /\ byName' = function
    /\ calls' = 0 /\ attempt' = 0 /\ written' = {} /\ cancelled' = FALSE
    /\ LET found == DiscoverSourceFiles(t) IN
         IF (t # Directory /\ tree[t] = "absent") \/ (function /\ Len(found) # 1)
         THEN pc' = "idle" /\ todo' = <<>>
         ELSE pc' = "clear" /\ todo' = found
    /\ UNCHANGED <<checkout, disk, report>>

ClearNothing ==                       \* Mutant: only the files of this run are overwritten
    /\ pc = "clear" /\ pc' = "next"
    /\ UNCHANGED <<checkout, disk, report, run, todo, attempt, calls, written, cancelled>>

\* rm(join(repoRoot, baseDir, target.path)): for a directory everything in it, for a file
\* only its execution report - the test is next to that directory, not in it
Clear ==
    /\ pc = "clear" /\ pc' = "next"
    /\ disk' = IF target = Directory THEN [disk EXCEPT ![gen] = [f \in Sources |-> 0]] ELSE disk
    /\ report' = [report EXCEPT ![gen] =
                    [t \in Targets |-> IF target \in {t, Directory} THEN NoReport ELSE @[t]]]
    /\ UNCHANGED <<checkout, run, todo, attempt, calls, written, cancelled>>

-----------------------------------------------------------------------------
(* one file after the other                                                    *)

\* extractExportedFunctions: some, none, or - asked for one by name - FunctionNotFoundError
Extracted(f) == IF byName THEN {"throws"} \union (IF tree[f] = "functions" THEN {"some"} ELSE {})
                ELSE {IF tree[f] = "functions" THEN "some" ELSE "none"}

\* the head of the loop: an abort is noticed here and nowhere else. A file deleted since
\* it was discovered cannot be read.
NextFile ==
    /\ pc = "next"
    /\ IF cancelled \/ todo = <<>> THEN pc' = "jest" /\ UNCHANGED <<todo, attempt, calls>>
       ELSE \E found \in IF tree[todo[1]] = "absent" THEN {"throws"} ELSE Extracted(todo[1]) :
              /\ pc' = CASE found = "throws" -> "idle" [] found = "none" -> "next"
                         [] found = "some" -> "generate"
              /\ todo' = IF found = "none" THEN Tail(todo) ELSE todo
              /\ attempt' = IF found = "some" THEN 1 ELSE attempt
              /\ calls' = IF found = "some" /\ gen = "gemini" THEN calls + 1 ELSE calls
    /\ UNCHANGED <<checkout, disk, report, run, written, cancelled>>

\* the model overloaded (429, 500, 503): withGeminiRetry waits and asks again
Retryable ==
    /\ pc = "generate" /\ gen = "gemini"
    /\ pc' = IF attempt >= MaxAttempts THEN "idle" ELSE "backoff"
    /\ UNCHANGED <<checkout, disk, report, run, todo, attempt, calls, written, cancelled>>

Backoff ==
    /\ pc = "backoff" /\ pc' = "generate"
    /\ attempt' = attempt + 1 /\ calls' = calls + 1
    /\ UNCHANGED <<checkout, disk, report, run, todo, written, cancelled>>

\* an empty answer, any other error, a write that fails
Fail ==
    /\ pc = "generate" /\ pc' = "idle"
    /\ UNCHANGED <<checkout, disk, report, run, todo, attempt, calls, written, cancelled>>

\* generateAndWriteTestFor
Write ==
    /\ pc = "generate" /\ pc' = "next"
    /\ disk' = [disk EXCEPT ![gen][todo[1]] = clock]
    /\ written' = written \union {todo[1]} /\ todo' = Tail(todo)
    /\ UNCHANGED <<checkout, report, run, attempt, calls, cancelled>>

-----------------------------------------------------------------------------
(* jest, once over everything written, and the local report                    *)

NeedsTypeScriptTransform == written \intersect Typed # {}

\* runJestOrEmpty, and ensureJestAvailable when there is something to run: a jest that is
\* there is taken as it is
StartJest ==
    /\ pc = "jest"
    /\ pc' = IF cancelled \/ written = {} THEN "report"
             ELSE IF jest # "none" THEN "run" ELSE "install"
    /\ UNCHANGED <<checkout, disk, report, run, todo, attempt, calls, written, cancelled>>

\* npm install --save-dev, which may fail, or put jest where it is not looked for
Install(outcome) ==
    /\ pc = "install"
    /\ jest' = IF outcome # "resolvable" THEN jest
               ELSE IF NeedsTypeScriptTransform THEN "presets" ELSE "alone"
    /\ pc' = IF outcome # "fails" /\ NeedsTypeScriptTransform THEN "config"
             ELSE IF outcome = "resolvable" THEN "run" ELSE "idle"
    /\ UNCHANGED <<tree, edits, babel, disk, report, run, todo, attempt, calls, written,
                   cancelled>>

\* unless there is one; only then is it looked whether jest can be found
WriteBabelConfig ==
    /\ pc = "config" /\ babel' = TRUE
    /\ pc' = IF jest = "none" THEN "idle" ELSE "run"
    /\ UNCHANGED <<tree, edits, jest, disk, report, run, todo, attempt, calls, written,
                   cancelled>>

\* a jest installed here loads a TypeScript suite with the presets and the config only
Loads(f) == f \in Typed /\ jest # "own" => jest = "presets" /\ babel

\* runJest: no report, or NoTestsFoundError when not one suite could be loaded; suites may
\* fail to load for reasons of their own
RunJest(loaded) ==
    /\ pc = "run" /\ loaded \subseteq {f \in written : Loads(f)}
    /\ pc' = IF loaded = {} THEN "idle" ELSE "report"
    /\ UNCHANGED <<checkout, disk, report, run, todo, attempt, calls, written, cancelled>>

\* writeLocalExecutionReport, and the result is returned
Report ==
    /\ pc = "report" /\ pc' = "idle"
    /\ report' = IF cancelled THEN report
                 ELSE [report EXCEPT ![gen][target] = [run |-> clock, names |-> written]]
    /\ UNCHANGED <<checkout, disk, run, todo, attempt, calls, written, cancelled>>

UnitNext ==
    \/ \E f \in Sources, c \in {"absent", "plain", "functions"} : Edit(f, c)
    \/ Abort \/ Dies
    \/ \E g \in Gens, t \in Targets, function \in BOOLEAN : Begin(g, t, function)
    \/ Clear \/ NextFile \/ Retryable \/ Backoff \/ Fail \/ Write
    \/ StartJest \/ \E o \in {"resolvable", "elsewhere", "fails"} : Install(o)
    \/ WriteBabelConfig \/ \E loaded \in SUBSET Sources : RunJest(loaded)
    \/ Report

UnitSpec == UnitInit /\ [][UnitNext]_vars

-----------------------------------------------------------------------------
\* As long as the report of a run over the directory is there, every test it names is there
\* too, and nothing under the directory is left from before that run: not for a source
\* renamed or deleted since, not from a run that was cancelled, failed or killed half-way.
FreshOutput ==
    \A g \in Gens : LET last == report[g][Directory] IN
      last.run > 0 => \A f \in Sources :
        /\ f \in last.names => disk[g][f] >= last.run
        /\ disk[g][f] # 0 => disk[g][f] >= last.run

\* "An LLM call per file means an unbounded folder is an unbounded bill": whatever the
\* model answers, a run calls it at most so often.
BillIsBounded == calls <= MaxAttempts * Cap

\* What the two rest on. Nothing is of a run to come; a run over the directory finds nothing
\* there but its own, and has everything it lists.
OutputSoFar ==
    /\ \A g \in Gens : /\ \A f \in Sources : disk[g][f] <= clock
                       /\ report[g][Directory].run <= clock
    /\ pc = "clear" => written = {}
    /\ target = Directory /\ pc \notin {"idle", "clear"} =>
         \A f \in Sources : IF f \in written THEN disk[gen][f] = clock
                                              ELSE disk[gen][f] \in {0, clock}

\* The files ahead can be paid for: MaxAttempts calls each, and the current one has its left.
BillSoFar ==
    /\ pc \in {"clear", "next"} => calls + MaxAttempts * Len(todo) <= MaxAttempts * Cap
    /\ pc \in {"generate", "backoff"} =>
         /\ todo # <<>> /\ attempt <= MaxAttempts
         /\ pc = "backoff" => attempt < MaxAttempts
         /\ calls + MaxAttempts * Len(todo) <= MaxAttempts * Cap + attempt

UnitInv == UnitTypeOK /\ OutputSoFar /\ FreshOutput /\ BillSoFar /\ BillIsBounded

\* A model that answers every call, if only with errors, does not hold a run, and does not
\* cost it more than that.
RetriesEnd == /\ (pc = "backoff") ~> (pc \notin {"generate", "backoff"})
              /\ []BillIsBounded
=============================================================================
