----------------------------- MODULE MCEngines -----------------------------
(* The engines a worker runs inside one run - the plugins of a scan, a staging  *)
(* suite, test generation, what it extracts of a file, the coverage gate - in    *)
(* one model: a behaviour is of the engine its first state names.               *)
EXTENDS PluginRuntime, CoverageGate, TLC

CONSTANTS p1, p2, p3, lock, code,                                \* PluginRuntime
          SubBatches, PanelAdmin, Quarantined, Requested,        \* StagingSuite
          t1, t2,
          SourceFiles, Typed, Cap, MaxAttempts, MaxRuns, MaxEdits, \* UnitTestEngine
          Names, MaxStatements,                                  \* ExportedFunctions
          u1, u2, u3

VARIABLES engine,
          mode, stage, plan, batch, proc, at, ran, log, last, junit, garbled, results, percent,
          tree, edits, jest, babel, disk, report, clock, gen, target, byName, pc, todo, attempt,
          calls, written, cancelled,
          source, extracted, signatures

Staging == INSTANCE StagingSuite WITH pc <- stage, progress <- percent
Unit    == INSTANCE UnitTestEngine WITH Files <- SourceFiles
Extract == INSTANCE ExportedFunctions

plugins == vars
staging == <<mode, stage, plan, batch, proc, at, ran, log, last, junit, garbled, results, percent>>
unit    == <<tree, edits, jest, babel, disk, report, clock, gen, target, byName, pc, todo,
             attempt, calls, written, cancelled>>
gate    == gateVars
extract == <<source, extracted, signatures>>

\* what StagingSuite, UnitTestEngine and ExportedFunctions take for granted of their constants
ASSUME BatchesAssumption == Staging!SuiteAssumption
ASSUME GenerationAssumption == Unit!UnitAssumption
ASSUME IdentifiersAssumption == Extract!NamesAssumption
ASSUME GatePathsAssumption == PathsAssumption

\* one plugin without globs, one interested in code, one in lock files
MCGlobFiles == (p1 :> {}) @@ (p2 :> {code}) @@ (p3 :> {lock})
\* a sub-batch and the panel-admin file, a test each; a rerun of both
MCSubBatches == <<<<t1>>>>
MCPanelAdmin == <<t2>>
MCRequested == <<t1, t2>>
\* a file of sub/, when repoRoot is the top of the working tree, or is itself named sub
MCPaths == {<<"sub", "f.ts">>}
MCPrefixes == {<<>>, <<"sub">>}
\* one source file more than the cap
MCSourceFiles == <<u1, u2, u3>>

MCInit ==
    /\ engine \in {"plugins", "staging", "unit", "extract", "gate"}
    /\ Init
    /\ Staging!Init /\ (engine # "staging" => mode = "full")
    /\ Unit!UnitInit /\ (engine # "unit" => jest = "own" /\ \A f \in {u1, u2, u3} : tree[f] = "plain")
    /\ GateInit
    /\ engine # "gate" => /\ prefix = <<>> /\ tracked = Paths /\ eligible = {}
                          /\ \A f \in Paths : content[f] = <<>> /\ ~removed[f]
    /\ IF engine = "extract" THEN Extract!ExtractInit
       ELSE source = <<>> /\ extracted = FALSE /\ signatures = {}

MCNext ==
    \/ engine = "plugins" /\ Next /\ UNCHANGED <<engine, staging, unit, extract, gate>>
    \/ engine = "staging" /\ Staging!Next /\ UNCHANGED <<engine, plugins, unit, extract, gate>>
    \/ engine = "unit" /\ Unit!UnitNext /\ UNCHANGED <<engine, plugins, staging, extract, gate>>
    \/ engine = "extract" /\ Extract!ExtractExportedFunctions
          /\ UNCHANGED <<engine, plugins, staging, unit, gate>>
    \/ engine = "gate" /\ GateNext /\ UNCHANGED <<engine, plugins, staging, unit, extract>>

\* the fairness of the modules, each of its own engine
MCFairness ==
    /\ WF_plugins(engine = "plugins" /\ StartPlugins)
    /\ WF_plugins(engine = "plugins" /\ RunScanReturns)
    /\ \A p \in Plugins : /\ WF_plugins(engine = "plugins" /\ DeliverEvent(p))
                          /\ WF_plugins(engine = "plugins" /\ Timeout(p))
    /\ WF_staging(engine = "staging" /\ (\/ Staging!StartPytest \/ Staging!SpawnFails
                                         \/ Staging!TimerFires \/ Staging!ReadReport))
    /\ WF_unit(engine = "unit" /\ (Unit!Retryable \/ Unit!Fail \/ Unit!Write))
    /\ WF_unit(engine = "unit" /\ Unit!Backoff)

MCSpec == MCInit /\ [][MCNext]_<<engine, plugins, staging, unit, extract, gate>> /\ MCFairness

\* Whatever plugins, pytest and the model do, no engine is held for ever: runScan returns, a
\* suite that got to its batches ends, and retries come to an end at a bounded number of calls.
EnginesEnd == /\ engine = "plugins" => RunScanEnds
              /\ engine = "staging" => Staging!SuiteEnds
              /\ engine = "unit" => Unit!RetriesEnd

\* Rows, files and signatures, as StagingSuite, UnitTestEngine and ExportedFunctions state them.
RowsAreTrue == Staging!RowsAreTrue
NothingFlushedIsLost == Staging!NothingFlushedIsLost
FreshOutput == Unit!FreshOutput
SignaturesAreTheExports == Extract!SignaturesAreTheExports
=============================================================================
