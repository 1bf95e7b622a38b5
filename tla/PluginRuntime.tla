--------------------------- MODULE PluginRuntime ---------------------------
(***************************************************************************)
(* One call of the scan engine's runScan: every applicable plugin runs in  *)
(* a worker thread of its own (runIsolated), four events race to settle it *)
(* - a message from the thread, an 'error' event, the timeout, the abort   *)
(* of the scan's signal - and runScan returns when all have settled.       *)
(* Around it, the progress writes RunScanUseCase fires without awaiting.   *)
(*                                                                         *)
(* ScanRun takes this module as one step; here the caller is reduced to    *)
(* the AbortController, which the cancel poll may fire at any time after   *)
(* the "running" write - also during the checkout, before any plugin runs. *)
(***************************************************************************)
EXTENDS Naturals, FiniteSets

CONSTANTS Plugins,          \* the selected plugins
          Files,            \* files of the checkout
          GlobFiles,        \* GlobFiles[p]: the files plugin p's globs match
          WritesMayFail     \* bound: whether a progress write may fail

ASSUME PluginsAssumption == /\ IsFiniteSet(Plugins)
                            /\ GlobFiles \in [Plugins -> SUBSET Files]
                            /\ WritesMayFail \in BOOLEAN

Results == {"success", "error", "timeout", "aborted"}
Events  == {"none", "success", "error", "exit"}

VARIABLES
    phase,          \* "before" runScan, "running", "returned"
    applicable,     \* the plugins shouldRunPlugin kept
    aborted,        \* controller.signal.aborted
    listening,      \* listening[p]: p's 'abort' listener is registered
    timer,          \* timer[p]: p's timeout is armed
    thread,         \* thread[p]: "none", "alive", "ended" or "terminated"
    event,          \* event[p]: what the thread sent and the runtime has not handled
    result,         \* result[p]: what runIsolated resolved to, "none" before
    inflight,       \* progress writes not landed yet: 0 the total, n the n-th finish
    progress,       \* the row: pluginsTotal, pluginsCompleted (0 is null)
    late            \* ghost: a progress write failed, or landed after a later one

vars == <<phase, applicable, aborted, listening, timer, thread, event, result,
          inflight, progress, late>>

Settled == {p \in applicable : result[p] # "none"}

TypeOK ==
    /\ phase \in {"before", "running", "returned"}
    /\ applicable \in SUBSET Plugins
    /\ aborted \in BOOLEAN
    /\ listening \in [Plugins -> BOOLEAN]
    /\ timer \in [Plugins -> BOOLEAN]
    /\ thread \in [Plugins -> {"none", "alive", "ended", "terminated"}]
    /\ event \in [Plugins -> Events]
    /\ result \in [Plugins -> Results \cup {"none"}]
    /\ inflight \subseteq 0..Cardinality(Plugins)
    /\ progress \in [total : 0..Cardinality(Plugins), completed : 0..Cardinality(Plugins)]
    /\ late \in BOOLEAN

Init ==
    /\ phase = "before" /\ applicable = {} /\ aborted = FALSE
    /\ listening = [p \in Plugins |-> FALSE]
    /\ timer = [p \in Plugins |-> FALSE]
    /\ thread = [p \in Plugins |-> "none"]
    /\ event = [p \in Plugins |-> "none"]
    /\ result = [p \in Plugins |-> "none"]
    /\ inflight = {} /\ progress = [total |-> 0, completed |-> 0] /\ late = FALSE

\* target is {} for a full scan and {changedFiles} for an incremental one: a plugin
\* without globs and a full scan are never narrowed, else a changed file must match.
ShouldRun(p, target) ==
    \/ GlobFiles[p] = {}
    \/ target = {}
    \/ \E changedFiles \in target : GlobFiles[p] \cap changedFiles # {}

\* The synchronous part of runScan: Promise.all's map starts every applicable
\* plugin before anything else runs.  addEventListener on a signal that is
\* already aborted registers a listener that never fires.
StartPlugins ==
    /\ phase = "before"
    /\ \E target \in {{}} \cup {{changedFiles} : changedFiles \in SUBSET Files} :
         applicable' = {p \in Plugins : ShouldRun(p, target)}
    /\ phase' = "running"
    /\ listening' = [p \in Plugins |-> p \in applicable']
    /\ timer' = [p \in Plugins |-> p \in applicable']
    /\ thread' = [p \in Plugins |-> IF p \in applicable' THEN "alive" ELSE "none"]
    /\ inflight' = {0}
    /\ UNCHANGED <<aborted, event, result, progress, late>>

-----------------------------------------------------------------------------
(***************************************************************************)
(* worker-entry.ts, in the thread: the plugin's promise is answered by one *)
(* message; an exception outside it is an 'error' event; a process.exit in *)
(* the plugin ends the thread without either.  A plugin may also hang.     *)
(***************************************************************************)
PluginEnds(p) ==
    /\ thread[p] = "alive"
    /\ thread' = [thread EXCEPT ![p] = "ended"]
    /\ \E e \in Events \ {"none"} : event' = [event EXCEPT ![p] = e]
    /\ UNCHANGED <<phase, applicable, aborted, listening, timer, result, inflight,
                   progress, late>>

(***************************************************************************)
(* runIsolated's settle, for all plugins of ps at once: only the first     *)
(* event of a plugin counts; it disarms the others, asks for the thread's  *)
(* termination and fires the plugin-finish progress writes, numbered from  *)
(* the count of plugins that finished before.                              *)
(***************************************************************************)
Disarm(ps) ==
    /\ timer' = [p \in Plugins |-> timer[p] /\ p \notin ps]
    /\ listening' = [p \in Plugins |-> listening[p] /\ p \notin ps]
    /\ thread' = [p \in Plugins |-> IF p \in ps /\ thread[p] = "alive"
                                    THEN "terminated" ELSE thread[p]]

\* Mutant: the counter is incremented before and after the write.
ReportFinishAhead(ps) ==
    LET done == Cardinality(Settled) IN
    inflight' = inflight \cup {done + k + 1 : k \in 1..Cardinality(ps)}

ReportFinish(ps) ==
    LET done == Cardinality(Settled) IN
    inflight' = inflight \cup {done + k : k \in 1..Cardinality(ps)}

\* Mutant: the thread is not terminated.
SettleOnly(ps, outcome) ==
    LET open == ps \ Settled IN
    /\ result' = [p \in Plugins |-> IF p \in open THEN outcome ELSE result[p]]
    /\ ReportFinish(open)
    /\ UNCHANGED <<timer, listening, thread>>

Settle(ps, outcome) ==
    LET open == ps \ Settled IN
    /\ result' = [p \in Plugins |-> IF p \in open THEN outcome ELSE result[p]]
    /\ Disarm(open)
    /\ ReportFinish(open)

\* 'message' and 'error' events; a thread that exited silently has no handler.
DeliverEvent(p) ==
    /\ event[p] \in {"success", "error"}
    /\ Settle({p}, event[p])
    /\ event' = [event EXCEPT ![p] = "none"]
    /\ UNCHANGED <<phase, applicable, aborted, progress, late>>

\* Mutant: the timer is not armed for a plugin whose thread is gone.
TimeoutOfLiveThread(p) ==
    /\ timer[p] /\ thread[p] = "alive"
    /\ Settle({p}, "timeout")
    /\ UNCHANGED <<phase, applicable, aborted, event, progress, late>>

Timeout(p) ==
    /\ timer[p]
    /\ Settle({p}, "timeout")
    /\ UNCHANGED <<phase, applicable, aborted, event, progress, late>>

\* The cancel poll calls controller.abort(): every registered listener runs in that
\* call.
Abort ==
    /\ ~aborted /\ phase # "returned"
    /\ aborted' = TRUE
    /\ Settle({p \in Plugins : listening[p]}, "aborted")
    /\ UNCHANGED <<phase, applicable, event, progress, late>>

\* Promise.all resolves when every runIsolated has.
RunScanReturns ==
    /\ phase = "running" /\ Settled = applicable
    /\ phase' = "returned"
    /\ UNCHANGED <<applicable, aborted, listening, timer, thread, event, result,
                   inflight, progress, late>>

\* A fire-and-forget updateProgress reaches the row, or fails and is swallowed; the
\* calls overlap, so they land in any order - also after runScan returned.
ProgressLands(n) ==
    /\ n \in inflight
    /\ inflight' = inflight \ {n}
    /\ \/ /\ progress' = IF n = 0
                         THEN [total |-> Cardinality(applicable), completed |-> 0]
                         ELSE [progress EXCEPT !.completed = n]
          /\ late' = (late \/ \E m \in inflight : m < n)
       \/ WritesMayFail /\ late' = TRUE /\ UNCHANGED progress
    /\ UNCHANGED <<phase, applicable, aborted, listening, timer, thread, event, result>>

Next == \/ StartPlugins \/ Abort \/ RunScanReturns
        \/ \E p \in Plugins : PluginEnds(p) \/ DeliverEvent(p) \/ Timeout(p)
        \/ \E n \in inflight : ProgressLands(n)

\* Node delivers events and fires timers; plugins need not end and nobody need abort.
Fairness == /\ WF_vars(StartPlugins) /\ WF_vars(RunScanReturns)
            /\ \A p \in Plugins : WF_vars(DeliverEvent(p)) /\ WF_vars(Timeout(p))

Spec == Init /\ [][Next]_vars
FairSpec == Spec /\ Fairness

-----------------------------------------------------------------------------
\* When runScan returns no plugin still burns CPU and nothing is left armed: no thread
\* alive, no timer, no listener on the scan's signal.
NothingLeftRunning ==
    phase = "returned" =>
        \A p \in Plugins : thread[p] # "alive" /\ ~timer[p] /\ ~listening[p]

\* The progress row never shows more finished plugins than have settled, in whatever order the
\* writes land, and also after runScan returned; and when all have landed it shows every one of
\* them, unless a write failed or was overtaken by a later one: only those leave it behind
\* (buildProgressHandler, which awaits none of its writes; ADR 0023 calls them best-effort).
ProgressAddsUp ==
    /\ progress.completed <= Cardinality(Settled)
    /\ phase # "before" /\ inflight = {} /\ ~late =>
          progress = [total |-> Cardinality(applicable), completed |-> Cardinality(Settled)]

(***************************************************************************)
(* The inductive invariant behind these (proved in Engines_proofs):        *)
(* whatever settled, or never applied, is switched off; the writes in      *)
(* flight count plugins that have settled; and while they land in order,   *)
(* the ones in flight are those that follow the count the row shows.       *)
(***************************************************************************)
Quiet == \A p \in Plugins : p \in Settled \/ p \notin applicable =>
             thread[p] # "alive" /\ ~timer[p] /\ ~listening[p]

OnlyApplicable == \A p \in Plugins \ applicable : result[p] = "none" /\ event[p] = "none"

Phases == /\ phase = "before" => applicable = {} /\ inflight = {} /\ progress.completed = 0
          /\ phase = "returned" => Settled = applicable

Counted == inflight \subseteq 0..Cardinality(Settled) /\ progress.completed <= Cardinality(Settled)

InOrder == phase # "before" /\ ~late =>
              \/ progress.completed = 0 /\ inflight = 0..Cardinality(Settled)
              \/ /\ progress.total = Cardinality(applicable)
                 /\ inflight = progress.completed + 1 .. Cardinality(Settled)

IInv == TypeOK /\ Quiet /\ OnlyApplicable /\ Phases /\ Counted /\ InOrder

\* runScan returns even if every plugin hangs or dies silently.
RunScanEnds == <>(phase = "returned")

\* orchestrator.ts: cancelling aborts every still-running plugin's thread, not just
\* the ones that have not started yet.
AbortStopsEveryPlugin ==
    aborted => \A p \in Plugins : thread[p] # "alive"
=============================================================================
