----------------------------- MODULE WorkerRuns -----------------------------
(***************************************************************************)
(* Unit-test runs and coverage runs of one worker process (apps/worker).   *)
(* Both follow the protocol of a scan (module ScanRun), one queue and one  *)
(* execution at a time for each kind; what differs is modelled here:       *)
(*   - an execution records its results in several statements, and the job *)
(*     of a process that died in between is delivered and executed again;  *)
(*   - the engines end only if the language model and Jest do, and a kind  *)
(*     that hangs must not stop the other;                                 *)
(*   - the process closes its queues one after the other;                  *)
(*   - a unit-test job may carry an API key, so BullMQ is told not to keep *)
(*     the job once it is over.                                            *)
(* updateStatus is one step: the timestamps its two statements protect are *)
(* in ScanRun, and no property here depends on them.                       *)
(***************************************************************************)
EXTENDS Naturals, Sequences, FiniteSets

CONSTANTS Runs, KindOf,         \* KindOf[r]: the queue run r goes through
          NoRun,                \* null
          Requests,             \* cancel requests, each sent at most once
          MaxStalledCount,      \* BullMQ's redelivery budget of a job
          MaxTroubles           \* bound: ends of the process, calls that throw and
                                \* cancel requests, together

Kinds == {"unitTest", "coverage"}

ASSUME RunsAssumption == /\ KindOf \in [Runs -> Kinds] /\ NoRun \notin Runs
                         /\ {MaxStalledCount, MaxTroubles} \subseteq Nat
                         /\ IsFiniteSet(Requests)

\* The statements that record the results, in their order; the last one is the summary.
Parts(k) == CASE k = "unitTest" -> <<"files", "tests", "summary">>
              [] k = "coverage" -> <<"files", "summary">>

Tables == {"files", "tests"}
Numbers == 1..MaxStalledCount + 1       \* executions of a run: one per delivery

VARIABLES
    status,         \* status[r]: the run's status column, "absent" before the insert
    rows,           \* <<r, t, n>>: the rows execution n of r inserted into table t
    summary,        \* summary[r]: the execution whose totals are in the row, 0 = null
    job,            \* job[r]: "kept" and "gone" tell whether Redis keeps a finished job
    stalls,         \* stalls[r]: how often the job was found without its lock
    proc,           \* the process: "up", the queue it is closing, or "off"
    pc, run,        \* per kind: the await its execution stands at, and the run
    signal,         \* signal[k]: the cancel poll and its AbortController
    part,           \* part[k]: the result statement to execute next
    failing,        \* failing[k]: an error is propagating to the catch
    creating,       \* runs between repository.create and enqueue
    rpc, rrun,      \* the cancel requests in the API process
    ends, faults

dbVars   == <<status, rows, summary>>
jobVars  == <<job, stalls>>
execVars == <<pc, run, signal, part, failing>>
reqVars  == <<rpc, rrun>>
vars == <<dbVars, jobVars, proc, execVars, creating, reqVars, ends, faults>>

RL == INSTANCE RunLifecycle
Terminal == RL!Terminal

JobStates == {"none", "waiting", "active", "kept", "gone"}
ProcStates == {"up", "closeScan", "closeUnitTest", "closeCoverage", "off"}
PcStates == {"idle", "find", "start", "checkout", "engine", "save", "complete",
             "cleanup", "fail", "finish"}

TypeOK ==
    /\ status \in [Runs -> RL!Statuses]
    /\ rows \subseteq Runs \X Tables \X Numbers
    /\ summary \in [Runs -> Numbers \cup {0}]
    /\ job \in [Runs -> JobStates] /\ stalls \in [Runs -> 0..MaxStalledCount + 1]
    /\ proc \in ProcStates
    /\ pc \in [Kinds -> PcStates] /\ run \in [Kinds -> Runs \cup {NoRun}]
    /\ signal \in [Kinds -> {"clear", "seen", "aborted"}]
    /\ part \in [Kinds -> 1..3] /\ failing \in [Kinds -> BOOLEAN]
    /\ creating \subseteq Runs
    /\ rpc \in [Requests -> {"idle", "state", "remove", "write", "done"}]
    /\ rrun \in [Requests -> Runs \cup {NoRun}]
    /\ ends \in Nat /\ faults \in Nat

Init ==
    /\ status = [r \in Runs |-> "absent"] /\ rows = {} /\ summary = [r \in Runs |-> 0]
    /\ job = [r \in Runs |-> "none"] /\ stalls = [r \in Runs |-> 0]
    /\ proc = "up"
    /\ pc = [k \in Kinds |-> "idle"] /\ run = [k \in Kinds |-> NoRun]
    /\ signal = [k \in Kinds |-> "clear"] /\ part = [k \in Kinds |-> 1]
    /\ failing = [k \in Kinds |-> FALSE]
    /\ creating = {}
    /\ rpc = [q \in Requests |-> "idle"] /\ rrun = [q \in Requests |-> NoRun]
    /\ ends = 0 /\ faults = 0

Trouble == ends + faults + Cardinality({q \in Requests : rpc[q] # "idle"}) < MaxTroubles
Fault == Trouble /\ faults' = faults + 1
SetStatus(r, new) == status' = [status EXCEPT ![r] = new] /\ UNCHANGED <<rows, summary>>

-----------------------------------------------------------------------------
(***************************************************************************)
(* The API: create and enqueue, cancel.                                    *)
(***************************************************************************)
CreateRun(r) ==
    /\ status[r] = "absent"
    /\ SetStatus(r, "queued")
    /\ creating' = creating \cup {r}
    /\ UNCHANGED <<jobVars, proc, execVars, reqVars, ends, faults>>

Enqueue(r) ==
    /\ r \in creating
    /\ creating' = creating \ {r}
    /\ job' = [job EXCEPT ![r] = "waiting"]
    /\ UNCHANGED <<dbVars, stalls, proc, execVars, reqVars, ends, faults>>

\* Redis refuses the job: the row stays.
EnqueueFails(r) ==
    /\ r \in creating /\ Fault
    /\ creating' = creating \ {r}
    /\ UNCHANGED <<dbVars, jobVars, proc, execVars, reqVars, ends>>

ReqGoto(q, next) == rpc' = [rpc EXCEPT ![q] = next]

CancelFind(q, r) ==
    /\ Trouble /\ rpc[q] = "idle" /\ status[r] # "absent"
    /\ rrun' = [rrun EXCEPT ![q] = r]
    /\ ReqGoto(q, CASE status[r] \in Terminal -> "done"
                    [] status[r] = "queued"   -> "state"
                    [] OTHER                  -> "write")
    /\ UNCHANGED <<dbVars, jobVars, proc, execVars, creating, ends, faults>>

CancelJobState(q) ==
    /\ rpc[q] = "state"
    /\ ReqGoto(q, IF job[rrun[q]] = "waiting" THEN "remove" ELSE "write")
    /\ UNCHANGED <<dbVars, jobVars, proc, execVars, creating, rrun, ends, faults>>

Locked(r) == job[r] = "active" /\ \E k \in Kinds : run[k] = r

\* Mutant: the request takes the removal for all there is to do.
CancelEndsWithRemoval(q) ==
    /\ rpc[q] = "remove"
    /\ ReqGoto(q, "done")
    /\ job' = [job EXCEPT ![rrun[q]] = IF Locked(rrun[q]) THEN @ ELSE "gone"]
    /\ UNCHANGED <<dbVars, stalls, proc, execVars, creating, rrun, ends, faults>>

\* job.remove() throws if the worker has locked the job since.
CancelRemoveJob(q) ==
    /\ rpc[q] = "remove"
    /\ ReqGoto(q, IF Locked(rrun[q]) THEN "done" ELSE "write")
    /\ job' = [job EXCEPT ![rrun[q]] = IF Locked(rrun[q]) THEN @ ELSE "gone"]
    /\ UNCHANGED <<dbVars, stalls, proc, execVars, creating, rrun, ends, faults>>

CancelWrite(q) ==
    /\ rpc[q] = "write"
    /\ SetStatus(rrun[q], "cancelled")
    /\ ReqGoto(q, "done")
    /\ UNCHANGED <<jobVars, proc, execVars, creating, rrun, ends, faults>>

CancelFails(q) ==
    /\ rpc[q] \in {"state", "remove", "write"} /\ Fault
    /\ ReqGoto(q, "done")
    /\ UNCHANGED <<dbVars, jobVars, proc, execVars, creating, rrun, ends>>

-----------------------------------------------------------------------------
(***************************************************************************)
(* The execution of kind k: RunUnitTestGenerationUseCase.execute and       *)
(* RunCoverageGateUseCase.execute.                                         *)
(***************************************************************************)
Goto(k, next) == pc' = [pc EXCEPT ![k] = next]
restVars == <<proc, creating, reqVars, ends>>

\* The queues still consumed: the process closes the scans', the unit tests' and the
\* coverage runs' in this order, waiting for each execution to end.
Taking(k) == \/ proc \in {"up", "closeScan"}
             \/ proc = "closeUnitTest" /\ k = "coverage"

TakeJob(k, r) ==
    /\ Taking(k) /\ pc[k] = "idle"
    /\ KindOf[r] = k /\ job[r] = "waiting"
    /\ job' = [job EXCEPT ![r] = "active"]
    /\ run' = [run EXCEPT ![k] = r]
    /\ Goto(k, "find")
    /\ UNCHANGED <<dbVars, stalls, signal, part, failing, restVars, faults>>

\* Mutant: what has been started is not started again.
FindQueuedRun(k) ==
    /\ pc[k] = "find"
    /\ Goto(k, IF status[run[k]] = "queued" THEN "start" ELSE "finish")
    /\ UNCHANGED <<dbVars, jobVars, run, signal, part, failing, restVars, faults>>

FindRun(k) ==
    /\ pc[k] = "find"
    /\ Goto(k, IF status[run[k]] = "cancelled" THEN "finish" ELSE "start")
    /\ UNCHANGED <<dbVars, jobVars, run, signal, part, failing, restVars, faults>>

WriteRunning(k) ==
    /\ pc[k] = "start"
    /\ SetStatus(run[k], "running")
    /\ Goto(k, "checkout")
    /\ UNCHANGED <<jobVars, run, signal, part, failing, restVars, faults>>

\* The catch block writes "failed" unless the run was aborted.
CatchTarget(k) == IF signal[k] = "aborted" THEN "finish" ELSE "fail"

\* ensureLocalCheckout: a repo on this machine, or a clone - which may fail.
EnsureLocalCheckout(k) ==
    /\ pc[k] = "checkout"
    /\ \/ Goto(k, "engine")
       \/ Goto(k, CatchTarget(k))
    /\ UNCHANGED <<dbVars, jobVars, run, signal, part, failing, restVars, faults>>

\* The engine returns, and the abort signal is looked at once.
EngineReturns(k) ==
    /\ pc[k] = "engine"
    /\ Goto(k, IF signal[k] = "aborted" THEN "cleanup" ELSE "save")
    /\ part' = [part EXCEPT ![k] = 1]
    /\ UNCHANGED <<dbVars, jobVars, run, signal, failing, restVars, faults>>

\* It throws: a target that does not resolve, a generator or Jest that fails - or, for
\* a coverage run, the abort itself.
EngineThrows(k) ==
    /\ pc[k] = "engine"
    /\ failing' = [failing EXCEPT ![k] = TRUE]
    /\ Goto(k, "cleanup")
    /\ UNCHANGED <<dbVars, jobVars, run, signal, part, restVars, faults>>

\* Which execution of its run this is.
Number(k) == stalls[run[k]] + 1

\* Mutant: the statements are not awaited, and the status overtakes the last ones.
SavesUnawaited(k) == "complete"

AfterPart(k) == IF part[k] = Len(Parts(k)) THEN "complete" ELSE "save"

\* saveMany inserts (it never updates); updateResultsSummary overwrites the columns.
SaveResults(k) ==
    LET p == Parts(k)[part[k]] IN
    /\ pc[k] = "save"
    /\ IF p = "summary"
       THEN summary' = [summary EXCEPT ![run[k]] = Number(k)] /\ UNCHANGED rows
       ELSE rows' = rows \cup {<<run[k], p, Number(k)>>} /\ UNCHANGED summary
    /\ Goto(k, AfterPart(k))
    /\ part' = [part EXCEPT ![k] = IF AfterPart(k) = "save" THEN @ + 1 ELSE 1]
    /\ UNCHANGED <<status, jobVars, run, signal, failing, restVars, faults>>

WriteCompleted(k) ==
    /\ pc[k] = "complete"
    /\ SetStatus(run[k], "completed")
    /\ Goto(k, "cleanup")
    /\ UNCHANGED <<jobVars, run, signal, part, failing, restVars, faults>>

\* Mutant: the cleanup in the wrong place, every execution leaves through the catch.
CleanupThenCatch(k) ==
    /\ pc[k] = "cleanup"
    /\ Goto(k, CatchTarget(k))
    /\ UNCHANGED <<dbVars, jobVars, run, signal, part, failing, restVars, faults>>

Cleanup(k) ==
    /\ pc[k] = "cleanup"
    /\ Goto(k, IF failing[k] THEN CatchTarget(k) ELSE "finish")
    /\ UNCHANGED <<dbVars, jobVars, run, signal, part, failing, restVars, faults>>

WriteFailed(k) ==
    /\ pc[k] = "fail"
    /\ SetStatus(run[k], "failed")
    /\ Goto(k, "finish")
    /\ UNCHANGED <<jobVars, run, signal, part, failing, restVars, faults>>

\* A call rejects: outside the try the job just fails, inside it the catch is reached
\* through the cleanup.
CallFails(k) ==
    /\ Fault
    /\ \/ /\ pc[k] \in {"find", "start", "fail"}
          /\ Goto(k, "finish") /\ UNCHANGED failing
       \/ /\ pc[k] \in {"save", "complete"}
          /\ Goto(k, "cleanup") /\ failing' = [failing EXCEPT ![k] = TRUE]
       \/ /\ pc[k] = "cleanup"
          /\ Goto(k, CatchTarget(k)) /\ UNCHANGED failing
    /\ UNCHANGED <<dbVars, jobVars, run, signal, part, restVars>>

\* The cancel poll, armed after the "running" write.
Polling(k) == pc[k] \in {"checkout", "engine", "save", "complete", "cleanup", "fail"}

PollReads(k) ==
    /\ Polling(k) /\ signal[k] = "clear" /\ status[run[k]] = "cancelled"
    /\ signal' = [signal EXCEPT ![k] = "seen"]
    /\ UNCHANGED <<dbVars, jobVars, pc, run, part, failing, restVars, faults>>

PollAborts(k) ==
    /\ Polling(k) /\ signal[k] = "seen"
    /\ signal' = [signal EXCEPT ![k] = "aborted"]
    /\ UNCHANGED <<dbVars, jobVars, pc, run, part, failing, restVars, faults>>

-----------------------------------------------------------------------------
(***************************************************************************)
(* BullMQ, outside src/, as the code configures it.                        *)
(***************************************************************************)
\* Mutant: the options are forgotten.
AfterJobKept(r) == "kept"

\* removeOnComplete and removeOnFail are set for unit-test jobs only.
AfterJob(r) == IF KindOf[r] = "unitTest" THEN "gone" ELSE "kept"

Forget(ks) ==
    /\ pc' = [k \in Kinds |-> IF k \in ks THEN "idle" ELSE pc[k]]
    /\ run' = [k \in Kinds |-> IF k \in ks THEN NoRun ELSE run[k]]
    /\ signal' = [k \in Kinds |-> IF k \in ks THEN "clear" ELSE signal[k]]
    /\ part' = [k \in Kinds |-> IF k \in ks THEN 1 ELSE part[k]]
    /\ failing' = [k \in Kinds |-> failing[k] /\ k \notin ks]

FinishJob(k) ==
    /\ pc[k] = "finish"
    /\ job' = [job EXCEPT ![run[k]] = AfterJob(run[k])]
    /\ Forget({k})
    /\ UNCHANGED <<dbVars, stalls, restVars, faults>>

\* A worker of the queue finds the job without its lock: it is delivered again, or
\* failed for good.
StalledCheck(r) ==
    /\ Taking(KindOf[r]) /\ job[r] = "active" /\ ~Locked(r)
    /\ stalls' = [stalls EXCEPT ![r] = @ + 1]
    /\ job' = [job EXCEPT ![r] = IF stalls[r] < MaxStalledCount THEN "waiting"
                                                                ELSE AfterJob(r)]
    /\ UNCHANGED <<dbVars, execVars, restVars, faults>>

(***************************************************************************)
(* The process: SIGTERM, the close() calls in their order, a kill, a start.*)
(***************************************************************************)
Shutdown ==
    /\ proc = "up" /\ Trouble
    /\ proc' = "closeScan" /\ ends' = ends + 1
    /\ UNCHANGED <<dbVars, jobVars, execVars, creating, reqVars, faults>>

CloseNext ==
    /\ \/ proc = "closeScan" /\ proc' = "closeUnitTest"
       \/ proc = "closeUnitTest" /\ pc["unitTest"] = "idle" /\ proc' = "closeCoverage"
       \/ proc = "closeCoverage" /\ pc["coverage"] = "idle" /\ proc' = "off"
    /\ UNCHANGED <<dbVars, jobVars, execVars, creating, reqVars, ends, faults>>

\* A crash, or a kill by whoever lost patience.
Kill ==
    /\ proc # "off" /\ Trouble
    /\ proc' = "off" /\ ends' = ends + 1
    /\ Forget(Kinds)
    /\ UNCHANGED <<dbVars, jobVars, creating, reqVars, faults>>

Boot ==
    /\ proc = "off" /\ proc' = "up"
    /\ UNCHANGED <<dbVars, jobVars, execVars, creating, reqVars, ends, faults>>

-----------------------------------------------------------------------------
Engine(k) == EngineReturns(k) \/ EngineThrows(k)

Execute(k) == \/ FindRun(k) \/ WriteRunning(k) \/ EnsureLocalCheckout(k)
              \/ SaveResults(k) \/ WriteCompleted(k) \/ Cleanup(k) \/ WriteFailed(k)
              \/ FinishJob(k)

ApiStep == \/ \E r \in Runs : CreateRun(r) \/ Enqueue(r) \/ EnqueueFails(r)
           \/ \E q \in Requests : \/ \E r \in Runs : CancelFind(q, r)
                                  \/ CancelJobState(q) \/ CancelRemoveJob(q)
                                  \/ CancelWrite(q) \/ CancelFails(q)

KindStep(k) == \/ \E r \in Runs : TakeJob(k, r)
               \/ Execute(k) \/ Engine(k) \/ CallFails(k)
               \/ PollReads(k) \/ PollAborts(k)

ProcStep == Shutdown \/ CloseNext \/ Kill \/ Boot

Next == \/ ApiStep \/ ProcStep
        \/ \E k \in Kinds : KindStep(k)
        \/ \E r \in Runs : StalledCheck(r)

\* A kind's consumer is one sequential thread: it fetches a job and completes what it
\* awaits - except the engines, which wait for a language model and for Jest without a
\* timeout.  BullMQ checks for stalled jobs, the API completes its requests, and somebody
\* starts the worker again.  Nothing depends on the cancel poll.
Fairness ==
    /\ \A k \in Kinds : WF_vars(Execute(k) \/ \E r \in Runs : TakeJob(k, r))
    /\ WF_vars(\E r \in Runs : Enqueue(r)) /\ WF_vars(\E r \in Runs : StalledCheck(r))
    /\ \A q \in Requests : WF_vars(CancelJobState(q) \/ CancelRemoveJob(q) \/ CancelWrite(q))
    /\ WF_vars(CloseNext \/ Boot)

Spec == Init /\ [][Next]_vars
FairSpec == Spec /\ Fairness

-----------------------------------------------------------------------------
Recorded(r, n) == /\ summary[r] = n
                  /\ \A t \in Tables :
                       (\E i \in 1..Len(Parts(KindOf[r])) : Parts(KindOf[r])[i] = t)
                         => <<r, t, n>> \in rows

\* A completed run shows the totals of one execution whose rows are all there - also
\* after crashes between the result statements, redeliveries and late failures.
CompletedIsWhole ==
    \A r \in Runs : status[r] = "completed" => \E n \in Numbers : Recorded(r, n)

\* A cancel request that will still write "cancelled".
CancelPending(r) == \E q \in Requests : rrun[q] = r /\ rpc[q] = "write"

\* No run is left behind: as long as no call failed, a run that is not over is about to
\* be enqueued, has its job, or is being cancelled - unless BullMQ gave the job up.
NoOrphan ==
    faults = 0 =>
        \A r \in Runs : status[r] \in {"queued", "running"} =>
            \/ r \in creating \/ job[r] \in {"waiting", "active"} \/ CancelPending(r)
            \/ stalls[r] > MaxStalledCount

\* Undisturbed runs take the steps of RunLifecycle.
Calm == faults = 0 /\ ends = 0 /\ \A q \in Requests : rpc[q] = "idle"
LifecycleWhileCalm == [][Calm' => RL!Next]_status

\* Every accepted run ends for good, unless a call failed, its job was given up, or an
\* execution of its own kind hangs.  A hanging execution of the other kind does not
\* matter - until the process is told to stop: then it waits for it, and the queues it has
\* closed before stay closed.
EveryRunEnds ==
    \A r \in Runs :
        (status[r] # "absent") ~>
            \/ faults > 0 \/ stalls[r] > MaxStalledCount
            \/ [](status[r] \in Terminal)
            \/ [](pc[KindOf[r]] = "engine") \/ []~Taking(KindOf[r])

\* unit-test-queue.ts: the API key a job carries does not linger in Redis once the run
\* is over, whichever way it ends.
KeyLeavesRedis ==
    \A r \in Runs : KindOf[r] = "unitTest" =>
        (job[r] # "none") ~> \/ [](job[r] = "gone")
                             \/ [](pc["unitTest"] = "engine") \/ []~Taking("unitTest")

-----------------------------------------------------------------------------
(***************************************************************************)
(* The inductive invariant of the proofs.                                  *)
(***************************************************************************)
\* A run has no job before the API enqueues it, and a request removes only what it saw.
Fresh ==
    /\ \A r \in Runs : status[r] = "absent" \/ r \in creating => job[r] = "none"
    /\ \A r \in creating : status[r] # "absent"
    /\ \A q \in Requests : rpc[q] # "idle" => rrun[q] \in Runs
    /\ \A q \in Requests : rpc[q] = "remove" => job[rrun[q]] # "none"

\* A job still to be executed has redeliveries left, counting the present one.
Deliverable ==
    \A r \in Runs : job[r] \in {"none", "waiting", "active"} => stalls[r] <= MaxStalledCount

\* An execution holds the active job of a run of its own kind.
HoldsJob ==
    \A k \in Kinds :
        IF pc[k] = "idle" THEN run[k] = NoRun
        ELSE run[k] \in Runs /\ KindOf[run[k]] = k /\ job[run[k]] = "active"

\* What an execution has behind it: the statements before the next one.
Stored(k) ==
    \A i \in 1..Len(Parts(k)) :
        (pc[k] = "complete" \/ (pc[k] = "save" /\ i < part[k])) =>
            IF Parts(k)[i] = "summary" THEN summary[run[k]] = Number(k)
            ELSE <<run[k], Parts(k)[i], Number(k)>> \in rows

\* While an execution records its results, no earlier "completed" vouches for the run.
Recording ==
    \A k \in Kinds :
        /\ Stored(k)
        /\ pc[k] = "save" => part[k] <= Len(Parts(k))
        /\ pc[k] \in {"checkout", "engine", "save", "complete"} =>
                status[run[k]] \in {"running", "cancelled"}

\* A cancellation that was seen is not undone, and an execution ends with a status.
Settled ==
    \A k \in Kinds :
        /\ signal[k] # "clear" => /\ pc[k] \notin {"idle", "find", "start"}
                                  /\ status[run[k]] \in Terminal
        /\ faults = 0 /\ (pc[k] = "finish" \/ (pc[k] = "cleanup" /\ ~failing[k])) =>
                status[run[k]] \in Terminal

IInv == /\ TypeOK /\ Fresh /\ Deliverable /\ HoldsJob /\ Recording /\ Settled
        /\ CompletedIsWhole /\ NoOrphan
=============================================================================
