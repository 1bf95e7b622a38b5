------------------------------ MODULE ScanRun ------------------------------
(***************************************************************************)
(* The life of a scan across the three processes that share it:            *)
(*   - the API process, which creates the Scan row and enqueues its job    *)
(*     (CreateScanUseCase) and serves cancel requests (CancelScanUseCase); *)
(*   - the BullMQ queue of the repo's worker, kept in Redis;               *)
(*   - the worker processes, each executing one job at a time              *)
(*     (RunScanUseCase.execute).                                           *)
(* They share the scan row only.  No step holds a lock across an await, so *)
(* every await of the code ends an action here; PrismaScanRepository's     *)
(* updateStatus is two actions, a read and a write.                        *)
(*                                                                         *)
(* Plugins are one step (module PluginRuntime opens it) and findings are   *)
(* abstract values (module FindingStore opens the upsert).                 *)
(***************************************************************************)
EXTENDS Naturals, FiniteSets

CONSTANTS
    Scans,              \* scan identifiers
    Workers,            \* worker processes consuming the queue
    Requests,           \* cancel requests the API may receive
    Findings,           \* fingerprints a scan of the repo can report
    NoScan, NoWorker,
    MaxStalledCount,    \* BullMQ's maxStalledCount
    MaxCrashes,         \* bound: worker process crashes
    MaxLockLosses,      \* bound: job locks that expire under a live worker
    MaxFaults           \* bound: failing database, Redis or file system calls

ASSUME ConstantsAssumption ==
    /\ NoScan \notin Scans
    /\ NoWorker \notin Workers
    /\ {MaxStalledCount, MaxCrashes, MaxLockLosses, MaxFaults} \subseteq Nat

VARIABLES
    \* the database
    status,             \* status[s]: the scan row's status, "absent" before it exists
    startedAt,          \* startedAt[s]: how often the column was stamped, 0 = null
    completedAt,        \* completedAt[s]: likewise
    persisted,          \* persisted[s]: findings with a history row for scan s
    \* the queue
    job,                \* job[s]: state of the job whose id is s
    owner,              \* owner[s]: the worker holding the lock of an active job
    stalls,             \* stalls[s]: how often BullMQ found the job stalled
    \* RunScanUseCase.execute in each worker process
    pc,                 \* pc[w]: the await the execution stands at
    run,                \* run[w]: the scan it executes
    signal,             \* signal[w]: the cancel poll and its AbortController
    before,             \* before[w]: updateStatus read a null timestamp
    outcome,            \* outcome[w]: the findings runScan returned
    todo,               \* todo[w]: those not upserted yet
    failing,            \* failing[w]: an error is propagating to the catch
    checkout,           \* checkout[w]: a checkout awaits cleanup()
    \* the API process
    creating,           \* scans between scanRepository.create and enqueue
    rpc, rscan, rbefore,\* the same for CancelScanUseCase.execute, per request
    \* the environment's budget
    crashes, lockLosses, faults

dbVars   == <<status, startedAt, completedAt, persisted>>
jobVars  == <<job, owner, stalls>>
workVars == <<outcome, todo, failing, checkout>>
execVars == <<pc, run, signal, before, workVars>>
reqVars  == <<rpc, rscan, rbefore>>
budget   == <<crashes, lockLosses, faults>>
restVars == <<creating, reqVars, budget>>
vars == <<dbVars, jobVars, execVars, restVars>>

RL == INSTANCE RunLifecycle WITH Runs <- Scans
Terminal == RL!Terminal

PcStates == {"idle", "find", "readRunning", "writeRunning", "checkout", "scan",
             "persist", "readDone", "writeDone", "cleanup", "readFail",
             "writeFail", "ack", "nack"}
ReqStates == {"idle", "state", "remove", "read", "write", "done", "refused"}
JobStates == {"none", "waiting", "active", "completed", "failed", "removed",
              "exhausted"}

TypeOK ==
    /\ status \in [Scans -> RL!Statuses]
    /\ startedAt \in [Scans -> Nat] /\ completedAt \in [Scans -> Nat]
    /\ persisted \in [Scans -> SUBSET Findings]
    /\ job \in [Scans -> JobStates]
    /\ owner \in [Scans -> Workers \cup {NoWorker}]
    /\ stalls \in [Scans -> Nat]
    /\ pc \in [Workers -> PcStates]
    /\ run \in [Workers -> Scans \cup {NoScan}]
    /\ \A w \in Workers : pc[w] # "idle" => run[w] \in Scans
    /\ signal \in [Workers -> {"clear", "seen", "aborted"}]
    /\ before \in [Workers -> BOOLEAN]
    /\ outcome \in [Workers -> SUBSET Findings]
    /\ todo \in [Workers -> SUBSET Findings]
    /\ failing \in [Workers -> BOOLEAN]
    /\ checkout \in [Workers -> BOOLEAN]
    /\ creating \in SUBSET Scans
    /\ rpc \in [Requests -> ReqStates]
    /\ rscan \in [Requests -> Scans \cup {NoScan}]
    /\ \A q \in Requests : rpc[q] # "idle" => rscan[q] \in Scans
    /\ rbefore \in [Requests -> BOOLEAN]
    /\ crashes \in Nat /\ lockLosses \in Nat /\ faults \in Nat

Init ==
    /\ status = [s \in Scans |-> "absent"]
    /\ startedAt = [s \in Scans |-> 0] /\ completedAt = [s \in Scans |-> 0]
    /\ persisted = [s \in Scans |-> {}]
    /\ job = [s \in Scans |-> "none"]
    /\ owner = [s \in Scans |-> NoWorker]
    /\ stalls = [s \in Scans |-> 0]
    /\ pc = [w \in Workers |-> "idle"]
    /\ run = [w \in Workers |-> NoScan]
    /\ signal = [w \in Workers |-> "clear"]
    /\ before = [w \in Workers |-> FALSE]
    /\ outcome = [w \in Workers |-> {}]
    /\ todo = [w \in Workers |-> {}]
    /\ failing = [w \in Workers |-> FALSE]
    /\ checkout = [w \in Workers |-> FALSE]
    /\ creating = {}
    /\ rpc = [q \in Requests |-> "idle"]
    /\ rscan = [q \in Requests |-> NoScan]
    /\ rbefore = [q \in Requests |-> FALSE]
    /\ crashes = 0 /\ lockLosses = 0 /\ faults = 0

(***************************************************************************)
(* PrismaScanRepository.updateStatus: findFirst, then an update whose      *)
(* timestamps depend on what the findFirst returned.                       *)
(***************************************************************************)
\* Mutant: the timestamp is written unconditionally.
TimestampIgnored(s, new) == TRUE

TimestampIsNull(s, new) == IF new = "running" THEN startedAt[s] = 0
                                              ELSE completedAt[s] = 0

WriteStatus(s, new, wasNull) ==
    /\ status' = [status EXCEPT ![s] = new]
    /\ startedAt' = [startedAt EXCEPT
                        ![s] = IF new = "running" /\ wasNull THEN @ + 1 ELSE @]
    /\ completedAt' = [completedAt EXCEPT
                        ![s] = IF new \in Terminal /\ wasNull THEN @ + 1 ELSE @]
    /\ UNCHANGED persisted

Fault == faults < MaxFaults /\ faults' = faults + 1

-----------------------------------------------------------------------------
(***************************************************************************)
(* The API: CreateScanUseCase.                                             *)
(***************************************************************************)
CreateScan(s) ==
    /\ status[s] = "absent"
    /\ status' = [status EXCEPT ![s] = "queued"]
    /\ creating' = creating \cup {s}
    /\ UNCHANGED <<startedAt, completedAt, persisted, jobVars, execVars, reqVars,
                   budget>>

Enqueue(s) ==
    /\ s \in creating
    /\ creating' = creating \ {s}
    /\ job' = [job EXCEPT ![s] = "waiting"]
    /\ UNCHANGED <<dbVars, owner, stalls, execVars, reqVars, budget>>

\* Redis refuses the job, or the API stops between the insert and queue.add:
\* nothing undoes the insert.
EnqueueFails(s) ==
    /\ s \in creating /\ Fault
    /\ creating' = creating \ {s}
    /\ UNCHANGED <<dbVars, jobVars, execVars, reqVars, crashes, lockLosses>>

(***************************************************************************)
(* The API: CancelScanUseCase, one request q.                              *)
(***************************************************************************)
ReqGoto(q, next) == rpc' = [rpc EXCEPT ![q] = next]

CancelFind(q, s) ==
    /\ rpc[q] = "idle" /\ status[s] # "absent"
    /\ rscan' = [rscan EXCEPT ![q] = s]
    /\ ReqGoto(q, CASE status[s] \in Terminal -> "done"
                    [] status[s] = "queued"   -> "state"
                    [] OTHER                  -> "read")
    /\ UNCHANGED <<dbVars, jobVars, execVars, creating, rbefore, budget>>

CancelJobState(q) ==
    /\ rpc[q] = "state"
    /\ ReqGoto(q, IF job[rscan[q]] = "waiting" THEN "remove" ELSE "read")
    /\ UNCHANGED <<dbVars, jobVars, execVars, creating, rscan, rbefore, budget>>

\* Mutant: the lock is not looked at.
CancelRemovesLockedJob(q) ==
    /\ rpc[q] = "remove"
    /\ ReqGoto(q, "read")
    /\ job' = [job EXCEPT ![rscan[q]] = "removed"]
    /\ UNCHANGED <<owner, stalls, dbVars, execVars, creating, rscan, rbefore, budget>>

\* Mutant: a request that removed the job is taken to be done.
CancelEndsWithRemoval(q) ==
    /\ rpc[q] = "remove"
    /\ LET s == rscan[q] IN
         IF job[s] = "active" /\ owner[s] # NoWorker
         THEN ReqGoto(q, "refused") /\ UNCHANGED jobVars
         ELSE /\ ReqGoto(q, "done")
              /\ job' = [job EXCEPT ![s] = "removed"]
              /\ UNCHANGED <<owner, stalls>>
    /\ UNCHANGED <<dbVars, execVars, creating, rscan, rbefore, budget>>

\* job.remove() takes the job out of whatever set holds it, unless a worker has
\* locked it since getState(): then it throws and the request ends there.
CancelRemoveJob(q) ==
    /\ rpc[q] = "remove"
    /\ LET s == rscan[q] IN
         IF job[s] = "active" /\ owner[s] # NoWorker
         THEN ReqGoto(q, "refused") /\ UNCHANGED jobVars
         ELSE /\ ReqGoto(q, "read")
              /\ job' = [job EXCEPT ![s] = "removed"]
              /\ UNCHANGED <<owner, stalls>>
    /\ UNCHANGED <<dbVars, execVars, creating, rscan, rbefore, budget>>

CancelRead(q) ==
    /\ rpc[q] = "read"
    /\ rbefore' = [rbefore EXCEPT ![q] = TimestampIsNull(rscan[q], "cancelled")]
    /\ ReqGoto(q, "write")
    /\ UNCHANGED <<dbVars, jobVars, execVars, creating, rscan, budget>>

CancelWrite(q) ==
    /\ rpc[q] = "write"
    /\ WriteStatus(rscan[q], "cancelled", rbefore[q])
    /\ ReqGoto(q, "done")
    /\ UNCHANGED <<jobVars, execVars, creating, rscan, rbefore, budget>>

CancelFails(q) ==
    /\ rpc[q] \in {"state", "remove", "read", "write"} /\ Fault
    /\ ReqGoto(q, "refused")
    /\ UNCHANGED <<dbVars, jobVars, execVars, creating, rscan, rbefore, crashes,
                   lockLosses>>

-----------------------------------------------------------------------------
(***************************************************************************)
(* The worker: RunScanUseCase.execute.                                     *)
(***************************************************************************)
Goto(w, next) == pc' = [pc EXCEPT ![w] = next]

\* The catch block: an aborted run leaves the status to the cancel request.
CatchTarget(w) == IF signal[w] = "aborted" THEN "nack" ELSE "readFail"

\* BullMQ hands a waiting job to an idle worker and locks it.
TakeJob(w, s) ==
    /\ pc[w] = "idle" /\ job[s] = "waiting"
    /\ job' = [job EXCEPT ![s] = "active"]
    /\ owner' = [owner EXCEPT ![s] = w]
    /\ run' = [run EXCEPT ![w] = s]
    /\ Goto(w, "find")
    /\ UNCHANGED <<dbVars, stalls, signal, before, workVars, restVars>>

\* Mutant: only a scan that is still queued is run.
FindQueuedScan(w) ==
    /\ pc[w] = "find"
    /\ Goto(w, IF status[run[w]] # "queued" THEN "ack" ELSE "readRunning")
    /\ UNCHANGED <<dbVars, jobVars, run, signal, before, workVars, restVars>>

FindScan(w) ==
    /\ pc[w] = "find"
    /\ Goto(w, IF status[run[w]] = "cancelled" THEN "ack" ELSE "readRunning")
    /\ UNCHANGED <<dbVars, jobVars, run, signal, before, workVars, restVars>>

\* The findFirst of updateStatus, for each of the three calls execute makes.
ReadForUpdate(w) ==
    \E step \in {<<"readRunning", "writeRunning", "running">>,
                 <<"readDone", "writeDone", "completed">>,
                 <<"readFail", "writeFail", "failed">>} :
        /\ pc[w] = step[1]
        /\ before' = [before EXCEPT ![w] = TimestampIsNull(run[w], step[3])]
        /\ Goto(w, step[2])
        /\ UNCHANGED <<dbVars, jobVars, run, signal, workVars, restVars>>

WriteRunning(w) ==
    /\ pc[w] = "writeRunning"
    /\ WriteStatus(run[w], "running", before[w])
    /\ Goto(w, "checkout")
    /\ UNCHANGED <<jobVars, run, signal, before, workVars, restVars>>

EnsureLocalCheckout(w) ==
    /\ pc[w] = "checkout"
    /\ checkout' = [checkout EXCEPT ![w] = TRUE]
    /\ Goto(w, "scan")
    /\ UNCHANGED <<dbVars, jobVars, run, signal, before, outcome, todo, failing,
                   restVars>>

\* The clone fails or a local repo has no path: nothing to clean up.
CheckoutThrows(w) ==
    /\ pc[w] = "checkout"
    /\ Goto(w, CatchTarget(w))
    /\ UNCHANGED <<dbVars, jobVars, run, signal, before, workVars, restVars>>

\* What runScan returned decides where execute goes on.
ScanReturns(w, ifAborted, ifFound) ==
    /\ pc[w] = "scan"
    /\ IF signal[w] = "aborted"
       THEN Goto(w, ifAborted) /\ UNCHANGED <<outcome, todo>>
       ELSE \E found \in SUBSET Findings :
              /\ outcome' = [outcome EXCEPT ![w] = found]
              /\ todo' = [todo EXCEPT ![w] = found]
              /\ Goto(w, IF found = {} THEN "readDone" ELSE ifFound)
    /\ UNCHANGED <<dbVars, jobVars, run, signal, before, failing, checkout, restVars>>

\* Mutant: the status is written first, the findings are dropped.
RunScanForgetsFindings(w) == ScanReturns(w, "cleanup", "readDone")

\* Mutant: an aborted run returns past its cleanup.
RunScanSkipsCleanup(w) == ScanReturns(w, "ack", "persist")

\* Mutant: an aborted run goes on to the status update.
RunScanIgnoresAbort(w) == ScanReturns(w, "readDone", "persist")

\* runScan never rejects; whatever the plugins that succeeded found is kept.
RunScan(w) == ScanReturns(w, "cleanup", "persist")

\* resolveTarget rejects: no base scan, or git diff fails.
TargetThrows(w) ==
    /\ pc[w] = "scan"
    /\ failing' = [failing EXCEPT ![w] = TRUE]
    /\ Goto(w, "cleanup")
    /\ UNCHANGED <<dbVars, jobVars, run, signal, before, outcome, todo, checkout,
                   restVars>>

PersistFinding(w) ==
    /\ pc[w] = "persist"
    /\ \E f \in todo[w] :
         /\ persisted' = [persisted EXCEPT ![run[w]] = @ \cup {f}]
         /\ todo' = [todo EXCEPT ![w] = @ \ {f}]
         /\ Goto(w, IF todo[w] = {f} THEN "readDone" ELSE "persist")
    /\ UNCHANGED <<status, startedAt, completedAt, jobVars, run, signal, before,
                   outcome, failing, checkout, restVars>>

WriteCompleted(w) ==
    /\ pc[w] = "writeDone"
    /\ WriteStatus(run[w], "completed", before[w])
    /\ Goto(w, "cleanup")
    /\ UNCHANGED <<jobVars, run, signal, before, workVars, restVars>>

Cleanup(w) ==
    /\ pc[w] = "cleanup"
    /\ checkout' = [checkout EXCEPT ![w] = FALSE]
    /\ Goto(w, IF failing[w] THEN CatchTarget(w) ELSE "ack")
    /\ UNCHANGED <<dbVars, jobVars, run, signal, before, outcome, todo, failing,
                   restVars>>

WriteFailed(w) ==
    /\ pc[w] = "writeFail"
    /\ WriteStatus(run[w], "failed", before[w])
    /\ Goto(w, "nack")
    /\ UNCHANGED <<jobVars, run, signal, before, workVars, restVars>>

\* A database call (or the removal of the checkout) rejects.  Before the try
\* block the job just fails; inside it the error reaches the catch through the
\* cleanup; inside the catch it replaces the first error.
CallFails(w) ==
    /\ Fault
    /\ \/ /\ pc[w] \in {"find", "readRunning", "writeRunning", "readFail", "writeFail"}
          /\ Goto(w, "nack")
          /\ UNCHANGED failing
       \/ /\ pc[w] \in {"persist", "readDone", "writeDone"}
          /\ failing' = [failing EXCEPT ![w] = TRUE]
          /\ Goto(w, "cleanup")
       \/ /\ pc[w] = "cleanup"
          /\ Goto(w, CatchTarget(w))
          /\ UNCHANGED failing
    /\ UNCHANGED <<dbVars, jobVars, run, signal, before, outcome, todo, checkout,
                   creating, reqVars, crashes, lockLosses>>

(***************************************************************************)
(* The cancel poll: armed after the "running" write, cleared in the        *)
(* outermost finally.  The row is read at one instant, the callback aborts *)
(* at a later one.                                                         *)
(***************************************************************************)
Polling(w) == pc[w] \in {"checkout", "scan", "persist", "readDone", "writeDone",
                         "cleanup", "readFail", "writeFail"}

PollReads(w) ==
    /\ Polling(w) /\ signal[w] = "clear" /\ status[run[w]] = "cancelled"
    /\ signal' = [signal EXCEPT ![w] = "seen"]
    /\ UNCHANGED <<dbVars, jobVars, pc, run, before, workVars, restVars>>

PollAborts(w) ==
    /\ Polling(w) /\ signal[w] = "seen"
    /\ signal' = [signal EXCEPT ![w] = "aborted"]
    /\ UNCHANGED <<dbVars, jobVars, pc, run, before, workVars, restVars>>

\* The worker process forgets the execution: it returned, or the process died.
Forget(w) ==
    /\ Goto(w, "idle")
    /\ run' = [run EXCEPT ![w] = NoScan]
    /\ signal' = [signal EXCEPT ![w] = "clear"]
    /\ before' = [before EXCEPT ![w] = FALSE]
    /\ outcome' = [outcome EXCEPT ![w] = {}]
    /\ todo' = [todo EXCEPT ![w] = {}]
    /\ failing' = [failing EXCEPT ![w] = FALSE]
    /\ checkout' = [checkout EXCEPT ![w] = FALSE]

(***************************************************************************)
(* BullMQ, outside src/: the job is finished by the worker that still      *)
(* holds its lock (attempts = 1, so an error is final); a job whose lock   *)
(* is gone is put back at most MaxStalledCount times.                      *)
(***************************************************************************)
FinishJob(w) ==
    /\ pc[w] \in {"ack", "nack"}
    /\ LET s == run[w] IN
         IF job[s] = "active" /\ owner[s] = w
         THEN /\ job' = [job EXCEPT
                           ![s] = IF pc[w] = "ack" THEN "completed" ELSE "failed"]
              /\ owner' = [owner EXCEPT ![s] = NoWorker]
         ELSE UNCHANGED <<job, owner>>
    /\ Forget(w)
    /\ UNCHANGED <<dbVars, stalls, restVars>>

ReleaseLock(w) ==
    owner' = [s \in Scans |-> IF owner[s] = w THEN NoWorker ELSE owner[s]]

\* The process dies (a failed poll read is enough: its rejection is unhandled)
\* and its supervisor starts it again.
Crash(w) ==
    /\ pc[w] # "idle" /\ crashes < MaxCrashes
    /\ crashes' = crashes + 1
    /\ Forget(w)
    /\ ReleaseLock(w)
    /\ UNCHANGED <<dbVars, job, stalls, creating, reqVars, lockLosses, faults>>

\* The lock expires under a live worker (Redis unreachable, event loop blocked).
LoseLock(w) ==
    /\ pc[w] # "idle" /\ owner[run[w]] = w /\ lockLosses < MaxLockLosses
    /\ lockLosses' = lockLosses + 1
    /\ ReleaseLock(w)
    /\ UNCHANGED <<dbVars, job, stalls, execVars, creating, reqVars, crashes, faults>>

StalledCheck(s) ==
    /\ job[s] = "active" /\ owner[s] = NoWorker
    /\ stalls' = [stalls EXCEPT ![s] = @ + 1]
    /\ job' = [job EXCEPT
                 ![s] = IF stalls[s] < MaxStalledCount THEN "waiting" ELSE "exhausted"]
    /\ UNCHANGED <<dbVars, owner, execVars, restVars>>

-----------------------------------------------------------------------------
ApiStep == \/ \E s \in Scans : CreateScan(s) \/ Enqueue(s) \/ EnqueueFails(s)
           \/ \E q \in Requests :
                \/ \E s \in Scans : CancelFind(q, s)
                \/ CancelJobState(q) \/ CancelRemoveJob(q) \/ CancelRead(q)
                \/ CancelWrite(q) \/ CancelFails(q)

\* The steps execute() takes when no call it makes fails.
Execute(w) == \/ FindScan(w) \/ ReadForUpdate(w) \/ WriteRunning(w)
              \/ EnsureLocalCheckout(w) \/ CheckoutThrows(w)
              \/ RunScan(w) \/ TargetThrows(w) \/ PersistFinding(w)
              \/ WriteCompleted(w) \/ Cleanup(w) \/ WriteFailed(w)
              \/ FinishJob(w)

WorkerStep == \E w \in Workers :
                 \/ \E s \in Scans : TakeJob(w, s)
                 \/ Execute(w) \/ CallFails(w)
                 \/ PollReads(w) \/ PollAborts(w)
                 \/ Crash(w) \/ LoseLock(w)

Next == ApiStep \/ WorkerStep \/ (\E s \in Scans : StalledCheck(s))

(***************************************************************************)
(* Fairness.  Node and Prisma complete the awaits they start; plugins end  *)
(* by timeout (module PluginRuntime); BullMQ's worker loop fetches waiting *)
(* jobs and its stalled checker runs on a timer; the API completes the     *)
(* requests it serves; the cancel poll is on an interval.  Nothing is      *)
(* assumed of crashes, faults, lock losses or of users.                    *)
(***************************************************************************)
Fairness ==
    /\ \A w \in Workers : /\ WF_vars(Execute(w))
                          /\ WF_vars(\E s \in Scans : TakeJob(w, s))
                          /\ WF_vars(PollReads(w) \/ PollAborts(w))
    /\ \A s \in Scans : WF_vars(Enqueue(s)) /\ WF_vars(StalledCheck(s))
    /\ \A q \in Requests : WF_vars(CancelJobState(q) \/ CancelRemoveJob(q)
                                   \/ CancelRead(q) \/ CancelWrite(q))

Spec == Init /\ [][Next]_vars
FairSpec == Spec /\ Fairness

-----------------------------------------------------------------------------
(***************************************************************************)
(* Safety.                                                                 *)
(***************************************************************************)
Executing(s) == {w \in Workers : run[w] = s}

\* BullMQ's lock is what keeps two workers off one scan: as long as no lock
\* expires under a live worker, whoever executes a scan owns its active job, so
\* no two executions of the same scan overlap, redeliveries included.
ExecutorOwnsJob ==
    lockLosses = 0 =>
        \A w \in Workers : pc[w] # "idle" => /\ job[run[w]] = "active"
                                             /\ owner[run[w]] = w

\* A cancel request that will still write "cancelled".
CancelPending(s) == \E q \in Requests : rscan[q] = s /\ rpc[q] \in {"read", "write"}

\* Something that will still move scan s: the API about to enqueue it, its job, or
\* a cancel request that took the job away.
Driven(s) == \/ s \in creating
             \/ job[s] \in {"waiting", "active"}
             \/ CancelPending(s)

\* No scan is left behind: as long as no call failed and no lock was lost, a scan
\* that is not over is driven by someone, unless its job was redelivered more than
\* MaxStalledCount times (nothing reconciles those: apps/worker has no counterpart
\* of apps/qa-automation's reconciliation at startup).
NoOrphan ==
    faults = 0 /\ lockLosses = 0 =>
        \A s \in Scans : status[s] \in {"queued", "running"} =>
                            Driven(s) \/ job[s] = "exhausted"

\* updateStatus('completed') is reached only through persistFindings: whoever turns
\* a row "completed" has upserted every finding its plugins returned.
CompletedIsBacked ==
    [][\A s \in Scans : status'[s] = "completed" /\ status[s] # "completed" =>
          \E w \in Executing(s) : outcome[w] \subseteq persisted[s]]_vars

\* core/src/scan.ts: a redelivered job setting "running" again does not overwrite
\* startedAt.  updateStatus reads and writes in two statements, so this rests on the
\* mutual exclusion of executions.
StartedOnce == lockLosses = 0 => \A s \in Scans : startedAt[s] <= 1

\* Once the cancel poll aborted an execution whose plugins have not returned, that
\* execution ends without a trace: the row stays "cancelled" and no finding of it is
\* persisted any more, even if the process crashes and the job is delivered again.
AbortedInTime(s) == /\ status[s] = "cancelled"
                    /\ \E w \in Workers : /\ Executing(s) = {w} /\ signal[w] = "aborted"
                                           /\ pc[w] \in {"checkout", "scan"}

AbortLeavesNoTrace ==
    \A s \in Scans, f \in Findings :
        [](AbortedInTime(s) /\ f \notin persisted[s]
             => [](status[s] = "cancelled" /\ f \notin persisted[s]))

\* What an abort leaves of scan s (proved in ScanRun_proofs): its execution is on its way
\* out, and a redelivery gets no further than the guard on a cancelled scan.
NoTraceOf(s, f) ==
    /\ status[s] = "cancelled" /\ f \notin persisted[s]
    /\ \A w \in Executing(s) :
         \/ pc[w] \in {"idle", "find", "ack", "nack"}
         \/ pc[w] \in {"checkout", "scan", "cleanup"} /\ signal[w] = "aborted"

\* cleanup() runs on every path out of execute: an execution that ends (or goes to
\* the catch block) holds no checkout unless removing it failed.
CheckoutReleased ==
    \A w \in Workers : checkout[w] /\ faults = 0 =>
        pc[w] \in {"scan", "persist", "readDone", "writeDone", "cleanup"}

(***************************************************************************)
(* The inductive invariant behind ExecutorOwnsJob and NoOrphan (proved in  *)
(* ScanRun_proofs).  Fresh: a scan has no job before the API enqueues it.  *)
(* Settled: an execution that will not write the status any more, or that  *)
(* has seen the cancellation, leaves a terminal status behind it.          *)
(***************************************************************************)
Fresh ==
    /\ \A s \in Scans : status[s] = "absent" => job[s] = "none" /\ s \notin creating
    /\ \A s \in creating : job[s] = "none"
    /\ \A q \in Requests : rpc[q] = "remove" => job[rscan[q]] # "none"

Over(w) == status[run[w]] \in Terminal

Settled ==
    /\ \A w \in Workers :
         pc[w] \in {"idle", "find", "readRunning", "writeRunning"} => signal[w] = "clear"
    /\ faults = 0 /\ lockLosses = 0 =>
         \A w \in Workers :
           /\ signal[w] # "clear" => Over(w)
           /\ pc[w] \in {"ack", "nack"} => Over(w)
           /\ pc[w] = "cleanup" /\ ~failing[w] => Over(w)

\* What of an execution's outcome must be in the database by now.
Backed ==
    \A w \in Workers :
        /\ pc[w] \in {"persist", "readDone", "writeDone"} =>
             outcome[w] \ todo[w] \subseteq persisted[run[w]]
        /\ pc[w] \in {"readDone", "writeDone"} => todo[w] = {}

\* A worker that read a null startedAt is still the only one to stamp it.
FirstStamp ==
    lockLosses = 0 =>
        \A w \in Workers : pc[w] = "writeRunning" /\ before[w] => startedAt[run[w]] = 0

IInv == TypeOK /\ Fresh /\ ExecutorOwnsJob /\ Settled /\ NoOrphan /\ Backed
        /\ CheckoutReleased /\ FirstStamp /\ StartedOnce

(***************************************************************************)
(* Liveness.                                                               *)
(***************************************************************************)
\* Every accepted scan ends, and the status it ends with is final, as long as no
\* call fails, no lock is lost and no more than MaxStalledCount crashes happen.
EventuallyOver ==
    \A s \in Scans :
        (status[s] # "absent") ~>
            (faults > 0 \/ lockLosses > 0 \/ job[s] = "exhausted"
             \/ [](status[s] \in Terminal))

(***************************************************************************)
(* What the repository says and the code does not do.                      *)
(***************************************************************************)
\* docs/adr/0023: a cancelled scan's partial findings are not persisted.
CancelledNotPersisted ==
    \A s \in Scans : status[s] = "cancelled" => persisted[s] = {}

\* run-scan.use-case.ts: the guard in execute is what actually prevents a scan
\* cancelled while queued from running.
CancelledNeverRuns ==
    [][\A s \in Scans : status[s] = "cancelled" => status'[s] # "running"]_vars

Lifecycle == RL!Spec
=============================================================================
