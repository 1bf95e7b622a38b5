--------------------------- MODULE ScanRun_proofs ---------------------------
(***************************************************************************)
(* Proofs about ScanRun, for every number of scans, workers, cancel        *)
(* requests, crashes, lost locks and failing calls.                        *)
(***************************************************************************)
EXTENDS ScanRun, TLAPS

\* Every step is one of the actions: a disjunct of Next or a stutter.
LEMMA Steps ==
    ASSUME [Next]_vars
    PROVE  \/ \E s \in Scans : CreateScan(s) \/ Enqueue(s) \/ EnqueueFails(s)
                               \/ StalledCheck(s)
           \/ \E q \in Requests, s \in Scans : CancelFind(q, s)
           \/ \E q \in Requests : \/ CancelJobState(q) \/ CancelRemoveJob(q)
                                  \/ CancelRead(q) \/ CancelWrite(q)
                                  \/ CancelFails(q)
           \/ \E w \in Workers, s \in Scans : TakeJob(w, s)
           \/ \E w \in Workers : \/ FindScan(w) \/ ReadForUpdate(w)
                                 \/ WriteRunning(w) \/ EnsureLocalCheckout(w)
                                 \/ CheckoutThrows(w) \/ RunScan(w)
                                 \/ TargetThrows(w) \/ PersistFinding(w)
                                 \/ WriteCompleted(w) \/ Cleanup(w)
                                 \/ WriteFailed(w) \/ FinishJob(w)
                                 \/ CallFails(w) \/ PollReads(w) \/ PollAborts(w)
                                 \/ Crash(w) \/ LoseLock(w)
           \/ UNCHANGED vars
  BY DEF Next, ApiStep, WorkerStep, Execute

-----------------------------------------------------------------------------
(***************************************************************************)
(* Type correctness.                                                       *)
(***************************************************************************)
\* The initial state has the declared types.
LEMMA TypeInit == Init => TypeOK
  BY ConstantsAssumption DEF Init, TypeOK, PcStates, ReqStates, JobStates,
     RL!Statuses, RL!Terminal

\* Every step of the API, the queue and the workers preserves the types.
LEMMA TypeStep == TypeOK /\ [Next]_vars => TypeOK'
<1> SUFFICES ASSUME TypeOK, [Next]_vars PROVE TypeOK'
  OBVIOUS
<1> USE ConstantsAssumption DEF TypeOK, PcStates, ReqStates, JobStates, RL!Statuses,
        RL!Terminal, dbVars, jobVars, execVars, workVars, reqVars, restVars, budget
<1>1. ASSUME NEW s \in Scans, CreateScan(s) \/ Enqueue(s) \/ EnqueueFails(s)
      PROVE  TypeOK'
  BY <1>1 DEF CreateScan, Enqueue, EnqueueFails, Fault
<1>2. ASSUME NEW s \in Scans, StalledCheck(s) PROVE TypeOK'
  BY <1>2 DEF StalledCheck
<1>3. ASSUME NEW q \in Requests, NEW s \in Scans, CancelFind(q, s) PROVE TypeOK'
  BY <1>3 DEF CancelFind, ReqGoto
<1>4. ASSUME NEW q \in Requests, CancelJobState(q) \/ CancelFails(q) PROVE TypeOK'
  BY <1>4 DEF CancelJobState, CancelFails, ReqGoto, Fault
<1>5. ASSUME NEW q \in Requests, CancelRemoveJob(q) PROVE TypeOK'
  BY <1>5 DEF CancelRemoveJob, ReqGoto
<1>6. ASSUME NEW q \in Requests, CancelRead(q) PROVE TypeOK'
  <2>1. TimestampIsNull(rscan[q], "cancelled") \in BOOLEAN
    BY DEF TimestampIsNull
  <2> QED
    BY <1>6, <2>1 DEF CancelRead, ReqGoto
<1>7. ASSUME NEW q \in Requests, CancelWrite(q) PROVE TypeOK'
  BY <1>7 DEF CancelWrite, ReqGoto, WriteStatus, Terminal
<1>8. ASSUME NEW w \in Workers, NEW s \in Scans, TakeJob(w, s) PROVE TypeOK'
  BY <1>8 DEF TakeJob, Goto
<1>9. ASSUME NEW w \in Workers, FindScan(w) PROVE TypeOK'
  BY <1>9 DEF FindScan, Goto
<1>10. ASSUME NEW w \in Workers, ReadForUpdate(w) PROVE TypeOK'
  <2>1. \A new : TimestampIsNull(run[w], new) \in BOOLEAN
    BY DEF TimestampIsNull
  <2> QED
    BY <1>10, <2>1 DEF ReadForUpdate, Goto
<1>11. ASSUME NEW w \in Workers, WriteRunning(w) \/ WriteCompleted(w) \/ WriteFailed(w)
      PROVE  TypeOK'
  BY <1>11 DEF WriteRunning, WriteCompleted, WriteFailed, Goto, WriteStatus, Terminal
<1>12. ASSUME NEW w \in Workers,
              \/ EnsureLocalCheckout(w) \/ CheckoutThrows(w) \/ TargetThrows(w)
              \/ Cleanup(w)
       PROVE  TypeOK'
  <2>1. CatchTarget(w) \in PcStates
    BY DEF CatchTarget
  <2>2. CASE EnsureLocalCheckout(w)
    BY <2>2 DEF EnsureLocalCheckout, Goto
  <2>3. CASE TargetThrows(w)
    BY <2>3 DEF TargetThrows, Goto
  <2>4. CASE CheckoutThrows(w)
    BY <2>1, <2>4 DEF CheckoutThrows, Goto
  <2>5. CASE Cleanup(w)
    BY <2>1, <2>5 DEF Cleanup, Goto
  <2> QED
    BY <1>12, <2>2, <2>3, <2>4, <2>5
<1>13. ASSUME NEW w \in Workers, RunScan(w) \/ PersistFinding(w) PROVE TypeOK'
  BY <1>13 DEF RunScan, ScanReturns, PersistFinding, Goto
<1>14. ASSUME NEW w \in Workers, CallFails(w) \/ PollReads(w) \/ PollAborts(w)
       PROVE  TypeOK'
  <2>1. CatchTarget(w) \in PcStates
    BY DEF CatchTarget
  <2>2. CASE CallFails(w)
    <3>1. /\ pc' \in [Workers -> PcStates] /\ faults' \in Nat
          /\ \A v \in Workers : pc'[v] # "idle" => pc[v] # "idle"
      BY <2>1, <2>2 DEF CallFails, Goto, Fault
    <3>2. failing' \in [Workers -> BOOLEAN]
      BY <2>2 DEF CallFails
    <3> QED
      BY <2>2, <3>1, <3>2 DEF CallFails
  <2>3. CASE PollReads(w) \/ PollAborts(w)
    BY <2>3 DEF PollReads, PollAborts
  <2> QED
    BY <1>14, <2>2, <2>3
<1>15. ASSUME NEW w \in Workers, FinishJob(w) PROVE TypeOK'
  BY <1>15 DEF FinishJob, Forget, Goto
<1>16. ASSUME NEW w \in Workers, Crash(w) \/ LoseLock(w) PROVE TypeOK'
  <2>1. CASE Crash(w)
    BY <2>1 DEF Crash, Forget, Goto, ReleaseLock
  <2>2. CASE LoseLock(w)
    BY <2>2 DEF LoseLock, ReleaseLock
  <2> QED
    BY <1>16, <2>1, <2>2
<1>17. ASSUME UNCHANGED vars PROVE TypeOK'
  BY <1>17 DEF vars
<1> QED
  BY <1>1, <1>2, <1>3, <1>4, <1>5, <1>6, <1>7, <1>8, <1>9, <1>10, <1>11, <1>12,
     <1>13, <1>14, <1>15, <1>16, <1>17, Steps

\* The variables keep their types in every behaviour.
THEOREM TypeCorrect == Spec => []TypeOK
<1>1. Init => TypeOK
  BY TypeInit
<1>2. TypeOK /\ [Next]_vars => TypeOK'
  BY TypeStep
<1> QED
  BY <1>1, <1>2, PTL DEF Spec

-----------------------------------------------------------------------------
(***************************************************************************)
(* The actions, seen from the queue: which of them touch the jobs and the  *)
(* executions' identity.                                                   *)
(***************************************************************************)
\* The steps of an execution between its delivery and its end: they keep the
\* job, its owner and the scan executed.
InnerStep(w) == \/ FindScan(w) \/ ReadForUpdate(w) \/ WriteRunning(w)
                \/ EnsureLocalCheckout(w) \/ CheckoutThrows(w) \/ RunScan(w)
                \/ TargetThrows(w) \/ PersistFinding(w) \/ WriteCompleted(w)
                \/ Cleanup(w) \/ WriteFailed(w) \/ CallFails(w) \/ PollReads(w)
                \/ PollAborts(w)

\* A step inside an execution moves no job and starts or ends no execution.
LEMMA InnerStepFrame ==
    ASSUME TypeOK, NEW w \in Workers, InnerStep(w)
    PROVE  /\ UNCHANGED <<job, owner, stalls, run, creating, rpc, rscan, crashes,
                          lockLosses>>
           /\ pc[w] # "idle"
           /\ \A v \in Workers : pc'[v] = "idle" <=> pc[v] = "idle"
           /\ \A v \in Workers \ {w} : pc'[v] = pc[v] /\ signal'[v] = signal[v]
                                       /\ failing'[v] = failing[v]
                                       /\ checkout'[v] = checkout[v]
                                       /\ todo'[v] = todo[v]
                                       /\ outcome'[v] = outcome[v]
<1> USE DEF TypeOK, dbVars, jobVars, execVars, workVars, reqVars, restVars, budget, Goto
<1>1. CASE FindScan(w)
  BY <1>1 DEF FindScan
<1>2. CASE ReadForUpdate(w)
  BY <1>2 DEF ReadForUpdate
<1>3. CASE WriteRunning(w) \/ WriteCompleted(w) \/ WriteFailed(w)
  BY <1>3 DEF WriteRunning, WriteCompleted, WriteFailed
<1>4. CASE EnsureLocalCheckout(w)
  BY <1>4 DEF EnsureLocalCheckout
<1>5. CASE CheckoutThrows(w)
  BY <1>5 DEF CheckoutThrows, CatchTarget
<1>6. CASE RunScan(w)
  BY <1>6 DEF RunScan, ScanReturns
<1>7. CASE TargetThrows(w)
  BY <1>7 DEF TargetThrows
<1>8. CASE PersistFinding(w)
  BY <1>8 DEF PersistFinding
<1>9. CASE Cleanup(w)
  BY <1>9 DEF Cleanup, CatchTarget
<1>10. CASE CallFails(w)
  BY <1>10 DEF CallFails, CatchTarget
<1>11. CASE PollReads(w) \/ PollAborts(w)
  BY <1>11 DEF PollReads, PollAborts, Polling
<1> QED
  BY <1>1, <1>2, <1>3, <1>4, <1>5, <1>6, <1>7, <1>8, <1>9, <1>10, <1>11
     DEF InnerStep

\* Every step is one of the API's, of the queue's, or of a worker's.
LEMMA StepCases ==
    ASSUME [Next]_vars
    PROVE  \/ \E s \in Scans : CreateScan(s) \/ Enqueue(s) \/ EnqueueFails(s)
                               \/ StalledCheck(s)
           \/ \E q \in Requests, s \in Scans : CancelFind(q, s)
           \/ \E q \in Requests : \/ CancelJobState(q) \/ CancelRemoveJob(q)
                                  \/ CancelRead(q) \/ CancelWrite(q)
                                  \/ CancelFails(q)
           \/ \E w \in Workers, s \in Scans : TakeJob(w, s)
           \/ \E w \in Workers : InnerStep(w) \/ FinishJob(w) \/ Crash(w) \/ LoseLock(w)
           \/ UNCHANGED vars
  BY Steps DEF InnerStep

-----------------------------------------------------------------------------
(***************************************************************************)
(* A scan has no job before the API enqueues it.                           *)
(***************************************************************************)
\* Only the API creates rows and jobs, a job is never forgotten, and no status
\* write brings "absent" back.
LEMMA FreshStep ==
    ASSUME TypeOK, Fresh, [Next]_vars
    PROVE  Fresh'
<1> USE DEF TypeOK, Fresh, dbVars, jobVars, execVars, workVars, reqVars, restVars,
     budget
<1>1. ASSUME NEW s \in Scans,
             CreateScan(s) \/ Enqueue(s) \/ EnqueueFails(s) \/ StalledCheck(s)
      PROVE  Fresh'
  BY <1>1 DEF CreateScan, Enqueue, EnqueueFails, StalledCheck
<1>2. ASSUME NEW q \in Requests, NEW s \in Scans, CancelFind(q, s) PROVE Fresh'
  BY <1>2 DEF CancelFind, ReqGoto
<1>3. ASSUME NEW q \in Requests, CancelJobState(q) \/ CancelRead(q) \/ CancelFails(q)
      PROVE  Fresh'
  BY <1>3 DEF CancelJobState, CancelRead, CancelFails, ReqGoto
<1>4. ASSUME NEW q \in Requests, CancelRemoveJob(q) PROVE Fresh'
  BY <1>4 DEF CancelRemoveJob, ReqGoto
<1>5. ASSUME NEW q \in Requests, CancelWrite(q) PROVE Fresh'
  BY <1>5 DEF CancelWrite, ReqGoto, WriteStatus
<1>6. ASSUME NEW w \in Workers, NEW s \in Scans, TakeJob(w, s) PROVE Fresh'
  BY <1>6 DEF TakeJob
<1>7. ASSUME NEW w \in Workers, InnerStep(w) PROVE Fresh'
  <2>1. \A s \in Scans : status'[s] = "absent" => status[s] = "absent"
    BY <1>7 DEF InnerStep, FindScan, ReadForUpdate, WriteRunning, EnsureLocalCheckout,
         CheckoutThrows, RunScan, ScanReturns, TargetThrows, PersistFinding,
         WriteCompleted, Cleanup, WriteFailed, CallFails, PollReads, PollAborts,
         WriteStatus
  <2> QED
    BY <1>7, <2>1, InnerStepFrame
<1>8. ASSUME NEW w \in Workers, FinishJob(w) \/ Crash(w) \/ LoseLock(w) PROVE Fresh'
  BY <1>8 DEF FinishJob, Crash, LoseLock
<1>9. CASE UNCHANGED vars
  BY <1>9 DEF vars
<1> QED
  BY <1>1, <1>2, <1>3, <1>4, <1>5, <1>6, <1>7, <1>8, <1>9, StepCases

-----------------------------------------------------------------------------
(***************************************************************************)
(* Mutual exclusion on a scan.                                             *)
(***************************************************************************)
\* A job is delivered only when it waits, is put back only when its lock is gone,
\* and removing it needs the lock free: no step separates an execution from its job.
LEMMA OwnerStep ==
    ASSUME TypeOK, Fresh, ExecutorOwnsJob, [Next]_vars
    PROVE  ExecutorOwnsJob'
<1> USE ConstantsAssumption DEF TypeOK, ExecutorOwnsJob, dbVars, jobVars, execVars,
     workVars, reqVars, restVars, budget
<1>1. ASSUME NEW s \in Scans,
             CreateScan(s) \/ Enqueue(s) \/ EnqueueFails(s) \/ StalledCheck(s)
      PROVE  ExecutorOwnsJob'
  BY <1>1 DEF CreateScan, Enqueue, EnqueueFails, StalledCheck, Fresh
<1>2. ASSUME NEW q \in Requests, NEW s \in Scans, CancelFind(q, s)
      PROVE  ExecutorOwnsJob'
  BY <1>2 DEF CancelFind
<1>3. ASSUME NEW q \in Requests,
             \/ CancelJobState(q) \/ CancelRead(q) \/ CancelFails(q) \/ CancelWrite(q)
      PROVE  ExecutorOwnsJob'
  BY <1>3 DEF CancelJobState, CancelRead, CancelFails, CancelWrite
<1>4. ASSUME NEW q \in Requests, CancelRemoveJob(q) PROVE ExecutorOwnsJob'
  BY <1>4 DEF CancelRemoveJob
<1>5. ASSUME NEW w \in Workers, NEW s \in Scans, TakeJob(w, s) PROVE ExecutorOwnsJob'
  BY <1>5 DEF TakeJob, Goto
<1>6. ASSUME NEW w \in Workers, InnerStep(w) PROVE ExecutorOwnsJob'
  BY <1>6, InnerStepFrame
<1>7. ASSUME NEW w \in Workers, FinishJob(w) PROVE ExecutorOwnsJob'
  BY <1>7 DEF FinishJob, Forget, Goto
<1>8. ASSUME NEW w \in Workers, Crash(w) PROVE ExecutorOwnsJob'
  BY <1>8 DEF Crash, Forget, Goto, ReleaseLock
<1>9. ASSUME NEW w \in Workers, LoseLock(w) PROVE ExecutorOwnsJob'
  BY <1>9 DEF LoseLock
<1>10. CASE UNCHANGED vars
  BY <1>10 DEF vars
<1> QED
  BY <1>1, <1>2, <1>3, <1>4, <1>5, <1>6, <1>7, <1>8, <1>9, <1>10, StepCases

-----------------------------------------------------------------------------
(***************************************************************************)
(* An execution that is done with the status leaves a terminal one.        *)
(***************************************************************************)
Calm == faults = 0 /\ lockLosses = 0

\* Without a fault or a lost lock, only an execution's own "running" write can make
\* its scan's status non-terminal again.
LEMMA StatusStaysTerminal ==
    ASSUME TypeOK, Fresh, ExecutorOwnsJob, [Next]_vars, Calm,
           NEW v \in Workers, pc[v] # "idle", pc[v] # "writeRunning", Over(v)
    PROVE  status'[run[v]] \in Terminal
<1> USE DEF TypeOK, dbVars, jobVars, execVars, workVars, reqVars, restVars, budget,
     Over, Calm, Terminal, RL!Terminal
<1>1. ASSUME NEW s \in Scans,
             CreateScan(s) \/ Enqueue(s) \/ EnqueueFails(s) \/ StalledCheck(s)
      PROVE  status'[run[v]] \in Terminal
  BY <1>1 DEF CreateScan, Enqueue, EnqueueFails, StalledCheck
<1>2. ASSUME NEW q \in Requests, NEW s \in Scans, CancelFind(q, s)
      PROVE  status'[run[v]] \in Terminal
  BY <1>2 DEF CancelFind
<1>3. ASSUME NEW q \in Requests,
             \/ CancelJobState(q) \/ CancelRead(q) \/ CancelFails(q)
             \/ CancelRemoveJob(q) \/ CancelWrite(q)
      PROVE  status'[run[v]] \in Terminal
  BY <1>3 DEF CancelJobState, CancelRead, CancelFails, CancelRemoveJob, CancelWrite,
              WriteStatus
<1>4. ASSUME NEW w \in Workers, NEW s \in Scans, TakeJob(w, s)
      PROVE  status'[run[v]] \in Terminal
  BY <1>4 DEF TakeJob
<1>5. ASSUME NEW w \in Workers, InnerStep(w) PROVE status'[run[v]] \in Terminal
  <2>1. CASE WriteRunning(w)
    <3>1. w # v
      BY <2>1 DEF WriteRunning
    <3>2. run[w] # run[v]
      BY <2>1, <3>1 DEF WriteRunning, ExecutorOwnsJob
    <3> QED
      BY <2>1, <3>2 DEF WriteRunning, WriteStatus
  <2>2. CASE ~WriteRunning(w)
    BY <1>5, <2>2 DEF InnerStep, FindScan, ReadForUpdate, EnsureLocalCheckout,
         CheckoutThrows, RunScan, ScanReturns, TargetThrows, PersistFinding,
         WriteCompleted, Cleanup, WriteFailed, CallFails, PollReads, PollAborts,
         WriteStatus
  <2> QED
    BY <2>1, <2>2
<1>6. ASSUME NEW w \in Workers, FinishJob(w) \/ Crash(w) \/ LoseLock(w)
      PROVE  status'[run[v]] \in Terminal
  BY <1>6 DEF FinishJob, Crash, LoseLock
<1>7. CASE UNCHANGED vars
  BY <1>7 DEF vars
<1> QED
  BY <1>1, <1>2, <1>3, <1>4, <1>5, <1>6, <1>7, StepCases

\* Faults and lock losses are only counted up.
LEMMA CalmBefore == ASSUME TypeOK, [Next]_vars, Calm' PROVE Calm
<1> USE DEF TypeOK, Calm, dbVars, jobVars, execVars, workVars, reqVars, restVars,
     budget, Fault
<1>1. ASSUME NEW s \in Scans,
             CreateScan(s) \/ Enqueue(s) \/ EnqueueFails(s) \/ StalledCheck(s)
      PROVE  Calm
  BY <1>1 DEF CreateScan, Enqueue, EnqueueFails, StalledCheck
<1>2. ASSUME NEW q \in Requests, NEW s \in Scans, CancelFind(q, s) PROVE Calm
  BY <1>2 DEF CancelFind
<1>3. ASSUME NEW q \in Requests,
             \/ CancelJobState(q) \/ CancelRead(q) \/ CancelFails(q)
             \/ CancelRemoveJob(q) \/ CancelWrite(q)
      PROVE  Calm
  BY <1>3 DEF CancelJobState, CancelRead, CancelFails, CancelRemoveJob, CancelWrite
<1>4. ASSUME NEW w \in Workers, NEW s \in Scans, TakeJob(w, s) PROVE Calm
  BY <1>4 DEF TakeJob
<1>5. ASSUME NEW w \in Workers, InnerStep(w) PROVE Calm
  BY <1>5 DEF InnerStep, FindScan, ReadForUpdate, WriteRunning, EnsureLocalCheckout,
       CheckoutThrows, RunScan, ScanReturns, TargetThrows, PersistFinding, WriteCompleted,
       Cleanup, WriteFailed, CallFails, PollReads, PollAborts
<1>6. ASSUME NEW w \in Workers, FinishJob(w) \/ Crash(w) \/ LoseLock(w) PROVE Calm
  BY <1>6 DEF FinishJob, Crash, LoseLock
<1>7. CASE UNCHANGED vars
  BY <1>7 DEF vars
<1> QED
  BY <1>1, <1>2, <1>3, <1>4, <1>5, <1>6, <1>7, StepCases

\* An execution reaches its end, or a set abort signal, only over a terminal status.
LEMMA SettledStep ==
    ASSUME TypeOK, Fresh, ExecutorOwnsJob, Settled, [Next]_vars
    PROVE  Settled'
<1> DEFINE Early(v) == pc[v] \in {"idle", "find", "readRunning", "writeRunning"}
           Owed(v)  == \/ signal[v] # "clear"
                       \/ pc[v] \in {"ack", "nack"}
                       \/ pc[v] = "cleanup" /\ ~failing[v]
<1>1. ASSUME NEW v \in Workers PROVE Early(v)' => signal'[v] = "clear"
  <2> USE <1>1 DEF TypeOK, Settled, dbVars, jobVars, execVars, workVars, reqVars,
       restVars, budget, Goto
  <2>1. ASSUME NEW w \in Workers, NEW s \in Scans, TakeJob(w, s)
        PROVE  Early(v)' => signal'[v] = "clear"
    BY <2>1 DEF TakeJob
  <2>2. ASSUME NEW w \in Workers, InnerStep(w)
        PROVE  Early(v)' => signal'[v] = "clear"
    <3>1. CASE v # w
      BY <2>2, <3>1, InnerStepFrame
    <3>2. CASE v = w
      BY <2>2, <3>2 DEF InnerStep, FindScan, ReadForUpdate, WriteRunning,
           EnsureLocalCheckout, CheckoutThrows, RunScan, ScanReturns, TargetThrows,
           PersistFinding, WriteCompleted, Cleanup, WriteFailed, CallFails, PollReads,
           PollAborts, CatchTarget, Polling
    <3> QED
      BY <3>1, <3>2
  <2>3. ASSUME NEW w \in Workers, FinishJob(w) \/ Crash(w) \/ LoseLock(w)
        PROVE  Early(v)' => signal'[v] = "clear"
    BY <2>3 DEF FinishJob, Crash, LoseLock, Forget
  <2>4. CASE UNCHANGED <<pc, signal>>
    BY <2>4
  <2>5. ASSUME NEW s \in Scans,
               CreateScan(s) \/ Enqueue(s) \/ EnqueueFails(s) \/ StalledCheck(s)
        PROVE  UNCHANGED <<pc, signal>>
    BY <2>5 DEF CreateScan, Enqueue, EnqueueFails, StalledCheck
  <2>6. ASSUME NEW q \in Requests, NEW s \in Scans, CancelFind(q, s)
        PROVE  UNCHANGED <<pc, signal>>
    BY <2>6 DEF CancelFind
  <2>7. ASSUME NEW q \in Requests,
               \/ CancelJobState(q) \/ CancelRead(q) \/ CancelFails(q)
               \/ CancelRemoveJob(q) \/ CancelWrite(q)
        PROVE  UNCHANGED <<pc, signal>>
    BY <2>7 DEF CancelJobState, CancelRead, CancelFails, CancelRemoveJob, CancelWrite
  <2> QED
    BY <2>1, <2>2, <2>3, <2>4, <2>5, <2>6, <2>7, StepCases DEF vars
<1>2. ASSUME NEW v \in Workers, Calm', Owed(v)' PROVE Over(v)'
  <2>1. Calm
    BY <1>2, CalmBefore
  <2>2. Owed(v) => pc[v] # "idle" /\ pc[v] # "writeRunning" /\ Over(v)
    BY <2>1 DEF Settled, Calm
  <2>3. CASE Owed(v) /\ run'[v] = run[v]
    BY <2>1, <2>2, <2>3, StatusStaysTerminal DEF Over
  <2> USE <1>2 DEF TypeOK, dbVars, jobVars, execVars, workVars, reqVars, restVars,
       budget, Goto
  <2>4. ASSUME NEW w \in Workers, NEW s \in Scans, TakeJob(w, s) PROVE Over(v)'
    <3>1. v # w
      BY <1>1, <2>4 DEF TakeJob
    <3> QED
      BY <2>3, <2>4, <3>1 DEF TakeJob
  <2>5. ASSUME NEW w \in Workers, InnerStep(w) PROVE Over(v)'
    <3>1. run'[v] = run[v] /\ run[v] \in Scans
      BY <2>5, InnerStepFrame, <1>1
    <3>2. CASE v # w
      BY <2>3, <2>5, <3>1, <3>2, InnerStepFrame
    <3>3. CASE v = w /\ ~Owed(v)
      BY <2>5, <3>1, <3>3 DEF InnerStep, FindScan, ReadForUpdate, WriteRunning,
           EnsureLocalCheckout, CheckoutThrows, RunScan, ScanReturns, TargetThrows,
           PersistFinding, WriteCompleted, Cleanup, WriteFailed, CallFails, PollReads,
           PollAborts, CatchTarget, Polling, Over, WriteStatus, Terminal, RL!Terminal,
           Calm, Fault
    <3> QED
      BY <2>3, <3>1, <3>2, <3>3
  <2>6. ASSUME NEW w \in Workers, FinishJob(w) \/ Crash(w) \/ LoseLock(w)
        PROVE  Over(v)'
    <3>1. CASE v = w /\ ~LoseLock(w)
      BY <2>6, <3>1 DEF FinishJob, Crash, Forget
    <3>2. CASE v # w \/ LoseLock(w)
      BY <2>3, <2>6, <3>2 DEF FinishJob, Crash, LoseLock, Forget
    <3> QED
      BY <3>1, <3>2
  <2>7. CASE UNCHANGED <<pc, signal, failing, run>>
    BY <2>3, <2>7
  <2>8. ASSUME NEW s \in Scans,
               CreateScan(s) \/ Enqueue(s) \/ EnqueueFails(s) \/ StalledCheck(s)
        PROVE  UNCHANGED <<pc, signal, failing, run>>
    BY <2>8 DEF CreateScan, Enqueue, EnqueueFails, StalledCheck
  <2>9. ASSUME NEW q \in Requests, NEW s \in Scans, CancelFind(q, s)
        PROVE  UNCHANGED <<pc, signal, failing, run>>
    BY <2>9 DEF CancelFind
  <2>10. ASSUME NEW q \in Requests,
                \/ CancelJobState(q) \/ CancelRead(q) \/ CancelFails(q)
                \/ CancelRemoveJob(q) \/ CancelWrite(q)
         PROVE  UNCHANGED <<pc, signal, failing, run>>
    BY <2>10 DEF CancelJobState, CancelRead, CancelFails, CancelRemoveJob, CancelWrite
  <2> QED
    BY <2>4, <2>5, <2>6, <2>7, <2>8, <2>9, <2>10, StepCases DEF vars
<1> QED
  BY <1>1, <1>2 DEF Settled, Calm, Over

-----------------------------------------------------------------------------
(***************************************************************************)
(* No scan is left behind.                                                 *)
(***************************************************************************)
\* Whatever takes a driver away from a scan hands it to another one, or leaves the
\* status terminal.
LEMMA OrphanStep ==
    ASSUME TypeOK, Fresh, ExecutorOwnsJob, Settled, NoOrphan, [Next]_vars
    PROVE  NoOrphan'
<1> SUFFICES ASSUME Calm', NEW s \in Scans, status'[s] \in {"queued", "running"},
                    job'[s] # "exhausted"
             PROVE  Driven(s)'
  BY DEF NoOrphan, Calm
<1>1. Calm
  BY CalmBefore
<1>2. status[s] \in {"queued", "running"} /\ job[s] # "exhausted" => Driven(s)
  BY <1>1 DEF NoOrphan, Calm
<1> USE DEF TypeOK, dbVars, jobVars, execVars, workVars, reqVars, restVars, budget,
     Driven, CancelPending, Terminal, RL!Terminal
<1>3. ASSUME NEW t \in Scans, CreateScan(t) PROVE Driven(s)'
  BY <1>2, <1>3 DEF CreateScan
<1>4. ASSUME NEW t \in Scans, Enqueue(t) \/ StalledCheck(t) PROVE Driven(s)'
  BY <1>2, <1>4 DEF Enqueue, StalledCheck
<1>5. ASSUME NEW t \in Scans, EnqueueFails(t) PROVE Driven(s)'
  BY <1>5, <1>1 DEF EnqueueFails, Fault, Calm
<1>6. ASSUME NEW q \in Requests, NEW t \in Scans, CancelFind(q, t) PROVE Driven(s)'
  BY <1>2, <1>6 DEF CancelFind, ReqGoto
<1>7. ASSUME NEW q \in Requests, CancelJobState(q) \/ CancelRead(q) PROVE Driven(s)'
  BY <1>2, <1>7 DEF CancelJobState, CancelRead, ReqGoto
<1>8. ASSUME NEW q \in Requests, CancelRemoveJob(q) PROVE Driven(s)'
  BY <1>2, <1>8 DEF CancelRemoveJob, ReqGoto
<1>9. ASSUME NEW q \in Requests, CancelWrite(q) PROVE Driven(s)'
  BY <1>2, <1>9 DEF CancelWrite, ReqGoto, WriteStatus
<1>10. ASSUME NEW q \in Requests, CancelFails(q) PROVE Driven(s)'
  BY <1>10, <1>1 DEF CancelFails, Fault, Calm
<1>11. ASSUME NEW w \in Workers, NEW t \in Scans, TakeJob(w, t) PROVE Driven(s)'
  BY <1>2, <1>11 DEF TakeJob
<1>12. ASSUME NEW w \in Workers, InnerStep(w) PROVE Driven(s)'
  <2>1. CASE WriteRunning(w) /\ run[w] = s
    BY <1>1, <2>1 DEF WriteRunning, ExecutorOwnsJob, Calm
  <2>2. CASE ~(WriteRunning(w) /\ run[w] = s)
    <3>1. status[s] \in {"queued", "running"}
      BY <1>12, <2>2 DEF InnerStep, FindScan, ReadForUpdate, WriteRunning,
           EnsureLocalCheckout, CheckoutThrows, RunScan, ScanReturns, TargetThrows,
           PersistFinding, WriteCompleted, Cleanup, WriteFailed, CallFails, PollReads,
           PollAborts, WriteStatus
    <3> QED
      BY <1>2, <1>12, <3>1, InnerStepFrame
  <2> QED
    BY <2>1, <2>2
<1>13. ASSUME NEW w \in Workers, FinishJob(w) PROVE Driven(s)'
  <2>1. run[w] # s
    BY <1>1, <1>13 DEF FinishJob, Settled, Over, Calm
  <2> QED
    BY <1>2, <1>13, <2>1 DEF FinishJob
<1>14. ASSUME NEW w \in Workers, Crash(w) \/ LoseLock(w) PROVE Driven(s)'
  BY <1>2, <1>14 DEF Crash, LoseLock
<1>15. CASE UNCHANGED vars
  BY <1>2, <1>15 DEF vars
<1> QED
  BY <1>3, <1>4, <1>5, <1>6, <1>7, <1>8, <1>9, <1>10, <1>11, <1>12, <1>13, <1>14,
     <1>15, StepCases

-----------------------------------------------------------------------------
(***************************************************************************)
(* What an execution has persisted, and the checkout it holds.             *)
(***************************************************************************)
\* The set of findings still to be upserted shrinks only as their rows are written,
\* and nothing removes a history row.
LEMMA BackedStep ==
    ASSUME TypeOK, Backed, [Next]_vars
    PROVE  Backed'
<1> SUFFICES ASSUME NEW v \in Workers
             PROVE  /\ pc'[v] \in {"persist", "readDone", "writeDone"} =>
                         outcome'[v] \ todo'[v] \subseteq persisted'[run'[v]]
                    /\ pc'[v] \in {"readDone", "writeDone"} => todo'[v] = {}
  BY DEF Backed
<1> DEFINE Goal == /\ pc'[v] \in {"persist", "readDone", "writeDone"} =>
                         outcome'[v] \ todo'[v] \subseteq persisted'[run'[v]]
                   /\ pc'[v] \in {"readDone", "writeDone"} => todo'[v] = {}
<1> USE DEF TypeOK, Backed, dbVars, jobVars, execVars, workVars, reqVars, restVars,
     budget, Goto, WriteStatus
<1>1. ASSUME NEW s \in Scans,
             CreateScan(s) \/ Enqueue(s) \/ EnqueueFails(s) \/ StalledCheck(s)
      PROVE  Goal
  BY <1>1 DEF CreateScan, Enqueue, EnqueueFails, StalledCheck
<1>2. ASSUME NEW q \in Requests, NEW s \in Scans, CancelFind(q, s) PROVE Goal
  BY <1>2 DEF CancelFind
<1>3. ASSUME NEW q \in Requests,
             \/ CancelJobState(q) \/ CancelRead(q) \/ CancelFails(q)
             \/ CancelRemoveJob(q) \/ CancelWrite(q)
      PROVE  Goal
  BY <1>3 DEF CancelJobState, CancelRead, CancelFails, CancelRemoveJob, CancelWrite
<1>4. ASSUME NEW w \in Workers, NEW s \in Scans, TakeJob(w, s) PROVE Goal
  BY <1>4 DEF TakeJob
<1>5. ASSUME NEW w \in Workers, InnerStep(w) PROVE Goal
  <2>1. \A s \in Scans : persisted[s] \subseteq persisted'[s]
    BY <1>5 DEF InnerStep, FindScan, ReadForUpdate, WriteRunning, EnsureLocalCheckout,
         CheckoutThrows, RunScan, ScanReturns, TargetThrows, PersistFinding,
         WriteCompleted, Cleanup, WriteFailed, CallFails, PollReads, PollAborts
  <2>2. CASE v # w
    BY <1>5, <2>1, <2>2, InnerStepFrame
  <2>3. CASE v = w /\ PersistFinding(w)
    BY <2>3 DEF PersistFinding
  <2>4. CASE v = w /\ RunScan(w)
    BY <2>4 DEF RunScan, ScanReturns
  <2>5. CASE v = w /\ ~PersistFinding(w) /\ ~RunScan(w)
    BY <1>5, <2>5 DEF InnerStep, FindScan, ReadForUpdate, WriteRunning,
          EnsureLocalCheckout, CheckoutThrows, TargetThrows, WriteCompleted, Cleanup,
          WriteFailed, CallFails, PollReads, PollAborts, CatchTarget
  <2> QED
    BY <2>2, <2>3, <2>4, <2>5
<1>6. ASSUME NEW w \in Workers, FinishJob(w) \/ Crash(w) \/ LoseLock(w) PROVE Goal
  BY <1>6 DEF FinishJob, Crash, LoseLock, Forget
<1>7. CASE UNCHANGED vars
  BY <1>7 DEF vars
<1> QED
  BY <1>1, <1>2, <1>3, <1>4, <1>5, <1>6, <1>7, StepCases

\* Every path from the checkout leads through cleanup.
LEMMA CheckoutStep ==
    ASSUME TypeOK, CheckoutReleased, [Next]_vars
    PROVE  CheckoutReleased'
<1> USE DEF TypeOK, CheckoutReleased, dbVars, jobVars, execVars, workVars, reqVars,
     restVars, budget, Goto, WriteStatus
<1>1. ASSUME NEW s \in Scans,
             CreateScan(s) \/ Enqueue(s) \/ EnqueueFails(s) \/ StalledCheck(s)
      PROVE  CheckoutReleased'
  BY <1>1 DEF CreateScan, Enqueue, EnqueueFails, StalledCheck, Fault
<1>2. ASSUME NEW q \in Requests, NEW s \in Scans, CancelFind(q, s)
      PROVE  CheckoutReleased'
  BY <1>2 DEF CancelFind
<1>3. ASSUME NEW q \in Requests,
             \/ CancelJobState(q) \/ CancelRead(q) \/ CancelFails(q)
             \/ CancelRemoveJob(q) \/ CancelWrite(q)
      PROVE  CheckoutReleased'
  BY <1>3 DEF CancelJobState, CancelRead, CancelFails, CancelRemoveJob, CancelWrite,
       Fault
<1>4. ASSUME NEW w \in Workers, NEW s \in Scans, TakeJob(w, s) PROVE CheckoutReleased'
  BY <1>4 DEF TakeJob
<1>5. ASSUME NEW w \in Workers, InnerStep(w) PROVE CheckoutReleased'
  <2>1. faults' = 0 => faults = 0 /\ ~CallFails(w)
    BY <1>5 DEF InnerStep, FindScan, ReadForUpdate, WriteRunning, EnsureLocalCheckout,
         CheckoutThrows, RunScan, ScanReturns, TargetThrows, PersistFinding,
         WriteCompleted, Cleanup, WriteFailed, CallFails, PollReads, PollAborts, Fault
  <2>2. ASSUME NEW v \in Workers \ {w}, checkout'[v], faults' = 0
        PROVE  pc'[v] \in {"scan", "persist", "readDone", "writeDone", "cleanup"}
    BY <1>5, <2>1, <2>2, InnerStepFrame
  <2>3. ASSUME checkout'[w], faults' = 0
        PROVE  pc'[w] \in {"scan", "persist", "readDone", "writeDone", "cleanup"}
    BY <1>5, <2>1, <2>3 DEF InnerStep, FindScan, ReadForUpdate, WriteRunning,
         EnsureLocalCheckout, CheckoutThrows, RunScan, ScanReturns, TargetThrows,
         PersistFinding, WriteCompleted, Cleanup, WriteFailed, PollReads, PollAborts
  <2> QED
    BY <2>2, <2>3
<1>6. ASSUME NEW w \in Workers, FinishJob(w) \/ Crash(w) \/ LoseLock(w)
      PROVE  CheckoutReleased'
  BY <1>6 DEF FinishJob, Crash, LoseLock, Forget
<1>7. CASE UNCHANGED vars
  BY <1>7 DEF vars
<1> QED
  BY <1>1, <1>2, <1>3, <1>4, <1>5, <1>6, <1>7, StepCases

\* Only the execution of a scan stamps its startedAt, and only one that read it null.
LEMMA StampStep ==
    ASSUME TypeOK, ExecutorOwnsJob, FirstStamp, StartedOnce, [Next]_vars
    PROVE  FirstStamp' /\ StartedOnce'
<1> DEFINE Goal == FirstStamp' /\ StartedOnce'
<1> USE DEF TypeOK, FirstStamp, StartedOnce, dbVars, jobVars, execVars, workVars, reqVars,
     restVars, budget, Goto, WriteStatus
<1>1. ASSUME NEW s \in Scans,
             CreateScan(s) \/ Enqueue(s) \/ EnqueueFails(s) \/ StalledCheck(s)
      PROVE  Goal
  BY <1>1 DEF CreateScan, Enqueue, EnqueueFails, StalledCheck
<1>2. ASSUME NEW q \in Requests, NEW s \in Scans, CancelFind(q, s) PROVE Goal
  BY <1>2 DEF CancelFind
<1>3. ASSUME NEW q \in Requests,
             \/ CancelJobState(q) \/ CancelRead(q) \/ CancelFails(q)
             \/ CancelRemoveJob(q) \/ CancelWrite(q)
      PROVE  Goal
  BY <1>3 DEF CancelJobState, CancelRead, CancelFails, CancelRemoveJob, CancelWrite
<1>4. ASSUME NEW w \in Workers, NEW s \in Scans, TakeJob(w, s) PROVE Goal
  BY <1>4 DEF TakeJob
<1>5. ASSUME NEW w \in Workers, InnerStep(w) PROVE Goal
  <2>1. CASE WriteRunning(w)
    <3>1. lockLosses = 0 => \A v \in Workers \ {w} : pc[v] # "idle" => run[v] # run[w]
      BY <2>1 DEF ExecutorOwnsJob, WriteRunning
    <3> QED
      BY <2>1, <3>1 DEF WriteRunning
  <2>2. CASE ReadForUpdate(w)
    <3>1. UNCHANGED <<startedAt, run, lockLosses>>
      BY <2>2 DEF ReadForUpdate
    <3>2. pc'[w] = "writeRunning" => before'[w] = TimestampIsNull(run[w], "running")
      BY <2>2 DEF ReadForUpdate
    <3>3. \A v \in Workers \ {w} : pc'[v] = pc[v] /\ before'[v] = before[v]
      BY <2>2 DEF ReadForUpdate
    <3>4. pc'[w] = "writeRunning" /\ before'[w] => startedAt[run[w]] = 0
      BY <3>2 DEF TimestampIsNull
    <3> QED
      BY <3>1, <3>3, <3>4
  <2>3. CASE ~WriteRunning(w) /\ ~ReadForUpdate(w)
    <3>1. UNCHANGED <<startedAt, before, run, lockLosses>>
      BY <1>5, <2>3 DEF InnerStep, FindScan, EnsureLocalCheckout, CheckoutThrows, RunScan,
           ScanReturns, TargetThrows, PersistFinding, WriteCompleted, Cleanup,
           WriteFailed, CallFails, PollReads, PollAborts
    <3>2. pc'[w] # "writeRunning" \/ pc'[w] = pc[w]
      BY <1>5, <2>3 DEF InnerStep, FindScan, EnsureLocalCheckout, CheckoutThrows, RunScan,
           ScanReturns, TargetThrows, PersistFinding, WriteCompleted, Cleanup,
           WriteFailed, CallFails, PollReads, PollAborts, CatchTarget
    <3>3. \A v \in Workers \ {w} : pc'[v] = pc[v]
      BY <1>5, InnerStepFrame
    <3> QED
      BY <3>1, <3>2, <3>3
  <2> QED
    BY <2>1, <2>2, <2>3
<1>6. ASSUME NEW w \in Workers, FinishJob(w) \/ Crash(w) \/ LoseLock(w) PROVE Goal
  BY <1>6 DEF FinishJob, Crash, LoseLock, Forget
<1>7. CASE UNCHANGED vars
  BY <1>7 DEF vars
<1> QED
  BY <1>1, <1>2, <1>3, <1>4, <1>5, <1>6, <1>7, StepCases

-----------------------------------------------------------------------------
(***************************************************************************)
(* The theorems.                                                           *)
(***************************************************************************)
\* The initial state satisfies the inductive invariant.
LEMMA InvInit == Init => IInv
<1> SUFFICES ASSUME Init PROVE IInv
  OBVIOUS
<1>1. TypeOK
  BY TypeInit
<1>2. Fresh /\ ExecutorOwnsJob /\ Settled /\ NoOrphan /\ Backed /\ CheckoutReleased
  BY DEF Init, Fresh, ExecutorOwnsJob, Settled, NoOrphan, Backed, CheckoutReleased
<1>3. FirstStamp /\ StartedOnce
  BY DEF Init, FirstStamp, StartedOnce
<1> QED
  BY <1>1, <1>2, <1>3 DEF IInv

\* Every step preserves it.
LEMMA InvStep == IInv /\ [Next]_vars => IInv'
  BY TypeStep, FreshStep, OwnerStep, SettledStep, OrphanStep, BackedStep, CheckoutStep,
     StampStep DEF IInv

\* The strengthened invariant holds of the scan protocol for every number of
\* scans, workers, cancel requests, crashes, lost locks and failing calls.
THEOREM Inductive == Spec => []IInv
  BY InvInit, InvStep, PTL DEF Spec

\* Two executions of one scan never overlap while no lock is lost.
THEOREM MutualExclusion == Spec => []ExecutorOwnsJob
<1>1. IInv => ExecutorOwnsJob
  BY DEF IInv
<1> QED
  BY <1>1, Inductive, PTL

\* Without a failing call or a lost lock, a scan that is not over is still driven
\* by the API, the queue, a worker or a cancel request.
THEOREM NoScanLeftBehind == Spec => []NoOrphan
<1>1. IInv => NoOrphan
  BY DEF IInv
<1> QED
  BY <1>1, Inductive, PTL

\* Without a failing call, every checkout is removed by the execution that made it.
THEOREM NoCheckoutLeak == Spec => []CheckoutReleased
<1>1. IInv => CheckoutReleased
  BY DEF IInv
<1> QED
  BY <1>1, Inductive, PTL

\* While no lock is lost, redeliveries never overwrite startedAt.
THEOREM StampedOnce == Spec => []StartedOnce
<1>1. IInv => StartedOnce
  BY DEF IInv
<1> QED
  BY <1>1, Inductive, PTL

\* A row turns "completed" only when all findings of that execution are persisted.
THEOREM CompletedOnlyBacked == Spec => CompletedIsBacked
<1> DEFINE A == \A s \in Scans : status'[s] = "completed" /\ status[s] # "completed" =>
                    \E w \in Executing(s) : outcome[w] \subseteq persisted[s]
<1>1. IInv /\ [Next]_vars => [A]_vars
  <2> SUFFICES ASSUME IInv, [Next]_vars, NEW s \in Scans,
                      status'[s] = "completed", status[s] # "completed"
               PROVE  \E w \in Executing(s) : outcome[w] \subseteq persisted[s]
    OBVIOUS
  <2> USE DEF IInv, TypeOK, dbVars, jobVars, execVars, workVars, reqVars, restVars,
       budget
  <2>1. PICK w \in Workers : WriteCompleted(w) /\ run[w] = s
    <3>1. ASSUME NEW t \in Scans,
                 CreateScan(t) \/ Enqueue(t) \/ EnqueueFails(t) \/ StalledCheck(t)
          PROVE  FALSE
      BY <3>1 DEF CreateScan, Enqueue, EnqueueFails, StalledCheck
    <3>2. ASSUME NEW q \in Requests, NEW t \in Scans, CancelFind(q, t) PROVE FALSE
      BY <3>2 DEF CancelFind
    <3>3. ASSUME NEW q \in Requests,
                 \/ CancelJobState(q) \/ CancelRead(q) \/ CancelFails(q)
                 \/ CancelRemoveJob(q) \/ CancelWrite(q)
          PROVE  FALSE
      BY <3>3 DEF CancelJobState, CancelRead, CancelFails, CancelRemoveJob, CancelWrite,
                  WriteStatus
    <3>4. ASSUME NEW w \in Workers, NEW t \in Scans, TakeJob(w, t) PROVE FALSE
      BY <3>4 DEF TakeJob
    <3>5. ASSUME NEW w \in Workers, InnerStep(w) PROVE WriteCompleted(w) /\ run[w] = s
      BY <3>5 DEF InnerStep, FindScan, ReadForUpdate, WriteRunning,
           EnsureLocalCheckout, CheckoutThrows, RunScan, ScanReturns, TargetThrows,
           PersistFinding, WriteCompleted, Cleanup, WriteFailed, CallFails, PollReads,
           PollAborts, WriteStatus
    <3>6. ASSUME NEW w \in Workers, FinishJob(w) \/ Crash(w) \/ LoseLock(w) PROVE FALSE
      BY <3>6 DEF FinishJob, Crash, LoseLock
    <3>7. CASE UNCHANGED vars
      BY <3>7 DEF vars
    <3> QED
      BY <3>1, <3>2, <3>3, <3>4, <3>5, <3>6, <3>7, StepCases
  <2> QED
    BY <2>1 DEF WriteCompleted, Backed, Executing
<1>2. Spec => [][A]_vars
  BY <1>1, Inductive, PTL DEF Spec
<1> QED
  BY <1>2 DEF CompletedIsBacked

-----------------------------------------------------------------------------
(***************************************************************************)
(* Refinement.  Without cancel requests, crashes, lost locks and failing   *)
(* calls the status of a scan only takes the steps of RunLifecycle.        *)
(***************************************************************************)
\* Nobody cancels, and the environment does not use its budget.
Undisturbed == Requests = {} /\ MaxCrashes = 0 /\ MaxLockLosses = 0 /\ MaxFaults = 0

\* The status an execution has given its scan.
Phase(w) ==
    /\ signal[w] = "clear"
    /\ pc[w] \in {"find", "readRunning", "writeRunning"} => status[run[w]] = "queued"
    /\ pc[w] \in {"checkout", "scan", "persist", "readDone", "writeDone", "readFail",
                   "writeFail"} => status[run[w]] = "running"
    /\ pc[w] \notin {"cleanup", "readFail", "writeFail", "ack", "nack"} => ~failing[w]
    /\ pc[w] = "cleanup" /\ failing[w] => status[run[w]] = "running"

\* Each scan is delivered once, and its status follows its execution.
LifecycleInv ==
    /\ crashes = 0 /\ lockLosses = 0 /\ faults = 0
    /\ \A s \in Scans : /\ status[s] # "cancelled"
                        /\ job[s] \in {"none", "waiting"} => status[s] \in {"absent", "queued"}
                        /\ s \in creating => status[s] = "queued"
                        /\ job[s] = "active" => owner[s] # NoWorker
    /\ \A w \in Workers : Phase(w)

\* The initial state satisfies it.
LEMMA LifecycleInit == Init => LifecycleInv
  BY DEF Init, LifecycleInv, Phase

\* The steps outside an execution: only the API moves a status, from "absent" to
\* "queued".
LEMMA LifecycleOuter ==
    ASSUME Undisturbed, IInv, LifecycleInv, NEW s \in Scans,
           CreateScan(s) \/ Enqueue(s) \/ EnqueueFails(s) \/ StalledCheck(s)
    PROVE  LifecycleInv' /\ [RL!Next]_status
<1> USE DEF Undisturbed, IInv, TypeOK, LifecycleInv, Phase, dbVars, jobVars, execVars,
     workVars, reqVars, restVars, budget
<1>1. CASE CreateScan(s)
  <2>1. LifecycleInv'
    BY <1>1 DEF CreateScan, ExecutorOwnsJob, Fresh
  <2>2. RL!Accept(s)
    BY <1>1 DEF CreateScan, RL!Accept, RL!Move
  <2> QED
    BY <2>1, <2>2 DEF RL!Next
<1>2. CASE Enqueue(s)
  BY <1>2 DEF Enqueue
<1>3. CASE EnqueueFails(s)
  BY <1>3 DEF EnqueueFails, Fault
<1>4. CASE StalledCheck(s)
  BY <1>4 DEF StalledCheck
<1> QED
  BY <1>1, <1>2, <1>3, <1>4

\* The delivery of a job and its end move no status.
LEMMA LifecycleDelivery ==
    ASSUME Undisturbed, IInv, LifecycleInv, NEW w \in Workers,
           (\E s \in Scans : TakeJob(w, s)) \/ FinishJob(w) \/ Crash(w) \/ LoseLock(w)
    PROVE  LifecycleInv' /\ UNCHANGED status
<1> USE DEF Undisturbed, IInv, TypeOK, LifecycleInv, Phase, dbVars, jobVars, execVars,
     workVars, reqVars, restVars, budget, Goto
<1>1. ASSUME NEW s \in Scans, TakeJob(w, s) PROVE LifecycleInv' /\ UNCHANGED status
  BY <1>1, ConstantsAssumption DEF TakeJob, Fresh
<1>2. CASE FinishJob(w)
  <2>1. /\ pc' = [pc EXCEPT ![w] = "idle"] /\ failing' = [failing EXCEPT ![w] = FALSE]
        /\ signal' = [signal EXCEPT ![w] = "clear"] /\ run' = [run EXCEPT ![w] = NoScan]
        /\ UNCHANGED <<status, creating, crashes, lockLosses, faults>>
    BY <1>2 DEF FinishJob, Forget
  <2>2. ASSUME NEW s \in Scans
        PROVE  /\ job'[s] \in {"none", "waiting"} => status[s] \in {"absent", "queued"}
               /\ job'[s] = "active" => owner'[s] # NoWorker
    <3>1. \/ UNCHANGED <<job, owner>>
          \/ /\ job' = [job EXCEPT ![run[w]] = IF pc[w] = "ack" THEN "completed"
                                                               ELSE "failed"]
             /\ owner' = [owner EXCEPT ![run[w]] = NoWorker]
      BY <1>2 DEF FinishJob
    <3> QED
      BY <3>1
  <2>3. ASSUME NEW v \in Workers PROVE Phase(v)'
    BY <2>1
  <2> QED
    BY <2>1, <2>2, <2>3
<1>3. CASE Crash(w) \/ LoseLock(w)
  BY <1>3 DEF Crash, LoseLock
<1> QED
  BY <1>1, <1>2, <1>3

\* Inside an execution the status moves from "queued" to "running" and from there to
\* "completed" or "failed".
LEMMA LifecycleInner ==
    ASSUME Undisturbed, IInv, LifecycleInv, NEW w \in Workers, InnerStep(w)
    PROVE  LifecycleInv' /\ [RL!Next]_status
<1> DEFINE others == \A v \in Workers \ {w} : pc[v] # "idle" => run[v] # run[w]
<1>1. /\ UNCHANGED <<job, owner, run, creating, crashes, lockLosses>>
      /\ pc[w] # "idle" /\ pc'[w] # "idle" /\ run[w] \in Scans
      /\ \A v \in Workers \ {w} : pc'[v] = pc[v] /\ signal'[v] = signal[v]
                                  /\ failing'[v] = failing[v]
  BY InnerStepFrame DEF IInv, TypeOK
<1>2. job[run[w]] = "active" /\ others
  BY <1>1 DEF IInv, ExecutorOwnsJob, LifecycleInv
<1>3. faults' = 0 /\ ~CallFails(w)
  BY DEF InnerStep, FindScan, ReadForUpdate, WriteRunning, EnsureLocalCheckout,
     CheckoutThrows, RunScan, ScanReturns, TargetThrows, PersistFinding, WriteCompleted,
     Cleanup, WriteFailed, CallFails, PollReads, PollAborts, Fault, restVars, budget,
     Undisturbed, LifecycleInv
<1>4. ASSUME \A s \in Scans \ {run[w]} : status'[s] = status[s],
             status'[run[w]] \notin {"absent", "queued", "cancelled"}
               \/ status'[run[w]] = status[run[w]],
             Phase(w)'
      PROVE  LifecycleInv'
  <2>1. ASSUME NEW v \in Workers \ {w} PROVE Phase(v)'
    <3>1. pc[v] # "idle" => status'[run[v]] = status[run[v]]
      BY <1>2, <1>4 DEF IInv, TypeOK
    <3> QED
      BY <1>1, <3>1 DEF LifecycleInv, Phase
  <2>2. ASSUME NEW s \in Scans
        PROVE  /\ status'[s] # "cancelled"
               /\ job[s] \in {"none", "waiting"} => status'[s] \in {"absent", "queued"}
               /\ s \in creating => status'[s] = "queued"
    <3>1. CASE s = run[w]
      <4>1. s \notin creating
        BY <1>2, <3>1 DEF IInv, Fresh
      <4> QED
        BY <1>2, <1>4, <3>1, <4>1 DEF LifecycleInv
    <3>2. CASE s # run[w]
      BY <1>4, <3>2 DEF LifecycleInv
    <3> QED
      BY <3>1, <3>2
  <2> QED
    BY <1>1, <1>3, <1>4, <2>1, <2>2 DEF LifecycleInv
<1> DEFINE writes == WriteRunning(w) \/ WriteCompleted(w) \/ WriteFailed(w)
<1>5. CASE ~writes
  <2>1. UNCHANGED status
    BY <1>3, <1>5 DEF InnerStep, FindScan, ReadForUpdate, EnsureLocalCheckout,
       CheckoutThrows, RunScan, ScanReturns, TargetThrows, PersistFinding, Cleanup,
       PollReads, PollAborts, dbVars
  <2>3. \/ FindScan(w) \/ ReadForUpdate(w) \/ RunScan(w) \/ Cleanup(w)
        \/ EnsureLocalCheckout(w) \/ CheckoutThrows(w)
        \/ TargetThrows(w) \/ PersistFinding(w)
        \/ PollReads(w) \/ PollAborts(w)
    BY <1>3, <1>5 DEF InnerStep
  <2> USE <1>1, <2>1 DEF Goto, Phase, LifecycleInv, IInv, TypeOK, workVars
  <2>2. Phase(w)'
    <3>1. CASE FindScan(w)
      BY <3>1 DEF FindScan
    <3>2. CASE ReadForUpdate(w)
      BY <3>2 DEF ReadForUpdate
    <3>3. CASE EnsureLocalCheckout(w) \/ CheckoutThrows(w)
      BY <3>3 DEF EnsureLocalCheckout, CheckoutThrows, CatchTarget
    <3>4. CASE RunScan(w)
      BY <3>4 DEF RunScan, ScanReturns
    <3>5. CASE TargetThrows(w) \/ PersistFinding(w)
      BY <3>5 DEF TargetThrows, PersistFinding
    <3>6. CASE Cleanup(w)
      BY <3>6 DEF Cleanup, CatchTarget
    <3>7. CASE PollReads(w) \/ PollAborts(w)
      BY <3>7 DEF PollReads, PollAborts
    <3> QED
      BY <2>3, <3>1, <3>2, <3>3, <3>4, <3>5, <3>6, <3>7
  <2> QED
    BY <1>4, <2>1, <2>2
<1>6. CASE WriteRunning(w)
  <2>1. status[run[w]] = "queued" /\ status' = [status EXCEPT ![run[w]] = "running"]
    BY <1>6 DEF WriteRunning, WriteStatus, LifecycleInv, Phase
  <2>2. Phase(w)'
    BY <1>1, <1>6, <2>1 DEF WriteRunning, Goto, Phase, LifecycleInv, IInv, TypeOK, workVars
  <2>3. RL!Start(run[w])
    BY <2>1 DEF RL!Start, RL!Move
  <2> QED
    BY <1>1, <1>4, <2>1, <2>2, <2>3 DEF RL!Next, IInv, TypeOK
<1>7. CASE WriteCompleted(w) \/ WriteFailed(w)
  <2>1. PICK res \in {"completed", "failed"} :
          status[run[w]] = "running" /\ status' = [status EXCEPT ![run[w]] = res]
    BY <1>7 DEF WriteCompleted, WriteFailed, WriteStatus, LifecycleInv, Phase
  <2>2. Phase(w)'
    BY <1>1, <1>7, <2>1 DEF WriteCompleted, WriteFailed, Goto, Phase, LifecycleInv, IInv,
       TypeOK, workVars
  <2>3. RL!Finish(run[w])
    BY <2>1 DEF RL!Finish, RL!Move
  <2> QED
    BY <1>1, <1>4, <2>1, <2>2, <2>3 DEF RL!Next, IInv, TypeOK
<1> QED
  BY <1>5, <1>6, <1>7

\* Undisturbed, the scan protocol takes only the steps of the lifecycle it promises: a
\* scan is queued once, runs once and ends once.  (That it ends is left to TLC.)
THEOREM ImplementsLifecycle ==
    ASSUME Undisturbed
    PROVE  Spec => RL!Init /\ [][RL!Next]_status
<1>1. Init => RL!Init
  BY DEF Init, RL!Init
<1>2. IInv /\ LifecycleInv /\ [Next]_vars => LifecycleInv' /\ [RL!Next]_status
  <2> SUFFICES ASSUME IInv, LifecycleInv, [Next]_vars
               PROVE  LifecycleInv' /\ [RL!Next]_status
    OBVIOUS
  <2>1. CASE UNCHANGED vars
    BY <2>1 DEF vars, dbVars, jobVars, execVars, workVars, reqVars, restVars, budget,
       LifecycleInv, Phase
  <2>2. CASE \E s \in Scans : CreateScan(s) \/ Enqueue(s) \/ EnqueueFails(s)
                               \/ StalledCheck(s)
    BY <2>2, Undisturbed, LifecycleOuter
  <2>3. CASE \E w \in Workers : InnerStep(w)
    BY <2>3, Undisturbed, LifecycleInner
  <2>4. CASE \E w \in Workers : (\E s \in Scans : TakeJob(w, s)) \/ FinishJob(w)
                                 \/ Crash(w) \/ LoseLock(w)
    BY <2>4, Undisturbed, LifecycleDelivery
  <2> QED
    BY <2>1, <2>2, <2>3, <2>4, StepCases, Undisturbed DEF Undisturbed
<1> QED
  BY <1>1, <1>2, LifecycleInit, Inductive, PTL DEF Spec

-----------------------------------------------------------------------------
(***************************************************************************)
(* An execution aborted in time leaves no trace.                           *)
(***************************************************************************)
\* Nothing the API and the queue do lets an aborted scan come back.
LEMMA NoTraceOuter ==
    ASSUME TypeOK, NEW s \in Scans, NEW f \in Findings, NoTraceOf(s, f),
           \/ \E t \in Scans : CreateScan(t) \/ Enqueue(t) \/ EnqueueFails(t)
                               \/ StalledCheck(t)
           \/ \E q \in Requests, t \in Scans : CancelFind(q, t)
           \/ \E q \in Requests : \/ CancelJobState(q) \/ CancelRemoveJob(q) \/ CancelRead(q)
                                  \/ CancelWrite(q) \/ CancelFails(q)
           \/ UNCHANGED vars
    PROVE  NoTraceOf(s, f)'
<1> USE DEF NoTraceOf, Executing, TypeOK, dbVars, jobVars, execVars, workVars, reqVars
<1>1. ASSUME NEW t \in Scans, CreateScan(t) \/ Enqueue(t) \/ EnqueueFails(t) \/ StalledCheck(t)
      PROVE  NoTraceOf(s, f)'
  BY <1>1 DEF CreateScan, Enqueue, EnqueueFails, StalledCheck
<1>2. ASSUME NEW q \in Requests, NEW t \in Scans, CancelFind(q, t) PROVE NoTraceOf(s, f)'
  BY <1>2 DEF CancelFind
<1>3. ASSUME NEW q \in Requests, CancelJobState(q) \/ CancelRemoveJob(q) \/ CancelRead(q)
                                 \/ CancelFails(q)
      PROVE  NoTraceOf(s, f)'
  BY <1>3 DEF CancelJobState, CancelRemoveJob, CancelRead, CancelFails
<1>4. ASSUME NEW q \in Requests, CancelWrite(q) PROVE NoTraceOf(s, f)'
  BY <1>4 DEF CancelWrite, WriteStatus
<1>5. CASE UNCHANGED vars
  BY <1>5 DEF vars
<1> QED
  BY <1>1, <1>2, <1>3, <1>4, <1>5

\* Nor does anything the workers do: the aborted execution has nothing left to write, and
\* one that takes the job again finds the scan cancelled.
LEMMA NoTraceInner ==
    ASSUME TypeOK, NEW s \in Scans, NEW f \in Findings, NoTraceOf(s, f), NEW w \in Workers,
           \/ \E t \in Scans : TakeJob(w, t)
           \/ FindScan(w) \/ ReadForUpdate(w) \/ WriteRunning(w) \/ EnsureLocalCheckout(w)
           \/ CheckoutThrows(w) \/ RunScan(w) \/ TargetThrows(w) \/ PersistFinding(w)
           \/ WriteCompleted(w) \/ Cleanup(w) \/ WriteFailed(w) \/ FinishJob(w)
           \/ CallFails(w) \/ PollReads(w) \/ PollAborts(w) \/ Crash(w) \/ LoseLock(w)
    PROVE  NoTraceOf(s, f)'
<1> USE ConstantsAssumption
    DEF NoTraceOf, Executing, TypeOK, dbVars, jobVars, execVars, workVars, Goto, CatchTarget
<1>1. ASSUME NEW t \in Scans, TakeJob(w, t) PROVE NoTraceOf(s, f)'
  BY <1>1 DEF TakeJob
<1>2. CASE FindScan(w)
  BY <1>2 DEF FindScan
<1>3. CASE ReadForUpdate(w)
  BY <1>3 DEF ReadForUpdate
<1>4. CASE WriteRunning(w) \/ WriteCompleted(w) \/ WriteFailed(w)
  BY <1>4 DEF WriteRunning, WriteCompleted, WriteFailed, WriteStatus
<1>5. CASE EnsureLocalCheckout(w) \/ CheckoutThrows(w)
  BY <1>5 DEF EnsureLocalCheckout, CheckoutThrows
<1>6. CASE RunScan(w)
  BY <1>6 DEF RunScan, ScanReturns
<1>7. CASE TargetThrows(w)
  BY <1>7 DEF TargetThrows
<1>8. CASE PersistFinding(w)
  BY <1>8 DEF PersistFinding
<1>9. CASE Cleanup(w)
  BY <1>9 DEF Cleanup
<1>10. CASE FinishJob(w)
  BY <1>10 DEF FinishJob, Forget
<1>11. CASE CallFails(w)
  BY <1>11 DEF CallFails
<1>12. CASE PollReads(w) \/ PollAborts(w)
  BY <1>12 DEF PollReads, PollAborts
<1>13. CASE Crash(w)
  BY <1>13 DEF Crash, Forget
<1>14. CASE LoseLock(w)
  BY <1>14 DEF LoseLock
<1> QED
  BY <1>1, <1>2, <1>3, <1>4, <1>5, <1>6, <1>7, <1>8, <1>9, <1>10, <1>11, <1>12, <1>13, <1>14

\* Whatever crashes, redeliveries, lost locks and failing calls follow: once the cancel poll
\* aborted the only execution of a scan before its plugins returned, the row stays
\* "cancelled" and no finding is added to it.
THEOREM AbortedScansStayClean == Spec => AbortLeavesNoTrace
<1> SUFFICES ASSUME NEW s \in Scans, NEW f \in Findings
             PROVE  Spec => [](AbortedInTime(s) /\ f \notin persisted[s]
                                 => [](status[s] = "cancelled" /\ f \notin persisted[s]))
  BY DEF AbortLeavesNoTrace
<1>1. AbortedInTime(s) /\ f \notin persisted[s] => NoTraceOf(s, f)
  BY DEF AbortedInTime, NoTraceOf
<1>2. TypeOK /\ NoTraceOf(s, f) /\ [Next]_vars => NoTraceOf(s, f)'
  BY Steps, NoTraceOuter, NoTraceInner
<1>3. NoTraceOf(s, f) => status[s] = "cancelled" /\ f \notin persisted[s]
  BY DEF NoTraceOf
<1> QED
  BY <1>1, <1>2, <1>3, TypeCorrect, PTL DEF Spec
=============================================================================
