-------------------------- MODULE WorkerRuns_proofs --------------------------
(***************************************************************************)
(* Proofs about WorkerRuns, for every set of unit-test and coverage runs,  *)
(* every redelivery budget and any number of ends of the process, failing  *)
(* calls and cancel requests.                                              *)
(***************************************************************************)
EXTENDS WorkerRuns, TLAPS

\* The steps of an execution between its delivery and its acknowledgement.
Inner(k) == \/ FindRun(k) \/ WriteRunning(k) \/ EnsureLocalCheckout(k)
            \/ EngineReturns(k) \/ EngineThrows(k) \/ SaveResults(k)
            \/ WriteCompleted(k) \/ Cleanup(k) \/ WriteFailed(k) \/ CallFails(k)
            \/ PollReads(k) \/ PollAborts(k)

\* Every step is one of the actions: a disjunct of Next or a stutter.
LEMMA Steps ==
    ASSUME [Next]_vars
    PROVE  \/ \E r \in Runs : CreateRun(r) \/ Enqueue(r) \/ EnqueueFails(r) \/ StalledCheck(r)
           \/ \E q \in Requests, r \in Runs : CancelFind(q, r)
           \/ \E q \in Requests : \/ CancelJobState(q) \/ CancelRemoveJob(q)
                                  \/ CancelWrite(q) \/ CancelFails(q)
           \/ \E k \in Kinds, r \in Runs : TakeJob(k, r)
           \/ \E k \in Kinds : Inner(k) \/ FinishJob(k)
           \/ Shutdown \/ CloseNext \/ Kill \/ Boot
           \/ UNCHANGED vars
  BY DEF Next, ApiStep, KindStep, ProcStep, Execute, Engine, Inner

\* A step inside an execution moves no job, starts and ends no execution and touches
\* nothing of the other kind's.
LEMMA InnerFrame ==
    ASSUME TypeOK, NEW k \in Kinds, Inner(k)
    PROVE  /\ UNCHANGED <<job, stalls, run, creating, rpc, rrun, proc, ends>>
           /\ pc[k] # "idle" /\ pc'[k] # "idle"
           /\ \A j \in Kinds \ {k} : /\ pc'[j] = pc[j] /\ signal'[j] = signal[j]
                                     /\ part'[j] = part[j] /\ failing'[j] = failing[j]
           /\ \A r \in Runs : r # run[k] => status'[r] = status[r] /\ summary'[r] = summary[r]
           /\ faults' = faults \/ faults' = faults + 1
<1> USE DEF TypeOK, PcStates, restVars, jobVars, reqVars, Goto, SetStatus
<1>0. CatchTarget(k) # "idle" /\ AfterPart(k) # "idle"
  BY DEF CatchTarget, AfterPart
<1>1. CASE WriteRunning(k) \/ WriteCompleted(k) \/ WriteFailed(k)
  BY <1>1 DEF WriteRunning, WriteCompleted, WriteFailed, dbVars
<1>7. CASE FindRun(k)
  BY <1>7 DEF FindRun, dbVars
<1>2. CASE EnsureLocalCheckout(k) \/ Cleanup(k)
  BY <1>0, <1>2 DEF EnsureLocalCheckout, Cleanup, dbVars
<1>3. CASE EngineReturns(k) \/ EngineThrows(k)
  BY <1>3 DEF EngineReturns, EngineThrows, dbVars
<1>4. CASE SaveResults(k)
  BY <1>0, <1>4 DEF SaveResults
<1>5. CASE CallFails(k)
  BY <1>0, <1>5 DEF CallFails, dbVars, Fault
<1>6. CASE PollReads(k) \/ PollAborts(k)
  BY <1>6 DEF PollReads, PollAborts, Polling, dbVars
<1> QED
  BY <1>1, <1>2, <1>3, <1>4, <1>5, <1>6, <1>7 DEF Inner

-----------------------------------------------------------------------------
(***************************************************************************)
(* Type correctness.  That stalls stay within the budget needs to know     *)
(* which jobs are still delivered, and that executions have one.           *)
(***************************************************************************)
\* The initial state satisfies the whole invariant.
LEMMA InitInv == Init => IInv
<1> SUFFICES ASSUME Init PROVE IInv
  OBVIOUS
<1> USE RunsAssumption DEF Init
<1>1. TypeOK
  BY DEF TypeOK, RL!Statuses, RL!Terminal, JobStates, ProcStates, PcStates, Numbers
<1>2. Fresh /\ Deliverable /\ HoldsJob
  BY DEF Fresh, Deliverable, HoldsJob
<1>3. Recording /\ Settled /\ CompletedIsWhole /\ NoOrphan
  BY DEF Recording, Stored, Settled, CompletedIsWhole, NoOrphan
<1> QED
  BY <1>1, <1>2, <1>3 DEF IInv

\* An execution's number is one of the deliveries its run may have.
LEMMA NumberType ==
    ASSUME TypeOK, Deliverable, HoldsJob, NEW k \in Kinds, pc[k] # "idle"
    PROVE  Number(k) \in Numbers
  BY RunsAssumption DEF TypeOK, Deliverable, HoldsJob, Number, Numbers

\* Every step preserves the types.
LEMMA TypeStep == IInv /\ [Next]_vars => TypeOK'
<1> SUFFICES ASSUME IInv, [Next]_vars PROVE TypeOK'
  OBVIOUS
<1> USE RunsAssumption DEF IInv, TypeOK, JobStates, ProcStates, PcStates, RL!Statuses,
        RL!Terminal, dbVars, jobVars, execVars, reqVars, restVars, Goto, ReqGoto, SetStatus,
        Fault
<1>1. ASSUME NEW r \in Runs, CreateRun(r) \/ Enqueue(r) \/ EnqueueFails(r) PROVE TypeOK'
  BY <1>1 DEF CreateRun, Enqueue, EnqueueFails
<1>2. ASSUME NEW r \in Runs, StalledCheck(r) PROVE TypeOK'
  <2>1. stalls[r] <= MaxStalledCount /\ AfterJob(r) \in JobStates
    BY <1>2 DEF StalledCheck, Deliverable, AfterJob
  <2> QED
    BY <1>2, <2>1 DEF StalledCheck
<1>3. ASSUME NEW q \in Requests, NEW r \in Runs, CancelFind(q, r) PROVE TypeOK'
  BY <1>3 DEF CancelFind
<1>4. ASSUME NEW q \in Requests, \/ CancelJobState(q) \/ CancelRemoveJob(q)
                                 \/ CancelWrite(q) \/ CancelFails(q)
      PROVE  TypeOK'
  BY <1>4 DEF CancelJobState, CancelRemoveJob, CancelWrite, CancelFails
<1>5. ASSUME NEW k \in Kinds, NEW r \in Runs, TakeJob(k, r) PROVE TypeOK'
  BY <1>5 DEF TakeJob
<1>6. ASSUME NEW k \in Kinds, Inner(k) PROVE TypeOK'
  <2>0. CatchTarget(k) \in PcStates /\ AfterPart(k) \in {"complete", "save"}
    BY DEF CatchTarget, AfterPart
  <2>1. CASE FindRun(k) \/ WriteRunning(k) \/ WriteCompleted(k) \/ WriteFailed(k)
    BY <2>1 DEF FindRun, WriteRunning, WriteCompleted, WriteFailed
  <2>2. CASE EnsureLocalCheckout(k) \/ Cleanup(k)
    BY <2>0, <2>2 DEF EnsureLocalCheckout, Cleanup
  <2>3. CASE EngineReturns(k)
    BY <2>3 DEF EngineReturns
  <2>7. CASE EngineThrows(k)
    BY <2>7 DEF EngineThrows
  <2>4. CASE SaveResults(k)
    <3>1. Number(k) \in Numbers /\ run[k] \in Runs
      BY <2>4, NumberType DEF SaveResults, HoldsJob
    <3>2. /\ AfterPart(k) = "save" => part[k] + 1 \in 1..3
          /\ Parts(k)[part[k]] # "summary" => Parts(k)[part[k]] \in Tables
      BY <2>4 DEF SaveResults, AfterPart, Recording, Parts, Tables, Kinds
    <3>3. rows' \subseteq Runs \X Tables \X Numbers /\ summary' \in [Runs -> Numbers \cup {0}]
      BY <2>4, <3>1, <3>2 DEF SaveResults
    <3> QED
      BY <2>0, <2>4, <3>2, <3>3 DEF SaveResults
  <2>5. CASE CallFails(k)
    <3>1. pc' \in [Kinds -> PcStates] /\ faults' \in Nat
      BY <2>0, <2>5 DEF CallFails
    <3>2. failing' \in [Kinds -> BOOLEAN]
      BY <2>5 DEF CallFails
    <3> QED
      BY <2>5, <3>1, <3>2 DEF CallFails
  <2>6. CASE PollReads(k) \/ PollAborts(k)
    BY <2>6 DEF PollReads, PollAborts
  <2> QED
    BY <1>6, <2>1, <2>2, <2>3, <2>4, <2>5, <2>6, <2>7 DEF Inner
<1>7. ASSUME NEW ks \in SUBSET Kinds, Forget(ks)
      PROVE  /\ pc' \in [Kinds -> PcStates] /\ run' \in [Kinds -> Runs \cup {NoRun}]
             /\ signal' \in [Kinds -> {"clear", "seen", "aborted"}]
             /\ part' \in [Kinds -> 1..3] /\ failing' \in [Kinds -> BOOLEAN]
  <2>1. pc' \in [Kinds -> PcStates] /\ run' \in [Kinds -> Runs \cup {NoRun}]
    BY <1>7 DEF Forget
  <2>2. /\ signal' \in [Kinds -> {"clear", "seen", "aborted"}]
        /\ part' \in [Kinds -> 1..3]
    BY <1>7 DEF Forget
  <2>3. failing' \in [Kinds -> BOOLEAN]
    BY <1>7, Zenon DEF Forget
  <2> QED
    BY <2>1, <2>2, <2>3
<1>10. ASSUME NEW k \in Kinds, FinishJob(k) PROVE TypeOK'
  <2>1. Forget({k}) /\ {k} \in SUBSET Kinds
    BY <1>10 DEF FinishJob
  <2>2. job' \in [Runs -> JobStates]
    BY <1>10 DEF FinishJob, AfterJob
  <2> QED
    BY <1>7, <1>10, <2>1, <2>2 DEF FinishJob
<1>11. CASE Kill
  <2>1. Forget(Kinds)
    BY <1>11 DEF Kill
  <2> QED
    BY <1>7, <1>11, <2>1 DEF Kill
<1>8. CASE Shutdown \/ CloseNext \/ Boot
  BY <1>8 DEF Shutdown, CloseNext, Boot
<1>9. CASE UNCHANGED vars
  BY <1>9 DEF vars
<1> QED
  BY <1>1, <1>2, <1>3, <1>4, <1>5, <1>6, <1>8, <1>9, <1>10, <1>11, Steps

-----------------------------------------------------------------------------
(***************************************************************************)
(* The jobs: fresh until enqueued, delivered within the budget, held.      *)
(***************************************************************************)
\* A step inside an execution keeps runs that exist existing.
LEMMA InnerExists ==
    ASSUME TypeOK, NEW k \in Kinds, Inner(k), NEW r \in Runs, status'[r] = "absent"
    PROVE  status[r] = "absent"
<1> USE DEF TypeOK, dbVars, SetStatus
<1>1. CASE WriteRunning(k) \/ WriteCompleted(k) \/ WriteFailed(k)
  BY <1>1 DEF WriteRunning, WriteCompleted, WriteFailed
<1>2. CASE ~(WriteRunning(k) \/ WriteCompleted(k) \/ WriteFailed(k))
  BY <1>2 DEF Inner, FindRun, EnsureLocalCheckout, EngineReturns, EngineThrows, SaveResults,
     Cleanup, CallFails, PollReads, PollAborts
<1> QED
  BY <1>1, <1>2

\* Nothing but the API makes a job, and nothing unmakes one.
LEMMA FreshStep == IInv /\ [Next]_vars => Fresh'
<1> SUFFICES ASSUME IInv, [Next]_vars PROVE Fresh'
  OBVIOUS
<1> USE DEF IInv, TypeOK, Fresh, dbVars, jobVars, execVars, reqVars, restVars, SetStatus, ReqGoto
<1>1. ASSUME NEW r \in Runs, CreateRun(r) \/ Enqueue(r) \/ EnqueueFails(r) PROVE Fresh'
  BY <1>1 DEF CreateRun, Enqueue, EnqueueFails
<1>2. ASSUME NEW r \in Runs, StalledCheck(r) PROVE Fresh'
  BY <1>2 DEF StalledCheck, AfterJob
<1>3. ASSUME NEW q \in Requests, NEW r \in Runs, CancelFind(q, r) PROVE Fresh'
  BY <1>3 DEF CancelFind
<1>4. ASSUME NEW q \in Requests, CancelJobState(q) \/ CancelFails(q) PROVE Fresh'
  BY <1>4 DEF CancelJobState, CancelFails
<1>5. ASSUME NEW q \in Requests, CancelRemoveJob(q) \/ CancelWrite(q) PROVE Fresh'
  BY <1>5 DEF CancelRemoveJob, CancelWrite
<1>6. ASSUME NEW k \in Kinds, NEW r \in Runs, TakeJob(k, r) PROVE Fresh'
  BY <1>6 DEF TakeJob
<1>7. ASSUME NEW k \in Kinds, Inner(k) PROVE Fresh'
  BY <1>7, InnerFrame, InnerExists
<1>8. ASSUME NEW k \in Kinds, FinishJob(k) PROVE Fresh'
  BY <1>8 DEF FinishJob, AfterJob, HoldsJob
<1>9. CASE Shutdown \/ CloseNext \/ Kill \/ Boot
  BY <1>9 DEF Shutdown, CloseNext, Kill, Boot
<1>10. CASE UNCHANGED vars
  BY <1>10 DEF vars
<1> QED
  BY <1>1, <1>2, <1>3, <1>4, <1>5, <1>6, <1>7, <1>8, <1>9, <1>10, Steps

\* BullMQ delivers a job at most MaxStalledCount + 1 times.
LEMMA DeliverableStep == IInv /\ [Next]_vars => Deliverable'
<1> SUFFICES ASSUME IInv, [Next]_vars PROVE Deliverable'
  OBVIOUS
<1> USE RunsAssumption DEF IInv, TypeOK, Deliverable, jobVars, restVars, ReqGoto
<1>1. ASSUME NEW r \in Runs, CreateRun(r) \/ Enqueue(r) \/ EnqueueFails(r) PROVE Deliverable'
  BY <1>1 DEF CreateRun, Enqueue, EnqueueFails, Fresh
<1>2. ASSUME NEW r \in Runs, StalledCheck(r) PROVE Deliverable'
  BY <1>2 DEF StalledCheck, AfterJob
<1>3. ASSUME NEW q \in Requests, NEW r \in Runs, CancelFind(q, r) PROVE Deliverable'
  BY <1>3 DEF CancelFind
<1>4. ASSUME NEW q \in Requests, \/ CancelJobState(q) \/ CancelFails(q)
                                 \/ CancelRemoveJob(q) \/ CancelWrite(q)
      PROVE  Deliverable'
  BY <1>4 DEF CancelJobState, CancelFails, CancelRemoveJob, CancelWrite
<1>5. ASSUME NEW k \in Kinds, NEW r \in Runs, TakeJob(k, r) PROVE Deliverable'
  BY <1>5 DEF TakeJob
<1>6. ASSUME NEW k \in Kinds, Inner(k) PROVE Deliverable'
  BY <1>6, InnerFrame
<1>7. ASSUME NEW k \in Kinds, FinishJob(k) PROVE Deliverable'
  BY <1>7 DEF FinishJob, AfterJob
<1>8. CASE Shutdown \/ CloseNext \/ Kill \/ Boot
  BY <1>8 DEF Shutdown, CloseNext, Kill, Boot
<1>9. CASE UNCHANGED vars
  BY <1>9 DEF vars
<1> QED
  BY <1>1, <1>2, <1>3, <1>4, <1>5, <1>6, <1>7, <1>8, <1>9, Steps

\* An execution keeps its active job until it acknowledges it or the process dies: what
\* removes, enqueues or fails jobs leaves locked ones alone.
LEMMA HoldsJobStep == IInv /\ [Next]_vars => HoldsJob'
<1> SUFFICES ASSUME IInv, [Next]_vars PROVE HoldsJob'
  OBVIOUS
<1> USE RunsAssumption DEF IInv, TypeOK, HoldsJob, jobVars, execVars, restVars, ReqGoto
<1>1. ASSUME NEW r \in Runs, CreateRun(r) \/ Enqueue(r) \/ EnqueueFails(r) PROVE HoldsJob'
  BY <1>1 DEF CreateRun, Enqueue, EnqueueFails, Fresh
<1>2. ASSUME NEW r \in Runs, StalledCheck(r) PROVE HoldsJob'
  BY <1>2 DEF StalledCheck, Locked
<1>3. ASSUME NEW q \in Requests, NEW r \in Runs, CancelFind(q, r) PROVE HoldsJob'
  BY <1>3 DEF CancelFind
<1>4. ASSUME NEW q \in Requests, \/ CancelJobState(q) \/ CancelFails(q)
                                 \/ CancelRemoveJob(q) \/ CancelWrite(q)
      PROVE  HoldsJob'
  BY <1>4 DEF CancelJobState, CancelFails, CancelRemoveJob, CancelWrite, Locked
<1>5. ASSUME NEW k \in Kinds, NEW r \in Runs, TakeJob(k, r) PROVE HoldsJob'
  BY <1>5 DEF TakeJob, Goto
<1>6. ASSUME NEW k \in Kinds, Inner(k) PROVE HoldsJob'
  BY <1>6, InnerFrame
<1>7. ASSUME NEW k \in Kinds, FinishJob(k) PROVE HoldsJob'
  <2>1. /\ pc' = [j \in Kinds |-> IF j = k THEN "idle" ELSE pc[j]]
        /\ run' = [j \in Kinds |-> IF j = k THEN NoRun ELSE run[j]]
        /\ job' = [job EXCEPT ![run[k]] = AfterJob(run[k])]
        /\ pc[k] # "idle"
    BY <1>7 DEF FinishJob, Forget
  <2>2. \A j \in Kinds \ {k} : pc[j] # "idle" => run[j] # run[k]
    BY <2>1
  <2> QED
    BY <2>1, <2>2
<1>8. CASE Shutdown \/ CloseNext \/ Boot
  BY <1>8 DEF Shutdown, CloseNext, Boot
<1>9. CASE Kill
  BY <1>9 DEF Kill, Forget
<1>10. CASE UNCHANGED vars
  BY <1>10 DEF vars
<1> QED
  BY <1>1, <1>2, <1>3, <1>4, <1>5, <1>6, <1>7, <1>8, <1>9, <1>10, Steps

-----------------------------------------------------------------------------
(***************************************************************************)
(* The results: what an execution recorded is there until it completes.    *)
(***************************************************************************)
\* The two kinds never execute the same run.
LEMMA Apart ==
    ASSUME HoldsJob, NEW j \in Kinds, NEW k \in Kinds, j # k, pc[j] # "idle", pc[k] # "idle"
    PROVE  run[j] # run[k]
  BY DEF HoldsJob

\* Nobody else touches the results of a run while it is executed.
LEMMA KeepRecording ==
    ASSUME Recording, NEW k \in Kinds,
           UNCHANGED <<pc[k], run[k], part[k]>>,
           pc[k] # "idle" => UNCHANGED <<stalls[run[k]], summary[run[k]]>>,
           pc[k] # "idle" =>
               status'[run[k]] = status[run[k]] \/ status'[run[k]] = "cancelled",
           rows \subseteq rows'
    PROVE  /\ Stored(k)' /\ (pc'[k] = "save" => part'[k] <= Len(Parts(k)))
           /\ pc'[k] \in {"checkout", "engine", "save", "complete"} =>
                  status'[run'[k]] \in {"running", "cancelled"}
  BY DEF Recording, Stored, Number

\* Each statement adds its part under the execution's number, the summary last.
LEMMA SaveStores ==
    ASSUME TypeOK, Recording, HoldsJob, NEW k \in Kinds, SaveResults(k)
    PROVE  Stored(k)' /\ (pc'[k] = "save" => part'[k] <= Len(Parts(k)))
<1> DEFINE p == part[k]
<1>1. /\ pc[k] = "save" /\ run[k] \in Runs /\ p \in 1..3 /\ p <= Len(Parts(k))
      /\ pc'[k] = AfterPart(k) /\ Number(k)' = Number(k) /\ run' = run
      /\ part'[k] = IF AfterPart(k) = "save" THEN p + 1 ELSE 1
      /\ IF Parts(k)[p] = "summary"
         THEN summary'[run[k]] = Number(k) /\ rows' = rows
         ELSE rows' = rows \cup {<<run[k], Parts(k)[p], Number(k)>>} /\ summary' = summary
  BY DEF SaveResults, TypeOK, HoldsJob, Recording, Goto, Number, jobVars
<1>2. \A i \in 1..Len(Parts(k)) : i < p =>
          /\ Parts(k)[i] # "summary" /\ <<run[k], Parts(k)[i], Number(k)>> \in rows
  <2>1. \A i \in 1..Len(Parts(k)) : Parts(k)[i] = "summary" => i = Len(Parts(k))
    BY DEF Parts, Kinds
  <2>2. Len(Parts(k)) \in Nat
    BY DEF Parts, Kinds
  <2> QED
    BY <1>1, <2>1, <2>2 DEF Recording, Stored
<1>3. Len(Parts(k)) \in {2, 3}
  BY DEF Parts, Kinds
<1>4. \A i \in 1..Len(Parts(k)) : i <= p =>
          IF Parts(k)[i] = "summary" THEN summary'[run[k]] = Number(k)
          ELSE <<run[k], Parts(k)[i], Number(k)>> \in rows'
  BY <1>1, <1>2, <1>3
<1>5. CASE p = Len(Parts(k))
  <2>1. pc'[k] = "complete"
    BY <1>1, <1>5 DEF AfterPart
  <2> QED
    BY <1>1, <1>3, <1>4, <1>5, <2>1 DEF Stored
<1>6. CASE p # Len(Parts(k))
  <2>1. pc'[k] = "save" /\ part'[k] = p + 1
    BY <1>1, <1>6 DEF AfterPart
  <2> QED
    BY <1>1, <1>3, <1>4, <1>6, <2>1 DEF Stored
<1> QED
  BY <1>5, <1>6

\* Every step keeps what the executions recorded and have still to record in order.
LEMMA RecordingStep == IInv /\ [Next]_vars => Recording'
<1> SUFFICES ASSUME IInv, [Next]_vars, NEW j \in Kinds
             PROVE  /\ Stored(j)' /\ (pc'[j] = "save" => part'[j] <= Len(Parts(j)))
                    /\ pc'[j] \in {"checkout", "engine", "save", "complete"} =>
                           status'[run'[j]] \in {"running", "cancelled"}
  BY DEF Recording
<1> DEFINE Goal == /\ Stored(j)' /\ (pc'[j] = "save" => part'[j] <= Len(Parts(j)))
                   /\ pc'[j] \in {"checkout", "engine", "save", "complete"} =>
                          status'[run'[j]] \in {"running", "cancelled"}
<1>0. ASSUME pc'[j] \notin {"checkout", "engine", "save", "complete"} PROVE Goal
  BY <1>0 DEF Stored
<1>1. ASSUME NEW r \in Runs, CreateRun(r) \/ Enqueue(r) \/ EnqueueFails(r) PROVE Goal
  <2>1. pc[j] # "idle" => status'[run[j]] = status[run[j]]
    BY <1>1 DEF IInv, TypeOK, Fresh, HoldsJob, CreateRun, Enqueue, EnqueueFails, SetStatus,
       dbVars
  <2> QED
    BY <1>1, <2>1, KeepRecording DEF IInv, CreateRun, Enqueue, EnqueueFails, SetStatus,
       dbVars, jobVars, execVars
<1>2. ASSUME NEW r \in Runs, StalledCheck(r) PROVE Goal
  <2>1. pc[j] # "idle" => stalls'[run[j]] = stalls[run[j]]
    BY <1>2 DEF IInv, TypeOK, HoldsJob, StalledCheck, Locked
  <2> QED
    BY <1>2, <2>1, KeepRecording DEF IInv, StalledCheck, dbVars, execVars
<1>3. ASSUME NEW q \in Requests, NEW r \in Runs, CancelFind(q, r) PROVE Goal
  BY <1>3, KeepRecording DEF IInv, CancelFind, dbVars, jobVars, execVars
<1>4. ASSUME NEW q \in Requests, CancelJobState(q) \/ CancelFails(q) PROVE Goal
  BY <1>4, KeepRecording DEF IInv, CancelJobState, CancelFails, dbVars, jobVars, execVars
<1>5. ASSUME NEW q \in Requests, CancelRemoveJob(q) PROVE Goal
  BY <1>5, KeepRecording DEF IInv, CancelRemoveJob, dbVars, execVars
<1>6. ASSUME NEW q \in Requests, CancelWrite(q) PROVE Goal
  <2>1. pc[j] # "idle" => status'[run[j]] = status[run[j]] \/ status'[run[j]] = "cancelled"
    BY <1>6 DEF IInv, TypeOK, HoldsJob, CancelWrite, SetStatus
  <2> QED
    BY <1>6, <2>1, KeepRecording DEF IInv, CancelWrite, SetStatus, jobVars, execVars
<1>7. ASSUME NEW k \in Kinds, NEW r \in Runs, TakeJob(k, r) PROVE Goal
  <2>1. CASE j = k
    BY <1>0, <1>7, <2>1 DEF TakeJob, Goto, IInv, TypeOK
  <2>2. CASE j # k
    BY <1>7, <2>2, KeepRecording DEF TakeJob, Goto, IInv, TypeOK, dbVars
  <2> QED
    BY <2>1, <2>2
<1>8. ASSUME NEW k \in Kinds, Inner(k), j # k PROVE Goal
  <2>1. rows \subseteq rows'
    BY <1>8 DEF Inner, FindRun, WriteRunning, EnsureLocalCheckout, EngineReturns, EngineThrows,
       SaveResults, WriteCompleted, Cleanup, WriteFailed, CallFails, PollReads, PollAborts,
       SetStatus, dbVars
  <2>2. pc[j] # "idle" => run[j] # run[k] /\ run[j] \in Runs
    BY <1>8, InnerFrame, Apart DEF IInv, HoldsJob
  <2>3. pc[j] # "idle" => UNCHANGED <<status[run[j]], stalls[run[j]], summary[run[j]]>>
    BY <1>8, <2>2, InnerFrame DEF IInv
  <2> QED
    BY <1>8, <2>1, <2>3, InnerFrame, KeepRecording DEF IInv
<1>9. ASSUME Inner(j) PROVE Goal
  <2> USE DEF IInv, TypeOK, HoldsJob, Goto, SetStatus
  <2>1. CASE FindRun(j) \/ Cleanup(j) \/ WriteFailed(j) \/ WriteCompleted(j)
    <3>1. pc'[j] \notin {"checkout", "engine", "save", "complete"}
      BY <2>1 DEF FindRun, Cleanup, WriteFailed, WriteCompleted, CatchTarget
    <3> QED
      BY <1>0, <3>1
  <2>2. CASE WriteRunning(j)
    <3>1. pc'[j] = "checkout" /\ status'[run'[j]] = "running"
      BY <2>2 DEF WriteRunning
    <3> QED
      BY <3>1 DEF Stored
  <2>3. CASE EnsureLocalCheckout(j)
    <3>1. /\ pc'[j] = "engine" \/ pc'[j] \notin {"checkout", "engine", "save", "complete"}
          /\ pc[j] = "checkout" /\ UNCHANGED <<status, run>>
      BY <2>3 DEF EnsureLocalCheckout, CatchTarget, dbVars
    <3> QED
      BY <1>0, <3>1 DEF Stored, Recording
  <2>4. CASE EngineReturns(j)
    <3>1. /\ pc'[j] = "cleanup" \/ (pc'[j] = "save" /\ part'[j] = 1)
          /\ pc[j] = "engine" /\ UNCHANGED <<status, run>>
      BY <2>4 DEF EngineReturns, dbVars
    <3>2. 1 <= Len(Parts(j))
      BY DEF Parts, Kinds
    <3> QED
      BY <1>0, <3>1, <3>2 DEF Stored, Recording
  <2>5. CASE EngineThrows(j)
    BY <1>0, <2>5 DEF EngineThrows
  <2>6. CASE SaveResults(j)
    <3>1. status'[run'[j]] \in {"running", "cancelled"}
      BY <2>6 DEF SaveResults, Recording
    <3> QED
      BY <2>6, <3>1, SaveStores
  <2>7. CASE CallFails(j)
    <3>1. pc'[j] \notin {"checkout", "engine", "save", "complete"}
      BY <2>7 DEF CallFails, CatchTarget
    <3> QED
      BY <1>0, <3>1
  <2>8. CASE PollReads(j) \/ PollAborts(j)
    BY <2>8, KeepRecording DEF PollReads, PollAborts, dbVars, jobVars
  <2> QED
    BY <1>9, <2>1, <2>2, <2>3, <2>4, <2>5, <2>6, <2>7, <2>8 DEF Inner
<1>10. ASSUME NEW k \in Kinds, FinishJob(k) PROVE Goal
  <2>1. CASE j = k
    <3>1. pc'[j] = "idle"
      BY <1>10, <2>1 DEF FinishJob, Forget
    <3> QED
      BY <1>0, <3>1
  <2>2. CASE j # k
    <3>1. UNCHANGED <<pc[j], run[j], part[j], status, rows, summary, stalls>>
      BY <1>10, <2>2 DEF FinishJob, Forget, dbVars
    <3> QED
      BY <3>1, KeepRecording DEF IInv
  <2> QED
    BY <2>1, <2>2
<1>11. CASE Kill
  <2>1. pc'[j] = "idle"
    BY <1>11 DEF Kill, Forget
  <2> QED
    BY <1>0, <2>1
<1>12. CASE Shutdown \/ CloseNext \/ Boot \/ UNCHANGED vars
  BY <1>12, KeepRecording DEF IInv, Shutdown, CloseNext, Boot, dbVars, jobVars, execVars, vars
<1> QED
  BY <1>1, <1>2, <1>3, <1>4, <1>5, <1>6, <1>7, <1>8, <1>9, <1>10, <1>11, <1>12, Steps

\* A record of results outlives every step that leaves the summary of its run alone.
LEMMA KeepRecorded ==
    ASSUME NEW r, NEW n, Recorded(r, n), summary'[r] = summary[r], rows \subseteq rows'
    PROVE  Recorded(r, n)'
  BY DEF Recorded

\* A step other than "completed" preserves completed runs; "completed" finds all parts.
LEMMA WholeStep == IInv /\ [Next]_vars => CompletedIsWhole'
<1> SUFFICES ASSUME IInv, [Next]_vars, NEW r \in Runs, status'[r] = "completed"
             PROVE  \E n \in Numbers : Recorded(r, n)'
  BY DEF CompletedIsWhole
<1> DEFINE Goal == \E n \in Numbers : Recorded(r, n)'
<1>1. ASSUME status[r] = "completed", summary'[r] = summary[r], rows \subseteq rows' PROVE Goal
  BY <1>1, KeepRecorded DEF IInv, CompletedIsWhole
<1>2. ASSUME UNCHANGED dbVars PROVE Goal
  BY <1>1, <1>2 DEF dbVars
<1>3. ASSUME NEW s \in Runs, CreateRun(s) \/ Enqueue(s) \/ EnqueueFails(s) \/ StalledCheck(s)
      PROVE  Goal
  <2>1. CASE CreateRun(s)
    BY <1>1, <2>1 DEF CreateRun, SetStatus, IInv, TypeOK
  <2>2. CASE ~CreateRun(s)
    BY <1>2, <1>3, <2>2 DEF Enqueue, EnqueueFails, StalledCheck
  <2> QED
    BY <2>1, <2>2
<1>4. ASSUME NEW q \in Requests, NEW s \in Runs, CancelFind(q, s) PROVE Goal
  BY <1>2, <1>4 DEF CancelFind
<1>5. ASSUME NEW q \in Requests, \/ CancelJobState(q) \/ CancelRemoveJob(q)
                                 \/ CancelWrite(q) \/ CancelFails(q)
      PROVE  Goal
  <2>1. CASE CancelWrite(q)
    BY <1>1, <2>1 DEF CancelWrite, SetStatus, IInv, TypeOK
  <2>2. CASE ~CancelWrite(q)
    BY <1>2, <1>5, <2>2 DEF CancelJobState, CancelRemoveJob, CancelFails
  <2> QED
    BY <2>1, <2>2
<1>6. ASSUME NEW k \in Kinds, NEW s \in Runs, TakeJob(k, s) PROVE Goal
  BY <1>2, <1>6 DEF TakeJob
<1>7. ASSUME NEW k \in Kinds, Inner(k) PROVE Goal
  <2> USE DEF IInv, TypeOK, SetStatus
  <2>1. CASE WriteRunning(k) \/ WriteFailed(k)
    BY <1>1, <2>1 DEF WriteRunning, WriteFailed
  <2>2. CASE WriteCompleted(k)
    <3>1. CASE r # run[k]
      BY <1>1, <2>2, <3>1 DEF WriteCompleted
    <3>2. CASE r = run[k]
      <4>1. /\ pc[k] = "complete" /\ KindOf[r] = k /\ Number(k) \in Numbers
            /\ UNCHANGED <<summary, rows>>
        BY <2>2, <3>2, NumberType DEF WriteCompleted, HoldsJob
      <4>2. \A i \in 1..Len(Parts(k)) :
                IF Parts(k)[i] = "summary" THEN summary[r] = Number(k)
                ELSE <<r, Parts(k)[i], Number(k)>> \in rows
        BY <3>2, <4>1 DEF Recording, Stored
      <4>3. \E i \in 1..Len(Parts(k)) : Parts(k)[i] = "summary"
        <5>1. Parts("unitTest")[3] = "summary" /\ 3 \in 1..Len(Parts("unitTest"))
          BY DEF Parts
        <5>2. Parts("coverage")[2] = "summary" /\ 2 \in 1..Len(Parts("coverage"))
          BY DEF Parts
        <5> QED
          BY <5>1, <5>2 DEF Kinds
      <4>4. Recorded(r, Number(k))
        BY <4>1, <4>2, <4>3 DEF Recorded, Tables
      <4>5. Recorded(r, Number(k))' <=> Recorded(r, Number(k))
        <5>1. Number(k)' = Number(k)
          BY <2>2 DEF WriteCompleted, Number, jobVars
        <5> QED
          BY <4>1, <5>1 DEF Recorded
      <4>6. \E n \in Numbers : n = Number(k) /\ Recorded(r, n)
        BY <4>1, <4>4
      <4> QED
        BY <4>1, <4>6, KeepRecorded
    <3> QED
      BY <3>1, <3>2
  <2>3. CASE SaveResults(k)
    <3>1. /\ status[run[k]] # "completed" /\ UNCHANGED status /\ rows \subseteq rows'
          /\ summary' = summary \/ summary' = [summary EXCEPT ![run[k]] = Number(k)]
      BY <2>3 DEF SaveResults, Recording
    <3> QED
      BY <1>1, <3>1
  <2>4. CASE ~(\/ WriteRunning(k) \/ WriteFailed(k) \/ WriteCompleted(k) \/ SaveResults(k))
    BY <1>2, <1>7, <2>4 DEF Inner, FindRun, EnsureLocalCheckout, EngineReturns, EngineThrows,
       Cleanup, CallFails, PollReads, PollAborts
  <2> QED
    BY <2>1, <2>2, <2>3, <2>4
<1>8. ASSUME NEW k \in Kinds, FinishJob(k) PROVE Goal
  BY <1>2, <1>8 DEF FinishJob
<1>9. CASE Shutdown \/ CloseNext \/ Kill \/ Boot \/ UNCHANGED vars
  BY <1>2, <1>9 DEF Shutdown, CloseNext, Kill, Boot, vars
<1> QED
  BY <1>3, <1>4, <1>5, <1>6, <1>7, <1>8, <1>9, Steps

-----------------------------------------------------------------------------
(***************************************************************************)
(* Nobody is left behind.                                                  *)
(***************************************************************************)
\* A run's status stays terminal except by the two writes that start it.
LEMMA StaysTerminal ==
    ASSUME IInv, [Next]_vars, NEW r \in Runs, status[r] \in Terminal,
           \A k \in Kinds : WriteRunning(k) => run[k] # r
    PROVE  status'[r] \in Terminal
<1> USE DEF IInv, TypeOK, SetStatus, dbVars, Terminal, RL!Terminal
<1>1. ASSUME NEW s \in Runs, CreateRun(s) \/ Enqueue(s) \/ EnqueueFails(s) \/ StalledCheck(s)
      PROVE  status'[r] \in Terminal
  BY <1>1 DEF CreateRun, Enqueue, EnqueueFails, StalledCheck
<1>2. ASSUME NEW q \in Requests, NEW s \in Runs, CancelFind(q, s)
      PROVE  status'[r] \in Terminal
  BY <1>2 DEF CancelFind
<1>3. ASSUME NEW q \in Requests, \/ CancelJobState(q) \/ CancelRemoveJob(q)
                                 \/ CancelWrite(q) \/ CancelFails(q)
      PROVE  status'[r] \in Terminal
  BY <1>3 DEF CancelJobState, CancelRemoveJob, CancelWrite, CancelFails
<1>4. ASSUME NEW k \in Kinds, NEW s \in Runs, TakeJob(k, s) PROVE status'[r] \in Terminal
  BY <1>4 DEF TakeJob
<1>5. ASSUME NEW k \in Kinds, Inner(k) PROVE status'[r] \in Terminal
  <2>1. CASE WriteRunning(k) \/ WriteCompleted(k) \/ WriteFailed(k)
    BY <2>1 DEF WriteRunning, WriteCompleted, WriteFailed
  <2>2. CASE ~(WriteRunning(k) \/ WriteCompleted(k) \/ WriteFailed(k))
    BY <1>5, <2>2 DEF Inner, FindRun, EnsureLocalCheckout, EngineReturns, EngineThrows,
       SaveResults, Cleanup, CallFails, PollReads, PollAborts
  <2> QED
    BY <2>1, <2>2
<1>6. ASSUME NEW k \in Kinds, FinishJob(k) PROVE status'[r] \in Terminal
  BY <1>6 DEF FinishJob
<1>7. CASE Shutdown \/ CloseNext \/ Kill \/ Boot \/ UNCHANGED vars
  BY <1>7 DEF Shutdown, CloseNext, Kill, Boot, vars
<1> QED
  BY <1>1, <1>2, <1>3, <1>4, <1>5, <1>6, <1>7, Steps

\* A call that failed stays counted.
LEMMA FaultsGrow == TypeOK /\ [Next]_vars /\ faults' = 0 => faults = 0
<1> SUFFICES ASSUME TypeOK, [Next]_vars, faults' = 0 PROVE faults = 0
  OBVIOUS
<1> USE DEF TypeOK, Fault
<1>1. ASSUME NEW k \in Kinds, Inner(k) PROVE faults = 0
  BY <1>1, InnerFrame
<1>2. ASSUME NEW r \in Runs, CreateRun(r) \/ Enqueue(r) \/ EnqueueFails(r) \/ StalledCheck(r)
      PROVE  faults = 0
  BY <1>2 DEF CreateRun, Enqueue, EnqueueFails, StalledCheck
<1>3. ASSUME NEW q \in Requests, NEW r \in Runs, CancelFind(q, r) PROVE faults = 0
  BY <1>3 DEF CancelFind
<1>4. ASSUME NEW q \in Requests, \/ CancelJobState(q) \/ CancelRemoveJob(q)
                                 \/ CancelWrite(q) \/ CancelFails(q)
      PROVE  faults = 0
  BY <1>4 DEF CancelJobState, CancelRemoveJob, CancelWrite, CancelFails
<1>5. ASSUME NEW k \in Kinds, NEW r \in Runs, TakeJob(k, r) PROVE faults = 0
  BY <1>5 DEF TakeJob
<1>6. ASSUME NEW k \in Kinds, FinishJob(k) PROVE faults = 0
  BY <1>6 DEF FinishJob
<1>7. CASE Shutdown \/ CloseNext \/ Kill \/ Boot \/ UNCHANGED vars
  BY <1>7 DEF Shutdown, CloseNext, Kill, Boot, vars
<1> QED
  BY <1>1, <1>2, <1>3, <1>4, <1>5, <1>6, <1>7, Steps

\* An execution settles its run before it ends, and a cancellation it saw stays.
LEMMA SettledStep == IInv /\ [Next]_vars => Settled'
<1> SUFFICES ASSUME IInv, [Next]_vars, NEW j \in Kinds
             PROVE  /\ signal'[j] # "clear" => /\ pc'[j] \notin {"idle", "find", "start"}
                                               /\ status'[run'[j]] \in Terminal
                    /\ faults' = 0 /\ (pc'[j] = "finish" \/ (pc'[j] = "cleanup" /\ ~failing'[j]))
                          => status'[run'[j]] \in Terminal
  BY DEF Settled
<1> DEFINE Goal ==
      /\ signal'[j] # "clear" => /\ pc'[j] \notin {"idle", "find", "start"}
                                 /\ status'[run'[j]] \in Terminal
      /\ faults' = 0 /\ (pc'[j] = "finish" \/ (pc'[j] = "cleanup" /\ ~failing'[j]))
            => status'[run'[j]] \in Terminal
<1>0. ASSUME UNCHANGED <<pc[j], run[j], signal[j], failing[j]>>,
             \A k \in Kinds : WriteRunning(k) => k # j
      PROVE  Goal
  <2>1. pc[j] # "idle" /\ status[run[j]] \in Terminal => status'[run[j]] \in Terminal
    <3>1. \A k \in Kinds : pc[j] # "idle" /\ WriteRunning(k) => run[k] # run[j]
      BY <1>0, Apart DEF IInv, WriteRunning
    <3> QED
      BY <3>1, StaysTerminal DEF IInv, HoldsJob
  <2> QED
    BY <1>0, <2>1, FaultsGrow DEF IInv, Settled
<1>1. ASSUME UNCHANGED execVars, \A k \in Kinds : ~WriteRunning(k) PROVE Goal
  BY <1>0, <1>1 DEF execVars
<1>2. ASSUME NEW r \in Runs, CreateRun(r) \/ Enqueue(r) \/ EnqueueFails(r) \/ StalledCheck(r)
      PROVE  Goal
  <2>1. UNCHANGED execVars
    BY <1>2 DEF CreateRun, Enqueue, EnqueueFails, StalledCheck
  <2>2. \A k \in Kinds : ~WriteRunning(k)
    BY <2>1 DEF WriteRunning, Goto, execVars, IInv, TypeOK
  <2> QED
    BY <1>1, <2>1, <2>2
<1>3. ASSUME NEW q \in Requests, NEW r \in Runs, CancelFind(q, r) PROVE Goal
  <2>1. UNCHANGED execVars
    BY <1>3 DEF CancelFind
  <2>2. \A k \in Kinds : ~WriteRunning(k)
    BY <2>1 DEF WriteRunning, Goto, execVars, IInv, TypeOK
  <2> QED
    BY <1>1, <2>1, <2>2
<1>4. ASSUME NEW q \in Requests, \/ CancelJobState(q) \/ CancelRemoveJob(q)
                                 \/ CancelWrite(q) \/ CancelFails(q)
      PROVE  Goal
  <2>1. UNCHANGED execVars
    BY <1>4 DEF CancelJobState, CancelRemoveJob, CancelWrite, CancelFails
  <2>2. \A k \in Kinds : ~WriteRunning(k)
    BY <2>1 DEF WriteRunning, Goto, execVars, IInv, TypeOK
  <2> QED
    BY <1>1, <2>1, <2>2
<1>5. ASSUME NEW k \in Kinds, NEW r \in Runs, TakeJob(k, r) PROVE Goal
  <2>1. CASE j = k
    <3>1. pc[j] = "idle" /\ pc'[j] = "find" /\ signal'[j] = signal[j]
      BY <1>5, <2>1 DEF TakeJob, Goto, IInv, TypeOK
    <3> QED
      BY <3>1 DEF IInv, Settled
  <2>2. CASE j # k
    <3>1. UNCHANGED <<pc[j], run[j], signal[j], failing[j], status>>
      BY <1>5, <2>2 DEF TakeJob, Goto, IInv, TypeOK, dbVars
    <3>2. ~WriteRunning(j)
      BY <3>1 DEF WriteRunning, Goto, IInv, TypeOK
    <3> QED
      BY <1>0, <3>1, <3>2
  <2> QED
    BY <2>1, <2>2
<1>6. ASSUME NEW k \in Kinds, Inner(k), j # k PROVE Goal
  <2>1. UNCHANGED <<pc[j], run[j], signal[j], failing[j]>>
    BY <1>6, InnerFrame DEF IInv
  <2>2. ~WriteRunning(j)
    BY <2>1 DEF WriteRunning, Goto, IInv, TypeOK
  <2> QED
    BY <1>0, <2>1, <2>2
<1>7. ASSUME Inner(j) PROVE Goal
  <2> USE DEF IInv, TypeOK, HoldsJob, Settled, Goto, SetStatus, dbVars, Terminal, RL!Terminal
  <2>0. faults' = 0 => faults = 0
    BY FaultsGrow
  <2>1. CASE FindRun(j)
    BY <2>1 DEF FindRun
  <2>2. CASE WriteRunning(j)
    BY <2>2 DEF WriteRunning
  <2>3. CASE WriteCompleted(j) \/ WriteFailed(j)
    BY <2>3 DEF WriteCompleted, WriteFailed
  <2>4. CASE EnsureLocalCheckout(j)
    BY <2>4 DEF EnsureLocalCheckout, CatchTarget
  <2>5. CASE EngineReturns(j)
    BY <2>5 DEF EngineReturns
  <2>6. CASE EngineThrows(j)
    BY <2>6 DEF EngineThrows
  <2>7. CASE SaveResults(j)
    <3>1. /\ pc[j] = "save" /\ pc'[j] \in {"save", "complete"}
          /\ UNCHANGED <<status, run, signal>>
      BY <2>7 DEF SaveResults, AfterPart
    <3> QED
      BY <3>1
  <2>8. CASE Cleanup(j)
    BY <2>0, <2>8 DEF Cleanup, CatchTarget
  <2>9. CASE CallFails(j)
    <3>1. faults' # 0 /\ UNCHANGED <<status, run, signal>>
      BY <2>9 DEF CallFails, Fault
    <3>2. pc'[j] \notin {"idle", "find", "start"}
      BY <2>9 DEF CallFails, CatchTarget
    <3> QED
      BY <3>1, <3>2
  <2>10. CASE PollReads(j)
    BY <2>0, <2>10 DEF PollReads, Polling
  <2>11. CASE PollAborts(j)
    BY <2>0, <2>11 DEF PollAborts
  <2> QED
    BY <1>7, <2>1, <2>2, <2>3, <2>4, <2>5, <2>6, <2>7, <2>8, <2>9, <2>10, <2>11 DEF Inner
<1>8. ASSUME NEW k \in Kinds, FinishJob(k) PROVE Goal
  <2>1. CASE j = k
    <3>1. pc'[j] = "idle" /\ signal'[j] = "clear"
      BY <1>8, <2>1 DEF FinishJob, Forget
    <3> QED
      BY <3>1
  <2>2. CASE j # k
    <3>1. UNCHANGED <<pc[j], run[j], signal[j], status>>
      BY <1>8, <2>2 DEF FinishJob, Forget, dbVars
    <3>2. failing'[j] <=> failing[j]
      <4>1. failing' = [i \in Kinds |-> failing[i] /\ i \notin {k}]
        BY <1>8 DEF FinishJob, Forget
      <4> QED
        BY <2>2, <4>1, Zenon
    <3>3. faults' = 0 => faults = 0
      BY FaultsGrow DEF IInv
    <3> QED
      BY <3>1, <3>2, <3>3 DEF IInv, Settled
  <2> QED
    BY <2>1, <2>2
<1>9. CASE Kill
  <2>1. pc'[j] = "idle" /\ signal'[j] = "clear"
    BY <1>9 DEF Kill, Forget
  <2> QED
    BY <2>1
<1>10. CASE Shutdown \/ CloseNext \/ Boot \/ UNCHANGED vars
  <2>1. UNCHANGED execVars
    BY <1>10 DEF Shutdown, CloseNext, Boot, vars
  <2>2. \A k \in Kinds : ~WriteRunning(k)
    BY <2>1 DEF WriteRunning, Goto, execVars, IInv, TypeOK
  <2> QED
    BY <1>1, <2>1, <2>2
<1> QED
  BY <1>2, <1>3, <1>4, <1>5, <1>6, <1>7, <1>8, <1>9, <1>10, Steps

\* Whoever ends hands the run over or has settled it.
LEMMA OrphanStep == IInv /\ [Next]_vars => NoOrphan'
<1> SUFFICES ASSUME IInv, [Next]_vars, faults' = 0, faults = 0,
                    NEW r \in Runs, status'[r] \in {"queued", "running"}
             PROVE  \/ r \in creating' \/ job'[r] \in {"waiting", "active"}
                    \/ CancelPending(r)' \/ stalls'[r] > MaxStalledCount
  BY FaultsGrow DEF IInv, NoOrphan
<1> DEFINE Goal == \/ r \in creating' \/ job'[r] \in {"waiting", "active"}
                   \/ CancelPending(r)' \/ stalls'[r] > MaxStalledCount
<1> USE RunsAssumption DEF IInv, TypeOK, jobVars, reqVars, restVars, dbVars, ReqGoto, SetStatus
<1>0. ASSUME UNCHANGED <<status, job, stalls, creating, rpc, rrun>> PROVE Goal
  BY <1>0 DEF NoOrphan, CancelPending
<1>1. ASSUME NEW s \in Runs, CreateRun(s) PROVE Goal
  BY <1>1 DEF CreateRun, NoOrphan, CancelPending
<1>2. ASSUME NEW s \in Runs, Enqueue(s) PROVE Goal
  BY <1>2 DEF Enqueue, NoOrphan, CancelPending
<1>3. ASSUME NEW s \in Runs, EnqueueFails(s) PROVE Goal
  BY <1>3 DEF EnqueueFails, Fault
<1>4. ASSUME NEW s \in Runs, StalledCheck(s) PROVE Goal
  <2>1. CASE r = s
    BY <1>4, <2>1 DEF StalledCheck, AfterJob
  <2>2. CASE r # s
    BY <1>4, <2>2 DEF StalledCheck, NoOrphan, CancelPending
  <2> QED
    BY <2>1, <2>2
<1>5. ASSUME NEW q \in Requests, NEW s \in Runs, CancelFind(q, s) PROVE Goal
  <2>1. CancelPending(r) => CancelPending(r)'
    BY <1>5 DEF CancelFind, CancelPending
  <2> QED
    BY <1>5, <2>1 DEF CancelFind, NoOrphan
<1>6. ASSUME NEW q \in Requests, CancelJobState(q) PROVE Goal
  <2>1. CancelPending(r) => CancelPending(r)'
    BY <1>6 DEF CancelJobState, CancelPending
  <2> QED
    BY <1>6, <2>1 DEF CancelJobState, NoOrphan
<1>7. ASSUME NEW q \in Requests, CancelRemoveJob(q) PROVE Goal
  <2>1. CancelPending(r) => CancelPending(r)'
    BY <1>7 DEF CancelRemoveJob, CancelPending
  <2>2. CASE r = rrun[q] /\ ~Locked(r)
    BY <1>7, <2>2 DEF CancelRemoveJob, CancelPending
  <2>3. CASE ~(r = rrun[q] /\ ~Locked(r))
    BY <1>7, <2>1, <2>3 DEF CancelRemoveJob, NoOrphan
  <2> QED
    BY <2>2, <2>3
<1>8. ASSUME NEW q \in Requests, CancelWrite(q) PROVE Goal
  <2>1. r # rrun[q]
    BY <1>8 DEF CancelWrite
  <2>2. CancelPending(r) => CancelPending(r)'
    BY <1>8, <2>1 DEF CancelWrite, CancelPending
  <2> QED
    BY <1>8, <2>1, <2>2 DEF CancelWrite, NoOrphan
<1>9. ASSUME NEW q \in Requests, CancelFails(q) PROVE Goal
  BY <1>9 DEF CancelFails, Fault
<1>10. ASSUME NEW k \in Kinds, NEW s \in Runs, TakeJob(k, s) PROVE Goal
  BY <1>10 DEF TakeJob, NoOrphan, CancelPending
<1>11. ASSUME NEW k \in Kinds, Inner(k) PROVE Goal
  <2>1. UNCHANGED <<job, stalls, run, creating, rpc, rrun>> /\ pc[k] # "idle"
    BY <1>11, InnerFrame
  <2>2. CASE r = run[k]
    BY <2>1, <2>2 DEF HoldsJob
  <2>3. CASE r # run[k]
    <3>1. status'[r] = status[r]
      BY <1>11, <2>3, InnerFrame
    <3> QED
      BY <2>1, <3>1 DEF NoOrphan, CancelPending
  <2> QED
    BY <2>2, <2>3
<1>12. ASSUME NEW k \in Kinds, FinishJob(k) PROVE Goal
  <2>1. r # run[k]
    BY <1>12 DEF FinishJob, Settled, Terminal, RL!Terminal
  <2> QED
    BY <1>12, <2>1 DEF FinishJob, NoOrphan, CancelPending
<1>13. CASE Shutdown \/ CloseNext \/ Kill \/ Boot \/ UNCHANGED vars
  BY <1>0, <1>13 DEF Shutdown, CloseNext, Kill, Boot, vars
<1> QED
  BY <1>1, <1>2, <1>3, <1>4, <1>5, <1>6, <1>7, <1>8, <1>9, <1>10, <1>11, <1>12, <1>13, Steps

-----------------------------------------------------------------------------
(***************************************************************************)
(* The theorems.                                                           *)
(***************************************************************************)
\* The strengthened invariant holds in every behaviour of the worker.
THEOREM Inductive == Spec => []IInv
<1>1. Init => IInv
  BY InitInv
<1>2. IInv /\ [Next]_vars => IInv'
  BY TypeStep, FreshStep, DeliverableStep, HoldsJobStep, RecordingStep, SettledStep,
     WholeStep, OrphanStep DEF IInv
<1> QED
  BY <1>1, <1>2, PTL DEF Spec

\* The variables keep their types in every behaviour: BullMQ's budget bounds the
\* executions of a run, whatever dies and fails.
THEOREM TypeCorrect == Spec => []TypeOK
<1>1. IInv => TypeOK
  BY DEF IInv
<1> QED
  BY <1>1, Inductive, PTL

\* A run is completed only with all the results of one execution, however often it was
\* executed and wherever the earlier executions died.
THEOREM CompletedRunsAreWhole == Spec => []CompletedIsWhole
<1>1. IInv => CompletedIsWhole
  BY DEF IInv
<1> QED
  BY <1>1, Inductive, PTL

\* No accepted run is left behind while calls succeed: the API, the queue, an execution
\* or a cancel request will move it, unless BullMQ gave its job up.
THEOREM NoRunLeftBehind == Spec => []NoOrphan
<1>1. IInv => NoOrphan
  BY DEF IInv
<1> QED
  BY <1>1, Inductive, PTL

-----------------------------------------------------------------------------
(***************************************************************************)
(* Undisturbed, the worker takes only the steps of RunLifecycle.           *)
(***************************************************************************)
\* Where an undisturbed execution stands tells the status of its run ...
Phase(k) ==
    /\ signal[k] = "clear"
    /\ pc[k] \notin {"cleanup", "fail", "finish"} => ~failing[k]
    /\ pc[k] \in {"find", "start"} => status[run[k]] = "queued"
    /\ pc[k] \in {"checkout", "engine", "save", "complete", "fail"} =>
           status[run[k]] = "running"
    /\ pc[k] = "cleanup" /\ failing[k] => status[run[k]] = "running"
    /\ pc[k] = "cleanup" /\ ~failing[k] => status[run[k]] = "completed"

\* ... and a job no execution holds belongs to a run that has not started.
CalmInv ==
    Calm => /\ \A k \in Kinds : Phase(k)
            /\ \A r \in Runs : r \in creating \/ job[r] = "waiting" => status[r] = "queued"
            /\ \A r \in Runs : job[r] = "active" => \E k \in Kinds : run[k] = r

\* Nothing disturbs before it does.
LEMMA CalmBefore == IInv /\ [Next]_vars /\ Calm' => Calm
<1> SUFFICES ASSUME IInv, [Next]_vars, Calm' PROVE Calm
  OBVIOUS
<1> USE DEF IInv, TypeOK, Calm, Fault, reqVars, restVars
<1>1. faults = 0
  BY FaultsGrow
<1>2. ASSUME NEW q \in Requests, \/ CancelJobState(q) \/ CancelRemoveJob(q)
                                 \/ CancelWrite(q) \/ CancelFails(q)
      PROVE  Calm
  BY <1>2 DEF CancelJobState, CancelRemoveJob, CancelWrite, CancelFails, ReqGoto
<1>3. ASSUME NEW q \in Requests, NEW r \in Runs, CancelFind(q, r) PROVE Calm
  <2>1. rpc'[q] # "idle"
    BY <1>3 DEF CancelFind, ReqGoto, Terminal, RL!Terminal
  <2> QED
    BY <2>1
<1>4. ASSUME NEW k \in Kinds, Inner(k) PROVE Calm
  BY <1>1, <1>4, InnerFrame
<1>5. ASSUME NEW k \in Kinds, NEW r \in Runs, TakeJob(k, r) PROVE Calm
  BY <1>1, <1>5 DEF TakeJob
<1>6. ASSUME NEW k \in Kinds, FinishJob(k) PROVE Calm
  BY <1>1, <1>6 DEF FinishJob
<1>7. ASSUME NEW r \in Runs, CreateRun(r) \/ Enqueue(r) \/ EnqueueFails(r) \/ StalledCheck(r)
      PROVE  Calm
  BY <1>1, <1>7 DEF CreateRun, Enqueue, EnqueueFails, StalledCheck
<1>8. CASE Shutdown \/ CloseNext \/ Kill \/ Boot \/ UNCHANGED vars
  BY <1>1, <1>8 DEF Shutdown, CloseNext, Kill, Boot, vars
<1> QED
  BY <1>2, <1>3, <1>4, <1>5, <1>6, <1>7, <1>8, Steps

\* A phase depends on nothing but its execution and the status of its run.
LEMMA KeepPhase ==
    ASSUME NEW k \in Kinds, Phase(k), UNCHANGED <<pc[k], run[k], signal[k]>>,
           failing'[k] <=> failing[k],
           pc[k] # "idle" => status'[run[k]] = status[run[k]]
    PROVE  Phase(k)'
  BY DEF Phase

\* The steps of an undisturbed execution are Start and Finish, or change no status.
LEMMA CalmInner ==
    ASSUME IInv, CalmInv, Calm, Calm', NEW k \in Kinds, Inner(k)
    PROVE  CalmInv' /\ [RL!Next]_status
<1> DEFINE r == run[k]
<1>1. /\ Phase(k) /\ pc[k] # "idle" /\ r \in Runs /\ job[r] = "active" /\ r \notin creating
      /\ UNCHANGED <<job, run, creating>>
  BY InnerFrame DEF IInv, CalmInv, HoldsJob, Fresh
<1>2. \/ Phase(k)' /\ UNCHANGED status
      \/ Phase(k)' /\ status[r] = "queued" /\ status' = [status EXCEPT ![r] = "running"]
      \/ /\ Phase(k)' /\ status[r] = "running"
         /\ \E new \in {"completed", "failed"} : status' = [status EXCEPT ![r] = new]
  <2> USE <1>1 DEF IInv, TypeOK, Phase, Goto, SetStatus, dbVars
  <2>1. CASE FindRun(k)
    BY <2>1 DEF FindRun
  <2>2. CASE WriteRunning(k)
    BY <2>2 DEF WriteRunning
  <2>3. CASE EnsureLocalCheckout(k)
    BY <2>3 DEF EnsureLocalCheckout, CatchTarget
  <2>4. CASE EngineReturns(k)
    BY <2>4 DEF EngineReturns
  <2>5. CASE EngineThrows(k)
    BY <2>5 DEF EngineThrows
  <2>6. CASE SaveResults(k)
    <3>1. /\ pc[k] = "save" /\ pc'[k] \in {"save", "complete"}
          /\ UNCHANGED <<status, run, signal, failing>>
      BY <2>6 DEF SaveResults, AfterPart
    <3> QED
      BY <3>1
  <2>7. CASE WriteCompleted(k)
    BY <2>7 DEF WriteCompleted
  <2>8. CASE Cleanup(k)
    <3>1. /\ pc[k] = "cleanup" /\ UNCHANGED <<status, run, signal, failing>>
          /\ pc'[k] = IF failing[k] THEN "fail" ELSE "finish"
      BY <2>8 DEF Cleanup, CatchTarget
    <3> QED
      BY <3>1
  <2>9. CASE WriteFailed(k)
    BY <2>9 DEF WriteFailed
  <2>10. CASE CallFails(k)
    BY <2>10 DEF CallFails, Fault, Calm
  <2>11. CASE PollReads(k) \/ PollAborts(k)
    BY <2>11 DEF PollReads, PollAborts, Polling
  <2> QED
    BY <2>1, <2>2, <2>3, <2>4, <2>5, <2>6, <2>7, <2>8, <2>9, <2>10, <2>11 DEF Inner
<1>3. \A s \in Runs : s # r => status'[s] = status[s]
  BY InnerFrame DEF IInv
<1>4. \A j \in Kinds \ {k} : Phase(j)'
  <2> SUFFICES ASSUME NEW j \in Kinds \ {k} PROVE Phase(j)'
    OBVIOUS
  <2>1. pc[j] # "idle" => run[j] # r /\ run[j] \in Runs
    BY <1>1, Apart DEF IInv, HoldsJob
  <2>2. UNCHANGED <<pc[j], run[j], signal[j], failing[j]>> /\ Phase(j)
    BY <1>1, InnerFrame DEF IInv, CalmInv
  <2> QED
    BY <1>3, <2>1, <2>2, KeepPhase
<1>5. CalmInv'
  <2>1. \A s \in Runs : s \in creating \/ job[s] = "waiting" => status'[s] = "queued"
    BY <1>1, <1>3 DEF CalmInv
  <2> QED
    BY <1>1, <1>2, <1>4, <2>1 DEF CalmInv
<1>6. [RL!Next]_status
  BY <1>1, <1>2 DEF RL!Next, RL!Start, RL!Finish, RL!Move
<1> QED
  BY <1>5, <1>6

\* The other undisturbed steps: Accept, or no change of a status.
LEMMA CalmOuter ==
    ASSUME IInv, CalmInv, Calm, Calm', [Next]_vars, \A k \in Kinds : ~Inner(k)
    PROVE  CalmInv' /\ [RL!Next]_status
<1> USE DEF IInv, TypeOK, CalmInv, dbVars, jobVars, execVars, restVars
<1>1. ASSUME NEW r \in Runs, CreateRun(r) PROVE CalmInv' /\ [RL!Next]_status
  <2>1. \A k \in Kinds : pc[k] # "idle" => run[k] # r
    BY <1>1 DEF CreateRun, HoldsJob, Fresh
  <2>2. \A k \in Kinds : Phase(k)'
    BY <1>1, <2>1, KeepPhase DEF CreateRun, SetStatus, HoldsJob
  <2>3. [RL!Next]_status
    BY <1>1 DEF CreateRun, SetStatus, RL!Next, RL!Accept, RL!Move
  <2> QED
    BY <1>1, <2>2, <2>3 DEF CreateRun, SetStatus
<1>2. ASSUME NEW r \in Runs, Enqueue(r) PROVE CalmInv' /\ [RL!Next]_status
  <2>1. \A k \in Kinds : Phase(k)'
    BY <1>2, KeepPhase DEF Enqueue
  <2> QED
    BY <1>2, <2>1 DEF Enqueue
<1>3. ASSUME NEW r \in Runs, EnqueueFails(r) \/ StalledCheck(r)
      PROVE  CalmInv' /\ [RL!Next]_status
  BY <1>3 DEF EnqueueFails, StalledCheck, Locked, Fault, Calm
<1>4. ASSUME NEW k \in Kinds, NEW r \in Runs, TakeJob(k, r) PROVE CalmInv' /\ [RL!Next]_status
  <2>1. Phase(k)'
    BY <1>4 DEF TakeJob, Goto, Phase
  <2>2. \A j \in Kinds \ {k} : Phase(j)'
    BY <1>4, KeepPhase DEF TakeJob, Goto
  <2>3. \A j \in Kinds : run[j] \in Runs => run'[j] = run[j]
    BY <1>4, RunsAssumption DEF TakeJob, HoldsJob
  <2> QED
    BY <1>4, <2>1, <2>2, <2>3 DEF TakeJob
<1>5. ASSUME NEW k \in Kinds, FinishJob(k) PROVE CalmInv' /\ [RL!Next]_status
  <2>1. /\ run' = [j \in Kinds |-> IF j = k THEN NoRun ELSE run[j]]
        /\ pc' = [j \in Kinds |-> IF j = k THEN "idle" ELSE pc[j]]
        /\ signal' = [j \in Kinds |-> IF j = k THEN "clear" ELSE signal[j]]
        /\ job' = [job EXCEPT ![run[k]] = AfterJob(run[k])]
        /\ UNCHANGED <<status, creating>> /\ pc[k] = "finish"
    BY <1>5 DEF FinishJob, Forget
  <2>2. ~failing'[k] /\ \A j \in Kinds \ {k} : failing'[j] <=> failing[j]
    <3>1. failing' = [j \in Kinds |-> failing[j] /\ j \notin {k}]
      BY <1>5 DEF FinishJob, Forget
    <3> QED
      BY <3>1, Zenon
  <2>3. \A j \in Kinds : Phase(j)'
    <3>1. Phase(k)'
      BY <2>1, <2>2 DEF Phase
    <3>2. \A j \in Kinds \ {k} : Phase(j)'
      BY <2>1, <2>2, KeepPhase
    <3> QED
      BY <3>1, <3>2
  <2>4. \A s \in Runs : job'[s] = "active" => s # run[k] /\ job[s] = "active"
    BY <2>1 DEF AfterJob
  <2>5. \A s \in Runs : job'[s] = "waiting" => job[s] = "waiting"
    BY <2>1 DEF AfterJob
  <2> QED
    BY <2>1, <2>3, <2>4, <2>5
<1>6. CASE Shutdown \/ CloseNext \/ Boot \/ UNCHANGED vars
  <2>1. UNCHANGED <<dbVars, jobVars, execVars, creating>>
    BY <1>6 DEF Shutdown, CloseNext, Boot, vars
  <2>2. \A k \in Kinds : Phase(k)'
    BY <2>1, KeepPhase
  <2> QED
    BY <2>1, <2>2
<1>7. CASE Kill
  BY <1>7 DEF Kill, Calm
<1>8. ASSUME NEW q \in Requests, \/ CancelJobState(q) \/ CancelRemoveJob(q) \/ CancelWrite(q)
                                 \/ CancelFails(q) \/ \E r \in Runs : CancelFind(q, r)
      PROVE  FALSE
  <2>1. rpc[q] = "idle" /\ rpc'[q] = "idle"
    BY DEF Calm
  <2>2. PICK r \in Runs : CancelFind(q, r)
    BY <1>8, <2>1 DEF CancelJobState, CancelRemoveJob, CancelWrite, CancelFails
  <2>3. rpc'[q] # "idle"
    BY <2>2 DEF CancelFind, ReqGoto, Terminal, RL!Terminal
  <2> QED
    BY <2>1, <2>3
<1> QED
  BY <1>1, <1>2, <1>3, <1>4, <1>5, <1>6, <1>7, <1>8, Steps

\* As long as nothing failed, died or was cancelled, every step is one of RunLifecycle's or
\* changes no status: a run is queued once, runs once and ends once.
THEOREM ImplementsLifecycle == Spec => LifecycleWhileCalm
<1>1. Init => CalmInv
  BY DEF Init, CalmInv, Phase
<1>2. IInv /\ CalmInv /\ [Next]_vars => CalmInv' /\ (Calm' => [RL!Next]_status)
  <2> SUFFICES ASSUME IInv, CalmInv, [Next]_vars, Calm'
               PROVE  CalmInv' /\ [RL!Next]_status
    BY DEF CalmInv
  <2>1. Calm
    BY CalmBefore
  <2>2. CASE \E k \in Kinds : Inner(k)
    BY <2>1, <2>2, CalmInner
  <2>3. CASE \A k \in Kinds : ~Inner(k)
    BY <2>1, <2>3, CalmOuter
  <2> QED
    BY <2>2, <2>3
<1>3. (Calm' => [RL!Next]_status) => [Calm' => RL!Next]_status
  OBVIOUS
<1> QED
  BY <1>1, <1>2, <1>3, Inductive, PTL DEF Spec, LifecycleWhileCalm
=============================================================================
