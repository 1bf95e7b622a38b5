----------------------- MODULE QaAutomationRuns_proofs -----------------------
(***************************************************************************)
(* Proofs about QaAutomationRuns, for any queues, jobs, tests, redelivery  *)
(* budget, restarts and throwing calls.                                    *)
(***************************************************************************)
EXTENDS QaAutomationRuns, TLAPS

\* The execution of a queue works on a run of its own: two queues never execute the
\* same job.
LEMMA OwnRun ==
    ASSUME IInv, NEW q \in Queues, pc[q] # "idle"
    PROVE  /\ current[q] \in Jobs /\ job[current[q]] = "active" /\ proc \in {"up", "closing"}
           /\ attempt[current[q]] \in 0..MaxStalledCount + 1
           /\ Run(q)[1] = current[q] /\ Run(q)[2] = attempt[current[q]]
           /\ pc[q] # "create" /\ pc[q] # "finish" => Run(q) \in Runs
           /\ \A d \in Queues \ {q} : current[d] # current[q]
           /\ \A d \in Queues \ {q} : Run(d) # Run(q)
<1>1. /\ current[q] \in Jobs /\ job[current[q]] = "active" /\ proc \in {"up", "closing"}
      /\ pc[q] # "create" /\ pc[q] # "finish" => attempt[current[q]] > 0
      /\ QueueOf[current[q]] = q
  BY DEF IInv, ExecutesActiveJob
<1>2. attempt[current[q]] \in 0..MaxStalledCount + 1
  BY <1>1 DEF IInv, TypeOK
<1>3. pc[q] # "create" /\ pc[q] # "finish" => Run(q) \in Runs
  BY <1>1, <1>2, QaAssumption DEF Run, Runs
<1>4. \A d \in Queues \ {q} : current[d] # current[q]
  BY <1>1, QaAssumption DEF IInv, ExecutesActiveJob
<1> QED
  BY <1>1, <1>2, <1>3, <1>4 DEF Run

\* At first nothing has happened.
LEMMA InvInit == Init => IInv
<1> SUFFICES ASSUME Init PROVE IInv
  OBVIOUS
<1>1. TypeOK
  BY QaAssumption DEF Init, TypeOK
<1>2. ExecutesActiveJob /\ RunsPerDelivery /\ RowFollowsExecution
  BY QaAssumption DEF Init, ExecutesActiveJob, RunsPerDelivery, RowFollowsExecution
<1>3. GhostsAwaitReconciliation /\ Unmailed /\ CompletedIsWhole /\ OneMailPerRun
  BY DEF Init, GhostsAwaitReconciliation, Unmailed, CompletedIsWhole, OneMailPerRun
<1> QED
  BY <1>1, <1>2, <1>3 DEF IInv

\* A job is added to its queue.
LEMMA TriggerStep == ASSUME IInv, NEW j \in Jobs, Trigger(j) PROVE IInv'
<1> USE QaAssumption DEF jobVars, procVars, rowVars, Trigger
<1>1. TypeOK'
  BY DEF IInv, TypeOK
<1>2. ExecutesActiveJob'
  BY DEF IInv, TypeOK, ExecutesActiveJob
<1>3. RunsPerDelivery'
  BY DEF IInv, TypeOK, RunsPerDelivery
<1>4. RowFollowsExecution'
  BY DEF IInv, TypeOK, RowFollowsExecution, Run
<1>5. GhostsAwaitReconciliation'
  BY DEF IInv, TypeOK, GhostsAwaitReconciliation, Executing, Run
<1>6. Unmailed'
  BY DEF IInv, TypeOK, Unmailed, Run
<1>7. CompletedIsWhole'
  BY DEF IInv, TypeOK, CompletedIsWhole
<1>8. OneMailPerRun'
  BY DEF IInv, TypeOK, OneMailPerRun
<1> QED
  BY <1>1, <1>2, <1>3, <1>4, <1>5, <1>6, <1>7, <1>8 DEF IInv

\* A worker takes a waiting job.
LEMMA TakeStep == ASSUME IInv, NEW q \in Queues, NEW j \in Jobs, TakeJob(q, j) PROVE IInv'
<1> USE QaAssumption DEF jobVars, procVars, rowVars, TakeJob
<1>1. TypeOK'
  BY DEF IInv, TypeOK
<1>2. ExecutesActiveJob'
  <2>1. proc \in {"up", "closing"}
    BY DEF Taking
  <2> QED
    BY <2>1 DEF IInv, TypeOK, ExecutesActiveJob
<1>3. RunsPerDelivery'
  BY DEF IInv, TypeOK, RunsPerDelivery
<1>4. RowFollowsExecution'
  BY DEF IInv, TypeOK, RowFollowsExecution, Run
<1>5. GhostsAwaitReconciliation'
  BY DEF IInv, TypeOK, GhostsAwaitReconciliation, Executing, Run
<1>6. Unmailed'
  BY DEF IInv, TypeOK, Unmailed, Run
<1>7. CompletedIsWhole'
  BY DEF IInv, TypeOK, CompletedIsWhole
<1>8. OneMailPerRun'
  BY DEF IInv, TypeOK, OneMailPerRun
<1> QED
  BY <1>1, <1>2, <1>3, <1>4, <1>5, <1>6, <1>7, <1>8 DEF IInv

\* A job without an owner is delivered again, or given up.
LEMMA StalledStep == ASSUME IInv, NEW j \in Jobs, StalledCheck(j) PROVE IInv'
<1> USE QaAssumption DEF jobVars, procVars, rowVars, StalledCheck
<1>1. TypeOK'
  BY DEF IInv, TypeOK, RunsPerDelivery
<1>2. ExecutesActiveJob'
  BY DEF IInv, TypeOK, ExecutesActiveJob
<1>3. RunsPerDelivery'
  BY DEF IInv, TypeOK, RunsPerDelivery
<1>4. RowFollowsExecution'
  BY DEF IInv, TypeOK, RowFollowsExecution, Run
<1>5. GhostsAwaitReconciliation'
  BY DEF IInv, TypeOK, GhostsAwaitReconciliation, Executing, Run
<1>6. Unmailed'
  BY DEF IInv, TypeOK, Unmailed, Run
<1>7. CompletedIsWhole'
  BY DEF IInv, TypeOK, CompletedIsWhole
<1>8. OneMailPerRun'
  BY DEF IInv, TypeOK, OneMailPerRun
<1> QED
  BY <1>1, <1>2, <1>3, <1>4, <1>5, <1>6, <1>7, <1>8 DEF IInv

\* A process boots: no execution is left, the running rows are ghosts.
LEMMA BootStep == ASSUME IInv, Boot PROVE IInv'
<1> USE QaAssumption DEF jobVars, procVars, rowVars, Boot, FindAllRunning
<1>1. TypeOK'
  BY DEF IInv, TypeOK
<1>2. ExecutesActiveJob'
  BY DEF IInv, TypeOK, ExecutesActiveJob
<1>3. RunsPerDelivery'
  BY DEF IInv, TypeOK, RunsPerDelivery
<1>4. RowFollowsExecution'
  BY DEF IInv, TypeOK, RowFollowsExecution, Run
<1>5. GhostsAwaitReconciliation'
  BY DEF IInv, TypeOK, GhostsAwaitReconciliation, Executing, Run
<1>6. Unmailed'
  BY DEF IInv, TypeOK, Unmailed, Run
<1>7. CompletedIsWhole'
  BY DEF IInv, TypeOK, CompletedIsWhole
<1>8. OneMailPerRun'
  BY DEF IInv, TypeOK, OneMailPerRun
<1> QED
  BY <1>1, <1>2, <1>3, <1>4, <1>5, <1>6, <1>7, <1>8 DEF IInv

\* A ghost is marked failed.
LEMMA ReconcileStep == ASSUME IInv, NEW r \in toReconcile, ReconcileRow(r) PROVE IInv'
<1> USE QaAssumption DEF jobVars, procVars, rowVars, ReconcileRow
<1>0. r \in Runs /\ row[r] = "running" /\ r[2] <= attempt[r[1]]
  <2>1. r \in Runs /\ row[r] = "running"
    BY DEF IInv, TypeOK, GhostsAwaitReconciliation
  <2>2. r[1] \in Jobs /\ r[2] \in 1..MaxStalledCount + 1
    BY <2>1 DEF Runs
  <2>3. attempt[r[1]] \in 0..MaxStalledCount + 1
    BY <2>2 DEF IInv, TypeOK
  <2> QED
    BY <2>1, <2>2, <2>3 DEF IInv, RunsPerDelivery
<1>i. \A q \in Queues : pc[q] = "idle"
  BY DEF IInv, ExecutesActiveJob
<1>m. \A m \in mails : m[2] \in Runs /\ m[2] # r
  BY <1>0 DEF IInv, TypeOK, Unmailed
<1>1. TypeOK'
  BY DEF IInv, TypeOK
<1>2. ExecutesActiveJob'
  BY DEF IInv, TypeOK, ExecutesActiveJob
<1>3. RunsPerDelivery'
  BY <1>0 DEF IInv, TypeOK, RunsPerDelivery
<1>4. RowFollowsExecution'
  BY <1>i DEF RowFollowsExecution
<1>5. GhostsAwaitReconciliation'
  BY DEF IInv, TypeOK, GhostsAwaitReconciliation, Executing, Run
<1>6. Unmailed'
  BY <1>0, <1>i, <1>m DEF IInv, TypeOK, Unmailed
<1>7. CompletedIsWhole'
  BY DEF IInv, TypeOK, CompletedIsWhole
<1>8. OneMailPerRun'
  BY DEF IInv, TypeOK, OneMailPerRun
<1> QED
  BY <1>1, <1>2, <1>3, <1>4, <1>5, <1>6, <1>7, <1>8 DEF IInv

\* All ghosts are marked; the summary is the first mail about each of them.
LEMMA StartStep == ASSUME IInv, StartWorkers PROVE IInv'
<1> USE QaAssumption DEF jobVars, procVars, rowVars, StartWorkers
<1>i. \A q \in Queues : pc[q] = "idle"
  BY DEF IInv, ExecutesActiveJob
<1>m. /\ \A m \in mails : m[2] \notin summary
      /\ \A r \in summary : row[r] = "failed"
  BY DEF IInv, Unmailed
<1>n. \A m \in mails' : m \in mails \/ \E r \in summary : m = <<"reconciled", r>>
  OBVIOUS
<1>1. TypeOK'
  BY DEF IInv, TypeOK
<1>2. ExecutesActiveJob'
  BY DEF IInv, TypeOK, ExecutesActiveJob
<1>3. RunsPerDelivery'
  BY DEF IInv, TypeOK, RunsPerDelivery
<1>4. RowFollowsExecution'
  BY DEF IInv, TypeOK, RowFollowsExecution, Run
<1>5. GhostsAwaitReconciliation'
  BY DEF IInv, TypeOK, GhostsAwaitReconciliation, Executing, Run
<1>6. Unmailed'
  BY <1>i, <1>m, <1>n DEF IInv, Unmailed
<1>7. CompletedIsWhole'
  BY DEF IInv, TypeOK, CompletedIsWhole
<1>8. OneMailPerRun'
  BY <1>m, <1>n DEF IInv, OneMailPerRun
<1> QED
  BY <1>1, <1>2, <1>3, <1>4, <1>5, <1>6, <1>7, <1>8 DEF IInv

\* A boot that throws leaves no worker.
LEMMA BootFailsStep == ASSUME IInv, BootFails PROVE IInv'
<1> USE QaAssumption DEF jobVars, procVars, rowVars, BootFails, Fault
<1>1. TypeOK'
  BY DEF IInv, TypeOK
<1>2. ExecutesActiveJob'
  BY DEF IInv, TypeOK, ExecutesActiveJob
<1>3. RunsPerDelivery'
  BY DEF IInv, TypeOK, RunsPerDelivery
<1>4. RowFollowsExecution'
  BY DEF IInv, TypeOK, RowFollowsExecution, Run
<1>5. GhostsAwaitReconciliation'
  BY DEF IInv, TypeOK, GhostsAwaitReconciliation, Executing, Run
<1>6. Unmailed'
  BY DEF IInv, TypeOK, Unmailed, Run
<1>7. CompletedIsWhole'
  BY DEF IInv, TypeOK, CompletedIsWhole
<1>8. OneMailPerRun'
  BY DEF IInv, TypeOK, OneMailPerRun
<1> QED
  BY <1>1, <1>2, <1>3, <1>4, <1>5, <1>6, <1>7, <1>8 DEF IInv

\* SIGTERM.
LEMMA ShutdownStep == ASSUME IInv, Shutdown PROVE IInv'
<1> USE QaAssumption DEF jobVars, procVars, rowVars, Shutdown
<1>1. TypeOK'
  BY DEF IInv, TypeOK
<1>2. ExecutesActiveJob'
  BY DEF IInv, TypeOK, ExecutesActiveJob
<1>3. RunsPerDelivery'
  BY DEF IInv, TypeOK, RunsPerDelivery
<1>4. RowFollowsExecution'
  BY DEF IInv, TypeOK, RowFollowsExecution, Run
<1>5. GhostsAwaitReconciliation'
  BY DEF IInv, TypeOK, GhostsAwaitReconciliation, Executing, Run
<1>6. Unmailed'
  BY DEF IInv, TypeOK, Unmailed, Run
<1>7. CompletedIsWhole'
  BY DEF IInv, TypeOK, CompletedIsWhole
<1>8. OneMailPerRun'
  BY DEF IInv, TypeOK, OneMailPerRun
<1> QED
  BY <1>1, <1>2, <1>3, <1>4, <1>5, <1>6, <1>7, <1>8 DEF IInv

\* The process is gone with its executions.
LEMMA GoneStep == ASSUME IInv, Exit \/ Kill PROVE IInv'
<1> USE QaAssumption DEF jobVars, procVars, rowVars, Exit, Kill, Gone
<1>1. TypeOK'
  BY DEF IInv, TypeOK
<1>2. ExecutesActiveJob'
  BY DEF IInv, TypeOK, ExecutesActiveJob
<1>3. RunsPerDelivery'
  BY DEF IInv, TypeOK, RunsPerDelivery
<1>4. RowFollowsExecution'
  BY DEF IInv, TypeOK, RowFollowsExecution, Run
<1>5. GhostsAwaitReconciliation'
  BY DEF IInv, TypeOK, GhostsAwaitReconciliation, Executing, Run
<1>6. Unmailed'
  BY DEF IInv, TypeOK, Unmailed, Run
<1>7. CompletedIsWhole'
  BY DEF IInv, TypeOK, CompletedIsWhole
<1>8. OneMailPerRun'
  BY DEF IInv, TypeOK, OneMailPerRun
<1> QED
  BY <1>1, <1>2, <1>3, <1>4, <1>5, <1>6, <1>7, <1>8 DEF IInv

\* The run of this delivery has a fresh row.
LEMMA CreateStep == ASSUME IInv, NEW q \in Queues, CreateRun(q) PROVE IInv'
<1> USE QaAssumption DEF jobVars, procVars, rowVars, CreateRun, SetRow, Goto
<1>0. pc[q] # "idle"
  OBVIOUS
<1>o. /\ current[q] \in Jobs /\ job[current[q]] = "active" /\ proc \in {"up", "closing"}
      /\ attempt[current[q]] \in 0..MaxStalledCount + 1
      /\ Run(q)[1] = current[q] /\ Run(q)[2] = attempt[current[q]]
      /\ pc[q] # "create" /\ pc[q] # "finish" => Run(q) \in Runs
      /\ \A d \in Queues \ {q} : current[d] # current[q]
      /\ \A d \in Queues \ {q} : Run(d) # Run(q)
  BY <1>0, OwnRun
<1> DEFINE n == attempt[current[q]] + 1
           r == <<current[q], n>>
<1>n. n \in 1..MaxStalledCount + 1 /\ n <= stalls[current[q]] + 1
  BY <1>o DEF IInv, RunsPerDelivery, TypeOK
<1>r. r \in Runs /\ row[r] = "absent" /\ results[r] = {}
  <2>1. r \in Runs /\ r[1] = current[q] /\ r[2] = n
    BY <1>o, <1>n DEF Runs
  <2> QED
    BY <1>o, <2>1 DEF IInv, RunsPerDelivery
<1>s. /\ attempt' = [attempt EXCEPT ![current[q]] = n]
      /\ row' = [row EXCEPT ![r] = "running"]
      /\ pc' = [pc EXCEPT ![q] = "suite"]
      /\ UNCHANGED <<jobVars, procVars, current, results, mails, lostWrite, restarts, faults>>
  OBVIOUS
<1>d. /\ Run(q)' = r
      /\ \A d \in Queues \ {q} : pc[d] # "idle" => Run(d)' = Run(d) /\ Run(d) # r
  <2>1. Run(q)' = r
    BY <1>o, <1>s DEF Run, IInv, TypeOK
  <2>2. ASSUME NEW d \in Queues \ {q}, pc[d] # "idle"
        PROVE  Run(d)' = Run(d) /\ Run(d) # r
    <3>1. current[d] # current[q]
      BY <1>o
    <3> QED
      BY <1>o, <1>s, <3>1 DEF Run, IInv, TypeOK
  <2> QED
    BY <2>1, <2>2
<1>1. TypeOK'
  BY <1>o, <1>n, <1>r, <1>s DEF IInv, TypeOK
<1>2. ExecutesActiveJob'
  BY <1>o DEF IInv, TypeOK, ExecutesActiveJob
<1>3. RunsPerDelivery'
  <2>1. ASSUME NEW j \in Jobs
        PROVE  /\ attempt'[j] <= stalls[j] + 1
               /\ job[j] \in {"absent", "waiting"} => attempt'[j] <= stalls[j]
               /\ job[j] \in {"absent", "waiting", "active"} => stalls[j] <= MaxStalledCount
    BY <1>o, <1>n, <1>s DEF IInv, TypeOK, RunsPerDelivery
  <2>2. ASSUME NEW d \in Queues, pc'[d] = "create"
        PROVE  attempt'[current[d]] <= stalls[current[d]]
    <3>1. d # q /\ pc[d] = "create"
      BY <1>s, <2>2 DEF IInv, TypeOK
    <3>2. current[d] # current[q]
      BY <1>o, <3>1
    <3>3. current[d] \in Jobs
      BY <3>1 DEF IInv, ExecutesActiveJob
    <3> QED
      BY <1>s, <3>1, <3>2, <3>3 DEF IInv, TypeOK, RunsPerDelivery
  <2>3. ASSUME NEW x \in Runs, x[2] > attempt'[x[1]]
        PROVE  row'[x] = "absent" /\ results'[x] = {}
    <3>1. x[1] \in Jobs /\ x[2] \in 1..MaxStalledCount + 1
      BY DEF Runs
    <3>2. attempt'[x[1]] >= attempt[x[1]] /\ attempt'[x[1]] \in Nat /\ attempt[x[1]] \in Nat
      BY <1>o, <1>n, <1>s, <3>1 DEF IInv, TypeOK
    <3>3. x[2] > attempt[x[1]]
      BY <2>3, <3>1, <3>2
    <3>4. x # r
      BY <1>o, <1>n, <1>s, <2>3 DEF IInv, TypeOK
    <3> QED
      BY <1>s, <3>3, <3>4 DEF IInv, TypeOK, RunsPerDelivery
  <2> QED
    BY <1>s, <2>1, <2>2, <2>3 DEF RunsPerDelivery
<1>4. RowFollowsExecution'
  <2>1. ASSUME NEW d \in Queues \ {q}, pc'[d] # "idle"
        PROVE  pc'[d] = pc[d] /\ row'[Run(d)'] = row[Run(d)]
    BY <1>d, <1>s, <2>1 DEF IInv, TypeOK
  <2>2. pc'[q] = "suite" /\ row'[Run(q)'] = "running"
    BY <1>d, <1>r, <1>s DEF IInv, TypeOK
  <2> QED
    BY <2>1, <2>2 DEF IInv, RowFollowsExecution
<1>5. GhostsAwaitReconciliation'
  BY <1>o DEF IInv, TypeOK, GhostsAwaitReconciliation, Executing, Run
<1>6. Unmailed'
  <2>1. \A m \in mails : m[2] \in Runs /\ m[2] # r
    BY <1>r DEF IInv, TypeOK, Unmailed
  <2>2. \A m \in mails : row'[m[2]] = row[m[2]]
    BY <1>s, <2>1 DEF IInv, TypeOK
  <2>3. ASSUME NEW m \in mails, NEW d \in Queues,
               pc'[d] \in {"suite", "persist", "report", "catch", "alert"}
        PROVE  Run(d)' # m[2]
    <3>1. CASE d = q
      BY <1>d, <2>1, <3>1
    <3>2. CASE d # q
      BY <1>d, <1>s, <2>3, <3>2 DEF IInv, TypeOK, Unmailed
    <3> QED
      BY <3>1, <3>2
  <2> QED
    BY <1>o, <1>s, <2>2, <2>3 DEF IInv, Unmailed
<1>7. CompletedIsWhole'
  BY <1>o DEF IInv, TypeOK, CompletedIsWhole
<1>8. OneMailPerRun'
  BY <1>o DEF IInv, TypeOK, OneMailPerRun
<1> QED
  BY <1>1, <1>2, <1>3, <1>4, <1>5, <1>6, <1>7, <1>8 DEF IInv

\* The suite runs.
LEMMA SuiteStep == ASSUME IInv, NEW q \in Queues, RunSuite(q) PROVE IInv'
<1> USE QaAssumption DEF jobVars, procVars, rowVars, RunSuite, Goto
<1>0. pc[q] # "idle"
  OBVIOUS
<1>o. /\ current[q] \in Jobs /\ job[current[q]] = "active" /\ proc \in {"up", "closing"}
      /\ attempt[current[q]] \in 0..MaxStalledCount + 1
      /\ Run(q)[1] = current[q] /\ Run(q)[2] = attempt[current[q]]
      /\ pc[q] # "create" /\ pc[q] # "finish" => Run(q) \in Runs
      /\ \A d \in Queues \ {q} : current[d] # current[q]
      /\ \A d \in Queues \ {q} : Run(d) # Run(q)
  BY <1>0, OwnRun
<1>1. TypeOK'
  BY <1>o DEF IInv, TypeOK
<1>2. ExecutesActiveJob'
  BY <1>o DEF IInv, TypeOK, ExecutesActiveJob
<1>3. RunsPerDelivery'
  BY <1>o DEF IInv, TypeOK, RunsPerDelivery
<1>4. RowFollowsExecution'
  BY <1>o DEF IInv, TypeOK, RowFollowsExecution, Run
<1>5. GhostsAwaitReconciliation'
  BY <1>o DEF IInv, TypeOK, GhostsAwaitReconciliation, Executing, Run
<1>6. Unmailed'
  BY <1>o DEF IInv, TypeOK, Unmailed, Run
<1>7. CompletedIsWhole'
  BY <1>o DEF IInv, TypeOK, CompletedIsWhole
<1>8. OneMailPerRun'
  BY <1>o DEF IInv, TypeOK, OneMailPerRun
<1> QED
  BY <1>1, <1>2, <1>3, <1>4, <1>5, <1>6, <1>7, <1>8 DEF IInv

\* A result is written.
LEMMA PersistStep == ASSUME IInv, NEW q \in Queues, NEW t \in Tests, PersistResult(q, t) PROVE IInv'
<1> USE QaAssumption DEF jobVars, procVars, rowVars, PersistResult
<1>0. pc[q] # "idle"
  OBVIOUS
<1>o. /\ current[q] \in Jobs /\ job[current[q]] = "active" /\ proc \in {"up", "closing"}
      /\ attempt[current[q]] \in 0..MaxStalledCount + 1
      /\ Run(q)[1] = current[q] /\ Run(q)[2] = attempt[current[q]]
      /\ pc[q] # "create" /\ pc[q] # "finish" => Run(q) \in Runs
      /\ \A d \in Queues \ {q} : current[d] # current[q]
      /\ \A d \in Queues \ {q} : Run(d) # Run(q)
  BY <1>0, OwnRun
<1>1. TypeOK'
  BY <1>o DEF IInv, TypeOK
<1>2. ExecutesActiveJob'
  BY <1>o DEF IInv, TypeOK, ExecutesActiveJob
<1>3. RunsPerDelivery'
  BY <1>o DEF IInv, TypeOK, RunsPerDelivery
<1>4. RowFollowsExecution'
  BY <1>o DEF IInv, TypeOK, RowFollowsExecution, Run
<1>5. GhostsAwaitReconciliation'
  BY <1>o DEF IInv, TypeOK, GhostsAwaitReconciliation, Executing, Run
<1>6. Unmailed'
  BY <1>o DEF IInv, TypeOK, Unmailed, Run
<1>7. CompletedIsWhole'
  BY <1>o DEF IInv, TypeOK, CompletedIsWhole
<1>8. OneMailPerRun'
  BY <1>o DEF IInv, TypeOK, OneMailPerRun
<1> QED
  BY <1>1, <1>2, <1>3, <1>4, <1>5, <1>6, <1>7, <1>8 DEF IInv

\* The run completes with all its results.
LEMMA CompleteStep == ASSUME IInv, NEW q \in Queues, Complete(q) PROVE IInv'
<1> USE QaAssumption DEF jobVars, procVars, rowVars, Complete, SetRow, Goto
<1>0. pc[q] # "idle"
  OBVIOUS
<1>o. /\ current[q] \in Jobs /\ job[current[q]] = "active" /\ proc \in {"up", "closing"}
      /\ attempt[current[q]] \in 0..MaxStalledCount + 1
      /\ Run(q)[1] = current[q] /\ Run(q)[2] = attempt[current[q]]
      /\ pc[q] # "create" /\ pc[q] # "finish" => Run(q) \in Runs
      /\ \A d \in Queues \ {q} : current[d] # current[q]
      /\ \A d \in Queues \ {q} : Run(d) # Run(q)
  BY <1>0, OwnRun
<1>1. TypeOK'
  BY <1>o DEF IInv, TypeOK
<1>2. ExecutesActiveJob'
  BY <1>o DEF IInv, TypeOK, ExecutesActiveJob
<1>3. RunsPerDelivery'
  BY <1>o DEF IInv, TypeOK, RunsPerDelivery
<1>4. RowFollowsExecution'
  BY <1>o DEF IInv, TypeOK, RowFollowsExecution, Run
<1>5. GhostsAwaitReconciliation'
  BY <1>o DEF IInv, TypeOK, GhostsAwaitReconciliation, Executing, Run
<1>6. Unmailed'
  BY <1>o DEF IInv, TypeOK, Unmailed, Run
<1>7. CompletedIsWhole'
  BY <1>o DEF IInv, TypeOK, CompletedIsWhole
<1>8. OneMailPerRun'
  BY <1>o DEF IInv, TypeOK, OneMailPerRun
<1> QED
  BY <1>1, <1>2, <1>3, <1>4, <1>5, <1>6, <1>7, <1>8 DEF IInv

\* The report is the first mail about the run.
LEMMA ReportStep == ASSUME IInv, NEW q \in Queues, SendReport(q) PROVE IInv'
<1> USE QaAssumption DEF jobVars, procVars, rowVars, SendReport, Mail, Goto
<1>0. pc[q] # "idle"
  OBVIOUS
<1>o. /\ current[q] \in Jobs /\ job[current[q]] = "active" /\ proc \in {"up", "closing"}
      /\ attempt[current[q]] \in 0..MaxStalledCount + 1
      /\ Run(q)[1] = current[q] /\ Run(q)[2] = attempt[current[q]]
      /\ pc[q] # "create" /\ pc[q] # "finish" => Run(q) \in Runs
      /\ \A d \in Queues \ {q} : current[d] # current[q]
      /\ \A d \in Queues \ {q} : Run(d) # Run(q)
  BY <1>0, OwnRun
<1>m. \A m \in mails : m[2] # Run(q)
  BY DEF IInv, Unmailed
<1>n. \A m \in mails' : m \in mails \/ m = <<"report", Run(q)>>
  OBVIOUS
<1>r. row[Run(q)] \notin {"absent", "running"}
  BY DEF IInv, RowFollowsExecution
<1>d. \A d \in Queues : Run(d)' = Run(d)
  BY DEF Run
<1>1. TypeOK'
  BY <1>o DEF IInv, TypeOK
<1>2. ExecutesActiveJob'
  BY <1>o DEF IInv, TypeOK, ExecutesActiveJob
<1>3. RunsPerDelivery'
  BY <1>o DEF IInv, TypeOK, RunsPerDelivery
<1>4. RowFollowsExecution'
  BY <1>o DEF IInv, TypeOK, RowFollowsExecution, Run
<1>5. GhostsAwaitReconciliation'
  BY <1>o DEF IInv, TypeOK, GhostsAwaitReconciliation, Executing, Run
<1>6. Unmailed'
  <2>1. \A m \in mails' : row[m[2]] \notin {"absent", "running"}
    BY <1>n, <1>r DEF IInv, Unmailed
  <2>2. \A m \in mails', d \in Queues :
          pc'[d] \in {"suite", "persist", "report", "catch", "alert"} => Run(d) # m[2]
    <3> SUFFICES ASSUME NEW m \in mails', NEW d \in Queues,
                        pc'[d] \in {"suite", "persist", "report", "catch", "alert"}
                 PROVE  Run(d) # m[2]
      OBVIOUS
    <3>1. d # q /\ pc[d] = pc'[d]
      BY DEF IInv, TypeOK
    <3>2. CASE m \in mails
      BY <3>1, <3>2 DEF IInv, Unmailed
    <3>3. CASE m = <<"report", Run(q)>>
      BY <1>o, <3>1, <3>3
    <3> QED
      BY <1>n, <3>2, <3>3
  <2> QED
    BY <1>o, <1>d, <2>1, <2>2 DEF Unmailed
<1>7. CompletedIsWhole'
  BY <1>o DEF IInv, TypeOK, CompletedIsWhole
<1>8. OneMailPerRun'
  BY <1>m, <1>n DEF IInv, OneMailPerRun
<1> QED
  BY <1>1, <1>2, <1>3, <1>4, <1>5, <1>6, <1>7, <1>8 DEF IInv

\* A call throws.
LEMMA ThrowsStep == ASSUME IInv, NEW q \in Queues, Throws(q) PROVE IInv'
<1> USE QaAssumption DEF jobVars, procVars, rowVars, Throws, Fault, Goto
<1>0. pc[q] # "idle"
  OBVIOUS
<1>o. /\ current[q] \in Jobs /\ job[current[q]] = "active" /\ proc \in {"up", "closing"}
      /\ attempt[current[q]] \in 0..MaxStalledCount + 1
      /\ Run(q)[1] = current[q] /\ Run(q)[2] = attempt[current[q]]
      /\ pc[q] # "create" /\ pc[q] # "finish" => Run(q) \in Runs
      /\ \A d \in Queues \ {q} : current[d] # current[q]
      /\ \A d \in Queues \ {q} : Run(d) # Run(q)
  BY <1>0, OwnRun
<1>1. TypeOK'
  BY <1>o DEF IInv, TypeOK
<1>2. ExecutesActiveJob'
  BY <1>o DEF IInv, TypeOK, ExecutesActiveJob
<1>3. RunsPerDelivery'
  BY <1>o DEF IInv, TypeOK, RunsPerDelivery
<1>4. RowFollowsExecution'
  BY <1>o DEF IInv, TypeOK, RowFollowsExecution, Run
<1>5. GhostsAwaitReconciliation'
  BY <1>o DEF IInv, TypeOK, GhostsAwaitReconciliation, Executing, Run
<1>6. Unmailed'
  BY <1>o DEF IInv, TypeOK, Unmailed, Run
<1>7. CompletedIsWhole'
  BY <1>o DEF IInv, TypeOK, CompletedIsWhole
<1>8. OneMailPerRun'
  BY <1>o DEF IInv, TypeOK, OneMailPerRun
<1> QED
  BY <1>1, <1>2, <1>3, <1>4, <1>5, <1>6, <1>7, <1>8 DEF IInv

\* The catch block marks the run failed.
LEMMA CatchStep == ASSUME IInv, NEW q \in Queues, CatchFailsRun(q) PROVE IInv'
<1> USE QaAssumption DEF jobVars, procVars, rowVars, CatchFailsRun, SetRow, Goto
<1>0. pc[q] # "idle"
  OBVIOUS
<1>o. /\ current[q] \in Jobs /\ job[current[q]] = "active" /\ proc \in {"up", "closing"}
      /\ attempt[current[q]] \in 0..MaxStalledCount + 1
      /\ Run(q)[1] = current[q] /\ Run(q)[2] = attempt[current[q]]
      /\ pc[q] # "create" /\ pc[q] # "finish" => Run(q) \in Runs
      /\ \A d \in Queues \ {q} : current[d] # current[q]
      /\ \A d \in Queues \ {q} : Run(d) # Run(q)
  BY <1>0, OwnRun
<1>1. TypeOK'
  BY <1>o DEF IInv, TypeOK
<1>2. ExecutesActiveJob'
  BY <1>o DEF IInv, TypeOK, ExecutesActiveJob
<1>3. RunsPerDelivery'
  BY <1>o DEF IInv, TypeOK, RunsPerDelivery
<1>4. RowFollowsExecution'
  BY <1>o DEF IInv, TypeOK, RowFollowsExecution, Run
<1>5. GhostsAwaitReconciliation'
  BY <1>o DEF IInv, TypeOK, GhostsAwaitReconciliation, Executing, Run
<1>6. Unmailed'
  BY <1>o DEF IInv, TypeOK, Unmailed, Run
<1>7. CompletedIsWhole'
  BY <1>o DEF IInv, TypeOK, CompletedIsWhole
<1>8. OneMailPerRun'
  BY <1>o DEF IInv, TypeOK, OneMailPerRun
<1> QED
  BY <1>1, <1>2, <1>3, <1>4, <1>5, <1>6, <1>7, <1>8 DEF IInv

\* The alert is the first mail about the run.
LEMMA AlertStep == ASSUME IInv, NEW q \in Queues, SendAlert(q) PROVE IInv'
<1> USE QaAssumption DEF jobVars, procVars, rowVars, SendAlert, Mail, Goto
<1>0. pc[q] # "idle"
  OBVIOUS
<1>o. /\ current[q] \in Jobs /\ job[current[q]] = "active" /\ proc \in {"up", "closing"}
      /\ attempt[current[q]] \in 0..MaxStalledCount + 1
      /\ Run(q)[1] = current[q] /\ Run(q)[2] = attempt[current[q]]
      /\ pc[q] # "create" /\ pc[q] # "finish" => Run(q) \in Runs
      /\ \A d \in Queues \ {q} : current[d] # current[q]
      /\ \A d \in Queues \ {q} : Run(d) # Run(q)
  BY <1>0, OwnRun
<1>m. \A m \in mails : m[2] # Run(q)
  BY DEF IInv, Unmailed
<1>n. \A m \in mails' : m \in mails \/ m = <<"crashed", Run(q)>>
  OBVIOUS
<1>r. row[Run(q)] \notin {"absent", "running"}
  BY DEF IInv, RowFollowsExecution
<1>d. \A d \in Queues : Run(d)' = Run(d)
  BY DEF Run
<1>1. TypeOK'
  BY <1>o DEF IInv, TypeOK
<1>2. ExecutesActiveJob'
  BY <1>o DEF IInv, TypeOK, ExecutesActiveJob
<1>3. RunsPerDelivery'
  BY <1>o DEF IInv, TypeOK, RunsPerDelivery
<1>4. RowFollowsExecution'
  BY <1>o DEF IInv, TypeOK, RowFollowsExecution, Run
<1>5. GhostsAwaitReconciliation'
  BY <1>o DEF IInv, TypeOK, GhostsAwaitReconciliation, Executing, Run
<1>6. Unmailed'
  <2>1. \A m \in mails' : row[m[2]] \notin {"absent", "running"}
    BY <1>n, <1>r DEF IInv, Unmailed
  <2>2. \A m \in mails', d \in Queues :
          pc'[d] \in {"suite", "persist", "report", "catch", "alert"} => Run(d) # m[2]
    <3> SUFFICES ASSUME NEW m \in mails', NEW d \in Queues,
                        pc'[d] \in {"suite", "persist", "report", "catch", "alert"}
                 PROVE  Run(d) # m[2]
      OBVIOUS
    <3>1. d # q /\ pc[d] = pc'[d]
      BY DEF IInv, TypeOK
    <3>2. CASE m \in mails
      BY <3>1, <3>2 DEF IInv, Unmailed
    <3>3. CASE m = <<"crashed", Run(q)>>
      BY <1>o, <3>1, <3>3
    <3> QED
      BY <1>n, <3>2, <3>3
  <2> QED
    BY <1>o, <1>d, <2>1, <2>2 DEF Unmailed
<1>7. CompletedIsWhole'
  BY <1>o DEF IInv, TypeOK, CompletedIsWhole
<1>8. OneMailPerRun'
  BY <1>m, <1>n DEF IInv, OneMailPerRun
<1> QED
  BY <1>1, <1>2, <1>3, <1>4, <1>5, <1>6, <1>7, <1>8 DEF IInv

\* The catch block throws; a row it could not write is remembered.
LEMMA CatchThrowsStep == ASSUME IInv, NEW q \in Queues, CatchThrows(q) PROVE IInv'
<1> USE QaAssumption DEF jobVars, procVars, rowVars, CatchThrows, Fault, Goto
<1>0. pc[q] # "idle"
  OBVIOUS
<1>o. /\ current[q] \in Jobs /\ job[current[q]] = "active" /\ proc \in {"up", "closing"}
      /\ attempt[current[q]] \in 0..MaxStalledCount + 1
      /\ Run(q)[1] = current[q] /\ Run(q)[2] = attempt[current[q]]
      /\ pc[q] # "create" /\ pc[q] # "finish" => Run(q) \in Runs
      /\ \A d \in Queues \ {q} : current[d] # current[q]
      /\ \A d \in Queues \ {q} : Run(d) # Run(q)
  BY <1>0, OwnRun
<1>1. TypeOK'
  BY <1>o DEF IInv, TypeOK
<1>2. ExecutesActiveJob'
  BY <1>o DEF IInv, TypeOK, ExecutesActiveJob
<1>3. RunsPerDelivery'
  BY <1>o DEF IInv, TypeOK, RunsPerDelivery
<1>4. RowFollowsExecution'
  BY <1>o DEF IInv, TypeOK, RowFollowsExecution, Run
<1>5. GhostsAwaitReconciliation'
  BY <1>o DEF IInv, TypeOK, GhostsAwaitReconciliation, Executing, Run
<1>6. Unmailed'
  BY <1>o DEF IInv, TypeOK, Unmailed, Run
<1>7. CompletedIsWhole'
  BY <1>o DEF IInv, TypeOK, CompletedIsWhole
<1>8. OneMailPerRun'
  BY <1>o DEF IInv, TypeOK, OneMailPerRun
<1> QED
  BY <1>1, <1>2, <1>3, <1>4, <1>5, <1>6, <1>7, <1>8 DEF IInv

\* The job ends; its run is settled.
LEMMA FinishStep == ASSUME IInv, NEW q \in Queues, FinishJob(q) PROVE IInv'
<1> USE QaAssumption DEF jobVars, procVars, rowVars, FinishJob, Goto
<1>0. pc[q] # "idle"
  OBVIOUS
<1>o. /\ current[q] \in Jobs /\ job[current[q]] = "active" /\ proc \in {"up", "closing"}
      /\ attempt[current[q]] \in 0..MaxStalledCount + 1
      /\ Run(q)[1] = current[q] /\ Run(q)[2] = attempt[current[q]]
      /\ pc[q] # "create" /\ pc[q] # "finish" => Run(q) \in Runs
      /\ \A d \in Queues \ {q} : current[d] # current[q]
      /\ \A d \in Queues \ {q} : Run(d) # Run(q)
  BY <1>0, OwnRun
<1>1. TypeOK'
  BY <1>o DEF IInv, TypeOK
<1>2. ExecutesActiveJob'
  BY <1>o DEF IInv, TypeOK, ExecutesActiveJob
<1>3. RunsPerDelivery'
  BY <1>o DEF IInv, TypeOK, RunsPerDelivery
<1>4. RowFollowsExecution'
  BY <1>o DEF IInv, TypeOK, RowFollowsExecution, Run
<1>5. GhostsAwaitReconciliation'
  BY <1>o DEF IInv, TypeOK, GhostsAwaitReconciliation, Executing, Run
<1>6. Unmailed'
  BY <1>o DEF IInv, TypeOK, Unmailed, Run
<1>7. CompletedIsWhole'
  BY <1>o DEF IInv, TypeOK, CompletedIsWhole
<1>8. OneMailPerRun'
  BY <1>o DEF IInv, TypeOK, OneMailPerRun
<1> QED
  BY <1>1, <1>2, <1>3, <1>4, <1>5, <1>6, <1>7, <1>8 DEF IInv

\* Every step of the queues, the process and the executions preserves the invariant.
LEMMA InvStep == IInv /\ [Next]_vars => IInv'
<1>1. IInv /\ UNCHANGED vars => IInv'
  BY DEF vars, jobVars, procVars, rowVars, IInv, TypeOK, ExecutesActiveJob, RunsPerDelivery,
     RowFollowsExecution, GhostsAwaitReconciliation, Unmailed, CompletedIsWhole,
     OneMailPerRun, Executing, Run
<1> QED
  BY <1>1, TriggerStep, TakeStep, StalledStep, BootStep, ReconcileStep, StartStep, BootFailsStep, ShutdownStep, GoneStep, CreateStep, SuiteStep, PersistStep, CompleteStep, ReportStep, ThrowsStep, CatchStep, AlertStep, CatchThrowsStep, FinishStep
     DEF Next, Execute

\* The strengthened invariant of the QA service holds in every reachable state.
THEOREM Inductive == Spec => []IInv
  BY InvInit, InvStep, PTL DEF Spec

\* Restarts leave no row running that nobody executes.
THEOREM NoGhosts == Spec => []RunningIsLive
<1>1. IInv => RunningIsLive
  BY DEF IInv, GhostsAwaitReconciliation, RunningIsLive
<1> QED
  BY <1>1, Inductive, PTL

\* A completed run is whole.
THEOREM CompletedRunsAreWhole == Spec => []CompletedIsWhole
<1>1. IInv => CompletedIsWhole
  BY DEF IInv
<1> QED
  BY <1>1, Inductive, PTL

\* No two mails contradict each other about a run.
THEOREM NoContradictingMails == Spec => []OneMailPerRun
<1>1. IInv => OneMailPerRun
  BY DEF IInv
<1> QED
  BY <1>1, Inductive, PTL
=============================================================================
