-------------------------- MODULE QaAutomationRuns --------------------------
(***************************************************************************)
(* apps/qa-automation: one process consumes two BullMQ queues, each one    *)
(* job at a time.  A job executes a whole test suite - the production      *)
(* checks or the staging pytest suite - under a QaAutomationRun row of its *)
(* own, then mails a report.  A deploy or a crash ends the process in the  *)
(* middle; BullMQ redelivers the job (as a new run), and the next process  *)
(* reconciles the rows still "running" before its workers start.           *)
(*                                                                         *)
(* One container at a time: a process boots after the previous one is      *)
(* gone.  Not modelled: the staging progress column, the OneDrive copy     *)
(* (best effort) and whether single tests pass (it decides no status).     *)
(***************************************************************************)
EXTENDS Naturals, FiniteSets

CONSTANTS Queues, Production,       \* the two queues; which one closes first
          Jobs, QueueOf,            \* QueueOf[j]: the queue of job j
          Reruns,                   \* jobs that skip the mails (targeted reruns)
          Tests,                    \* the tests of a suite
          NoJob,                    \* null
          MaxStalledCount,          \* BullMQ's redelivery budget of a job
          MaxRestarts,              \* bound: processes that end
          MaxFaults                 \* bound: calls that throw

ASSUME QaAssumption == /\ Production \in Queues /\ QueueOf \in [Jobs -> Queues]
                       /\ Reruns \subseteq Jobs /\ NoJob \notin Jobs
                       /\ MaxStalledCount \in Nat /\ MaxRestarts \in Nat
                       /\ MaxFaults \in Nat

\* Every delivery of a job creates a run: <<j, n>> is the n-th run of job j.
Runs == Jobs \X (1..MaxStalledCount + 1)

VARIABLES
    job,            \* job[j]: "absent", "waiting", "active", "ended", "exhausted"
    stalls,         \* stalls[j]: how often the job was found without its lock
    proc,           \* the process: "off", "reconciling", "up", "closing", "stuck"
    toReconcile,    \* rows findAllRunning returned and not marked failed yet
    summary,        \* rows this boot marked failed, for the summary mail
    pc,             \* pc[q]: where the queue's execution is, "idle" if none
    current,        \* current[q]: the job being executed
    attempt,        \* attempt[j]: runs of j so far
    row,            \* row[r]: the QaAutomationRun status
    results,        \* results[r]: the QaAutomationTestResult rows
    mails,          \* mails sent: <<kind, run>>
    lostWrite,      \* runs whose catch block could not write "failed"
    restarts, faults

jobVars  == <<job, stalls>>
procVars == <<proc, toReconcile, summary>>
rowVars  == <<attempt, row, results>>
vars == <<jobVars, procVars, pc, current, rowVars, mails, lostWrite, restarts, faults>>

\* The workers that still take jobs: shutdown closes the production worker and waits for
\* its job before it closes the staging worker.
Taking == CASE proc = "up" -> Queues
            [] proc = "closing" /\ \E q \in Queues \ {Production} : pc[Production] # "idle"
                 -> Queues \ {Production}
            [] OTHER -> {}

Run(q) == <<current[q], attempt[current[q]]>>

TypeOK ==
    /\ job \in [Jobs -> {"absent", "waiting", "active", "ended", "exhausted"}]
    /\ stalls \in [Jobs -> 0..MaxStalledCount + 1]
    /\ proc \in {"off", "reconciling", "up", "closing", "stuck"}
    /\ toReconcile \subseteq Runs /\ summary \subseteq Runs
    /\ pc \in [Queues -> {"idle", "create", "suite", "persist", "report", "catch",
                          "alert", "finish"}]
    /\ current \in [Queues -> Jobs \cup {NoJob}]
    /\ attempt \in [Jobs -> 0..MaxStalledCount + 1]
    /\ row \in [Runs -> {"absent", "running", "completed", "failed"}]
    /\ results \in [Runs -> SUBSET Tests]
    /\ mails \subseteq {"report", "crashed", "reconciled"} \X Runs
    /\ lostWrite \subseteq Runs
    /\ restarts \in 0..MaxRestarts /\ faults \in 0..MaxFaults

Init ==
    /\ job = [j \in Jobs |-> "absent"] /\ stalls = [j \in Jobs |-> 0]
    /\ proc = "off" /\ toReconcile = {} /\ summary = {}
    /\ pc = [q \in Queues |-> "idle"] /\ current = [q \in Queues |-> NoJob]
    /\ attempt = [j \in Jobs |-> 0] /\ row = [r \in Runs |-> "absent"]
    /\ results = [r \in Runs |-> {}] /\ mails = {} /\ lostWrite = {}
    /\ restarts = 0 /\ faults = 0

Fault == faults < MaxFaults /\ faults' = faults + 1

-----------------------------------------------------------------------------
(***************************************************************************)
(* The queues: the API, the schedulers and the mail poll add jobs.         *)
(***************************************************************************)
Trigger(j) ==
    /\ job[j] = "absent"
    /\ job' = [job EXCEPT ![j] = "waiting"]
    /\ UNCHANGED <<stalls, procVars, pc, current, rowVars, mails, lostWrite, restarts,
                   faults>>

TakeJob(q, j) ==
    /\ q \in Taking /\ pc[q] = "idle"
    /\ QueueOf[j] = q /\ job[j] = "waiting"
    /\ job' = [job EXCEPT ![j] = "active"]
    /\ current' = [current EXCEPT ![q] = j]
    /\ pc' = [pc EXCEPT ![q] = "create"]
    /\ UNCHANGED <<stalls, procVars, rowVars, mails, lostWrite, restarts, faults>>

\* BullMQ's stalled check in a live worker: an active job without an owner goes back
\* to the queue until it stalled more than maxStalledCount times.
StalledCheck(j) ==
    /\ QueueOf[j] \in Taking
    /\ job[j] = "active" /\ \A q \in Queues : current[q] # j
    /\ stalls' = [stalls EXCEPT ![j] = @ + 1]
    /\ job' = [job EXCEPT ![j] = IF stalls[j] + 1 > MaxStalledCount THEN "exhausted"
                                                                    ELSE "waiting"]
    /\ UNCHANGED <<procVars, pc, current, rowVars, mails, lostWrite, restarts, faults>>

-----------------------------------------------------------------------------
(***************************************************************************)
(* The process: boot, reconciliation, shutdown, end.                       *)
(***************************************************************************)
\* Mutant: whatever did not complete.
NotCompleted == {r \in Runs : row[r] \in {"running", "failed"}}

\* findAllRunning: the rows no process can be working on.
FindAllRunning == {r \in Runs : row[r] = "running"}

Boot ==
    /\ proc = "off"
    /\ proc' = "reconciling"
    /\ toReconcile' = FindAllRunning
    /\ summary' = {}
    /\ UNCHANGED <<jobVars, pc, current, rowVars, mails, lostWrite, restarts, faults>>

\* Mutant: only the summary mail, no status.
ReconcileRowMailOnly(r) ==
    /\ proc = "reconciling" /\ r \in toReconcile
    /\ toReconcile' = toReconcile \ {r}
    /\ summary' = summary \cup {r}
    /\ UNCHANGED <<jobVars, proc, pc, current, rowVars, mails, lostWrite, restarts, faults>>

ReconcileRow(r) ==
    /\ proc = "reconciling" /\ r \in toReconcile
    /\ row' = [row EXCEPT ![r] = "failed"]
    /\ toReconcile' = toReconcile \ {r}
    /\ summary' = summary \cup {r}
    /\ UNCHANGED <<jobVars, proc, pc, current, attempt, results, mails, lostWrite,
                   restarts, faults>>

\* The summary mail, if there is something to report; then both workers start.
StartWorkers ==
    /\ proc = "reconciling" /\ toReconcile = {}
    /\ mails' = mails \cup {<<"reconciled", r>> : r \in summary}
    /\ proc' = "up"
    /\ UNCHANGED <<jobVars, toReconcile, summary, pc, current, rowVars, lostWrite,
                   restarts, faults>>

\* A throwing repository or mail server rejects main(): the process logs it and stays
\* alive on its Redis connection, without workers.
BootFails ==
    /\ proc = "reconciling" /\ Fault
    /\ proc' = "stuck"
    /\ UNCHANGED <<jobVars, toReconcile, summary, pc, current, rowVars, mails,
                   lostWrite, restarts>>

\* SIGTERM: the workers close one after the other, each finishing its job.
Shutdown ==
    /\ proc = "up"
    /\ restarts < MaxRestarts /\ restarts' = restarts + 1
    /\ proc' = "closing"
    /\ UNCHANGED <<jobVars, toReconcile, summary, pc, current, rowVars, mails,
                   lostWrite, faults>>

\* The process is gone, and with it every execution in flight.
Gone ==
    /\ proc' = "off" /\ toReconcile' = {} /\ summary' = {}
    /\ pc' = [q \in Queues |-> "idle"] /\ current' = [q \in Queues |-> NoJob]
    /\ UNCHANGED <<jobVars, rowVars, mails, lostWrite, faults>>

Exit == /\ proc = "closing" /\ \A q \in Queues : pc[q] = "idle"
        /\ Gone /\ UNCHANGED restarts

\* A crash, or the platform's kill after the grace period.
Kill == /\ proc # "off"
        /\ restarts < MaxRestarts /\ restarts' = restarts + 1
        /\ Gone

-----------------------------------------------------------------------------
(***************************************************************************)
(* execute(): RunQaAutomationSuiteUseCase and RunStagingTestSuiteUseCase   *)
(* go through the same steps.                                              *)
(***************************************************************************)
Goto(q, step) == pc' = [pc EXCEPT ![q] = step]

SetRow(r, status) == row' = [row EXCEPT ![r] = status]

Mail(kind, r) == mails' = IF r[1] \in Reruns THEN mails ELSE mails \cup {<<kind, r>>}

CreateRun(q) ==
    LET n == attempt[current[q]] + 1 IN
    /\ pc[q] = "create"
    /\ attempt' = [attempt EXCEPT ![current[q]] = n]
    /\ SetRow(<<current[q], n>>, "running")
    /\ Goto(q, "suite")
    /\ UNCHANGED <<jobVars, procVars, current, results, mails, lostWrite, restarts, faults>>

\* runTests, or the staging runner with the carried-forward stubs appended.
RunSuite(q) ==
    /\ pc[q] = "suite"
    /\ Goto(q, "persist")
    /\ UNCHANGED <<jobVars, procVars, current, rowVars, mails, lostWrite, restarts, faults>>

PersistResult(q, t) ==
    /\ pc[q] = "persist" /\ t \notin results[Run(q)]
    /\ results' = [results EXCEPT ![Run(q)] = @ \cup {t}]
    /\ UNCHANGED <<jobVars, procVars, pc, current, attempt, row, mails, lostWrite,
                   restarts, faults>>

\* Mutant: the results are written without awaiting them.
CompleteEarly(q) ==
    /\ pc[q] = "persist"
    /\ SetRow(Run(q), "completed")
    /\ Goto(q, "report")
    /\ UNCHANGED <<jobVars, procVars, current, attempt, results, mails, lostWrite,
                   restarts, faults>>

Complete(q) ==
    /\ pc[q] = "persist" /\ results[Run(q)] = Tests
    /\ SetRow(Run(q), "completed")
    /\ Goto(q, "report")
    /\ UNCHANGED <<jobVars, procVars, current, attempt, results, mails, lostWrite,
                   restarts, faults>>

SendReport(q) ==
    /\ pc[q] = "report"
    /\ Mail("report", Run(q))
    /\ Goto(q, "finish")
    /\ UNCHANGED <<jobVars, procVars, current, rowVars, lostWrite, restarts, faults>>

\* A throwing create() is outside the try: the job fails without a run.  Any other call
\* - the suite, a result, complete(), the report or its mail - reaches the catch block.
Throws(q) ==
    /\ pc[q] \in {"create", "suite", "persist", "report"} /\ Fault
    /\ Goto(q, IF pc[q] = "create" THEN "finish" ELSE "catch")
    /\ UNCHANGED <<jobVars, procVars, current, rowVars, mails, lostWrite, restarts>>

\* Mutant: the catch block alerts and leaves the row.
CatchOnlyAlerts(q) ==
    /\ pc[q] = "catch"
    /\ Goto(q, "alert")
    /\ UNCHANGED <<jobVars, procVars, current, rowVars, mails, lostWrite, restarts, faults>>

CatchFailsRun(q) ==
    /\ pc[q] = "catch"
    /\ SetRow(Run(q), "failed")
    /\ Goto(q, "alert")
    /\ UNCHANGED <<jobVars, procVars, current, attempt, results, mails, lostWrite,
                   restarts, faults>>

SendAlert(q) ==
    /\ pc[q] = "alert"
    /\ Mail("crashed", Run(q))
    /\ Goto(q, "finish")
    /\ UNCHANGED <<jobVars, procVars, current, rowVars, lostWrite, restarts, faults>>

\* The catch block itself throws: execute rejects, and a row it could not write stays.
CatchThrows(q) ==
    /\ pc[q] \in {"catch", "alert"} /\ Fault
    /\ lostWrite' = IF pc[q] = "catch" THEN lostWrite \cup {Run(q)} ELSE lostWrite
    /\ Goto(q, "finish")
    /\ UNCHANGED <<jobVars, procVars, current, rowVars, mails, restarts>>

\* BullMQ records the outcome; jobs have a single attempt, so both outcomes end it.
FinishJob(q) ==
    /\ pc[q] = "finish"
    /\ job' = [job EXCEPT ![current[q]] = "ended"]
    /\ current' = [current EXCEPT ![q] = NoJob]
    /\ Goto(q, "idle")
    /\ UNCHANGED <<stalls, procVars, rowVars, mails, lostWrite, restarts, faults>>

Execute(q) == \/ CreateRun(q) \/ RunSuite(q) \/ (\E t \in Tests : PersistResult(q, t))
              \/ Complete(q) \/ SendReport(q) \/ CatchFailsRun(q) \/ SendAlert(q)
              \/ FinishJob(q)

Next ==
    \/ \E j \in Jobs : Trigger(j) \/ StalledCheck(j)
    \/ \E q \in Queues, j \in Jobs : TakeJob(q, j)
    \/ Boot \/ (\E r \in toReconcile : ReconcileRow(r)) \/ StartWorkers \/ BootFails
    \/ Shutdown \/ Exit \/ Kill
    \/ \E q \in Queues : Execute(q) \/ Throws(q) \/ CatchThrows(q)

\* The platform restarts the container, Node and BullMQ run what is runnable; suites
\* and mails end (the runner has a timeout), nobody need trigger or kill anything.
Fairness ==
    /\ WF_vars(Boot) /\ WF_vars(\E r \in toReconcile : ReconcileRow(r))
    /\ WF_vars(StartWorkers) /\ WF_vars(Exit)
    /\ \A q \in Queues : WF_vars(Execute(q)) /\ WF_vars(\E j \in Jobs : TakeJob(q, j))
    /\ \A j \in Jobs : WF_vars(StalledCheck(j))

Spec == Init /\ [][Next]_vars
FairSpec == Spec /\ Fairness

-----------------------------------------------------------------------------
\* A row that says "running" is the one its execution is working on.
Executing(r) == \E q \in Queues : pc[q] \in {"suite", "persist", "catch"} /\ Run(q) = r

\* While the service takes jobs, a row says "running" only if this process is executing
\* that run - unless the catch block could not write "failed".  Restarts leave no ghost.
RunningIsLive ==
    proc \in {"up", "closing"} =>
        \A r \in Runs : row[r] = "running" => r \in lostWrite \/ Executing(r)

\* A completed run has the result of every test of its suite.
CompletedIsWhole == \A r \in Runs : row[r] = "completed" => results[r] = Tests

\* Whatever crashes and throws, nobody receives contradicting mails about a run: a
\* report, a crash alert or the restart summary, but not two of them.
OneMailPerRun == \A m, n \in mails : m[2] = n[2] => m = n

(***************************************************************************)
(* The inductive invariant behind the three (proved in                     *)
(* QaAutomationRuns_proofs).                                               *)
(***************************************************************************)
\* Only a process that is up executes; an execution owns an active job of its queue.
ExecutesActiveJob ==
    \A q \in Queues : IF pc[q] = "idle" THEN current[q] = NoJob
                      ELSE /\ proc \in {"up", "closing"}
                           /\ current[q] \in Jobs /\ QueueOf[current[q]] = q
                           /\ job[current[q]] = "active"
                           /\ pc[q] # "create" /\ pc[q] # "finish" => attempt[current[q]] > 0

\* A job has at most one run per delivery, and rows appear in their order.
RunsPerDelivery ==
    /\ \A j \in Jobs :
         /\ attempt[j] <= stalls[j] + 1
         /\ job[j] \in {"absent", "waiting"} => attempt[j] <= stalls[j]
         /\ job[j] \in {"absent", "waiting", "active"} => stalls[j] <= MaxStalledCount
    /\ \A q \in Queues : pc[q] = "create" => attempt[current[q]] <= stalls[current[q]]
    /\ \A r \in Runs : r[2] > attempt[r[1]] => row[r] = "absent" /\ results[r] = {}

\* Where an execution stands, its row stands.
RowFollowsExecution ==
    \A q \in Queues : /\ pc[q] \in {"suite", "persist"} => row[Run(q)] = "running"
                      /\ pc[q] = "report" => row[Run(q)] = "completed"
                      /\ pc[q] = "alert" => row[Run(q)] = "failed"
                      /\ pc[q] = "catch" => row[Run(q)] # "absent"

\* Between two processes the rows they left running wait for the reconciliation.
GhostsAwaitReconciliation ==
    \A r \in Runs :
        /\ proc \in {"up", "closing"} =>
             (row[r] = "running" => r \in lostWrite \/ Executing(r))
        /\ proc = "reconciling" => (row[r] = "running" <=> r \in toReconcile)

\* Nobody has been mailed about a run that may still cause a mail.
Unmailed ==
    /\ \A m \in mails : row[m[2]] \notin {"absent", "running"}
    /\ \A m \in mails, q \in Queues :
         pc[q] \in {"suite", "persist", "report", "catch", "alert"} => Run(q) # m[2]
    /\ proc = "reconciling" => /\ \A m \in mails : m[2] \notin summary
                              /\ \A r \in summary : row[r] = "failed"

IInv == TypeOK /\ ExecutesActiveJob /\ RunsPerDelivery /\ RowFollowsExecution
        /\ GhostsAwaitReconciliation /\ Unmailed /\ CompletedIsWhole /\ OneMailPerRun

\* Every triggered job is executed or given up, and no run stays "running" - unless the
\* boot itself failed, or the catch block could not write.
Settles ==
    <>[](\/ proc = "stuck"
         \/ /\ \A j \in Jobs : job[j] \notin {"waiting", "active"}
            /\ \A r \in Runs : row[r] = "running" => r \in lostWrite)

\* Both use cases: the status reflects whether the suite executed; 'failed' is reserved
\* for a run that never got the chance - so a completed run does not turn failed.
CompletedIsFinal ==
    [][\A r \in Runs : row[r] = "completed" => row'[r] = "completed"]_vars
=============================================================================
