----------------------------- MODULE ApiCalls -----------------------------
(* Two requests the API answers only after someone else did the work: a cron   *)
(* of an external system, called and recorded (docs/adr/0033), and a directory  *)
(* listing a worker makes and returns over a queue (docs/adr/0032).              *)
EXTENDS FiniteSets

CONSTANTS Runs,        \* cron runs: rows, each with the request that triggered it
          Browses      \* directory requests, each with its job

VARIABLES cronRow,     \* status of a CronRun row, "none" before it exists
          call,        \* where TriggerCronRunUseCase is: "idle", "calling", "recording"
          verdict,     \* the outcome it is about to record
          external,    \* what the external endpoint did: "nothing", "ok", "error"
          lost,        \* runs whose recording failed or whose API process ended
          waiter,      \* browse(): "idle", "adding", "waiting", "listed", "refused"
          job          \* its job: "none", "queued", "active", "finished"

vars == <<cronRow, call, verdict, external, lost, waiter, job>>
cron == <<cronRow, call, verdict, external, lost>>
browse == <<waiter, job>>

Init == /\ cronRow = [r \in Runs |-> "none"] /\ call = [r \in Runs |-> "idle"]
        /\ verdict = [r \in Runs |-> "none"] /\ external = [r \in Runs |-> "nothing"]
        /\ lost = {}
        /\ waiter = [b \in Browses |-> "idle"] /\ job = [b \in Browses |-> "none"]

TypeOK == /\ cronRow \in [Runs -> {"none", "running", "succeeded", "failed"}]
          /\ call \in [Runs -> {"idle", "calling", "recording"}]
          /\ verdict \in [Runs -> {"none", "succeeded", "failed"}]
          /\ external \in [Runs -> {"nothing", "ok", "error"}] /\ lost \subseteq Runs
          /\ waiter \in [Browses -> {"idle", "adding", "waiting", "listed", "refused"}]
          /\ job \in [Browses -> {"none", "queued", "active", "finished"}]

-----------------------------------------------------------------------------
(* TriggerCronRunUseCase                                                        *)

\* the row is inserted "running"; an unknown cron id is refused before that
Trigger(r) ==
    /\ cronRow[r] = "none"
    /\ cronRow' = [cronRow EXCEPT ![r] = "running"] /\ call' = [call EXCEPT ![r] = "calling"]
    /\ UNCHANGED <<verdict, external, lost, browse>>

Record(r, v) ==
    /\ verdict' = [verdict EXCEPT ![r] = v] /\ call' = [call EXCEPT ![r] = "recording"]

\* the POST is answered: below 400 counts as success
Answered(r, code) ==
    /\ call[r] = "calling"
    /\ external' = [external EXCEPT ![r] = code]
    /\ Record(r, IF code = "ok" THEN "succeeded" ELSE "failed")
    /\ UNCHANGED <<cronRow, lost, browse>>

ThrowsUncaught(r, did) ==             \* Mutant: no catch around cronExecutor.execute
    /\ call[r] = "calling"
    /\ external' = [external EXCEPT ![r] = did]
    /\ call' = [call EXCEPT ![r] = "idle"]
    /\ UNCHANGED <<cronRow, verdict, lost, browse>>

\* no connection, or one that breaks after the external system did its work
Throws(r, did) ==
    /\ call[r] = "calling"
    /\ external' = [external EXCEPT ![r] = did]
    /\ Record(r, "failed")
    /\ UNCHANGED <<cronRow, lost, browse>>

\* complete()
Complete(r) ==
    /\ call[r] = "recording"
    /\ cronRow' = [cronRow EXCEPT ![r] = verdict[r]] /\ call' = [call EXCEPT ![r] = "idle"]
    /\ UNCHANGED <<verdict, external, lost, browse>>

\* complete() throws
CompleteFails(r) ==
    /\ call[r] = "recording"
    /\ call' = [call EXCEPT ![r] = "idle"] /\ lost' = lost \union {r}
    /\ UNCHANGED <<cronRow, verdict, external, browse>>

-----------------------------------------------------------------------------
(* BullMqDirectoryBrowseQueue.browse and the worker's job                       *)

WaiterBecomes(b, w) == waiter' = [waiter EXCEPT ![b] = w]
JobBecomes(b, j) == job' = [job EXCEPT ![b] = j]

Browse(b) ==
    /\ waiter[b] = "idle" /\ job[b] = "none"
    /\ WaiterBecomes(b, "adding")
    /\ UNCHANGED <<cron, job>>

\* queue.add, or Redis refuses it
AddJob(b) ==
    /\ waiter[b] = "adding"
    /\ \/ WaiterBecomes(b, "waiting") /\ JobBecomes(b, "queued")
       \/ WaiterBecomes(b, "refused") /\ UNCHANGED job
    /\ UNCHANGED cron

\* a worker takes the job, also one nobody waits for any more
Take(b) ==
    /\ job[b] = "queued" /\ JobBecomes(b, "active")
    /\ UNCHANGED <<cron, waiter>>

\* browseDirectory returned or threw; either way the job is removed (removeOnComplete, removeOnFail)
Finish(b) ==
    /\ job[b] = "active" /\ JobBecomes(b, IF waiter[b] = "waiting" THEN "finished" ELSE "none")
    /\ UNCHANGED <<cron, waiter>>

\* the worker dies with the job: it stalls and is queued again
WorkerDies(b) ==
    /\ job[b] = "active" /\ JobBecomes(b, "queued")
    /\ UNCHANGED <<cron, waiter>>

\* the event reaches the waiter; a job removed before the waiter looked is reported missing
Deliver(b) ==
    /\ job[b] = "finished" /\ waiter[b] = "waiting"
    /\ \E w \in {"listed", "refused"} : WaiterBecomes(b, w)
    /\ JobBecomes(b, "none")
    /\ UNCHANGED cron

NoTimer(b) == FALSE /\ UNCHANGED vars  \* Mutant: waitUntilFinished without a limit

\* ten seconds are over; the job stays where it is
TimerFires(b) ==
    /\ waiter[b] = "waiting" /\ WaiterBecomes(b, "refused")
    /\ JobBecomes(b, IF job[b] = "finished" THEN "none" ELSE job[b])
    /\ UNCHANGED cron

\* the response is sent
Respond(b) ==
    /\ waiter[b] \in {"listed", "refused"} /\ WaiterBecomes(b, "idle")
    /\ UNCHANGED <<cron, job>>

-----------------------------------------------------------------------------
\* the API process ends: nobody records or waits any more
ApiDies ==
    /\ call' = [r \in Runs |-> "idle"]
    /\ lost' = lost \union {r \in Runs : call[r] # "idle"}
    /\ waiter' = [b \in Browses |-> "idle"]
    /\ job' = [b \in Browses |-> IF job[b] = "finished" THEN "none" ELSE job[b]]
    /\ UNCHANGED <<cronRow, verdict, external>>

CronStep(r) == \/ Trigger(r)
               \/ \E code \in {"ok", "error"} : Answered(r, code)
               \/ \E did \in {"nothing", "ok", "error"} : Throws(r, did)
               \/ Complete(r) \/ CompleteFails(r)

BrowseStep(b) == \/ Browse(b) \/ AddJob(b) \/ Take(b) \/ Finish(b) \/ WorkerDies(b)
                 \/ Deliver(b) \/ TimerFires(b) \/ Respond(b)

Next == (\E r \in Runs : CronStep(r)) \/ (\E b \in Browses : BrowseStep(b)) \/ ApiDies

\* Node's own steps and its timer; no worker is owed
Fairness == \A b \in Browses : WF_vars(AddJob(b)) /\ WF_vars(TimerFires(b)) /\ WF_vars(Respond(b))

Spec == Init /\ [][Next]_vars /\ Fairness

-----------------------------------------------------------------------------
\* A run shown as succeeded was carried out by the external system, and one shown as
\* running has a request that will say how it ended, unless the recording itself was lost.
CronRowsTell ==
    \A r \in Runs :
      /\ cronRow[r] = "succeeded" => external[r] = "ok"
      /\ cronRow[r] = "running" /\ call[r] = "idle" => r \in lost

\* What CronRowsTell rests on: a request in flight has a running row, and what it is about to
\* record is what the external system answered.
RequestKnows ==
    \A r \in Runs :
      /\ call[r] # "idle" => cronRow[r] = "running"
      /\ call[r] = "recording" => /\ verdict[r] \in {"succeeded", "failed"}
                                  /\ verdict[r] = "succeeded" => external[r] = "ok"

IInv == TypeOK /\ RequestKnows /\ CronRowsTell

\* A folder picker never hangs: with no worker for the repository, or one that dies or
\* answers too late, the request is answered all the same.
EveryBrowseAnswered == \A b \in Browses : waiter[b] # "idle" ~> waiter[b] = "idle"
=============================================================================
