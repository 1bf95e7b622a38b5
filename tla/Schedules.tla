----------------------------- MODULE Schedules -----------------------------
(* The QA automation schedules: a row per environment in PostgreSQL and a job  *)
(* scheduler per environment in Redis, written one after the other by a PUT;    *)
(* and the one-off jobs the dashboard adds to the same queues.                   *)
EXTENDS Naturals, FiniteSets, Sequences

CONSTANTS Puts,         \* slots for PUT requests in flight
          Tests,        \* tests a staging run may hold results of
          QuarantinedTests

VARIABLES row,          \* enabled column: "none" before the row exists
          scheduler,    \* whether the job scheduler exists in Redis
          put,          \* PUT requests in flight
          settled,      \* environments whose last finished PUT ran alone and to its end
          queue         \* jobs added and not yet taken, by environment

vars == <<row, scheduler, put, settled, queue>>

Envs == {"production", "staging"}     \* the same code twice
NoPut == [env |-> "none", enabled |-> "none", alone |-> TRUE]
Enabled == {"on", "off"}
Job(trigger, only, carried) == [trigger |-> trigger, only |-> only, carried |-> carried]

TypeOK == /\ row \in [Envs -> Enabled \union {"none"}]
          /\ scheduler \in [Envs -> BOOLEAN]
          /\ put \in [Puts -> [env : Envs \union {"none"}, enabled : Enabled \union {"none"},
                               alone : BOOLEAN]]
          /\ settled \subseteq Envs
          /\ queue \in [Envs -> SUBSET [trigger : {"scheduled", "manual"},
                                        only : SUBSET Tests, carried : SUBSET Tests]]

Init == /\ row = [e \in Envs |-> "none"] /\ scheduler = [e \in Envs |-> FALSE]
        /\ put = [p \in Puts |-> NoPut] /\ settled = {} /\ queue = [e \in Envs |-> {}]

\* GET: the repository's get is an upsert that creates the row enabled
GetSchedule(e) ==
    /\ row[e] = "none"
    /\ row' = [row EXCEPT ![e] = "on"]
    /\ UNCHANGED <<scheduler, put, settled, queue>>

\* PUT: upsert of the row; a body without "enabled" changes nothing or creates it enabled
PutRow(p, e, input) ==
    LET enabled == IF input # "absent" THEN input ELSE IF row[e] = "none" THEN "on" ELSE row[e]
        others == {q \in Puts : put[q].env = e}
    IN /\ put[p] = NoPut
       /\ row' = [row EXCEPT ![e] = enabled]
       /\ put' = [q \in Puts |->
                    IF q = p THEN [env |-> e, enabled |-> enabled, alone |-> others = {}]
                    ELSE IF q \in others THEN [put[q] EXCEPT !.alone = FALSE] ELSE put[q]]
       /\ UNCHANGED <<scheduler, settled, queue>>

PutSchedulerOnlyAdds(p) ==            \* Mutant: disabling leaves the scheduler in Redis
    LET e == put[p].env IN
      /\ put[p] # NoPut
      /\ scheduler' = [scheduler EXCEPT ![e] = @ \/ put[p].enabled = "on"]
      /\ settled' = IF put[p].alone THEN settled \union {e} ELSE settled \ {e}
      /\ put' = [put EXCEPT ![p] = NoPut]
      /\ UNCHANGED <<row, queue>>

\* then upsertJobScheduler or removeJobScheduler, after the row this PUT has read back
PutScheduler(p) ==
    LET e == put[p].env IN
      /\ put[p] # NoPut
      /\ scheduler' = [scheduler EXCEPT ![e] = (put[p].enabled = "on")]
      /\ settled' = IF put[p].alone THEN settled \union {e} ELSE settled \ {e}
      /\ put' = [put EXCEPT ![p] = NoPut]
      /\ UNCHANGED <<row, queue>>

\* Redis refuses, or the API process ends between the two writes
PutFails(p) ==
    /\ put[p] # NoPut
    /\ settled' = settled \ {put[p].env}
    /\ put' = [put EXCEPT ![p] = NoPut]
    /\ UNCHANGED <<row, scheduler, queue>>

-----------------------------------------------------------------------------
\* the cron pattern comes due; a scheduler has one job at a time
Tick(e) ==
    /\ scheduler[e]
    /\ queue' = [queue EXCEPT ![e] = @ \union {Job("scheduled", {}, {})}]
    /\ UNCHANGED <<row, scheduler, put, settled>>

\* POST runs, POST staging/runs
TriggerRun(e) ==
    /\ queue' = [queue EXCEPT ![e] = @ \union {Job("manual", {}, {})}]
    /\ UNCHANGED <<row, scheduler, put, settled>>

\* what a rerun executes and what it carries over, of the tests that did not pass
SelectRerunTargets(notPassed) == notPassed \ QuarantinedTests
SelectQuarantinedCarryForward(notPassed) == notPassed \intersect QuarantinedTests

\* POST staging/runs/:id/rerun
RerunStagingRun(notPassed) ==
    LET only == SelectRerunTargets(notPassed)
        carried == SelectQuarantinedCarryForward(notPassed)
    IN /\ only # {}
       /\ queue' = [queue EXCEPT !["staging"] = @ \union {Job("manual", only, carried)}]
       /\ UNCHANGED <<row, scheduler, put, settled>>

\* the qa-automation service takes a job (QaAutomationRuns)
TakeJob(e) ==
    \E j \in queue[e] : /\ queue' = [queue EXCEPT ![e] = @ \ {j}]
                        /\ UNCHANGED <<row, scheduler, put, settled>>

\* what the sections of the QA automation page send, and API clients
Section(e) == \/ GetSchedule(e) \/ TriggerRun(e)
              \/ \E p \in Puts, input \in Enabled \union {"absent"} : PutRow(p, e, input)

ProductionSection == Section("production")
StagingSection == Section("staging") \/ \E notPassed \in SUBSET Tests : RerunStagingRun(notPassed)

Next == \/ ProductionSection \/ StagingSection
        \/ \E e \in Envs : Tick(e) \/ TakeJob(e)
        \/ \E p \in Puts : PutScheduler(p) \/ PutFails(p)

Spec == Init /\ [][Next]_vars

-----------------------------------------------------------------------------
AtRest(e) == \A p \in Puts : put[p].env # e

\* A PUT that overlaps no other and does not fail leaves the row and the scheduler saying
\* the same, whatever disagreement failed or overlapping ones left before it.
SettledSchedulesAgree ==
    \A e \in settled : AtRest(e) => /\ row[e] # "none"
                                    /\ scheduler[e] <=> row[e] = "on"

\* What SettledSchedulesAgree rests on: a PUT nobody has met since it wrote the row is the only
\* one of its environment, and the row says what it is about to tell Redis.
AloneIsAlone ==
    \A p \in Puts : put[p] # NoPut =>
      /\ put[p].env \in Envs /\ put[p].enabled \in Enabled
      /\ put[p].alone => /\ row[put[p].env] = put[p].enabled
                         /\ \A q \in Puts \ {p} : put[q].env # put[p].env

IInv == TypeOK /\ AloneIsAlone /\ SettledSchedulesAgree
=============================================================================
