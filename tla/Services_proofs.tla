-------------------------- MODULE Services_proofs --------------------------
(***************************************************************************)
(* Proofs about the services and browser checks that MCServices composes,  *)
(* each about every behaviour of the module itself, for any values of its  *)
(* constants.                                                              *)
(***************************************************************************)
EXTENDS MCServices, SequenceTheorems, FiniteSetTheorems, TLAPS

(***************************************************************************)
(* Schedules                                                               *)
(***************************************************************************)

\* Nobody has sent a PUT.
LEMMA PlansInit == Plans!Init => Plans!IInv
<1> SUFFICES ASSUME Plans!Init PROVE Plans!IInv
  OBVIOUS
<1>1. Plans!TypeOK
  BY DEF Plans!Init, Plans!TypeOK, Plans!NoPut, Plans!Enabled, Plans!Envs
<1>2. Plans!AloneIsAlone /\ Plans!SettledSchedulesAgree
  BY DEF Plans!Init, Plans!AloneIsAlone, Plans!SettledSchedulesAgree
<1> QED
  BY <1>1, <1>2 DEF Plans!IInv

\* A PUT writes the row; from then on those of its environment know of each other.
LEMMA PutRowStep ==
    ASSUME Plans!IInv, NEW p \in Puts, NEW e \in Plans!Envs,
           NEW input \in Plans!Enabled \union {"absent"}, Plans!PutRow(p, e, input)
    PROVE  Plans!IInv'
<1> USE DEF Plans!IInv, Plans!TypeOK
<1> DEFINE enabled == IF input # "absent" THEN input ELSE IF row[e] = "none" THEN "on" ELSE row[e]
           others == {q \in Puts : put[q].env = e}
<1>1. /\ put[p] = Plans!NoPut /\ row' = [row EXCEPT ![e] = enabled]
      /\ put' = [q \in Puts |->
                   IF q = p THEN [env |-> e, enabled |-> enabled, alone |-> others = {}]
                   ELSE IF q \in others THEN [put[q] EXCEPT !.alone = FALSE] ELSE put[q]]
      /\ UNCHANGED <<scheduler, settled, queue>>
  BY DEF Plans!PutRow
<1>2. enabled \in Plans!Enabled
  BY DEF Plans!Enabled
<1>3. Plans!TypeOK'
  <2> DEFINE Requests0 == [env : Plans!Envs \union {"none"}, enabled : Plans!Enabled \union {"none"},
                        alone : BOOLEAN]
  <2>1. [env |-> e, enabled |-> enabled, alone |-> others = {}] \in Requests0
    BY <1>2
  <2>2. \A q \in Puts : put[q] \in Requests0 /\ [put[q] EXCEPT !.alone = FALSE] \in Requests0
    OBVIOUS
  <2>3. put' \in [Puts -> Requests0]
    BY <1>1, <2>1, <2>2
  <2>4. row' \in [Plans!Envs -> Plans!Enabled \union {"none"}]
    BY <1>1, <1>2
  <2> QED
    BY <1>1, <2>3, <2>4
<1>4. Plans!AloneIsAlone'
  <2>1. put'[p].env = e /\ put'[p].enabled = enabled /\ (put'[p].alone => others = {})
    BY <1>1
  <2>2. \A q \in Puts \ {p} : put'[q].env = put[q].env /\ put'[q].enabled = put[q].enabled
    BY <1>1
  <2>3. \A q \in Puts \ {p} : IF put[q].env = e THEN ~put'[q].alone ELSE put'[q] = put[q]
    BY <1>1
  <2>4. p \notin others
    BY <1>1 DEF Plans!NoPut, Plans!Envs
  <2> HIDE DEF enabled, others
  <2> SUFFICES ASSUME NEW q \in Puts, put'[q] # Plans!NoPut
               PROVE  /\ put'[q].env \in Plans!Envs /\ put'[q].enabled \in Plans!Enabled
                      /\ put'[q].alone => /\ row'[put'[q].env] = put'[q].enabled
                                          /\ \A o \in Puts \ {q} : put'[o].env # put'[q].env
    BY DEF Plans!AloneIsAlone
  <2>5. CASE q = p
    <3>1. others = {} => \A o \in Puts \ {q} : put'[o].env # e
      BY <2>2, <2>5 DEF others
    <3> QED
      BY <1>1, <1>2, <2>1, <2>5, <3>1 DEF enabled
  <2>6. CASE q # p /\ put[q].env = e
    <3>1. put[q] # Plans!NoPut
      BY <2>6 DEF Plans!NoPut, Plans!Envs
    <3> QED
      BY <2>2, <2>3, <2>6, <3>1 DEF Plans!AloneIsAlone
  <2>7. CASE q # p /\ put[q].env # e
    BY <1>1, <2>1, <2>2, <2>3, <2>7 DEF Plans!AloneIsAlone
  <2> QED
    BY <2>5, <2>6, <2>7
<1>5. Plans!SettledSchedulesAgree'
  <2>1. \A o \in Plans!Envs \ {e} : Plans!AtRest(o)' => Plans!AtRest(o)
    BY <1>1 DEF Plans!AtRest, Plans!NoPut, Plans!Envs
  <2>2. ~Plans!AtRest(e)'
    BY <1>1 DEF Plans!AtRest
  <2> QED
    BY <1>1, <2>1, <2>2 DEF Plans!SettledSchedulesAgree
<1> QED
  BY <1>3, <1>4, <1>5

\* Redis is told, or the PUT fails; only one that was alone to the end settles its environment.
LEMMA PutEndStep ==
    ASSUME Plans!IInv, NEW p \in Puts, Plans!PutScheduler(p) \/ Plans!PutFails(p)
    PROVE  Plans!IInv'
<1> USE DEF Plans!IInv, Plans!TypeOK
<1> DEFINE e == put[p].env
<1>1. e \in Plans!Envs /\ put[p] # Plans!NoPut /\ put[p].enabled \in Plans!Enabled
  BY DEF Plans!PutScheduler, Plans!PutFails, Plans!AloneIsAlone
<1>2. put' = [put EXCEPT ![p] = Plans!NoPut] /\ UNCHANGED <<row, queue>>
  BY DEF Plans!PutScheduler, Plans!PutFails
<1>3. Plans!TypeOK'
  BY <1>1, <1>2 DEF Plans!PutScheduler, Plans!PutFails, Plans!NoPut
<1>4. Plans!AloneIsAlone'
  BY <1>1, <1>2 DEF Plans!AloneIsAlone, Plans!NoPut, Plans!Envs
<1>5. \A o \in Plans!Envs \ {e} : Plans!AtRest(o)' => Plans!AtRest(o)
  BY <1>1, <1>2 DEF Plans!AtRest
<1>6. Plans!SettledSchedulesAgree'
  <2> SUFFICES ASSUME NEW o \in settled', Plans!AtRest(o)'
               PROVE  row'[o] # "none" /\ (scheduler'[o] <=> row'[o] = "on")
    BY DEF Plans!SettledSchedulesAgree
  <2>1. CASE o = e
    <3>1. put[p].alone /\ Plans!PutScheduler(p)
      BY <2>1 DEF Plans!PutScheduler, Plans!PutFails
    <3>2. row[e] = put[p].enabled /\ scheduler'[e] = (put[p].enabled = "on")
      BY <1>1, <3>1 DEF Plans!AloneIsAlone, Plans!PutScheduler
    <3> QED
      BY <1>1, <1>2, <2>1, <3>2 DEF Plans!Enabled
  <2>2. CASE o # e
    BY <1>1, <1>2, <1>5, <2>2 DEF Plans!PutScheduler, Plans!PutFails, Plans!SettledSchedulesAgree
  <2> QED
    BY <2>1, <2>2
<1> QED
  BY <1>3, <1>4, <1>6

\* The other requests, the cron pattern and the service touch rows nobody is at rest with, or
\* the queues alone.
LEMMA PlansStep == Plans!IInv /\ [Plans!Next]_(Plans!vars) => Plans!IInv'
<1> SUFFICES ASSUME Plans!IInv, [Plans!Next]_(Plans!vars) PROVE Plans!IInv'
  OBVIOUS
<1> USE DEF Plans!IInv, Plans!TypeOK
<1>1. ASSUME NEW e \in Plans!Envs, Plans!GetSchedule(e) PROVE Plans!IInv'
  BY <1>1 DEF Plans!GetSchedule, Plans!AloneIsAlone, Plans!SettledSchedulesAgree, Plans!AtRest,
              Plans!Enabled
<1>2. ASSUME UNCHANGED <<row, scheduler, put, settled>>, Plans!TypeOK' PROVE Plans!IInv'
  BY <1>2 DEF Plans!AloneIsAlone, Plans!SettledSchedulesAgree, Plans!AtRest
<1>3. ASSUME NEW e \in Plans!Envs, Plans!Tick(e) \/ Plans!TriggerRun(e) \/ Plans!TakeJob(e)
      PROVE  Plans!IInv'
  BY <1>2, <1>3 DEF Plans!Tick, Plans!TriggerRun, Plans!TakeJob, Plans!Job
<1>4. ASSUME NEW notPassed \in SUBSET Tests, Plans!RerunStagingRun(notPassed)
      PROVE  Plans!IInv'
  BY <1>2, <1>4 DEF Plans!RerunStagingRun, Plans!Job, Plans!SelectRerunTargets,
                    Plans!SelectQuarantinedCarryForward, Plans!Envs
<1>5. CASE UNCHANGED Plans!vars
  BY <1>2, <1>5 DEF Plans!vars
<1>6. \A e \in Plans!Envs : Plans!Section(e) => Plans!IInv'
  BY <1>1, <1>3, PutRowStep DEF Plans!Section
<1> QED
  BY <1>3, <1>4, <1>5, <1>6, PutEndStep
  DEF Plans!Next, Plans!ProductionSection, Plans!StagingSection, Plans!Envs

\* A PUT that overlaps no other and does not fail leaves the row and Redis saying the same,
\* for any number of PUTs in flight and whatever failed before it.
THEOREM SchedulesAgree == Plans!Spec => []SettledSchedulesAgree
<1>1. Plans!IInv => SettledSchedulesAgree
  BY DEF Plans!IInv, SettledSchedulesAgree
<1> QED
  BY <1>1, PlansInit, PlansStep, PTL DEF Plans!Spec

(***************************************************************************)
(* OneDriveCopy                                                            *)
(***************************************************************************)

\* No connection, no upload, no callback.
LEMMA DriveInit == Drive!Init => Drive!IInv
<1> SUFFICES ASSUME Drive!Init PROVE Drive!IInv
  OBVIOUS
<1>1. Drive!TypeOK
  BY DEF Drive!Init, Drive!TypeOK, Drive!Idle
<1>2. \A u \in Uploads : up[u].at = "idle"
  BY DEF Drive!Init, Drive!Idle
<1>3. Drive!SuccessorsAreTheirs /\ Drive!GrantIsTheirs /\ Drive!SomebodySaves
  BY <1>2 DEF Drive!Init, Drive!SuccessorsAreTheirs, Drive!GrantIsTheirs, Drive!SomebodySaves
<1> QED
  BY <1>1, <1>3 DEF Drive!IInv

\* A refresh spends the upload's own token for one nobody else has.
LEMMA RefreshStep ==
    ASSUME Drive!IInv, NEW u \in Uploads, Drive!Refresh(u)
    PROVE  Drive!IInv'
<1> USE DEF Drive!IInv
<1>1. CASE up[u].token \in valid
  <2>1. PICK t \in Tokens : /\ Drive!Fresh(t) /\ Drive!Go(u, "save", t)
                            /\ valid' = (valid \ {up[u].token}) \union {t}
    BY <1>1 DEF Drive!Refresh
  <2> USE <2>1 DEF Drive!Refresh, Drive!Fresh, Drive!Go, Drive!TypeOK
  <2>2. Drive!TypeOK'
    OBVIOUS
  <2>3. Drive!SuccessorsAreTheirs'
    BY DEF Drive!SuccessorsAreTheirs
  <2>4. Drive!GrantIsTheirs'
    BY DEF Drive!GrantIsTheirs
  <2>5. Drive!SomebodySaves'
    BY DEF Drive!SomebodySaves
  <2> QED
    BY <2>2, <2>3, <2>4, <2>5
<1>2. CASE up[u].token \notin valid
  BY <1>2 DEF Drive!Refresh, Drive!Leave, Drive!Idle, Drive!TypeOK, Drive!SuccessorsAreTheirs,
              Drive!GrantIsTheirs, Drive!SomebodySaves
<1> QED
  BY <1>1, <1>2

\* An upload that dies takes at most its own token with it, and a spent one is noted as torn.
LEMMA UploadDiesStep ==
    ASSUME Drive!IInv, NEW u \in Uploads, Drive!UploadDies(u)
    PROVE  Drive!IInv'
<1> USE DEF Drive!IInv, Drive!UploadDies, Drive!Leave, Drive!Idle, Drive!TypeOK
<1>1. valid' \subseteq valid /\ \A t \in valid \ valid' : up[u].at = "refresh" /\ t = up[u].token
  OBVIOUS
<1>2. Drive!TypeOK'
  BY <1>1
<1>3. Drive!SuccessorsAreTheirs'
  BY <1>1 DEF Drive!SuccessorsAreTheirs
<1>4. Drive!GrantIsTheirs'
  BY <1>1 DEF Drive!GrantIsTheirs
<1>5. Drive!SomebodySaves'
  BY <1>1 DEF Drive!SomebodySaves
<1> QED
  BY <1>2, <1>3, <1>4, <1>5

\* Every step keeps the tokens apart.
LEMMA DriveStep == Drive!IInv /\ [Drive!Next]_(Drive!vars) => Drive!IInv'
<1> SUFFICES ASSUME Drive!IInv, [Drive!Next]_(Drive!vars) PROVE Drive!IInv'
  OBVIOUS
<1> USE DEF Drive!IInv, Drive!TypeOK, Drive!SuccessorsAreTheirs, Drive!GrantIsTheirs,
            Drive!SomebodySaves
<1>1. ASSUME NEW u \in Uploads, Drive!FindConnection(u) PROVE Drive!IInv'
  BY <1>1 DEF Drive!FindConnection, Drive!Go, Drive!Idle
<1>2. ASSUME NEW u \in Uploads, Drive!Save(u) PROVE Drive!IInv'
  BY <1>2 DEF Drive!Save, Drive!Go
<1>3. ASSUME NEW u \in Uploads, Drive!Send(u) PROVE Drive!IInv'
  BY <1>3 DEF Drive!Send, Drive!Leave, Drive!Idle
<1>4. ASSUME Drive!CallbackExchanges PROVE Drive!IInv'
  BY <1>4 DEF Drive!CallbackExchanges, Drive!Fresh
<1>5. ASSUME NEW stores \in BOOLEAN, Drive!CallbackEnds(stores) PROVE Drive!IInv'
  BY <1>5 DEF Drive!CallbackEnds
<1>6. CASE UNCHANGED Drive!vars
  BY <1>6 DEF Drive!vars
<1> QED
  BY <1>1, <1>2, <1>3, <1>4, <1>5, <1>6, RefreshStep, UploadDiesStep DEF Drive!Next

\* In every behaviour of the copies, whatever uploads and callbacks overlap, the next run finds
\* a token Microsoft accepts unless an upload died between the refresh and the upsert.
THEOREM ConnectionUsable == Drive!Spec => []ConnectionStaysUsable
<1>1. Drive!IInv => ConnectionStaysUsable
  BY DEF Drive!IInv, Drive!SomebodySaves, ConnectionStaysUsable, Drive!ConnectionStaysUsable
<1> QED
  BY <1>1, DriveInit, DriveStep, PTL DEF Drive!Spec

(***************************************************************************)
(* PortalSidebar: any destinations, any number of faults                   *)
(***************************************************************************)

\* A fault is written down with the target it happened to, and none is forgotten.
LEMMA FaultIsNoted ==
    ASSUME Nav!TypeOK, NEW reason \in Nav!Kinds, Nav!Fault(reason)
    PROVE  /\ slips' \in Seq(Nav!Entries) /\ slips' # <<>>
           /\ \A t : Nav!Faulted(t) => \E n \in DOMAIN slips' : slips'[n].at = t
           /\ \E n \in DOMAIN slips' : slips'[n].at = next
<1> DEFINE entry == [at |-> next, kind |-> reason]
<1>1. Len(Targets) \in Nat
  BY DestinationsAssumption DEF Nav!TargetsAssumption
<1>2. slips \in Seq(Nav!Entries) /\ next \in Nat
  BY <1>1 DEF Nav!TypeOK
<1>3. entry \in Nav!Entries /\ entry.at = next
  BY <1>2 DEF Nav!Entries
<1>4. slips' = Append(slips, entry)
  BY DEF Nav!Fault
<1> HIDE DEF entry
<1>5. /\ slips' \in Seq(Nav!Entries) /\ Len(slips') = Len(slips) + 1 /\ Len(slips) \in Nat
      /\ DOMAIN slips = 1 .. Len(slips) /\ DOMAIN slips' = 1 .. Len(slips')
      /\ \A n \in 1 .. Len(slips) : slips'[n] = slips[n]
      /\ slips'[Len(slips) + 1] = entry
  BY <1>2, <1>3, <1>4
<1>6. \A t : Nav!Faulted(t) => \E n \in DOMAIN slips' : slips'[n].at = t
  BY <1>5 DEF Nav!Faulted
<1>7. \E n \in DOMAIN slips' : slips'[n].at = next
  BY <1>3, <1>5
<1>8. slips' # <<>>
  BY <1>5
<1> QED
  BY <1>5, <1>6, <1>7, <1>8

\* What a step does to the faults: none, or one more.
Mishap == UNCHANGED slips \/ \E reason \in Nav!Kinds : Nav!Fault(reason)

LEMMA FaultsStay ==
    ASSUME Nav!TypeOK, Mishap
    PROVE  /\ slips' \in Seq(Nav!Entries)
           /\ slips # <<>> => slips' # <<>>
           /\ \A t : Nav!Faulted(t) => \E n \in DOMAIN slips' : slips'[n].at = t
<1>1. CASE UNCHANGED slips
  BY <1>1 DEF Nav!TypeOK, Nav!Faulted
<1>2. ASSUME NEW reason \in Nav!Kinds, Nav!Fault(reason)
      PROVE  /\ slips' \in Seq(Nav!Entries)
             /\ slips # <<>> => slips' # <<>>
             /\ \A t : Nav!Faulted(t) => \E n \in DOMAIN slips' : slips'[n].at = t
  BY <1>2, FaultIsNoted
<1> QED
  BY <1>1, <1>2 DEF Mishap

\* The places of a test after which a target has no verdict yet.
OnTheWay == {"login", "badge", "expand", "settle", "toggle", "labels", "goto", "dialog", "find",
             "click", "dialog-again", "click-again", "land", "no-sidebar"}
AtATarget == {"goto", "dialog", "find", "click", "dialog-again", "click-again", "land"}
BeforeTargets == {"login", "badge", "expand", "no-sidebar", "labels"}

\* A step without a verdict: the report is as it was.
LEMMA NothingNoted ==
    ASSUME Nav!NavInv, Mishap, UNCHANGED <<works, next, failures, checkedOut>>,
           checkAt \in OnTheWay, checkAt' \in OnTheWay,
           checkAt' \in AtATarget => next > 0,
           checkAt' \in BeforeTargets => next = 0,
           checkAt' = "no-sidebar" => slips' # <<>>
    PROVE  Nav!InOrder' /\ Nav!VerdictsSoFar' /\ Nav!OneVerdictEach'
<1>1. /\ slips # <<>> => slips' # <<>>
      /\ \A t : Nav!Faulted(t) => \E n \in DOMAIN slips' : slips'[n].at = t
  BY FaultsStay DEF Nav!NavInv
<1>2. Nav!InOrder'
  BY DEF Nav!NavInv, Nav!InOrder, OnTheWay, AtATarget, BeforeTargets
<1>3. Nav!VerdictsSoFar'
  BY DEF Nav!NavInv, Nav!VerdictsSoFar
<1>4. checkedOut = "none"
  BY DEF Nav!NavInv, Nav!InOrder, OnTheWay
<1>5. Nav!OneVerdictEach'
  BY <1>1, <1>4 DEF Nav!NavInv, Nav!OneVerdictEach, Nav!Faulted
<1> QED
  BY <1>2, <1>3, <1>5

\* A verdict that is right leaves a report that is right.
LEMMA VerdictNoted ==
    ASSUME Nav!NavInv, Mishap, UNCHANGED works, next > 0, checkAt # "done",
           NEW bad \in BOOLEAN, Nav!Noted(bad),
           bad => works[next] # "ok" \/ \E n \in DOMAIN slips' : slips'[n].at = next,
           ~bad => works[next] = "ok" \/ Targets[next].home
    PROVE  /\ Nav!InOrder' /\ Nav!VerdictsSoFar' /\ Nav!OneVerdictEach' /\ Nav!SidebarSoFar'
           /\ next' \in 0 .. Len(Targets) /\ failures' \subseteq DOMAIN Targets
           /\ checkedOut' \in {"none", "passed", "failed"} /\ checkAt' \in {"goto", "done"}
<1>1. \A t : Nav!Faulted(t) => \E n \in DOMAIN slips' : slips'[n].at = t
  BY FaultsStay DEF Nav!NavInv
<1>2. checkedOut = "none"
  BY DEF Nav!NavInv, Nav!InOrder
<1>3. Len(Targets) \in Nat /\ DOMAIN Targets = 1 .. Len(Targets)
  BY DestinationsAssumption DEF Nav!TargetsAssumption
<1>4. next \in 1 .. Len(Targets) /\ failures \subseteq 1 .. Len(Targets)
  BY <1>3 DEF Nav!NavInv, Nav!TypeOK
<1>5. \A t \in failures : t < next
  BY <1>2, <1>4 DEF Nav!NavInv, Nav!VerdictsSoFar
<1>6. \A t \in 1 .. Len(Targets) : t < next => works[t] = "ok" \/ Targets[t].home \/ t \in failures
  BY <1>3 DEF Nav!NavInv, Nav!VerdictsSoFar
<1>7. /\ failures' \subseteq failures \cup {next} /\ failures \subseteq failures'
      /\ next \in failures' <=> bad
  BY <1>5, <1>4 DEF Nav!Noted
<1>8. \A t \in failures' : works[t] # "ok" \/ \E n \in DOMAIN slips' : slips'[n].at = t
  BY <1>1, <1>7 DEF Nav!NavInv, Nav!OneVerdictEach
<1>9. \A t \in 1 .. Len(Targets) : t <= next => works[t] = "ok" \/ Targets[t].home \/ t \in failures'
  BY <1>4, <1>6, <1>7
<1>10. \/ /\ next < Len(Targets) /\ checkAt' = "goto" /\ next' = next + 1 /\ checkedOut' = "none"
       \/ /\ next = Len(Targets) /\ checkAt' = "done" /\ next' = next
          /\ checkedOut' = IF failures' = {} THEN "passed" ELSE "failed"
  BY <1>2, <1>4 DEF Nav!Noted, Nav!Over
<1>11. Nav!InOrder'
  BY <1>4, <1>10 DEF Nav!InOrder
<1>12. Nav!VerdictsSoFar'
  <2>1. \A t \in failures' : t <= next' /\ (t = next' => checkedOut' # "none")
    BY <1>4, <1>5, <1>7, <1>10
  <2>2. ASSUME NEW t \in 1 .. Len(Targets),
               t < next' \/ (t = next' /\ checkedOut' # "none")
        PROVE  works[t] = "ok" \/ Targets[t].home \/ t \in failures'
    <3>1. t <= next
      BY <1>4, <1>10, <2>2
    <3> QED
      BY <1>9, <3>1
  <2> QED
    BY <1>3, <2>1, <2>2 DEF Nav!VerdictsSoFar
<1>13. Nav!OneVerdictEach'
  <2>1. \A t \in failures' : works'[t] # "ok" \/ Nav!Faulted(t)'
    BY <1>8 DEF Nav!Faulted
  <2>2. checkedOut' # "none" => next = Len(Targets)
    BY <1>10
  <2>3. ASSUME NEW t \in 1 .. Len(Targets), works[t] # "ok", ~Targets[t].home, checkedOut' # "none"
        PROVE  t \in failures'
    <3>1. t <= next
      BY <1>3, <2>2, <2>3
    <3> QED
      BY <1>9, <2>3, <3>1
  <2>4. checkedOut' = "failed" => failures' # {}
    BY <1>10
  <2>5. checkedOut' # "threw"
    BY <1>10
  <2> QED
    BY <1>3, <2>1, <2>3, <2>4, <2>5 DEF Nav!OneVerdictEach
<1>14. Nav!SidebarSoFar'
  BY <1>10 DEF Nav!SidebarSoFar
<1>15. next' \in 0 .. Len(Targets) /\ failures' \subseteq DOMAIN Targets
  BY <1>3, <1>4, <1>7, <1>10
<1> QED
  BY <1>10, <1>11, <1>12, <1>13, <1>14, <1>15

\* A test about to begin.
LEMMA NavStart == Nav!Init => Nav!NavInv
<1> SUFFICES ASSUME Nav!Init PROVE Nav!NavInv
  OBVIOUS
<1>1. Len(Targets) \in Nat /\ DOMAIN Targets = 1 .. Len(Targets)
  BY DestinationsAssumption DEF Nav!TargetsAssumption
<1>2. Nav!TypeOK
  <2>1. slips \in Seq(Nav!Entries)
    BY DEF Nav!Init
  <2>2. next \in 0 .. Len(Targets) /\ failures \subseteq DOMAIN Targets
    BY <1>1 DEF Nav!Init
  <2> QED
    BY <2>1, <2>2 DEF Nav!Init, Nav!TypeOK
<1>3. Nav!InOrder /\ Nav!SidebarSoFar
  BY DEF Nav!Init, Nav!InOrder, Nav!SidebarSoFar
<1>4. Nav!VerdictsSoFar
  BY <1>1 DEF Nav!Init, Nav!VerdictsSoFar
<1>5. Nav!OneVerdictEach
  BY DEF Nav!Init, Nav!OneVerdictEach
<1> QED
  BY <1>2, <1>3, <1>4, <1>5 DEF Nav!NavInv

\* Types again after a step that moves the report at most to the next target.
LEMMA NavTypes ==
    ASSUME Nav!TypeOK, Mishap, UNCHANGED <<works, check>>,
           checkAt' \in OnTheWay \union {"done"}, clicks' \in {clicks, clicks + 1},
           width' \in {Nav!Collapsed, 200, Nav!Expanded}, moving' \in BOOLEAN, derailed' \in BOOLEAN,
           dialog' \in BOOLEAN, rounds' \in {0, rounds, rounds + 1}, next' \in 0 .. Len(Targets),
           failures' \subseteq DOMAIN Targets,
           checkedOut' \in {"none", "passed", "failed", "threw"}
    PROVE  Nav!TypeOK'
<1>1. slips' \in Seq(Nav!Entries)
  BY FaultsStay
<1>2. clicks' \in Nat /\ rounds' \in Nat
  BY DEF Nav!TypeOK
<1> QED
  BY <1>1, <1>2 DEF Nav!TypeOK, OnTheWay

\* Up to the first target: signing in, and the sidebar opened for the list of labels.
LEMMA SignedIn ==
    ASSUME Nav!NavInv, Nav!submitLoginUntilAppLoads \/ Nav!SignIn \/ Nav!Badge
    PROVE  Nav!NavInv'
<1> USE DEF Nav!portal, Nav!sidebar
<1>1. /\ checkAt \in {"login", "badge"} /\ next = 0 /\ failures = {} /\ checkedOut = "none"
      /\ UNCHANGED <<works, check, width, reading, moving, derailed, dialog, rounds, next, failures>>
      /\ clicks' \in {clicks, clicks + 1}
      /\ \/ /\ checkAt' \in {"login", "badge", "expand"} /\ UNCHANGED <<checkedOut, slips>>
         \/ /\ checkAt' = "no-sidebar" /\ UNCHANGED checkedOut /\ Nav!Fault("login")
         \/ /\ checkAt' = "done" /\ checkedOut' = "threw" /\ Nav!Fault("login")
         \/ /\ checkAt' = "done" /\ checkedOut' = "failed" /\ Nav!Fault("badge")
  <2>1. checkAt \in {"login", "badge"}
    BY DEF Nav!submitLoginUntilAppLoads, Nav!SignIn, Nav!Badge
  <2>2. next = 0 /\ failures = {} /\ checkedOut = "none"
    BY <2>1 DEF Nav!NavInv, Nav!InOrder
  <2> QED
    BY <2>1, <2>2 DEF Nav!submitLoginUntilAppLoads, Nav!SignIn, Nav!Badge, Nav!Over
<1>2. Mishap /\ Nav!TypeOK
  BY <1>1 DEF Mishap, Nav!Kinds, Nav!NavInv
<1>3. checkAt' \in {"no-sidebar", "done"} => slips' # <<>>
  BY <1>1, <1>2, FaultIsNoted DEF Nav!Kinds
<1>4. Nav!TypeOK'
  <2>1. /\ checkAt' \in OnTheWay \union {"done"} /\ checkedOut' \in {"none", "passed", "failed", "threw"}
    BY <1>1 DEF OnTheWay
  <2>2. /\ width' \in {Nav!Collapsed, 200, Nav!Expanded} /\ moving' \in BOOLEAN /\ derailed' \in BOOLEAN
        /\ dialog' \in BOOLEAN /\ rounds' \in {0, rounds, rounds + 1} /\ next' \in 0 .. Len(Targets)
        /\ failures' \subseteq DOMAIN Targets
    BY <1>1, <1>2 DEF Nav!TypeOK
  <2> QED
    BY <1>1, <1>2, <2>1, <2>2, NavTypes
<1>5. Nav!SidebarSoFar'
  BY <1>1, <1>2 DEF Nav!NavInv, Nav!SidebarSoFar
<1>6. CASE checkAt' # "done"
  <2>1. Nav!InOrder' /\ Nav!VerdictsSoFar' /\ Nav!OneVerdictEach'
    <3>1. checkAt \in OnTheWay /\ checkAt' \in OnTheWay /\ checkAt' \notin AtATarget
          /\ UNCHANGED checkedOut
      BY <1>1, <1>6 DEF OnTheWay, AtATarget
    <3> QED
      BY <1>1, <1>2, <1>3, <3>1, NothingNoted
  <2> QED
    BY <1>4, <1>5, <2>1 DEF Nav!NavInv
<1>7. CASE checkAt' = "done"
  <2>1. checkedOut' \in {"failed", "threw"} /\ slips' # <<>> /\ next' = 0 /\ failures' = {}
    BY <1>1, <1>3, <1>7
  <2>2. Nav!InOrder'
    BY <1>7, <2>1 DEF Nav!InOrder
  <2>3. Nav!VerdictsSoFar'
    <3>1. DOMAIN Targets = 1 .. Len(Targets) /\ Len(Targets) \in Nat
      BY DestinationsAssumption DEF Nav!TargetsAssumption
    <3> QED
      BY <2>1, <3>1 DEF Nav!VerdictsSoFar
  <2>4. Nav!OneVerdictEach'
    BY <2>1 DEF Nav!OneVerdictEach
  <2> QED
    BY <1>4, <1>5, <2>2, <2>3, <2>4 DEF Nav!NavInv
<1> QED
  BY <1>6, <1>7

\* A step without a verdict, all in all.
LEMMA Onward ==
    ASSUME Nav!NavInv, Mishap, UNCHANGED <<works, check, clicks, next, failures, checkedOut>>,
           checkAt \in OnTheWay, checkAt' \in OnTheWay \ {"no-sidebar"},
           checkAt' \in AtATarget => next > 0,
           checkAt' \in BeforeTargets => next = 0,
           width' \in {Nav!Collapsed, 200, Nav!Expanded}, moving' \in BOOLEAN, derailed' \in BOOLEAN,
           dialog' \in BOOLEAN, rounds' \in {0, rounds, rounds + 1},
           Nav!SidebarSoFar'
    PROVE  Nav!NavInv'
<1>1. Nav!InOrder' /\ Nav!VerdictsSoFar' /\ Nav!OneVerdictEach'
  BY NothingNoted
<1>2. /\ Nav!TypeOK /\ next' \in 0 .. Len(Targets) /\ failures' \subseteq DOMAIN Targets
      /\ checkedOut' \in {"none", "passed", "failed", "threw"}
      /\ checkAt' \in OnTheWay \union {"done"} /\ clicks' \in {clicks, clicks + 1}
  BY DEF Nav!NavInv, Nav!TypeOK
<1>3. Nav!TypeOK'
  BY <1>2, NavTypes
<1> QED
  BY <1>1, <1>3 DEF Nav!NavInv

\* The facts the steps below start from.
LEMMA NavNow ==
    ASSUME Nav!NavInv
    PROVE  /\ Nav!TypeOK /\ Nav!SidebarSoFar
           /\ checkAt \in OnTheWay \union {"done"}
           /\ width \in {Nav!Collapsed, 200, Nav!Expanded} /\ moving \in BOOLEAN
           /\ derailed \in BOOLEAN /\ dialog \in BOOLEAN /\ rounds \in Nat
           /\ next \in Nat /\ (checkAt \in AtATarget => next > 0)
           /\ (checkAt \in BeforeTargets => next = 0)
<1>1. Len(Targets) \in Nat
  BY DestinationsAssumption DEF Nav!TargetsAssumption
<1> QED
  BY <1>1 DEF Nav!NavInv, Nav!TypeOK, Nav!InOrder, OnTheWay, AtATarget, BeforeTargets

\* The arrow of the collapsed sidebar, clicked once, and the width read.
LEMMA SidebarExpands ==
    ASSUME Nav!NavInv, Nav!expandCollapsedAdminSidebar
    PROVE  Nav!NavInv'
<1>1. /\ checkAt = "expand" /\ checkAt' = "settle" /\ reading' = width' /\ rounds' = 0
      /\ UNCHANGED <<works, check, clicks, moving, derailed, dialog, next, failures, checkedOut>>
      /\ width' = Nav!Expanded \/ (width' = width)
      /\ UNCHANGED slips \/ Nav!Fault("early-click")
  BY DEF Nav!expandCollapsedAdminSidebar, Nav!portal
<1>2. Mishap /\ checkAt' \in OnTheWay \ {"no-sidebar"} /\ checkAt \in OnTheWay
      /\ checkAt' \notin AtATarget \union BeforeTargets
  BY <1>1 DEF Mishap, Nav!Kinds, OnTheWay, AtATarget, BeforeTargets
<1>3. Nav!SidebarSoFar'
  BY <1>1, NavNow DEF Nav!SidebarSoFar
<1> QED
  BY <1>1, <1>2, <1>3, NavNow, Onward

\* Two readings that agree are of a sidebar at rest.
LEMMA SidebarSettles ==
    ASSUME Nav!NavInv, Nav!WidthSettles
    PROVE  Nav!NavInv'
<1>1. /\ checkAt = "settle" /\ width' = Nav!Frame(width) /\ moving' = (moving /\ width' # Nav!Collapsed)
      /\ UNCHANGED <<works, check, clicks, derailed, dialog, next, failures, checkedOut, slips>>
  BY DEF Nav!WidthSettles, Nav!portal
<1>2. \/ width' # reading /\ reading' = width' /\ checkAt' = checkAt /\ rounds' = rounds
      \/ /\ width' = reading /\ width' > Nav!EXPANDED_SIDEBAR_MIN_WIDTH /\ rounds' = rounds
         /\ checkAt' = IF next = 0 THEN "labels" ELSE "find"
      \/ /\ width' = reading /\ ~(width' > Nav!EXPANDED_SIDEBAR_MIN_WIDTH) /\ rounds' = 0
         /\ checkAt' = "toggle"
  BY DEF Nav!WidthSettles, Nav!Decide, Nav!Ensured
<1>3. moving => width # Nav!Collapsed /\ reading = width
  BY <1>1, NavNow DEF Nav!SidebarSoFar
<1>4. width' \in {Nav!Collapsed, 200, Nav!Expanded} /\ moving' \in BOOLEAN
  BY <1>1, NavNow DEF Nav!Frame
<1>5. moving => width' # reading /\ (width' # Nav!Collapsed => width' = 200)
  BY <1>1, <1>3, NavNow DEF Nav!Frame, Nav!Collapsed, Nav!Expanded
<1>6. Mishap /\ checkAt' \in OnTheWay \ {"no-sidebar"} /\ checkAt \in OnTheWay
      /\ (checkAt' \in AtATarget => next > 0) /\ (checkAt' \in BeforeTargets => next = 0)
  BY <1>1, <1>2, NavNow DEF Mishap, OnTheWay, AtATarget, BeforeTargets
<1>7. Nav!Faulted(next)' <=> Nav!Faulted(next)
  BY <1>1 DEF Nav!Faulted
<1>8. ~derailed /\ (~dialog \/ Nav!Faulted(next))
  BY <1>1, NavNow DEF Nav!SidebarSoFar
<1>9. Nav!SidebarSoFar'
  <2>1. CASE width' # reading /\ reading' = width' /\ checkAt' = "settle"
    BY <1>1, <1>7, <1>8, <2>1 DEF Nav!SidebarSoFar
  <2>2. CASE /\ width' = reading /\ width' > Nav!EXPANDED_SIDEBAR_MIN_WIDTH
             /\ checkAt' \in {"labels", "find"}
    BY <1>1, <1>5, <1>7, <1>8, <2>2 DEF Nav!SidebarSoFar
  <2>3. CASE /\ width' = reading /\ ~(width' > Nav!EXPANDED_SIDEBAR_MIN_WIDTH) /\ rounds' = 0
             /\ checkAt' = "toggle"
    <3>1. width' = Nav!Collapsed
      BY <1>4, <2>3 DEF Nav!EXPANDED_SIDEBAR_MIN_WIDTH, Nav!Collapsed, Nav!Expanded
    <3>2. ~moving' /\ ~derailed' /\ (~dialog' \/ Nav!Faulted(next)')
      BY <1>1, <1>5, <1>7, <1>8, <2>3
    <3> QED
      BY <2>3, <3>1, <3>2 DEF Nav!SidebarSoFar
  <2> QED
    BY <1>1, <1>2, <2>1, <2>2, <2>3
<1> QED
  BY <1>1, <1>2, <1>4, <1>6, <1>9, NavNow, Onward

\* The toggle opens a sidebar at rest, if the portal lets it.
LEMMA SidebarToggled ==
    ASSUME Nav!NavInv, Nav!Toggle
    PROVE  Nav!NavInv'
<1>1. checkAt = "toggle" /\ ~derailed /\ width = Nav!Collapsed /\ ~moving /\ rounds < 2
      /\ (~dialog \/ Nav!Faulted(next)) /\ (rounds > 0 => Nav!Faulted(next))
  BY NavNow DEF Nav!Toggle, Nav!SidebarSoFar
<1>2. /\ rounds' = rounds + 1
      /\ UNCHANGED <<works, check, clicks, moving, derailed, dialog, next, failures, checkedOut>>
      /\ \/ width' = Nav!Expanded /\ UNCHANGED slips
         \/ width' = width /\ Nav!Fault("toggle")
      /\ IF width' > Nav!EXPANDED_SIDEBAR_MIN_WIDTH \/ rounds' = 2
         THEN checkAt' = IF next = 0 THEN "labels" ELSE "find" ELSE checkAt' = checkAt
  BY <1>1 DEF Nav!Toggle, Nav!portal, Nav!Ensured
<1>3. Mishap
  BY <1>2 DEF Mishap, Nav!Kinds
<1>4. Nav!Faulted(next) => Nav!Faulted(next)'
  BY <1>2, <1>3, FaultsStay, NavNow DEF Nav!Faulted
<1>5. width' = Nav!Expanded \/ (width' = Nav!Collapsed /\ Nav!Faulted(next)')
  BY <1>1, <1>2, FaultIsNoted, NavNow DEF Nav!Faulted, Nav!Kinds
<1>6. Nav!Expanded > Nav!EXPANDED_SIDEBAR_MIN_WIDTH /\ ~(Nav!Collapsed > Nav!EXPANDED_SIDEBAR_MIN_WIDTH)
  BY DEF Nav!EXPANDED_SIDEBAR_MIN_WIDTH, Nav!Collapsed, Nav!Expanded
<1>7. checkAt' \in OnTheWay \ {"no-sidebar"} /\ checkAt \in OnTheWay
      /\ (checkAt' \in AtATarget => next > 0) /\ (checkAt' \in BeforeTargets => next = 0)
  BY <1>1, <1>2, NavNow DEF OnTheWay, AtATarget, BeforeTargets
<1>8. Nav!SidebarSoFar'
  <2>1. CASE checkAt' \in {"labels", "find"}
    BY <1>1, <1>2, <1>4, <1>5, <1>6, <2>1 DEF Nav!SidebarSoFar
  <2>2. CASE checkAt' = "toggle"
    <3>1. width' = Nav!Collapsed /\ Nav!Faulted(next)' /\ rounds' < 2
      BY <1>1, <1>2, <1>5, <1>6, <2>2, NavNow
    <3> QED
      BY <1>1, <1>2, <1>4, <2>2, <3>1 DEF Nav!SidebarSoFar
  <2> QED
    BY <1>1, <1>2, <2>1, <2>2
<1> QED
  BY <1>1, <1>2, <1>3, <1>5, <1>7, <1>8, NavNow, Onward

\* What shuts while the item is looked for is a fault: nothing was moving.
LEMMA SidebarCollapses ==
    ASSUME Nav!NavInv, Nav!Collapses
    PROVE  Nav!NavInv'
<1>1. checkAt = "find" /\ ~moving /\ ~derailed
  BY NavNow DEF Nav!Collapses, Nav!SidebarSoFar
<1>2. /\ checkAt' = checkAt /\ width' = Nav!Collapsed /\ moving' = FALSE /\ Nav!Fault("late-collapse")
      /\ UNCHANGED <<works, check, clicks, derailed, dialog, rounds, next, failures, checkedOut>>
  BY <1>1 DEF Nav!Collapses, Nav!portal
<1>3. Mishap /\ checkAt' \in OnTheWay \ {"no-sidebar"} /\ checkAt \in OnTheWay /\ checkAt' \notin BeforeTargets
      /\ next > 0
  BY <1>1, <1>2, NavNow DEF Mishap, Nav!Kinds, OnTheWay, AtATarget, BeforeTargets
<1>4. Nav!Faulted(next)'
  BY <1>2, FaultIsNoted, NavNow DEF Nav!Faulted, Nav!Kinds
<1>5. Nav!SidebarSoFar'
  BY <1>1, <1>2, <1>4 DEF Nav!SidebarSoFar
<1> QED
  BY <1>2, <1>3, <1>5, NavNow, Onward

\* Every label that is missing is missing for a reason.
LEMMA LabelsRead ==
    ASSUME Nav!NavInv, Nav!Labels
    PROVE  Nav!NavInv'
<1>1. /\ checkAt = "labels" /\ next = 0 /\ ~derailed /\ ~moving /\ failures = {} /\ checkedOut = "none"
      /\ width > Nav!EXPANDED_SIDEBAR_MIN_WIDTH \/ Nav!Faulted(next)
  BY NavNow DEF Nav!Labels, Nav!SidebarSoFar, Nav!NavInv, Nav!InOrder
<1>2. UNCHANGED <<works, check, clicks, width, reading, moving, derailed, dialog, rounds, failures, slips>>
  BY DEF Nav!Labels, Nav!portal, Nav!sidebar
<1>3. \/ Nav!Missing # {} /\ checkAt' = "done" /\ checkedOut' = "failed" /\ next' = next
      \/ checkAt' = "goto" /\ next' = 1 /\ checkedOut' = checkedOut
  BY DEF Nav!Labels, Nav!Over
<1>4. Len(Targets) \in Nat \ {0} /\ DOMAIN Targets = 1 .. Len(Targets)
  BY DestinationsAssumption DEF Nav!TargetsAssumption
<1>5. Mishap
  BY <1>2 DEF Mishap
<1>6. Nav!TypeOK'
  <2>1. checkAt' \in OnTheWay \union {"done"} /\ next' \in 0 .. Len(Targets)
        /\ checkedOut' \in {"none", "passed", "failed", "threw"}
    BY <1>1, <1>3, <1>4 DEF OnTheWay
  <2>2. /\ clicks' \in {clicks, clicks + 1} /\ rounds' \in {0, rounds, rounds + 1}
        /\ failures' \subseteq DOMAIN Targets
    BY <1>1, <1>2
  <2> QED
    BY <1>2, <1>5, <2>1, <2>2, NavNow, NavTypes
<1>7. Nav!SidebarSoFar'
  BY <1>3 DEF Nav!SidebarSoFar
<1>8. Nav!InOrder'
  BY <1>1, <1>2, <1>3 DEF Nav!InOrder
<1>9. Nav!VerdictsSoFar'
  BY <1>1, <1>2, <1>3, <1>4 DEF Nav!VerdictsSoFar
<1>10. Nav!OneVerdictEach'
  <2>1. CASE checkAt' = "goto" /\ next' = 1 /\ checkedOut' = checkedOut
    BY <1>1, <1>2, <2>1 DEF Nav!OneVerdictEach
  <2>2. CASE Nav!Missing # {} /\ checkAt' = "done" /\ checkedOut' = "failed" /\ next' = next
    <3>1. (\E t \in DOMAIN Targets : works[t] = "gone") \/ Nav!Faulted(next)
      <4>1. width > Nav!EXPANDED_SIDEBAR_MIN_WIDTH => ~(width <= Nav!EXPANDED_SIDEBAR_MIN_WIDTH)
        BY NavNow DEF Nav!EXPANDED_SIDEBAR_MIN_WIDTH, Nav!Collapsed, Nav!Expanded
      <4> QED
        BY <1>1, <2>2, <4>1 DEF Nav!Missing
    <3>2. Nav!Faulted(next) => slips # <<>>
      BY DEF Nav!Faulted
    <3> QED
      BY <1>1, <1>2, <2>2, <3>1, <3>2 DEF Nav!OneVerdictEach
  <2> QED
    BY <1>3, <2>1, <2>2
<1> QED
  BY <1>6, <1>7, <1>8, <1>9, <1>10 DEF Nav!NavInv

\* Every target begins with a page of its own.
LEMMA PageLoads ==
    ASSUME Nav!NavInv, Nav!Goto
    PROVE  Nav!NavInv'
<1>1. /\ checkAt = "goto" /\ derailed' = FALSE /\ rounds' = 0 /\ dialog' \in BOOLEAN
      /\ width' \in {Nav!Collapsed, Nav!Expanded} /\ reading' = width'
      /\ moving' \in BOOLEAN /\ (moving' => width' = Nav!Expanded /\ ~dialog')
      /\ checkAt' = IF dialog' THEN "dialog" ELSE "settle"
      /\ UNCHANGED <<works, check, clicks, next, failures, checkedOut, slips>>
  BY DEF Nav!Goto, Nav!portal
<1>2. Nav!Expanded # Nav!Collapsed
  BY DEF Nav!Expanded, Nav!Collapsed
<1>3. next > 0
  BY <1>1, NavNow DEF AtATarget
<1>4. Mishap /\ checkAt' \in OnTheWay \ {"no-sidebar"} /\ checkAt \in OnTheWay /\ checkAt' \notin BeforeTargets
  BY <1>1 DEF Mishap, OnTheWay, BeforeTargets
<1>5. Nav!SidebarSoFar'
  BY <1>1, <1>2 DEF Nav!SidebarSoFar
<1> QED
  BY <1>1, <1>3, <1>4, <1>5, Onward

\* A dialog that outlives its dismissal is a fault.
LEMMA DialogDismissed ==
    ASSUME Nav!NavInv, Nav!dismissOpenDialog
    PROVE  Nav!NavInv'
<1>1. /\ checkAt \in {"dialog", "dialog-again"} /\ rounds' = rounds + 1 /\ dialog' \in BOOLEAN
      /\ dialog' => dialog' = dialog
      /\ UNCHANGED <<works, check, clicks, width, reading, moving, derailed, next, failures, checkedOut>>
      /\ \/ checkAt' = checkAt
         \/ checkAt = "dialog" /\ checkAt' = "settle"
         \/ checkAt = "dialog-again" /\ checkAt' = "click-again"
  BY NavNow DEF Nav!dismissOpenDialog, Nav!portal, Nav!sidebar
<1>2. UNCHANGED slips \/ Nav!Fault("dialog")
  BY DEF Nav!dismissOpenDialog
<1>3. Mishap
  BY <1>2 DEF Mishap, Nav!Kinds
<1>4. Nav!Faulted(next) => Nav!Faulted(next)'
  BY <1>1, <1>3, FaultsStay, NavNow DEF Nav!Faulted
<1>5. dialog' => Nav!Faulted(next)'
  <2> SUFFICES ASSUME dialog' PROVE Nav!Faulted(next)'
    OBVIOUS
  <2>1. \/ Nav!Stubborn
        \/ Nav!Fault("dialog")
    BY DEF Nav!dismissOpenDialog
  <2>2. Nav!Stubborn => Nav!Faulted(next)
    BY DEF Nav!Stubborn, Nav!Faulted
  <2>3. Nav!Fault("dialog") => Nav!Faulted(next)'
    BY <1>1, FaultIsNoted, NavNow DEF Nav!Faulted, Nav!Kinds
  <2> QED
    BY <1>4, <2>1, <2>2, <2>3
<1>6. checkAt' \in OnTheWay \ {"no-sidebar"} /\ checkAt \in OnTheWay /\ checkAt' \notin BeforeTargets
      /\ next > 0
  BY <1>1, NavNow DEF OnTheWay, BeforeTargets, AtATarget
<1>7. Nav!SidebarSoFar'
  <2>1. checkAt = "dialog" => ~derailed /\ (moving => width # Nav!Collapsed /\ reading = width)
    BY NavNow DEF Nav!SidebarSoFar
  <2>2. checkAt = "dialog-again" => Nav!Faulted(next)
    BY NavNow DEF Nav!SidebarSoFar
  <2> QED
    BY <1>1, <1>4, <1>5, <2>1, <2>2 DEF Nav!SidebarSoFar
<1> QED
  BY <1>1, <1>3, <1>6, <1>7, NavNow, Onward

\* After a verdict the rest of the state is of the right kind whatever it was.
LEMMA AfterVerdict ==
    ASSUME Nav!NavInv, Mishap, next > 0, checkAt # "done",
           UNCHANGED <<works, check, clicks, width, moving, derailed, rounds>>, dialog' \in BOOLEAN,
           NEW bad \in BOOLEAN, Nav!Noted(bad),
           bad => works[next] # "ok" \/ \E n \in DOMAIN slips' : slips'[n].at = next,
           ~bad => works[next] = "ok" \/ Targets[next].home
    PROVE  Nav!NavInv'
<1>1. /\ Nav!InOrder' /\ Nav!VerdictsSoFar' /\ Nav!OneVerdictEach' /\ Nav!SidebarSoFar'
      /\ next' \in 0 .. Len(Targets) /\ failures' \subseteq DOMAIN Targets
      /\ checkedOut' \in {"none", "passed", "failed"} /\ checkAt' \in {"goto", "done"}
  BY VerdictNoted
<1>2. checkAt' \in OnTheWay \union {"done"} /\ checkedOut' \in {"none", "passed", "failed", "threw"}
      /\ clicks' \in {clicks, clicks + 1} /\ rounds' \in {0, rounds, rounds + 1}
  BY <1>1 DEF OnTheWay
<1>3. Nav!TypeOK'
  BY <1>1, <1>2, NavNow, NavTypes
<1> QED
  BY <1>1, <1>3 DEF Nav!NavInv

\* An item not to be seen is no item, one of a sidebar that is not open, or under a dialog.
LEMMA ItemLookedFor ==
    ASSUME Nav!NavInv, Nav!findVisibleSidebarItem
    PROVE  Nav!NavInv'
<1>1. /\ checkAt = "find" /\ next > 0 /\ ~derailed /\ ~moving
      /\ width > Nav!EXPANDED_SIDEBAR_MIN_WIDTH \/ Nav!Faulted(next)
      /\ ~dialog \/ Nav!Faulted(next)
      /\ UNCHANGED <<works, check, clicks, width, reading, moving, derailed, dialog, rounds>>
  BY NavNow DEF Nav!findVisibleSidebarItem, Nav!SidebarSoFar, AtATarget, Nav!portal, Nav!sidebar
<1>2. \/ checkAt' = "click" /\ UNCHANGED <<next, failures, checkedOut, slips>>
      \/ checkAt' = "find" /\ UNCHANGED <<next, failures, checkedOut, slips>>
      \/ Nav!Fault("late-dialog") /\ Nav!Noted(TRUE)
      \/ /\ Nav!Noted(TRUE) /\ UNCHANGED slips
         /\ works[next] = "gone" \/ ~(width > Nav!EXPANDED_SIDEBAR_MIN_WIDTH) \/ dialog
  BY <1>1 DEF Nav!findVisibleSidebarItem, Nav!Visible
<1>3. CASE checkAt' \in {"click", "find"} /\ UNCHANGED <<next, failures, checkedOut, slips>>
  <2>1. Mishap /\ checkAt' \in OnTheWay \ {"no-sidebar"} /\ checkAt \in OnTheWay /\ checkAt' \notin BeforeTargets
    BY <1>1, <1>3 DEF Mishap, OnTheWay, BeforeTargets
  <2>2. Nav!Faulted(next) <=> Nav!Faulted(next)'
    BY <1>3 DEF Nav!Faulted
  <2>3. Nav!SidebarSoFar'
    BY <1>1, <1>3, <2>2 DEF Nav!SidebarSoFar
  <2> QED
    BY <1>1, <1>3, <2>1, <2>3, NavNow, Onward
<1>4. CASE Nav!Fault("late-dialog") /\ Nav!Noted(TRUE)
  <2>1. Mishap /\ \E n \in DOMAIN slips' : slips'[n].at = next
    BY <1>4, FaultIsNoted, NavNow DEF Mishap, Nav!Kinds
  <2> QED
    BY <1>1, <1>4, <2>1, NavNow, AfterVerdict
<1>5. CASE /\ Nav!Noted(TRUE) /\ UNCHANGED slips
           /\ works[next] = "gone" \/ ~(width > Nav!EXPANDED_SIDEBAR_MIN_WIDTH) \/ dialog
  <2>1. Mishap /\ (works[next] # "ok" \/ \E n \in DOMAIN slips' : slips'[n].at = next)
    BY <1>1, <1>5 DEF Mishap, Nav!Faulted
  <2> QED
    BY <1>1, <1>5, <2>1, NavNow, AfterVerdict
<1> QED
  BY <1>2, <1>3, <1>4, <1>5

\* A click leads where the item leads, unless a dialog is there, which is then a fault.
LEMMA ItemClicked ==
    ASSUME Nav!NavInv, Nav!Click
    PROVE  Nav!NavInv'
<1>1. /\ checkAt \in {"click", "click-again"} /\ next > 0
      /\ dialog => Nav!Faulted(next)
      /\ UNCHANGED <<works, check, clicks, width, reading, moving>>
  BY NavNow DEF Nav!Click, Nav!SidebarSoFar, AtATarget, Nav!portal
<1>2. CASE /\ ~dialog /\ landed' = works[next] /\ checkAt' = "land" /\ derailed' = Targets[next].crosses
           /\ UNCHANGED <<dialog, rounds, next, failures, checkedOut, slips>>
  <2>1. Mishap /\ checkAt' \in OnTheWay \ {"no-sidebar"} /\ checkAt \in OnTheWay /\ checkAt' \notin BeforeTargets
    BY <1>1, <1>2 DEF Mishap, OnTheWay, BeforeTargets
  <2>2. Targets[next].crosses \in BOOLEAN
    <3>1. next \in DOMAIN Targets
      BY <1>1, DestinationsAssumption DEF Nav!TargetsAssumption, Nav!NavInv, Nav!TypeOK
    <3> DEFINE Entry == [group : {Targets[t].group : t \in DOMAIN Targets}, crosses : BOOLEAN,
                         home : BOOLEAN]
    <3>2. Targets \in Seq(Entry)
      BY DestinationsAssumption DEF Nav!TargetsAssumption
    <3> HIDE DEF Entry
    <3>3. Targets[next] \in Entry
      BY <3>1, <3>2
    <3> QED
      BY <3>3 DEF Entry
  <2>3. Nav!SidebarSoFar'
    BY <1>1, <1>2 DEF Nav!SidebarSoFar
  <2> QED
    BY <1>1, <1>2, <2>1, <2>2, <2>3, NavNow, Onward
<1>3. CASE /\ (dialog /\ UNCHANGED slips) \/ Nav!Fault("late-dialog")
           /\ dialog' = TRUE /\ rounds' = 0 /\ checkAt' = "dialog-again"
           /\ UNCHANGED <<derailed, next, failures, checkedOut>>
  <2>1. Mishap /\ checkAt' \in OnTheWay \ {"no-sidebar"} /\ checkAt \in OnTheWay /\ checkAt' \notin BeforeTargets
    BY <1>1, <1>3 DEF Mishap, Nav!Kinds, OnTheWay, BeforeTargets
  <2>2. Nav!Faulted(next)'
    BY <1>1, <1>3, FaultIsNoted, NavNow DEF Nav!Faulted, Nav!Kinds
  <2>3. Nav!SidebarSoFar'
    BY <1>1, <1>3, <2>2 DEF Nav!SidebarSoFar
  <2> QED
    BY <1>1, <1>3, <2>1, <2>3, NavNow, Onward
<1>4. CASE dialog /\ Nav!Noted(TRUE) /\ UNCHANGED <<derailed, dialog, rounds, slips>>
  <2>1. Mishap /\ \E n \in DOMAIN slips' : slips'[n].at = next
    BY <1>1, <1>4 DEF Mishap, Nav!Faulted
  <2> QED
    BY <1>1, <1>4, <2>1, NavNow, AfterVerdict
<1> QED
  BY <1>2, <1>3, <1>4 DEF Nav!Click

\* A page that works is waited for, or too slow.
LEMMA PageLanded ==
    ASSUME Nav!NavInv, Nav!Land \/ Nav!SessionLost
    PROVE  Nav!NavInv'
<1> USE DEF Nav!portal, Nav!sidebar
<1>1. CASE Nav!Land
  <2>1. checkAt = "land" /\ landed = works[next] /\ next > 0
        /\ UNCHANGED <<works, check, clicks, width, moving, derailed, dialog, rounds>>
    BY <1>1, NavNow DEF Nav!Land, Nav!SidebarSoFar, AtATarget
  <2>2. CASE Nav!Noted(landed # "ok") /\ UNCHANGED slips
    <3>1. Mishap /\ (landed # "ok") \in BOOLEAN
      BY <2>2 DEF Mishap
    <3> QED
      BY <2>1, <2>2, <3>1, NavNow, AfterVerdict
  <2>3. CASE Targets[next].home /\ Nav!Noted(FALSE) /\ UNCHANGED slips
    <3>1. Mishap
      BY <2>3 DEF Mishap
    <3> QED
      BY <2>1, <2>3, <3>1, NavNow, AfterVerdict
  <2>4. CASE Nav!Fault("slow-page") /\ Nav!Noted(TRUE)
    <3>1. Mishap /\ \E n \in DOMAIN slips' : slips'[n].at = next
      BY <2>4, FaultIsNoted, NavNow DEF Mishap, Nav!Kinds
    <3> QED
      BY <2>1, <2>4, <3>1, NavNow, AfterVerdict
  <2> QED
    BY <1>1, <2>2, <2>3, <2>4 DEF Nav!Land
<1>2. CASE checkAt = "settle" /\ next > 0 /\ Nav!Fault("session") /\ Nav!Noted(TRUE) /\ Nav!SessionLost
  <2>1. Mishap /\ \E n \in DOMAIN slips' : slips'[n].at = next
    BY <1>2, FaultIsNoted, NavNow DEF Mishap, Nav!Kinds
  <2>2. UNCHANGED <<works, check, clicks, width, moving, derailed, dialog, rounds>>
    BY <1>2 DEF Nav!SessionLost
  <2> QED
    BY <1>2, <2>1, <2>2, NavNow, AfterVerdict
<1>3. CASE checkAt = "no-sidebar" /\ Nav!Over("threw") /\ UNCHANGED <<next, failures, slips>> /\ Nav!SessionLost
  <2>1. /\ checkAt' = "done" /\ checkedOut' = "threw" /\ next = 0 /\ failures = {} /\ slips # <<>>
        /\ UNCHANGED <<works, check, clicks, width, moving, derailed, dialog, rounds, next, failures, slips>>
    BY <1>3 DEF Nav!Over, Nav!NavInv, Nav!InOrder, Nav!SessionLost
  <2>2. Len(Targets) \in Nat /\ DOMAIN Targets = 1 .. Len(Targets)
    BY DestinationsAssumption DEF Nav!TargetsAssumption
  <2>3. Nav!TypeOK'
    <3>1. Mishap /\ checkAt' \in OnTheWay \union {"done"} /\ next' \in 0 .. Len(Targets)
          /\ checkedOut' \in {"none", "passed", "failed", "threw"} /\ failures' \subseteq DOMAIN Targets
          /\ clicks' \in {clicks, clicks + 1} /\ rounds' \in {0, rounds, rounds + 1}
      BY <2>1, <2>2 DEF Mishap
    <3> QED
      BY <2>1, <3>1, NavNow, NavTypes
  <2>4. Nav!InOrder' /\ Nav!SidebarSoFar' /\ Nav!OneVerdictEach'
    BY <2>1 DEF Nav!InOrder, Nav!SidebarSoFar, Nav!OneVerdictEach
  <2>5. Nav!VerdictsSoFar'
    BY <2>1, <2>2 DEF Nav!VerdictsSoFar
  <2> QED
    BY <2>3, <2>4, <2>5 DEF Nav!NavInv
<1> QED
  BY <1>1, <1>2, <1>3 DEF Nav!SessionLost

LEMMA NavStep == Nav!NavInv /\ [Nav!Next]_(Nav!vars) => Nav!NavInv'
<1> SUFFICES ASSUME Nav!NavInv, [Nav!Next]_(Nav!vars) PROVE Nav!NavInv'
  OBVIOUS
<1>1. CASE UNCHANGED Nav!vars
  BY <1>1 DEF Nav!vars, Nav!NavInv, Nav!TypeOK, Nav!InOrder, Nav!VerdictsSoFar, Nav!SidebarSoFar,
     Nav!OneVerdictEach, Nav!Faulted
<1> QED
  BY <1>1, SignedIn, SidebarExpands, SidebarSettles, SidebarToggled, SidebarCollapses, LabelsRead,
     PageLoads, DialogDismissed, ItemLookedFor, ItemClicked, PageLanded
  DEF Nav!Next

\* Every destination gets a verdict of its own, for any destinations and any number of faults of
\* the portal: nothing broken is passed over, nothing that works is blamed for another's fault.
THEOREM EveryTargetIsJudged == Nav!Spec => []OneVerdictEach
<1>1. Nav!NavInv => OneVerdictEach
  BY DEF Nav!NavInv, OneVerdictEach
<1> QED
  BY <1>1, NavStart, NavStep, PTL DEF Nav!Spec

(***************************************************************************)
(* CandidateSearch: any numbers of candidates, any miscount                *)
(***************************************************************************)

\* What the plans of the three checks come to.
LEMMA FiltersPlan ==
    LET steps == Find!SkillFilters IN
    /\ Len(steps) = 6
    /\ steps[1] = Find!Select(1) /\ steps[2] = Find!Select(2) /\ steps[3] = Find!Select(3)
    /\ steps[4] = Find!Apply /\ steps[5] = Find!Show /\ steps[6] = Find!Show
BY DEF Find!SkillFilters, Find!Select, Find!Apply, Find!Show

LEMMA GenderPlan ==
    LET steps == Find!GenderBreakdown IN
    /\ Len(steps) = 14
    /\ steps[1] = Find!Select(1) /\ steps[2] = Find!Select(2) /\ steps[3] = Find!Select(3)
    /\ \A i \in {4, 7, 10, 13} : steps[i] = Find!Apply /\ steps[i + 1] = Find!Show
    /\ steps[6] = Find!Gender(1) /\ steps[9] = Find!Gender(2) /\ steps[12] = Find!Gender(3)
BY DEF Find!GenderBreakdown, Find!Select, Find!Apply, Find!Show, Find!Gender

LEMMA EducationPlan ==
    LET steps == Find!EducationAdditive IN
    /\ Len(steps) = 9
    /\ steps[1] = Find!Select(1) /\ steps[2] = Find!Select(2) /\ steps[3] = Find!Select(3)
    /\ \A i \in {5, 8} : steps[i] = Find!Apply /\ steps[i + 1] = Find!Show
    /\ steps[4] = Find!Check("Engineering") /\ steps[7] = Find!Check("Technology")
BY DEF Find!EducationAdditive, Find!Select, Find!Apply, Find!Show, Find!Check

\* What an operation does to the boxes that tell counts apart, and to the counts.
Fits(n) ==
    LET operation == Find!Plan[n] IN
    /\ operation.op \in {"skill", "option", "gender", "apply", "show"}
    /\ operation.op \in {"skill", "option", "gender"} => operation.box \in Find!Boxes
    /\ operation.op = "skill" => operation.box \notin Find!Counting /\ Find!Chosen(n + 1) = Find!Chosen(n)
    /\ operation.op = "option" =>
         Find!Chosen(n + 1) = Find!Chosen(n) \union ({operation.box} \intersect Find!Counting)
    /\ operation.op = "option" => operation.box \in {"Engineering", "Technology"}
    /\ operation.op = "gender" =>
         /\ operation.box \in Find!Genders /\ Find!Chosen(n + 1) = {operation.box}
         /\ operation.previous = Find!Chosen(n)
    /\ operation.op \in {"apply", "show"} => Find!Chosen(n + 1) = Find!Chosen(n)
    /\ operation.op # "show" => Find!ReadBefore(n + 1) = Find!ReadBefore(n)
    /\ operation.op = "show" => /\ Find!ReadBefore(n + 1) = Find!ReadBefore(n) + 1
                                /\ Find!NamedFor(Find!ReadBefore(n) + 1) = Find!Chosen(n)
    /\ n < Len(Find!Plan) /\ Find!Plan[n + 1].op = "show" => operation.op \in {"apply", "show"}

LEMMA PlanFits ==
    ASSUME search \in Find!SearchTests, NEW n \in 1 .. Len(Find!Plan)
    PROVE  Fits(n)
<1> USE DEF Find!Select, Find!Apply, Find!Show, Find!Gender, Find!Check, Find!Skills, Find!GENDERS
<1> USE DEF Find!Counting, Find!Boxes, Find!Genders, Find!Chosen, Find!ReadBefore, Find!NamedFor
<1>1. CASE search = "candidate-search-skill-filters"
  <2>1. Find!Plan = Find!SkillFilters
    BY <1>1 DEF Find!Plan
  <2>2. n \in 1 .. 6
    BY <2>1, FiltersPlan
  <2> QED
    BY <1>1, <2>1, <2>2, FiltersPlan DEF Fits
<1>2. CASE search = "candidate-search-gender-breakdown"
  <2>1. Find!Plan = Find!GenderBreakdown
    BY <1>2 DEF Find!Plan
  <2>2. n \in 1 .. 14
    BY <2>1, GenderPlan
  <2>3. CASE n \in {1, 2, 3}
    BY <1>2, <2>1, <2>3, GenderPlan DEF Fits
  <2>4. CASE n \in {4, 5}
    BY <1>2, <2>1, <2>4, GenderPlan DEF Fits
  <2>5. CASE n \in {6, 9, 12}
    <3>1. CASE n = 6
      BY <1>2, <2>1, <3>1, GenderPlan DEF Fits
    <3>2. CASE n = 9
      BY <1>2, <2>1, <3>2, GenderPlan DEF Fits
    <3>3. CASE n = 12
      BY <1>2, <2>1, <3>3, GenderPlan DEF Fits
    <3> QED
      BY <2>5, <3>1, <3>2, <3>3
  <2>6. CASE n \in {7, 10, 13}
    BY <1>2, <2>1, <2>6, GenderPlan DEF Fits
  <2>7. CASE n \in {8, 11, 14}
    BY <1>2, <2>1, <2>7, GenderPlan DEF Fits
  <2> QED
    BY <2>2, <2>3, <2>4, <2>5, <2>6, <2>7
<1>3. CASE search = "candidate-search-education-additive"
  <2>1. Find!Plan = Find!EducationAdditive
    BY <1>3 DEF Find!Plan
  <2>2. n \in 1 .. 9
    BY <2>1, EducationPlan
  <2> QED
    <3>1. CASE n \in {4, 7}
      <4>1. /\ Find!Plan[n].op = "option" /\ Find!Plan[n + 1].op = "apply"
            /\ Find!Plan[n].box = IF n = 4 THEN "Engineering" ELSE "Technology"
        BY <2>1, <3>1, EducationPlan
      <4>2. Find!Chosen(n + 1) = Find!Chosen(n) \union ({Find!Plan[n].box} \intersect Find!Counting)
        <5>1. CASE n = 4
          BY <1>3, <4>1, <5>1
        <5>2. CASE n = 7
          BY <1>3, <4>1, <5>2
        <5> QED
          BY <3>1, <5>1, <5>2
      <4>3. Find!ReadBefore(n + 1) = Find!ReadBefore(n)
        BY <1>3, <3>1
      <4>4. Find!Plan[n].box \in Find!Boxes
        BY <4>1
      <4> QED
        BY <4>1, <4>2, <4>3, <4>4 DEF Fits
    <3>2. CASE n \in {5, 6, 8, 9}
      BY <1>3, <2>1, <3>2, EducationPlan DEF Fits
    <3>3. CASE n \in {1, 2, 3}
      BY <1>3, <2>1, <3>3, EducationPlan DEF Fits
    <3> QED
      BY <2>2, <3>1, <3>2, <3>3
<1> QED
  BY <1>1, <1>2, <1>3 DEF Find!SearchTests

\* At the end of a plan, all its counts are read.
LEMMA PlanRead ==
    ASSUME search \in Find!SearchTests
    PROVE  /\ Len(Find!Plan) \in Nat \ {0} /\ Find!ReadBefore(1) = 0 /\ Find!Chosen(1) = {}
           /\ Find!ReadBefore(Len(Find!Plan) + 1) =
                IF search = "candidate-search-gender-breakdown" THEN 4 ELSE 2
<1> USE DEF Find!ReadBefore, Find!Chosen
<1>1. CASE search = "candidate-search-skill-filters"
  <2>1. Find!Plan = Find!SkillFilters
    BY <1>1 DEF Find!Plan
  <2> QED
    BY <1>1, <2>1, FiltersPlan
<1>2. CASE search = "candidate-search-gender-breakdown"
  <2>1. Find!Plan = Find!GenderBreakdown
    BY <1>2 DEF Find!Plan
  <2> QED
    BY <1>2, <2>1, GenderPlan
<1>3. CASE search = "candidate-search-education-additive"
  <2>1. Find!Plan = Find!EducationAdditive
    BY <1>3 DEF Find!Plan
  <2> QED
    BY <1>3, <2>1, EducationPlan
<1> QED
  BY <1>1, <1>2, <1>3 DEF Find!SearchTests

\* A site counts by the boxes that change a count.
LEMMA CountsTell ==
    ASSUME NEW boxes, NEW n
    PROVE  /\ Find!ShownFor(boxes, n) \in Int
           /\ Find!ShownFor(boxes, n) = Find!ShownFor(boxes \intersect Find!Counting, n)
<1>1. /\ DOMAIN Pool = {"Male", "Female", "Others"} /\ Wrong \in Nat /\ EngineersOnly \in Int
      /\ Pool["Male"] \in Nat /\ Pool["Female"] \in Nat /\ Pool["Others"] \in Nat
  <2>1. Find!Total \in Nat
    BY CandidatesAssumption DEF Find!PoolAssumption, Find!Total
  <2> QED
    BY <2>1, CandidatesAssumption DEF Find!PoolAssumption
<1>2. Find!Gendered(boxes) = Find!Gendered(boxes \intersect Find!Counting)
  <2>1. boxes \intersect DOMAIN Pool = (boxes \intersect Find!Counting) \intersect DOMAIN Pool
    BY <1>1 DEF Find!Counting
  <2> QED
    BY <2>1 DEF Find!Gendered
<1>3. boxes \intersect {"Male", "Technology"} = (boxes \intersect Find!Counting) \intersect {"Male", "Technology"}
  BY DEF Find!Counting
<1>4. /\ "Technology" \in boxes <=> "Technology" \in boxes \intersect Find!Counting
      /\ "Engineering" \in boxes <=> "Engineering" \in boxes \intersect Find!Counting
  BY DEF Find!Counting
<1>5. Find!ShownFor(boxes, n) = Find!ShownFor(boxes \intersect Find!Counting, n)
  BY <1>2, <1>3, <1>4 DEF Find!ShownFor
<1>6. Find!ShownFor(boxes, n) \in Int
  BY <1>1 DEF Find!ShownFor
<1> QED
  BY <1>5, <1>6

\* The check and the site stay what they are.
LEMMA SameSite ==
    ASSUME UNCHANGED <<search, honest>>
    PROVE  /\ Find!Plan' = Find!Plan
           /\ \A n : /\ Find!Chosen(n)' = Find!Chosen(n) /\ Find!ReadBefore(n)' = Find!ReadBefore(n)
                     /\ Find!NamedFor(n)' = Find!NamedFor(n)
           /\ \A boxes, n : Find!ShownFor(boxes, n)' = Find!ShownFor(boxes, n)
<1>1. Find!Plan' = Find!Plan
  BY DEF Find!Plan
<1>2. \A n : /\ Find!Chosen(n)' = Find!Chosen(n) /\ Find!ReadBefore(n)' = Find!ReadBefore(n)
             /\ Find!NamedFor(n)' = Find!NamedFor(n)
  BY DEF Find!Chosen, Find!ReadBefore, Find!NamedFor
<1>3. \A boxes, n : Find!ShownFor(boxes, n)' = Find!ShownFor(boxes, n)
  BY DEF Find!ShownFor
<1> QED
  BY <1>1, <1>2, <1>3

\* The facts the steps below start from.
LEMMA SearchNow ==
    ASSUME Find!SearchInv
    PROVE  /\ search \in Find!SearchTests /\ at \in Nat \ {0} /\ at <= Len(Find!Plan) + 1 /\ Len(Find!Plan) \in Nat
           /\ at <= Len(Find!Plan) => Fits(at)
           /\ Find!Op = Find!Plan[at]
           /\ checked \subseteq Find!Boxes /\ applied \subseteq Find!Boxes /\ pending \subseteq SUBSET Find!Boxes
           /\ counts \in Seq([shown : Int, of : SUBSET Find!Boxes]) /\ tries \in 0 .. 3
<1>1. search \in Find!SearchTests /\ at \in 1 .. Len(Find!Plan) + 1
  BY DEF Find!SearchInv, Find!TypeOK
<1>2. Len(Find!Plan) \in Nat
  BY <1>1, PlanRead
<1> QED
  BY <1>1, <1>2, PlanFits DEF Find!Op, Find!SearchInv, Find!TypeOK

\* A choice the plan makes is of one gender at most.
LEMMA OneChosen ==
    ASSUME NEW n, NEW boxes, boxes \intersect Find!Genders \subseteq Find!Chosen(n)
    PROVE  Find!OneGender(boxes)
<1>1. DOMAIN Pool = Find!Genders
  BY CandidatesAssumption DEF Find!PoolAssumption, Find!Genders
<1>2. \A g, h \in Find!Chosen(n) \intersect Find!Genders : g = h
  BY DEF Find!Chosen, Find!Genders
<1> QED
  BY <1>1, <1>2 DEF Find!OneGender

\* Counts read are what the site shows for their boxes, and those are the ones named or something
\* has gone astray.
Read(read, astray) ==
    \A n \in DOMAIN read :
        /\ read[n].shown = Find!ShownFor(read[n].of, n)
        /\ read[n].of \intersect Find!Counting = Find!NamedFor(n) \/ astray \intersect Find!Astray # {}
        /\ Find!OneGender(read[n].of) \/ "not-rendered" \in astray

LEMMA StillRead ==
    ASSUME Find!SearchInv, losses \subseteq losses'
    PROVE  Read(counts, losses) /\ Read(counts, losses')
BY DEF Read, Find!SearchInv, Find!CountsAreShown, Find!SearchVerdictsAreReal, Find!AsNamed

\* A check begins with nothing checked and nothing read.
LEMMA SearchStart == Find!Init => Find!SearchInv
<1> SUFFICES ASSUME Find!Init PROVE Find!SearchInv
  OBVIOUS
<1>1. search \in Find!SearchTests /\ at = 1
  BY DEF Find!Init
<1>2. Len(Find!Plan) \in Nat \ {0} /\ Find!ReadBefore(at) = 0 /\ Find!Chosen(at) = {} /\ Fits(at)
  BY <1>1, PlanRead, PlanFits
<1>3. Find!TypeOK
  BY <1>1, <1>2 DEF Find!Init, Find!TypeOK
<1>4. Len(counts) = 0 /\ DOMAIN counts = {} /\ checked = {} /\ applied = {} /\ pending = {} /\ searchAt = "login"
      /\ found = "none"
  BY DEF Find!Init
<1>5. Find!InOperation /\ Find!LostClicks /\ Find!CountsAreShown /\ Find!SearchVerdictsAreReal
  BY <1>2, <1>4 DEF Find!InOperation, Find!LostClicks, Find!CountsAreShown, Find!SearchVerdictsAreReal
<1>6. Find!Op.op # "show"
  <2>1. Find!Plan[1] = Find!Select(1)
    BY <1>1, FiltersPlan, GenderPlan, EducationPlan DEF Find!Plan, Find!SearchTests
  <2> QED
    BY <1>1, <2>1 DEF Find!Op, Find!Select
<1>7. Find!AsPlanned
  BY <1>2, <1>4, <1>6 DEF Find!AsPlanned, Find!BetweenGenders
<1>8. Find!OneAtATime
  BY <1>4 DEF Find!OneAtATime, Find!OneGender
<1> QED
  BY <1>3, <1>5, <1>7, <1>8 DEF Find!SearchInv

\* A step that ends a check with an error ends it for a reason.
LEMMA Thrown ==
    ASSUME Find!SearchInv, UNCHANGED <<search, at, honest, applied, pending, counts>>, tries' \in 0 .. 3,
           searchAt' = "done", found' = "threw", losses' # {}, losses \subseteq losses',
           checked' \subseteq Find!Boxes
    PROVE  Find!SearchInv'
<1>1. Find!TypeOK'
  BY SameSite DEF Find!SearchInv, Find!TypeOK
<1>2. Find!InOperation' /\ Find!LostClicks' /\ Find!OneAtATime' /\ Find!AsPlanned'
  BY DEF Find!SearchInv, Find!InOperation, Find!LostClicks, Find!OneAtATime, Find!AsPlanned, Find!OneGender
<1>3. Find!CountsAreShown'
  BY SameSite DEF Find!SearchInv, Find!CountsAreShown
<1>4. Find!SearchVerdictsAreReal'
  <2>1. \A n \in DOMAIN counts : Find!AsNamed(n)' <=> Find!AsNamed(n)
    BY SameSite DEF Find!AsNamed
  <2> QED
    BY <2>1, SameSite DEF Find!SearchInv, Find!SearchVerdictsAreReal, Find!OneGender
<1> QED
  BY <1>1, <1>2, <1>3, <1>4 DEF Find!SearchInv

\* An operation is over, and has done what the plan says unless the site let it down.
LEMMA OperationDone ==
    ASSUME Find!SearchInv, UNCHANGED <<search, honest, found>>, searchAt # "done",
           at <= Len(Find!Plan), Find!Done, losses \subseteq losses',
           checked' \subseteq Find!Boxes, applied' \subseteq Find!Boxes, pending' \subseteq SUBSET Find!Boxes,
           counts' \in Seq([shown : Int, of : SUBSET Find!Boxes]),
           Len(counts') = Find!ReadBefore(at + 1), Read(counts', losses'),
           "not-rendered" \notin losses' =>
             /\ checked' \intersect Find!Genders \subseteq Find!Chosen(at + 1)
             /\ Find!OneGender(applied') /\ \A boxes \in pending' : Find!OneGender(boxes),
           losses' \intersect Find!Astray = {} =>
             /\ pending' = {} /\ checked' \intersect Find!Counting = Find!Chosen(at + 1)
             /\ Find!Op.op \in {"apply", "show"} => applied' \intersect Find!Counting = Find!Chosen(at + 1)
    PROVE  Find!SearchInv'
<1>1. /\ searchAt' = "op" /\ at' = at + 1 /\ tries' = 0 /\ Fits(at)
      /\ at \in Nat \ {0} /\ Len(Find!Plan) \in Nat /\ found = "none" /\ Find!Op = Find!Plan[at]
  BY SearchNow DEF Find!Done, Find!SearchInv, Find!InOperation
<1>2. Find!TypeOK'
  BY <1>1, SameSite DEF Find!SearchInv, Find!TypeOK
<1>3. Find!InOperation' /\ Find!LostClicks' /\ ~Find!BetweenGenders'
  BY <1>1 DEF Find!InOperation, Find!LostClicks, Find!BetweenGenders
<1>4. Find!CountsAreShown'
  BY <1>1, SameSite DEF Find!CountsAreShown, Read
<1>5. Find!OneAtATime'
  BY <1>1, <1>3, SameSite DEF Find!OneAtATime, Find!OneGender
<1>6. Find!AsPlanned'
  <2>1. at' <= Len(Find!Plan) /\ Find!Op'.op = "show" => Find!Op.op \in {"apply", "show"}
    BY <1>1, SameSite DEF Fits, Find!Op
  <2> QED
    BY <1>1, <1>3, <2>1, SameSite DEF Find!AsPlanned
<1>7. Find!SearchVerdictsAreReal'
  <2>1. \A n \in DOMAIN counts' : Find!AsNamed(n)' <=> counts'[n].of \intersect Find!Counting = Find!NamedFor(n)
    BY SameSite DEF Find!AsNamed
  <2> QED
    BY <1>1, <2>1 DEF Find!SearchVerdictsAreReal, Read, Find!OneGender
<1> QED
  BY <1>2, <1>3, <1>4, <1>5, <1>6, <1>7 DEF Find!SearchInv

\* An operation that reads no count is over.
LEMMA NothingRead ==
    ASSUME Find!SearchInv, UNCHANGED <<search, honest, found, counts>>, searchAt # "done",
           at <= Len(Find!Plan), Find!Op.op # "show", Find!Done, losses \subseteq losses',
           checked' \subseteq Find!Boxes, applied' \subseteq Find!Boxes, pending' \subseteq SUBSET Find!Boxes,
           "not-rendered" \notin losses' =>
             /\ checked' \intersect Find!Genders \subseteq Find!Chosen(at + 1)
             /\ Find!OneGender(applied') /\ \A boxes \in pending' : Find!OneGender(boxes),
           losses' \intersect Find!Astray = {} =>
             /\ pending' = {} /\ checked' \intersect Find!Counting = Find!Chosen(at + 1)
             /\ Find!Op.op \in {"apply", "show"} => applied' \intersect Find!Counting = Find!Chosen(at + 1)
    PROVE  Find!SearchInv'
<1>1. counts \in Seq([shown : Int, of : SUBSET Find!Boxes]) /\ Read(counts', losses')
  BY SearchNow, StillRead
<1>2. Len(counts') = Find!ReadBefore(at + 1)
  BY SearchNow DEF Fits, Find!SearchInv, Find!CountsAreShown
<1> QED
  BY <1>1, <1>2, OperationDone

\* A step inside an operation.
LEMMA Inside ==
    ASSUME Find!SearchInv, UNCHANGED <<search, at, honest, applied, pending, counts, found>>,
           searchAt # "done", checked' \subseteq Find!Boxes, tries' \in 0 .. 3, losses \subseteq losses',
           searchAt' \in {"op", "uncheck", "check", "row"},
           searchAt' # "op" => at <= Len(Find!Plan),
           searchAt' = "uncheck" => Find!Op.op = "gender",
           searchAt' = "check" => Find!Op.op \in {"skill", "gender", "option"},
           searchAt' = "row" => Find!Op.op = "skill",
           searchAt' = "uncheck" /\ tries' > 0 /\ Find!Op.previous \intersect checked' # {} =>
             "lost-uncheck" \in losses',
           "not-rendered" \notin losses' =>
             checked' \intersect Find!Genders \subseteq IF Find!BetweenGenders' THEN {} ELSE Find!Chosen(at),
           losses' \intersect Find!Astray = {} =>
             \/ checked' \intersect Find!Counting = IF Find!BetweenGenders' THEN {} ELSE Find!Chosen(at)
             \/ searchAt' = "uncheck" /\ checked' \intersect Find!Counting = {}
    PROVE  Find!SearchInv'
<1>1. Find!Op' = Find!Op /\ Find!Plan' = Find!Plan
  BY SameSite DEF Find!Op
<1>2. Find!TypeOK'
  BY SameSite DEF Find!SearchInv, Find!TypeOK
<1>3. found = "none"
  BY DEF Find!SearchInv, Find!InOperation
<1>4. Find!InOperation' /\ Find!LostClicks'
  BY <1>1, <1>3 DEF Find!InOperation, Find!LostClicks
<1>5. Find!CountsAreShown'
  BY <1>3, SameSite DEF Find!SearchInv, Find!CountsAreShown
<1>6. Find!OneAtATime'
  BY SameSite DEF Find!SearchInv, Find!OneAtATime, Find!OneGender
<1>7. Find!AsPlanned'
  BY <1>1, SameSite DEF Find!SearchInv, Find!AsPlanned
<1>8. Find!SearchVerdictsAreReal'
  <2>1. \A n \in DOMAIN counts : Find!AsNamed(n)' <=> Find!AsNamed(n)
    BY SameSite DEF Find!AsNamed
  <2> QED
    BY <1>3, <2>1 DEF Find!SearchInv, Find!SearchVerdictsAreReal, Find!OneGender
<1> QED
  BY <1>2, <1>4, <1>5, <1>6, <1>7, <1>8 DEF Find!SearchInv

\* The page is reached, a filter opened, a label found: nothing is checked by that.
LEMMA FilterOpened ==
    ASSUME Find!SearchInv, Find!loginAndReachCandidateSearch \/ Find!openFilter \/ Find!findExactSkillLabel
    PROVE  Find!SearchInv'
<1>1. /\ UNCHANGED <<search, at, honest, checked, applied, pending, counts>> /\ tries \in 0 .. 3
      /\ checked \subseteq Find!Boxes /\ searchAt \in {"login", "op", "check"}
  BY SearchNow DEF Find!loginAndReachCandidateSearch, Find!openFilter, Find!findExactSkillLabel
<1> DEFINE Fails == /\ searchAt' = "done" /\ found' = "threw" /\ losses' # {} /\ losses \subseteq losses'
                    /\ tries' \in 0 .. 3
           Goes == /\ UNCHANGED <<found, losses>> /\ tries' \in 0 .. 3
                   /\ \/ searchAt \in {"login", "op"} /\ searchAt' = "op"
                      \/ /\ searchAt = "op" /\ at <= Len(Find!Plan) /\ tries' = 0
                         /\ \/ searchAt' = "uncheck" /\ Find!Op.op = "gender"
                            \/ searchAt' = "check" /\ Find!Op.op \in {"skill", "option"}
                      \/ searchAt = "check" /\ searchAt' = "row" /\ Find!Op.op = "skill"
<1>2. ASSUME Find!loginAndReachCandidateSearch PROVE Fails \/ Goes
  BY <1>1, <1>2 DEF Find!loginAndReachCandidateSearch, Find!Over, Find!Fault
<1>3. ASSUME Find!openFilter PROVE Fails \/ Goes
  <2>1. \/ /\ searchAt' = (IF Find!Op.op = "gender" THEN "uncheck" ELSE "check") /\ tries' = 0
           /\ UNCHANGED <<found, losses>>
        \/ tries < 2 /\ tries' = tries + 1 /\ UNCHANGED <<searchAt, found, losses>>
        \/ tries = 2 /\ Find!Over("threw") /\ Find!Fault("filter") /\ UNCHANGED tries
    BY <1>3 DEF Find!openFilter
  <2>2. searchAt = "op" /\ at <= Len(Find!Plan) /\ Find!Op.op \in {"skill", "gender", "option"}
    BY <1>3 DEF Find!openFilter
  <2>3. CASE /\ searchAt' = (IF Find!Op.op = "gender" THEN "uncheck" ELSE "check") /\ tries' = 0
             /\ UNCHANGED <<found, losses>>
    BY <2>2, <2>3
  <2>4. CASE tries < 2 /\ tries' = tries + 1 /\ UNCHANGED <<searchAt, found, losses>>
    BY <1>1, <2>2, <2>4
  <2>5. CASE tries = 2 /\ Find!Over("threw") /\ Find!Fault("filter") /\ UNCHANGED tries
    BY <1>1, <2>5 DEF Find!Over, Find!Fault
  <2> QED
    BY <2>1, <2>3, <2>4, <2>5
<1>4. ASSUME Find!findExactSkillLabel PROVE Fails \/ Goes
  BY <1>1, <1>4 DEF Find!findExactSkillLabel, Find!Over, Find!Fault
<1>5. Fails \/ Goes
  BY <1>2, <1>3, <1>4
<1>6. CASE Fails
  BY <1>1, <1>6, Thrown
<1>7. CASE Goes
  <2>1. searchAt # "done" /\ searchAt' \in {"op", "uncheck", "check", "row"}
        /\ (searchAt' # "op" => at <= Len(Find!Plan))
    BY <1>1, <1>7 DEF Find!SearchInv, Find!InOperation
  <2>2. Find!Op' = Find!Op
    BY <1>1, SameSite DEF Find!Op
  <2>3. ~Find!BetweenGenders /\ ~Find!BetweenGenders' /\ (searchAt' = "uncheck" => tries' = 0)
        /\ searchAt # "uncheck"
    BY <1>7, <2>2 DEF Find!BetweenGenders
  <2>4. /\ "not-rendered" \notin losses => checked \intersect Find!Genders \subseteq Find!Chosen(at)
        /\ losses \intersect Find!Astray = {} => checked \intersect Find!Counting = Find!Chosen(at)
    BY <2>1, <2>3 DEF Find!SearchInv, Find!OneAtATime, Find!AsPlanned
  <2> QED
    BY <1>1, <1>7, <2>1, <2>3, <2>4, Inside
<1> QED
  BY <1>5, <1>6, <1>7

\* Unless the box is out of sight, the gender before is cleared or the check throws, and that only
\* after lost clicks.
LEMMA PreviousCleared ==
    ASSUME Find!SearchInv, Find!clearPrevious
    PROVE  Find!SearchInv'
<1>1. /\ searchAt = "uncheck" /\ at <= Len(Find!Plan) /\ Find!Op.op = "gender" /\ Fits(at)
      /\ UNCHANGED <<search, at, honest, applied, pending, counts>>
      /\ tries \in 0 .. 3 /\ checked \subseteq Find!Boxes /\ Find!Op = Find!Plan[at]
  BY SearchNow DEF Find!clearPrevious, Find!SearchInv, Find!InOperation
<1>2. /\ Find!Op.previous = Find!Chosen(at)
      /\ "not-rendered" \notin losses => checked \intersect Find!Genders \subseteq Find!Chosen(at)
      /\ losses \intersect Find!Astray = {} =>
           checked \intersect Find!Counting = Find!Chosen(at) \/ checked \intersect Find!Counting = {}
      /\ tries > 0 /\ Find!Op.previous \intersect checked # {} => "lost-uncheck" \in losses
  BY <1>1 DEF Fits, Find!SearchInv, Find!OneAtATime, Find!AsPlanned, Find!LostClicks, Find!BetweenGenders
<1>3. Find!Chosen(at) \subseteq Find!Counting
  BY DEF Find!Chosen, Find!Counting
<1>4. Find!Op' = Find!Op
  BY <1>1, SameSite DEF Find!Op
<1>5. CASE Find!Op.previous \cap checked = {} /\ searchAt' = "check" /\ UNCHANGED <<tries, checked, found, losses>>
  <2>1. /\ "not-rendered" \notin losses => checked \intersect Find!Genders = {}
        /\ losses \intersect Find!Astray = {} => checked \intersect Find!Counting = {}
    BY <1>2, <1>3, <1>5
  <2>2. Find!BetweenGenders'
    BY <1>1, <1>4, <1>5 DEF Find!BetweenGenders
  <2> QED
    BY <1>1, <1>5, <2>1, <2>2, Inside
<1>6. CASE Find!Fault("not-rendered") /\ searchAt' = "check" /\ UNCHANGED <<tries, checked, found>>
  <2>1. "not-rendered" \in losses' /\ losses \subseteq losses' /\ losses' \intersect Find!Astray # {}
    BY <1>6 DEF Find!Fault, Find!Astray
  <2> QED
    BY <1>1, <1>6, <2>1, Inside
<1>7. CASE /\ Find!Op.previous \cap checked # {} /\ tries < 3 /\ tries' = tries + 1
           /\ \/ checked' = checked \ Find!Op.previous /\ UNCHANGED losses
              \/ UNCHANGED checked /\ Find!Fault("lost-uncheck")
           /\ IF tries' = 3 THEN Find!Over("threw") ELSE UNCHANGED <<searchAt, found>>
  <2>1. /\ losses \subseteq losses' /\ tries' \in 0 .. 3 /\ checked' \subseteq Find!Boxes
        /\ Find!Op.previous \intersect checked' # {} => "lost-uncheck" \in losses'
        /\ "not-rendered" \notin losses' => "not-rendered" \notin losses
        /\ losses' \intersect Find!Astray = {} => losses \intersect Find!Astray = {}
        /\ checked' = checked \/ checked' = checked \ Find!Op.previous
    BY <1>1, <1>7 DEF Find!Fault
  <2>2. CASE tries' = 3
    <3>1. losses # {} /\ searchAt' = "done" /\ found' = "threw"
      BY <1>1, <1>2, <1>7, <2>2 DEF Find!Over
    <3> QED
      BY <1>1, <2>1, <3>1, Thrown
  <2>3. CASE tries' # 3
    <3>1. UNCHANGED <<searchAt, found>> /\ ~Find!BetweenGenders'
      BY <1>1, <1>7, <2>3 DEF Find!BetweenGenders
    <3>2. "not-rendered" \notin losses' => checked' \intersect Find!Genders \subseteq Find!Chosen(at)
      BY <1>2, <2>1
    <3>3. losses' \intersect Find!Astray = {} =>
            checked' \intersect Find!Counting = Find!Chosen(at) \/ checked' \intersect Find!Counting = {}
      BY <1>2, <2>1
    <3> QED
      BY <1>1, <2>1, <3>1, <3>2, <3>3, Inside
  <2> QED
    BY <2>2, <2>3
<1> QED
  BY <1>5, <1>6, <1>7 DEF Find!clearPrevious

\* A box is checked on top of the others, or its click is lost.
LEMMA BoxChecked ==
    ASSUME Find!SearchInv,
           Find!selectSkillWithRating \/ Find!setGenderFilter \/ Find!checkFilterOption
    PROVE  Find!SearchInv'
<1>1. /\ searchAt \in {"row", "check"} /\ at <= Len(Find!Plan) /\ Fits(at)
      /\ Find!Op.op \in {"skill", "gender", "option"}
      /\ (searchAt = "check" => Find!Op.op \in {"gender", "option"})
      /\ (searchAt = "row" => Find!Op.op = "skill")
      /\ UNCHANGED <<search, honest, applied, pending, counts>>
      /\ tries \in 0 .. 3 /\ checked \subseteq Find!Boxes /\ applied \subseteq Find!Boxes
      /\ pending \subseteq SUBSET Find!Boxes /\ Find!Op = Find!Plan[at]
  BY SearchNow DEF Find!selectSkillWithRating, Find!setGenderFilter, Find!checkFilterOption, Find!CheckBox,
     Find!SearchInv, Find!InOperation
<1>2. \/ checked' = checked \cup {Find!Op.box} /\ Find!Done /\ UNCHANGED <<found, losses>>
      \/ Find!Fault("lost-check") /\ Find!Done /\ UNCHANGED <<checked, found>>
      \/ /\ losses' # {} /\ losses \subseteq losses' /\ searchAt' = "done" /\ found' = "threw"
         /\ UNCHANGED <<checked, at, tries>>
  BY DEF Find!selectSkillWithRating, Find!setGenderFilter, Find!checkFilterOption, Find!CheckBox,
     Find!Fault, Find!Over
<1>3. /\ Find!Op.box \in Find!Boxes
      /\ Find!Op.op = "gender" => Find!Op.box \in Find!Genders /\ Find!Chosen(at + 1) = {Find!Op.box}
      /\ Find!Op.op # "gender" =>
           /\ Find!Op.box \notin Find!Genders
           /\ Find!Chosen(at + 1) = Find!Chosen(at) \union ({Find!Op.box} \intersect Find!Counting)
  BY <1>1 DEF Fits, Find!Genders, Find!Counting
<1>4. /\ "not-rendered" \notin losses =>
           /\ checked \intersect Find!Genders \subseteq IF Find!Op.op = "gender" THEN {} ELSE Find!Chosen(at)
           /\ Find!OneGender(applied) /\ \A boxes \in pending : Find!OneGender(boxes)
      /\ losses \intersect Find!Astray = {} =>
           /\ pending = {}
           /\ checked \intersect Find!Counting = IF Find!Op.op = "gender" THEN {} ELSE Find!Chosen(at)
  BY <1>1 DEF Find!SearchInv, Find!OneAtATime, Find!AsPlanned, Find!BetweenGenders
<1>5. Find!Genders \subseteq Find!Counting
  BY DEF Find!Genders, Find!Counting
<1>6. CASE checked' = checked \cup {Find!Op.box} /\ Find!Done /\ UNCHANGED <<found, losses>>
  <2>1. "not-rendered" \notin losses => checked' \intersect Find!Genders \subseteq Find!Chosen(at + 1)
    BY <1>3, <1>4, <1>6
  <2>2. losses \intersect Find!Astray = {} => checked' \intersect Find!Counting = Find!Chosen(at + 1)
    BY <1>3, <1>4, <1>5, <1>6
  <2> QED
    BY <1>1, <1>3, <1>4, <1>6, <2>1, <2>2, NothingRead
<1>7. CASE Find!Fault("lost-check") /\ Find!Done /\ UNCHANGED <<checked, found>>
  <2>1. losses \subseteq losses' /\ losses' \intersect Find!Astray # {}
    BY <1>7 DEF Find!Fault, Find!Astray
  <2>2. "not-rendered" \notin losses' => checked' \intersect Find!Genders \subseteq Find!Chosen(at + 1)
    BY <1>3, <1>4, <1>7, <2>1
  <2> QED
    BY <1>1, <1>4, <1>7, <2>1, <2>2, NothingRead
<1>8. CASE /\ losses' # {} /\ losses \subseteq losses' /\ searchAt' = "done" /\ found' = "threw"
           /\ UNCHANGED <<checked, at, tries>>
  BY <1>1, <1>8, Thrown
<1> QED
  BY <1>2, <1>6, <1>7, <1>8

\* Apply asks for what is checked, and the site answers in time or it is a fault.
LEMMA Applied ==
    ASSUME Find!SearchInv, Find!clickApply
    PROVE  Find!SearchInv'
<1>1. /\ searchAt = "op" /\ at <= Len(Find!Plan) /\ Fits(at) /\ Find!Op.op = "apply"
      /\ UNCHANGED <<search, honest, checked, counts>>
      /\ tries \in 0 .. 3 /\ checked \subseteq Find!Boxes /\ applied \subseteq Find!Boxes
      /\ pending \subseteq SUBSET Find!Boxes /\ Find!Op = Find!Plan[at]
  BY SearchNow DEF Find!clickApply
<1>2. \/ applied' = checked /\ Find!Done /\ UNCHANGED <<pending, found, losses>>
      \/ pending' = pending \cup {checked} /\ Find!Done /\ Find!Fault("late-answer") /\ UNCHANGED <<applied, found>>
      \/ /\ losses' # {} /\ losses \subseteq losses' /\ searchAt' = "done" /\ found' = "threw"
         /\ UNCHANGED <<applied, pending, at, tries>>
  BY DEF Find!clickApply, Find!Fault, Find!Over
<1>3. Find!Chosen(at + 1) = Find!Chosen(at)
  BY <1>1 DEF Fits
<1>4. /\ "not-rendered" \notin losses =>
           /\ checked \intersect Find!Genders \subseteq Find!Chosen(at + 1) /\ Find!OneGender(checked)
           /\ Find!OneGender(applied) /\ \A boxes \in pending : Find!OneGender(boxes)
      /\ losses \intersect Find!Astray = {} =>
           pending = {} /\ checked \intersect Find!Counting = Find!Chosen(at + 1)
  BY <1>1, <1>3, OneChosen DEF Find!SearchInv, Find!OneAtATime, Find!AsPlanned, Find!BetweenGenders
<1>5. CASE applied' = checked /\ Find!Done /\ UNCHANGED <<pending, found, losses>>
  BY <1>1, <1>4, <1>5, NothingRead
<1>6. CASE /\ pending' = pending \cup {checked} /\ Find!Done /\ Find!Fault("late-answer")
           /\ UNCHANGED <<applied, found>>
  <2>1. losses \subseteq losses' /\ losses' \intersect Find!Astray # {}
    BY <1>6 DEF Find!Fault, Find!Astray
  <2>2. "not-rendered" \notin losses' => \A boxes \in pending' : Find!OneGender(boxes)
    BY <1>4, <1>6, <2>1
  <2>3. pending' \subseteq SUBSET Find!Boxes
    BY <1>1, <1>6
  <2> QED
    BY <1>1, <1>4, <1>6, <2>1, <2>2, <2>3, NothingRead
<1>7. CASE /\ losses' # {} /\ losses \subseteq losses' /\ searchAt' = "done" /\ found' = "threw"
           /\ UNCHANGED <<applied, pending, at, tries>>
  BY <1>1, <1>7, Thrown
<1> QED
  BY <1>2, <1>5, <1>6, <1>7

\* An answer that arrives now is a late one, and is for boxes that were checked.
LEMMA AnswerComes ==
    ASSUME Find!SearchInv, Find!AnswerArrives
    PROVE  Find!SearchInv'
<1>1. /\ UNCHANGED <<search, at, searchAt, tries, honest, checked, counts, found, losses>>
      /\ searchAt # "done" /\ applied' \in pending /\ pending' \subseteq pending
  BY DEF Find!AnswerArrives
<1>2. Find!TypeOK'
  BY <1>1, SameSite DEF Find!SearchInv, Find!TypeOK
<1>3. Find!Op' = Find!Op /\ Find!Plan' = Find!Plan
  BY <1>1, SameSite DEF Find!Op
<1>4. Find!InOperation' /\ Find!LostClicks'
  BY <1>1, <1>3 DEF Find!SearchInv, Find!InOperation, Find!LostClicks
<1>5. Find!CountsAreShown'
  BY <1>1, <1>3, SameSite DEF Find!SearchInv, Find!CountsAreShown
<1>6. Find!OneAtATime'
  <2>1. Find!BetweenGenders' = Find!BetweenGenders
    BY <1>1, <1>3 DEF Find!BetweenGenders
  <2> QED
    BY <1>1, <2>1, SameSite DEF Find!SearchInv, Find!OneAtATime, Find!OneGender
<1>7. losses \intersect Find!Astray # {}
  BY <1>1 DEF Find!SearchInv, Find!AsPlanned
<1>8. Find!AsPlanned'
  BY <1>1, <1>7 DEF Find!AsPlanned, Find!Astray
<1>9. Find!SearchVerdictsAreReal'
  <2>1. \A n \in DOMAIN counts : Find!AsNamed(n)' <=> Find!AsNamed(n)
    BY <1>1, SameSite DEF Find!AsNamed
  <2> QED
    BY <1>1, <2>1 DEF Find!SearchInv, Find!SearchVerdictsAreReal, Find!OneGender
<1> QED
  BY <1>2, <1>4, <1>5, <1>6, <1>8, <1>9 DEF Find!SearchInv

\* The count read is the one for the boxes the site has answered for.
LEMMA CountRead ==
    ASSUME Find!SearchInv, Find!getShownAndTotal
    PROVE  Find!SearchInv'
<1>1. /\ searchAt = "op" /\ at <= Len(Find!Plan) /\ Fits(at) /\ Find!Op.op = "show"
      /\ UNCHANGED <<search, honest, checked, applied, pending>>
      /\ tries \in 0 .. 3 /\ checked \subseteq Find!Boxes /\ applied \subseteq Find!Boxes
      /\ pending \subseteq SUBSET Find!Boxes /\ Find!Op = Find!Plan[at] /\ at \in Nat
      /\ counts \in Seq([shown : Int, of : SUBSET Find!Boxes]) /\ Len(counts) \in Nat
  BY SearchNow DEF Find!getShownAndTotal
<1> DEFINE count == [shown |-> Find!ShownFor(applied, Len(counts) + 1), of |-> applied]
<1>2. \/ counts' = Append(counts, count) /\ Find!Done /\ UNCHANGED <<found, losses>>
      \/ /\ losses' # {} /\ losses \subseteq losses' /\ searchAt' = "done" /\ found' = "threw"
         /\ UNCHANGED <<counts, at, tries>>
  BY DEF Find!getShownAndTotal, Find!Fault, Find!Over
<1>3. /\ Find!Chosen(at + 1) = Find!Chosen(at) /\ Find!ReadBefore(at + 1) = Find!ReadBefore(at) + 1
      /\ Find!NamedFor(Find!ReadBefore(at) + 1) = Find!Chosen(at) /\ Len(counts) = Find!ReadBefore(at)
  BY <1>1 DEF Fits, Find!SearchInv, Find!CountsAreShown
<1>4. /\ "not-rendered" \notin losses =>
           /\ checked \intersect Find!Genders \subseteq Find!Chosen(at)
           /\ Find!OneGender(applied) /\ \A boxes \in pending : Find!OneGender(boxes)
      /\ losses \intersect Find!Astray = {} =>
           /\ pending = {} /\ checked \intersect Find!Counting = Find!Chosen(at)
           /\ applied \intersect Find!Counting = Find!Chosen(at)
  BY <1>1 DEF Find!SearchInv, Find!OneAtATime, Find!AsPlanned, Find!BetweenGenders
<1>5. CASE counts' = Append(counts, count) /\ Find!Done /\ UNCHANGED <<found, losses>>
  <2>1. /\ count \in [shown : Int, of : SUBSET Find!Boxes]
        /\ count.shown = Find!ShownFor(applied, Len(counts) + 1) /\ count.of = applied
    BY <1>1, CountsTell
  <2> HIDE DEF count
  <2>2. /\ counts' \in Seq([shown : Int, of : SUBSET Find!Boxes]) /\ Len(counts') = Len(counts) + 1
        /\ DOMAIN counts' = DOMAIN counts \union {Len(counts) + 1}
        /\ \A n \in DOMAIN counts : counts'[n] = counts[n]
        /\ counts'[Len(counts) + 1] = count
    BY <1>1, <1>5, <2>1
  <2>3. Read(counts, losses)
    BY <1>5, StillRead
  <2>4. Read(counts', losses')
    <3>1. /\ count.of \intersect Find!Counting = Find!NamedFor(Len(counts) + 1) \/ losses \intersect Find!Astray # {}
          /\ Find!OneGender(count.of) \/ "not-rendered" \in losses
      BY <1>3, <1>4, <2>1
    <3> SUFFICES ASSUME NEW n \in DOMAIN counts'
                 PROVE  /\ counts'[n].shown = Find!ShownFor(counts'[n].of, n)
                        /\ \/ counts'[n].of \intersect Find!Counting = Find!NamedFor(n)
                           \/ losses \intersect Find!Astray # {}
                        /\ Find!OneGender(counts'[n].of) \/ "not-rendered" \in losses
      BY <1>5 DEF Read
    <3>2. CASE n \in DOMAIN counts
      BY <2>2, <2>3, <3>2 DEF Read
    <3>3. CASE n = Len(counts) + 1
      BY <2>1, <2>2, <3>1, <3>3
    <3> QED
      BY <2>2, <3>2, <3>3
  <2> QED
    BY <1>1, <1>3, <1>4, <1>5, <2>2, <2>4, OperationDone
<1>6. CASE /\ losses' # {} /\ losses \subseteq losses' /\ searchAt' = "done" /\ found' = "threw"
           /\ UNCHANGED <<counts, at, tries>>
  BY <1>1, <1>6, Thrown
<1> QED
  BY <1>2, <1>5, <1>6

\* On counts that are each of the boxes named, a check tells a site that counts right from one that
\* does not.
LEMMA TellsRight ==
    ASSUME Find!SearchInv, searchAt = "op", at = Len(Find!Plan) + 1,
           \A n \in DOMAIN counts : Find!AsNamed(n)
    PROVE  /\ search = "candidate-search-skill-filters" => (Find!SkillFiltersHold <=> honest)
           /\ search = "candidate-search-gender-breakdown" => (Find!GenderBreakdownHolds <=> honest)
           /\ search = "candidate-search-education-additive" => (Find!EducationAdditiveHolds <=> honest)
<1>1. search \in Find!SearchTests /\ honest \in BOOLEAN /\ counts \in Seq([shown : Int, of : SUBSET Find!Boxes])
  BY DEF Find!SearchInv, Find!TypeOK
<1>2. /\ Len(counts) = IF search = "candidate-search-gender-breakdown" THEN 4 ELSE 2
      /\ \A n \in DOMAIN counts : counts[n].shown = Find!ShownFor(Find!NamedFor(n), n)
  BY <1>1, PlanRead, CountsTell DEF Find!SearchInv, Find!CountsAreShown, Find!AsNamed
<1>3. /\ DOMAIN Pool = {"Male", "Female", "Others"} /\ Wrong \in Nat \ {0} /\ EngineersOnly \in Int
      /\ Pool["Male"] \in Nat /\ Pool["Female"] \in Nat /\ Pool["Others"] \in Nat
      /\ Find!Total = Pool["Male"] + Pool["Female"] + Pool["Others"] /\ Find!Total > 0
  BY CandidatesAssumption DEF Find!PoolAssumption, Find!Total
<1> DEFINE extra == IF honest THEN 0 ELSE Wrong
<1>4. extra \in Nat /\ (extra = 0 <=> honest)
  BY <1>1, <1>3
<1>5. CASE search = "candidate-search-skill-filters"
  <2>1. Find!ShownFor({}, 1) = Find!Total /\ Find!ShownFor({}, 2) = Find!Total + extra
    BY <1>3, <1>5 DEF Find!ShownFor, Find!Gendered
  <2>2. DOMAIN counts = {1, 2} /\ counts[1].shown = Find!Total /\ counts[2].shown = Find!Total + extra
    BY <1>1, <1>2, <1>5, <2>1 DEF Find!NamedFor
  <2>3. Find!SkillFiltersHold <=> extra = 0
    <3> HIDE DEF extra
    <3>1. Find!Total \in Nat
      BY <1>3
    <3> QED
      BY <1>3, <1>4, <2>2, <3>1 DEF Find!SkillFiltersHold
  <2> QED
    BY <1>4, <1>5, <2>3
<1>6. CASE search = "candidate-search-gender-breakdown"
  <2>1. /\ Find!ShownFor({}, 1) = Find!Total /\ Find!ShownFor({"Male"}, 2) = Pool["Male"] + extra
        /\ Find!ShownFor({"Female"}, 3) = Pool["Female"] /\ Find!ShownFor({"Others"}, 4) = Pool["Others"]
    BY <1>3, <1>6 DEF Find!ShownFor, Find!Gendered
  <2>2. /\ counts[1].shown = Find!Total /\ counts[2].shown = Pool["Male"] + extra
        /\ counts[3].shown = Pool["Female"] /\ counts[4].shown = Pool["Others"]
    BY <1>1, <1>2, <1>6, <2>1 DEF Find!NamedFor
  <2>3. Find!GenderBreakdownHolds <=> extra = 0
    <3> HIDE DEF extra
    <3> QED
      BY <1>3, <1>4, <2>2 DEF Find!GenderBreakdownHolds
  <2> QED
    BY <1>4, <1>6, <2>3
<1>7. CASE search = "candidate-search-education-additive"
  <2>1. /\ Find!ShownFor({"Engineering"}, 1) = Find!Total
        /\ Find!ShownFor({"Engineering", "Technology"}, 2) = Find!Total + extra
    BY <1>3, <1>7 DEF Find!ShownFor, Find!Gendered
  <2>2. counts[1].shown = Find!Total /\ counts[2].shown = Find!Total + extra
    <3>1. Find!NamedFor(1) = {"Engineering"} /\ Find!NamedFor(2) = {"Engineering", "Technology"}
      BY <1>7 DEF Find!NamedFor
    <3>2. 1 \in DOMAIN counts /\ 2 \in DOMAIN counts
      BY <1>1, <1>2, <1>7
    <3>3. counts[1].shown = Find!ShownFor(Find!NamedFor(1), 1) /\ counts[2].shown = Find!ShownFor(Find!NamedFor(2), 2)
      BY <1>2, <3>2
    <3> QED
      BY <2>1, <3>1, <3>3
  <2>3. Find!EducationAdditiveHolds <=> extra = 0
    <3> HIDE DEF extra
    <3> QED
      BY <1>3, <1>4, <2>2 DEF Find!EducationAdditiveHolds
  <2> QED
    BY <1>4, <1>7, <2>3
<1> QED
  BY <1>5, <1>6, <1>7

LEMMA JudgedRight ==
    ASSUME Find!SearchInv, Find!Judge
    PROVE  Find!SearchInv'
<1>1. /\ searchAt = "op" /\ at = Len(Find!Plan) + 1 /\ searchAt' = "done"
      /\ UNCHANGED <<search, at, tries, honest, checked, applied, pending, counts, losses>>
      /\ found' = IF CASE search = "candidate-search-skill-filters" -> Find!SkillFiltersHold
                       [] search = "candidate-search-gender-breakdown" -> Find!GenderBreakdownHolds
                       [] OTHER -> Find!EducationAdditiveHolds
                  THEN "passed" ELSE "failed"
  BY SearchNow DEF Find!Judge, Find!Over
<1>2. search \in Find!SearchTests
  BY SearchNow
<1>3. found' \in {"passed", "failed"}
  BY <1>1
<1>4. Find!TypeOK'
  BY <1>1, <1>3, SameSite DEF Find!SearchInv, Find!TypeOK
<1>5. Find!InOperation' /\ Find!LostClicks'
  BY <1>1, <1>3 DEF Find!InOperation, Find!LostClicks
<1>6. Find!CountsAreShown'
  BY <1>1, SameSite DEF Find!SearchInv, Find!CountsAreShown
<1>7. Find!OneAtATime' /\ Find!AsPlanned'
  BY <1>1 DEF Find!SearchInv, Find!OneAtATime, Find!AsPlanned, Find!OneGender
<1>8. Find!SearchVerdictsAreReal'
  <2>1. \A n \in DOMAIN counts : Find!AsNamed(n)' <=> Find!AsNamed(n)
    BY <1>1, SameSite DEF Find!AsNamed
  <2>2. (\A n \in DOMAIN counts : Find!AsNamed(n)) => (found' = "passed" <=> honest)
    BY <1>1, <1>2, TellsRight DEF Find!SearchTests
  <2> QED
    BY <1>1, <1>3, <2>1, <2>2 DEF Find!SearchInv, Find!SearchVerdictsAreReal, Find!OneGender
<1> QED
  BY <1>4, <1>5, <1>6, <1>7, <1>8 DEF Find!SearchInv

LEMMA SearchStep == Find!SearchInv /\ [Find!Next]_(Find!vars) => Find!SearchInv'
<1> SUFFICES ASSUME Find!SearchInv, [Find!Next]_(Find!vars) PROVE Find!SearchInv'
  OBVIOUS
<1>1. CASE UNCHANGED Find!vars
  <2>1. /\ UNCHANGED <<search, at, searchAt, tries, honest, checked, applied, pending, counts, found, losses>>
        /\ Find!Op' = Find!Op /\ Find!Plan' = Find!Plan
    BY <1>1, SameSite DEF Find!vars, Find!Op
  <2>2. Find!TypeOK' /\ Find!InOperation' /\ Find!LostClicks' /\ Find!CountsAreShown'
    BY <2>1, SameSite DEF Find!SearchInv, Find!TypeOK, Find!InOperation, Find!LostClicks, Find!CountsAreShown
  <2>3. Find!OneAtATime' /\ Find!AsPlanned'
    <3>1. Find!BetweenGenders' = Find!BetweenGenders
      BY <2>1 DEF Find!BetweenGenders
    <3> QED
      BY <2>1, <3>1, SameSite DEF Find!SearchInv, Find!OneAtATime, Find!AsPlanned, Find!OneGender
  <2>4. Find!SearchVerdictsAreReal'
    <3>1. \A n \in DOMAIN counts : Find!AsNamed(n)' <=> Find!AsNamed(n)
      BY <2>1, SameSite DEF Find!AsNamed
    <3> QED
      BY <2>1, <3>1 DEF Find!SearchInv, Find!SearchVerdictsAreReal, Find!OneGender
  <2> QED
    BY <2>2, <2>3, <2>4 DEF Find!SearchInv
<1> QED
  BY <1>1, FilterOpened, PreviousCleared, BoxChecked, Applied, AnswerComes, CountRead, JudgedRight
  DEF Find!Next

\* The verdicts of the search checks are the site's own whenever their counts are of the boxes they
\* are named for, and what can put other boxes under a count is a lost check, a late answer or a box
\* out of sight only: for any numbers of candidates, any miscount and any number of faults.
THEOREM SearchesAreJudged == Find!Spec => []SearchVerdictsAreReal
<1>1. Find!SearchInv => SearchVerdictsAreReal
  BY DEF Find!SearchInv, SearchVerdictsAreReal
<1> QED
  BY <1>1, SearchStart, SearchStep, PTL DEF Find!Spec

(***************************************************************************)
(* PortalChecks: any times of the day, any offers of the site              *)
(***************************************************************************)

\* From 15:00 IST on the first day that can be booked is tomorrow.
FirstDay(t) == (t + 29) \div 48

LEMMA TwoDatesOpen ==
    ASSUME NEW t \in Nat
    PROVE  Slots!SiteDates(t) = {FirstDay(t), FirstDay(t) + 1} /\ FirstDay(t) \in Nat
BY DEF Slots!SiteDates, FirstDay

\* A calendar that has moved on never comes back.
LEMMA CalendarMovesOn ==
    ASSUME NEW a \in Nat, NEW b \in Nat, NEW c \in Nat, a <= b, b <= c,
           Slots!SiteDates(b) # Slots!SiteDates(a)
    PROVE  Slots!SiteDates(c) # Slots!SiteDates(a)
<1>1. FirstDay(a) <= FirstDay(b) /\ FirstDay(b) <= FirstDay(c)
  BY DEF FirstDay
<1>2. FirstDay(a) # FirstDay(b)
  BY TwoDatesOpen
<1>3. FirstDay(c) \notin Slots!SiteDates(a) \/ FirstDay(c) + 1 \notin Slots!SiteDates(a)
  BY <1>1, <1>2, TwoDatesOpen
<1> QED
  BY <1>3, TwoDatesOpen

\* The dates to look at are those the site has open.
LEMMA DatesAreOpen ==
    ASSUME NEW t \in Nat
    PROVE  /\ Slots!upcomingDates(2, t) \in Seq(Nat) /\ Len(Slots!upcomingDates(2, t)) = 2
           /\ \A i \in DOMAIN Slots!upcomingDates(2, t) :
                 Slots!upcomingDates(2, t)[i] \in Slots!SiteDates(t)
           /\ Slots!nextNonSunday(t) \in Slots!SiteDates(t)
<1> DEFINE days == Slots!upcomingDates(2, t)
<1>1. days = [i \in 1 .. 2 |-> FirstDay(t) + i - 1]
  <2>1. FirstDay(t) = Slots!istDateOnly(t) + (IF Slots!isPastSameDayCutoffIST(t) THEN 1 ELSE 0)
    BY DEF Slots!istDateOnly, Slots!isPastSameDayCutoffIST, FirstDay
  <2>2. FirstDay(t) \in Int /\ Slots!istDateOnly(t) \in Int
    BY DEF Slots!istDateOnly, FirstDay
  <2> QED
    BY <2>1, <2>2 DEF Slots!upcomingDates
<1>2. FirstDay(t) \in Nat
  BY TwoDatesOpen
<1> HIDE DEF days
<1>3. days \in Seq(Nat) /\ Len(days) = 2
  BY <1>1, <1>2
<1>4. days[1] = FirstDay(t) /\ days[2] = FirstDay(t) + 1 /\ DOMAIN days = {1, 2}
  BY <1>1, <1>2
<1>5. Slots!nextNonSunday(t) \in {days[1], days[2]}
  BY DEF Slots!nextNonSunday, days
<1> QED
  BY <1>3, <1>4, <1>5, TwoDatesOpen DEF days

LEMMA HoursAndMinutes ==
    ASSUME NEW m \in Nat
    PROVE  /\ m % 60 = m - 60 * (m \div 60) /\ m \div 60 \in Nat
           /\ m <= 1439 => m \div 60 <= 23
<1>1. m % 60 = m - 60 * (m \div 60)
  OBVIOUS
<1>2. m \div 60 \in Nat
  OBVIOUS
<1>3. m <= 1439 => m \div 60 <= 23
  OBVIOUS
<1> QED
  BY <1>1, <1>2, <1>3

\* What is read off a label is the minute it was written for.
LEMMA LabelsAreRead ==
    ASSUME NEW m \in Slots!Minutes
    PROVE  Slots!parseSlotTime(Slots!Label(m)) = m
<1>1. m \div 60 \in 0 .. 23 /\ m % 60 = m - 60 * (m \div 60)
  BY HoursAndMinutes DEF Slots!Minutes
<1> DEFINE h == m \div 60
<1>2. h % 12 = IF h < 12 THEN h ELSE h - 12
  BY <1>1
<1>3. m < 720 <=> h < 12
  BY <1>1 DEF Slots!Minutes
<1>4. Slots!Label(m).hour % 12 = h % 12
  BY <1>1, <1>2 DEF Slots!Label
<1>5. Slots!Label(m).meridiem = (IF h < 12 THEN "AM" ELSE "PM") /\ Slots!Label(m).minute = m % 60
  BY <1>3 DEF Slots!Label
<1> QED
  BY <1>1, <1>2, <1>4, <1>5 DEF Slots!parseSlotTime, Slots!Minutes

\* A panel that is there is read as the site lists it.
LEMMA PanelsAreRead ==
    ASSUME Slots!SlotsAssumption, offer \in [{1, 2} -> Offers], shown \in Nat,
           NEW which \in {"free", "priority"}, NEW gone \in BOOLEAN
    PROVE  Slots!readSlotTimes(which, gone) = IF gone THEN {} ELSE Slots!OfferOf(shown)[which]
<1> DEFINE listed == Slots!OfferOf(shown)[which]
<1>1. (shown % 2) + 1 \in {1, 2}
  OBVIOUS
<1>2. Slots!OfferOf(shown) \in [free : SUBSET Slots!Minutes, priority : SUBSET Slots!Minutes]
  BY <1>1 DEF Slots!OfferOf, Slots!SlotsAssumption
<1>3. listed \subseteq Slots!Minutes
  BY <1>2
<1>4. \A m \in listed : Slots!parseSlotTime(Slots!Label(m)) = m
  BY <1>3, LabelsAreRead
<1>5. {Slots!parseSlotTime(Slots!Label(m)) : m \in listed} = listed
  <2> HIDE DEF listed
  <2> QED
    BY <1>4
<1>6. CASE gone
  BY <1>6 DEF Slots!readSlotTimes, Slots!findSlotPanel
<1>7. CASE ~gone
  <2>1. Slots!readSlotTimes(which, gone) = {Slots!parseSlotTime(Slots!Label(m)) : m \in listed}
    BY <1>7 DEF Slots!readSlotTimes, Slots!findSlotPanel
  <2> QED
    BY <1>5, <1>7, <2>1
<1> QED
  BY <1>6, <1>7

\* The payment screen is what the last probe of a flow looks for, and no other does.
LastIsPayment(probes) ==
    Len(probes) \in Nat \ {0} /\ \A n \in 1 .. Len(probes) : probes[n] = "Razorpay" <=> n = Len(probes)

LEMMA FlowsEndInPayment ==
    /\ LastIsPayment(Slots!PremiumUpgrade) /\ LastIsPayment(Slots!DevelopmentReportDownload)
    /\ LastIsPayment(Slots!AfterTimeButton.priority)
    /\ Slots!AfterTimeButton.free = <<"Schedule-Interview">>
<1> DEFINE Names == {"Jobs", "My-Interviews", "Completed", "Upgrade-to-Premium", "Get-7-Days-Plan",
                     "Confirm-Your-Subscription", "Terms-checkbox", "Proceed-to-Payment", "Download-Report",
                     "checkbox", "Unlock-Full-Report", "Razorpay"}
           toPay == <<"Upgrade-to-Premium", "Get-7-Days-Plan", "Confirm-Your-Subscription",
                      "Terms-checkbox", "Proceed-to-Payment", "Razorpay">>
           toReport == <<"Download-Report", "checkbox", "Unlock-Full-Report", "Razorpay">>
<1>1. Slots!loginAndReachJobsPage \in Seq(Names) /\ Len(Slots!loginAndReachJobsPage) = 1
  BY DEF Slots!loginAndReachJobsPage
<1>2. /\ Slots!loginAndReachCompletedInterviewsTab \in Seq(Names)
      /\ Len(Slots!loginAndReachCompletedInterviewsTab) = 2
  BY DEF Slots!loginAndReachCompletedInterviewsTab
<1>3. toPay \in Seq(Names) /\ Len(toPay) = 6 /\ toReport \in Seq(Names) /\ Len(toReport) = 4
  OBVIOUS
<1>4. LastIsPayment(Slots!PremiumUpgrade)
  <2>1. /\ Len(Slots!PremiumUpgrade) = 7
        /\ \A n \in 1 .. 7 : Slots!PremiumUpgrade[n] =
               IF n <= 1 THEN Slots!loginAndReachJobsPage[n] ELSE toPay[n - 1]
    <3> DEFINE there == Slots!loginAndReachJobsPage
    <3>1. Slots!PremiumUpgrade = there \o toPay
      BY DEF Slots!PremiumUpgrade
    <3> HIDE DEF Names, toPay, there
    <3>2. there \in Seq(Names) /\ Len(there) = 1
      BY <1>1 DEF there
    <3>3. /\ Len(there \o toPay) = Len(there) + Len(toPay)
          /\ \A n \in 1 .. Len(there) + Len(toPay) :
                (there \o toPay)[n] = IF n <= Len(there) THEN there[n] ELSE toPay[n - Len(there)]
      BY <3>2, <1>3, ConcatProperties
    <3> QED
      BY <1>3, <3>1, <3>2, <3>3 DEF there
  <2>2. Slots!PremiumUpgrade[1] # "Razorpay"
    BY <2>1 DEF Slots!loginAndReachJobsPage
  <2>3. \A n \in 2 .. 7 : Slots!PremiumUpgrade[n] = toPay[n - 1]
    BY <2>1
  <2>4. \A n \in 2 .. 7 : toPay[n - 1] = "Razorpay" <=> n = 7
    OBVIOUS
  <2> QED
    BY <2>1, <2>2, <2>3, <2>4 DEF LastIsPayment
<1>5. LastIsPayment(Slots!DevelopmentReportDownload)
  <2>1. /\ Len(Slots!DevelopmentReportDownload) = 6
        /\ \A n \in 1 .. 6 : Slots!DevelopmentReportDownload[n] =
               IF n <= 2 THEN Slots!loginAndReachCompletedInterviewsTab[n] ELSE toReport[n - 2]
    <3> DEFINE there == Slots!loginAndReachCompletedInterviewsTab
    <3>1. Slots!DevelopmentReportDownload = there \o toReport
      BY DEF Slots!DevelopmentReportDownload
    <3> HIDE DEF Names, toReport, there
    <3>2. there \in Seq(Names) /\ Len(there) = 2
      BY <1>2 DEF there
    <3>3. /\ Len(there \o toReport) = Len(there) + Len(toReport)
          /\ \A n \in 1 .. Len(there) + Len(toReport) :
                (there \o toReport)[n] = IF n <= Len(there) THEN there[n] ELSE toReport[n - Len(there)]
      BY <3>2, <1>3, ConcatProperties
    <3> QED
      BY <1>3, <3>1, <3>2, <3>3 DEF there
  <2>2. \A n \in 1 .. 2 : Slots!DevelopmentReportDownload[n] # "Razorpay"
    BY <2>1 DEF Slots!loginAndReachCompletedInterviewsTab
  <2>3. \A n \in 3 .. 6 : Slots!DevelopmentReportDownload[n] = toReport[n - 2]
    BY <2>1
  <2>4. \A n \in 3 .. 6 : toReport[n - 2] = "Razorpay" <=> n = 6
    OBVIOUS
  <2> QED
    BY <2>1, <2>2, <2>3, <2>4 DEF LastIsPayment
<1> QED
  BY <1>4, <1>5 DEF LastIsPayment, Slots!AfterTimeButton

\* A test has not looked at anything yet.
LEMMA SlotsStart == Slots!SlotsAssumption /\ Slots!Init => Slots!SlotsInv
<1> SUFFICES ASSUME Slots!SlotsAssumption, Slots!Init PROVE Slots!SlotsInv
  OBVIOUS
<1>1. Slots!OnADate
  BY DEF Slots!SlotsAssumption, Slots!Init, Slots!OnADate, Slots!Ended
<1>2. Slots!PanelsRead
  BY DEF Slots!Init, Slots!PanelsRead
<1>3. Slots!RetriesSoFar
  BY DEF Slots!Init, Slots!RetriesSoFar
<1>4. Slots!FlowSoFar
  BY DEF Slots!Init, Slots!FlowSoFar
<1>5. Slots!SlotVerdictsAreReal
  BY DEF Slots!Init, Slots!SlotVerdictsAreReal, Slots!VerdictsOnDates
<1> QED
  BY <1>1, <1>2, <1>3, <1>4, <1>5 DEF Slots!SlotsInv

\* What no step of a test that has dates to look at does: change the site or the dates, close the
\* modal, go back in time, or forget what went wrong.
SiteStays ==
    /\ start' = start /\ offer' = offer /\ booking' = booking /\ dates' = dates
    /\ unopened' = unopened
    /\ modal = "open" => modal' = "open"
    /\ hour' \in Nat /\ hour <= hour'
    /\ mishaps \subseteq mishaps' /\ blinks \subseteq blinks'

\* Why a verdict is right.
ClosedRightly(verdict, date) ==
    verdict = "closed" => \/ date \in unopened
                          \/ modal = "open"
                          \/ Slots!SiteDates(hour) # Slots!SiteDates(start)
PricedRightly(verdict, date) ==
    booking = "slot-listing-pricing" =>
        /\ verdict = "fail" => ~Slots!KeepsTheRule(date) \/ Slots!Slow \/ Slots!AlwaysGone("priority")
        /\ verdict = "pass" => Slots!KeepsTheRule(date) \/ Slots!Slow \/ blinks # {}
FlowFailedRightly ==
    \/ Slots!Lost
    \/ \E which \in {"free", "priority"} : \/ Slots!AlwaysGone(which)
                                          \/ Slots!OfferOf(dates[1])[which] = {}

LEMMA VerdictsStay ==
    ASSUME Slots!SlotsInv, Slots!SlotsAssumption, SiteStays, NEW verdict, NEW date,
           ClosedRightly(verdict, date), PricedRightly(verdict, date)
    PROVE  ClosedRightly(verdict, date)' /\ PricedRightly(verdict, date)'
<1>1. ClosedRightly(verdict, date)'
  <2>1. start \in Nat /\ hour \in Nat /\ start <= hour
    BY DEF Slots!SlotsInv, Slots!OnADate, Slots!SlotsAssumption
  <2>2. hour' \in Nat /\ hour <= hour' /\ start' = start
    BY DEF SiteStays
  <2>3. Slots!SiteDates(hour) # Slots!SiteDates(start) =>
          Slots!SiteDates(hour') # Slots!SiteDates(start)
    BY <2>1, <2>2, CalendarMovesOn
  <2>4. Slots!SiteDates(hour)' = Slots!SiteDates(hour') /\ Slots!SiteDates(start)' = Slots!SiteDates(start)
    BY <2>2 DEF Slots!SiteDates
  <2> QED
    BY <2>3, <2>4 DEF ClosedRightly, SiteStays
<1>2. PricedRightly(verdict, date)'
  <2>1. Slots!KeepsTheRule(date)' = Slots!KeepsTheRule(date)
    BY DEF Slots!KeepsTheRule, Slots!OfferOf, SiteStays
  <2>2. Slots!Slow => Slots!Slow'
    BY DEF Slots!Slow, SiteStays
  <2>3. Slots!AlwaysGone("priority") => Slots!AlwaysGone("priority")'
    BY DEF Slots!AlwaysGone, SiteStays
  <2>4. blinks # {} => blinks' # {}
    BY DEF SiteStays
  <2> QED
    BY <2>1, <2>2, <2>3, <2>4 DEF PricedRightly, SiteStays
<1> QED
  BY <1>1, <1>2

LEMMA FlowsStayLost ==
    ASSUME SiteStays
    PROVE  /\ Slots!Lost => Slots!Lost'
           /\ FlowFailedRightly => FlowFailedRightly'
<1>1. Slots!Lost => Slots!Lost'
  BY DEF Slots!Lost, Slots!Slow, SiteStays
<1>2. \A which \in {"free", "priority"} :
         /\ Slots!AlwaysGone(which) => Slots!AlwaysGone(which)'
         /\ Slots!OfferOf(dates[1])[which]' = Slots!OfferOf(dates[1])[which]
  BY DEF Slots!AlwaysGone, Slots!OfferOf, SiteStays
<1> QED
  BY <1>1, <1>2 DEF FlowFailedRightly

\* A step without a verdict.
LEMMA NoVerdict ==
    ASSUME Slots!SlotsInv, Slots!SlotsAssumption, SiteStays,
           verdicts' = verdicts, booked' = booked, payment => payment'
    PROVE  /\ Slots!SlotVerdictsAreReal'
           /\ booking = "slot-availability-snapshot" =>
                booked' # "failed" /\ \A i \in DOMAIN verdicts' : verdicts'[i] # "fail"
<1>1. Slots!VerdictsOnDates'
  <2> SUFFICES ASSUME NEW i \in DOMAIN verdicts
               PROVE  ClosedRightly(verdicts[i], dates[i])' /\ PricedRightly(verdicts[i], dates[i])'
    BY DEF Slots!VerdictsOnDates, ClosedRightly, PricedRightly
  <2> DEFINE verdict == verdicts[i]
             date == dates[i]
  <2>1. ClosedRightly(verdict, date) /\ PricedRightly(verdict, date)
    BY DEF Slots!SlotsInv, Slots!SlotVerdictsAreReal, Slots!VerdictsOnDates, ClosedRightly, PricedRightly
  <2>2. verdicts'[i] = verdict /\ dates'[i] = date
    BY DEF SiteStays
  <2> HIDE DEF verdict, date
  <2>3. \A v, d : ClosedRightly(v, d) /\ PricedRightly(v, d) =>
                    ClosedRightly(v, d)' /\ PricedRightly(v, d)'
    BY VerdictsStay
  <2> QED
    BY <2>1, <2>2, <2>3 DEF verdict, date, ClosedRightly, PricedRightly
<1>2. booked = "failed" /\ booking # "slot-listing-pricing" => FlowFailedRightly
  BY DEF Slots!SlotsInv, Slots!SlotVerdictsAreReal, FlowFailedRightly
<1> QED
  BY <1>1, <1>2, FlowsStayLost
  DEF Slots!SlotsInv, Slots!SlotVerdictsAreReal, Slots!FlowSoFar, SiteStays, FlowFailedRightly

\* A step with a verdict on the date that is looked at, given why that verdict is right.
LEMMA OneVerdict ==
    ASSUME Slots!SlotsInv, Slots!SlotsAssumption, SiteStays,
           booking \in Slots!SlotTests, bookingAt \notin {"login", "done"},
           NEW verdict \in {"closed", "pass", "fail"}, Slots!Judged(verdict),
           NEW date, date = Slots!Date, ClosedRightly(verdict, date)', PricedRightly(verdict, date)',
           verdict = "fail" /\ booking # "slot-listing-pricing" => Slots!Booking /\ FlowFailedRightly',
           verdict = "pass" /\ Slots!Booking => payment'
    PROVE  /\ Slots!SlotVerdictsAreReal'
           /\ booking = "slot-availability-snapshot" =>
                booked' # "failed" /\ \A i \in DOMAIN verdicts' : verdicts'[i] # "fail"
           /\ verdicts' \in Seq({"closed", "pass", "fail"})
           /\ \/ /\ bookingAt' = "look" /\ booked' = "none" /\ Len(verdicts') < Len(dates)
                 /\ ~Slots!Booking
              \/ bookingAt' = "done" /\ booked' \in {"passed", "failed"} /\ Len(verdicts') <= Len(dates)
<1> DEFINE n == Len(verdicts)
           Words == {"closed", "pass", "fail"}
<1>1. /\ verdicts \in Seq(Words) /\ n < Len(dates) /\ booked = "none" /\ n \in Nat
      /\ Len(dates) \in Nat /\ (Slots!Booking => n = 0 /\ Len(dates) = 1)
  <2>1. Slots!OnADate
    BY DEF Slots!SlotsInv
  <2>2. verdicts \in Seq(Words) /\ n < Len(dates) /\ booked = "none" /\ dates \in Seq(Nat)
    BY <2>1 DEF Slots!OnADate, Slots!Ended
  <2>3. n \in Nat /\ Len(dates) \in Nat
    BY <2>2
  <2>4. Slots!Booking => Len(dates) <= 1
    BY <2>1 DEF Slots!OnADate
  <2>5. Slots!Booking => n = 0 /\ Len(dates) = 1
    <3> SUFFICES ASSUME Slots!Booking PROVE n = 0 /\ Len(dates) = 1
      OBVIOUS
    <3>1. Len(dates) <= 1
      BY <2>4
    <3>2. n < Len(dates)
      BY <2>2
    <3>3. \A a, b \in Nat : b <= 1 /\ a < b => a = 0 /\ b = 1
      OBVIOUS
    <3> QED
      BY <2>3, <3>1, <3>2, <3>3
  <2> QED
    BY <2>2, <2>3, <2>5
<1>2. verdicts' = Append(verdicts, verdict)
  BY DEF Slots!Judged
<1>3. /\ verdicts' \in Seq(Words) /\ Len(verdicts') = n + 1 /\ DOMAIN verdicts' = 1 .. n + 1
      /\ verdicts'[n + 1] = verdict /\ \A i \in 1 .. n : verdicts'[i] = verdicts[i]
      /\ DOMAIN verdicts = 1 .. n
  BY <1>1, <1>2
<1>4. \/ bookingAt' = "look" /\ booked' = "none" /\ n + 1 < Len(dates)
      \/ /\ bookingAt' = "done" /\ ~(n + 1 < Len(dates))
         /\ booked' = IF \E i \in 1 .. n + 1 : verdicts'[i] = "fail" THEN "failed" ELSE "passed"
  <2> DEFINE all == Append(verdicts, verdict)
  <2>1. /\ Len(all) = n + 1 /\ DOMAIN all = 1 .. n + 1
        /\ IF Len(all) < Len(dates) THEN bookingAt' = "look" /\ booked' = booked
           ELSE /\ bookingAt' = "done"
                /\ booked' = IF "fail" \in {all[i] : i \in DOMAIN all} THEN "failed" ELSE "passed"
    BY <1>2, <1>3 DEF Slots!Judged, Slots!Over
  <2>2. all = verdicts'
    BY <1>2
  <2> HIDE DEF all
  <2> QED
    BY <1>1, <2>1, <2>2
<1>5. Slots!VerdictsOnDates'
  <2> SUFFICES ASSUME NEW i \in 1 .. n + 1
               PROVE  ClosedRightly(verdicts[i], dates[i])' /\ PricedRightly(verdicts[i], dates[i])'
    BY <1>3 DEF Slots!VerdictsOnDates, ClosedRightly, PricedRightly
  <2>1. CASE i \in 1 .. n
    <3> DEFINE v == verdicts[i]
               d == dates[i]
    <3>1. ClosedRightly(v, d) /\ PricedRightly(v, d)
      BY <2>1, <1>3
      DEF Slots!SlotsInv, Slots!SlotVerdictsAreReal, Slots!VerdictsOnDates, ClosedRightly, PricedRightly
    <3>2. verdicts'[i] = v /\ dates'[i] = d
      BY <2>1, <1>3 DEF SiteStays
    <3> HIDE DEF v, d
    <3>3. \A w, e : ClosedRightly(w, e) /\ PricedRightly(w, e) => ClosedRightly(w, e)' /\ PricedRightly(w, e)'
      BY VerdictsStay
    <3> QED
      BY <3>1, <3>2, <3>3 DEF ClosedRightly, PricedRightly
  <2>2. CASE i = n + 1
    <3>1. verdicts'[i] = verdict /\ dates'[i] = date
      BY <2>2, <1>3 DEF SiteStays, Slots!Date
    <3> QED
      BY <3>1 DEF ClosedRightly, PricedRightly
  <2> QED
    BY <2>1, <2>2, <1>1
<1>6. ASSUME booked' = "failed", booking # "slot-listing-pricing"
      PROVE  Slots!Booking /\ FlowFailedRightly'
  <2>1. PICK i \in 1 .. n + 1 : verdicts'[i] = "fail"
    BY <1>4, <1>6
  <2>2. CASE i = n + 1
    BY <2>1, <2>2, <1>3, <1>6
  <2>3. CASE i \in 1 .. n
    <3>1. booking # "slot-availability-snapshot"
      BY <2>1, <2>3, <1>3 DEF Slots!SlotsInv, Slots!FlowSoFar
    <3> QED
      BY <3>1, <2>3, <1>1, <1>6 DEF Slots!SlotTests, Slots!createPortalAutomationTests, Slots!Booking
  <2> QED
    BY <2>2, <2>3, <1>1
<1>7. ASSUME booked' = "passed", booking \notin {"slot-listing-pricing", "slot-availability-snapshot"}
      PROVE  payment' \/ verdicts' = <<"closed">>
  <2>1. Slots!Booking
    BY <1>7 DEF Slots!SlotTests, Slots!createPortalAutomationTests, Slots!Booking
  <2>2. verdict = "closed" \/ verdict = "pass"
    BY <2>1, <1>1, <1>3, <1>4, <1>7
  <2>3. verdict = "closed" => verdicts' = <<"closed">>
    BY <2>1, <1>1, <1>2
  <2> QED
    BY <2>1, <2>2, <2>3
<1>8. booked' # "threw"
  BY <1>4
<1>9. Slots!SlotVerdictsAreReal'
  BY <1>5, <1>6, <1>7, <1>8 DEF Slots!SlotVerdictsAreReal, FlowFailedRightly, SiteStays
<1>10. booking = "slot-availability-snapshot" =>
          booked' # "failed" /\ \A i \in DOMAIN verdicts' : verdicts'[i] # "fail"
  <2> SUFFICES ASSUME booking = "slot-availability-snapshot" 
               PROVE  \A i \in 1 .. n + 1 : verdicts'[i] # "fail"
    BY <1>3, <1>4
  <2>1. \A i \in 1 .. n : verdicts[i] # "fail"
    BY <1>3 DEF Slots!SlotsInv, Slots!FlowSoFar
  <2>2. verdict # "fail"
    BY DEF Slots!Booking
  <2> QED
    BY <2>1, <2>2, <1>1, <1>3
<1>11. \/ bookingAt' = "look" /\ booked' = "none" /\ Len(verdicts') < Len(dates) /\ ~Slots!Booking
       \/ bookingAt' = "done" /\ booked' \in {"passed", "failed"} /\ Len(verdicts') <= Len(dates)
  <2> DEFINE more == Len(dates)
  <2>1. n \in Nat /\ more \in Nat /\ n < more
    BY <1>1
  <2>2. Slots!Booking => ~(n + 1 < more)
    <3>1. Slots!Booking => n = 0 /\ more = 1
      BY <1>1
    <3>2. n = 0 /\ more = 1 => ~(n + 1 < more)
      OBVIOUS
    <3> QED
      BY <3>1, <3>2
  <2>3. n + 1 <= more
    BY <2>1
  <2> QED
    BY <2>2, <2>3, <1>3, <1>4
<1> QED
  BY <1>3, <1>9, <1>10, <1>11

\* What is left to show of a step with a verdict: the other parts of the invariant.
LEMMA VerdictStep ==
    ASSUME Slots!SlotsInv, Slots!SlotsAssumption, SiteStays,
           booking \in Slots!SlotTests, bookingAt \notin {"login", "done"},
           NEW verdict \in {"closed", "pass", "fail"}, Slots!Judged(verdict),
           NEW date, date = Slots!Date, ClosedRightly(verdict, date)', PricedRightly(verdict, date)',
           verdict = "fail" /\ booking # "slot-listing-pricing" => Slots!Booking /\ FlowFailedRightly',
           verdict = "pass" /\ Slots!Booking => payment',
           UNCHANGED <<hour, modal, clicked, shown, section, attempt>>, ~Slots!Booking => ~payment'
    PROVE  Slots!SlotsInv'
<1>1. /\ Slots!SlotVerdictsAreReal'
      /\ booking = "slot-availability-snapshot" =>
            booked' # "failed" /\ \A i \in DOMAIN verdicts' : verdicts'[i] # "fail"
      /\ verdicts' \in Seq({"closed", "pass", "fail"})
  BY OneVerdict
<1>2. \/ /\ bookingAt' = "look" /\ booked' = "none" /\ Len(verdicts') < Len(dates)
         /\ ~Slots!Booking
      \/ bookingAt' = "done" /\ booked' \in {"passed", "failed"} /\ Len(verdicts') <= Len(dates)
  BY OneVerdict
<1>3. Slots!OnADate'
  <2>1. Slots!OnADate /\ dates \in Seq(Nat) /\ Len(dates) \in Nat /\ Len(verdicts') \in Nat
    BY <1>1 DEF Slots!SlotsInv, Slots!OnADate
  <2>2. Len(verdicts') <= Len(dates)
    BY <1>2, <2>1
  <2>3. Slots!SiteDates(start)' = Slots!SiteDates(start)
    BY DEF Slots!SiteDates, SiteStays
  <2> QED
    BY <1>1, <1>2, <2>1, <2>2, <2>3
    DEF Slots!OnADate, SiteStays, Slots!Ended, Slots!Booking
<1>4. Slots!PanelsRead'
  BY <1>2 DEF Slots!SlotsInv, Slots!PanelsRead, Slots!Ended, Slots!Slow, SiteStays
<1>5. Slots!RetriesSoFar'
  BY <1>2 DEF Slots!SlotsInv, Slots!RetriesSoFar
<1>6. Slots!FlowSoFar'
  BY <1>1, <1>2 DEF Slots!FlowSoFar, Slots!Ended, SiteStays
<1> QED
  BY <1>1, <1>3, <1>4, <1>5, <1>6 DEF Slots!SlotsInv

\* A step that loses the screen ends the test.
LEMMA LostStep ==
    ASSUME Slots!SlotsInv, Slots!SlotsAssumption, SiteStays, Slots!Lost',
           bookingAt # "done", bookingAt' = "done", UNCHANGED <<hour, modal, verdicts>>,
           booked' = "threw" \/ (booked' = "failed" /\ booking \notin Slots!SlotTests),
           section' \in {1, 2}, attempt' \in 0 .. 3
    PROVE  Slots!SlotsInv'
<1>1. Slots!OnADate'
  <2>1. Slots!SiteDates(start)' = Slots!SiteDates(start)
    BY DEF Slots!SiteDates, SiteStays
  <2> QED
    BY <2>1 DEF Slots!SlotsInv, Slots!OnADate, SiteStays, Slots!Ended, Slots!Booking
<1>2. Slots!PanelsRead' /\ Slots!RetriesSoFar'
  BY DEF Slots!PanelsRead, Slots!RetriesSoFar, Slots!Ended
<1>3. Slots!VerdictsOnDates'
  <2> SUFFICES ASSUME NEW i \in DOMAIN verdicts
               PROVE  ClosedRightly(verdicts[i], dates[i])' /\ PricedRightly(verdicts[i], dates[i])'
    BY DEF Slots!VerdictsOnDates, ClosedRightly, PricedRightly
  <2> DEFINE verdict == verdicts[i]
             date == dates[i]
  <2>1. ClosedRightly(verdict, date) /\ PricedRightly(verdict, date)
    BY DEF Slots!SlotsInv, Slots!SlotVerdictsAreReal, Slots!VerdictsOnDates, ClosedRightly, PricedRightly
  <2>2. verdicts'[i] = verdict /\ dates'[i] = date
    BY DEF SiteStays
  <2> HIDE DEF verdict, date
  <2>3. \A v, d : ClosedRightly(v, d) /\ PricedRightly(v, d) => ClosedRightly(v, d)' /\ PricedRightly(v, d)'
    BY VerdictsStay
  <2> QED
    BY <2>1, <2>2, <2>3 DEF verdict, date, ClosedRightly, PricedRightly
<1>4. Slots!SlotVerdictsAreReal'
  BY <1>3 DEF Slots!SlotVerdictsAreReal
<1>5. Slots!FlowSoFar'
  BY DEF Slots!SlotsInv, Slots!FlowSoFar, Slots!Ended, SiteStays, Slots!SlotTests,
         Slots!createPortalAutomationTests
<1> QED
  BY <1>1, <1>2, <1>4, <1>5 DEF Slots!SlotsInv

\* A step without a verdict, between two states of a test that goes on.
LEMMA QuietStep ==
    ASSUME Slots!SlotsInv, Slots!SlotsAssumption, SiteStays, UNCHANGED <<verdicts, booked>>,
           bookingAt # "done", bookingAt' # "done", bookingAt' # "login",
           booking \in Slots!SlotTests => bookingAt # "login",
           booking \notin Slots!SlotTests => bookingAt' = "script",
           modal' \in {"no", "late", "open"},
           payment' => payment,
           bookingAt' = "time-button" => Slots!Booking,
           bookingAt' = "script" => /\ Slots!Booking \/ booking \notin Slots!SlotTests
                                    /\ (step \in 1 .. Len(Slots!Probes))'
    PROVE  Slots!OnADate' /\ Slots!FlowSoFar' /\ Slots!SlotVerdictsAreReal'
<1>4. ~payment
  BY DEF Slots!SlotsInv, Slots!FlowSoFar, Slots!Ended
<1>1. Slots!OnADate'
  <2>1. Slots!SiteDates(start)' = Slots!SiteDates(start)
    BY DEF Slots!SiteDates, SiteStays
  <2>2. hour' \in Nat /\ start' <= hour'
    <3>1. start \in Nat /\ hour \in Nat /\ start <= hour
      <4>1. Slots!OnADate
        BY DEF Slots!SlotsInv
      <4> QED
        BY <4>1 DEF Slots!OnADate, Slots!SlotsAssumption
    <3>2. hour' \in Nat /\ hour <= hour' /\ start' = start
      BY DEF SiteStays
    <3> QED
      BY <3>1, <3>2
  <2>3. Slots!Ended' <=> booked' # "none"
    BY DEF Slots!SlotsInv, Slots!OnADate, Slots!Ended
  <2> QED
    BY <2>1, <2>2, <2>3
    DEF Slots!SlotsInv, Slots!OnADate, SiteStays, Slots!Booking
<1>2. Slots!FlowSoFar'
  BY <1>4, NoVerdict DEF Slots!SlotsInv, Slots!FlowSoFar, Slots!Ended, SiteStays, Slots!Booking
<1>3. Slots!SlotVerdictsAreReal'
  BY <1>4, NoVerdict
<1> QED
  BY <1>1, <1>2, <1>3

\* The date that is looked at is one of those the site had open at the start.
LEMMA TheDate ==
    ASSUME Slots!SlotsInv, Slots!SlotsAssumption, booking \in Slots!SlotTests,
           bookingAt \notin {"login", "done"}
    PROVE  /\ Slots!Date \in Nat /\ Slots!Date \in Slots!SiteDates(start)
           /\ Slots!Booking => Slots!Date = dates[1] /\ Len(verdicts) = 0 /\ Len(dates) = 1
<1>1. /\ dates \in Seq(Nat) /\ Len(verdicts) \in Nat /\ Len(verdicts) < Len(dates)
      /\ Len(dates) \in Nat /\ (Slots!Booking => Len(dates) <= 1)
  BY DEF Slots!SlotsInv, Slots!OnADate
<1>2. Len(verdicts) + 1 \in DOMAIN dates
  BY <1>1
<1>3. Slots!Date \in Nat /\ Slots!Date \in Slots!SiteDates(start)
  BY <1>1, <1>2 DEF Slots!SlotsInv, Slots!OnADate, Slots!Date
<1>4. \A a, b \in Nat : a < b /\ b <= 1 => a = 0 /\ b = 1
  OBVIOUS
<1>5. Slots!Booking => Len(verdicts) = 0 /\ Len(dates) = 1
  BY <1>1, <1>4
<1> QED
  BY <1>3, <1>5 DEF Slots!Date

\* Nothing of what a step reads is older than the step.
LEMMA TheHour ==
    ASSUME Slots!SlotsInv, Slots!SlotsAssumption
    PROVE  /\ hour \in Nat /\ start \in Nat /\ hour <= hour
           /\ section \in {1, 2} /\ attempt \in 0 .. 3 /\ modal \in {"no", "late", "open"}
BY DEF Slots!SlotsInv, Slots!OnADate, Slots!RetriesSoFar, Slots!SlotsAssumption

LEMMA BookingLoginStep ==
    ASSUME Slots!SlotsInv, Slots!SlotsAssumption, Slots!loginAndReachBookingScreen
    PROVE  Slots!SlotsInv'
<1> USE DEF Slots!site, Slots!reading
<1>1. CASE Slots!Throw("layout") /\ UNCHANGED <<modal, dates>>
  <2>1. SiteStays
    BY <1>1, TheHour DEF Slots!loginAndReachBookingScreen, SiteStays, Slots!Throw
  <2>2. Slots!Lost'
    BY <1>1 DEF Slots!Throw, Slots!Lost
  <2>3. /\ bookingAt = "login" /\ bookingAt' = "done" /\ booked' = "threw"
        /\ UNCHANGED <<hour, modal, verdicts, section, attempt>>
    BY <1>1 DEF Slots!loginAndReachBookingScreen, Slots!Throw, Slots!Over
  <2>4. section' \in {1, 2} /\ attempt' \in 0 .. 3
    BY <2>3, TheHour
  <2> QED
    BY <2>1, <2>2, <2>3, <2>4, LostStep
<1>2. CASE ~(Slots!Throw("layout") /\ UNCHANGED <<modal, dates>>)
  <2>1. /\ bookingAt = "login" /\ booking \in Slots!SlotTests /\ bookingAt' = "look"
        /\ dates' = IF booking = "slot-booking-flow" THEN <<Slots!nextNonSunday(hour)>>
                    ELSE Slots!upcomingDates(2, hour)
        /\ UNCHANGED <<start, unopened, offer, booking, hour, verdicts, clicked, shown, section,
                       attempt, free, priority, blinks, step, payment, booked>>
        /\ modal' \in {"no", "late"} /\ mishaps' = mishaps
    BY <1>2 DEF Slots!loginAndReachBookingScreen
  <2>2. modal' \in {"no", "late", "open"}
    BY <2>1
  <2>3. hour = start /\ start \in Nat /\ verdicts = <<>> /\ booked = "none"
    <3>1. Slots!OnADate /\ dates = <<>>
      BY <2>1 DEF Slots!SlotsInv, Slots!OnADate
    <3>2. Len(verdicts) \in Nat /\ Len(verdicts) <= 0
      BY <3>1 DEF Slots!OnADate
    <3> QED
      BY <2>1, <3>1, <3>2, TheHour DEF Slots!OnADate, Slots!Ended
  <2>4. /\ dates' \in Seq(Nat) /\ Len(dates') \in {1, 2} /\ (Slots!Booking => Len(dates') = 1)
        /\ \A i \in DOMAIN dates' : dates'[i] \in Slots!SiteDates(start)
    <3>1. CASE Slots!Booking
      <4>1. dates' = <<Slots!nextNonSunday(start)>>
        BY <2>1, <2>3, <3>1 DEF Slots!Booking
      <4>2. Slots!nextNonSunday(start) \in Slots!SiteDates(start) /\ Slots!nextNonSunday(start) \in Nat
        <5>1. Slots!nextNonSunday(start) \in Slots!SiteDates(start)
          BY <2>3, DatesAreOpen
        <5>2. Slots!SiteDates(start) \subseteq Nat
          BY <2>3, TwoDatesOpen
        <5> QED
          BY <5>1, <5>2
      <4> QED
        BY <4>1, <4>2
    <3>2. CASE ~Slots!Booking
      <4>1. dates' = Slots!upcomingDates(2, start)
        BY <2>1, <2>3, <3>2 DEF Slots!Booking
      <4> QED
        BY <2>3, <3>2, <4>1, DatesAreOpen
    <3> QED
      BY <3>1, <3>2
  <2>5. Slots!OnADate'
    <3>1. Slots!SiteDates(start)' = Slots!SiteDates(start)
      BY <2>1 DEF Slots!SiteDates
    <3>2. Len(verdicts') = 0 /\ verdicts' \in Seq({"closed", "pass", "fail"})
      BY <2>1, <2>3
    <3>4. \A a, b : a = 0 /\ b \in {1, 2} => b <= 2 /\ a < b /\ a <= b
      OBVIOUS
    <3>3. Len(dates') <= 2 /\ Len(verdicts') < Len(dates') /\ Len(verdicts') <= Len(dates')
      BY <3>2, <3>4, <2>4
    <3> QED
      BY <2>1, <2>2, <2>3, <2>4, <3>1, <3>2, <3>3
      DEF Slots!SlotsInv, Slots!OnADate, Slots!Ended, Slots!Booking
  <2>6. Slots!PanelsRead'
    BY <2>1 DEF Slots!SlotsInv, Slots!PanelsRead, Slots!Ended, Slots!Slow
  <2>7. Slots!RetriesSoFar' /\ Slots!FlowSoFar'
    BY <2>1, <2>3 DEF Slots!SlotsInv, Slots!RetriesSoFar, Slots!FlowSoFar, Slots!Ended
  <2>8. Slots!SlotVerdictsAreReal'
    BY <2>1, <2>3 DEF Slots!SlotVerdictsAreReal, Slots!VerdictsOnDates
  <2> QED
    BY <2>5, <2>6, <2>7, <2>8 DEF Slots!SlotsInv
<1> QED
  BY <1>1, <1>2

LEMMA ScriptLoginStep ==
    ASSUME Slots!SlotsInv, Slots!SlotsAssumption, Slots!loginAndExpandSidebar
    PROVE  Slots!SlotsInv'
<1> USE DEF Slots!site, Slots!reading, Slots!loginAndExpandSidebar
<1>1. SiteStays
  BY TheHour DEF SiteStays
<1>2. /\ bookingAt = "login" /\ bookingAt' = "script" /\ booking \notin Slots!SlotTests
      /\ UNCHANGED <<clicked, shown, section, attempt, payment, step, booking>>
  OBVIOUS
<1>3. step = 1
  BY <1>2 DEF Slots!SlotsInv, Slots!FlowSoFar
<1>4. (step \in 1 .. Len(Slots!Probes))'
  <2>1. Slots!Probes' = Slots!Script
    BY <1>2 DEF Slots!Probes, Slots!Script, Slots!SlotTests
  <2>2. Len(Slots!Script) \in Nat \ {0}
    BY FlowsEndInPayment DEF Slots!Script, LastIsPayment
  <2> QED
    BY <1>2, <1>3, <2>1, <2>2
<1>5. Slots!OnADate' /\ Slots!FlowSoFar' /\ Slots!SlotVerdictsAreReal'
  BY <1>1, <1>2, <1>4, TheHour, QuietStep
<1>6. Slots!PanelsRead' /\ Slots!RetriesSoFar'
  BY <1>2 DEF Slots!SlotsInv, Slots!PanelsRead, Slots!RetriesSoFar, Slots!Ended, Slots!Slow
<1> QED
  BY <1>5, <1>6 DEF Slots!SlotsInv

LEMMA LookStep ==
    ASSUME Slots!SlotsInv, Slots!SlotsAssumption, Slots!Look
    PROVE  Slots!SlotsInv'
<1> USE DEF Slots!site, Slots!reading
<1>1. bookingAt = "look" /\ booking \in Slots!SlotTests
  BY DEF Slots!Look, Slots!SlotsInv, Slots!OnADate
<1>2. SiteStays
  BY TheHour DEF Slots!Look, SiteStays
<1>3. UNCHANGED <<hour, modal, clicked, shown, section, attempt, payment, free, priority, blinks>>
  BY DEF Slots!Look
<1>4. CASE Slots!isDateBookable(Slots!Date)
  <2>1. bookingAt' = "select" /\ UNCHANGED <<verdicts, booked, mishaps>>
    BY <1>4 DEF Slots!Look
  <2>2. Slots!OnADate' /\ Slots!FlowSoFar' /\ Slots!SlotVerdictsAreReal'
    BY <1>1, <1>2, <1>3, <2>1, TheHour, QuietStep
  <2>3. Slots!PanelsRead' /\ Slots!RetriesSoFar'
    BY <1>1, <1>3, <2>1
    DEF Slots!SlotsInv, Slots!PanelsRead, Slots!RetriesSoFar, Slots!Ended, Slots!Slow
  <2> QED
    BY <2>2, <2>3 DEF Slots!SlotsInv
<1>5. CASE ~Slots!isDateBookable(Slots!Date)
  <2>1. Slots!Judged("closed") /\ mishaps' = mishaps
    BY <1>5 DEF Slots!Look
  <2>2. \A date : date = Slots!Date => ClosedRightly("closed", date)'
    <3> SUFFICES ASSUME NEW date, date = Slots!Date PROVE ClosedRightly("closed", date)'
      OBVIOUS
    <3>1. date \in Slots!SiteDates(start)
      BY <1>1, TheDate
    <3>2. date \in unopened \/ modal = "open" \/ Slots!SiteDates(hour) # Slots!SiteDates(start)
      BY <1>5, <3>1 DEF Slots!isDateBookable
    <3>3. Slots!SiteDates(hour)' = Slots!SiteDates(hour) /\ Slots!SiteDates(start)' = Slots!SiteDates(start)
      BY <1>2, <1>3 DEF Slots!SiteDates, SiteStays
    <3> QED
      BY <1>2, <1>3, <3>2, <3>3 DEF ClosedRightly, SiteStays
  <2>3. \A date : PricedRightly("closed", date)'
    BY DEF PricedRightly
  <2>4. payment' = FALSE \/ ~payment'
    BY <1>1, <1>3 DEF Slots!SlotsInv, Slots!FlowSoFar, Slots!Ended
  <2> QED
    BY <1>1, <1>2, <1>3, <2>1, <2>2, <2>3, <2>4, VerdictStep
<1> QED
  BY <1>4, <1>5

\* A click on a date loses the screen, or leaves panels that are the date's own unless they are slow.
LEMMA ClickedDate ==
    ASSUME Slots!SlotsInv, Slots!SlotsAssumption, NEW then, Slots!selectCalendarDate(then)
    PROVE  /\ mishaps \subseteq mishaps'
           /\ \/ bookingAt' = "done" /\ booked' = "threw" /\ Slots!Lost'
              \/ /\ bookingAt' = then /\ booked' = booked /\ clicked' = Slots!Date
                 /\ shown' = Slots!Date \/ Slots!Slow'
<1>1. CASE ~Slots!isDateBookable(Slots!Date)
  BY <1>1 DEF Slots!selectCalendarDate, Slots!Throw, Slots!Over, Slots!Lost
<1>2. CASE Slots!isDateBookable(Slots!Date)
  <2>1. CASE shown' = Slots!Date /\ bookingAt' = then /\ UNCHANGED <<booked, mishaps>>
    BY <1>2, <2>1 DEF Slots!selectCalendarDate
  <2>2. CASE shown' # Slots!Date \/ bookingAt' # then \/ ~UNCHANGED <<booked, mishaps>>
    <3>1. /\ clicked' = Slots!Date
          /\ IF shown = None THEN Slots!Throw("no-panel")
             ELSE /\ bookingAt' = then /\ booked' = booked
                  /\ mishaps' = mishaps \union {"slow-panel"}
      BY <1>2, <2>2 DEF Slots!selectCalendarDate
    <3>2. CASE shown = None
      BY <3>1, <3>2 DEF Slots!Throw, Slots!Over, Slots!Lost
    <3>3. CASE shown # None
      BY <3>1, <3>3 DEF Slots!Slow
    <3> QED
      BY <3>2, <3>3
  <2> QED
    BY <2>1, <2>2
<1> QED
  BY <1>1, <1>2

LEMMA SelectStep ==
    ASSUME Slots!SlotsInv, Slots!SlotsAssumption, Slots!Select
    PROVE  Slots!SlotsInv'
<1> USE DEF Slots!site
<1> DEFINE then == IF booking = "slot-booking-flow" THEN "retry" ELSE "read-free"
<1>1. bookingAt = "select" /\ booking \in Slots!SlotTests
  BY DEF Slots!Select, Slots!SlotsInv, Slots!OnADate
<1>2. /\ section' = 1 /\ attempt' = 1
      /\ UNCHANGED <<start, unopened, offer, booking, hour, modal, dates, verdicts, free, priority,
                     step, payment, blinks>>
      /\ Slots!selectCalendarDate(then)
  BY DEF Slots!Select
<1>3. /\ mishaps \subseteq mishaps'
      /\ \/ bookingAt' = "done" /\ booked' = "threw" /\ Slots!Lost'
         \/ /\ bookingAt' = then /\ booked' = booked /\ clicked' = Slots!Date
            /\ shown' = Slots!Date \/ Slots!Slow'
  BY <1>2, ClickedDate
<1>4. SiteStays
  BY <1>2, <1>3, TheHour DEF SiteStays
<1>5. CASE bookingAt' = "done" /\ booked' = "threw" /\ Slots!Lost'
  BY <1>1, <1>2, <1>4, <1>5, LostStep
<1>6. CASE ~(bookingAt' = "done" /\ booked' = "threw" /\ Slots!Lost')
  <2>1. /\ bookingAt' = then /\ booked' = booked /\ clicked' = Slots!Date
        /\ shown' = Slots!Date \/ Slots!Slow'
    BY <1>3, <1>6
  <2>2. bookingAt' \in {"retry", "read-free"} /\ (bookingAt' = "retry" <=> Slots!Booking)
    BY <2>1 DEF Slots!Booking
  <2>3. Slots!OnADate' /\ Slots!FlowSoFar' /\ Slots!SlotVerdictsAreReal'
    BY <1>1, <1>2, <1>4, <2>1, <2>2, TheHour, QuietStep
  <2>4. Slots!Date' = Slots!Date
    BY <1>2 DEF Slots!Date
  <2>5. Slots!PanelsRead'
    BY <1>2, <2>1, <2>2, <2>4 DEF Slots!PanelsRead, Slots!Booking
  <2>6. Slots!RetriesSoFar'
    BY <1>1, <1>2, <2>2 DEF Slots!RetriesSoFar, Slots!Booking
  <2> QED
    BY <2>3, <2>5, <2>6 DEF Slots!SlotsInv
<1> QED
  BY <1>5, <1>6

LEMMA SelectAgainStep ==
    ASSUME Slots!SlotsInv, Slots!SlotsAssumption, Slots!SelectAgain
    PROVE  Slots!SlotsInv'
<1> USE DEF Slots!site, Slots!reading
<1>1. bookingAt = "again" /\ booking \in Slots!SlotTests
  BY DEF Slots!SelectAgain, Slots!SlotsInv, Slots!OnADate
<1>2. /\ UNCHANGED <<start, unopened, offer, booking, hour, modal, dates, verdicts, free, priority,
                     section, attempt, step, payment, blinks>>
      /\ Slots!selectCalendarDate("retry")
  BY DEF Slots!SelectAgain
<1>3. /\ mishaps \subseteq mishaps'
      /\ \/ bookingAt' = "done" /\ booked' = "threw" /\ Slots!Lost'
         \/ /\ bookingAt' = "retry" /\ booked' = booked /\ clicked' = Slots!Date
            /\ shown' = Slots!Date \/ Slots!Slow'
  BY <1>2, ClickedDate
<1>4. SiteStays
  BY <1>2, <1>3, TheHour DEF SiteStays
<1>5. CASE bookingAt' = "done" /\ booked' = "threw" /\ Slots!Lost'
  BY <1>1, <1>2, <1>4, <1>5, TheHour, LostStep
<1>6. CASE ~(bookingAt' = "done" /\ booked' = "threw" /\ Slots!Lost')
  <2>1. /\ bookingAt' = "retry" /\ booked' = booked /\ clicked' = Slots!Date
        /\ shown' = Slots!Date \/ Slots!Slow'
    BY <1>3, <1>6
  <2>2. Slots!OnADate' /\ Slots!FlowSoFar' /\ Slots!SlotVerdictsAreReal'
    BY <1>1, <1>2, <1>4, <2>1, TheHour, QuietStep
  <2>3. Slots!Date' = Slots!Date /\ (Slots!Slow => Slots!Slow')
    BY <1>2, <1>4 DEF Slots!Date, Slots!Slow, SiteStays
  <2>4. \A date, which : Slots!OfferOf(date)[which]' = Slots!OfferOf(date)[which]
    BY <1>2 DEF Slots!OfferOf
  <2>5. Slots!PanelsRead'
    <3>1. booking = "slot-listing-pricing" /\ ~Slots!Slow =>
            free = Slots!OfferOf(Slots!Date).free \/ (free = {} /\ blinks # {})
      BY <1>1 DEF Slots!SlotsInv, Slots!PanelsRead
    <3>2. Slots!OfferOf(Slots!Date)' = Slots!OfferOf(Slots!Date)
      BY <1>2, <2>3 DEF Slots!OfferOf
    <3> QED
      BY <1>2, <2>1, <2>3, <3>1, <3>2 DEF Slots!PanelsRead
  <2>6. Slots!RetriesSoFar'
    <3>1. Slots!OfferOf(Slots!Date)' = Slots!OfferOf(Slots!Date)
      BY <1>2, <2>3 DEF Slots!OfferOf
    <3> QED
      BY <1>1, <1>2, <2>1, <2>3, <3>1
      DEF Slots!SlotsInv, Slots!RetriesSoFar, Slots!Booking, Slots!Sections
  <2> QED
    BY <2>2, <2>5, <2>6 DEF Slots!SlotsInv
<1> QED
  BY <1>5, <1>6

\* One read of a panel: what the site lists, or nothing and the slots gone for the moment.
LEMMA OneRead ==
    ASSUME Slots!SlotsInv, Slots!SlotsAssumption, booking \in Slots!SlotTests,
           bookingAt \in {"read-free", "read-priority", "retry"}, ~Slots!Slow,
           NEW which \in {"free", "priority"}, NEW gone \in BOOLEAN,
           gone => Slots!OfferOf(shown)[which] # {}
    PROVE  IF gone THEN /\ Slots!readSlotTimes(which, gone) = {}
                        /\ Slots!OfferOf(Slots!Date)[which] # {}
           ELSE Slots!readSlotTimes(which, gone) = Slots!OfferOf(Slots!Date)[which]
<1>1. shown = Slots!Date
  BY DEF Slots!SlotsInv, Slots!PanelsRead
<1>2. shown \in Nat
  BY <1>1, TheDate
<1>6. offer \in [{1, 2} -> Offers]
  BY DEF Slots!SlotsInv, Slots!OnADate
<1>3. Slots!readSlotTimes(which, gone) = IF gone THEN {} ELSE Slots!OfferOf(shown)[which]
  BY <1>2, <1>6, PanelsAreRead
<1> QED
  BY <1>1, <1>3

LEMMA ReadFreeStep ==
    ASSUME Slots!SlotsInv, Slots!SlotsAssumption, Slots!ReadFree
    PROVE  Slots!SlotsInv'
<1> USE DEF Slots!site
<1>1. bookingAt = "read-free" /\ booking \in Slots!SlotTests /\ ~Slots!Booking
  BY DEF Slots!ReadFree, Slots!SlotsInv, Slots!RetriesSoFar
<1>2. PICK gone \in BOOLEAN : Slots!Read("free", gone)
  BY DEF Slots!ReadFree
<1>3. /\ bookingAt' = "read-priority" /\ free' = Slots!readSlotTimes("free", gone)
      /\ gone => Slots!OfferOf(shown)["free"] # {}
      /\ blinks' = blinks \union (IF gone THEN {<<"free", attempt>>} ELSE {})
      /\ UNCHANGED <<start, unopened, offer, booking, hour, modal, dates, verdicts, clicked, shown,
                     section, attempt, step, payment, booked, mishaps>>
  BY <1>2 DEF Slots!ReadFree, Slots!Read
<1>4. SiteStays
  BY <1>3, TheHour DEF SiteStays
<1>5. Slots!OnADate' /\ Slots!FlowSoFar' /\ Slots!SlotVerdictsAreReal'
  BY <1>1, <1>3, <1>4, TheHour, QuietStep
<1>6. Slots!Date' = Slots!Date /\ (Slots!Slow' <=> Slots!Slow)
  BY <1>3 DEF Slots!Date, Slots!Slow
<1>7. Slots!PanelsRead'
  <2>1. ~Slots!Slow => free' = Slots!OfferOf(Slots!Date).free \/ (free' = {} /\ blinks' # {})
    <3>1. ASSUME ~Slots!Slow, gone = TRUE
          PROVE  free' = {} /\ blinks' # {}
      <4>1. free' = {}
        BY <1>1, <1>3, <3>1, OneRead
      <4>2. <<"free", attempt>> \in blinks'
        BY <1>3, <3>1
      <4> QED
        BY <4>1, <4>2
    <3>2. ASSUME ~Slots!Slow, gone = FALSE
          PROVE  free' = Slots!OfferOf(Slots!Date)["free"]
      BY <1>1, <1>3, <3>2, OneRead
    <3> QED
      BY <1>2, <3>1, <3>2
  <2>2. Slots!OfferOf(Slots!Date)' = Slots!OfferOf(Slots!Date)
    BY <1>3, <1>6 DEF Slots!OfferOf
  <2>3. (clicked # shown => Slots!Slow) /\ (~Slots!Slow => clicked = Slots!Date /\ shown = Slots!Date)
    BY <1>1 DEF Slots!SlotsInv, Slots!PanelsRead, Slots!Ended
  <2> QED
    BY <1>1, <1>3, <1>6, <2>1, <2>2, <2>3 DEF Slots!PanelsRead
<1>8. Slots!RetriesSoFar'
  BY <1>1, <1>3 DEF Slots!SlotsInv, Slots!RetriesSoFar, Slots!Booking
<1> QED
  BY <1>5, <1>7, <1>8 DEF Slots!SlotsInv

LEMMA ReadPriorityStep ==
    ASSUME Slots!SlotsInv, Slots!SlotsAssumption, Slots!ReadPriority
    PROVE  Slots!SlotsInv'
<1> USE DEF Slots!site
<1> DEFINE again == booking = "slot-listing-pricing" /\ Slots!getDay(Slots!Date) = 0 /\ priority' = {}
<1>1. bookingAt = "read-priority" /\ booking \in Slots!SlotTests /\ ~Slots!Booking
  BY DEF Slots!ReadPriority, Slots!SlotsInv, Slots!RetriesSoFar
<1>2. PICK gone \in BOOLEAN :
         /\ gone => Slots!OfferOf(shown)["priority"] # {}
         /\ priority' = Slots!readSlotTimes("priority", gone)
         /\ blinks' = blinks \union (IF gone THEN {<<"priority", 0>>} ELSE {})
  BY DEF Slots!ReadPriority
<1>3. /\ UNCHANGED <<start, unopened, offer, booking, hour, modal, dates, verdicts, clicked, shown,
                     free, step, payment, booked, mishaps>>
      /\ \/ again /\ bookingAt' = "retry" /\ section' = 2 /\ attempt' = 1
         \/ ~again /\ bookingAt' = "judge" /\ section' = section /\ attempt' = attempt
  BY DEF Slots!ReadPriority
<1>4. SiteStays
  BY <1>2, <1>3, TheHour DEF SiteStays
<1>5. Slots!OnADate' /\ Slots!FlowSoFar' /\ Slots!SlotVerdictsAreReal'
  BY <1>1, <1>3, <1>4, TheHour, QuietStep
<1>6. /\ Slots!Date' = Slots!Date /\ (Slots!Slow' <=> Slots!Slow)
      /\ Slots!OfferOf(Slots!Date)' = Slots!OfferOf(Slots!Date)
  BY <1>3 DEF Slots!Date, Slots!Slow, Slots!OfferOf
<1>7. Slots!PanelsRead'
  <2>1. booking = "slot-listing-pricing" /\ ~Slots!Slow =>
          free' = Slots!OfferOf(Slots!Date).free \/ (free' = {} /\ blinks' # {})
    BY <1>1, <1>3, <1>4 DEF Slots!SlotsInv, Slots!PanelsRead, SiteStays
  <2>2. ASSUME ~Slots!Slow, ~again, booking = "slot-listing-pricing"
        PROVE  \/ priority' = Slots!OfferOf(Slots!Date).priority
               \/ priority' = {} /\ blinks' # {} /\ Slots!getDay(Slots!Date) # 0
    <3>1. CASE gone = TRUE
      <4>1. priority' = {}
        BY <1>1, <1>2, <2>2, <3>1, OneRead
      <4>2. <<"priority", 0>> \in blinks'
        BY <1>2, <3>1
      <4> QED
        BY <2>2, <4>1, <4>2
    <3>2. CASE gone = FALSE
      <4>1. priority' = Slots!OfferOf(Slots!Date)["priority"]
        BY <1>1, <1>2, <2>2, <3>2, OneRead
      <4> QED
        BY <4>1
    <3> QED
      BY <3>1, <3>2
  <2>3. (clicked # shown => Slots!Slow) /\ (~Slots!Slow => clicked = Slots!Date /\ shown = Slots!Date)
    BY <1>1 DEF Slots!SlotsInv, Slots!PanelsRead, Slots!Ended
  <2>4. Slots!getDay(Slots!Date)' = Slots!getDay(Slots!Date)
    BY <1>6 DEF Slots!getDay
  <2> HIDE DEF again
  <2> QED
    BY <1>1, <1>3, <1>6, <2>1, <2>2, <2>3, <2>4 DEF Slots!PanelsRead
<1>8. Slots!RetriesSoFar'
  <2>1. Slots!getDay(Slots!Date)' = Slots!getDay(Slots!Date)
    BY <1>6 DEF Slots!getDay
  <2> QED
    BY <1>1, <1>3, <2>1, TheHour DEF Slots!RetriesSoFar, Slots!Booking
<1> QED
  BY <1>5, <1>7, <1>8 DEF Slots!SlotsInv

\* A retry that finds its slot has read what the site lists; one that finds none for the third time
\* has met a panel that is empty, or was gone each time.
LEMMA RetryStep ==
    ASSUME Slots!SlotsInv, Slots!SlotsAssumption, Slots!retryOnMissingSlot
    PROVE  Slots!SlotsInv'
<1> USE DEF Slots!site
<1> DEFINE which == IF section = 1 THEN "free" ELSE "priority"
           read == IF section = 1 THEN free' ELSE priority'
           listed == Slots!OfferOf(Slots!Date)[which]
<1>1. /\ bookingAt = "retry" /\ booking \in Slots!SlotTests
      /\ section \in {1, 2} /\ attempt \in 1 .. 3
      /\ Slots!Booking \/ (booking = "slot-listing-pricing" /\ section = 2 /\ Slots!getDay(Slots!Date) = 0)
      /\ Slots!Sections[section] = which /\ which \in {"free", "priority"}
  BY DEF Slots!retryOnMissingSlot, Slots!SlotsInv, Slots!OnADate, Slots!RetriesSoFar, Slots!Sections
<1>2. PICK gone \in BOOLEAN : Slots!Read(which, gone)
  BY <1>1 DEF Slots!retryOnMissingSlot
<1>3. /\ gone => Slots!OfferOf(shown)[which] # {}
      /\ read = Slots!readSlotTimes(which, gone)
      /\ which = "priority" => free' = free
      /\ blinks' = blinks \union (IF gone THEN {<<which, attempt>>} ELSE {})
  BY <1>1, <1>2 DEF Slots!Read
<1>4. /\ UNCHANGED <<start, unopened, offer, booking, hour, modal, dates, clicked, shown, section,
                     step, payment, mishaps>>
      /\ \/ /\ read = {} /\ attempt < 3 /\ bookingAt' = "again" /\ attempt' = attempt + 1
            /\ UNCHANGED <<verdicts, booked>>
         \/ /\ read # {} \/ attempt = 3
            /\ attempt' = attempt
            /\ \/ ~Slots!Booking /\ bookingAt' = "judge" /\ UNCHANGED <<verdicts, booked>>
               \/ /\ Slots!Booking /\ read # {} /\ bookingAt' = "time-button"
                  /\ UNCHANGED <<verdicts, booked>>
               \/ Slots!Booking /\ read = {} /\ Slots!Judged("fail")
  BY <1>1 DEF Slots!retryOnMissingSlot, Slots!Booking
<1>5. SiteStays
  BY <1>3, <1>4, TheHour DEF SiteStays
<1>6. /\ Slots!Date \in Nat /\ Slots!getDay(Slots!Date)' = Slots!getDay(Slots!Date')
      /\ Slots!Slow' <=> Slots!Slow
  BY <1>1, <1>4, TheDate DEF Slots!getDay, Slots!Slow
<1>7. ~Slots!Slow => IF gone THEN read = {} /\ listed # {} ELSE read = listed
  BY <1>1, <1>3, OneRead
<1>8. ~Slots!Slow /\ read = {} => <<which, attempt>> \in blinks' \/ listed = {}
  BY <1>2, <1>3, <1>7
<1>9. ~Slots!Slow => \A n \in 1 .. attempt - 1 : <<which, n>> \in blinks' \/ listed = {}
  BY <1>1, <1>3 DEF Slots!SlotsInv, Slots!RetriesSoFar
<1>10. ~Slots!Slow /\ read = {} => \A n \in 1 .. attempt : <<which, n>> \in blinks' \/ listed = {}
  BY <1>1, <1>8, <1>9
<1>11. (clicked # shown => Slots!Slow) /\ (~Slots!Slow => clicked = Slots!Date /\ shown = Slots!Date)
  BY <1>1 DEF Slots!SlotsInv, Slots!PanelsRead, Slots!Ended
<1>12. Slots!OfferOf(Slots!Date) = Slots!OfferOf(Slots!Date)
  OBVIOUS
<1>13. booking = "slot-listing-pricing" /\ ~Slots!Slow =>
         free' = Slots!OfferOf(Slots!Date).free \/ (free' = {} /\ blinks' # {})
  <2> SUFFICES ASSUME booking = "slot-listing-pricing", ~Slots!Slow
               PROVE  free' = Slots!OfferOf(Slots!Date).free \/ (free' = {} /\ blinks' # {})
    OBVIOUS
  <2>1. section = 2
    BY <1>1 DEF Slots!Booking
  <2>2. free' = free
    BY <2>1, <1>3
  <2>3. free = Slots!OfferOf(Slots!Date).free \/ (free = {} /\ blinks # {})
    BY <1>1 DEF Slots!SlotsInv, Slots!PanelsRead
  <2> QED
    BY <1>5, <2>2, <2>3 DEF SiteStays
<1> HIDE DEF which, read, listed
<1>14. ASSUME verdicts' = verdicts
       PROVE  /\ Slots!Date' = Slots!Date /\ Slots!getDay(Slots!Date)' = Slots!getDay(Slots!Date)
              /\ Slots!OfferOf(Slots!Date)' = Slots!OfferOf(Slots!Date)
  BY <1>4, <1>14 DEF Slots!Date, Slots!getDay, Slots!OfferOf
<1>15. CASE /\ read = {} /\ attempt < 3 /\ bookingAt' = "again" /\ attempt' = attempt + 1
            /\ UNCHANGED <<verdicts, booked>>
  <2>1. Slots!OnADate' /\ Slots!FlowSoFar' /\ Slots!SlotVerdictsAreReal'
    BY <1>1, <1>4, <1>5, <1>15, TheHour, QuietStep
  <2>2. Slots!PanelsRead'
    BY <1>4, <1>6, <1>11, <1>13, <1>14, <1>15 DEF Slots!PanelsRead
  <2>3. Slots!RetriesSoFar'
    <3>1. attempt' \in 2 .. 3 /\ attempt' - 1 = attempt
      BY <1>1, <1>15
    <3>2. ~Slots!Slow => \A n \in 1 .. attempt' - 1 :
                           <<which, n>> \in blinks' \/ Slots!OfferOf(Slots!Date)[which] = {}
      BY <1>10, <1>15, <3>1 DEF listed
    <3>3. Slots!Sections' = Slots!Sections
      BY DEF Slots!Sections
    <3> QED
      BY <1>1, <1>4, <1>6, <1>14, <1>15, <3>1, <3>2, <3>3
      DEF Slots!RetriesSoFar, Slots!Booking
  <2> QED
    BY <2>1, <2>2, <2>3 DEF Slots!SlotsInv
<1>16. CASE /\ read # {} \/ attempt = 3
            /\ attempt' = attempt /\ ~Slots!Booking /\ bookingAt' = "judge"
            /\ UNCHANGED <<verdicts, booked>>
  <2>1. Slots!OnADate' /\ Slots!FlowSoFar' /\ Slots!SlotVerdictsAreReal'
    BY <1>1, <1>4, <1>5, <1>16, TheHour, QuietStep
  <2>2. section = 2 /\ which = "priority" /\ read = priority'
    BY <1>1, <1>16 DEF which, read
  <2>3. ~Slots!Slow => \/ priority' = Slots!OfferOf(Slots!Date).priority
                       \/ priority' = {} /\ blinks' # {} /\ Slots!AlwaysGone("priority")'
    <3> SUFFICES ASSUME ~Slots!Slow, priority' # Slots!OfferOf(Slots!Date).priority
                 PROVE  priority' = {} /\ blinks' # {} /\ Slots!AlwaysGone("priority")'
      OBVIOUS
    <3>1. listed = Slots!OfferOf(Slots!Date).priority
      BY <2>2 DEF listed
    <3>2. read = {} /\ listed # {}
      BY <1>2, <1>7, <2>2, <3>1
    <3>3. \A n \in 1 .. 3 : <<"priority", n>> \in blinks'
      BY <1>10, <1>16, <2>2, <3>2
    <3> QED
      BY <2>2, <3>2, <3>3 DEF Slots!AlwaysGone
  <2>4. Slots!PanelsRead'
    BY <1>4, <1>6, <1>11, <1>13, <1>14, <1>16, <2>3 DEF Slots!PanelsRead
  <2>5. Slots!RetriesSoFar'
    BY <1>1, <1>4, <1>16 DEF Slots!RetriesSoFar, Slots!Booking
  <2> QED
    BY <2>1, <2>4, <2>5 DEF Slots!SlotsInv
<1>17. CASE /\ read # {} \/ attempt = 3
            /\ attempt' = attempt /\ Slots!Booking /\ bookingAt' = "time-button"
            /\ UNCHANGED <<verdicts, booked>>
  <2>1. Slots!OnADate' /\ Slots!FlowSoFar' /\ Slots!SlotVerdictsAreReal'
    BY <1>1, <1>4, <1>5, <1>17, TheHour, QuietStep
  <2>2. Slots!PanelsRead'
    BY <1>4, <1>6, <1>11, <1>13, <1>14, <1>17 DEF Slots!PanelsRead
  <2>3. Slots!RetriesSoFar'
    BY <1>1, <1>4, <1>17 DEF Slots!RetriesSoFar
  <2> QED
    BY <2>1, <2>2, <2>3 DEF Slots!SlotsInv
<1>18. CASE attempt = 3 /\ attempt' = attempt /\ Slots!Booking /\ read = {} /\ Slots!Judged("fail")
  <2>1. FlowFailedRightly'
    <3>1. CASE Slots!Slow
      BY <1>6, <3>1 DEF FlowFailedRightly, Slots!Lost
    <3>2. CASE ~Slots!Slow
      <4>1. (\A n \in 1 .. 3 : <<which, n>> \in blinks') \/ listed = {}
        BY <1>10, <1>18, <3>2
      <4>2. listed = Slots!OfferOf(dates[1])[which]
        BY <1>1, <1>18, TheDate DEF listed
      <4>3. Slots!OfferOf(dates[1])' = Slots!OfferOf(dates[1])
        BY <1>4 DEF Slots!OfferOf
      <4> QED
        BY <1>1, <4>1, <4>2, <4>3 DEF FlowFailedRightly, Slots!AlwaysGone
    <3> QED
      BY <3>1, <3>2
  <2>2. \A date : ClosedRightly("fail", date)'
    BY DEF ClosedRightly
  <2>3. \A date : PricedRightly("fail", date)'
    BY <1>4, <1>18 DEF PricedRightly, Slots!Booking
  <2> QED
    BY <1>1, <1>4, <1>5, <1>18, <2>1, <2>2, <2>3, VerdictStep
<1> QED
  BY <1>4, <1>15, <1>16, <1>17, <1>18

\* The verdict on a date's prices is about what the site lists.
LEMMA JudgeStep ==
    ASSUME Slots!SlotsInv, Slots!SlotsAssumption, Slots!Judge
    PROVE  Slots!SlotsInv'
<1> USE DEF Slots!site, Slots!reading
<1>1. bookingAt = "judge" /\ booking \in Slots!SlotTests /\ ~Slots!Booking /\ ~payment
  BY DEF Slots!Judge, Slots!SlotsInv, Slots!RetriesSoFar, Slots!FlowSoFar, Slots!Ended
<1>2. UNCHANGED <<start, unopened, offer, booking, hour, modal, dates, clicked, shown, section, attempt,
                  free, priority, blinks, step, payment, mishaps>>
  BY DEF Slots!Judge
<1>3. SiteStays
  BY <1>2, TheHour DEF SiteStays
<1>14. PICK verdict, date :
          /\ date = Slots!Date
          /\ verdict = IF booking = "slot-availability-snapshot" THEN Slots!SlotAvailabilitySnapshot
                       ELSE IF Slots!getDay(Slots!Date) = 0 THEN Slots!checkSunday
                       ELSE Slots!checkWeekday
  OBVIOUS
<1> DEFINE listed == Slots!OfferOf(Slots!Date)
           Paid == {m \in Slots!Minutes : \/ 420 <= m /\ m <= 540
                                          \/ 1140 <= m /\ m <= 1260}
<1>4. Slots!Judged(verdict)
  BY <1>14 DEF Slots!Judge
<1>5. booking = "slot-availability-snapshot" => verdict = "pass"
  BY <1>14 DEF Slots!SlotAvailabilitySnapshot
<1>6. booking = "slot-listing-pricing" =>
        verdict = IF Slots!getDay(Slots!Date) = 0 THEN Slots!checkSunday ELSE Slots!checkWeekday
  BY <1>14
<1>7. booking \in {"slot-availability-snapshot", "slot-listing-pricing"}
  BY <1>1 DEF Slots!SlotTests, Slots!createPortalAutomationTests, Slots!Booking
<1>8. verdict \in {"pass", "fail"}
  BY <1>5, <1>6, <1>7 DEF Slots!checkSunday, Slots!checkWeekday
<1>9. Slots!KeepsTheRule(Slots!Date) <=>
        IF Slots!getDay(Slots!Date) = 0 THEN listed.free = {} /\ listed.priority # {}
        ELSE listed.free \intersect Paid = {} /\ listed.priority \subseteq Paid
  BY DEF Slots!KeepsTheRule
<1>10. listed.free \subseteq Slots!Minutes /\ listed.priority \subseteq Slots!Minutes
  <2>1. Slots!Date \in Nat /\ offer \in [{1, 2} -> Offers]
    BY <1>1, TheDate DEF Slots!SlotsInv, Slots!OnADate
  <2>2. (Slots!Date % 2) + 1 \in {1, 2}
    BY <2>1
  <2>3. listed \in [free : SUBSET Slots!Minutes, priority : SUBSET Slots!Minutes]
    BY <2>1, <2>2 DEF Slots!OfferOf, Slots!SlotsAssumption
  <2> QED
    BY <2>3
<1>11. \A m \in Slots!Minutes : Slots!isPaidWindow(m) <=> m \in Paid
  BY DEF Slots!isPaidWindow, Slots!Minutes
<1> HIDE DEF listed, Paid
<1>12. ASSUME booking = "slot-listing-pricing", ~Slots!Slow
       PROVE  /\ verdict = "fail" => ~Slots!KeepsTheRule(Slots!Date) \/ Slots!AlwaysGone("priority")
              /\ verdict = "pass" => Slots!KeepsTheRule(Slots!Date) \/ blinks # {}
  <2>1. free = listed.free \/ (free = {} /\ blinks # {})
    BY <1>1, <1>12 DEF Slots!SlotsInv, Slots!PanelsRead, listed
  <2>2. \/ priority = listed.priority
        \/ /\ priority = {} /\ blinks # {}
           /\ Slots!getDay(Slots!Date) = 0 => Slots!AlwaysGone("priority")
    BY <1>1, <1>12 DEF Slots!SlotsInv, Slots!PanelsRead, listed
  <2>3. CASE Slots!getDay(Slots!Date) = 0
    <3>1. verdict = IF free # {} \/ priority = {} THEN "fail" ELSE "pass"
      BY <1>6, <1>12, <2>3 DEF Slots!checkSunday
    <3> QED
      BY <1>9, <2>1, <2>2, <2>3, <3>1
  <2>4. CASE Slots!getDay(Slots!Date) # 0
    <3>1. verdict = IF \/ \E minutes \in free : Slots!isPaidWindow(minutes)
                       \/ \E minutes \in priority : ~Slots!isPaidWindow(minutes)
                    THEN "fail" ELSE "pass"
      BY <1>6, <1>12, <2>4 DEF Slots!checkWeekday
    <3>2. free \subseteq listed.free /\ priority \subseteq listed.priority
      BY <2>1, <2>2
    <3>7. /\ \A m \in free : Slots!isPaidWindow(m) <=> m \in Paid
          /\ \A m \in priority : Slots!isPaidWindow(m) <=> m \in Paid
      BY <1>10, <1>11, <3>2
    <3>3. (\E minutes \in free : Slots!isPaidWindow(minutes)) <=> free \intersect Paid # {}
      BY <3>7
    <3>4. (\E minutes \in priority : ~Slots!isPaidWindow(minutes)) <=> ~(priority \subseteq Paid)
      BY <3>7
    <3>5. verdict = "fail" => ~Slots!KeepsTheRule(Slots!Date)
      BY <1>9, <2>4, <3>1, <3>2, <3>3, <3>4
    <3>6. verdict = "pass" /\ blinks = {} => Slots!KeepsTheRule(Slots!Date)
      BY <1>9, <2>1, <2>2, <2>4, <3>1, <3>3, <3>4
    <3> QED
      BY <3>5, <3>6
  <2> QED
    BY <2>3, <2>4
<1>13. ClosedRightly(verdict, date)'
  BY <1>8 DEF ClosedRightly
<1>15. PricedRightly(verdict, date)
  BY <1>12, <1>14 DEF PricedRightly
<1>16. PricedRightly(verdict, date)'
  <2>1. ClosedRightly(verdict, date)
    BY <1>8 DEF ClosedRightly
  <2> QED
    BY <1>3, <1>15, <2>1, VerdictsStay
<1>17. ~payment'
  BY <1>1, <1>2
<1>18. verdict = "fail" => booking = "slot-listing-pricing"
  BY <1>5, <1>7
<1> QED
  BY <1>1, <1>2, <1>3, <1>4, <1>8, <1>13, <1>14, <1>16, <1>17, <1>18, VerdictStep

LEMMA TimeButtonStep ==
    ASSUME Slots!SlotsInv, Slots!SlotsAssumption, Slots!clickTimeButton
    PROVE  Slots!SlotsInv'
<1> USE DEF Slots!site, Slots!reading
<1>1. bookingAt = "time-button" /\ Slots!Booking /\ ~payment /\ booking \in Slots!SlotTests
  BY DEF Slots!clickTimeButton, Slots!SlotsInv, Slots!FlowSoFar, Slots!OnADate, Slots!Ended
<1>2. UNCHANGED <<start, unopened, offer, booking, hour, modal, dates, verdicts, clicked, shown,
                  section, attempt, free, priority, blinks, payment>>
  BY DEF Slots!clickTimeButton
<1>3. CASE Slots!Throw("slot-taken")
  <2>1. bookingAt' = "done" /\ booked' = "threw" /\ mishaps' = mishaps \union {"slot-taken"}
    BY <1>3 DEF Slots!Throw, Slots!Over
  <2>2. SiteStays
    BY <1>2, <2>1, TheHour DEF SiteStays
  <2>3. Slots!Lost'
    BY <2>1 DEF Slots!Lost
  <2> QED
    BY <1>1, <1>2, <2>1, <2>2, <2>3, TheHour, LostStep
<1>4. CASE bookingAt' = "script" /\ step' = 1 /\ UNCHANGED <<booked, mishaps>>
  <2>1. SiteStays
    BY <1>2, <1>4, TheHour DEF SiteStays
  <2>2. (step \in 1 .. Len(Slots!Probes))'
    <3>1. section \in {1, 2}
      BY TheHour
    <3>2. Slots!Probes' = IF section = 1 THEN Slots!AfterTimeButton.free ELSE Slots!AfterTimeButton.priority
      BY <1>1, <1>2, <3>1 DEF Slots!Probes, Slots!Sections, Slots!AfterTimeButton, Slots!SlotTests
    <3>3. Len(Slots!AfterTimeButton.free) = 1 /\ Len(Slots!AfterTimeButton.priority) \in Nat \ {0}
      BY FlowsEndInPayment DEF LastIsPayment
    <3> QED
      BY <1>4, <3>2, <3>3
  <2>3. Slots!OnADate' /\ Slots!FlowSoFar' /\ Slots!SlotVerdictsAreReal'
    BY <1>1, <1>2, <1>4, <2>1, <2>2, TheHour, QuietStep
  <2>4. Slots!PanelsRead' /\ Slots!RetriesSoFar'
    BY <1>1, <1>2, <1>4
    DEF Slots!SlotsInv, Slots!PanelsRead, Slots!RetriesSoFar, Slots!Ended, Slots!Slow, Slots!Booking,
        Slots!Date
  <2> QED
    BY <2>3, <2>4 DEF Slots!SlotsInv
<1> QED
  BY <1>1, <1>3, <1>4 DEF Slots!clickTimeButton

\* Time passes, and the modal opens, between two clicks; the panels of a date may come late.
LEMMA SiteStep ==
    ASSUME Slots!SlotsInv, Slots!SlotsAssumption,
           Slots!Tick \/ Slots!ModalAppears \/ Slots!PanelArrives
    PROVE  Slots!SlotsInv'
<1> USE DEF Slots!site, Slots!reading
<1>1. /\ UNCHANGED <<start, unopened, offer, booking, bookingAt, dates, verdicts, clicked, section,
                     attempt, free, priority, blinks, step, payment, booked, mishaps>>
      /\ bookingAt # "done"
  BY DEF Slots!Tick, Slots!ModalAppears, Slots!PanelArrives
<1>2. SiteStays
  BY <1>1, TheHour DEF SiteStays, Slots!Tick, Slots!ModalAppears, Slots!PanelArrives
<1>3. modal' \in {"no", "late", "open"}
  BY TheHour DEF Slots!Tick, Slots!ModalAppears, Slots!PanelArrives
<1>4. /\ Slots!Date' = Slots!Date /\ Slots!OfferOf(Slots!Date)' = Slots!OfferOf(Slots!Date)
      /\ Slots!getDay(Slots!Date)' = Slots!getDay(Slots!Date) /\ Slots!Probes' = Slots!Probes
      /\ (Slots!Slow' <=> Slots!Slow)
  BY <1>1 DEF Slots!Date, Slots!OfferOf, Slots!getDay, Slots!Probes, Slots!Script, Slots!SlotTests,
              Slots!Slow, Slots!Sections
<1>5. shown' = shown \/ Slots!Slow
  BY DEF Slots!Tick, Slots!ModalAppears, Slots!PanelArrives, Slots!SlotsInv, Slots!PanelsRead, Slots!Ended
<1>6. Slots!PanelsRead'
  BY <1>1, <1>4, <1>5
  DEF Slots!SlotsInv, Slots!PanelsRead, Slots!Ended, Slots!AlwaysGone
<1>7. Slots!RetriesSoFar'
  BY <1>1, <1>4 DEF Slots!SlotsInv, Slots!RetriesSoFar, Slots!Booking, Slots!Sections
<1>8. Slots!SlotVerdictsAreReal'
  BY <1>1, <1>2, NoVerdict
<1>9. Slots!FlowSoFar'
  BY <1>1, <1>4 DEF Slots!SlotsInv, Slots!FlowSoFar, Slots!Ended, Slots!Booking, Slots!SlotTests
<1>10. Slots!OnADate'
  <2>1. Slots!SiteDates(start)' = Slots!SiteDates(start)
    BY <1>1 DEF Slots!SiteDates
  <2>2. hour' \in Nat /\ start' <= hour'
    BY <1>2 DEF Slots!SlotsInv, Slots!OnADate, SiteStays, Slots!SlotsAssumption
  <2>3. bookingAt = "login" => hour' = hour
    <3>1. bookingAt = "login" => ~Slots!Tick
      BY DEF Slots!Tick
    <3> QED
      BY <3>1 DEF Slots!ModalAppears, Slots!PanelArrives
  <2> QED
    BY <1>1, <1>3, <2>1, <2>2, <2>3
    DEF Slots!SlotsInv, Slots!OnADate, Slots!Ended, Slots!Booking, Slots!SlotTests
<1> QED
  BY <1>6, <1>7, <1>8, <1>9, <1>10 DEF Slots!SlotsInv

\* Where a script is, and whether its probe is the one for the payment screen.
LEMMA TheProbe ==
    ASSUME Slots!SlotsInv, Slots!SlotsAssumption, bookingAt = "script"
    PROVE  /\ step \in 1 .. Len(Slots!Probes) /\ Len(Slots!Probes) \in Nat /\ ~payment
           /\ booking \in Slots!SlotTests => Slots!Booking
           /\ ~Slots!Booking => booking \notin Slots!SlotTests
           /\ Slots!Probes[step] = "Razorpay" <=>
                step = Len(Slots!Probes) /\ (Slots!Booking => section = 2)
<1>1. /\ step \in 1 .. Len(Slots!Probes) /\ ~payment
      /\ Slots!Booking \/ booking \notin Slots!SlotTests
  BY DEF Slots!SlotsInv, Slots!FlowSoFar, Slots!Ended
<1>2. Slots!Booking => booking \in Slots!SlotTests
  BY DEF Slots!Booking, Slots!SlotTests, Slots!createPortalAutomationTests
<1>3. CASE ~Slots!Booking
  <2>1. Slots!Probes \in {Slots!PremiumUpgrade, Slots!DevelopmentReportDownload}
    BY <1>1, <1>3 DEF Slots!Probes, Slots!Script
  <2>2. LastIsPayment(Slots!Probes)
    BY <2>1, FlowsEndInPayment
  <2> QED
    BY <1>1, <1>3, <2>2 DEF LastIsPayment
<1>4. CASE Slots!Booking /\ section = 2
  <2>1. Slots!Probes = Slots!AfterTimeButton.priority
    BY <1>2, <1>4 DEF Slots!Probes, Slots!Sections, Slots!AfterTimeButton
  <2>2. LastIsPayment(Slots!Probes)
    BY <2>1, FlowsEndInPayment
  <2> QED
    BY <1>1, <1>2, <1>4, <2>2 DEF LastIsPayment
<1>5. CASE Slots!Booking /\ section = 1
  <2>1. Slots!Probes = <<"Schedule-Interview">>
    BY <1>2, <1>5 DEF Slots!Probes, Slots!Sections, Slots!AfterTimeButton
  <2>2. step = 1 /\ Len(Slots!Probes) = 1 /\ Slots!Probes[1] = "Schedule-Interview"
    BY <1>1, <2>1
  <2> QED
    BY <1>1, <1>2, <1>5, <2>2
<1> QED
  BY <1>3, <1>4, <1>5, TheHour

LEMMA ProbeMissingStep ==
    ASSUME Slots!SlotsInv, Slots!SlotsAssumption, Slots!ProbeMissing
    PROVE  Slots!SlotsInv'
<1> USE DEF Slots!site, Slots!reading
<1>1. /\ bookingAt = "script" /\ mishaps' = mishaps \union {"layout"}
      /\ UNCHANGED <<start, unopened, offer, booking, hour, modal, dates, clicked, shown, section,
                     attempt, free, priority, blinks, step, payment>>
  BY DEF Slots!ProbeMissing
<1>2. SiteStays
  BY <1>1, TheHour DEF SiteStays
<1>3. Slots!Lost'
  BY <1>1 DEF Slots!Lost
<1>4. CASE bookingAt' = "done" /\ booked' = "threw" /\ verdicts' = verdicts
  BY <1>1, <1>2, <1>3, <1>4, TheHour, LostStep
<1>5. CASE /\ bookingAt' = "done" /\ booked' = "failed" /\ verdicts' = verdicts
           /\ booking \notin Slots!SlotTests
  BY <1>1, <1>2, <1>3, <1>5, TheHour, LostStep
<1>6. CASE Slots!Booking /\ Slots!Judged("fail")
  <2>1. booking \in Slots!SlotTests /\ booking # "slot-listing-pricing"
    BY <1>6 DEF Slots!Booking, Slots!SlotTests, Slots!createPortalAutomationTests
  <2>2. FlowFailedRightly' /\ \A date : ClosedRightly("fail", date)'
    BY <1>3 DEF FlowFailedRightly, ClosedRightly
  <2>3. \A date : PricedRightly("fail", date)'
    BY <1>1, <2>1 DEF PricedRightly
  <2> QED
    BY <1>1, <1>2, <1>6, <2>1, <2>2, <2>3, TheProbe, VerdictStep
<1> QED
  BY <1>1, <1>4, <1>5, <1>6, TheProbe DEF Slots!ProbeMissing, Slots!Over, Slots!Booking

LEMMA ProbeSeenStep ==
    ASSUME Slots!SlotsInv, Slots!SlotsAssumption, Slots!ProbeSeen
    PROVE  Slots!SlotsInv'
<1> USE DEF Slots!site
<1>1. /\ bookingAt = "script"
      /\ payment' = (payment \/ Slots!Probes[step] = "Razorpay")
      /\ UNCHANGED <<start, unopened, offer, booking, hour, modal, dates, clicked, shown, free, priority,
                     blinks, mishaps>>
  BY DEF Slots!ProbeSeen
<1>2. SiteStays
  BY <1>1, TheHour DEF SiteStays
<1>3. ~payment /\ step \in 1 .. Len(Slots!Probes) /\ Len(Slots!Probes) \in Nat
  BY <1>1, TheProbe
<1>4. payment' <=> step = Len(Slots!Probes) /\ (Slots!Booking => section = 2)
  BY <1>1, <1>3, TheProbe
<1>5. clicked # shown => Slots!Slow
  BY <1>1 DEF Slots!SlotsInv, Slots!PanelsRead, Slots!Ended
<1>6. Slots!Slow' <=> Slots!Slow
  BY <1>1 DEF Slots!Slow
<1>7. booking \in Slots!SlotTests /\ ~Slots!Slow => clicked = Slots!Date /\ shown = Slots!Date
  BY <1>1 DEF Slots!SlotsInv, Slots!PanelsRead
<1>8. CASE step < Len(Slots!Probes)
  <2>1. /\ step' = step + 1
        /\ UNCHANGED <<bookingAt, verdicts, section, attempt, booked>>
    BY <1>8 DEF Slots!ProbeSeen
  <2>2. Slots!Probes' = Slots!Probes
    BY <1>1, <2>1 DEF Slots!Probes, Slots!Script, Slots!SlotTests, Slots!Sections
  <2>3. (step \in 1 .. Len(Slots!Probes))' /\ (payment' => payment)
    BY <1>1, <1>3, <1>4, <1>8, <2>1, <2>2
  <2>4. Slots!OnADate' /\ Slots!FlowSoFar' /\ Slots!SlotVerdictsAreReal'
    BY <1>1, <1>2, <2>1, <2>3, TheHour, TheProbe, QuietStep
  <2>5. Slots!Date' = Slots!Date
    BY <1>1, <2>1 DEF Slots!Date
  <2>6. Slots!PanelsRead' /\ Slots!RetriesSoFar'
    BY <1>1, <1>5, <1>6, <1>7, <2>1, <2>5
    DEF Slots!SlotsInv, Slots!PanelsRead, Slots!RetriesSoFar, Slots!SlotTests
  <2> QED
    BY <2>4, <2>6 DEF Slots!SlotsInv
<1>9. CASE ~(step < Len(Slots!Probes))
  <2>1. Slots!Passed /\ step' = step /\ step = Len(Slots!Probes)
    BY <1>3, <1>9 DEF Slots!ProbeSeen
  <2>2. CASE ~Slots!Booking
    <3>1. /\ bookingAt' = "done" /\ booked' = "passed"
          /\ UNCHANGED <<verdicts, section, attempt>>
      BY <2>1, <2>2 DEF Slots!Passed, Slots!Over, Slots!Booking
    <3>2. payment' /\ booking \notin Slots!SlotTests
      BY <1>1, <1>4, <2>1, <2>2, TheProbe
    <3>3. Slots!OnADate'
      <4>1. Slots!SiteDates(start)' = Slots!SiteDates(start)
        BY <1>1 DEF Slots!SiteDates
      <4> QED
        BY <1>1, <3>1, <3>2, <4>1
        DEF Slots!SlotsInv, Slots!OnADate, Slots!Ended, Slots!Booking, Slots!SlotTests
    <3>4. Slots!PanelsRead' /\ Slots!RetriesSoFar'
      BY <3>1, TheHour DEF Slots!PanelsRead, Slots!RetriesSoFar, Slots!Ended
    <3>5. Slots!FlowSoFar'
      BY <1>1, <3>1, <3>2
      DEF Slots!FlowSoFar, Slots!Ended, Slots!SlotTests, Slots!createPortalAutomationTests
    <3>6. Slots!VerdictsOnDates'
      <4>1. booking # "slot-listing-pricing"
        BY <3>2 DEF Slots!SlotTests, Slots!createPortalAutomationTests
      <4>2. Slots!SiteDates(start)' = Slots!SiteDates(start) /\ Slots!SiteDates(hour)' = Slots!SiteDates(hour)
        BY <1>1 DEF Slots!SiteDates
      <4> QED
        BY <1>1, <3>1, <4>1, <4>2
        DEF Slots!SlotsInv, Slots!SlotVerdictsAreReal, Slots!VerdictsOnDates
    <3>7. Slots!SlotVerdictsAreReal'
      BY <3>1, <3>2, <3>6 DEF Slots!SlotVerdictsAreReal
    <3> QED
      BY <3>3, <3>4, <3>5, <3>7 DEF Slots!SlotsInv
  <2>3. CASE Slots!Booking /\ section = 1
    <3>1. /\ bookingAt' = "retry" /\ section' = 2 /\ attempt' = 1
          /\ UNCHANGED <<verdicts, booked>>
      BY <2>1, <2>3 DEF Slots!Passed, Slots!Booking
    <3>2. payment' => payment
      BY <1>1, <1>3, <1>4, <2>3
    <3>3. booking \in Slots!SlotTests
      BY <2>3 DEF Slots!Booking, Slots!SlotTests, Slots!createPortalAutomationTests
    <3>4. Slots!OnADate' /\ Slots!FlowSoFar' /\ Slots!SlotVerdictsAreReal'
      BY <1>1, <1>2, <3>1, <3>2, <3>3, TheHour, QuietStep
    <3>5. Slots!Date' = Slots!Date
      BY <1>1, <3>1 DEF Slots!Date
    <3>6. Slots!PanelsRead'
      BY <1>1, <1>5, <1>6, <1>7, <2>3, <3>1, <3>3, <3>5 DEF Slots!PanelsRead, Slots!Booking
    <3>7. Slots!RetriesSoFar'
      BY <1>1, <2>3, <3>1 DEF Slots!RetriesSoFar, Slots!Booking
    <3> QED
      BY <3>4, <3>6, <3>7 DEF Slots!SlotsInv
  <2>4. CASE Slots!Booking /\ section = 2
    <3>1. Slots!Judged("pass") /\ UNCHANGED <<section, attempt>>
      BY <2>1, <2>4 DEF Slots!Passed, Slots!Booking
    <3>2. payment'
      BY <1>4, <2>1, <2>4
    <3>3. booking \in Slots!SlotTests /\ booking # "slot-listing-pricing"
      BY <2>4 DEF Slots!Booking, Slots!SlotTests, Slots!createPortalAutomationTests
    <3>4. \A date : ClosedRightly("pass", date)'
      BY DEF ClosedRightly
    <3>5. \A date : PricedRightly("pass", date)'
      BY <1>1, <3>3 DEF PricedRightly
    <3> QED
      BY <1>1, <1>2, <2>4, <3>1, <3>2, <3>3, <3>4, <3>5, VerdictStep
  <2> QED
    BY <2>2, <2>3, <2>4, TheHour
<1> QED
  BY <1>8, <1>9

\* The invariant and its place in every step.
LEMMA SlotsStep ==
    ASSUME Slots!SlotsInv, Slots!SlotsAssumption, [Slots!Next]_Slots!vars
    PROVE  Slots!SlotsInv'
<1>1. CASE UNCHANGED Slots!vars
  <2>1. /\ Slots!Date' = Slots!Date /\ Slots!Probes' = Slots!Probes
        /\ \A date : Slots!OfferOf(date)' = Slots!OfferOf(date)
    BY <1>1 DEF Slots!vars, Slots!Date, Slots!OfferOf, Slots!Probes, Slots!Script, Slots!SlotTests,
                Slots!Sections
  <2>2. /\ (Slots!Ended' <=> Slots!Ended) /\ (Slots!Slow' <=> Slots!Slow) /\ (Slots!Lost' <=> Slots!Lost)
        /\ (Slots!Booking' <=> Slots!Booking)
        /\ \A which : Slots!AlwaysGone(which)' <=> Slots!AlwaysGone(which)
        /\ \A date : Slots!KeepsTheRule(date)' <=> Slots!KeepsTheRule(date)
        /\ Slots!SiteDates(start)' = Slots!SiteDates(start) /\ Slots!SiteDates(hour)' = Slots!SiteDates(hour)
        /\ Slots!getDay(Slots!Date)' = Slots!getDay(Slots!Date)
    BY <1>1, <2>1
    DEF Slots!vars, Slots!Ended, Slots!Slow, Slots!Lost, Slots!Booking, Slots!AlwaysGone,
        Slots!KeepsTheRule, Slots!SiteDates, Slots!getDay
  <2>3. Slots!OnADate'
    BY <1>1, <2>2 DEF Slots!vars, Slots!SlotsInv, Slots!OnADate, Slots!SlotTests
  <2>4. Slots!PanelsRead'
    BY <1>1, <2>1, <2>2 DEF Slots!vars, Slots!SlotsInv, Slots!PanelsRead, Slots!SlotTests
  <2>5. Slots!RetriesSoFar'
    BY <1>1, <2>1, <2>2 DEF Slots!vars, Slots!SlotsInv, Slots!RetriesSoFar, Slots!SlotTests, Slots!Sections
  <2>6. Slots!FlowSoFar'
    BY <1>1, <2>1, <2>2 DEF Slots!vars, Slots!SlotsInv, Slots!FlowSoFar, Slots!SlotTests
  <2>7. Slots!SlotVerdictsAreReal'
    BY <1>1, <2>1, <2>2 DEF Slots!vars, Slots!SlotsInv, Slots!SlotVerdictsAreReal, Slots!VerdictsOnDates
  <2> QED
    BY <2>3, <2>4, <2>5, <2>6, <2>7 DEF Slots!SlotsInv
<1>2. CASE Slots!Next
  BY <1>2, BookingLoginStep, ScriptLoginStep, LookStep, SelectStep, ReadFreeStep, ReadPriorityStep,
     RetryStep, SelectAgainStep, JudgeStep, TimeButtonStep, ProbeSeenStep, ProbeMissingStep, SiteStep
  DEF Slots!Next
<1> QED
  BY <1>1, <1>2

\* At any time of any day, whatever the site lists and however late or flickering it is, a verdict of
\* the slot checks is about the site (retryOnMissingSlot, upcomingDates, SlotBookingFlowTest.run).
THEOREM SlotsAreJudged == Slots!Spec => []SlotVerdictsAreReal
<1>1. Slots!SlotsInv => SlotVerdictsAreReal
  BY DEF Slots!SlotsInv, SlotVerdictsAreReal
<1> QED
  BY <1>1, TimesAssumption, SlotsStart, SlotsStep, PTL DEF Slots!Spec

(***************************************************************************)
(* Reports: any rows, any number of requests, redeliveries and faults      *)
(***************************************************************************)
TableNames == {"generatedFiles", "results", "fileResults", "findings"}

\* One table or two, each of the known ones.
LEMMA TablesKnown ==
    ASSUME NEW k
    PROVE  /\ Len(Docs!Tables(k)) \in {1, 2}
           /\ DOMAIN Docs!Tables(k) = 1 .. Len(Docs!Tables(k))
           /\ \A i \in DOMAIN Docs!Tables(k) : Docs!Tables(k)[i] \in TableNames
           /\ \A i, j \in DOMAIN Docs!Tables(k) : i # j => Docs!Tables(k)[i] # Docs!Tables(k)[j]
<1>1. \/ Docs!Tables(k) = <<"generatedFiles", "results">>
      \/ Docs!Tables(k) = <<"fileResults">>
      \/ Docs!Tables(k) = <<"findings">>
      \/ Docs!Tables(k) = <<"results">>
  BY DEF Docs!Tables
<1> QED
  BY <1>1 DEF TableNames

\* The run's row is read first, then its tables.
LEMMA ReadsKnown ==
    ASSUME NEW k
    PROVE  /\ Len(Docs!Reads(k)) = Len(Docs!Tables(k)) + 1
           /\ Docs!Reads(k)[1] = "run"
           /\ \A i \in DOMAIN Docs!Tables(k) : Docs!Reads(k)[i + 1] = Docs!Tables(k)[i]
           /\ \A i \in 2 .. Len(Docs!Reads(k)) : /\ Docs!Reads(k)[i] \in TableNames
                                                 /\ Docs!Reads(k)[i] # "run"
<1> DEFINE T == Docs!Tables(k)
<1>1. /\ Len(T) \in Nat /\ DOMAIN T = 1 .. Len(T)
      /\ \A i \in DOMAIN T : T[i] \in TableNames
  BY TablesKnown
<1>2. T \in Seq(TableNames)
  <2>1. \/ T = <<"generatedFiles", "results">> \/ T = <<"fileResults">>
        \/ T = <<"findings">> \/ T = <<"results">>
    BY DEF Docs!Tables
  <2>2. \A a, b \in TableNames : <<a>> \in Seq(TableNames) /\ <<a, b>> \in Seq(TableNames)
    OBVIOUS
  <2>3. {"generatedFiles", "results", "fileResults", "findings"} \subseteq TableNames
    BY DEF TableNames
  <2> QED
    BY <2>1, <2>2, <2>3
<1> HIDE DEF T
<1>3. <<"run">> \in Seq({"run"} \cup TableNames) /\ T \in Seq({"run"} \cup TableNames)
  BY <1>2
<1>4. /\ Len(<<"run">> \o T) = 1 + Len(T)
      /\ \A i \in 1 .. 1 + Len(T) :
            (<<"run">> \o T)[i] = IF i <= 1 THEN <<"run">>[i] ELSE T[i - 1]
  BY <1>3, ConcatProperties
<1>5. Docs!Reads(k) = <<"run">> \o T
  BY DEF Docs!Reads, T
<1>6. /\ Len(Docs!Reads(k)) = Len(T) + 1 /\ Docs!Reads(k)[1] = "run"
      /\ \A i \in 1 .. Len(T) : Docs!Reads(k)[i + 1] = T[i]
      /\ \A i \in 2 .. Len(T) + 1 : Docs!Reads(k)[i] = T[i - 1]
  BY <1>1, <1>4, <1>5
<1>7. ASSUME NEW i \in 2 .. Len(Docs!Reads(k))
      PROVE  Docs!Reads(k)[i] \in TableNames
  <2>1. i - 1 \in 1 .. Len(T)
    BY <1>1, <1>6
  <2> QED
    BY <1>1, <1>6, <2>1
<1>8. "run" \notin TableNames
  BY DEF TableNames
<1> QED
  BY <1>1, <1>6, <1>7, <1>8 DEF T

\* Two reads or three.
LEMMA ReadsAreFew == ASSUME NEW k PROVE Len(Docs!Reads(k)) \in {2, 3}
<1>1. Len(Docs!Reads(k)) = Len(Docs!Tables(k)) + 1
  BY ReadsKnown
<1>2. Len(Docs!Tables(k)) = 1 \/ Len(Docs!Tables(k)) = 2
  BY TablesKnown
<1>3. \A n : n = 1 \/ n = 2 => n + 1 \in {2, 3}
  OBVIOUS
<1> QED
  BY <1>1, <1>2, <1>3

\* A run that completed, and a copy that is whole, are so by the same tables.
LEMMA WholeCopies ==
    ASSUME NEW copy, NEW other,
           \A t \in TableNames : copy[t] = other[t]
    PROVE  Docs!Whole(copy) => Docs!Whole(other)
  BY TablesKnown DEF Docs!Whole

\* Nothing is executed, requested or stored.
LEMMA DocsStart == Docs!Init => Docs!ReportsInv
<1> SUFFICES ASSUME Docs!Init PROVE Docs!ReportsInv
  OBVIOUS
<1> USE DEF Docs!Init
<1>1. plan \in Seq({plan[i] : i \in 1 .. Len(plan)})
  BY TablesAssumption DEF Docs!RowsAssumption
<1>2. Len(plan) \in Nat
  BY <1>1
<1>3. Docs!Nothing \in Docs!Copies /\ 1 \in 1 .. Len(Docs!Reads(kind)) + 1
  BY <1>2, ReadsKnown, TablesKnown DEF Docs!Nothing, Docs!Copies
<1>4. Docs!TypeOK
  BY <1>3 DEF Docs!TypeOK, Docs!Statuses, Docs!Idle, Docs!NoFile
<1>5. \A q \in Requests : Docs!RequestSoFar(q)
  BY ReadsKnown, TablesKnown, TablesAssumption
  DEF Docs!RequestSoFar, Docs!Idle, Docs!NoFile, Docs!RowsAssumption
<1>6. Docs!UndisturbedSoFar
  BY TablesAssumption
  DEF Docs!UndisturbedSoFar, Docs!Idle, Docs!NoFile, Docs!RowsAssumption, Docs!Alone
<1>7. Docs!NothingUnsaved
  BY DEF Docs!NothingUnsaved, Docs!Nothing
<1> QED
  BY <1>4, <1>5, <1>6, <1>7 DEF Docs!ReportsInv, Docs!WholeTables, Docs!CompletedIsSaved,
     Docs!Nothing, Docs!NoFile

\* The run's row and tables, read and written by their own names.
LEMMA PlanFacts ==
    ASSUME Docs!TypeOK
    PROVE  /\ Len(plan) \in Nat /\ plan \in Seq({plan[i] : i \in 1 .. Len(plan)})
           /\ saved \in [TableNames -> 0 .. Len(plan)]
           /\ \A i \in DOMAIN Docs!Tables(kind) : Docs!Tables(kind)[i] \in TableNames
<1>1. plan \in Seq({plan[i] : i \in 1 .. Len(plan)})
  BY TablesAssumption DEF Docs!RowsAssumption, Docs!TypeOK
<1> QED
  BY <1>1, TablesKnown DEF Docs!TypeOK, Docs!Copies, Docs!Nothing, TableNames

\* The rows of a run are saved: a table that is whole stays whole.
LEMMA RowsSaved == ASSUME Docs!ReportsInv, Docs!Save PROVE Docs!ReportsInv'
<1>1. PICK i \in DOMAIN Docs!Tables(kind) :
        /\ saved[Docs!Tables(kind)[i]] < Len(plan)
        /\ saved' = [saved EXCEPT ![Docs!Tables(kind)[i]] = @ + Docs!BatchOf(kind)]
  BY DEF Docs!Save
<1> DEFINE t == Docs!Tables(kind)[i]
<1>2. Docs!TypeOK /\ Docs!WholeTables
  BY DEF Docs!ReportsInv
<1>3. Len(plan) \in Nat /\ saved \in [TableNames -> 0 .. Len(plan)] /\ t \in TableNames
  BY <1>1, <1>2, PlanFacts
<1>4. /\ saved[t] + Docs!BatchOf(kind) \in 0 .. Len(plan)
      /\ kind \in {"unit", "coverage"} => saved[t] + Docs!BatchOf(kind) = Len(plan)
  <2>1. CASE kind \in {"unit", "coverage"}
    <3>1. Docs!BatchOf(kind) = Len(plan) /\ saved[t] \in {0, Len(plan)}
      BY <1>2, <1>3, <2>1 DEF Docs!BatchOf, Docs!WholeTables
    <3> QED
      BY <1>1, <1>3, <3>1
  <2>2. CASE kind \notin {"unit", "coverage"}
    <3>1. Docs!BatchOf(kind) = 1
      BY <2>2 DEF Docs!BatchOf
    <3> QED
      BY <1>1, <1>3, <2>2, <3>1
  <2> QED
    BY <2>1, <2>2
<1> HIDE DEF t
<1>5. /\ ~Docs!Whole(saved) /\ Docs!BatchOf(kind) >= 0
      /\ UNCHANGED <<kind, plan, status, exec, redeliveries, gen, file, reportRow, reportFaults,
                     had, savedThen>>
  BY <1>3 DEF Docs!Save, Docs!requests, Docs!BatchOf
<1>6. saved' = [saved EXCEPT ![t] = saved[t] + Docs!BatchOf(kind)]
  BY <1>1 DEF t
<1>7. Docs!TypeOK'
  BY <1>2, <1>3, <1>4, <1>5, <1>6 DEF Docs!TypeOK, Docs!Copies, Docs!Nothing, TableNames
<1>8. Docs!WholeTables'
  BY <1>2, <1>3, <1>4, <1>5, <1>6 DEF Docs!WholeTables
<1>9. \A q \in Requests : Docs!RequestSoFar(q)'
  BY <1>5 DEF Docs!RequestSoFar, Docs!ReportsInv
<1>10. Docs!CompletedIsSaved' /\ (reportRow => file.is # "missing")'
  BY <1>5 DEF Docs!CompletedIsSaved, Docs!ReportsInv, Docs!Whole
<1>11. Docs!UndisturbedSoFar'
  BY <1>5 DEF Docs!UndisturbedSoFar, Docs!UpToDate, Docs!Alone, Docs!ReportsInv
<1>12. Docs!NothingUnsaved'
  <2>1. savedThen \in [TableNames -> 0 .. Len(plan)] /\ DOMAIN Docs!Nothing = TableNames
    BY <1>2 DEF Docs!TypeOK, Docs!Copies, Docs!Nothing, TableNames
  <2>2. \A u \in TableNames : savedThen[u] <= saved[u]
    BY <2>1 DEF Docs!ReportsInv, Docs!NothingUnsaved
  <2>3. \A u \in TableNames : saved[u] <= saved'[u]
    BY <1>3, <1>4, <1>5, <1>6 DEF Docs!BatchOf
  <2>4. \A u \in TableNames : savedThen[u] <= saved'[u]
    <3>1. saved' \in [TableNames -> 0 .. Len(plan)]
      BY <1>3, <1>4, <1>6
    <3> QED
      BY <1>3, <2>1, <2>2, <2>3, <3>1
  <2> QED
    BY <1>5, <2>1, <2>4 DEF Docs!NothingUnsaved, Docs!Nothing, TableNames
<1> QED
  BY <1>7, <1>8, <1>9, <1>10, <1>11, <1>12 DEF Docs!ReportsInv

\* What the run's row says changes, what is saved does not: only a run that is whole completes, and
\* a request that began before has the new status among those the run had.
LEMMA RunMoves ==
    ASSUME Docs!ReportsInv,
           \/ Docs!Complete \/ Docs!RunFails \/ Docs!ExecutionEnds \/ Docs!Cancel
           \/ Docs!Redeliver \/ Docs!WriteRunning
    PROVE  Docs!ReportsInv'
<1> USE DEF Docs!Complete, Docs!RunFails, Docs!ExecutionEnds, Docs!Cancel, Docs!Redeliver,
            Docs!WriteRunning, Docs!Becomes, Docs!requests
<1>1. UNCHANGED <<kind, plan, saved, gen, file, reportRow, reportFaults, savedThen>>
  OBVIOUS
<1>2. Docs!TypeOK
  BY DEF Docs!ReportsInv
<1>3. /\ status' \in Docs!Statuses /\ (status' = "completed" => Docs!Whole(saved))
      /\ exec' \in {"starting", "running", "cleanup", "over"}
      /\ redeliveries' \in Nat
  BY <1>2 DEF Docs!ReportsInv, Docs!CompletedIsSaved, Docs!TypeOK, Docs!Statuses
<1>4. /\ had' \subseteq Docs!Statuses /\ had \subseteq had' /\ (had' # {} => had # {})
      /\ had # {} /\ status \in had => status' \in had'
  <2>1. \/ status' = status /\ had' = had
        \/ had' = IF had = {} THEN {} ELSE had \cup {status'}
    OBVIOUS
  <2>2. had \subseteq Docs!Statuses
    BY <1>2 DEF Docs!TypeOK
  <2> QED
    BY <1>3, <2>1, <2>2
<1>5. Docs!TypeOK'
  BY <1>1, <1>2, <1>3, <1>4 DEF Docs!TypeOK, Docs!Copies
<1>6. Docs!WholeTables' /\ Docs!CompletedIsSaved' /\ (reportRow => file.is # "missing")'
  BY <1>1, <1>3 DEF Docs!WholeTables, Docs!CompletedIsSaved, Docs!ReportsInv, Docs!Whole
<1>7. (\A q \in Requests : Docs!RequestSoFar(q)') /\ Docs!NothingUnsaved'
  BY <1>1 DEF Docs!RequestSoFar, Docs!NothingUnsaved, Docs!ReportsInv, Docs!Whole
<1>8. Docs!UndisturbedSoFar'
  BY <1>1, <1>4 DEF Docs!UndisturbedSoFar, Docs!UpToDate, Docs!Alone, Docs!ReportsInv
<1> QED
  BY <1>5, <1>6, <1>7, <1>8 DEF Docs!ReportsInv

\* What a step of request q has to keep, the run being as it was.
LEMMA RequestStep ==
    ASSUME Docs!ReportsInv, UNCHANGED Docs!run, Docs!TypeOK', Docs!NothingUnsaved',
           NEW q \in Requests, \A other \in Requests \ {q} : gen'[other] = gen[other],
           file'.is = "missing" => file.is = "missing",
           file' = file \/ (file'.is = "whole" /\ file'.status = "completed" => Docs!Whole(file'.read)),
           (reportRow => file.is # "missing")', Docs!RequestSoFar(q)', Docs!UndisturbedSoFar'
    PROVE  Docs!ReportsInv'
<1> USE DEF Docs!run
<1>1. Docs!WholeTables' /\ Docs!CompletedIsSaved'
  BY DEF Docs!WholeTables, Docs!CompletedIsSaved, Docs!ReportsInv, Docs!Whole
<1>2. ASSUME NEW r \in Requests PROVE Docs!RequestSoFar(r)'
  BY DEF Docs!RequestSoFar, Docs!ReportsInv, Docs!Whole
<1> QED
  BY <1>1, <1>2 DEF Docs!ReportsInv

\* A request that begins alone begins with what the run is and has saved then.
LEMMA RequestBegins ==
    ASSUME Docs!ReportsInv, NEW q \in Requests, Docs!Generate(q) PROVE Docs!ReportsInv'
<1> DEFINE g == [Docs!Idle EXCEPT !.at = "read"]
<1>1. /\ gen[q] = Docs!Idle /\ gen' = [gen EXCEPT ![q] = g]
      /\ UNCHANGED <<file, reportRow, reportFaults>> /\ UNCHANGED Docs!run
      /\ \/ had' = {} /\ savedThen' = Docs!Nothing
         \/ /\ \A other \in Requests : gen[other].at = "idle"
            /\ had' = {status} /\ savedThen' = saved
  BY DEF Docs!Generate, Docs!Go, Docs!Disturbed
<1>2. Docs!TypeOK
  BY DEF Docs!ReportsInv
<1>3. /\ g.at = "read" /\ g.next = 1 /\ g.status = None /\ g.read = Docs!Idle.read
      /\ g = [at |-> "read", next |-> 1, status |-> None, read |-> Docs!Idle.read]
  BY DEF Docs!Idle
<1>4. gen'[q] = g /\ \A other \in Requests \ {q} : gen'[other] = gen[other]
  BY <1>1, <1>2 DEF Docs!TypeOK
<1>5. gen[q].at = "idle" /\ gen[q].read = Docs!Idle.read /\ gen[q].read \in Docs!Copies
      /\ gen[q].next = 1 /\ gen[q].status = None
  BY <1>1, <1>2 DEF Docs!TypeOK, Docs!Idle
<1> HIDE DEF g
<1>6. savedThen' \in Docs!Copies /\ had' \subseteq Docs!Statuses /\ Docs!NothingUnsaved'
  <2>1. Docs!Nothing \in Docs!Copies /\ saved \in Docs!Copies /\ saved' = saved
        /\ \A t \in DOMAIN Docs!Nothing : Docs!Nothing[t] = 0
    BY <1>1, <1>2, PlanFacts DEF Docs!TypeOK, Docs!Copies, Docs!Nothing, Docs!run
  <2>2. \A t \in DOMAIN Docs!Nothing : saved[t] \in Nat
    BY <1>2, PlanFacts DEF Docs!TypeOK, Docs!Copies
  <2> QED
    BY <1>1, <1>2, <2>1, <2>2 DEF Docs!NothingUnsaved, Docs!TypeOK
<1>7. Docs!TypeOK'
  BY <1>1, <1>2, <1>3, <1>5, <1>6 DEF Docs!TypeOK, Docs!Copies, Docs!run
<1>8. Docs!RequestSoFar(q)'
  <2>1. Len(Docs!Reads(kind)) \in {2, 3}
    BY ReadsAreFew
  <2> QED
    BY <1>1, <1>3, <1>4, <2>1, TablesAssumption DEF Docs!RequestSoFar, Docs!RowsAssumption, Docs!run
<1>9. Docs!UndisturbedSoFar'
  <2> SUFFICES ASSUME had' # {} PROVE Docs!UndisturbedSoFar'
    BY DEF Docs!UndisturbedSoFar
  <2>1. (\A other \in Requests : gen[other].at = "idle") /\ status' \in had'
    BY <1>1 DEF Docs!run
  <2> QED
    BY <1>3, <1>4, <2>1 DEF Docs!UndisturbedSoFar, Docs!Alone
<1> QED
  BY <1>1, <1>4, <1>6, <1>7, <1>8, <1>9, RequestStep DEF Docs!ReportsInv

\* It reads the run's row, then its tables: whatever comes after "completed" is whole.
LEMMA RequestReads ==
    ASSUME Docs!ReportsInv, NEW q \in Requests, Docs!ReadNext(q) PROVE Docs!ReportsInv'
<1> DEFINE g == gen[q]
           R == Docs!Reads(kind)
           then == IF g.next = Len(R) THEN "put" ELSE "read"
           read == IF R[g.next] = "run" THEN g.read ELSE [g.read EXCEPT ![R[g.next]] = saved[R[g.next]]]
           seen == IF R[g.next] = "run" THEN status ELSE g.status
           h == [at |-> then, next |-> g.next + 1, status |-> seen, read |-> read]
<1>1. Docs!TypeOK /\ Docs!RequestSoFar(q)
  BY DEF Docs!ReportsInv
<1>2. /\ g \in [at : {"idle", "read", "put", "write", "create"}, next : 1 .. Len(R) + 1,
                status : Docs!Statuses \cup {None}, read : Docs!Copies]
      /\ g.at = "read"
  BY <1>1 DEF Docs!TypeOK, Docs!ReadNext
<1>3. /\ Len(R) \in {2, 3} /\ R[1] = "run"
      /\ \A i \in 2 .. Len(R) : R[i] \in TableNames /\ R[i] # "run"
  BY ReadsKnown, ReadsAreFew
<1>4. g.next \in 1 .. Len(R) /\ g.next + 1 \in 2 .. Len(R) + 1
  BY <1>1, <1>2, <1>3 DEF Docs!RequestSoFar
<1>5. R[g.next] = "run" <=> g.next = 1
  BY <1>3, <1>4
<1>6. gen' = [gen EXCEPT ![q] = h]
  BY DEF Docs!ReadNext, Docs!Go
<1>7. /\ UNCHANGED <<kind, plan, status, saved, exec, redeliveries>> /\ UNCHANGED Docs!run
      /\ UNCHANGED <<file, reportRow, reportFaults, had, savedThen>>
  BY DEF Docs!ReadNext, Docs!run
<1>8. saved \in Docs!Copies /\ DOMAIN Docs!Nothing = TableNames /\ Len(plan) \in Nat
  BY <1>1, PlanFacts DEF Docs!TypeOK, Docs!Nothing, TableNames
<1>9. read \in Docs!Copies
  BY <1>2, <1>3, <1>4, <1>5, <1>8 DEF Docs!Copies
<1>10. seen \in Docs!Statuses \cup {None}
  BY <1>1, <1>2 DEF Docs!TypeOK
<1>11. gen'[q] = h /\ \A other \in Requests \ {q} : gen'[other] = gen[other]
  BY <1>1, <1>6 DEF Docs!TypeOK
<1>12. Docs!TypeOK'
  <2>1. h \in [at : {"idle", "read", "put", "write", "create"}, next : 1 .. Len(R) + 1,
               status : Docs!Statuses \cup {None}, read : Docs!Copies]
    BY <1>3, <1>4, <1>9, <1>10
  <2> QED
    BY <1>1, <1>6, <1>7, <2>1 DEF Docs!TypeOK, Docs!Copies
<1>13. /\ h.at = then /\ h.next = g.next + 1 /\ h.status = seen /\ h.read = read
  OBVIOUS
<1>14. seen = "completed" =>
         /\ Docs!Whole(saved)
         /\ \A i \in 2 .. h.next - 1 : read[R[i]] = Len(plan)
  <2> SUFFICES ASSUME seen = "completed"
               PROVE  Docs!Whole(saved) /\ \A i \in 2 .. g.next : read[R[i]] = Len(plan)
    BY <1>4
  <2>1. CASE g.next = 1
    BY <1>5, <2>1 DEF Docs!ReportsInv, Docs!CompletedIsSaved
  <2>2. CASE g.next # 1
    <3>1. Docs!Whole(saved) /\ \A i \in 2 .. g.next - 1 : g.read[R[i]] = Len(plan)
      BY <1>1, <1>5, <2>2 DEF Docs!RequestSoFar
    <3>2. saved[R[g.next]] = Len(plan)
      <4>1. g.next - 1 \in DOMAIN Docs!Tables(kind) /\ R[(g.next - 1) + 1] = Docs!Tables(kind)[g.next - 1]
        BY <1>3, <1>4, <2>2, ReadsKnown, TablesKnown
      <4> QED
        BY <1>4, <3>1, <4>1 DEF Docs!Whole
    <3>3. read = [g.read EXCEPT ![R[g.next]] = Len(plan)] /\ DOMAIN g.read = TableNames
      BY <1>2, <1>5, <1>8, <2>2, <3>2 DEF Docs!Copies
    <3>4. ASSUME NEW i \in 2 .. g.next PROVE read[R[i]] = Len(plan)
      <4>1. R[i] \in TableNames
        BY <1>3, <1>4
      <4>2. i = g.next \/ i \in 2 .. g.next - 1
        BY <1>4
      <4> QED
        BY <3>1, <3>3, <4>1, <4>2
    <3> QED
      BY <3>1, <3>4
  <2> QED
    BY <2>1, <2>2
<1>15. /\ seen # None
       /\ h.at # "idle" /\ (h.at = "read" <=> h.next <= Len(R)) /\ h.next # 1 /\ h.at \notin {"write", "create"}
  <2>1. g.next # 1 => g.status # None
    BY <1>1 DEF Docs!RequestSoFar
  <2>2. status # None
    BY <1>1, TablesAssumption DEF Docs!TypeOK, Docs!Statuses, Docs!RowsAssumption
  <2> QED
    BY <1>3, <1>4, <1>5, <2>1, <2>2
<1>16. seen = status \/ (g.next # 1 /\ seen = g.status)
  BY <1>5
<1>19. ASSUME NEW i \in 2 .. h.next - 1,
              \A j \in 2 .. g.next - 1 : g.read[R[j]] >= savedThen[R[j]]
       PROVE  read[R[i]] >= savedThen[R[i]]
  <2>1. R[i] \in TableNames /\ (i = g.next \/ i \in 2 .. g.next - 1) /\ g.next # 1
    BY <1>3, <1>4
  <2>2. DOMAIN g.read = TableNames /\ g.read \in [TableNames -> Int]
    BY <1>2, <1>8 DEF Docs!Copies
  <2>3. /\ read[R[i]] = saved[R[i]] \/ (i \in 2 .. g.next - 1 /\ read[R[i]] = g.read[R[i]])
    BY <1>5, <2>1, <2>2
  <2>4. saved[R[i]] >= savedThen[R[i]]
    <3>1. savedThen[R[i]] <= saved[R[i]]
      BY <1>8, <2>1 DEF Docs!ReportsInv, Docs!NothingUnsaved
    <3>2. savedThen[R[i]] \in Int /\ saved[R[i]] \in Int
      BY <1>1, <1>8, <2>1 DEF Docs!TypeOK, Docs!Copies
    <3> QED
      BY <3>1, <3>2
  <2> QED
    BY <1>19, <2>3, <2>4
<1> HIDE DEF h, seen, read, then
<1>17. Docs!RequestSoFar(q)'
  BY <1>7, <1>11, <1>13, <1>14, <1>15 DEF Docs!RequestSoFar, Docs!Whole
<1>18. Docs!UndisturbedSoFar'
  <2> SUFFICES ASSUME had # {} PROVE Docs!UndisturbedSoFar'
    BY <1>7 DEF Docs!UndisturbedSoFar
  <2>1. /\ status \in had /\ Docs!Alone(q)
        /\ g.next > 1 => g.status \in had
        /\ \A i \in 2 .. g.next - 1 : g.read[R[i]] >= savedThen[R[i]]
    BY <1>2 DEF Docs!ReportsInv, Docs!UndisturbedSoFar
  <2>2. seen \in had
    BY <1>4, <1>16, <2>1
  <2>3. \A i \in 2 .. h.next - 1 : h.read[R[i]] >= savedThen[R[i]]
    BY <1>13, <1>19, <2>1
  <2> QED
    BY <1>7, <1>11, <1>13, <1>15, <2>1, <2>2, <2>3
    DEF Docs!UndisturbedSoFar, Docs!Alone, Docs!ReportsInv
<1>20. Docs!NothingUnsaved'
  BY <1>7 DEF Docs!NothingUnsaved, Docs!ReportsInv
<1> QED
  BY <1>7, <1>11, <1>12, <1>17, <1>18, <1>20, RequestStep DEF Docs!ReportsInv

\* It writes its file and the row that points to it; alone, it leaves what it read.
LEMMA RequestWrites ==
    ASSUME Docs!ReportsInv, NEW q \in Requests,
           Docs!Truncate(q) \/ Docs!WriteOut(q) \/ Docs!Create(q)
    PROVE  Docs!ReportsInv'
<1> DEFINE g == gen[q]
           R == Docs!Reads(kind)
<1>1. Docs!TypeOK /\ Docs!RequestSoFar(q)
  BY DEF Docs!ReportsInv
<1>2. /\ g \in [at : {"idle", "read", "put", "write", "create"}, next : 1 .. Len(R) + 1,
                status : Docs!Statuses \cup {None}, read : Docs!Copies]
      /\ g.at \in {"put", "write", "create"} /\ g.next = Len(R) + 1 /\ Len(R) \in {2, 3}
  <2>1. g.at \in {"put", "write", "create"}
    BY DEF Docs!Truncate, Docs!WriteOut, Docs!Create
  <2> QED
    BY <1>1, <2>1, ReadsAreFew DEF Docs!TypeOK, Docs!RequestSoFar
<1>3. /\ UNCHANGED <<kind, plan, status, saved, exec, redeliveries>> /\ UNCHANGED Docs!run
      /\ UNCHANGED <<reportFaults, had, savedThen>>
  BY DEF Docs!Truncate, Docs!WriteOut, Docs!Create, Docs!run
<1>8. Docs!NothingUnsaved'
  BY <1>3 DEF Docs!NothingUnsaved, Docs!ReportsInv
<1>9. ASSUME had # {}
      PROVE  /\ Docs!Alone(q) /\ status \in had /\ g.status \in had
             /\ \A i \in DOMAIN Docs!Tables(kind) :
                   g.read[Docs!Tables(kind)[i]] >= savedThen[Docs!Tables(kind)[i]]
  <2>1. /\ Docs!Alone(q) /\ status \in had /\ (g.next > 1 => g.status \in had)
        /\ \A i \in 2 .. g.next - 1 : g.read[R[i]] >= savedThen[R[i]]
    BY <1>2, <1>9 DEF Docs!ReportsInv, Docs!UndisturbedSoFar
  <2>2. ASSUME NEW i \in DOMAIN Docs!Tables(kind)
        PROVE  i + 1 \in 2 .. g.next - 1 /\ R[i + 1] = Docs!Tables(kind)[i]
    BY <1>2, ReadsKnown, TablesKnown
  <2>3. ASSUME NEW i \in DOMAIN Docs!Tables(kind)
        PROVE  g.read[Docs!Tables(kind)[i]] >= savedThen[Docs!Tables(kind)[i]]
    BY <2>1, <2>2
  <2>4. g.next > 1
    <3>1. g.next = Len(R) + 1 /\ Len(R) \in {2, 3}
      BY <1>2
    <3> HIDE DEF g, R
    <3> QED
      BY <3>1
  <2> HIDE DEF g
  <2> QED
    BY <2>1, <2>3, <2>4
<1>4. g.status # None /\ (g.status = "completed" => Docs!Whole(g.read))
  <2>1. g.status # None
    BY <1>1, <1>2 DEF Docs!RequestSoFar
  <2>2. ASSUME g.status = "completed", NEW i \in DOMAIN Docs!Tables(kind)
        PROVE  g.read[Docs!Tables(kind)[i]] = Len(plan)
    <3>1. i + 1 \in 2 .. g.next - 1 /\ R[i + 1] = Docs!Tables(kind)[i]
      BY <1>2, ReadsKnown, TablesKnown
    <3> QED
      BY <1>1, <2>2, <3>1 DEF Docs!RequestSoFar
  <2> QED
    BY <2>1, <2>2 DEF Docs!Whole
<1>5. CASE Docs!Truncate(q)
  <2>1. /\ g.at = "put" /\ file' = Docs!Damaged /\ reportRow' = reportRow
        /\ gen' = [gen EXCEPT ![q] = [g EXCEPT !.at = "write"]]
    BY <1>5 DEF Docs!Truncate, Docs!Go
  <2>2. /\ Docs!Damaged.is = "damaged" /\ Docs!Damaged.status = None
        /\ Docs!Damaged \in [is : {"missing", "damaged", "whole"}, status : Docs!Statuses \cup {None},
                             read : Docs!Copies]
    BY <1>1, PlanFacts DEF Docs!Damaged, Docs!Copies, Docs!Nothing
  <2> DEFINE h == [g EXCEPT !.at = "write"]
  <2>3. /\ h \in [at : {"idle", "read", "put", "write", "create"}, next : 1 .. Len(R) + 1,
                  status : Docs!Statuses \cup {None}, read : Docs!Copies]
        /\ h.at = "write" /\ h.next = g.next /\ h.status = g.status /\ h.read = g.read
    BY <1>2
  <2>4. gen'[q] = h /\ \A other \in Requests \ {q} : gen'[other] = gen[other]
    BY <1>1, <2>1 DEF Docs!TypeOK
  <2> HIDE DEF h
  <2>5. Docs!TypeOK'
    BY <1>1, <1>3, <2>1, <2>2, <2>3 DEF Docs!TypeOK, Docs!Copies, h
  <2>6. Docs!RequestSoFar(q)'
    BY <1>1, <1>2, <1>3, <2>1, <2>2, <2>3, <2>4 DEF Docs!RequestSoFar, Docs!Whole
  <2>7. Docs!UndisturbedSoFar'
    <3> SUFFICES ASSUME had # {} PROVE Docs!UndisturbedSoFar'
      BY <1>3 DEF Docs!UndisturbedSoFar
    <3>1. /\ \A other \in Requests \ {q} : gen[other].at = "idle"
          /\ gen'[q].at = "idle" \/ (gen'[q].next = g.next /\ gen'[q].status = g.status
                                      /\ gen'[q].read = g.read)
      BY <1>9, <2>3, <2>4 DEF Docs!Alone
    <3>2. gen'[q].at = "write" /\ status \in had /\ Docs!Alone(q)
          /\ (g.next > 1 => g.status \in had)
          /\ \A i \in 2 .. g.next - 1 : g.read[R[i]] >= savedThen[R[i]]
      BY <1>2, <2>3, <2>4 DEF Docs!UndisturbedSoFar, Docs!ReportsInv
    <3> QED
      BY <1>3, <2>3, <2>4, <3>1, <3>2 DEF Docs!UndisturbedSoFar, Docs!Alone
  <2> QED
    BY <1>3, <1>8, <2>1, <2>2, <2>4, <2>5, <2>6, <2>7, RequestStep DEF Docs!ReportsInv
<1>6. CASE Docs!WriteOut(q)
  <2> DEFINE h == [g EXCEPT !.at = "create"]
             f == [is |-> "whole", status |-> g.status, read |-> g.read]
  <2>1. /\ g.at = "write" /\ reportRow' = reportRow /\ gen' = [gen EXCEPT ![q] = h]
        /\ file' = f \/ (had = {} /\ file' = Docs!Damaged)
    BY <1>6 DEF Docs!WriteOut, Docs!Go
  <2>2. /\ Docs!Damaged.is = "damaged"
        /\ Docs!Damaged \in [is : {"missing", "damaged", "whole"}, status : Docs!Statuses \cup {None},
                             read : Docs!Copies]
    BY <1>1, PlanFacts DEF Docs!Damaged, Docs!Copies, Docs!Nothing
  <2>3. /\ h \in [at : {"idle", "read", "put", "write", "create"}, next : 1 .. Len(R) + 1,
                  status : Docs!Statuses \cup {None}, read : Docs!Copies]
        /\ h.at = "create" /\ h.next = g.next /\ h.status = g.status /\ h.read = g.read
    BY <1>2
  <2>4. gen'[q] = h /\ \A other \in Requests \ {q} : gen'[other] = gen[other]
    BY <1>1, <2>1 DEF Docs!TypeOK
  <2>5. /\ f.is = "whole" /\ f.status = g.status /\ f.read = g.read
        /\ f \in [is : {"missing", "damaged", "whole"}, status : Docs!Statuses \cup {None},
                  read : Docs!Copies]
    BY <1>2
  <2> HIDE DEF h, f
  <2>6. Docs!TypeOK'
    BY <1>1, <1>3, <2>1, <2>2, <2>3, <2>5 DEF Docs!TypeOK, Docs!Copies
  <2>7. /\ file'.is # "missing"
        /\ file'.is = "whole" /\ file'.status = "completed" => Docs!Whole(file'.read)
    BY <1>4, <2>1, <2>2, <2>5
  <2>8. Docs!RequestSoFar(q)'
    BY <1>1, <1>2, <1>3, <2>1, <2>3, <2>4, <2>7 DEF Docs!RequestSoFar, Docs!Whole
  <2>9. Docs!UndisturbedSoFar'
    <3> SUFFICES ASSUME had # {} PROVE Docs!UndisturbedSoFar'
      BY <1>3 DEF Docs!UndisturbedSoFar
    <3>1. /\ \A other \in Requests \ {q} : gen[other].at = "idle"
          /\ gen'[q].at = "idle" \/ (gen'[q].next = g.next /\ gen'[q].status = g.status
                                      /\ gen'[q].read = g.read)
      BY <1>9, <2>3, <2>4 DEF Docs!Alone
    <3>2. file' = f /\ Docs!UpToDate(f)
      BY <1>9, <2>1, <2>5 DEF Docs!UpToDate
    <3>3. file'.is = "whole" /\ Docs!UpToDate(file)'
      BY <1>3, <2>5, <3>2 DEF Docs!UpToDate
    <3>4. gen'[q].at = "create" /\ status \in had /\ Docs!Alone(q)
          /\ (g.next > 1 => g.status \in had)
          /\ \A i \in 2 .. g.next - 1 : g.read[R[i]] >= savedThen[R[i]]
      BY <1>2, <2>3, <2>4 DEF Docs!UndisturbedSoFar, Docs!ReportsInv
    <3> QED
      BY <1>3, <2>3, <2>4, <3>1, <3>3, <3>4 DEF Docs!UndisturbedSoFar, Docs!Alone
  <2> QED
    BY <1>3, <1>8, <2>1, <2>4, <2>6, <2>7, <2>8, <2>9, RequestStep
<1>7. CASE Docs!Create(q)
  <2>1. /\ g.at = "create" /\ file' = file /\ reportRow' = TRUE
        /\ gen' = [gen EXCEPT ![q] = Docs!Idle]
    BY <1>7 DEF Docs!Create, Docs!Go
  <2>2. file.is # "missing"
    BY <1>1, <2>1 DEF Docs!RequestSoFar
  <2>3. gen'[q] = Docs!Idle /\ \A other \in Requests \ {q} : gen'[other] = gen[other]
    BY <1>1, <2>1 DEF Docs!TypeOK
  <2>4. /\ Docs!Idle.at = "idle" /\ Docs!Idle.next = 1 /\ Docs!Idle.status = None
        /\ Docs!Idle \in [at : {"idle", "read", "put", "write", "create"}, next : 1 .. Len(R) + 1,
                          status : Docs!Statuses \cup {None}, read : Docs!Copies]
    BY <1>1, <1>2, PlanFacts DEF Docs!Idle, Docs!Copies, Docs!Nothing
  <2>5. Docs!TypeOK'
    BY <1>1, <1>3, <2>1, <2>4 DEF Docs!TypeOK, Docs!Copies
  <2>6. Docs!RequestSoFar(q)'
    BY <1>2, <2>1, <2>3, <2>4, TablesAssumption DEF Docs!RequestSoFar, Docs!RowsAssumption
  <2>7. Docs!UndisturbedSoFar'
    <3> SUFFICES ASSUME had # {} PROVE Docs!UndisturbedSoFar'
      BY <1>3 DEF Docs!UndisturbedSoFar
    <3>1. /\ \A other \in Requests \ {q} : gen[other].at = "idle"
          /\ gen'[q].at = "idle" \/ (gen'[q].next = g.next /\ gen'[q].status = g.status
                                      /\ gen'[q].read = g.read)
      BY <1>9, <2>3, <2>4 DEF Docs!Alone
    <3>2. file.is = "whole" /\ Docs!UpToDate(file)
      BY <2>1 DEF Docs!ReportsInv, Docs!UndisturbedSoFar
    <3>3. Docs!UpToDate(file)'
      BY <1>3, <2>1, <3>2 DEF Docs!UpToDate
    <3> QED
      BY <1>3, <1>9, <2>1, <2>3, <2>4, <3>1, <3>2, <3>3 DEF Docs!UndisturbedSoFar, Docs!Alone
  <2> QED
    BY <1>3, <1>8, <2>1, <2>2, <2>3, <2>5, <2>6, <2>7, RequestStep DEF Docs!ReportsInv
<1> QED
  BY <1>5, <1>6, <1>7

\* A request that dies leaves its file and nothing else.
LEMMA RequestDies ==
    ASSUME Docs!ReportsInv, NEW q \in Requests, Docs!Fails(q) PROVE Docs!ReportsInv'
<1>1. Docs!TypeOK
  BY DEF Docs!ReportsInv
<1>2. /\ gen' = [gen EXCEPT ![q] = Docs!Idle] /\ reportFaults' = reportFaults + 1
      /\ UNCHANGED <<kind, plan, status, saved, exec, redeliveries, file, reportRow>>
      /\ UNCHANGED Docs!run /\ had' = {} /\ savedThen' = Docs!Nothing
  BY DEF Docs!Fails, Docs!Go, Docs!run, Docs!Disturbed
<1>3. gen'[q] = Docs!Idle /\ \A other \in Requests \ {q} : gen'[other] = gen[other]
  BY <1>1, <1>2 DEF Docs!TypeOK
<1>4. /\ Docs!Idle.at = "idle" /\ Docs!Idle.next = 1 /\ Docs!Idle.status = None
      /\ Docs!Idle \in [at : {"idle", "read", "put", "write", "create"},
                        next : 1 .. Len(Docs!Reads(kind)) + 1,
                        status : Docs!Statuses \cup {None}, read : Docs!Copies]
  BY <1>1, PlanFacts, ReadsAreFew DEF Docs!Idle, Docs!Copies, Docs!Nothing
<1>5. Docs!TypeOK'
  <2>1. Docs!Nothing \in Docs!Copies
    BY <1>1, PlanFacts DEF Docs!Copies, Docs!Nothing
  <2> QED
    BY <1>1, <1>2, <1>4, <2>1 DEF Docs!TypeOK, Docs!Copies
<1>6. Docs!RequestSoFar(q)'
  BY <1>2, <1>3, <1>4, ReadsAreFew, TablesAssumption DEF Docs!RequestSoFar, Docs!RowsAssumption
<1>7. Docs!UndisturbedSoFar' /\ Docs!NothingUnsaved'
  <2>1. \A t \in DOMAIN Docs!Nothing : Docs!Nothing[t] = 0 /\ saved[t] \in Nat
    BY <1>1, PlanFacts DEF Docs!TypeOK, Docs!Copies, Docs!Nothing
  <2> QED
    BY <1>2, <2>1 DEF Docs!UndisturbedSoFar, Docs!NothingUnsaved
<1> QED
  BY <1>2, <1>3, <1>5, <1>6, <1>7, RequestStep DEF Docs!ReportsInv

\* Every step preserves the invariant.
LEMMA DocsStep == Docs!ReportsInv /\ [Docs!Next]_Docs!vars => Docs!ReportsInv'
<1> SUFFICES ASSUME Docs!ReportsInv, [Docs!Next]_Docs!vars PROVE Docs!ReportsInv'
  OBVIOUS
<1>1. CASE UNCHANGED Docs!vars
  BY <1>1 DEF Docs!vars, Docs!ReportsInv, Docs!TypeOK, Docs!Copies, Docs!WholeTables,
     Docs!CompletedIsSaved, Docs!RequestSoFar, Docs!UndisturbedSoFar, Docs!UpToDate,
     Docs!NothingUnsaved, Docs!Alone, Docs!Whole
<1> QED
  BY <1>1, RowsSaved, RunMoves, RequestBegins, RequestReads, RequestWrites, RequestDies
  DEF Docs!Next

\* The sizes of Reports are sizes.
LEMMA SameSizes == ASSUME NEW S PROVE Docs!Cardinality(S) = Cardinality(S)
  BY DEF Docs!Cardinality, Cardinality

\* Two finite sets without a common element.
LEMMA DisjointSizes ==
    ASSUME NEW A, NEW B, IsFiniteSet(A), IsFiniteSet(B), A \cap B = {}
    PROVE  /\ IsFiniteSet(A \cup B)
           /\ Cardinality(A \cup B) = Cardinality(A) + Cardinality(B)
<1>1. Cardinality(A \cup B) = Cardinality(A) + Cardinality(B) - Cardinality(A \cap B)
  BY FS_Union
<1>2. Cardinality(A \cap B) = 0
  BY FS_EmptySet
<1>3. Cardinality(A) \in Nat /\ Cardinality(B) \in Nat
  BY FS_CardinalityType
<1> QED
  BY <1>1, <1>2, <1>3, FS_Union

\* The rows a report was given are rows of the run.
LEMMA RowsGiven ==
    ASSUME Docs!TypeOK, NEW t \in TableNames
    PROVE  LET rs == Docs!RowsOf(file, t) IN
           /\ Len(rs) \in Nat /\ DOMAIN rs = 1 .. Len(rs)
           /\ kind = "qa" => \A i \in DOMAIN rs : rs[i].passed => rs[i].prefix = "none"
<1> DEFINE n == file.read[t]
           rs == Docs!RowsOf(file, t)
<1>1. Len(plan) \in Nat /\ plan \in Seq({plan[i] : i \in 1 .. Len(plan)})
  BY PlanFacts
<1>2. n \in 0 .. Len(plan)
  BY DEF Docs!TypeOK, Docs!Copies, Docs!Nothing, TableNames
<1>3. /\ Len(rs) = n /\ DOMAIN rs = 1 .. n
      /\ \A i \in 1 .. n : rs[i] = plan[i]
  <2>1. rs = SubSeq(plan, 1, n)
    BY DEF Docs!RowsOf
  <2> QED
    BY <1>1, <1>2, <2>1, SubSeqProperties
<1>4. kind = "qa" => \A i \in 1 .. Len(plan) : plan[i].passed => plan[i].prefix = "none"
  BY TablesAssumption DEF Docs!RowsAssumption, Docs!TypeOK
<1> QED
  BY <1>1, <1>2, <1>3, <1>4

\* Passed, failed, skipped and quarantined results are all there are, and none is two of these.
LEMMA SheetsAddUp ==
    ASSUME NEW rs, Len(rs) \in Nat, DOMAIN rs = 1 .. Len(rs),
           \A i \in DOMAIN rs : rs[i].passed => rs[i].prefix = "none"
    PROVE  Docs!SummaryAddsUp(rs)
<1> DEFINE D == 1 .. Len(rs)
           P == {i \in D : rs[i].passed}
           F == {i \in D : ~rs[i].passed /\ rs[i].prefix \notin {"skipped", "deselected"}}
           S == {i \in D : rs[i].prefix = "skipped"}
           Q == {i \in D : rs[i].prefix = "deselected"}
<1>1. /\ Docs!FailedSheet(rs) = F /\ Docs!SkippedSheet(rs) = S /\ Docs!QuarantinedSheet(rs) = Q
  BY DEF Docs!FailedSheet, Docs!SkippedSheet, Docs!QuarantinedSheet, Docs!isSkipped,
     Docs!isQuarantinedTestResult
<1>2. /\ F = {i \in DOMAIN rs : Docs!StatusColumn(rs[i]) = "Fail"}
      /\ S \cup Q = {i \in DOMAIN rs : Docs!StatusColumn(rs[i]) = "Skipped"}
      /\ S \cap Q = {}
  BY DEF Docs!StatusColumn, Docs!isSkipped
<1>3. Cardinality(F) = Len(rs) - Cardinality(P) - Cardinality(S) - Cardinality(Q)
  <2>1. IsFiniteSet(D) /\ Cardinality(D) = Len(rs)
    BY FS_Interval
  <2>2. /\ P \in SUBSET D /\ F \in SUBSET D /\ S \in SUBSET D /\ Q \in SUBSET D
        /\ D = ((P \cup F) \cup S) \cup Q
        /\ P \cap F = {} /\ (P \cup F) \cap S = {} /\ ((P \cup F) \cup S) \cap Q = {}
    OBVIOUS
  <2> HIDE DEF D, P, F, S, Q
  <2>3. IsFiniteSet(P) /\ IsFiniteSet(F) /\ IsFiniteSet(S) /\ IsFiniteSet(Q)
    BY <2>1, <2>2, FS_Subset
  <2>4. /\ Cardinality({}) = 0
        /\ Cardinality(P) \in Nat /\ Cardinality(F) \in Nat /\ Cardinality(S) \in Nat
        /\ Cardinality(Q) \in Nat
    BY <2>3, FS_EmptySet, FS_CardinalityType
  <2>5. IsFiniteSet(P \cup F) /\ Cardinality(P \cup F) = Cardinality(P) + Cardinality(F)
    BY <2>2, <2>3, DisjointSizes
  <2>6. /\ IsFiniteSet((P \cup F) \cup S)
        /\ Cardinality((P \cup F) \cup S) = Cardinality(P) + Cardinality(F) + Cardinality(S)
    BY <2>2, <2>3, <2>5, DisjointSizes
  <2>7. Cardinality(D) = Cardinality(P) + Cardinality(F) + Cardinality(S) + Cardinality(Q)
    BY <2>2, <2>3, <2>6, DisjointSizes
  <2> QED
    BY <2>1, <2>4, <2>7
<1>5. Docs!ExcelSummary(rs).failed =
        Len(rs) - Cardinality(P) - Cardinality(S) - Cardinality(Q)
  BY <1>1, SameSizes DEF Docs!ExcelSummary
<1> HIDE DEF F, S, Q, P
<1> QED
  BY <1>1, <1>2, <1>3, <1>5, SameSizes DEF Docs!SummaryAddsUp

\* The health score is a percentage, and the whole one without an open finding.
LEMMA ScoresAddUp ==
    ASSUME NEW rs, Len(rs) \in Nat, DOMAIN rs = 1 .. Len(rs) PROVE Docs!ScoreAddsUp(rs)
<1>1. IsFiniteSet(Docs!Open(rs))
  <2>1. IsFiniteSet(1 .. Len(rs)) /\ Docs!Open(rs) \in SUBSET (1 .. Len(rs))
    BY FS_Interval DEF Docs!Open
  <2> QED
    BY <2>1, FS_Subset
<1>2. ASSUME NEW severity
      PROVE  /\ Docs!OpenOf(rs, severity) \in Nat
             /\ Cardinality(Docs!Open(rs)) = 0 => Docs!OpenOf(rs, severity) = 0
  <2> DEFINE O == {i \in Docs!Open(rs) : rs[i].severity = severity}
  <2>1. IsFiniteSet(O) /\ Cardinality(O) <= Cardinality(Docs!Open(rs))
    BY <1>1, FS_Subset
  <2>2. Cardinality(O) \in Nat /\ Cardinality(Docs!Open(rs)) \in Nat
    BY <1>1, <2>1, FS_CardinalityType
  <2>3. Docs!OpenOf(rs, severity) = Cardinality(O)
    BY SameSizes DEF Docs!OpenOf
  <2> QED
    BY <2>1, <2>2, <2>3
<1> DEFINE Count(s) == Docs!OpenOf(rs, s)
           penalty == 25 * Count("critical") + 10 * Count("high") + 4 * Count("medium")
                      + 1 * Count("low") + 0 * Count("info")
<1>3. /\ Docs!computeReportSummary(rs).open = Cardinality(Docs!Open(rs))
      /\ Docs!computeReportSummary(rs).healthScore = IF penalty > 100 THEN 0 ELSE 100 - penalty
  BY SameSizes DEF Docs!computeReportSummary, Docs!SEVERITY_PENALTY
<1>4. penalty \in Nat
  BY <1>2
<1>5. Cardinality(Docs!Open(rs)) = 0 => penalty = 0
  BY <1>2
<1> HIDE DEF penalty
<1> QED
  BY <1>3, <1>4, <1>5 DEF Docs!ScoreAddsUp

\* Whatever is requested while a run is executed, cancelled, fails after it completed or is executed
\* anew, for any rows and any number of requests, redeliveries and faults: no report calls a run
\* completed without all of its results, counts and sheets agree, no row points to nothing, and a
\* last request that ran alone to its end leaves a whole file that is no older than its beginning,
\* whatever the requests before it damaged.
THEOREM ReportsAreHonest == Docs!Spec => []ReportIsHonest
<1>1. Docs!ReportsInv => ReportIsHonest
  <2> SUFFICES ASSUME Docs!ReportsInv PROVE Docs!ReportIsHonest
    BY DEF ReportIsHonest
  <2>1. Docs!TypeOK /\ "results" \in TableNames /\ "findings" \in TableNames
    BY DEF Docs!ReportsInv, TableNames
  <2>2. kind = "qa" => Docs!SummaryAddsUp(Docs!RowsOf(file, "results"))
    BY <2>1, RowsGiven, SheetsAddUp
  <2>3. Docs!ScoreAddsUp(Docs!RowsOf(file, "findings"))
    BY <2>1, RowsGiven, ScoresAddUp
  <2>4. ASSUME had # {}, \A q \in Requests : gen[q] = Docs!Idle
        PROVE  reportRow /\ file.is = "whole" /\ Docs!UpToDate(file)
    <3>1. \A q \in Requests : gen[q].at = "idle"
      BY <2>4 DEF Docs!Idle
    <3> QED
      BY <2>4, <3>1 DEF Docs!ReportsInv, Docs!UndisturbedSoFar
  <2> QED
    BY <2>2, <2>3, <2>4 DEF Docs!ReportIsHonest, Docs!ReportsInv, Docs!CompletedIsSaved
<1> QED
  BY <1>1, DocsStart, DocsStep, PTL DEF Docs!Spec
=============================================================================
