------------------------- MODULE Dashboard_proofs -------------------------
(***************************************************************************)
(* Proofs about the modules that MCDashboard composes: FindingStore, for   *)
(* any number of executions, scans, fingerprints and transactions that     *)
(* time out; and ApiCalls, for any number of cron runs and directory       *)
(* requests.                                                               *)
(***************************************************************************)
EXTENDS MCDashboard, TLAPS

(***************************************************************************)
(* FindingStore                                                            *)
(***************************************************************************)

\* The empty repository satisfies the invariant.
LEMMA InvInit == Init => IInv
<1> SUFFICES ASSUME Init PROVE IInv
  OBVIOUS
<1>1. (CHOOSE f \in Fingerprints : TRUE) \in Fingerprints
  BY StoreAssumption
<1>2. TypeOK
  BY <1>1, StoreAssumption DEF Init, TypeOK, Rows
<1>3. FoundStays /\ LockedByWriter /\ WrittenContinues /\ SightingsHaveHistory
  BY DEF Init, FoundStays, LockedByWriter, WrittenContinues, SightingsHaveHistory, NoRow
<1>4. TickedOffIsRecorded
  BY DEF Init, TickedOffIsRecorded
<1> QED
  BY <1>2, <1>3, <1>4 DEF IInv

\* The lookup remembers the committed row.
LEMMA FindUniqueStep ==
    ASSUME IInv, NEW e \in Executions, NEW f \in Fingerprints, FindUnique(e, f)
    PROVE  IInv'
<1> USE DEF IInv, FindUnique, Goto
<1>1. TypeOK'
  BY DEF TypeOK
<1>2. FoundStays'
  BY DEF FoundStays, TypeOK
<1>3. LockedByWriter'
  BY DEF LockedByWriter, TypeOK
<1>4. WrittenContinues'
  BY DEF WrittenContinues, TypeOK
<1>5. SightingsHaveHistory'
  BY DEF SightingsHaveHistory
<1>6. TickedOffIsRecorded'
  BY DEF TickedOffIsRecorded, TypeOK
<1> QED
  BY <1>1, <1>2, <1>3, <1>4, <1>5, <1>6

\* The update or insert locks a row nobody else has written, or the execution fails
\* on the unique key; nothing is visible yet.
LEMMA WriteRowStep ==
    ASSUME IInv, NEW e \in Executions, WriteRow(e)
    PROVE  IInv'
<1> DEFINE f == current[e]
<1>1. f \in Fingerprints /\ pc[e] = "write" /\ holder[f] \subseteq {e}
  BY DEF WriteRow, IInv, TypeOK
<1>2. ScanOf[e] \in Scans
  BY StoreAssumption
<1>3. CASE ~found[e].exists /\ finding[f].exists
  <2> USE <1>3 DEF WriteRow, Goto, Release
  <2>1. TypeOK'
    <3>1. \A g \in Fingerprints : holder[g] \ {e} \in {{}} \cup {{d} : d \in Executions}
      BY DEF IInv, TypeOK
    <3> QED
      BY <3>1 DEF IInv, TypeOK
  <2>2. FoundStays'
    BY DEF FoundStays, IInv, TypeOK
  <2>3. LockedByWriter'
    BY DEF LockedByWriter, IInv, TypeOK
  <2>4. WrittenContinues'
    BY DEF WrittenContinues, IInv, TypeOK
  <2>5. SightingsHaveHistory'
    BY DEF SightingsHaveHistory, IInv
  <2>6. TickedOffIsRecorded'
    BY DEF TickedOffIsRecorded, IInv, TypeOK
  <2> QED
    BY <2>1, <2>2, <2>3, <2>4, <2>5, <2>6 DEF IInv
<1>4. CASE ~(~found[e].exists /\ finding[f].exists)
  <2> USE <1>4 DEF WriteRow, Goto
  <2>1. RowAfter(e) = Row(IF finding[f].exists THEN finding[f].first ELSE ScanOf[e],
                          ScanOf[e])
    BY DEF RowAfter, IInv, FoundStays
  <2>2. finding[f].exists => finding[f].first \in Scans
    BY <1>1 DEF IInv, TypeOK, Rows, Row, NoRow
  <2>3. RowAfter(e) \in Rows
    BY <1>2, <2>1, <2>2 DEF Rows
  <2>4. TypeOK'
    <3>1. holder[f] \cup {e} = {e}
      BY <1>1
    <3> QED
      BY <2>3, <3>1 DEF IInv, TypeOK
  <2>5. FoundStays'
    BY DEF FoundStays, IInv, TypeOK
  <2>6. LockedByWriter'
    BY <1>1 DEF LockedByWriter, IInv, TypeOK
  <2>7. WrittenContinues'
    BY <2>1 DEF WrittenContinues, IInv, TypeOK
  <2>8. SightingsHaveHistory'
    BY DEF SightingsHaveHistory, IInv
  <2>9. TickedOffIsRecorded'
    BY DEF TickedOffIsRecorded, IInv, TypeOK
  <2> QED
    BY <2>4, <2>5, <2>6, <2>7, <2>8, <2>9 DEF IInv
<1> QED
  BY <1>3, <1>4

\* The commit publishes the row with its history; whoever else had found the row still
\* finds it, and nobody else was about to commit it.
LEMMA CommitStep ==
    ASSUME IInv, NEW e \in Executions, UpsertHistoryAndCommit(e)
    PROVE  /\ IInv'
           /\ \A g \in Fingerprints : finding[g].exists =>
                finding'[g].exists /\ finding'[g].first = finding[g].first
<1> DEFINE f == current[e]
           first == IF finding[f].exists THEN finding[f].first ELSE ScanOf[e]
<1>1. f \in Fingerprints /\ pc[e] = "commit"
  BY DEF UpsertHistoryAndCommit, CommitWith, IInv, TypeOK
<1>2. written[e] = Row(first, ScanOf[e])
  BY <1>1 DEF IInv, WrittenContinues
<1>3. /\ finding' = [finding EXCEPT ![f] = Row(first, ScanOf[e])]
      /\ history' = history \cup {<<f, ScanOf[e]>>}
      /\ holder' = Unlocked(e)
      /\ todo' = [todo EXCEPT ![e] = @ \ {f}]
      /\ pc' = [pc EXCEPT ![e] = IF todo[e] = {f} THEN "done" ELSE "next"]
      /\ UNCHANGED <<raw, current, found, written, timeouts>>
  BY <1>2 DEF UpsertHistoryAndCommit, CommitWith, Goto
<1>4. ScanOf[e] \in Scans
  BY StoreAssumption
<1>5. finding[f].exists => finding[f].first \in Scans
  BY <1>1 DEF IInv, TypeOK, Rows, Row, NoRow
<1>6. \A d \in Executions \ {e} : pc[d] = "commit" => current[d] # f
  <2> SUFFICES ASSUME NEW d \in Executions \ {e}, pc[d] = "commit", current[d] = f
               PROVE  FALSE
    OBVIOUS
  <2>1. d \in holder[f] /\ e \in holder[f]
    BY <1>1 DEF IInv, LockedByWriter
  <2>2. holder[f] \in {{}} \cup {{c} : c \in Executions}
    BY <1>1 DEF IInv, TypeOK
  <2> QED
    BY <2>1, <2>2
<1>7. \A g \in Fingerprints : finding'[g] = IF g = f THEN Row(first, ScanOf[e])
                                                     ELSE finding[g]
  BY <1>3 DEF IInv, TypeOK
<1>8. \A g \in Fingerprints : finding[g].exists =>
        finding'[g].exists /\ finding'[g].first = finding[g].first
  BY <1>7 DEF Row
<1>9. TypeOK'
  <2>1. Row(first, ScanOf[e]) \in Rows
    BY <1>4, <1>5 DEF Rows
  <2>2. \A g \in Fingerprints : holder[g] \ {e} \in {{}} \cup {{d} : d \in Executions}
    BY DEF IInv, TypeOK
  <2> QED
    BY <1>1, <1>3, <1>4, <2>1, <2>2 DEF IInv, TypeOK, Unlocked
<1>10. FoundStays'
  BY <1>3, <1>8 DEF IInv, FoundStays, TypeOK
<1>11. LockedByWriter'
  BY <1>1, <1>3 DEF IInv, LockedByWriter, TypeOK, Unlocked
<1>12. WrittenContinues'
  BY <1>3, <1>6, <1>7 DEF IInv, WrittenContinues, TypeOK
<1>13. SightingsHaveHistory'
  <2> SUFFICES ASSUME NEW g \in Fingerprints, finding'[g].exists
               PROVE  {<<g, finding'[g].first>>, <<g, finding'[g].last>>} \subseteq history'
    BY DEF SightingsHaveHistory
  <2>1. CASE g = f
    <3>1. finding'[g].first = first /\ finding'[g].last = ScanOf[e]
      BY <1>7, <2>1 DEF Row
    <3>2. finding[f].exists => <<f, first>> \in history
      BY <1>1 DEF IInv, SightingsHaveHistory
    <3> QED
      BY <1>3, <2>1, <3>1, <3>2
  <2>2. CASE g # f
    BY <1>3, <1>7, <2>2 DEF IInv, SightingsHaveHistory
  <2> QED
    BY <2>1, <2>2
<1>14. TickedOffIsRecorded'
  <2> SUFFICES ASSUME NEW d \in Executions
               PROVE  /\ \A g \in raw'[d] \ todo'[d] :
                           finding'[g].exists /\ <<g, ScanOf[d]>> \in history'
                      /\ pc'[d] = "done" => todo'[d] = {}
    BY DEF TickedOffIsRecorded
  <2>1. raw[d] \subseteq Fingerprints
    BY DEF IInv, TypeOK
  <2>2. finding'[f].exists
    BY <1>1, <1>7 DEF Row
  <2>3. CASE d = e
    BY <1>3, <1>8, <2>1, <2>2, <2>3 DEF IInv, TickedOffIsRecorded, TypeOK
  <2>4. CASE d # e
    BY <1>3, <1>8, <2>1, <2>4 DEF IInv, TickedOffIsRecorded, TypeOK
  <2> QED
    BY <2>3, <2>4
<1> QED
  BY <1>8, <1>9, <1>10, <1>11, <1>12, <1>13, <1>14 DEF IInv

\* A scan without findings is done at once; a failing transaction rolls back.
LEMMA EndStep ==
    ASSUME IInv, NEW e \in Executions, NothingToPersist(e) \/ TransactionFails(e)
    PROVE  IInv'
<1>1. CASE NothingToPersist(e)
  <2> USE <1>1 DEF IInv, NothingToPersist, Goto
  <2>1. TypeOK'
    BY DEF TypeOK
  <2>2. FoundStays' /\ LockedByWriter'
    BY DEF FoundStays, LockedByWriter, TypeOK
  <2>3. WrittenContinues' /\ SightingsHaveHistory'
    BY DEF WrittenContinues, SightingsHaveHistory, TypeOK
  <2>4. TickedOffIsRecorded'
    BY DEF TickedOffIsRecorded, TypeOK
  <2> QED
    BY <2>1, <2>2, <2>3, <2>4
<1>2. CASE TransactionFails(e)
  <2> USE <1>2 DEF TransactionFails, Goto, Release
  <2>1. TypeOK'
    <3>1. \A g \in Fingerprints : holder[g] \ {e} \in {{}} \cup {{d} : d \in Executions}
      BY DEF IInv, TypeOK
    <3>2. timeouts + 1 \in 0..MaxTimeouts
      BY StoreAssumption DEF IInv, TypeOK
    <3> QED
      BY <3>1, <3>2 DEF IInv, TypeOK
  <2>2. FoundStays' /\ LockedByWriter'
    BY DEF IInv, FoundStays, LockedByWriter, TypeOK
  <2>3. WrittenContinues' /\ SightingsHaveHistory'
    BY DEF IInv, WrittenContinues, SightingsHaveHistory, TypeOK
  <2>4. TickedOffIsRecorded'
    BY DEF IInv, TickedOffIsRecorded, TypeOK
  <2> QED
    BY <2>1, <2>2, <2>3, <2>4 DEF IInv
<1> QED
  BY <1>1, <1>2

\* A step that changes nothing changes no part of the invariant.
LEMMA StutterStep == IInv /\ UNCHANGED vars => IInv'
  BY DEF vars, IInv, TypeOK, FoundStays, LockedByWriter, WrittenContinues,
         SightingsHaveHistory, TickedOffIsRecorded

\* The invariant is inductive.
LEMMA InvStep == IInv /\ [Next]_vars => IInv'
  BY FindUniqueStep, WriteRowStep, CommitStep, EndStep, StutterStep DEF Next, Step

\* The strengthened invariant of the finding store holds in every reachable state.
THEOREM Inductive == Spec => []IInv
  BY InvInit, InvStep, PTL DEF Spec

\* Rows, locks and executions keep their types: no two transactions hold one row.
THEOREM TypeCorrect == Spec => []TypeOK
<1>1. IInv => TypeOK
  BY DEF IInv
<1> QED
  BY <1>1, Inductive, PTL

\* Whatever fails or overlaps, the first and the last scan a row names have recorded it.
THEOREM HistoryIsComplete == Spec => []SightingsHaveHistory
<1>1. IInv => SightingsHaveHistory
  BY DEF IInv
<1> QED
  BY <1>1, Inductive, PTL

\* An execution that is done has recorded every finding of its scan.
THEOREM DoneIsRecorded == Spec => []ExecutionIsRecorded
<1>1. IInv => ExecutionIsRecorded
  BY DEF IInv, TickedOffIsRecorded, ExecutionIsRecorded
<1> QED
  BY <1>1, Inductive, PTL

\* No step of any execution changes the scan that first saw a finding, or loses its row.
THEOREM FirstSeenStays == Spec => FirstSeenIsFinal
<1> DEFINE Keeps == \A f \in Fingerprints : finding[f].exists =>
                      finding'[f].exists /\ finding'[f].first = finding[f].first
<1>1. IInv /\ [Next]_vars => [Keeps]_vars
  <2> SUFFICES ASSUME IInv, Next PROVE Keeps
    OBVIOUS
  <2>1. PICK e \in Executions : Step(e) \/ TransactionFails(e)
    BY DEF Next
  <2>2. CASE UpsertHistoryAndCommit(e)
    BY <2>2, CommitStep
  <2>3. CASE ~UpsertHistoryAndCommit(e)
    <3>1. UNCHANGED finding
      BY <2>1, <2>3 DEF Step, FindUnique, WriteRow, NothingToPersist, TransactionFails
    <3> QED
      BY <3>1
  <2> QED
    BY <2>2, <2>3
<1> QED
  BY <1>1, Inductive, PTL DEF Spec, FirstSeenIsFinal

(***************************************************************************)
(* ApiCalls                                                                *)
(***************************************************************************)

\* No cron was triggered.
LEMMA CallsInit == Calls!Init => Calls!IInv
<1> SUFFICES ASSUME Calls!Init PROVE Calls!IInv
  OBVIOUS
<1>1. Calls!TypeOK
  BY DEF Calls!Init, Calls!TypeOK
<1>2. Calls!RequestKnows /\ Calls!CronRowsTell
  BY DEF Calls!Init, Calls!RequestKnows, Calls!CronRowsTell
<1> QED
  BY <1>1, <1>2 DEF Calls!IInv

\* The requests of a cron run, one after the other.
LEMMA CronStepKeeps ==
    ASSUME Calls!IInv, NEW r \in Runs, Calls!CronStep(r)
    PROVE  Calls!IInv'
<1> USE DEF Calls!IInv, Calls!TypeOK, Calls!RequestKnows, Calls!CronRowsTell, Calls!browse
<1>1. ASSUME Calls!Trigger(r) PROVE Calls!IInv'
  BY <1>1 DEF Calls!Trigger
<1>2. ASSUME NEW code \in {"ok", "error"}, Calls!Answered(r, code) PROVE Calls!IInv'
  BY <1>2 DEF Calls!Answered, Calls!Record
<1>3. ASSUME NEW did \in {"nothing", "ok", "error"}, Calls!Throws(r, did) PROVE Calls!IInv'
  BY <1>3 DEF Calls!Throws, Calls!Record
<1>4. ASSUME Calls!Complete(r) PROVE Calls!IInv'
  BY <1>4 DEF Calls!Complete
<1>5. ASSUME Calls!CompleteFails(r) PROVE Calls!IInv'
  BY <1>5 DEF Calls!CompleteFails
<1> QED
  BY <1>1, <1>2, <1>3, <1>4, <1>5 DEF Calls!CronStep

\* A directory request and its job do not touch the cron runs; the end of the API process
\* loses those it was calling for.
LEMMA CallsStep == Calls!IInv /\ [Calls!Next]_(Calls!vars) => Calls!IInv'
<1> SUFFICES ASSUME Calls!IInv, [Calls!Next]_(Calls!vars) PROVE Calls!IInv'
  OBVIOUS
<1>1. ASSUME UNCHANGED Calls!cron, Calls!TypeOK' PROVE Calls!IInv'
  BY <1>1 DEF Calls!IInv, Calls!RequestKnows, Calls!CronRowsTell, Calls!cron
<1>2. ASSUME NEW b \in Browses, Calls!BrowseStep(b) PROVE Calls!IInv'
  <2> USE DEF Calls!WaiterBecomes, Calls!JobBecomes, Calls!cron
  <2>1. UNCHANGED Calls!cron
    BY <1>2 DEF Calls!BrowseStep, Calls!Browse, Calls!AddJob, Calls!Take, Calls!Finish,
                Calls!WorkerDies, Calls!Deliver, Calls!TimerFires, Calls!Respond
  <2>2. /\ waiter' \in [Browses -> {"idle", "adding", "waiting", "listed", "refused"}]
        /\ job' \in [Browses -> {"none", "queued", "active", "finished"}]
    BY <1>2 DEF Calls!IInv, Calls!TypeOK,
                Calls!BrowseStep, Calls!Browse, Calls!AddJob, Calls!Take, Calls!Finish,
                Calls!WorkerDies, Calls!Deliver, Calls!TimerFires, Calls!Respond
  <2>3. Calls!TypeOK'
    BY <2>1, <2>2 DEF Calls!IInv, Calls!TypeOK
  <2> QED
    BY <1>1, <2>1, <2>3
<1>3. CASE Calls!ApiDies
  BY <1>3 DEF Calls!ApiDies, Calls!IInv, Calls!TypeOK, Calls!RequestKnows, Calls!CronRowsTell
<1>4. CASE UNCHANGED Calls!vars
  BY <1>1, <1>4 DEF Calls!vars, Calls!cron, Calls!IInv, Calls!TypeOK
<1> QED
  BY <1>2, <1>3, <1>4, CronStepKeeps DEF Calls!Next

\* A run shown as succeeded was carried out, and one shown as running has a request that will
\* say how it ended unless that was lost: for any number of runs, whenever the API ends.
THEOREM CronRowsAreHonest == Calls!Spec => []CronRowsTell
<1>1. Calls!IInv => CronRowsTell
  BY DEF Calls!IInv, CronRowsTell
<1> QED
  BY <1>1, CallsInit, CallsStep, PTL DEF Calls!Spec
=============================================================================
