---------------------------- MODULE FindingStore ----------------------------
(***************************************************************************)
(* The Finding and FindingHistory tables of one repository while scans     *)
(* persist into them: PrismaFindingRepository.upsertFromScan, called once  *)
(* per raw finding by RunScanUseCase.persistFindings.                      *)
(*                                                                         *)
(* Each upsert is one interactive transaction at Postgres's default read   *)
(* committed isolation: a lookup by (repo, fingerprint), then an update or *)
(* an insert, then the history row.  Transactions of different executions  *)
(* overlap: two worker processes may execute two scans of the repo, or -   *)
(* after a redelivery - the same scan.                                     *)
(***************************************************************************)
EXTENDS Naturals, FiniteSets, Sequences

CONSTANTS
    Executions,         \* executions of RunScanUseCase persisting findings
    Scans,              \* scans of the repository
    ScanOf,             \* ScanOf[e]: the scan that execution e executes
    Fingerprints,
    MaxTimeouts         \* bound: transactions that time out or lose the database

ASSUME StoreAssumption == /\ ScanOf \in [Executions -> Scans]
                          /\ Fingerprints # {}
                          /\ MaxTimeouts \in Nat

NoRow == [exists |-> FALSE]
Row(first, last) == [exists |-> TRUE, first |-> first, last |-> last]

VARIABLES
    finding,            \* finding[f]: the committed row of fingerprint f
    history,            \* the committed FindingHistory rows: <<fingerprint, scan>>
    holder,             \* holder[f]: executions whose open transaction wrote f's row
    raw,                \* raw[e]: fingerprints of the findings runScan returned to e
    todo,               \* todo[e]: fingerprints execution e has still to upsert
    pc,                 \* "next", "write", "commit", "done" or "failed"
    current,            \* current[e]: the fingerprint being upserted
    found,              \* found[e]: the row findUnique returned
    written,            \* written[e]: the row written, not committed yet
    timeouts

vars == <<finding, history, holder, raw, todo, pc, current, found, written, timeouts>>

Rows == {NoRow} \cup {Row(a, b) : a, b \in Scans}

TypeOK ==
    /\ finding \in [Fingerprints -> Rows]
    /\ history \subseteq Fingerprints \X Scans
    /\ holder \in [Fingerprints -> {{}} \cup {{e} : e \in Executions}]
    /\ raw \in [Executions -> SUBSET Fingerprints]
    /\ todo \in [Executions -> SUBSET Fingerprints]
    /\ pc \in [Executions -> {"next", "write", "commit", "done", "failed"}]
    /\ current \in [Executions -> Fingerprints]
    /\ found \in [Executions -> Rows] /\ written \in [Executions -> Rows]
    /\ timeouts \in 0..MaxTimeouts

\* Executions start with any set of findings and an empty repository; two executions
\* of one scan scan the same checkout and report the same.
Init ==
    /\ finding = [f \in Fingerprints |-> NoRow] /\ history = {}
    /\ holder = [f \in Fingerprints |-> {}]
    /\ raw \in [Executions -> SUBSET Fingerprints] /\ todo = raw
    /\ \A d, e \in Executions : ScanOf[d] = ScanOf[e] => raw[d] = raw[e]
    /\ pc = [e \in Executions |-> "next"]
    /\ current = [e \in Executions |-> CHOOSE f \in Fingerprints : TRUE]
    /\ found = [e \in Executions |-> NoRow] /\ written = [e \in Executions |-> NoRow]
    /\ timeouts = 0

Goto(e, next) == pc' = [pc EXCEPT ![e] = next]
Release(e) == holder' = [f \in Fingerprints |-> holder[f] \ {e}]

\* The findUnique of the next finding's transaction: it sees committed rows only.
FindUnique(e, f) ==
    /\ pc[e] = "next" /\ f \in todo[e]
    /\ current' = [current EXCEPT ![e] = f]
    /\ found' = [found EXCEPT ![e] = finding[f]]
    /\ Goto(e, "write")
    /\ UNCHANGED <<finding, history, holder, raw, todo, written, timeouts>>

\* The row the transaction leaves: an update keeps firstSeenScanId of the row as it
\* is when the statement gets the lock, an insert sets both.
RowAfter(e) ==
    IF found[e].exists THEN Row(finding[current[e]].first, ScanOf[e])
                       ELSE Row(ScanOf[e], ScanOf[e])

\* Mutant: the conflict is caught and the finding skipped.
WriteRowSkipsConflict(e) ==
    LET f == current[e] IN
    /\ pc[e] = "write" /\ holder[f] \subseteq {e}
    /\ IF ~found[e].exists /\ finding[f].exists
       THEN /\ todo' = [todo EXCEPT ![e] = @ \ {f}]
            /\ Goto(e, "next")
            /\ UNCHANGED <<holder, written>>
       ELSE /\ written' = [written EXCEPT ![e] = RowAfter(e)]
            /\ holder' = [holder EXCEPT ![f] = @ \cup {e}]
            /\ Goto(e, "commit")
            /\ UNCHANGED todo
    /\ UNCHANGED <<finding, history, raw, current, found, timeouts>>

\* The update or insert waits while another open transaction has written the row (or
\* inserted the same key); then it goes on - but an insert whose key was committed
\* meanwhile breaks @@unique([repoId, fingerprint]) and fails the whole scan.
WriteRow(e) ==
    LET f == current[e] IN
    /\ pc[e] = "write" /\ holder[f] \subseteq {e}
    /\ IF ~found[e].exists /\ finding[f].exists
       THEN Goto(e, "failed") /\ Release(e) /\ UNCHANGED written
       ELSE /\ written' = [written EXCEPT ![e] = RowAfter(e)]
            /\ holder' = [holder EXCEPT ![f] = @ \cup {e}]
            /\ Goto(e, "commit")
    /\ UNCHANGED <<finding, history, raw, todo, current, found, timeouts>>

\* What a commit makes visible, and what it lets go of.
CommitWith(e, newHistory, newHolder) ==
    LET f == current[e] IN
    /\ pc[e] = "commit"
    /\ finding' = [finding EXCEPT ![f] = written[e]]
    /\ history' = newHistory
    /\ holder' = newHolder
    /\ todo' = [todo EXCEPT ![e] = @ \ {f}]
    /\ Goto(e, IF todo[e] = {f} THEN "done" ELSE "next")
    /\ UNCHANGED <<raw, current, found, written, timeouts>>

Unlocked(e) == [f \in Fingerprints |-> holder[f] \ {e}]

\* Mutant: only an insert records its history.
CommitHistoryOfInserts(e) ==
    CommitWith(e, IF found[e].exists THEN history
                  ELSE history \cup {<<current[e], ScanOf[e]>>}, Unlocked(e))

\* Mutant: all upserts of a scan share one transaction, so its locks stay.
CommitKeepsLocks(e) ==
    CommitWith(e, history \cup {<<current[e], ScanOf[e]>>},
               IF todo[e] = {current[e]} THEN Unlocked(e) ELSE holder)

\* findingHistory.upsert and COMMIT: the row and its history become visible together.
UpsertHistoryAndCommit(e) ==
    CommitWith(e, history \cup {<<current[e], ScanOf[e]>>}, Unlocked(e))

NothingToPersist(e) ==
    /\ pc[e] = "next" /\ todo[e] = {}
    /\ Goto(e, "done")
    /\ UNCHANGED <<finding, history, holder, raw, todo, current, found, written,
                   timeouts>>

\* maxWait or timeout expires, or the connection is lost: the transaction rolls back,
\* upsertFromScan throws and the execution fails.
TransactionFails(e) ==
    /\ pc[e] \in {"next", "write", "commit"} /\ todo[e] # {}
    /\ timeouts < MaxTimeouts /\ timeouts' = timeouts + 1
    /\ Goto(e, "failed") /\ Release(e)
    /\ UNCHANGED <<finding, history, raw, todo, current, found, written>>

Step(e) == \/ \E f \in Fingerprints : FindUnique(e, f)
           \/ WriteRow(e) \/ UpsertHistoryAndCommit(e) \/ NothingToPersist(e)

Next == \E e \in Executions : Step(e) \/ TransactionFails(e)

Spec == Init /\ [][Next]_vars
FairSpec == Spec /\ \A e \in Executions : WF_vars(Step(e))

-----------------------------------------------------------------------------
\* A failing or losing transaction leaves nothing half-written: both scans a row names -
\* the first and the last to have seen it - have their history row.
SightingsHaveHistory ==
    \A f \in Fingerprints : finding[f].exists =>
        {<<f, finding[f].first>>, <<f, finding[f].last>>} \subseteq history

\* docs/adr/0021: firstSeenScanId never changes once set, whichever executions race.
FirstSeenIsFinal ==
    [][\A f \in Fingerprints :
          finding[f].exists => finding'[f].exists /\ finding'[f].first = finding[f].first]_vars

\* A scan that goes on to "completed" has recorded everything its plugins returned,
\* whatever the other executions did meanwhile.
ExecutionIsRecorded ==
    \A e \in Executions : pc[e] = "done" =>
        \A f \in raw[e] : finding[f].exists /\ <<f, ScanOf[e]>> \in history

(***************************************************************************)
(* The inductive invariant behind the three safety properties (proved in   *)
(* Dashboard_proofs).  A row that was found stays; a row is locked by      *)
(* the one execution about to commit it, which continues the row as it is; *)
(* what an execution has ticked off is in the database.                    *)
(***************************************************************************)
FoundStays ==
    \A e \in Executions : pc[e] \in {"write", "commit"} /\ found[e].exists =>
        finding[current[e]].exists

LockedByWriter ==
    \A e \in Executions, f \in Fingerprints :
        e \in holder[f] <=> pc[e] = "commit" /\ current[e] = f

WrittenContinues ==
    \A e \in Executions : pc[e] = "commit" =>
        LET row == finding[current[e]] IN
        written[e] = Row(IF row.exists THEN row.first ELSE ScanOf[e], ScanOf[e])

TickedOffIsRecorded ==
    \A e \in Executions :
        /\ \A f \in raw[e] \ todo[e] : finding[f].exists /\ <<f, ScanOf[e]>> \in history
        /\ pc[e] = "done" => todo[e] = {}

IInv == TypeOK /\ FoundStays /\ LockedByWriter /\ WrittenContinues
        /\ SightingsHaveHistory /\ TickedOffIsRecorded

\* No execution waits for ever on another's rows: with one transaction per finding an
\* execution holds at most one row, so there is no circular wait.
EveryExecutionEnds == <>[](\A e \in Executions : pc[e] \in {"done", "failed"})
=============================================================================
