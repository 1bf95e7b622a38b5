---------------------------- MODULE RunLifecycle ----------------------------
(***************************************************************************)
(* What the platform promises the user of a run (a scan, a unit-test       *)
(* generation run, a coverage gate run): the status shown for it only      *)
(* moves forward, a finished run stays finished, and every accepted run    *)
(* finishes.  The machinery that keeps the promise - API process, Redis    *)
(* queue, worker processes, database - is in the modules that refine this  *)
(* one.                                                                    *)
(***************************************************************************)
CONSTANT Runs               \* run identifiers

VARIABLE status             \* status[r]: the status column of run r

Terminal == {"completed", "failed", "cancelled"}
Statuses == {"absent", "queued", "running"} \cup Terminal

Init == status = [r \in Runs |-> "absent"]

Move(r, from, to) == /\ status[r] \in from
                     /\ status' = [status EXCEPT ![r] = to]

Accept(r) == Move(r, {"absent"}, "queued")
Start(r)  == Move(r, {"queued"}, "running")
Finish(r) == \E result \in {"completed", "failed"} : Move(r, {"running"}, result)
Cancel(r) == Move(r, {"queued", "running"}, "cancelled")

Next == \E r \in Runs : Accept(r) \/ Start(r) \/ Finish(r) \/ Cancel(r)

Spec == /\ Init
        /\ [][Next]_status
        /\ \A r \in Runs : WF_status(Start(r)) /\ WF_status(Finish(r))
=============================================================================
