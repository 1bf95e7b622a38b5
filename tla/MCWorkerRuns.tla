---------------------------- MODULE MCWorkerRuns ----------------------------
EXTENDS WorkerRuns, TLC

CONSTANTS u1, c1

\* One unit-test run and one coverage run.
MCKindOf == u1 :> "unitTest" @@ c1 :> "coverage"
=============================================================================
