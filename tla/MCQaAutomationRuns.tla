------------------------- MODULE MCQaAutomationRuns -------------------------
EXTENDS QaAutomationRuns, TLC

CONSTANTS production, staging, deploy, rerun

\* A mail-triggered production run and a targeted rerun on the staging queue.
MCQueueOf == (deploy :> production) @@ (rerun :> staging)
=============================================================================
