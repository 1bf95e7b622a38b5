SPECIFICATION FairSpec
CONSTANTS
    production = production
    staging = staging
    deploy = deploy
    rerun = rerun
    NoJob = NoJob
    Queues = {production, staging}
    Production = production
    Jobs = {deploy, rerun}
    QueueOf <- MCQueueOf
    Reruns = {rerun}
    Tests = {t1, t2}
    MaxStalledCount = 1
    MaxRestarts = 2
    MaxFaults = 2
CHECK_DEADLOCK FALSE
INVARIANTS RunningIsLive CompletedIsWhole OneMailPerRun
PROPERTY Settles
