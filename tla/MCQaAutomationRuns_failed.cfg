SPECIFICATION Spec
CONSTANTS
    production = production
    staging = staging
    deploy = deploy
    rerun = rerun
    NoJob = NoJob
    Queues = {production, staging}
    Production = production
    Jobs = {deploy, rerun}
    QueueOf <- MCQueueOf
    Reruns = {rerun}
    Tests = {t1, t2}
    MaxStalledCount = 1
    MaxRestarts = 0
    MaxFaults = 1
CHECK_DEADLOCK FALSE
PROPERTY CompletedIsFinal
