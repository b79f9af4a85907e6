CONSTANTS
    Jobs <- MCJobs
    Threads <- MCThreads
    Enabled <- MCEnabled
    Cron <- MCCron
    Workers = 2
    MaxTime = 3
SPECIFICATION SchedSpec
INVARIANTS SchedTypeOK SlotsConserved NoLostWakeup RunsInCronOrder
PROPERTIES GateIsSemaphore SlotsAreServed DuePassRuns
CHECK_DEADLOCK FALSE
