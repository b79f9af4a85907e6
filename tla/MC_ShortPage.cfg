CONSTANTS
    Ids = {1, 2, 3}
    Tables <- MCTables
    Main <- MCMain
    Initial <- MCInitialOne
    EtlTables <- MCEtlTables
    PageSize = 2
    Threshold = 2
    Mode = "append"
    Retry = 1
    None = None
    LiveSource = TRUE
    AutoCommit = TRUE
    MaxClock = 3
    MaxFaults = 0
    MaxCrashes = 0
SPECIFICATION RunnerSpec
INVARIANTS MarkCoversWritten
