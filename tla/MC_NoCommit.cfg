CONSTANTS
    Ids = {1, 2, 3}
    Tables <- MCTables
    Main <- MCMain
    Initial <- MCInitial
    EtlTables <- MCEtlTables
    PageSize = 2
    Threshold = 2
    Mode = "append"
    Retry = 1
    None = None
    LiveSource = FALSE
    AutoCommit = FALSE
    MaxClock = 4
    MaxFaults = 0
    MaxCrashes = 1
SPECIFICATION RunnerSpec
INVARIANTS MarkCoversWritten
