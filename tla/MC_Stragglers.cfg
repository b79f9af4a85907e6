CONSTANTS
    N = 2
    MaxPasses = 2
    Tables <- MCTables
    Main <- MCMain
    Rows <- MCRows
    KeyHash <- MCHash
    HasPk = TRUE
    Output <- MCOutput
    Capacity = 1
    Threshold = 2
    Mode = "upsert"
    Retry = 1
    MaxFaults = 2
    Prior <- MCPrior
SPECIFICATION PoolSpec
INVARIANTS OkLeavesNewest
