CONSTANTS
    Lex <- MCLex
    Numeral <- MCNumeral
    Collate <- MCCollate
    One = 4
    Epsilon = 2
    I64 = 128
    Exact = 32
    Jobs_ <- MCJobs
    Clean = {"j", "k", "_"}
    Env = {"HOME"}
    MaxPasses = 3
    MaxFaults = 1
    MaxCrashes = 1
SPECIFICATION PathSpec
INVARIANTS DataTypeOK NothingSkipped RereadsHaveACause MarkIsARowRead PluginsAgree UpsertIsRepeatable TargetHoldsNewest DetailsReachTheirTable WellSetNeverFails FiltersLikeWhere
CHECK_DEADLOCK FALSE
