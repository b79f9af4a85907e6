CONSTANTS
    U16 = 65536
    U32 = 8
    NameOrder <- MCNameOrder
    Absolute = {}
    Lower <- MCLower
    Env <- MCEnv
    Threads <- MCThreads
    Datasources <- MCDatasources
    Processors <- MCProcessors
    Nobody = Nobody
    MaxLeaks = 2
    Worlds <- MCWorlds
    Suffixed <- MCSuffixed
    AbiVersion = 1
SPECIFICATION StartupSpec
INVARIANTS StartupTypeOK StringsHaveOwners OneInstanceOneOwner CallsAreSafe SettingsMeetAssumptions PipelinesMatchFiles
PROPERTIES StartsAllOrNothing StartupEnds
CHECK_DEADLOCK FALSE
