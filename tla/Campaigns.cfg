SPECIFICATION Spec
CONSTANTS
    Cores = 1
    MaxSessions = 2
    MaxKills = 1
    Experiments = {"three", "four", "five", "six"}
    ParsecSessions <- MCParsecSessions
    HookSessions <- MCHookSessions
    CacheSessions <- MCCacheSessions
    LevelDbSessions <- MCLevelDbSessions
    InitBenchmarks <- MCFilled
    FilledBenchmarks <- MCFilled
    Toolchains <- MCToolchains
    NewSessions <- MCNewSessions
INVARIANTS RowsAreOfFinishedRuns ExitTellsOutcome TempsRemoved
PROPERTIES CompletedRunsKept
CHECK_DEADLOCK FALSE
