SPECIFICATION Spec
CONSTANTS
    Cores = 1
    Repeats = 2
    MaxSessions = 2
    MaxKills = 1
    Nodes <- MCNodes
    Programs = {"one", "two", "three", "merge"}
    OneSessions <- MCOneSessions
    TwoSessions <- MCTwoSessions
    ThreeSessions <- MCThreeSessions
    Combos <- MCCombos
    MergeSessions <- MCMergeSessions
INVARIANTS ExitTellsOutcome FailuresKeepTheirLogs RowsOfFinishedSweeps PinnedNumaFirst MergeTakesLast
PROPERTIES CompletedSweepsKept
CHECK_DEADLOCK FALSE
