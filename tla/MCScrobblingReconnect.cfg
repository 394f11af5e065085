SPECIFICATION Spec
CONSTANTS
    Users = {"user"}
    Services = {"listenbrainz", "lastfm"}
    Reachable <- MCReachable
    BatchSize = 1
    DueLimit = 2
    Budgets <- MCBudgets
    MaxJobs = 1
INVARIANTS BrokenByItsOwn
CHECK_DEADLOCK FALSE
