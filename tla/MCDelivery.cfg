SPECIFICATION DeliverySpec
CONSTANTS
    Users = {"user"}
    Services = {"listenbrainz", "lastfm"}
    Reachable <- MCReachable
    BatchSize = 1
    DueLimit = 2
    Budgets <- MCBudgets
    MaxJobs = 1
    r1 = r1
    r2 = r2
    a = a
    b = b
    Clients = {r1, r2}
    Tracks = {a, b}
    MaxPlayers = 3
    Limits <- MCLimits
INVARIANTS OutboxSound JukeboxSound
PROPERTIES Delivered JukeboxSettles
CHECK_DEADLOCK FALSE
