SPECIFICATION Spec
CONSTANTS
    Episodes = {e1}
    NoEpisode = none
    Users = {u1}
    Threads = {t1}
    Workers = {w1}
    Maintenance = m
    MaxCrashes = 0
    MaxAsked = 2
INVARIANTS ReleasedIsPurged
CHECK_DEADLOCK FALSE
