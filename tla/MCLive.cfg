SPECIFICATION LiveSpec
CONSTANTS
    Paths = {"music", "torrents", "other"}
    NoPath = "none"
    Pinned <- MCPinned
    MaxChanges = 1
    MaxOthers = 1
    MaxEnding = 1
    Episodes = {e1}
    NoEpisode = none
    Users = {u1}
    Threads = {t1}
    Workers = {w1}
    Maintenance = m
    MaxCrashes = 1
    MaxAsked = 3
    Listeners = {u1, u2}
    StreamRequests = {r1, r2}
    TranscodesMax = 1
    UserTranscodesMax = 1
    ChunkQueueSize = 1
    ChunksMax = 2
INVARIANTS Remembered TranscodesHold
PROPERTIES WatchedImported DownloadsSettle StreamsFinish
CHECK_DEADLOCK FALSE
