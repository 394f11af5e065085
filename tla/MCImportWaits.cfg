SPECIFICATION FairSpec
CONSTANTS
    Paths = {"music", "torrents"}
    NoPath = "none"
    Pinned <- MCPinned
    MaxAsked = 3
    MaxLines = 1
PROPERTIES WaitsBehind
CHECK_DEADLOCK FALSE
