SPECIFICATION FairSpec
CONSTANTS
    Paths = {"music", "torrents"}
    NoPath = "none"
    Pinned <- MCPinned
    MaxAsked = 3
    MaxLines = 1
INVARIANTS RowsNameTheirRun
CHECK_DEADLOCK FALSE
