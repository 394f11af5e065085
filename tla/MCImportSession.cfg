SPECIFICATION FairSpec
CONSTANTS
    Paths = {"music", "torrents"}
    NoPath = "none"
    Pinned <- MCPinned
    MaxAsked = 3
    MaxLines = 1
INVARIANTS OneImport TerminalOfTheRun QueueServed
PROPERTIES QueueDrains ImplementsQueue
\* every folder that may be asked for was asked for, and nothing runs
CHECK_DEADLOCK FALSE
