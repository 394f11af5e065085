SPECIFICATION LibrarySpec
CONSTANTS
    \* PodcastDownloads
    Episodes = {e1}
    NoEpisode = none
    Users = {u1, u2}
    Threads = {t1, t2}
    Workers = {w1}
    Maintenance = m
    MaxCrashes = 1
    MaxAsked = 3
    \* PodcastChannels
    Feeds = {f1}
    FeedHosts = {fh1, fh2}
    OpmlFiles <- MCOpmlFiles
    Subscribers = {ann}
    ChannelThreads = {t1, t2}
    OpmlWorker = opml
    NoSubscriber = nobody
    ChannelsMax = 2
    ChannelAsksMax = 2
    ChannelStopsMax = 1
    \* Health
    Tracks = {tr1, tr2}
    SweepMin = 2
    FileTimesMax = 2
    ChurnMax = 2
    ScansMax = 2
    \* ImportHistory
    Inbox <- MCInbox
    Library <- MCCollection
    TaskIds = {1, 2}
    HistoryMaxRows = 2
    HistoryRunsMax = 2
    \* ArtistImages
    ImageArtists = {ar1, ar2}
    ImageThreads = {i1}
    Fetcher = fetcher
    FailuresMax = 1
    TagsMax = 2
    ImageAsksMax = 2
    \* LibraryIndex
    Mbids = {mb1}
    Hashes = {ha1}
    IndexThreads = {t1, t2}
    NoThread = nothread
    NotBuilt = notbuilt
    NoEntry = noentry
    EntriesMax = 2
    IndexBudget = 4
SYMMETRY MCSymmetry
INVARIANTS DownloadsSound HistoryHolds LookupsHold
PROPERTIES ChannelsHold HealthHolds ImagesHold
\* every request may have been made
CHECK_DEADLOCK FALSE
