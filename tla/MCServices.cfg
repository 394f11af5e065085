SPECIFICATION ServicesSpec
CONSTANTS
    \* LoginLimiter
    Addresses = {ip1}
    Names = {alice}
    NoName = noname
    LoginThreads = {w1, w2}
    LimitSettings <- MCLimits
    LimClockMax = 3
    LimFailuresMax = 4
    \* AddressFilter
    Hosts = {h1, h2}
    Unparsed = unknown
    FilterThreads = {w1}
    FilterChangesMax = 2
    \* AppPasswords
    Labels = {phone, tv}
    AppThreads = {w1, w2}
    AppLimit = 2
    AppRowsMax = 4
    \* WebSessions
    People = {alice, root}
    Browsers = {b1, b2}
    Admins = {root}
    Nobody = nobody
    Cli = cli
    PasswordsMax = 3
    SessionsMax = 2
    ChangesMax = 1
    \* Migrations
    Accounts = {ann, bob}
    OldKey = k1
    OtherKey = k2
    OldVersions <- MCVersions
    Keyed = {ann}
    OldSongs = {o1, o2}
    OldAlbums = {a1}
    StableIds = {s1}
    NoLonger = none
    \* Backups
    BakKeys = {k1, k2}
    NoOldKey = nokey
    Columns = {settings, apps}
    Schemas = {1, 2}
    NoFile = nofile
    BakWritesMax = 2
    BakCopiesMax = 2
    \* Settings
    SettingItems = {i1, i2}
    SettingRequests = {ar1, ar2}
    Unset = Unset
    NoSetting = NoSetting
    RestartsMax = 1
    \* Notifications
    NoteEvents = {"blocked"}
    Services = {mail, chat}
    NoteConfigs <- MCNoteConfigs
    NoteThreads = {n1}
    NoteRowsMax = 1
    NotifiesMax = 1
    NoteEditsMax = 3
    \* Tokeniser
    Payloads = {y1, y2, y3}
    TokenTTL = 2
    TokensKept = 2
    TokenClockMax = 5
    TokenUsesMax = 6
    \* Stations
    Owners = {"ann"}
    RadioStreams = {"fm", "am"}
    Icons = {"logo"}
    NoIcon = "noicon"
    RadioThreads = {r1, r2}
    StationsMax = 2
    StationAsksMax = 4
    \* PlayQueue
    QueueSongs = {s1, s2}
    NoCurrent = none
    QueueReaders = {q1}
    QueueLength = 2
    SavesMax = 2
    AbsencesMax = 2
    \* EventBus
    Publishers = {p1, p2}
    Streams = {st1}
    Kinds = {chat, podcasts}
    Snapshots = {podcasts}
    QueueSize = 2
    StreamsAllowed = 1
    BusEventsMax = 2
    \* Chat
    Writers = {w1, w2}
    Panels = {p1}
    ChatRateMax = 2
    ChatWindow = 1
    ChatKept = 2
    ChatRetention = 1
    ChatPage = 1
    ChatNewerPage = 1
    ChatClockMax = 2
    ChatPostsMax = 4
    \* Shares
    ShareIds = {sh1}
    Visitors = {vi1}
    ShareRequests = {rq1, rq2}
    Unlimited = Unlimited
    NoShare = NoShare
    ShareLimits <- MCShareLimits
    UnlockedMax = 1
    ZipSlots = 1
    SharePasswordsMax = 3
    ShareServedMax = 2
    \* HLS
    Sessions = {hs1, hs2}
    HLSRequests = {hr1, hr2, hr3}
    HLSMax = 2
    HLSCacheMax = 1
    HLSSizeMax = 2
    HLSEncodesMax = 3
    \* StreamChoice
    SongFormats = {mp3, flac, ape}
    Targets = {mp3, flac}
    Lossless = {flac, ape}
    Mp3 = mp3
    Flac = flac
    Raw = raw
    Bitrates = {0, 128, 320}
    Profiles <- MCProfiles
    NotAsked = NotAsked
    \* PlayState
    PlayedSongs = {s1, s2}
    NoSong = nosong
    SongPlayers = {p1, p2}
    PlaysMax = 2
    CountsMax = 2
INVARIANTS
    LimitHolds AdmittedByLists SessionsHold UpgradeHolds SettingsHold NotesHold InStep
     SharesHold LoneCounted NoStationTwice
PROPERTIES
    AppPasswordsHold BackupsHold ChatHolds HLSHolds ChoiceHolds IndexReturned
\* every component may have answered all the requests the bounds allow
CHECK_DEADLOCK FALSE
