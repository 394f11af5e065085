SPECIFICATION FairSpec
CONSTANTS
    Users = {"user"}
    Names <- MCNames
    Threads = {1, 2}
    MaxIds = 4
    Configurations <- MCConfigurations
INVARIANTS EditsFollowed PlaylistsSound
PROPERTIES MirrorsSound
CHECK_DEADLOCK FALSE
