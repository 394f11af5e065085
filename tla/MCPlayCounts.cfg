SPECIFICATION PlaySpec
CONSTANTS
    PlayedSongs = {s1, s2}
    NoSong = nosong
    SongPlayers = {p1, p2}
    PlaysMax = 2
    CountsMax = 2
INVARIANTS CountedOnce
CHECK_DEADLOCK FALSE
