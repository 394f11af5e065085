----------------------------- MODULE MCServices -----------------------------
(* The components that answer requests, whose safety is checked in one run. *)
(* They share no state, so each behaviour is of one of them (`subject`):    *)
(* the others stay as they started, in the first of their initial states.   *)
EXTENDS LoginLimiter, AddressFilter, AppPasswords, WebSessions, Migrations, Backups, Settings,
        Notifications, Tokeniser, Stations, PlayQueue, EventBus, Chat, Shares, HLS,
        StreamChoice, PlayState

VARIABLE subject

doorVars  == <<limVars, filterVars, appVars, webVars>>
storeVars == <<migVars, bakVars, setVars, noteVars>>
roomVars  == <<stationVars, queueVars, busVars, chatVars, shareVars>>
mediaVars == <<tokenVars, hlsVars, choiceVars, playVars>>
allVars   == <<subject, doorVars, storeVars, roomVars, mediaVars>>

-----------------------------------------------------------------------------
MCLimits ==
    {[max |-> 2, window |-> 2, ipMax |-> 3, ipWindow |-> 3],
     [max |-> 1, window |-> 2, ipMax |-> 2, ipWindow |-> 3]}

MCVersions == {0, 4, 5, 7}

MCNote(urls, on) == [event |-> "blocked", urls |-> urls, on |-> on, strict |-> FALSE]

\* Two notifications of the file, in either order, or only the second one.
MCNoteConfigs ==
    LET one == MCNote(Services, TRUE)
        two == [MCNote({CHOOSE s \in Services : TRUE}, FALSE) EXCEPT !.strict = TRUE]
    IN  {<< >>, <<one, two>>, <<two, one>>, <<two>>}

MCShareLimits == {1, Unlimited}
MCProfiles    == {<< >>, <<Flac, Mp3>>, <<Mp3>>, <<Flac>>}

-----------------------------------------------------------------------------
Subjects ==
    {"limiter", "filter", "apps", "sessions", "migrations", "backups", "settings", "notes",
     "tokens", "stations", "queue", "bus", "chat", "shares", "hls", "choice", "plays"}

Else(name, start) == subject # name => start

ServicesInit ==
    /\ subject \in Subjects
    /\ LimInit /\ Else("limiter", limits = CHOOSE l \in LimitSettings : TRUE)
    /\ FilterInit /\ Else("filter", whiteRaw = {} /\ blackRaw = {})
    /\ AppInit /\ WebInit
    /\ MigInit /\ Else("migrations", /\ disk = OfVersion(7, 0, {})
                                       /\ \A o \in OldSongs \cup OldAlbums : run.ids[o] = NoLonger)
    /\ BakInit /\ Else("backups", archives = {Encrypted({0}, bakKey, 1)}
                                       /\ bakKey = CHOOSE k \in BakKeys : TRUE)
    /\ SettingsInit /\ Else("settings", isList /\ outside = Unset)
    /\ NotesInit /\ Else("notes", noteConfig = << >>)
    /\ TokensInit /\ StationsInit /\ QueueInit /\ BusInit /\ ChatInit /\ SharesInit /\ HLSInit
    /\ ChoiceInit /\ Else("choice", limit = 0 /\ server = CHOOSE s \in Servers : TRUE)
    /\ PlayInit

ServicesNext ==
    \/ /\ UNCHANGED <<subject, storeVars, roomVars, mediaVars>>
       /\ \/ subject = "limiter" /\ LimNext /\ UNCHANGED <<filterVars, appVars, webVars>>
          \/ subject = "filter" /\ FilterNext /\ UNCHANGED <<limVars, appVars, webVars>>
          \/ subject = "apps" /\ AppNext /\ UNCHANGED <<limVars, filterVars, webVars>>
          \/ subject = "sessions" /\ WebNext /\ UNCHANGED <<limVars, filterVars, appVars>>
    \/ /\ UNCHANGED <<subject, doorVars, roomVars, mediaVars>>
       /\ \/ subject = "migrations" /\ MigNext /\ UNCHANGED <<bakVars, setVars, noteVars>>
          \/ subject = "backups" /\ BakNext /\ UNCHANGED <<migVars, setVars, noteVars>>
          \/ subject = "settings" /\ SettingsNext /\ UNCHANGED <<migVars, bakVars, noteVars>>
          \/ subject = "notes" /\ NotesNext /\ UNCHANGED <<migVars, bakVars, setVars>>
    \/ /\ UNCHANGED <<subject, doorVars, storeVars, mediaVars>>
       /\ \/ subject = "stations" /\ StationsNext /\ UNCHANGED <<queueVars, busVars, chatVars, shareVars>>
          \/ subject = "queue" /\ QueueNext /\ UNCHANGED <<stationVars, busVars, chatVars, shareVars>>
          \/ subject = "bus" /\ BusNext /\ UNCHANGED <<stationVars, queueVars, chatVars, shareVars>>
          \/ subject = "chat" /\ ChatNext /\ UNCHANGED <<stationVars, queueVars, busVars, shareVars>>
          \/ subject = "shares" /\ SharesNext /\ UNCHANGED <<stationVars, queueVars, busVars, chatVars>>
    \/ /\ UNCHANGED <<subject, doorVars, storeVars, roomVars>>
       /\ \/ subject = "tokens" /\ TokensNext /\ UNCHANGED <<hlsVars, choiceVars, playVars>>
          \/ subject = "hls" /\ HLSNext /\ UNCHANGED <<tokenVars, choiceVars, playVars>>
          \/ subject = "choice" /\ ChoiceNext /\ UNCHANGED <<tokenVars, hlsVars, playVars>>
          \/ subject = "plays" /\ PlayNext /\ UNCHANGED <<tokenVars, hlsVars, choiceVars>>

ServicesSpec == ServicesInit /\ [][ServicesNext]_allVars
=============================================================================
