------------------------------ MODULE MCLibrary ------------------------------
(* What the server keeps about the music beside the beets database: the     *)
(* episodes of a podcast and the channels, the health of files, the history *)
(* of imports, the images of artists and the indexes of ids.  They share no *)
(* state here, so each behaviour is of one of them (`subject`) and the      *)
(* others stay as they started.  No property here is of liveness, so that   *)
(* users, threads, artists, files and hosts are interchangeable.            *)
EXTENDS PodcastDownloads, PodcastChannels, Health, ImportHistory, ArtistImages, LibraryIndex

VARIABLE subject

libraryVars == <<subject, vars, chanVars, healthVars, historyVars, imageVars, indexVars>>

MCOpmlFiles == {{[feed |-> f, host |-> h, tls |-> TRUE] : f \in Feeds, h \in FeedHosts}}
MCInbox     == {<<"inbox", "a">>, <<"inbox", "b">>}
MCCollection == <<"music", "a">>

\* The two users change places together with the two artists, files and hosts:
\* a behaviour has only one of these components.
MCPairs    == {Users, ImageArtists, Tracks, FeedHosts}
MCSwap     == [x \in UNION MCPairs |-> CHOOSE y \in UNION MCPairs : {x, y} \in MCPairs]
MCSymmetry == Permutations(Threads) \cup {MCSwap}

Else(name, start) == subject # name => start

LibraryInit ==
    /\ subject \in {"episodes", "channels", "health", "history", "images", "index"}
    /\ Init /\ ChannelsInit
    /\ HealthInit /\ Else("health", tracks = {} /\ \A t \in Tracks : audio[t].sound)
    /\ HistoryInit /\ Else("history", moves)
    /\ ImagesInit /\ Else("images", savesImages /\ \A a \in ImageArtists : tags[a] = "mbid")
    /\ IndexInit /\ entries = <<[mbids |-> {}, hash |-> CHOOSE h \in Hashes : TRUE]>>
    /\ Else("index", table = "items")

LibraryNext ==
    \/ subject = "episodes" /\ Next
       /\ UNCHANGED <<subject, chanVars, healthVars, historyVars, imageVars, indexVars>>
    \/ subject = "channels" /\ ChannelsNext
       /\ UNCHANGED <<subject, vars, healthVars, historyVars, imageVars, indexVars>>
    \/ subject = "health" /\ HealthNext
       /\ UNCHANGED <<subject, vars, chanVars, historyVars, imageVars, indexVars>>
    \/ subject = "history" /\ HistoryNext
       /\ UNCHANGED <<subject, vars, chanVars, healthVars, imageVars, indexVars>>
    \/ subject = "images" /\ ImagesNext
       /\ UNCHANGED <<subject, vars, chanVars, healthVars, historyVars, indexVars>>
    \/ subject = "index" /\ IndexNext
       /\ UNCHANGED <<subject, vars, chanVars, healthVars, historyVars, imageVars>>

LibrarySpec == LibraryInit /\ [][LibraryNext]_libraryVars
=============================================================================
