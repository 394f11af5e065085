------------------------------- MODULE Stations -------------------------------
(***************************************************************************)
(* The internet radio stations of each user (core/services/radio.py and    *)
(* its routes).  A stream has an address of http and one of https, which   *)
(* count as the same station.  A creation looks for the stream among the   *)
(* owner's stations, then fetches an icon, which takes a while, then       *)
(* inserts the row; an update reads the row, checks the new address, then  *)
(* writes it, with the image it read unless it brings one.                 *)
(***************************************************************************)
EXTENDS Integers, FiniteSets

CONSTANTS
    Owners, RadioStreams, Icons, NoIcon,
    RadioThreads, StationsMax, StationAsksMax   \* threads; bounds

ASSUME StationsAssumption == NoIcon \notin Icons /\ {StationsMax, StationAsksMax} \subseteq Nat

VARIABLES
    stations,       \* internet_radio_stations, by id; history: how many addresses
                    \* had been written when that of a station was looked for (from),
                    \* and when it was written (to)
    lastStation,    \* the last id given
    written,        \* history: how many addresses were written
    stationActs, stationAsks

stationVars == <<stations, lastStation, written, stationActs, stationAsks>>

Address   == [stream : RadioStreams, tls : BOOLEAN]
NoAsk     == [pc |-> "idle"]

StationsInit ==
    /\ stations = << >> /\ lastStation = 0 /\ written = 0
    /\ stationActs = [t \in RadioThreads |-> NoAsk] /\ stationAsks = 0

StAt(t, pc)   == stationActs[t].pc = pc
StDoes(t, a)  == stationActs' = [stationActs EXCEPT ![t] = a]

AskStation(t, a) ==
    /\ StAt(t, "idle") /\ StDoes(t, a)
    /\ stationAsks < StationAsksMax /\ stationAsks' = stationAsks + 1

-----------------------------------------------------------------------------
(* Mutant of SameStation: https is not tried against http.                  *)
SameAddress(one, other) == one = other

(* stream_url = ? OR stream_url = ?, the other being https_variant().       *)
SameStation(one, other) == one \in {other, [other EXCEPT !.tls = ~@]}

Mine(u)         == {n \in DOMAIN stations : stations[n].owner = u}
Clash(u, at, n) == {m \in Mine(u) \ {n} : SameStation(stations[m].at, at)}

(* create_station(): an uploaded image spares the fetch.                    *)
CreateStation(t, u, at, icon) ==
    /\ AskStation(t, IF Clash(u, at, 0) # {} THEN NoAsk
                     ELSE [pc |-> "insert", owner |-> u, at |-> at, icon |-> icon, from |-> written])
    /\ UNCHANGED <<stations, lastStation, written>>

InsertStation(t) ==
    /\ StAt(t, "insert") /\ lastStation < StationsMax
    /\ LET a == stationActs[t] IN \E icon \in IF a.icon = NoIcon THEN Icons \cup {NoIcon} ELSE {a.icon} :
         /\ lastStation' = lastStation + 1 /\ written' = written + 1
         /\ stations' = [n \in DOMAIN stations \cup {lastStation'} |->
                IF n = lastStation'
                THEN [owner |-> a.owner, at |-> a.at, icon |-> icon, from |-> a.from, to |-> written']
                ELSE stations[n]]
    /\ StDoes(t, NoAsk) /\ UNCHANGED stationAsks

(* The routes read the station, and its image with it; the address is then  *)
(* probed, so other requests come between.                                  *)
EditStation(t, u, n, at, upload) ==
    /\ n \in Mine(u)
    /\ AskStation(t, [pc |-> "check", owner |-> u, id |-> n, at |-> at,
                      icon |-> IF upload = "kept" THEN stations[n].icon ELSE upload])
    /\ UNCHANGED <<stations, lastStation, written>>

(* update_station(): the station is still there, and no other clashes.      *)
CheckStation(t) ==
    /\ StAt(t, "check")
    /\ LET a == stationActs[t] IN
       StDoes(t, IF a.id \notin Mine(a.owner) \/ Clash(a.owner, a.at, a.id) # {} THEN NoAsk
                 ELSE [pc |-> "update", id |-> a.id, at |-> a.at, icon |-> a.icon, from |-> written])
    /\ UNCHANGED <<stations, lastStation, written, stationAsks>>

WriteStation(t) ==
    /\ StAt(t, "update")
    /\ LET a == stationActs[t] IN
       IF a.id \notin DOMAIN stations THEN UNCHANGED <<stations, written>>
       ELSE /\ written' = written + 1
            /\ stations' = [stations EXCEPT ![a.id] =
                   [owner |-> @.owner, at |-> a.at, icon |-> a.icon, from |-> a.from, to |-> written']]
    /\ StDoes(t, NoAsk) /\ UNCHANGED <<lastStation, stationAsks>>

DeleteStation(t, u, n) ==
    /\ n \in Mine(u) /\ AskStation(t, NoAsk)
    /\ stations' = [m \in DOMAIN stations \ {n} |-> stations[m]]
    /\ UNCHANGED <<lastStation, written>>

StationsNext ==
    \E t \in RadioThreads :
       \/ \E u \in Owners :
            \/ \E at \in Address, icon \in Icons \cup {NoIcon} : CreateStation(t, u, at, icon)
            \/ \E n \in DOMAIN stations :
                 \/ \E at \in Address, upload \in Icons \cup {NoIcon, "kept"} : EditStation(t, u, n, at, upload)
                 \/ DeleteStation(t, u, n)
       \/ InsertStation(t) \/ CheckStation(t) \/ WriteStation(t)

StationsSpec == StationsInit /\ [][StationsNext]_stationVars

-----------------------------------------------------------------------------
(* Two stations of a user have the same stream, by http or by https, only   *)
(* when the requests that gave them their addresses, creations or edits,    *)
(* were under way at once: each had looked for the stream before the other  *)
(* wrote it. One after the other they never make a station twice, whatever  *)
(* is edited or deleted in between.                                         *)
NoStationTwice ==
    \A u \in Owners, m, n \in DOMAIN stations :
        /\ m # n /\ {m, n} \subseteq Mine(u) /\ stations[m].at.stream = stations[n].at.stream
        => stations[m].from < stations[n].to /\ stations[n].from < stations[m].to
=============================================================================
