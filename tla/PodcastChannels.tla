--------------------------- MODULE PodcastChannels ---------------------------
(***************************************************************************)
(* The podcast channels of core/services/podcasts.py: who is subscribed to *)
(* what, the creation of a channel and its refresh, the end of a channel   *)
(* with its last subscriber, the OPML imports, and what a restart leaves.  *)
(* A channel stands for its episodes, which its refresh stores; their      *)
(* downloads are module PodcastDownloads.  A feed is what its title tells  *)
(* apart: it may be at several hosts, by http and by https.                *)
(*                                                                         *)
(* A step is one transaction (a SELECT before the first write of its block *)
(* is one of its own), one section under a lock or one call to the feed.   *)
(***************************************************************************)
EXTENDS Integers, FiniteSets

CONSTANTS
    Feeds, FeedHosts,
    OpmlFiles,          \* the sets of addresses users import
    Subscribers,
    ChannelThreads,     \* threads of requests and of background refreshes
    OpmlWorker,         \* the one thread of the OPML pool
    NoSubscriber,
    ChannelsMax,        \* bound: channels created
    ChannelAsksMax,     \* bound: requests
    ChannelStopsMax     \* bound: restarts of the server

ASSUME ChannelsAssumption ==
    /\ OpmlFiles \subseteq SUBSET [feed : Feeds, host : FeedHosts, tls : BOOLEAN] \ {{}}
    /\ \A urls \in OpmlFiles : IsFiniteSet(urls)
    /\ OpmlWorker \notin ChannelThreads /\ NoSubscriber \notin Subscribers
    /\ {ChannelsMax, ChannelAsksMax, ChannelStopsMax} \subseteq Nat

VARIABLES
    channels,       \* podcast_channels
    lastChannel,    \* the last id given (AUTOINCREMENT)
    subscriptions,  \* podcast_subscriptions
    refreshing,     \* _refreshing_channels
    chanActs,       \* what each thread is doing
    importing,      \* the users whose import holds the limit
    imports,        \* _opml_imports
    importQueue,    \* the imports that wait for the worker
    recovered,      \* resume_downloads() has run since the start
    chanAsked, chanStops

opml     == <<importing, imports, importQueue>>
chanVars == <<channels, lastChannel, subscriptions, refreshing, chanActs, opml,
              recovered, chanAsked, chanStops>>

Url      == [feed : Feeds, host : FeedHosts, tls : BOOLEAN]
ChannelActors   == ChannelThreads \cup {OpmlWorker}
NoUrl    == [feed |-> NoSubscriber, host |-> NoSubscriber, tls |-> FALSE]
NoImport == [total |-> 0, done |-> 0, failed |-> 0]
ChannelIdle  == [pc |-> "idle", who |-> NoSubscriber, url |-> NoUrl, got |-> NoUrl, ch |-> 0,
             creating |-> FALSE, todo |-> {}, urls |-> {}, known |-> {}]

ChannelsInit ==
    /\ channels = << >> /\ lastChannel = 0 /\ subscriptions = {}
    /\ refreshing = {}
    /\ chanActs = [a \in ChannelActors |-> ChannelIdle]
    /\ importing = {} /\ importQueue = {}
    /\ imports = [u \in Subscribers |-> NoImport]
    /\ recovered = TRUE /\ chanAsked = 0 /\ chanStops = 0

-----------------------------------------------------------------------------
ChAt(a, pc)  == chanActs[a].pc = pc
Does(a, act) == chanActs' = [chanActs EXCEPT ![a] = act]
ToStep(a, pc) == Does(a, [chanActs[a] EXCEPT !.pc = pc])

Asks(t, act) ==
    /\ ChAt(t, "idle") /\ chanAsked < ChannelAsksMax
    /\ Does(t, act)
    /\ chanAsked' = chanAsked + 1

(* A call is over: the import goes on with its next feed, a request ends.   *)
Ends(a, failed) ==
    IF a = OpmlWorker THEN Does(a, [chanActs[a] EXCEPT !.pc = "count", !.ch = IF failed THEN 0 ELSE 1])
                      ELSE Does(a, ChannelIdle)

AddressedBy(urls) == {c \in DOMAIN channels : channels[c].url \in urls}
TitledDone(feed)  == {c \in DOMAIN channels : channels[c].url.feed = feed /\ channels[c].status = "completed"}
Titled(feed)      == {c \in DOMAIN channels : channels[c].url.feed = feed}
Variant(url)      == [url EXCEPT !.tls = ~@]
WithChannel(c, row)      == [d \in DOMAIN channels \cup {c} |-> IF d = c THEN row ELSE channels[d]]
MarkedChannel(c, status) == [d \in DOMAIN channels |->
                        IF d = c THEN [channels[d] EXCEPT !.status = status] ELSE channels[d]]

DataSame == UNCHANGED <<channels, lastChannel, subscriptions>>
RestSame == UNCHANGED <<opml, recovered, chanStops>>

-----------------------------------------------------------------------------
(* create_channel(): an address that is known, by either of its schemes ... *)
Creating(u, url) == [ChannelIdle EXCEPT !.pc = "look", !.who = u, !.url = url, !.creating = TRUE]

AskCreate(t, u, url) ==
    /\ Asks(t, Creating(u, url))
    /\ DataSame /\ UNCHANGED refreshing /\ RestSame

LookForChannel(a) ==
    /\ ChAt(a, "look")
    /\ LET known == AddressedBy({chanActs[a].url, Variant(chanActs[a].url)})
           act   == [chanActs[a] EXCEPT !.known = DOMAIN channels]
       IN IF known = {} THEN Does(a, [act EXCEPT !.pc = "fetch"])
          ELSE \E c \in known : Does(a, [act EXCEPT !.pc = "join", !.ch = c])
    /\ DataSame /\ UNCHANGED <<refreshing, chanAsked>> /\ RestSame

(* ... takes a subscription, unless the channel has gone meanwhile.         *)
Join(a) ==
    /\ ChAt(a, "join")
    /\ LET act == chanActs[a]  there == act.ch \in DOMAIN channels IN
       /\ subscriptions' = subscriptions \cup (IF there THEN {<<act.who, act.ch>>} ELSE {})
       /\ Ends(a, ~there)
    /\ UNCHANGED <<channels, lastChannel, refreshing, chanAsked>> /\ RestSame

(* Of an address of http the one of https is tried first.                   *)
ResolvedUrl(url) == {url, [url EXCEPT !.tls = TRUE]}

FetchChannel(a) ==
    /\ ChAt(a, "fetch")
    /\ \/ Ends(a, TRUE)
       \/ \E url \in ResolvedUrl(chanActs[a].url) :
            Does(a, [chanActs[a] EXCEPT !.pc = "match", !.got = url])
    /\ DataSame /\ UNCHANGED <<refreshing, chanAsked>> /\ RestSame

Match(a) ==
    /\ ChAt(a, "match")
    /\ LET same == Titled(chanActs[a].got.feed) IN
       IF same = {} THEN ToStep(a, "insert")
       ELSE \E c \in same : Does(a, [chanActs[a] EXCEPT !.pc = "join", !.ch = c])
    /\ DataSame /\ UNCHANGED <<refreshing, chanAsked>> /\ RestSame

(* INSERT ... ON CONFLICT (url) DO NOTHING, and the subscription with it.   *)
Insert(a) ==
    /\ ChAt(a, "insert")
    /\ LET act == chanActs[a]  twin == AddressedBy({act.got}) IN
       IF twin = {}
         THEN /\ lastChannel < ChannelsMax
              /\ lastChannel' = lastChannel + 1
              /\ channels' = WithChannel(lastChannel', [url |-> act.got, status |-> "new"])
              /\ subscriptions' = subscriptions \cup {<<act.who, lastChannel'>>}
              /\ Does(a, [act EXCEPT !.pc = "claim", !.ch = lastChannel'])
         ELSE /\ subscriptions' = subscriptions \cup {<<act.who, c>> : c \in twin}
              /\ Ends(a, FALSE)
              /\ UNCHANGED <<channels, lastChannel>>
    /\ UNCHANGED <<refreshing, chanAsked>> /\ RestSame

-----------------------------------------------------------------------------
(* refresh(), of one channel or of every one.                               *)
AskRefresh(t, todo) ==
    /\ todo # {} /\ Asks(t, [ChannelIdle EXCEPT !.pc = "next", !.todo = todo])
    /\ DataSame /\ UNCHANGED refreshing /\ RestSame

NextChannel(t) ==
    /\ ChAt(t, "next")
    /\ IF chanActs[t].todo = {} THEN Does(t, ChannelIdle)
       ELSE \E c \in chanActs[t].todo :
            Does(t, [chanActs[t] EXCEPT !.pc = "claim", !.ch = c, !.todo = @ \ {c}])
    /\ DataSame /\ UNCHANGED <<refreshing, chanAsked>> /\ RestSame

AfterRefresh(a) == ToStep(a, IF chanActs[a].creating THEN "check" ELSE "next")

(* _worker_refresh_channel(): not twice at a time.                          *)
ClaimRefresh(a) ==
    /\ ChAt(a, "claim")
    /\ IF chanActs[a].ch \in refreshing
         THEN AfterRefresh(a) /\ UNCHANGED refreshing
         ELSE ToStep(a, "row") /\ refreshing' = refreshing \cup {chanActs[a].ch}
    /\ DataSame /\ UNCHANGED chanAsked /\ RestSame

ReadChannel(a) ==
    /\ ChAt(a, "row")
    /\ LET act == chanActs[a] IN
       IF act.ch \notin DOMAIN channels THEN ToStep(a, "free")
       ELSE Does(a, [act EXCEPT !.pc = "mark", !.url = channels[act.ch].url])
    /\ DataSame /\ UNCHANGED <<refreshing, chanAsked>> /\ RestSame

MarkRefresh(a) ==
    /\ ChAt(a, "mark")
    /\ channels' = MarkedChannel(chanActs[a].ch, "downloading")
    /\ ToStep(a, "get")
    /\ UNCHANGED <<lastChannel, subscriptions, refreshing, chanAsked>> /\ RestSame

(* The feed, unless the creation has it already.                            *)
GetFeed(a) ==
    /\ ChAt(a, "get")
    /\ LET act == chanActs[a] IN
       IF act.creating THEN ToStep(a, "upgrade")
       ELSE \/ ToStep(a, "error")
            \/ \E url \in ResolvedUrl(act.url) :
                 Does(a, [act EXCEPT !.pc = "upgrade", !.got = url])
    /\ DataSame /\ UNCHANGED <<refreshing, chanAsked>> /\ RestSame

(* The address that worked replaces the stored one: UNIQUE refuses one that *)
(* another channel has, which is only logged.                               *)
Upgrade(a) ==
    /\ ChAt(a, "upgrade")
    /\ LET act == chanActs[a] IN
       channels' = IF act.ch \in DOMAIN channels /\ AddressedBy({act.got}) = {}
                     THEN [channels EXCEPT ![act.ch].url = act.got] ELSE channels
    /\ ToStep(a, "store")
    /\ UNCHANGED <<lastChannel, subscriptions, refreshing, chanAsked>> /\ RestSame

(* Title, cover and episodes, in one transaction that may fail.             *)
StoreFeed(a) ==
    /\ ChAt(a, "store")
    /\ \/ channels' = MarkedChannel(chanActs[a].ch, "completed") /\ ToStep(a, "free")
       \/ UNCHANGED channels /\ ToStep(a, "error")
    /\ UNCHANGED <<lastChannel, subscriptions, refreshing, chanAsked>> /\ RestSame

RefreshFails(a) ==
    /\ ChAt(a, "error")
    /\ channels' = MarkedChannel(chanActs[a].ch, "error") /\ ToStep(a, "free")
    /\ UNCHANGED <<lastChannel, subscriptions, refreshing, chanAsked>> /\ RestSame

EndRefresh(a) ==
    /\ ChAt(a, "free")
    /\ refreshing' = refreshing \ {chanActs[a].ch}
    /\ AfterRefresh(a)
    /\ DataSame /\ UNCHANGED chanAsked /\ RestSame

(* A channel whose first refresh failed is not kept.                        *)
CheckCreated(a) ==
    /\ ChAt(a, "check")
    /\ LET c == chanActs[a].ch IN
       IF c \in DOMAIN channels /\ channels[c].status = "error"
         THEN ToStep(a, "purgeFailed") ELSE Ends(a, FALSE)
    /\ DataSame /\ UNCHANGED <<refreshing, chanAsked>> /\ RestSame

-----------------------------------------------------------------------------
(* unsubscribe(): the last one to leave takes the channel along.            *)
Remaining(c, subs) == {s \in subs : s[2] = c}

Unsubscribe(t, u, c) ==
    /\ LET left == subscriptions \ {<<u, c>>} IN
       /\ Asks(t, IF Remaining(c, left) = {} THEN [ChannelIdle EXCEPT !.pc = "purge", !.ch = c] ELSE ChannelIdle)
       /\ subscriptions' = left
    /\ UNCHANGED <<channels, lastChannel, refreshing>> /\ RestSame

AskDelete(t, c) ==
    /\ Asks(t, [ChannelIdle EXCEPT !.pc = "purgeAll", !.ch = c])
    /\ DataSame /\ UNCHANGED refreshing /\ RestSame

(* delete_channel(): the subscriptions go with the row.                     *)
PurgeChannel(a) ==
    /\ chanActs[a].pc \in {"purge", "purgeAll", "purgeFailed"}
    /\ channels' = [d \in DOMAIN channels \ {chanActs[a].ch} |-> channels[d]]
    /\ subscriptions' = {s \in subscriptions : s[2] # chanActs[a].ch}
    /\ Ends(a, TRUE)
    /\ UNCHANGED <<lastChannel, refreshing, chanAsked>> /\ RestSame

-----------------------------------------------------------------------------

Allowed(u) == u \notin importing

AskImport(t, u, urls) ==
    /\ Allowed(u)
    /\ Asks(t, [ChannelIdle EXCEPT !.pc = "submit", !.who = u, !.urls = urls])
    /\ importing' = importing \cup {u}
    /\ DataSame /\ UNCHANGED <<refreshing, imports, importQueue, recovered, chanStops>>

SubmitImport(t) ==
    /\ ChAt(t, "submit")
    /\ LET act == chanActs[t] IN
       /\ imports' = [imports EXCEPT ![act.who] = [NoImport EXCEPT !.total = Cardinality(act.urls)]]
       /\ importQueue' = importQueue \cup {<<act.who, act.urls>>}
    /\ Does(t, ChannelIdle)
    /\ DataSame /\ UNCHANGED <<refreshing, importing, recovered, chanStops, chanAsked>>

StartImport ==
    /\ ChAt(OpmlWorker, "idle")
    /\ \E job \in importQueue :
         /\ importQueue' = importQueue \ {job}
         /\ Does(OpmlWorker, [ChannelIdle EXCEPT !.pc = "feed", !.who = job[1], !.urls = job[2]])
    /\ DataSame /\ UNCHANGED <<refreshing, importing, imports, recovered, chanStops, chanAsked>>

ImportFeed ==
    /\ ChAt(OpmlWorker, "feed") /\ chanActs[OpmlWorker].urls # {}
    /\ LET act == chanActs[OpmlWorker] IN \E url \in act.urls :
         LET known == AddressedBy({url, Variant(url)})
             rest  == act.urls \ {url}
         IN IF \E c \in known : <<act.who, c>> \in subscriptions
              THEN Does(OpmlWorker, [act EXCEPT !.pc = "count", !.urls = rest, !.ch = 1])
              ELSE Does(OpmlWorker, [Creating(act.who, url) EXCEPT !.urls = rest])
    /\ DataSame /\ UNCHANGED <<refreshing, chanAsked>> /\ RestSame

CountFeed ==
    /\ ChAt(OpmlWorker, "count")
    /\ LET act == chanActs[OpmlWorker] IN
       /\ imports' = [imports EXCEPT ![act.who].done = @ + 1,
                                     ![act.who].failed = @ + (IF act.ch = 0 THEN 1 ELSE 0)]
       /\ Does(OpmlWorker, [ChannelIdle EXCEPT !.pc = "feed", !.who = act.who, !.urls = act.urls])
    /\ DataSame /\ UNCHANGED <<refreshing, importing, importQueue, recovered, chanStops, chanAsked>>

EndImport ==
    /\ ChAt(OpmlWorker, "feed") /\ chanActs[OpmlWorker].urls = {}
    /\ importing' = importing \ {chanActs[OpmlWorker].who}
    /\ Does(OpmlWorker, ChannelIdle)
    /\ DataSame /\ UNCHANGED <<refreshing, imports, importQueue, recovered, chanStops, chanAsked>>

(* opml_import_messages(): the result is told once, then forgotten.         *)
TellImport(u) ==
    /\ imports[u] # NoImport /\ u \notin importing
    /\ imports' = [imports EXCEPT ![u] = NoImport]
    /\ DataSame /\ UNCHANGED <<refreshing, chanActs, importing, importQueue, recovered, chanStops, chanAsked>>

-----------------------------------------------------------------------------
(* The server stops at any moment; resume_downloads() runs when it is up    *)
(* again, and with every periodic maintenance.                              *)
RestartChannels ==
    /\ chanStops < ChannelStopsMax /\ chanStops' = chanStops + 1
    /\ chanActs' = [a \in ChannelActors |-> ChannelIdle]
    /\ refreshing' = {} /\ importing' = {} /\ importQueue' = {}
    /\ imports' = [u \in Subscribers |-> NoImport]
    /\ recovered' = FALSE
    /\ DataSame /\ UNCHANGED chanAsked

ResetChannels ==
    [c \in DOMAIN channels |->
        [channels[c] EXCEPT !.status = IF @ = "downloading" THEN "new" ELSE @]]

ResumeChannels ==
    /\ recovered' = TRUE
    /\ channels' = ResetChannels
    /\ UNCHANGED <<lastChannel, subscriptions, refreshing, chanActs, opml, chanStops, chanAsked>>

ChannelStep(a) ==
    \/ LookForChannel(a) \/ Join(a) \/ FetchChannel(a) \/ Match(a) \/ Insert(a)
    \/ ClaimRefresh(a) \/ ReadChannel(a) \/ MarkRefresh(a) \/ GetFeed(a) \/ Upgrade(a)
    \/ StoreFeed(a) \/ RefreshFails(a) \/ EndRefresh(a) \/ CheckCreated(a) \/ PurgeChannel(a)

ChannelRequest(t) ==
    \/ \E u \in Subscribers : \E url \in Url : AskCreate(t, u, url)
    \/ AskRefresh(t, DOMAIN channels)
    \/ \E c \in DOMAIN channels :
         \/ AskRefresh(t, {c}) \/ AskDelete(t, c)
         \/ \E u \in Subscribers : Unsubscribe(t, u, c)
    \/ \E u \in Subscribers : \E urls \in OpmlFiles : AskImport(t, u, urls)

ChannelsNext ==
    \/ \E t \in ChannelThreads : ChannelRequest(t) \/ NextChannel(t) \/ SubmitImport(t)
    \/ \E a \in ChannelActors : ChannelStep(a)
    \/ StartImport \/ ImportFeed \/ CountFeed \/ EndImport
    \/ \E u \in Subscribers : TellImport(u)
    \/ RestartChannels \/ ResumeChannels

ChannelsSpec == ChannelsInit /\ [][ChannelsNext]_chanVars

-----------------------------------------------------------------------------
(* A channel says that it is being refreshed only while a thread refreshes  *)
(* it, or until the recovery after a restart has run: no refresh, failure,  *)
(* deletion or restart leaves it so for good.                               *)
RefreshTrue ==
    recovered => \A c \in DOMAIN channels :
        channels[c].status = "downloading" =>
            \E a \in ChannelActors : /\ chanActs[a].ch = c
                              /\ chanActs[a].pc \in {"get", "upgrade", "store", "error"}

(* A subscription to a feed that had a channel when the request arrived,    *)
(* whatever the scheme of either address, makes no second channel of it.    *)
NoTwin ==
    [][\A c \in DOMAIN channels' \ DOMAIN channels : \A a \in ChannelActors :
          chanActs'[a].ch = c /\ chanActs'[a].pc = "claim" =>
            \A d \in chanActs[a].known \cap DOMAIN channels :
                channels[d].url.feed # channels'[c].url.feed]_chanVars

(* What a user is told of an OPML import is the outcome of every feed of it *)
(* and of no other, though imports of one user may follow one another.      *)
ImportTold ==
    [][\A u \in Subscribers :
          imports'[u] # imports[u] =>
            imports[u].done = imports[u].total
              \/ (imports'[u].done = imports[u].done + 1 /\ imports'[u].total = imports[u].total)
              \/ chanStops' # chanStops]_chanVars

(* What channels promise: all of them hold.                                 *)
ChannelsHold == []RefreshTrue /\ NoTwin /\ ImportTold
=============================================================================
