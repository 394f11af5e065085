------------------------------- MODULE EventBus -------------------------------
(***************************************************************************)
(* The live updates of the admin panel: EventBus (core/services/events.py) *)
(* and the route that serves a stream of it (admin/routes/events.py).      *)
(* publish() goes through a copy of the subscribers, one queue operation   *)
(* at a time: a full queue loses its oldest event, of whatever kind, and   *)
(* is tried once more. An event of most kinds ('chat', 'rate-limits',      *)
(* 'health-scan', ...) makes the panel ask for what the kind is about; one *)
(* of a kind in Snapshots ('beets-import', 'podcast-status') carries what  *)
(* the panel will show, as it was before publish() was called. A stream is *)
(* admitted by counting the subscribers, and subscribes later, when the    *)
(* server asks it for its first bytes; the panel then asks for everything. *)
(***************************************************************************)
EXTENDS Integers, FiniteSets, Sequences

CONSTANTS
    Publishers, Streams,
    Kinds, Snapshots,
    QueueSize,       \* events a subscriber's queue holds
    StreamsAllowed,  \* a quarter of the worker threads
    BusEventsMax     \* bound: events published of a kind

VARIABLES
    queues,          \* the queue of each subscriber
    streams,         \* "closed", "admitted", "open"
    publishing,      \* the publish() each publisher is in
    published,       \* how many events there were of each kind
    displayed,       \* up to which of them the panel of a stream shows a kind
    lost,            \* history: the events a stream lost, dropped or given up
    raced            \* history: the kinds whose last events were published at once

busVars == <<queues, streams, publishing, published, displayed, lost, raced>>

ASSUME BusAssumption ==
    /\ QueueSize \in Nat \ {0} /\ StreamsAllowed \in Nat \ {0} /\ BusEventsMax \in Nat
    /\ Snapshots \subseteq Kinds

Events        == [kind : Kinds, of : Nat]
NotPublishing == [pc |-> "idle"]
Subscribed    == {s \in Streams : streams[s] = "open"}
NewestOf(k)   == [kind |-> k, of |-> published[k]]
Carries(p, k) == publishing[p] # NotPublishing /\ publishing[p].event.kind = k

BusInit ==
    /\ queues = [s \in Streams |-> << >>]
    /\ streams = [s \in Streams |-> "closed"]
    /\ publishing = [p \in Publishers |-> NotPublishing]
    /\ published = [k \in Kinds |-> 0]
    /\ displayed = [s \in Streams |-> published]
    /\ lost = [s \in Streams |-> {}]
    /\ raced = {}

-----------------------------------------------------------------------------
Admit(s) ==
    /\ streams[s] = "closed" /\ Cardinality(Subscribed) < StreamsAllowed
    /\ streams' = [streams EXCEPT ![s] = "admitted"]
    /\ UNCHANGED <<queues, publishing, published, displayed, lost, raced>>

(* The generator of the response begins, with a queue of its own: no        *)
(* publisher has it before it (it may still have the last one of s).        *)
Subscribe(s) ==
    /\ streams[s] = "admitted"
    /\ \A p \in Publishers : publishing[p].pc \in {"put", "get", "again"} => s \notin publishing[p].left
    /\ streams' = [streams EXCEPT ![s] = "open"]
    /\ queues' = [queues EXCEPT ![s] = << >>]
    /\ displayed' = [displayed EXCEPT ![s] = published]
    /\ lost' = [lost EXCEPT ![s] = {}]
    /\ UNCHANGED <<publishing, published, raced>>

(* The client leaves, or the check of its session ends the stream; a        *)
(* publish() that has copied the subscribers still fills the queue.         *)
CloseStream(s) ==
    /\ streams[s] # "closed"
    /\ streams' = [streams EXCEPT ![s] = "closed"]
    /\ UNCHANGED <<queues, publishing, published, displayed, lost, raced>>

(* The panel only refreshes what the kind of the event is about.            *)
Read(s) ==
    /\ streams[s] = "open" /\ queues[s] # << >>
    /\ LET e == Head(queues[s]) IN
       displayed' = [displayed EXCEPT ![s][e.kind] = IF e.kind \in Snapshots THEN e.of ELSE published[e.kind]]
    /\ queues' = [queues EXCEPT ![s] = Tail(@)]
    /\ UNCHANGED <<streams, publishing, published, lost, raced>>

(* What kind k is about has changed, and the payload of the event is built. *)
Publish(p, k) ==
    /\ publishing[p] = NotPublishing /\ published[k] < BusEventsMax
    /\ published' = [published EXCEPT ![k] = @ + 1]
    /\ publishing' = [publishing EXCEPT
          ![p] = [pc |-> "built", event |-> [kind |-> k, of |-> published[k] + 1]]]
    /\ raced' = IF \E q \in Publishers : Carries(q, k) THEN raced \cup {k} ELSE raced \ {k}
    /\ UNCHANGED <<queues, streams, displayed, lost>>

CopySubscribers(p) ==
    /\ publishing[p].pc = "built"
    /\ publishing' = [publishing EXCEPT
          ![p] = [pc |-> "put", event |-> @.event, left |-> Subscribed]]
    /\ UNCHANGED <<queues, streams, published, displayed, lost, raced>>

PublishDone(p) ==
    /\ publishing[p].pc = "put" /\ publishing[p].left = {}
    /\ publishing' = [publishing EXCEPT ![p] = NotPublishing]
    /\ UNCHANGED <<queues, streams, published, displayed, lost, raced>>

Served(pub, s) == [pc |-> "put", event |-> pub.event, left |-> pub.left \ {s}]
FoundFull(pub, s) == [pc |-> "get", event |-> pub.event, left |-> pub.left, at |-> s]

Put(p, s) ==
    /\ publishing[p].pc = "put" /\ s \in publishing[p].left
    /\ IF Len(queues[s]) < QueueSize
       THEN /\ queues' = [queues EXCEPT ![s] = Append(@, publishing[p].event)]
            /\ publishing' = [publishing EXCEPT ![p] = Served(@, s)]
       ELSE UNCHANGED queues /\ publishing' = [publishing EXCEPT ![p] = FoundFull(@, s)]
    /\ UNCHANGED <<streams, published, displayed, lost, raced>>

(* Mutant of AfterDrop: the put is not tried again.                         *)
AfterDropSkip(pub) == Served(pub, pub.at)

AfterDrop(pub) == [pub EXCEPT !.pc = "again"]

(* get_nowait(): the oldest event is dropped; when the queue is empty by    *)
(* now, the new one is given up.                                            *)
DropOldest(p) ==
    /\ publishing[p].pc = "get"
    /\ LET s == publishing[p].at IN
       IF queues[s] = << >>
       THEN /\ UNCHANGED queues
            /\ publishing' = [publishing EXCEPT ![p] = Served(@, s)]
            /\ lost' = [lost EXCEPT ![s] = @ \cup {publishing[p].event}]
       ELSE /\ queues' = [queues EXCEPT ![s] = Tail(@)]
            /\ publishing' = [publishing EXCEPT ![p] = AfterDrop(@)]
            /\ lost' = [lost EXCEPT ![s] = @ \cup {Head(queues[s])}]
    /\ UNCHANGED <<streams, published, displayed, raced>>

(* The second put_nowait(): another publisher may have filled the queue.    *)
PutAgain(p) ==
    /\ publishing[p].pc = "again"
    /\ LET s == publishing[p].at IN
       /\ IF Len(queues[s]) < QueueSize
          THEN queues' = [queues EXCEPT ![s] = Append(@, publishing[p].event)] /\ UNCHANGED lost
          ELSE lost' = [lost EXCEPT ![s] = @ \cup {publishing[p].event}] /\ UNCHANGED queues
       /\ publishing' = [publishing EXCEPT ![p] = Served(@, s)]
    /\ UNCHANGED <<streams, published, displayed, raced>>

BusNext ==
    \/ \E s \in Streams : Admit(s) \/ Subscribe(s) \/ CloseStream(s) \/ Read(s)
    \/ \E p \in Publishers :
          \/ CopySubscribers(p) \/ PublishDone(p) \/ DropOldest(p) \/ PutAgain(p)
          \/ \E k \in Kinds : Publish(p, k)
          \/ \E s \in Streams : Put(p, s)

BusSpec == BusInit /\ [][BusNext]_busVars

-----------------------------------------------------------------------------
(* Once no publish() of a kind is under way and no event of the kind waits  *)
(* in the queue of a stream, its panel shows what that kind is about as of  *)
(* the newest event, although publishers drop events of each other from a   *)
(* full queue while it is drained. Two things are excepted, since the code  *)
(* does not make them good until the next event of the kind, or the next    *)
(* connection: the newest event of the kind was itself lost, and, for the   *)
(* kinds that carry what is shown, the last ones were published at once, so *)
(* that an older one may have been put after it.                            *)
NothingStale ==
    \A s \in Subscribed, k \in Kinds :
        /\ \A p \in Publishers : ~Carries(p, k)
        /\ \A i \in DOMAIN queues[s] : queues[s][i].kind # k
        => \/ displayed[s][k] = published[k]
           \/ NewestOf(k) \in lost[s]
           \/ k \in Snapshots /\ k \in raced
=============================================================================
