----------------------------- MODULE RoomsProofs -----------------------------
(***************************************************************************)
(* Components that keep their state in memory or in one table and share    *)
(* none: events, plays, tokens, stations, transcodes, the folder watcher   *)
(* and the chat. Each has its invariant and its theorem.                   *)
(***************************************************************************)
EXTENDS EventBus, PlayState, Tokeniser, Stations, Transcodes, ImportWatcher, Chat,
        SubsequencesProofs

-----------------------------------------------------------------------------
(***************************************************************************)
(* Events and their streams. Of each kind, what a stream shows is the      *)
(* newest, or something that follows it is in its queue or in the hands of *)
(* a publisher, or the kind was dropped or raced for that stream: the      *)
(* invariant says so at every step of a publication.                       *)
(***************************************************************************)

Publications ==
    {NotPublishing} \cup [pc : {"built"}, event : Events]
        \cup [pc : {"put"}, event : Events, left : SUBSET Streams]
        \cup [pc : {"get", "again"}, event : Events, left : SUBSET Streams, at : Streams]

BusTypeOK ==
    /\ queues \in [Streams -> Seq(Events)] /\ publishing \in [Publishers -> Publications]
    /\ streams \in [Streams -> {"closed", "admitted", "open"}]
    /\ published \in [Kinds -> Nat] /\ displayed \in [Streams -> [Kinds -> Nat]]
    /\ lost \in [Streams -> SUBSET Events] /\ raced \in SUBSET Kinds

(* A publisher that found a queue full has it before it still.              *)
AtIsLeft ==
    \A p \in Publishers : publishing[p].pc \in {"get", "again"} =>
                              publishing[p].at \in publishing[p].left

Waits(q, e)     == \E i \in DOMAIN q : q[i] = e
WaitsKind(q, k) == \E e \in Events : e.kind = k /\ Waits(q, e)

(* Behind e there is no other event of its kind.                            *)
InOrder(q, e) ==
    \A i, j \in DOMAIN q : i < j /\ q[i] = e /\ q[j].kind = e.kind => q[j] = e

(* Publisher p has still to put e into the queue of s, or to give it up.    *)
Coming(p, s, e) ==
    /\ publishing[p] # NotPublishing /\ publishing[p].event = e
    /\ publishing[p].pc = "built" \/ s \in publishing[p].left

Counted ==
    /\ \A s \in Streams, e \in Events : Waits(queues[s], e) => e.of <= published[e.kind]
    /\ \A p \in Publishers :
          publishing[p] # NotPublishing =>
              publishing[p].event.of <= published[publishing[p].event.kind]

(* A kind whose last events were not published at once has only its newest  *)
(* event under way, and it is the last of its kind in every queue.          *)
OneAtATime ==
    \A k \in Kinds \ raced, p \in Publishers : Carries(p, k) => publishing[p].event = NewestOf(k)

NewestLast == \A k \in Kinds \ raced, s \in Streams : InOrder(queues[s], NewestOf(k))

Shows(s, k) ==
    displayed[s][k] = published[k] /\ (k \in Snapshots => ~WaitsKind(queues[s], k))

Heard ==
    \A s \in Streams, k \in Kinds : streams[s] = "open" =>
        \/ k \in Snapshots /\ k \in raced
        \/ NewestOf(k) \in lost[s]
        \/ Waits(queues[s], NewestOf(k))
        \/ \E p \in Publishers : Coming(p, s, NewestOf(k))
        \/ Shows(s, k)

BusIInv == BusTypeOK /\ AtIsLeft /\ Counted /\ OneAtATime /\ NewestLast /\ Heard

-----------------------------------------------------------------------------
LEMMA EmptyQueue == \A e : ~Waits(<< >>, e) /\ InOrder(<< >>, e)
BY DEF Waits, InOrder

LEMMA TailOfQueue ==
    ASSUME NEW q \in Seq(Events), q # << >>
    PROVE  /\ Head(q) \in Events /\ Tail(q) \in Seq(Events) /\ Waits(q, Head(q))
           /\ \A e : Waits(Tail(q), e) => Waits(q, e)
           /\ \A e : Waits(q, e) => e = Head(q) \/ Waits(Tail(q), e)
           /\ \A e : InOrder(q, e) => InOrder(Tail(q), e)
           /\ \A k : InOrder(q, Head(q)) /\ k = Head(q).kind /\ WaitsKind(Tail(q), k)
                        => Waits(Tail(q), Head(q))
<1>1. /\ Len(q) \in Nat \ {0} /\ DOMAIN q = 1..Len(q) /\ Head(q) = q[1] /\ q[1] \in Events
      /\ Tail(q) \in Seq(Events) /\ DOMAIN Tail(q) = 1..(Len(q) - 1)
      /\ \A i \in 1..(Len(q) - 1) : Tail(q)[i] = q[i + 1]
  OBVIOUS
<1>2. Waits(q, Head(q)) BY <1>1 DEF Waits
<1>3. \A e : Waits(Tail(q), e) => Waits(q, e)
  <2>1. \A i \in 1..(Len(q) - 1) : i + 1 \in 1..Len(q) BY <1>1
  <2>2. QED BY <1>1, <2>1 DEF Waits
<1>4. \A e : Waits(q, e) => e = Head(q) \/ Waits(Tail(q), e)
  <2> SUFFICES ASSUME NEW e, NEW i \in DOMAIN q, q[i] = e, i # 1 PROVE Waits(Tail(q), e)
    BY <1>1 DEF Waits
  <2>1. i - 1 \in 1..(Len(q) - 1) /\ (i - 1) + 1 = i BY <1>1
  <2>2. Tail(q)[i - 1] = e BY <1>1, <2>1
  <2>3. QED BY <1>1, <2>1, <2>2 DEF Waits
<1>5. \A e : InOrder(q, e) => InOrder(Tail(q), e)
  <2> SUFFICES ASSUME NEW e, InOrder(q, e), NEW i \in 1..(Len(q) - 1), NEW j \in 1..(Len(q) - 1), i < j,
                      q[i + 1] = e, q[j + 1].kind = e.kind
               PROVE  q[j + 1] = e
    BY <1>1 DEF InOrder
  <2>1. i + 1 \in DOMAIN q /\ j + 1 \in DOMAIN q /\ i + 1 < j + 1 BY <1>1
  <2>2. QED BY <2>1 DEF InOrder
<1>6. ASSUME InOrder(q, Head(q)), WaitsKind(Tail(q), Head(q).kind) PROVE Waits(Tail(q), Head(q))
  <2>1. PICK i \in 1..(Len(q) - 1) : q[i + 1].kind = Head(q).kind BY <1>1, <1>6 DEF WaitsKind, Waits
  <2>2. 1 \in DOMAIN q /\ i + 1 \in DOMAIN q /\ 1 < i + 1 BY <1>1
  <2>3. q[i + 1] = Head(q) BY <1>1, <1>6, <2>1, <2>2 DEF InOrder
  <2>4. QED BY <1>1, <2>3 DEF Waits
<1>7. QED BY <1>1, <1>2, <1>3, <1>4, <1>5, <1>6

LEMMA AppendToQueue ==
    ASSUME NEW q \in Seq(Events), NEW a \in Events
    PROVE  /\ Append(q, a) \in Seq(Events) /\ Waits(Append(q, a), a)
           /\ \A e : Waits(q, e) => Waits(Append(q, a), e)
           /\ \A e : Waits(Append(q, a), e) => Waits(q, e) \/ e = a
           /\ \A e : InOrder(q, e) /\ (a.kind = e.kind => a = e) => InOrder(Append(q, a), e)
<1>1. /\ Len(q) \in Nat /\ DOMAIN q = 1..Len(q) /\ Append(q, a) \in Seq(Events)
      /\ DOMAIN Append(q, a) = 1..(Len(q) + 1) /\ Append(q, a)[Len(q) + 1] = a
      /\ \A i \in 1..Len(q) : Append(q, a)[i] = q[i]
  OBVIOUS
<1>2. 1..(Len(q) + 1) = (1..Len(q)) \cup {Len(q) + 1} BY <1>1
<1>3. \A e : InOrder(q, e) /\ (a.kind = e.kind => a = e) => InOrder(Append(q, a), e)
  <2> SUFFICES ASSUME NEW e, InOrder(q, e), a.kind = e.kind => a = e,
                      NEW i \in 1..(Len(q) + 1), NEW j \in 1..(Len(q) + 1), i < j,
                      Append(q, a)[i] = e, Append(q, a)[j].kind = e.kind
               PROVE  Append(q, a)[j] = e
    BY <1>1 DEF InOrder
  <2>1. i \in 1..Len(q) BY <1>1
  <2>2. CASE j = Len(q) + 1 BY <1>1, <2>2
  <2>3. CASE j \in 1..Len(q) BY <1>1, <2>1, <2>3 DEF InOrder
  <2>4. QED BY <1>2, <2>2, <2>3
<1>4. QED BY <1>1, <1>2, <1>3 DEF Waits

LEMMA BusStarts == BusInit => BusIInv
<1> SUFFICES ASSUME BusInit PROVE BusIInv OBVIOUS
<1> USE DEF BusInit, NotPublishing
<1>1. BusTypeOK BY DEF BusTypeOK, Publications
<1>2. \A s \in Streams : queues[s] = << >> /\ streams[s] # "open" OBVIOUS
<1>3. AtIsLeft /\ OneAtATime BY DEF AtIsLeft, OneAtATime, Carries
<1>4. Counted /\ NewestLast /\ Heard BY <1>2, EmptyQueue DEF Counted, NewestLast, Heard
<1>5. QED BY <1>1, <1>3, <1>4 DEF BusIInv

-----------------------------------------------------------------------------
LEMMA StreamsKeep ==
    ASSUME BusIInv, NEW s \in Streams, Admit(s) \/ Subscribe(s) \/ CloseStream(s)
    PROVE  BusIInv'
<1> USE DEF BusIInv
<1>1. BusTypeOK'
  <2>1. CASE Admit(s) BY <2>1 DEF Admit, BusTypeOK
  <2>2. CASE Subscribe(s)
    <3>1. << >> \in Seq(Events) OBVIOUS
    <3>2. queues' \in [Streams -> Seq(Events)] BY <2>2, <3>1 DEF Subscribe, BusTypeOK
    <3>3. displayed' \in [Streams -> [Kinds -> Nat]] BY <2>2 DEF Subscribe, BusTypeOK
    <3>4. lost' \in [Streams -> SUBSET Events] BY <2>2 DEF Subscribe, BusTypeOK
    <3>5. QED BY <2>2, <3>2, <3>3, <3>4 DEF Subscribe, BusTypeOK
  <2>3. CASE CloseStream(s) BY <2>3 DEF CloseStream, BusTypeOK
  <2>4. QED BY <2>1, <2>2, <2>3
<1>2. UNCHANGED <<publishing, published, raced>> BY DEF Admit, Subscribe, CloseStream
<1>3. AtIsLeft' /\ OneAtATime' BY <1>2 DEF AtIsLeft, OneAtATime, Carries, NewestOf
<1>4. \A r \in Streams :
         \/ queues'[r] = queues[r] /\ lost'[r] = lost[r] /\ displayed'[r] = displayed[r]
               /\ (streams'[r] = "open" => streams[r] = "open")
         \/ queues'[r] = << >> /\ displayed'[r] = published
  BY DEF Admit, Subscribe, CloseStream, BusTypeOK
<1>5. Counted' BY <1>2, <1>4, EmptyQueue DEF Counted
<1>6. NewestLast' BY <1>2, <1>4, EmptyQueue DEF NewestLast, NewestOf
<1>7. Heard'
  <2> SUFFICES ASSUME NEW r \in Streams, NEW k \in Kinds, streams'[r] = "open",
                      ~(k \in Snapshots /\ k \in raced)
               PROVE  \/ NewestOf(k) \in lost'[r]
                      \/ Waits(queues'[r], NewestOf(k))
                      \/ \E p \in Publishers : Coming(p, r, NewestOf(k))
                      \/ displayed'[r][k] = published[k] /\ (k \in Snapshots => ~WaitsKind(queues'[r], k))
    BY <1>2 DEF Heard, NewestOf, Coming, Shows
  <2>1. CASE queues'[r] = queues[r] /\ lost'[r] = lost[r] /\ displayed'[r] = displayed[r] /\ streams[r] = "open"
    BY <2>1 DEF Heard, Shows
  <2>2. CASE queues'[r] = << >> /\ displayed'[r] = published BY <2>2, EmptyQueue DEF WaitsKind
  <2>3. QED BY <1>4, <2>1, <2>2
<1>8. QED BY <1>1, <1>3, <1>5, <1>6, <1>7

LEMMA ReadKeeps ==
    ASSUME BusIInv, NEW s \in Streams, Read(s)
    PROVE  BusIInv'
<1> USE DEF BusIInv
<1> DEFINE now(e) == IF e.kind \in Snapshots THEN e.of ELSE published[e.kind]
<1>0. PICK q \in Seq(Events) : q = queues[s] BY DEF BusTypeOK
<1>1. PICK h \in Events : h = Head(q) BY <1>0, TailOfQueue DEF Read
<1>2. /\ q # << >> /\ UNCHANGED <<streams, publishing, published, lost, raced>>
      /\ queues' = [queues EXCEPT ![s] = Tail(q)]
      /\ displayed' = [displayed EXCEPT ![s][h.kind] = now(h)]
  BY <1>0, <1>1 DEF Read
<1>3. /\ Tail(q) \in Seq(Events) /\ queues'[s] = Tail(q)
      /\ \A r \in Streams \ {s} : queues'[r] = queues[r] /\ displayed'[r] = displayed[r]
  BY <1>2, TailOfQueue DEF BusTypeOK
<1>4. now(h) \in Nat BY DEF BusTypeOK, Events
<1>5. /\ displayed' \in [Streams -> [Kinds -> Nat]] /\ displayed'[s][h.kind] = now(h)
      /\ \A k \in Kinds \ {h.kind} : displayed'[s][k] = displayed[s][k]
  BY <1>2, <1>4 DEF BusTypeOK, Events
<1> HIDE DEF now
<1>6. BusTypeOK' BY <1>2, <1>3, <1>5 DEF BusTypeOK
<1>7. AtIsLeft' /\ OneAtATime' BY <1>2 DEF AtIsLeft, OneAtATime, Carries, NewestOf
<1>8. Counted' BY <1>0, <1>2, <1>3, TailOfQueue DEF Counted
<1>9. NewestLast' BY <1>0, <1>2, <1>3, TailOfQueue DEF NewestLast, NewestOf
<1>10. Heard'
  <2> SUFFICES ASSUME NEW r \in Streams, NEW k \in Kinds, streams[r] = "open",
                      ~(k \in Snapshots /\ k \in raced), NewestOf(k) \notin lost[r],
                      \A p \in Publishers : ~Coming(p, r, NewestOf(k)),
                      ~Waits(queues'[r], NewestOf(k))
               PROVE  displayed'[r][k] = published[k] /\ (k \in Snapshots => ~WaitsKind(queues'[r], k))
    BY <1>2 DEF Heard, NewestOf, Coming, Shows
  <2>1. CASE r # s BY <1>3, <2>1 DEF Heard, Shows
  <2>2. CASE r = s /\ h.kind # k
    <3>0. Head(q) # NewestOf(k) BY <1>1, <2>2 DEF NewestOf
    <3>1. ~Waits(q, NewestOf(k))
      <4>1. ~Waits(Tail(q), NewestOf(k)) BY <1>3, <2>2
      <4>2. \A e : Waits(q, e) => e = Head(q) \/ Waits(Tail(q), e) BY <1>2, TailOfQueue
      <4>3. QED BY <3>0, <4>1, <4>2
    <3>2. Shows(s, k) BY <1>0, <2>2, <3>1 DEF Heard
    <3>3. QED BY <1>0, <1>2, <1>3, <1>5, <2>2, <3>2, TailOfQueue DEF Shows, WaitsKind
  <2>3. CASE r = s /\ h.kind = k /\ k \notin Snapshots BY <1>5, <2>3 DEF now
  <2>4. CASE r = s /\ h.kind = k /\ k \in Snapshots
    <3>1. Waits(q, h) BY <1>1, <1>2, TailOfQueue
    <3>2. ~Shows(s, k) BY <1>0, <2>4, <3>1 DEF Shows, WaitsKind
    <3>3. Waits(q, NewestOf(k)) BY <1>0, <2>4, <3>2 DEF Heard
    <3>4. h = NewestOf(k) BY <1>1, <1>2, <1>3, <2>4, <3>3, TailOfQueue
    <3>5. InOrder(q, h) BY <1>0, <2>4, <3>4 DEF NewestLast
    <3>6. ~WaitsKind(Tail(q), k) BY <1>1, <1>2, <1>3, <2>4, <3>4, <3>5, TailOfQueue
    <3>7. now(h) = published[k] BY <2>4, <3>4 DEF now, NewestOf
    <3>8. QED BY <1>3, <1>5, <2>4, <3>6, <3>7
  <2>5. QED BY <2>1, <2>2, <2>3, <2>4
<1>11. QED BY <1>6, <1>7, <1>8, <1>9, <1>10

LEMMA PublishKeeps ==
    ASSUME BusIInv, NEW p \in Publishers, NEW k \in Kinds, Publish(p, k)
    PROVE  BusIInv'
<1> USE DEF BusIInv
<1> DEFINE new == [kind |-> k, of |-> published[k] + 1]
<1>0. PICK n \in Nat : n = published[k] BY DEF BusTypeOK
<1>1. new \in Events /\ [pc |-> "built", event |-> new] \in Publications
  BY <1>0 DEF Events, Publications
<1>2. /\ publishing[p] = NotPublishing /\ published' = [published EXCEPT ![k] = n + 1]
      /\ publishing' = [publishing EXCEPT ![p] = [pc |-> "built", event |-> new]]
      /\ raced' = IF \E q \in Publishers : Carries(q, k) THEN raced \cup {k} ELSE raced \ {k}
      /\ UNCHANGED <<queues, streams, displayed, lost>>
  BY <1>0 DEF Publish
<1>3. /\ publishing'[p] = [pc |-> "built", event |-> new]
      /\ \A q \in Publishers \ {p} : publishing'[q] = publishing[q]
      /\ published'[k] = n + 1 /\ \A l \in Kinds \ {k} : published'[l] = published[l]
      /\ new.kind = k /\ new.of = n + 1
  <2>1. publishing'[p] = [pc |-> "built", event |-> new] BY <1>2 DEF BusTypeOK
  <2>2. \A q \in Publishers \ {p} : publishing'[q] = publishing[q] BY <1>2 DEF BusTypeOK
  <2>3. published'[k] = n + 1 /\ \A l \in Kinds \ {k} : published'[l] = published[l]
    BY <1>2 DEF BusTypeOK
  <2>4. new.kind = k /\ new.of = n + 1 BY <1>0
  <2>5. QED BY <2>1, <2>2, <2>3, <2>4
<1>4. BusTypeOK'
  <2>1. publishing' \in [Publishers -> Publications] BY <1>1, <1>2 DEF BusTypeOK
  <2>2. published' \in [Kinds -> Nat] BY <1>2 DEF BusTypeOK
  <2>3. QED BY <1>2, <2>1, <2>2 DEF BusTypeOK
<1>5. AtIsLeft' BY <1>3 DEF AtIsLeft
<1> HIDE DEF new
<1>6. \A l \in Kinds : published[l] \in Nat /\ published[l] <= published'[l]
  <2>1. \A l \in Kinds : published[l] \in Nat BY DEF BusTypeOK
  <2>2. published[k] <= published'[k] BY <1>0, <1>3
  <2>3. \A l \in Kinds \ {k} : published[l] <= published'[l] BY <1>3, <2>1
  <2>4. QED BY <2>1, <2>2, <2>3
<1>7. Counted'
  <2>1. ASSUME NEW s \in Streams, NEW e \in Events, Waits(queues[s], e) PROVE e.of <= published'[e.kind]
    <3>1. e.kind \in Kinds /\ e.of \in Nat BY DEF Events
    <3>2. e.of <= published[e.kind] BY <2>1 DEF Counted
    <3>3. published'[e.kind] \in Nat BY <1>4, <3>1 DEF BusTypeOK
    <3>4. QED BY <1>6, <3>1, <3>2, <3>3
  <2>2. ASSUME NEW q \in Publishers, publishing'[q] # NotPublishing
        PROVE  publishing'[q].event.of <= published'[publishing'[q].event.kind]
    <3>1. CASE q = p BY <1>3, <3>1
    <3>2. CASE q # p
      <4>1. PICK e \in Events : e = publishing[q].event
        BY <1>3, <2>2, <3>2 DEF BusTypeOK, Publications
      <4>2. e.kind \in Kinds /\ e.of \in Nat BY DEF Events
      <4>3. e.of <= published[e.kind] BY <1>3, <2>2, <3>2, <4>1 DEF Counted
      <4>4. published'[e.kind] \in Nat BY <1>4, <4>2 DEF BusTypeOK
      <4>5. QED BY <1>3, <1>6, <3>2, <4>1, <4>2, <4>3, <4>4
    <3>3. QED BY <3>1, <3>2
  <2>3. QED BY <1>2, <2>1, <2>2 DEF Counted
<1>8. \A l \in Kinds \ {k} : NewestOf(l)' = NewestOf(l) /\ (l \in raced' <=> l \in raced)
  BY <1>2, <1>3 DEF NewestOf
<1>9. NewestOf(k)' = new BY <1>3, <1>0 DEF NewestOf, new
<1>10. OneAtATime'
  <2> SUFFICES ASSUME NEW l \in Kinds \ raced', NEW q \in Publishers, Carries(q, l)'
               PROVE  publishing'[q].event = NewestOf(l)'
    BY DEF OneAtATime
  <2>1. CASE q = p BY <1>3, <1>9, <2>1 DEF Carries
  <2>2. CASE q # p
    <3>1. Carries(q, l) BY <1>3, <2>2 DEF Carries
    <3>2. l # k BY <1>2, <3>1
    <3>3. QED BY <1>3, <1>8, <2>2, <3>1, <3>2 DEF OneAtATime
  <2>3. QED BY <2>1, <2>2
<1>11. NewestLast'
  <2>1. \A s \in Streams : ~Waits(queues[s], new)
    <3> SUFFICES ASSUME NEW s \in Streams, Waits(queues[s], new) PROVE FALSE OBVIOUS
    <3>1. new.of <= published[new.kind] BY <1>1 DEF Counted
    <3>2. QED BY <1>0, <1>3, <3>1
  <2>2. \A s \in Streams : InOrder(queues[s], new) BY <2>1 DEF Waits, InOrder
  <2>3. QED BY <1>2, <1>8, <1>9, <2>2 DEF NewestLast
<1>12. Heard'
  <2>0. publishing'[p].pc = "built" /\ publishing'[p].event = new /\ publishing'[p] # NotPublishing
    BY <1>3 DEF NotPublishing
  <2>1. \A s \in Streams : \A e : e = new => Coming(p, s, e)' BY <2>0 DEF Coming
  <2>2. \A q \in Publishers, s \in Streams, e \in Events : Coming(q, s, e) => Coming(q, s, e)'
    BY <1>2, <1>3 DEF Coming
  <2> SUFFICES ASSUME NEW s \in Streams, NEW l \in Kinds, l # k, streams[s] = "open",
                      ~(l \in Snapshots /\ l \in raced)
               PROVE  \/ NewestOf(l) \in lost[s]
                      \/ Waits(queues[s], NewestOf(l))
                      \/ \E q \in Publishers : Coming(q, s, NewestOf(l))'
                      \/ displayed[s][l] = published[l] /\ (l \in Snapshots => ~WaitsKind(queues[s], l))
    BY <1>2, <1>3, <1>8, <1>9, <2>1 DEF Heard, Shows, NewestOf, Coming
  <2>3. NewestOf(l) \in Events BY DEF NewestOf, Events, BusTypeOK
  <2>4. PICK e \in Events : e = NewestOf(l) BY <2>3
  <2>5. (\E q \in Publishers : Coming(q, s, e)) => \E q \in Publishers : Coming(q, s, e)' BY <2>2
  <2>6. (\E q \in Publishers : Coming(q, s, e)') <=> \E q \in Publishers : Coming(q, s, NewestOf(l))'
    BY <1>8, <2>4 DEF Coming
  <2>7. QED BY <2>4, <2>5, <2>6 DEF Heard, Shows
<1>13. QED BY <1>4, <1>5, <1>7, <1>10, <1>11, <1>12

-----------------------------------------------------------------------------
(* What a publisher does with the queue of s: the other queues and the      *)
(* other publishers are as they were, its event goes into that queue or is  *)
(* counted as lost, and so is what it takes out of it.                      *)
Serves(p, s) ==
    /\ UNCHANGED <<streams, published, displayed, raced>>
    /\ \A q \in Publishers \ {p} : publishing'[q] = publishing[q]
    /\ \A r \in Streams \ {s} : queues'[r] = queues[r] /\ lost'[r] = lost[r]
    /\ publishing[p] # NotPublishing
    /\ publishing'[p] # NotPublishing => publishing'[p].event = publishing[p].event
    /\ lost[s] \subseteq lost'[s]
    /\ \A e \in Events : Waits(queues[s], e) => Waits(queues'[s], e) \/ e \in lost'[s]
    /\ \A e \in Events : Waits(queues'[s], e) => Waits(queues[s], e) \/ e = publishing[p].event
    /\ \A e \in Events :
          InOrder(queues[s], e) /\ (publishing[p].event.kind = e.kind => publishing[p].event = e)
             => InOrder(queues'[s], e)

Hands(p, s) ==
    /\ \A r \in Streams \ {s}, e \in Events :
          streams[r] = "open" /\ Coming(p, r, e) => Coming(p, r, e)'
    /\ \A e \in Events : streams[s] = "open" /\ Coming(p, s, e) =>
          Coming(p, s, e)' \/ Waits(queues'[s], e) \/ e \in lost'[s]

LEMMA OneQueueServed ==
    ASSUME BusIInv, NEW p \in Publishers, NEW s \in Streams, Serves(p, s), Hands(p, s)
    PROVE  Counted' /\ OneAtATime' /\ NewestLast' /\ Heard'
<1> USE DEF BusIInv
<1>0. PICK c \in Events : c = publishing[p].event
  BY DEF Serves, BusTypeOK, Publications
<1>1. \A k \in Kinds : NewestOf(k) \in Events /\ NewestOf(k)' = NewestOf(k) /\ NewestOf(k).kind = k
  BY DEF Serves, NewestOf, Events, BusTypeOK
<1>2. Counted'
  <2>1. c.of <= published[c.kind] BY <1>0 DEF Counted, Serves
  <2>2. QED BY <1>0, <2>1 DEF Counted, Serves
<1>3. OneAtATime' BY <1>0, <1>1 DEF OneAtATime, Carries, Serves
<1>4. NewestLast'
  <2> SUFFICES ASSUME NEW k \in Kinds \ raced, NEW r \in Streams
               PROVE  InOrder(queues'[r], NewestOf(k))
    BY <1>1 DEF NewestLast, Serves
  <2>1. c.kind = k => c = NewestOf(k) BY <1>0 DEF OneAtATime, Carries, Serves
  <2>2. QED BY <1>0, <1>1, <2>1 DEF NewestLast, Serves
<1>5. Heard'
  <2> SUFFICES ASSUME NEW r \in Streams, NEW k \in Kinds, streams[r] = "open",
                      ~(k \in Snapshots /\ k \in raced), NewestOf(k) \notin lost'[r],
                      \A q \in Publishers : ~Coming(q, r, NewestOf(k))',
                      ~Waits(queues'[r], NewestOf(k))
               PROVE  displayed[r][k] = published[k] /\ (k \in Snapshots => ~WaitsKind(queues'[r], k))
    BY <1>1 DEF Heard, NewestOf, Coming, Shows, Serves
  <2>1. NewestOf(k) \notin lost[r] /\ ~Waits(queues[r], NewestOf(k)) BY <1>1 DEF Serves
  <2>2. ASSUME NEW q \in Publishers PROVE ~Coming(q, r, NewestOf(k))
    <3>1. PICK e \in Events : e = NewestOf(k) BY <1>1
    <3>2. ~Coming(q, r, e)' BY <1>1, <3>1 DEF Coming
    <3>3. CASE q = p BY <1>1, <3>1, <3>2, <3>3 DEF Hands
    <3>4. CASE q # p BY <3>1, <3>2, <3>4 DEF Serves, Coming
    <3>5. QED BY <3>3, <3>4
  <2>3. Shows(r, k) BY <2>1, <2>2 DEF Heard
  <2>4. k \in Snapshots => ~WaitsKind(queues'[r], k)
    <3> SUFFICES ASSUME k \in Snapshots, NEW e \in Events, e.kind = k, Waits(queues'[r], e) PROVE FALSE
      BY DEF WaitsKind
    <3>1. ~Waits(queues[r], e) BY <2>3 DEF Shows, WaitsKind
    <3>2. r = s /\ e = c BY <1>0, <3>1 DEF Serves
    <3>3. c = NewestOf(k) BY <1>0, <3>2 DEF OneAtATime, Carries, Serves
    <3>4. QED BY <3>2, <3>3
  <2>5. QED BY <2>3, <2>4 DEF Shows
<1>6. QED BY <1>2, <1>3, <1>4, <1>5

LEMMA SubscribersCopied ==
    ASSUME BusIInv, NEW p \in Publishers, CopySubscribers(p) \/ PublishDone(p)
    PROVE  BusIInv'
<1> USE DEF BusIInv
<1> DEFINE P == publishing[p]
           new == [pc |-> "put", event |-> P.event, left |-> Subscribed]
<1>0. P \in Publications /\ P # NotPublishing
  BY DEF CopySubscribers, PublishDone, BusTypeOK, NotPublishing
<1>1. /\ UNCHANGED <<queues, streams, published, displayed, lost, raced>>
      /\ \A q \in Publishers \ {p} : publishing'[q] = publishing[q]
      /\ \/ P.pc = "built" /\ publishing'[p] = new
         \/ P.pc = "put" /\ P.left = {} /\ publishing'[p] = NotPublishing
  BY DEF CopySubscribers, PublishDone, BusTypeOK
<1>2. P.event \in Events BY <1>0 DEF Publications
<1>3. publishing'[p] \in Publications /\ new # NotPublishing
  BY <1>1, <1>2 DEF Publications, Subscribed, NotPublishing
<1>4. BusTypeOK'
  <2>1. publishing' \in [Publishers -> Publications]
    BY <1>3 DEF CopySubscribers, PublishDone, BusTypeOK
  <2>2. QED BY <1>1, <2>1 DEF BusTypeOK
<1>5. AtIsLeft' BY <1>1 DEF AtIsLeft, NotPublishing
<1>6. \A r \in Streams, e \in Events : streams[r] = "open" /\ Coming(p, r, e) => Coming(p, r, e)'
  BY <1>1, <1>3 DEF Coming, Subscribed
<1>7. ASSUME NEW s \in Streams PROVE Counted' /\ OneAtATime' /\ NewestLast' /\ Heard'
  <2>1. Serves(p, s) BY <1>0, <1>1 DEF Serves
  <2>2. Hands(p, s) BY <1>6 DEF Hands
  <2>3. QED BY <2>1, <2>2, OneQueueServed
<1>8. CASE Streams = {}
  <2>1. \A q \in Publishers : publishing'[q] # NotPublishing =>
            publishing[q] # NotPublishing /\ publishing'[q].event = publishing[q].event
    BY <1>0, <1>1
  <2>2. \A k \in Kinds : NewestOf(k)' = NewestOf(k) BY <1>1 DEF NewestOf
  <2>3. OneAtATime' BY <1>1, <2>1, <2>2 DEF OneAtATime, Carries
  <2>4. Counted' BY <1>1, <1>8, <2>1 DEF Counted
  <2>5. NewestLast' /\ Heard' BY <1>8 DEF NewestLast, Heard
  <2>6. QED BY <1>4, <1>5, <2>3, <2>4, <2>5
<1>9. QED BY <1>4, <1>5, <1>7, <1>8

(* The next state of a publisher that has served s, or is about to.         *)
LEMMA NextOfPublisher ==
    ASSUME NEW p \in Publishers, NEW s \in Streams, NEW P \in Publications,
           P.pc \in {"put", "get", "again"}, s \in P.left
    PROVE  /\ Served(P, s) \in Publications /\ FoundFull(P, s) \in Publications
           /\ P # NotPublishing /\ P.event \in Events /\ P.left \in SUBSET Streams
           /\ Served(P, s) # NotPublishing /\ FoundFull(P, s) # NotPublishing
           /\ Served(P, s).event = P.event /\ FoundFull(P, s).event = P.event
           /\ Served(P, s).pc = "put" /\ Served(P, s).left = P.left \ {s}
           /\ FoundFull(P, s).pc = "get" /\ FoundFull(P, s).left = P.left /\ FoundFull(P, s).at = s
<1>1. P # NotPublishing BY DEF NotPublishing
<1>2. P.event \in Events /\ P.left \in SUBSET Streams BY <1>1 DEF Publications
<1>3. QED BY <1>1, <1>2 DEF Publications, NotPublishing, Served, FoundFull

LEMMA PutKeeps ==
    ASSUME BusIInv, NEW p \in Publishers, NEW s \in Streams, Put(p, s)
    PROVE  BusIInv'
<1> USE DEF BusIInv
<1>0. PICK P \in Publications : P = publishing[p] BY DEF BusTypeOK
<1>1. PICK q \in Seq(Events) : q = queues[s] BY DEF BusTypeOK
<1>2. /\ P.pc = "put" /\ s \in P.left /\ UNCHANGED <<streams, published, displayed, lost, raced>>
      /\ \A r \in Publishers \ {p} : publishing'[r] = publishing[r]
      /\ \A r \in Streams \ {s} : queues'[r] = queues[r]
      /\ \/ queues' = [queues EXCEPT ![s] = Append(q, P.event)]
              /\ publishing' = [publishing EXCEPT ![p] = Served(P, s)]
         \/ queues' = queues /\ publishing' = [publishing EXCEPT ![p] = FoundFull(P, s)]
  BY <1>0, <1>1 DEF Put, BusTypeOK
<1>3. /\ P # NotPublishing /\ P.event \in Events
      /\ Served(P, s) \in Publications /\ FoundFull(P, s) \in Publications
      /\ Served(P, s) # NotPublishing /\ FoundFull(P, s) # NotPublishing
      /\ Served(P, s).event = P.event /\ FoundFull(P, s).event = P.event
      /\ Served(P, s).pc = "put" /\ Served(P, s).left = P.left \ {s}
      /\ FoundFull(P, s).left = P.left /\ FoundFull(P, s).at = s
  BY <1>2, NextOfPublisher
<1>4. Append(q, P.event) \in Seq(Events) BY <1>3, AppendToQueue
<1>5. /\ publishing'[p] \in {Served(P, s), FoundFull(P, s)}
      /\ publishing'[p] = Served(P, s) => queues'[s] = Append(q, P.event)
      /\ queues'[s] = q \/ queues'[s] = Append(q, P.event)
  <2>1. Served(P, s) # FoundFull(P, s) BY DEF Served, FoundFull
  <2>2. QED BY <1>1, <1>2, <2>1 DEF BusTypeOK
<1>6. BusTypeOK'
  <2>1. queues' \in [Streams -> Seq(Events)] BY <1>2, <1>4 DEF BusTypeOK
  <2>2. publishing' \in [Publishers -> Publications] BY <1>2, <1>3 DEF BusTypeOK
  <2>3. QED BY <1>2, <2>1, <2>2 DEF BusTypeOK
<1>7. AtIsLeft' BY <1>2, <1>3, <1>5 DEF AtIsLeft
<1>a. PICK a \in Seq(Events) : a = Append(q, P.event) BY <1>4
<1>b. /\ Waits(a, P.event)
      /\ \A e : Waits(q, e) => Waits(a, e)
      /\ \A e : Waits(a, e) => Waits(q, e) \/ e = P.event
      /\ \A e : InOrder(q, e) /\ (P.event.kind = e.kind => P.event = e) => InOrder(a, e)
  BY <1>3, <1>a, AppendToQueue
<1>c. queues'[s] = q \/ queues'[s] = a BY <1>5, <1>a
<1>8. Serves(p, s)
  <2>1. \A e \in Events : Waits(queues[s], e) => Waits(queues'[s], e) BY <1>1, <1>b, <1>c
  <2>2. \A e \in Events : Waits(queues'[s], e) => Waits(queues[s], e) \/ e = P.event
    BY <1>1, <1>b, <1>c
  <2>3. \A e \in Events : InOrder(queues[s], e) /\ (P.event.kind = e.kind => P.event = e)
                             => InOrder(queues'[s], e)
    BY <1>1, <1>b, <1>c
  <2>4. publishing'[p].event = P.event BY <1>3, <1>5
  <2>5. QED BY <1>0, <1>2, <1>3, <2>1, <2>2, <2>3, <2>4 DEF Serves
<1>9. Hands(p, s)
  <2>1. \A r \in Streams \ {s}, e \in Events : Coming(p, r, e) => Coming(p, r, e)'
    BY <1>0, <1>2, <1>3, <1>5 DEF Coming
  <2>2. \A e \in Events : Coming(p, s, e) => Coming(p, s, e)' \/ Waits(queues'[s], e)
    <3>1. CASE publishing'[p] = Served(P, s) BY <1>0, <1>5, <1>a, <1>b, <3>1 DEF Coming
    <3>2. CASE publishing'[p] = FoundFull(P, s) BY <1>0, <1>2, <1>3, <3>2 DEF Coming
    <3>3. QED BY <1>5, <3>1, <3>2
  <2>3. QED BY <2>1, <2>2 DEF Hands
<1>10. QED BY <1>6, <1>7, <1>8, <1>9, OneQueueServed

LEMMA DropKeeps ==
    ASSUME BusIInv, NEW p \in Publishers, DropOldest(p)
    PROVE  BusIInv'
<1> USE DEF BusIInv
<1>0. PICK P \in Publications : P = publishing[p] BY DEF BusTypeOK
<1>1. P.pc = "get" /\ P.at \in P.left BY <1>0 DEF DropOldest, AtIsLeft
<1>2. P.at \in Streams BY <1>1 DEF Publications, NotPublishing
<1>3. PICK s \in Streams : s = P.at BY <1>2
<1>4. PICK q \in Seq(Events) : q = queues[s] BY DEF BusTypeOK
<1>5. /\ P # NotPublishing /\ P.event \in Events
      /\ Served(P, s) \in Publications /\ Served(P, s) # NotPublishing
      /\ Served(P, s).event = P.event
      /\ Served(P, s).pc = "put" /\ Served(P, s).left = P.left \ {s}
  BY <1>1, <1>3, NextOfPublisher
<1>6. /\ AfterDrop(P) \in Publications /\ AfterDrop(P) # NotPublishing
      /\ AfterDrop(P).event = P.event /\ AfterDrop(P).pc = "again"
      /\ AfterDrop(P).left = P.left /\ AfterDrop(P).at = s
  BY <1>1, <1>3, <1>5 DEF Publications, AfterDrop, NotPublishing
<1>7. /\ UNCHANGED <<streams, published, displayed, raced>>
      /\ \A r \in Publishers \ {p} : publishing'[r] = publishing[r]
      /\ \A r \in Streams \ {s} : queues'[r] = queues[r] /\ lost'[r] = lost[r]
      /\ \/ /\ q = << >> /\ queues' = queues
            /\ publishing' = [publishing EXCEPT ![p] = Served(P, s)]
            /\ lost' = [lost EXCEPT ![s] = @ \cup {P.event}]
         \/ /\ q # << >> /\ queues' = [queues EXCEPT ![s] = Tail(q)]
            /\ publishing' = [publishing EXCEPT ![p] = AfterDrop(P)]
            /\ lost' = [lost EXCEPT ![s] = @ \cup {Head(q)}]
  BY <1>0, <1>3, <1>4 DEF DropOldest, BusTypeOK
<1>8. \/ /\ publishing'[p] = Served(P, s) /\ queues'[s] = q /\ lost'[s] = lost[s] \cup {P.event}
      \/ /\ q # << >> /\ publishing'[p] = AfterDrop(P) /\ queues'[s] = Tail(q)
         /\ lost'[s] = lost[s] \cup {Head(q)}
  BY <1>4, <1>7 DEF BusTypeOK
<1>9. BusTypeOK'
  <2>1. q # << >> => Tail(q) \in Seq(Events) /\ Head(q) \in Events BY TailOfQueue
  <2>2. queues' \in [Streams -> Seq(Events)] BY <1>7, <2>1 DEF BusTypeOK
  <2>3. publishing' \in [Publishers -> Publications] BY <1>5, <1>6, <1>7 DEF BusTypeOK
  <2>4. lost' \in [Streams -> SUBSET Events]
    <3>1. PICK e \in Events : lost' = [lost EXCEPT ![s] = @ \cup {e}] BY <1>5, <1>7, <2>1
    <3>2. lost[s] \cup {e} \in SUBSET Events BY DEF BusTypeOK
    <3>3. QED BY <3>1, <3>2 DEF BusTypeOK
  <2>5. QED BY <1>7, <2>2, <2>3, <2>4 DEF BusTypeOK
<1>10. AtIsLeft' BY <1>1, <1>3, <1>5, <1>6, <1>7, <1>8 DEF AtIsLeft
<1>11. Serves(p, s) BY <1>0, <1>4, <1>5, <1>6, <1>7, <1>8, TailOfQueue DEF Serves
<1>12. Hands(p, s)
  <2>1. \A r \in Streams \ {s}, e \in Events : Coming(p, r, e) => Coming(p, r, e)'
    BY <1>0, <1>1, <1>5, <1>6, <1>8 DEF Coming
  <2>2. \A e \in Events : Coming(p, s, e) => Coming(p, s, e)' \/ e \in lost'[s]
    BY <1>0, <1>1, <1>5, <1>6, <1>8 DEF Coming
  <2>3. QED BY <2>1, <2>2 DEF Hands
<1>13. QED BY <1>9, <1>10, <1>11, <1>12, OneQueueServed

LEMMA PutAgainKeeps ==
    ASSUME BusIInv, NEW p \in Publishers, PutAgain(p)
    PROVE  BusIInv'
<1> USE DEF BusIInv
<1>0. PICK P \in Publications : P = publishing[p] BY DEF BusTypeOK
<1>1. P.pc = "again" /\ P.at \in P.left BY <1>0 DEF PutAgain, AtIsLeft
<1>2. P.at \in Streams BY <1>1 DEF Publications, NotPublishing
<1>3. PICK s \in Streams : s = P.at BY <1>2
<1>4. PICK q \in Seq(Events) : q = queues[s] BY DEF BusTypeOK
<1>5. /\ P # NotPublishing /\ P.event \in Events
      /\ Served(P, s) \in Publications /\ Served(P, s) # NotPublishing
      /\ Served(P, s).event = P.event
      /\ Served(P, s).pc = "put" /\ Served(P, s).left = P.left \ {s}
  BY <1>1, <1>3, NextOfPublisher
<1>6. Append(q, P.event) \in Seq(Events) BY <1>5, AppendToQueue
<1>7. /\ UNCHANGED <<streams, published, displayed, raced>>
      /\ publishing' = [publishing EXCEPT ![p] = Served(P, s)]
      /\ \A r \in Publishers \ {p} : publishing'[r] = publishing[r]
      /\ \A r \in Streams \ {s} : queues'[r] = queues[r] /\ lost'[r] = lost[r]
      /\ \/ queues' = [queues EXCEPT ![s] = Append(q, P.event)] /\ lost' = lost
         \/ queues' = queues /\ lost' = [lost EXCEPT ![s] = @ \cup {P.event}]
  BY <1>0, <1>3, <1>4 DEF PutAgain, BusTypeOK
<1>8. /\ publishing'[p] = Served(P, s)
      /\ \/ queues'[s] = Append(q, P.event) /\ lost'[s] = lost[s]
         \/ queues'[s] = q /\ lost'[s] = lost[s] \cup {P.event}
  BY <1>4, <1>7 DEF BusTypeOK
<1>9. BusTypeOK'
  <2>1. queues' \in [Streams -> Seq(Events)] BY <1>6, <1>7 DEF BusTypeOK
  <2>2. publishing' \in [Publishers -> Publications] BY <1>5, <1>7 DEF BusTypeOK
  <2>3. lost' \in [Streams -> SUBSET Events] BY <1>5, <1>7 DEF BusTypeOK
  <2>4. QED BY <1>7, <2>1, <2>2, <2>3 DEF BusTypeOK
<1>10. AtIsLeft' BY <1>5, <1>7, <1>8 DEF AtIsLeft
<1>a. PICK a \in Seq(Events) : a = Append(q, P.event) BY <1>6
<1>b. /\ Waits(a, P.event)
      /\ \A e : Waits(q, e) => Waits(a, e)
      /\ \A e : Waits(a, e) => Waits(q, e) \/ e = P.event
      /\ \A e : InOrder(q, e) /\ (P.event.kind = e.kind => P.event = e) => InOrder(a, e)
  BY <1>5, <1>a, AppendToQueue
<1>c. \/ queues'[s] = a
      \/ queues'[s] = q /\ P.event \in lost'[s]
  BY <1>8, <1>a
<1>11. Serves(p, s)
  <2>1. \A e \in Events : Waits(queues[s], e) => Waits(queues'[s], e) BY <1>4, <1>b, <1>c
  <2>2. \A e \in Events : Waits(queues'[s], e) => Waits(queues[s], e) \/ e = P.event
    BY <1>4, <1>b, <1>c
  <2>3. \A e \in Events : InOrder(queues[s], e) /\ (P.event.kind = e.kind => P.event = e)
                             => InOrder(queues'[s], e)
    BY <1>4, <1>b, <1>c
  <2>4. lost[s] \subseteq lost'[s] BY <1>8
  <2>5. QED BY <1>0, <1>5, <1>7, <1>8, <2>1, <2>2, <2>3, <2>4 DEF Serves
<1>12. Hands(p, s)
  <2>1. \A r \in Streams \ {s}, e \in Events : Coming(p, r, e) => Coming(p, r, e)'
    BY <1>0, <1>1, <1>5, <1>8 DEF Coming
  <2>2. \A e \in Events : Coming(p, s, e) => Waits(queues'[s], e) \/ e \in lost'[s]
    BY <1>0, <1>b, <1>c DEF Coming
  <2>3. QED BY <2>1, <2>2 DEF Hands
<1>13. QED BY <1>9, <1>10, <1>11, <1>12, OneQueueServed

LEMMA BusInduction == BusIInv /\ [BusNext]_busVars => BusIInv'
<1> SUFFICES ASSUME BusIInv, [BusNext]_busVars PROVE BusIInv' OBVIOUS
<1>1. CASE UNCHANGED busVars
  BY <1>1 DEF busVars, BusIInv, BusTypeOK, AtIsLeft, Counted, OneAtATime, NewestLast, Heard,
     Coming, Carries, NewestOf, Shows
<1>2. CASE BusNext
  BY <1>2, StreamsKeep, ReadKeeps, PublishKeeps, SubscribersCopied, PutKeeps, DropKeeps,
     PutAgainKeeps DEF BusNext
<1>3. QED BY <1>1, <1>2

(* For every kind of event: whatever publishers drop from full queues while *)
(* they are drained, a stream with no event of the kind before it or under  *)
(* way shows the newest state of the kind, unless that newest event was     *)
(* lost, or raced one of its kind that carries what is displayed                *)
(* (EventBus.publish, route_admin_events).                                  *)
THEOREM StreamsAreUpToDate == BusSpec => []NothingStale
<1>1. BusIInv => NothingStale
  <2> SUFFICES ASSUME BusIInv, NEW s \in Subscribed, NEW k \in Kinds,
                      \A p \in Publishers : ~Carries(p, k),
                      \A i \in DOMAIN queues[s] : queues[s][i].kind # k,
                      NewestOf(k) \notin lost[s], ~(k \in Snapshots /\ k \in raced)
               PROVE  displayed[s][k] = published[k]
    BY DEF NothingStale
  <2>1. NewestOf(k).kind = k BY DEF NewestOf
  <2>2. ~Waits(queues[s], NewestOf(k)) BY <2>1 DEF Waits
  <2>3. \A p \in Publishers : ~Coming(p, s, NewestOf(k)) BY <2>1 DEF Coming, Carries
  <2>4. QED BY <2>2, <2>3 DEF BusIInv, Heard, Subscribed, Shows
<1>2. QED BY <1>1, BusStarts, BusInduction, PTL DEF BusSpec

-----------------------------------------------------------------------------
(***************************************************************************)
(* Plays: a song played alone is counted once, by its reports or by its    *)
(* submission.                                                             *)
(***************************************************************************)

PlayerStates == [song : PlayedSongs \cup {NoSong}, plays : Nat,
                 pc : {"idle", "check", "count", "submit"}, begun : BOOLEAN,
                 over : BOOLEAN, skip : PlayedSongs \cup {NoSong}]

PlayTypeOK ==
    /\ session \in [song : PlayedSongs \cup {NoSong}, scrobbled : BOOLEAN]
    /\ playing \in [SongPlayers -> PlayerStates]
    /\ counted \in [SongPlayers -> Nat] /\ forgotten \in BOOLEAN

(* Who is in a request, or has announced or submitted a play, has sent      *)
(* something, and plays a song.                                             *)
SentBefore ==
    \A c \in SongPlayers :
        playing[c].pc # "idle" \/ playing[c].begun \/ playing[c].over =>
            c \in present /\ playing[c].song # NoSong

(* The play of a player that is alone: the flag of the session is about the *)
(* play it goes on with, and what Submit read tells whether it was counted. *)
LonePlay(c) ==
    LET p == playing[c] IN
    /\ counted[c] \in {0, 1}
    /\ ~p.begun => p.pc \in {"idle", "submit"} /\ (p.pc = "submit" \/ ~p.over => counted[c] = 0)
    /\ p.begun /\ ~p.over =>
          /\ session.song = p.song /\ (session.scrobbled <=> counted[c] = 1)
          /\ p.pc = "count" => counted[c] = 0
    /\ p.over <=> p.over /\ p.pc \in {"idle", "submit"}
    /\ p.pc = "submit" => p.over /\ (p.begun => (counted[c] = 1 <=> p.skip = p.song))
    /\ p.over /\ p.begun /\ p.pc = "idle" => counted[c] = 1

PlayIInv ==
    /\ PlayTypeOK /\ SentBefore
    /\ \A c \in SongPlayers : present \subseteq {c} /\ ~forgotten => LonePlay(c)

-----------------------------------------------------------------------------
LEMMA PlayStarts == PlayInit => PlayIInv
<1> SUFFICES ASSUME PlayInit PROVE PlayIInv OBVIOUS
<1>1. NotPlaying \in PlayerStates BY DEF NotPlaying, PlayerStates
<1>2. PlayTypeOK BY <1>1 DEF PlayInit, PlayTypeOK, NoSession
<1>3. SentBefore BY DEF PlayInit, SentBefore, NotPlaying
<1>4. \A c \in SongPlayers : LonePlay(c) BY DEF PlayInit, LonePlay, NotPlaying
<1>5. QED BY <1>2, <1>3, <1>4 DEF PlayIInv

(* A step of one player leaves the plays of the others; when one of those   *)
(* is alone all the same, the step has sent nothing, and begun nothing.     *)
LEMMA OnePlays ==
    ASSUME PlayIInv, PlayTypeOK', NEW c \in SongPlayers,
           \A d \in SongPlayers \ {c} : playing'[d] = playing[d] /\ counted'[d] = counted[d],
           present \subseteq present', forgotten => forgotten',
           c \notin present' => UNCHANGED session,
           playing'[c].pc # "idle" \/ playing'[c].begun \/ playing'[c].over =>
                c \in present' /\ playing'[c].song # NoSong,
           present' \subseteq {c} /\ ~forgotten' => LonePlay(c)'
    PROVE  PlayIInv'
<1>1. SentBefore' BY DEF PlayIInv, SentBefore
<1>2. ASSUME NEW d \in SongPlayers, d # c, present' \subseteq {d}, ~forgotten' PROVE LonePlay(d)'
  <2>1. c \notin present' /\ present \subseteq {d} /\ ~forgotten BY <1>2
  <2>2. UNCHANGED session /\ LonePlay(d) BY <2>1 DEF PlayIInv
  <2>3. QED BY <1>2, <2>2 DEF LonePlay
<1>3. QED BY <1>1, <1>2 DEF PlayIInv

LEMMA PlayKeeps ==
    ASSUME PlayIInv, NEW c \in SongPlayers, NEW song \in PlayedSongs, Play(c, song)
    PROVE  PlayIInv'
<1> DEFINE n == playing[c].plays + 1
           p == [NotPlaying EXCEPT !.song = song, !.plays = n]
<1>n. n \in Nat BY DEF PlayIInv, PlayTypeOK, PlayerStates
<1>c. playing' = [playing EXCEPT ![c] = p] BY DEF Play
<1> HIDE DEF n
<1>0. NotPlaying \in PlayerStates BY DEF NotPlaying, PlayerStates
<1>a. p.pc = "idle" /\ ~p.begun /\ ~p.over
  <2>1. p.pc = NotPlaying.pc /\ p.begun = NotPlaying.begun /\ p.over = NotPlaying.over
    BY <1>0 DEF PlayerStates
  <2>2. NotPlaying.pc = "idle" /\ ~NotPlaying.begun /\ ~NotPlaying.over BY DEF NotPlaying
  <2>3. QED BY <2>1, <2>2
<1>b. p \in PlayerStates BY <1>0, <1>n DEF PlayerStates
<1> HIDE DEF p
<1>1. PlayTypeOK' BY <1>b, <1>c DEF PlayIInv, PlayTypeOK, Play
<1>2. /\ playing'[c].pc = "idle" /\ ~playing'[c].begun /\ ~playing'[c].over /\ counted'[c] = 0
      /\ \A d \in SongPlayers \ {c} : playing'[d] = playing[d] /\ counted'[d] = counted[d]
  BY <1>a, <1>c DEF PlayIInv, PlayTypeOK, Play
<1> USE DEF Play
<1>3. LonePlay(c)' BY <1>2 DEF LonePlay
<1>4. QED BY <1>1, <1>2, <1>3, OnePlays

LEMMA ReportsKeep ==
    ASSUME PlayIInv, NEW c \in SongPlayers,
           ReportStarting(c) \/ \E beyond \in BOOLEAN : Report(c, beyond)
    PROVE  PlayIInv'
<1> USE PlayAssumption DEF Listening, PlAt, PlGo, PlayIInv
<1>1. CASE ReportStarting(c)
  <2> USE <1>1 DEF ReportStarting
  <2>1. PlayTypeOK' BY ZenonT(40) DEF PlayTypeOK, PlayerStates, Started
  <2>2. /\ playing'[c] = [playing[c] EXCEPT !.begun = TRUE] /\ counted' = counted
        /\ \A d \in SongPlayers \ {c} : playing'[d] = playing[d]
    BY DEF PlayTypeOK, PlayerStates
  <2>3. present' \subseteq {c} /\ ~forgotten' => LonePlay(c)'
    BY <2>2 DEF PlayTypeOK, PlayerStates, LonePlay, Started
  <2>4. QED BY <2>1, <2>2, <2>3, OnePlays DEF PlayTypeOK, PlayerStates
<1>2. ASSUME NEW beyond \in BOOLEAN, Report(c, beyond) PROVE PlayIInv'
  <2> USE <1>2 DEF Report
  <2>1. PlayTypeOK' BY DEF PlayTypeOK, PlayerStates
  <2>2. /\ playing'[c] = [playing[c] EXCEPT !.pc = IF beyond THEN "check" ELSE "idle"]
        /\ \A d \in SongPlayers \ {c} : playing'[d] = playing[d]
    BY DEF PlayTypeOK, PlayerStates
  <2>3. present' \subseteq {c} /\ ~forgotten' => LonePlay(c)'
    BY <2>2 DEF PlayTypeOK, PlayerStates, LonePlay, NoSession
  <2>4. QED BY <2>1, <2>2, <2>3, OnePlays DEF PlayTypeOK, PlayerStates
<1>3. QED BY <1>1, <1>2

LEMMA CountingKeeps ==
    ASSUME PlayIInv, NEW c \in SongPlayers, CheckSession(c) \/ CountReported(c)
    PROVE  PlayIInv'
<1> USE PlayAssumption DEF PlAt, PlGo, PlayIInv
<1>1. CASE CheckSession(c)
  <2> USE <1>1 DEF CheckSession
  <2>1. PlayTypeOK' BY DEF PlayTypeOK, PlayerStates
  <2>2. /\ playing'[c] = [playing[c] EXCEPT !.pc = IF session # NoSession /\ ~session.scrobbled
                                                    THEN "count" ELSE "idle"]
        /\ \A d \in SongPlayers \ {c} : playing'[d] = playing[d]
    BY DEF PlayTypeOK, PlayerStates
  <2>3. present' \subseteq {c} /\ ~forgotten' => LonePlay(c)'
    BY <2>2 DEF PlayTypeOK, PlayerStates, LonePlay, SentBefore
  <2>4. QED BY <2>1, <2>2, <2>3, OnePlays DEF PlayTypeOK, PlayerStates, SentBefore
<1>2. CASE CountReported(c)
  <2> USE <1>2 DEF CountReported
  <2>1. PlayTypeOK'
    <3>1. playing' \in [SongPlayers -> PlayerStates] BY DEF PlayTypeOK, PlayerStates
    <3>2. counted' \in [SongPlayers -> Nat] BY DEF PlayTypeOK
    <3>3. session' \in [song : PlayedSongs \cup {NoSong}, scrobbled : BOOLEAN] BY DEF PlayTypeOK
    <3>4. QED BY <3>1, <3>2, <3>3 DEF PlayTypeOK
  <2>2. /\ playing'[c] = [playing[c] EXCEPT !.pc = "idle"] /\ counted'[c] = counted[c] + 1
        /\ \A d \in SongPlayers \ {c} : playing'[d] = playing[d] /\ counted'[d] = counted[d]
    BY DEF PlayTypeOK, PlayerStates
  <2>3. present' \subseteq {c} /\ ~forgotten' => LonePlay(c)'
    <3> SUFFICES ASSUME present' \subseteq {c}, ~forgotten' PROVE LonePlay(c)' OBVIOUS
    <3>1. LonePlay(c) /\ playing[c].pc = "count" /\ c \in present /\ playing[c].song # NoSong
      BY DEF SentBefore
    <3>2. playing[c].begun /\ ~playing[c].over /\ counted[c] = 0 /\ session.song = playing[c].song
      BY <3>1 DEF LonePlay
    <3>3. counted'[c] = 1 /\ session'.song = playing[c].song /\ session'.scrobbled = TRUE
      BY <2>2, <3>1, <3>2 DEF NoSession, PlayTypeOK
    <3>4. QED BY <2>2, <3>2, <3>3 DEF LonePlay, PlayTypeOK
  <2>4. QED BY <2>1, <2>2, <2>3, OnePlays DEF PlayTypeOK, PlayerStates, SentBefore
<1>3. QED BY <1>1, <1>2

LEMMA SubmissionsKeep ==
    ASSUME PlayIInv, NEW c \in SongPlayers, NowPlaying(c) \/ Submit(c) \/ CountSubmitted(c)
    PROVE  PlayIInv'
<1> USE PlayAssumption DEF Listening, PlAt, PlGo, PlayIInv
<1>1. CASE NowPlaying(c)
  <2> USE <1>1 DEF NowPlaying
  <2>1. PlayTypeOK' BY DEF PlayTypeOK, PlayerStates
  <2>2. present' \subseteq {c} /\ ~forgotten' => LonePlay(c)' BY DEF PlayTypeOK, PlayerStates, LonePlay
  <2>3. QED BY <2>1, <2>2, OnePlays DEF PlayTypeOK, PlayerStates
<1>2. CASE Submit(c)
  <2> USE <1>2 DEF Submit
  <2>1. PlayTypeOK' BY DEF PlayTypeOK, PlayerStates
  <2>2. /\ playing'[c] = [playing[c] EXCEPT !.pc = "submit", !.over = TRUE,
                             !.skip = IF session.scrobbled THEN session.song ELSE NoSong]
        /\ \A d \in SongPlayers \ {c} : playing'[d] = playing[d]
    BY DEF PlayTypeOK, PlayerStates
  <2>3. present' \subseteq {c} /\ ~forgotten' => LonePlay(c)'
    BY <2>2 DEF PlayTypeOK, PlayerStates, LonePlay
  <2>4. QED BY <2>1, <2>2, <2>3, OnePlays DEF PlayTypeOK, PlayerStates
<1>3. CASE CountSubmitted(c)
  <2> USE <1>3 DEF CountSubmitted
  <2>1. PlayTypeOK' BY DEF PlayTypeOK, PlayerStates, NoSession
  <2>2. /\ playing'[c] = [playing[c] EXCEPT !.pc = "idle"]
        /\ counted'[c] = IF Again(c) THEN counted[c] + 1 ELSE counted[c]
        /\ \A d \in SongPlayers \ {c} : playing'[d] = playing[d] /\ counted'[d] = counted[d]
    BY DEF PlayTypeOK, PlayerStates
  <2>3. c \in present BY DEF SentBefore
  <2>4. present' \subseteq {c} /\ ~forgotten' => LonePlay(c)'
    BY <2>2 DEF PlayTypeOK, PlayerStates, LonePlay, Again
  <2>5. QED BY <2>1, <2>2, <2>3, <2>4, OnePlays DEF PlayTypeOK, PlayerStates, SentBefore
<1>4. QED BY <1>1, <1>2, <1>3

LEMMA PlayInduction == PlayIInv /\ [PlayNext]_playVars => PlayIInv'
<1> SUFFICES ASSUME PlayIInv, [PlayNext]_playVars PROVE PlayIInv' OBVIOUS
<1>1. CASE UNCHANGED playVars
  BY <1>1 DEF playVars, PlayIInv, PlayTypeOK, PlayerStates, SentBefore, LonePlay
<1>2. CASE Forget BY <1>2 DEF Forget, PlayIInv, PlayTypeOK, PlayerStates, SentBefore, NoSession
<1>3. CASE PlayNext
  BY <1>2, <1>3, PlayKeeps, ReportsKeep, CountingKeeps, SubmissionsKeep DEF PlayNext
<1>4. QED BY <1>1, <1>3

(* As long as one player is active and its session was not forgotten, its   *)
(* play is counted at most once, and once if it was announced and submitted *)
(* (scrobble.py).                                                           *)
THEOREM LonePlaysAreCounted == PlaySpec => []LoneCounted
<1>1. PlayIInv => LoneCounted BY DEF PlayIInv, LonePlay, LoneCounted, PlAt
<1>2. QED BY <1>1, PlayStarts, PlayInduction, PTL DEF PlaySpec

-----------------------------------------------------------------------------
(***************************************************************************)
(* The two maps of the tokeniser say the same, whatever is registered,     *)
(* resolved and evicted in whatever order, for every number of payloads and *)
(* of tokens kept.  The invariant is InStep with what makes it inductive:   *)
(* the numbers given so far bound those of the entries, and no entry        *)
(* expires later than one that is used now.                                 *)
(***************************************************************************)

(* The two maps, as sets of entries and of pairs.                           *)
Agree(entries, pairs) ==
    /\ pairs = {<<e.payload, e.token>> : e \in entries}
    /\ \A e, f \in entries : e # f => e.payload # f.payload /\ e.token # f.token /\ e.turn # f.turn

Aged(entries) == \A e, f \in entries : e.turn < f.turn => e.expires <= f.expires

(* What was given out is behind us.                                         *)
Past(entries, n, now) ==
    /\ entries \subseteq Entry
    /\ \A e \in entries : e.token <= n /\ e.turn <= n /\ e.expires <= now + TokenTTL

TokensIInv ==
    /\ uses \in Nat /\ tokenClock \in Nat
    /\ Past(byToken, uses, tokenClock)
    /\ Agree(byToken, byPayload) /\ Aged(byToken)

-----------------------------------------------------------------------------
(* Entries that are dropped with their pairs leave the maps in agreement.   *)
LEMMA DroppingAgrees ==
    ASSUME NEW entries, NEW pairs, NEW gone \in SUBSET entries, Agree(entries, pairs)
    PROVE  Agree(entries \ gone, Without(pairs, gone))
<1>1. Without(pairs, gone) \subseteq {<<e.payload, e.token>> : e \in entries \ gone}
  <2> SUFFICES ASSUME NEW p \in Without(pairs, gone)
               PROVE  \E e \in entries \ gone : p = <<e.payload, e.token>>
    OBVIOUS
  <2>1. PICK e \in entries : p = <<e.payload, e.token>>
    BY DEF Without, Agree
  <2>2. e \notin gone
    BY <2>1 DEF Without
  <2> QED BY <2>1, <2>2
<1>2. {<<e.payload, e.token>> : e \in entries \ gone} \subseteq Without(pairs, gone)
  <2> SUFFICES ASSUME NEW e \in entries \ gone
               PROVE  <<e.payload, e.token>> \in Without(pairs, gone)
    OBVIOUS
  <2>1. <<e.payload, e.token>> \in pairs
    BY DEF Agree
  <2>2. \A g \in gone : g.payload # e.payload
    BY DEF Agree
  <2> QED BY <2>1, <2>2 DEF Without
<1> QED BY <1>1, <1>2 DEF Agree

(* What is evicted is among the entries.                                    *)
LEMMA EvictedAreEntries ==
    ASSUME NEW entries
    PROVE  Evicted(entries) \in SUBSET entries
BY DEF Evicted

(* Fewer entries are as well ordered, and as old.                           *)
LEMMA FewerAreAged ==
    ASSUME NEW entries, NEW some \in SUBSET entries, NEW n, NEW now,
           Aged(entries), Past(entries, n, now)
    PROVE  Aged(some) /\ Past(some, n, now)
BY DEF Aged, Past

(* A use moves an entry to the end of the order, with the latest expiry.    *)
LEMMA UsedAgrees ==
    ASSUME NEW entries, NEW pairs, NEW e \in entries,
           uses \in Nat, tokenClock \in Nat,
           Past(entries, uses, tokenClock), Agree(entries, pairs), Aged(entries)
    PROVE  /\ Past(Used(entries, e), uses + 1, tokenClock)
           /\ Agree(Used(entries, e), pairs) /\ Aged(Used(entries, e))
<1> DEFINE last == [e EXCEPT !.expires = tokenClock + TokenTTL, !.turn = uses + 1]
<1>1. /\ e \in Entry /\ last \in Entry
      /\ last.token = e.token /\ last.payload = e.payload
      /\ last.turn = uses + 1 /\ last.expires = tokenClock + TokenTTL
  <2>1. e \in Entry
    BY DEF Past
  <2>2. uses + 1 \in Nat /\ tokenClock + TokenTTL \in Nat
    BY TokensAssumption
  <2> QED BY <2>1, <2>2 DEF Entry
<1>2. Used(entries, e) = (entries \ {e}) \cup {last}
  BY DEF Used
<1> HIDE DEF last
<1>3. Past(Used(entries, e), uses + 1, tokenClock)
  BY <1>1, <1>2, TokensAssumption DEF Past, Entry
<1>4. Aged(Used(entries, e))
  BY <1>1, <1>2, TokensAssumption DEF Past, Aged, Entry
<1>5. {<<f.payload, f.token>> : f \in Used(entries, e)} = {<<f.payload, f.token>> : f \in entries}
  BY <1>1, <1>2
<1>6. \A f \in entries \ {e} : f.payload # last.payload /\ f.token # last.token /\ f.turn # last.turn
  BY <1>1 DEF Agree, Past, Entry
<1> QED BY <1>2, <1>3, <1>4, <1>5, <1>6 DEF Agree

(* A payload that has no token gets a new one.                              *)
LEMMA NewAgrees ==
    ASSUME NEW entries, NEW pairs, NEW payload \in Payloads, NEW new,
           uses \in Nat, tokenClock \in Nat,
           new = [token |-> uses + 1, payload |-> payload,
                  expires |-> tokenClock + TokenTTL, turn |-> uses + 1],
           \A p \in pairs : p[1] # payload,
           Past(entries, uses, tokenClock), Agree(entries, pairs), Aged(entries)
    PROVE  /\ Past(entries \cup {new}, uses + 1, tokenClock)
           /\ Agree(entries \cup {new}, pairs \cup {<<payload, new.token>>})
           /\ Aged(entries \cup {new})
<1>1. /\ new \in Entry /\ new.token = uses + 1 /\ new.turn = uses + 1
      /\ new.payload = payload /\ new.expires = tokenClock + TokenTTL
  BY TokensAssumption DEF Entry
<1>2. Past(entries \cup {new}, uses + 1, tokenClock)
  BY <1>1, TokensAssumption DEF Past, Entry
<1>3. Aged(entries \cup {new})
  BY <1>1, TokensAssumption DEF Past, Aged, Entry
<1>4. \A f \in entries : f.payload # new.payload /\ f.token # new.token /\ f.turn # new.turn
  <2> TAKE f \in entries
  <2>1. <<f.payload, f.token>> \in pairs
    BY DEF Agree
  <2>2. f.payload # payload
    BY <2>1
  <2> QED BY <1>1, <2>2 DEF Past, Entry
<1>5. pairs \cup {<<payload, new.token>>} = {<<f.payload, f.token>> : f \in entries \cup {new}}
  BY <1>1 DEF Agree
<1> QED BY <1>2, <1>3, <1>4, <1>5 DEF Agree

-----------------------------------------------------------------------------
LEMMA TokensStart == TokensInit => TokensIInv
BY TokensAssumption DEF TokensInit, TokensIInv, Past, Agree, Aged

LEMMA TokensStep == TokensIInv /\ [TokensNext]_tokenVars => TokensIInv'
<1> SUFFICES ASSUME TokensIInv, [TokensNext]_tokenVars
             PROVE  TokensIInv'
  OBVIOUS
<1> USE DEF TokensIInv
<1>1. ASSUME NEW payload \in Payloads, Register(payload)
      PROVE  TokensIInv'
  <2> DEFINE live  == byToken \ Evicted(byToken)
             pairs == Without(byPayload, Evicted(byToken))
             new   == [token |-> uses + 1, payload |-> payload,
                       expires |-> tokenClock + TokenTTL, turn |-> uses + 1]
             all   == live \cup {new}
  <2>1. uses' = uses + 1 /\ tokenClock' = tokenClock
    BY <1>1 DEF Register, NextUse
  <2>2. Past(live, uses, tokenClock) /\ Agree(live, pairs) /\ Aged(live)
    BY EvictedAreEntries, DroppingAgrees, FewerAreAged
  <2>3. \/ \E e \in live : /\ <<payload, e.token>> \in pairs
                           /\ byToken' = Used(live, e) /\ byPayload' = pairs
        \/ /\ \A p \in pairs : p[1] # payload
           /\ byToken' = all \ Evicted(all)
           /\ byPayload' = Without(pairs \cup {<<payload, new.token>>}, Evicted(all))
    BY <1>1 DEF Register
  <2> HIDE DEF live, pairs, new
  <2>4. CASE \E e \in live : byToken' = Used(live, e) /\ byPayload' = pairs
    BY <2>1, <2>2, <2>4, UsedAgrees
  <2>5. CASE /\ \A p \in pairs : p[1] # payload
             /\ byToken' = all \ Evicted(all)
             /\ byPayload' = Without(pairs \cup {<<payload, new.token>>}, Evicted(all))
    <3>1. /\ Past(all, uses + 1, tokenClock) /\ Aged(all)
          /\ Agree(all, pairs \cup {<<payload, new.token>>})
      BY <2>2, <2>5, NewAgrees DEF new
    <3> HIDE DEF all
    <3>2. /\ Agree(all \ Evicted(all), Without(pairs \cup {<<payload, new.token>>}, Evicted(all)))
          /\ Aged(all \ Evicted(all)) /\ Past(all \ Evicted(all), uses + 1, tokenClock)
      BY <3>1, EvictedAreEntries, DroppingAgrees, FewerAreAged
    <3> QED BY <2>1, <2>5, <3>2
  <2> QED BY <2>3, <2>4, <2>5
<1>2. ASSUME NEW e \in byToken, Resolve(e)
      PROVE  TokensIInv'
  <2>1. uses' = uses + 1 /\ tokenClock' = tokenClock
    BY <1>2 DEF Resolve, NextUse
  <2>2. CASE e.expires <= tokenClock
    <3>1. byToken' = byToken \ {e} /\ byPayload' = Without(byPayload, {e})
      BY <1>2, <2>2 DEF Resolve, Dropped
    <3>2. /\ Agree(byToken \ {e}, Without(byPayload, {e}))
          /\ Aged(byToken \ {e}) /\ Past(byToken \ {e}, uses, tokenClock)
      BY DroppingAgrees, FewerAreAged
    <3>3. Past(byToken \ {e}, uses + 1, tokenClock)
      BY <3>2 DEF Past, Entry
    <3> QED BY <2>1, <3>1, <3>2, <3>3
  <2>3. CASE ~(e.expires <= tokenClock)
    BY <1>2, <2>1, <2>3, UsedAgrees DEF Resolve
  <2> QED BY <2>2, <2>3
<1>3. CASE Clear
  BY <1>3 DEF Clear, Past, Agree, Aged
<1>4. CASE TokenTick
  BY <1>4, TokensAssumption DEF TokenTick, Past, Agree, Aged, Entry
<1>5. CASE UNCHANGED tokenVars
  BY <1>5 DEF tokenVars, Past, Agree, Aged
<1> QED BY <1>1, <1>2, <1>3, <1>4, <1>5 DEF TokensNext

(* Whatever is registered, resolved, evicted or cleared, in any order: both *)
(* maps hold the same tokens, of one payload each, in the order of expiry.  *)
THEOREM TokensInStep == TokensSpec => []InStep
<1>1. TokensIInv => InStep
  BY DEF TokensIInv, InStep, MapsAgree, OrderIsAge, Agree, Aged
<1> QED BY TokensStart, TokensStep, <1>1, PTL DEF TokensSpec

(* The eviction stops at the first entry that is alive; since the order of  *)
(* use is the order of expiry, none of those it leaves has expired.         *)
THEOREM EvictionIsComplete ==
    TokensSpec => [](\A e \in byToken \ Evicted(byToken) : e.expires > tokenClock)
<1>1. TokensIInv => \A e \in byToken \ Evicted(byToken) : e.expires > tokenClock
  <2> SUFFICES ASSUME TokensIInv, NEW e \in byToken, e \notin Evicted(byToken)
               PROVE  e.expires > tokenClock
    OBVIOUS
  <2>1. PICK f \in byToken : f.turn <= e.turn /\ ~(f.expires <= tokenClock)
    BY DEF Evicted
  <2>2. /\ e.turn \in Nat /\ f.turn \in Nat /\ e.expires \in Nat /\ f.expires \in Nat
        /\ tokenClock \in Nat
    BY DEF TokensIInv, Past, Entry
  <2>3. f = e \/ f.turn < e.turn
    BY <2>1, <2>2 DEF TokensIInv, Agree
  <2>4. e.expires >= f.expires
    BY <2>2, <2>3 DEF TokensIInv, Aged
  <2> QED BY <2>1, <2>2, <2>4
<1> QED BY TokensStart, TokensStep, <1>1, PTL DEF TokensSpec

-----------------------------------------------------------------------------
(***************************************************************************)
(* Stations. Two requests may insert or change at once; the invariant says *)
(* that each, until it writes, would have seen any station of its stream   *)
(* that was written before it looked.                                      *)
(***************************************************************************)

AnIcon    == Icons \cup {NoIcon}
Station   == [owner : Owners, at : Address, icon : AnIcon, from : Nat, to : Nat]
Creating  == [pc : {"insert"}, owner : Owners, at : Address, icon : AnIcon, from : Nat]
Editing   == [pc : {"check"}, owner : Owners, id : Nat, at : Address, icon : AnIcon]
Changing  == [pc : {"update"}, id : Nat, at : Address, icon : AnIcon, from : Nat]
StationAct == {NoAsk} \cup Creating \cup Editing \cup Changing

(* A station of u has the stream of this address, and was written before    *)
(* the look that is numbered `from`.                                        *)
Missed(m, u, at, from) ==
    stations[m].owner = u /\ stations[m].at.stream = at.stream /\ stations[m].to <= from

(* A request that is about to write missed nothing when it looked.  The row *)
(* of an edit may be gone, but nobody else gets its id.                     *)
Looked(a) ==
    /\ a.pc = "insert" => /\ a.from <= written
                          /\ \A m \in DOMAIN stations : ~Missed(m, a.owner, a.at, a.from)
    /\ a.pc = "update" => /\ a.from <= written /\ a.id <= lastStation
                          /\ a.id \in DOMAIN stations =>
                               \A m \in DOMAIN stations \ {a.id} :
                                  ~Missed(m, stations[a.id].owner, a.at, a.from)

StationsTyped ==
    /\ lastStation \in Nat /\ written \in Nat
    /\ DOMAIN stations \in SUBSET (1..lastStation)
    /\ stations \in [DOMAIN stations -> Station]

WrittenBefore == \A n \in DOMAIN stations : stations[n].from <= written /\ stations[n].to <= written

StationsIInv ==
    /\ StationsTyped /\ WrittenBefore /\ NoStationTwice
    /\ stationActs \in [RadioThreads -> StationAct]
    /\ \A t \in RadioThreads : Looked(stationActs[t])

(* http and https make one station.                                         *)
LEMMA SameIsOneStream ==
    ASSUME NEW one \in Address, NEW other \in Address
    PROVE  SameStation(one, other) <=> one.stream = other.stream
BY DEF SameStation, Address

LEMMA NoClashMissesNothing ==
    ASSUME StationsTyped, WrittenBefore, NEW u \in Owners, NEW at \in Address, NEW n, Clash(u, at, n) = {},
           NEW m \in DOMAIN stations \ {n}
    PROVE  ~Missed(m, u, at, written)
<1>1. CASE stations[m].owner = u
  <2>1. ~SameStation(stations[m].at, at) BY <1>1 DEF Clash, Mine
  <2>2. stations[m].at \in Address BY DEF StationsTyped, Station
  <2>3. QED BY <2>1, <2>2, SameIsOneStream DEF Missed
<1>2. QED BY <1>1 DEF Missed

LEMMA StationsStart == StationsInit => StationsIInv
BY DEF StationsInit, StationsIInv, StationsTyped, WrittenBefore, NoStationTwice, StationAct, NoAsk, Looked

(* What may become of the rows: some are gone, and at most one is written,  *)
(* now, which is new or keeps its owner.                                    *)
RowKept(n)  == n \in DOMAIN stations /\ stations'[n] = stations[n]
RowFresh(n) == /\ stations'[n].to = written + 1 /\ written' = written + 1
            /\ \/ n > lastStation
               \/ n \in DOMAIN stations /\ stations'[n].owner = stations[n].owner

OneWritten == /\ lastStation' >= lastStation /\ written' >= written
              /\ \A n \in DOMAIN stations' : RowKept(n) \/ RowFresh(n)

LEMMA LookedStays ==
    ASSUME StationsTyped, StationsTyped', OneWritten, NEW a \in StationAct, Looked(a)
    PROVE  Looked(a)'
<1>1. \A m \in DOMAIN stations' : \A u, at : \A from \in Nat :
        from <= written /\ Missed(m, u, at, from)' => RowKept(m) /\ Missed(m, u, at, from)
  <2>1. SUFFICES ASSUME NEW m \in DOMAIN stations', NEW u, NEW at, NEW from \in Nat,
                        from <= written, Missed(m, u, at, from)'
                 PROVE  RowKept(m) /\ Missed(m, u, at, from)
    OBVIOUS
  <2>2. ~RowFresh(m) BY <2>1 DEF RowFresh, Missed, StationsTyped
  <2>3. RowKept(m) BY <2>2 DEF OneWritten
  <2>4. QED BY <2>1, <2>3 DEF RowKept, Missed
<1>2. ASSUME a.pc = "insert" PROVE Looked(a)'
  <2>1. a \in Creating BY <1>2 DEF StationAct, NoAsk, Editing, Changing
  <2>2. a.from \in Nat /\ a.from <= written BY <1>2, <2>1 DEF Creating, Looked
  <2>3. a.from <= written' BY <2>2 DEF OneWritten, StationsTyped
  <2>4. \A m \in DOMAIN stations' : ~Missed(m, a.owner, a.at, a.from)'
    BY <1>1, <1>2, <2>2 DEF RowKept, Looked
  <2>5. QED BY <1>2, <2>3, <2>4 DEF Looked
<1>3. ASSUME a.pc = "update" PROVE Looked(a)'
  <2>1. a \in Changing BY <1>3 DEF StationAct, NoAsk, Editing, Creating
  <2>2. a.from \in Nat /\ a.id \in Nat /\ a.from <= written /\ a.id <= lastStation
    BY <1>3, <2>1 DEF Changing, Looked
  <2>3. a.from <= written' /\ a.id <= lastStation' BY <2>2 DEF OneWritten, StationsTyped
  <2>4. ASSUME a.id \in DOMAIN stations', NEW m \in DOMAIN stations' \ {a.id}
        PROVE  ~Missed(m, stations[a.id].owner, a.at, a.from)'
    <3>1. a.id \in DOMAIN stations /\ stations'[a.id].owner = stations[a.id].owner
      BY <2>2, <2>4 DEF OneWritten, RowKept, RowFresh, StationsTyped
    <3>2. PICK u : u = stations[a.id].owner OBVIOUS
    <3>3. \A k \in DOMAIN stations \ {a.id} : ~Missed(k, u, a.at, a.from)
      BY <1>3, <3>1, <3>2 DEF Looked
    <3>4. ~Missed(m, u, a.at, a.from)' BY <1>1, <2>2, <3>3 DEF RowKept
    <3>5. QED BY <3>1, <3>2, <3>4 DEF Missed
  <2>5. QED BY <1>3, <2>3, <2>4 DEF Looked, Missed
<1>4. QED BY <1>2, <1>3 DEF Looked

(* One row is written of those that are there: none is doubled.             *)
LEMMA StationsKeep ==
    ASSUME StationsIInv, NEW t \in RadioThreads, NEW a \in StationAct, StDoes(t, a), Looked(a)',
           StationsTyped', WrittenBefore', NoStationTwice', OneWritten
    PROVE  StationsIInv'
<1>1. stationActs' \in [RadioThreads -> StationAct] BY DEF StDoes, StationsIInv
<1>2. ASSUME NEW u \in RadioThreads PROVE Looked(stationActs[u])'
  <2>1. CASE u = t
    <3>1. stationActs'[u] = a BY <2>1 DEF StDoes, StationsIInv
    <3>2. QED BY <3>1 DEF Looked, Missed
  <2>2. CASE u # t
    <3>1. PICK b \in StationAct : b = stationActs[u] BY DEF StationsIInv
    <3>2. stationActs'[u] = b BY <2>2, <3>1 DEF StDoes, StationsIInv
    <3>3. Looked(b) BY <3>1 DEF StationsIInv
    <3>4. Looked(b)' BY <3>3, LookedStays DEF StationsIInv
    <3>5. QED BY <3>2, <3>4 DEF Looked, Missed
  <2>3. QED BY <2>1, <2>2
<1>3. QED BY <1>1, <1>2 DEF StationsIInv

LEMMA NothingWritten ==
    ASSUME StationsIInv, NEW t \in RadioThreads, NEW a \in StationAct, StDoes(t, a),
           UNCHANGED <<stations, lastStation, written>>, Looked(a)
    PROVE  StationsIInv'
<1>1. StationsTyped' /\ WrittenBefore' BY DEF StationsIInv, StationsTyped, WrittenBefore
<1>2. NoStationTwice' BY DEF StationsIInv, NoStationTwice, Mine
<1>3. OneWritten BY DEF OneWritten, RowKept, StationsIInv, StationsTyped
<1>4. Looked(a)' BY <1>1, <1>3, LookedStays DEF StationsIInv
<1>5. QED BY <1>1, <1>2, <1>3, <1>4, StationsKeep

LEMMA NoAskLooked == NoAsk \in StationAct /\ Looked(NoAsk) /\ Looked(NoAsk)'
BY DEF StationAct, NoAsk, Looked

(* The row n is written with `one`, for which nothing was missed.           *)
LEMMA RowWritten ==
    ASSUME StationsIInv, NEW t \in RadioThreads, StDoes(t, NoAsk), NEW n \in Nat, NEW one \in Station,
           one.to = written + 1, one.from <= written, written' = written + 1,
           lastStation' \in Nat, lastStation' >= lastStation, n \in 1..lastStation',
           \/ n > lastStation
           \/ n \in DOMAIN stations /\ stations[n].owner = one.owner,
           DOMAIN stations' = DOMAIN stations \cup {n},
           stations' = [m \in DOMAIN stations \cup {n} |-> IF m = n THEN one ELSE stations[m]],
           \A m \in DOMAIN stations \ {n} : ~Missed(m, one.owner, one.at, one.from)
    PROVE  StationsIInv'
<1>1. StationsTyped
  BY DEF StationsIInv
<1>2. \A m \in DOMAIN stations' : stations'[m] = IF m = n THEN one ELSE stations[m] OBVIOUS
<1>3. StationsTyped'
  <2>1. DOMAIN stations' \in SUBSET (1..lastStation') BY <1>1 DEF StationsTyped
  <2>2. \A m \in DOMAIN stations' : stations'[m] \in Station BY <1>1, <1>2 DEF StationsTyped
  <2>3. stations' \in [DOMAIN stations' -> Station] BY <2>2
  <2>4. QED BY <1>1, <2>1, <2>3 DEF StationsTyped
<1>4. WrittenBefore'
  BY <1>1, <1>2 DEF WrittenBefore, StationsIInv, StationsTyped, Station
<1>5. OneWritten
  <2>1. \A m \in DOMAIN stations' : RowKept(m) \/ RowFresh(m) BY <1>2 DEF RowKept, RowFresh
  <2>2. QED BY <1>1, <2>1 DEF OneWritten, StationsTyped
<1>6. ASSUME NEW u \in Owners, NEW m \in DOMAIN stations', NEW k \in DOMAIN stations',
             m # k, {m, k} \subseteq Mine(u)', stations'[m].at.stream = stations'[k].at.stream
      PROVE  stations'[m].from < stations'[k].to /\ stations'[k].from < stations'[m].to
  <2>1. stations'[m].owner = u /\ stations'[k].owner = u BY <1>6 DEF Mine
  <2>2. CASE m # n /\ k # n
    <3>1. m \in DOMAIN stations /\ k \in DOMAIN stations /\ {m, k} \subseteq Mine(u)
      BY <1>2, <2>1, <2>2 DEF Mine
    <3>2. QED BY <1>2, <1>6, <2>2, <3>1 DEF StationsIInv, NoStationTwice
  <2>3. ASSUME NEW q \in DOMAIN stations', q # n, stations'[q].owner = one.owner,
               stations'[q].at.stream = one.at.stream
        PROVE  one.from < stations'[q].to /\ stations'[q].from < one.to
    <3>1. q \in DOMAIN stations /\ stations'[q] = stations[q] BY <1>2, <2>3
    <3>2. stations[q] \in Station BY <1>1, <3>1 DEF StationsTyped
    <3>3. ~Missed(q, one.owner, one.at, one.from) BY <2>3, <3>1
    <3>4. one.from < stations[q].to BY <2>3, <3>1, <3>2, <3>3 DEF Missed, Station
    <3>5. stations[q].from <= written BY <3>1 DEF StationsIInv, WrittenBefore
    <3>6. stations[q].from < one.to BY <1>1, <3>2, <3>5 DEF Station, StationsTyped
    <3>7. QED BY <3>1, <3>4, <3>6
  <2>4. CASE m = n
    <3>1. stations'[m] = one /\ k # n BY <1>2, <1>6, <2>4
    <3>2. QED BY <1>6, <2>1, <2>3, <3>1
  <2>5. CASE k = n
    <3>1. stations'[k] = one /\ m # n BY <1>2, <1>6, <2>5
    <3>2. QED BY <1>6, <2>1, <2>3, <3>1
  <2>6. QED BY <2>2, <2>4, <2>5
<1>7. NoStationTwice' BY <1>6 DEF NoStationTwice
<1>8. QED BY <1>3, <1>4, <1>5, <1>7, NoAskLooked, StationsKeep

LEMMA StationsInduction == StationsIInv /\ [StationsNext]_stationVars => StationsIInv'
<1> SUFFICES ASSUME StationsIInv, [StationsNext]_stationVars PROVE StationsIInv' OBVIOUS
<1>1. StationsTyped /\ WrittenBefore BY DEF StationsIInv
<1>2. ASSUME NEW t \in RadioThreads, NEW u \in Owners, NEW at \in Address, NEW icon \in AnIcon,
             CreateStation(t, u, at, icon)
      PROVE  StationsIInv'
  <2>1. CASE Clash(u, at, 0) # {}
    BY <1>2, <2>1, NoAskLooked, NothingWritten DEF CreateStation, AskStation
  <2>2. CASE Clash(u, at, 0) = {}
    <3>1. PICK w \in Nat : w = written BY <1>1 DEF StationsTyped
    <3> DEFINE a == [pc |-> "insert", owner |-> u, at |-> at, icon |-> icon, from |-> w]
    <3>2. a \in StationAct BY <3>1 DEF StationAct, Creating
    <3>3. \A m \in DOMAIN stations : m # 0 BY <1>1 DEF StationsTyped
    <3>4. \A m \in DOMAIN stations : ~Missed(m, u, at, w)
      BY <1>1, <2>2, <3>1, <3>3, NoClashMissesNothing
    <3>5. Looked(a) BY <3>1, <3>4 DEF Looked
    <3>6. StDoes(t, a) /\ UNCHANGED <<stations, lastStation, written>>
      BY <1>2, <2>2, <3>1 DEF CreateStation, AskStation
    <3> HIDE DEF a
    <3>7. QED BY <3>2, <3>5, <3>6, NothingWritten
  <2>3. QED BY <2>1, <2>2
<1>3. ASSUME NEW t \in RadioThreads, InsertStation(t) PROVE StationsIInv'
  <2>1. PICK a \in Creating : a = stationActs[t]
    BY <1>3 DEF InsertStation, StAt, StationsIInv, StationAct, NoAsk, Editing, Changing
  <2>2. PICK icon \in AnIcon :
          /\ lastStation' = lastStation + 1 /\ written' = written + 1 /\ StDoes(t, NoAsk)
          /\ stations' = [n \in DOMAIN stations \cup {lastStation'} |->
                IF n = lastStation'
                THEN [owner |-> a.owner, at |-> a.at, icon |-> icon, from |-> a.from, to |-> written']
                ELSE stations[n]]
    BY <1>3, <2>1 DEF InsertStation, AnIcon, Creating
  <2>3. PICK n \in Nat \ {0} : n = lastStation + 1 BY <1>1 DEF StationsTyped
  <2>4. PICK w \in Nat : w = written BY <1>1 DEF StationsTyped
  <2> DEFINE one == [owner |-> a.owner, at |-> a.at, icon |-> icon, from |-> a.from, to |-> w + 1]
  <2>5. one \in Station /\ one.to = written + 1 BY <2>1, <2>4 DEF Creating, Station
  <2>6. Looked(a) /\ a.pc = "insert" BY <2>1 DEF StationsIInv, Creating
  <2>7. one.from <= written /\ \A m \in DOMAIN stations \ {n} : ~Missed(m, one.owner, one.at, one.from)
    BY <2>6 DEF Looked
  <2>8. stations' = [m \in DOMAIN stations \cup {n} |-> IF m = n THEN one ELSE stations[m]]
    BY <2>2, <2>3, <2>4
  <2> HIDE DEF one
  <2>9. DOMAIN stations' = DOMAIN stations \cup {n} /\ n \in 1..lastStation' /\ n > lastStation
        /\ lastStation' \in Nat /\ lastStation' >= lastStation
    BY <1>1, <2>2, <2>3, <2>8 DEF StationsTyped
  <2>10. QED BY <2>2, <2>5, <2>7, <2>8, <2>9, RowWritten
<1>4. ASSUME NEW t \in RadioThreads, NEW u \in Owners, NEW n \in DOMAIN stations, NEW at \in Address,
             NEW upload \in Icons \cup {NoIcon, "kept"}, EditStation(t, u, n, at, upload)
      PROVE  StationsIInv'
  <2>1. (IF upload = "kept" THEN stations[n].icon ELSE upload) \in AnIcon
    BY <1>1 DEF AnIcon, Station, StationsTyped
  <2>2. PICK icon \in AnIcon : icon = IF upload = "kept" THEN stations[n].icon ELSE upload
    BY <2>1
  <2>3. PICK id \in Nat : id = n BY <1>1 DEF StationsTyped
  <2> DEFINE a == [pc |-> "check", owner |-> u, id |-> id, at |-> at, icon |-> icon]
  <2>4. a \in StationAct BY DEF StationAct, Editing
  <2>5. Looked(a) BY DEF Looked
  <2>6. StDoes(t, a) /\ UNCHANGED <<stations, lastStation, written>>
    BY <1>4, <2>2, <2>3 DEF EditStation, AskStation
  <2> HIDE DEF a
  <2>7. QED BY <2>4, <2>5, <2>6, NothingWritten
<1>5. ASSUME NEW t \in RadioThreads, CheckStation(t) PROVE StationsIInv'
  <2>1. PICK a \in Editing : a = stationActs[t]
    BY <1>5 DEF CheckStation, StAt, StationsIInv, StationAct, NoAsk, Creating, Changing
  <2>2. CASE a.id \notin Mine(a.owner) \/ Clash(a.owner, a.at, a.id) # {}
    BY <1>5, <2>1, <2>2, NoAskLooked, NothingWritten DEF CheckStation
  <2>3. CASE ~(a.id \notin Mine(a.owner) \/ Clash(a.owner, a.at, a.id) # {})
    <3>1. PICK w \in Nat : w = written BY <1>1 DEF StationsTyped
    <3> DEFINE b == [pc |-> "update", id |-> a.id, at |-> a.at, icon |-> a.icon, from |-> w]
    <3>2. b \in StationAct BY <2>1, <3>1 DEF StationAct, Editing, Changing
    <3>3. a.owner \in Owners /\ a.at \in Address BY <2>1 DEF Editing
    <3>4. a.id \in DOMAIN stations /\ stations[a.id].owner = a.owner BY <2>3 DEF Mine
    <3>5. \A m \in DOMAIN stations \ {a.id} : ~Missed(m, a.owner, a.at, w)
      BY <1>1, <2>3, <3>1, <3>3, NoClashMissesNothing
    <3>6. a.id <= lastStation BY <1>1, <3>4 DEF StationsTyped
    <3>7. Looked(b) BY <3>1, <3>4, <3>5, <3>6 DEF Looked
    <3>8. StDoes(t, b) /\ UNCHANGED <<stations, lastStation, written>>
      BY <1>5, <2>1, <2>3, <3>1 DEF CheckStation
    <3> HIDE DEF b
    <3>9. QED BY <3>2, <3>7, <3>8, NothingWritten
  <2>4. QED BY <2>2, <2>3
<1>6. ASSUME NEW t \in RadioThreads, WriteStation(t) PROVE StationsIInv'
  <2>1. PICK a \in Changing : a = stationActs[t]
    BY <1>6 DEF WriteStation, StAt, StationsIInv, StationAct, NoAsk, Creating, Editing
  <2>2. StDoes(t, NoAsk) /\ lastStation' = lastStation BY <1>6 DEF WriteStation
  <2>3. CASE a.id \notin DOMAIN stations
    BY <1>6, <2>1, <2>2, <2>3, NoAskLooked, NothingWritten DEF WriteStation
  <2>4. CASE a.id \in DOMAIN stations
    <3>1. PICK w \in Nat : w = written BY <1>1 DEF StationsTyped
    <3>2. PICK u \in Owners : u = stations[a.id].owner BY <1>1, <2>4 DEF StationsTyped, Station
    <3> DEFINE one == [owner |-> u, at |-> a.at, icon |-> a.icon, from |-> a.from, to |-> w + 1]
    <3>3. one \in Station /\ one.to = written + 1 BY <2>1, <3>1 DEF Changing, Station
    <3>4. Looked(a) /\ a.pc = "update" BY <2>1 DEF StationsIInv, Changing
    <3>5. /\ one.from <= written
          /\ \A m \in DOMAIN stations \ {a.id} : ~Missed(m, one.owner, one.at, one.from)
      BY <2>4, <3>2, <3>4 DEF Looked
    <3>6. written' = written + 1 /\ stations' = [stations EXCEPT ![a.id] = one]
      BY <1>6, <2>1, <2>4, <3>1, <3>2 DEF WriteStation
    <3>7. one.owner = stations[a.id].owner BY <3>2
    <3> HIDE DEF one
    <3>8. stations' = [m \in DOMAIN stations \cup {a.id} |-> IF m = a.id THEN one ELSE stations[m]]
      BY <1>1, <2>4, <3>6 DEF StationsTyped
    <3>9. DOMAIN stations' = DOMAIN stations \cup {a.id} /\ a.id \in Nat /\ a.id \in 1..lastStation'
          /\ lastStation' \in Nat /\ lastStation' >= lastStation
      BY <1>1, <2>1, <2>2, <2>4, <3>8 DEF StationsTyped, Changing
    <3>10. PICK n \in Nat : n = a.id BY <2>1 DEF Changing
    <3>11. QED BY <2>2, <2>4, <3>3, <3>5, <3>6, <3>7, <3>8, <3>9, <3>10, RowWritten
  <2>5. QED BY <2>3, <2>4
<1>7. ASSUME NEW t \in RadioThreads, NEW u \in Owners, NEW n \in DOMAIN stations, DeleteStation(t, u, n)
      PROVE  StationsIInv'
  <2>1. stations' = [m \in DOMAIN stations \ {n} |-> stations[m]] /\ StDoes(t, NoAsk)
        /\ UNCHANGED <<lastStation, written>>
    BY <1>7 DEF DeleteStation, AskStation
  <2>2. DOMAIN stations' = DOMAIN stations \ {n}
        /\ \A m \in DOMAIN stations' : stations'[m] = stations[m]
    BY <2>1
  <2>3. StationsTyped'
    <3>1. \A m \in DOMAIN stations' : stations'[m] \in Station BY <1>1, <2>2 DEF StationsTyped
    <3>2. stations' \in [DOMAIN stations' -> Station] BY <2>1, <3>1
    <3>3. QED BY <1>1, <2>1, <2>2, <3>2 DEF StationsTyped
  <2>4. WrittenBefore' BY <1>1, <2>1, <2>2 DEF WrittenBefore
  <2>5. NoStationTwice'
    <3>1. \A u2 \in Owners : Mine(u2)' \subseteq Mine(u2) BY <2>2 DEF Mine
    <3>2. QED BY <2>2, <3>1 DEF NoStationTwice, StationsIInv
  <2>6. OneWritten BY <1>1, <2>1, <2>2 DEF OneWritten, RowKept, StationsTyped
  <2>7. QED BY <2>1, <2>3, <2>4, <2>5, <2>6, NoAskLooked, StationsKeep
<1>8. CASE UNCHANGED stationVars
  BY <1>8 DEF stationVars, StationsIInv, StationsTyped, WrittenBefore, NoStationTwice, Mine, Looked, Missed
<1>9. QED BY <1>2, <1>3, <1>4, <1>5, <1>6, <1>7, <1>8 DEF StationsNext, AnIcon

(* However many requests there are, and whatever is edited and deleted      *)
(* while they fetch an icon or probe an address: a stream is twice among a  *)
(* user's stations only when two of them were under way at once.            *)
THEOREM StationsStayApart == StationsSpec => []NoStationTwice
<1>1. StationsIInv => NoStationTwice BY DEF StationsIInv
<1>2. QED BY <1>1, StationsStart, StationsInduction, PTL DEF StationsSpec

-----------------------------------------------------------------------------
(***************************************************************************)
(* Whatever number of requests, users and slots: the slots in use are those *)
(* of the transcodes under way, and a response that came to its end sent    *)
(* everything.  The invariant adds to TranscodesHold what a single request  *)
(* may look like (OneSound): the reader marks the end only when nothing is  *)
(* left to read and nothing is in its hand.                                 *)
(***************************************************************************)

Slotted == Working \cup {"global"}

Transcode ==
    [pc : Slotted \cup {"new", "sent", "over"}, user : Listeners \cup {"none"},
     ffmpeg : {"none", "runs", "ended"}, left : Nat, reader : {"none", "reads", "ended"},
     inHand : BOOLEAN, queued : Nat, mark : {"no", "queued", "dropped"}]

(* One request by itself.                                                   *)
OneSound(t) ==
    /\ t.pc \in Slotted => t.user \in Listeners
    /\ t.pc \in {"new", "global", "start", "file", "open"} => t.reader = "none"
    /\ t.reader # "ended" => t.mark = "no"
    /\ t.mark # "no" => t.left = 0 /\ ~t.inHand
    /\ t.pc = "sent" => t.mark # "no" /\ t.queued = 0

HeldBy(u) == {r \in Holding(Slotted) : User(r) = u}

TransIInv ==
    /\ slots \in Nat /\ held \in [Listeners -> Int]
    /\ transcodes \in [StreamRequests -> Transcode]
    /\ \A r \in StreamRequests : OneSound(transcodes[r])
    /\ slots = TranscodesMax - Cardinality(Holding(Working))
    /\ \A u \in Listeners : held[u] = Cardinality(HeldBy(u))

-----------------------------------------------------------------------------
LEMMA HoldingIsFinite ==
    /\ \A pcs : IsFiniteSet(Holding(pcs)) /\ Cardinality(Holding(pcs)) \in Nat
    /\ \A u : IsFiniteSet(HeldBy(u)) /\ Cardinality(HeldBy(u)) \in Nat
<1>1. ASSUME NEW S \in SUBSET StreamRequests
      PROVE  IsFiniteSet(S) /\ Cardinality(S) \in Nat
  BY FS_Subset, FS_CardinalityType, TranscodesAssumption
<1> QED BY <1>1 DEF Holding, HeldBy

(* A step replaces the record of one request, by one that is sound.         *)
LEMMA OneChanges ==
    ASSUME TransIInv, NEW r \in StreamRequests, NEW x \in Transcode, OneSound(x),
           transcodes' = [transcodes EXCEPT ![r] = x]
    PROVE  /\ transcodes' \in [StreamRequests -> Transcode]
           /\ \A q \in StreamRequests : OneSound(transcodes'[q])
           /\ transcodes'[r] = x
           /\ \A q \in StreamRequests \ {r} : transcodes'[q] = transcodes[q]
BY DEF TransIInv

(* The count of one user follows the requests that hold its slots.          *)
LEMMA HeldFollows ==
    ASSUME TransIInv, NEW u \in Listeners, NEW n \in Int,
           held' = [held EXCEPT ![u] = n], n = Cardinality(HeldBy(u)'),
           \A v \in Listeners \ {u} : HeldBy(v)' = HeldBy(v)
    PROVE  held' \in [Listeners -> Int] /\ \A v \in Listeners : held'[v] = Cardinality(HeldBy(v)')
<1>1. held' \in [Listeners -> Int] /\ held'[u] = n /\ \A v \in Listeners \ {u} : held'[v] = held[v]
  BY DEF TransIInv
<1>2. ASSUME NEW v \in Listeners \ {u}
      PROVE  held'[v] = Cardinality(HeldBy(v)')
  <2>1. held'[v] = Cardinality(HeldBy(v))
    BY <1>1 DEF TransIInv
  <2>2. HeldBy(v)' = HeldBy(v)
    OBVIOUS
  <2> QED BY <2>1, <2>2
<1> QED BY <1>1, <1>2

(* A step that neither takes nor gives back a slot.                         *)
LEMMA SlotsStay ==
    ASSUME TransIInv, NEW r \in StreamRequests, NEW x \in Transcode, OneSound(x),
           transcodes' = [transcodes EXCEPT ![r] = x],
           x.user = User(r), x.pc \in Working <=> Pc(r) \in Working,
           x.pc \in Slotted <=> Pc(r) \in Slotted,
           UNCHANGED <<slots, held>>
    PROVE  TransIInv'
<1>1. /\ transcodes' \in [StreamRequests -> Transcode]
      /\ \A q \in StreamRequests : OneSound(transcodes'[q])
      /\ transcodes'[r] = x
      /\ \A q \in StreamRequests \ {r} : transcodes'[q] = transcodes[q]
  BY OneChanges
<1>2. Holding(Working)' = Holding(Working)
  BY <1>1 DEF Holding, Pc
<1>3. \A u \in Listeners : HeldBy(u)' = HeldBy(u)
  BY <1>1 DEF HeldBy, Holding, Pc, User
<1> QED BY <1>1, <1>2, <1>3 DEF TransIInv

(* A step that gives back both slots of a transcode.                        *)
LEMMA SlotsReturn ==
    ASSUME TransIInv, NEW r \in StreamRequests, NEW x \in Transcode, OneSound(x),
           transcodes' = [transcodes EXCEPT ![r] = x],
           Pc(r) \in Working, x.pc \notin Slotted, ReleaseSlots(r)
    PROVE  TransIInv'
<1>1. /\ transcodes' \in [StreamRequests -> Transcode]
      /\ \A q \in StreamRequests : OneSound(transcodes'[q])
      /\ transcodes'[r] = x
      /\ \A q \in StreamRequests \ {r} : transcodes'[q] = transcodes[q]
  BY OneChanges
<1>2. PICK u \in Listeners : u = User(r)
  BY DEF TransIInv, OneSound, Pc, User, Slotted
<1>3. /\ Holding(Working)' = Holding(Working) \ {r} /\ r \in Holding(Working)
      /\ HeldBy(u)' = HeldBy(u) \ {r} /\ r \in HeldBy(u)
      /\ \A v \in Listeners \ {u} : HeldBy(v)' = HeldBy(v)
  <2>1. Holding(Working)' = Holding(Working) \ {r} /\ r \in Holding(Working)
    BY <1>1 DEF Holding, Pc, Slotted
  <2>2. Holding(Slotted)' = Holding(Slotted) \ {r} /\ r \in Holding(Slotted)
    BY <1>1 DEF Holding, Pc, Slotted
  <2>3. \A q \in Holding(Slotted) \ {r} : User(q)' = User(q)
    BY <1>1 DEF Holding, User
  <2>4. User(r) = u
    BY <1>2
  <2> QED BY <2>1, <2>2, <2>3, <2>4 DEF HeldBy
<1>4. /\ Cardinality(Holding(Working)') = Cardinality(Holding(Working)) - 1
      /\ Cardinality(HeldBy(u)') = Cardinality(HeldBy(u)) - 1
  BY <1>3, HoldingIsFinite, FS_RemoveElement, ZenonT(40)
<1>5. slots' \in Nat /\ slots' = TranscodesMax - Cardinality(Holding(Working)')
  BY <1>4, HoldingIsFinite, TranscodesAssumption DEF ReleaseSlots, TransIInv
<1>6. held' \in [Listeners -> Int] /\ \A v \in Listeners : held'[v] = Cardinality(HeldBy(v)')
  <2> DEFINE n == held[u] - 1
  <2>1. n \in Int /\ held' = [held EXCEPT ![u] = n]
    BY <1>2 DEF ReleaseSlots, TransIInv
  <2>2. n = Cardinality(HeldBy(u)')
    BY <1>2, <1>4 DEF TransIInv
  <2> HIDE DEF n
  <2> QED BY <1>2, <1>3, <2>1, <2>2, HeldFollows
<1> QED BY <1>1, <1>5, <1>6 DEF TransIInv

-----------------------------------------------------------------------------
LEMMA TransStart == TransInit => TransIInv
<1> SUFFICES ASSUME TransInit PROVE TransIInv
  OBVIOUS
<1>1. /\ NewTranscode \in Transcode /\ OneSound(NewTranscode)
      /\ NewTranscode.pc \notin Slotted /\ Working \subseteq Slotted
  BY DEF NewTranscode, Transcode, OneSound, Slotted, Working
<1>2. Holding(Working) = {} /\ \A u \in Listeners : HeldBy(u) = {}
  BY <1>1 DEF TransInit, Holding, HeldBy, Pc
<1> QED BY <1>1, <1>2, FS_EmptySet, TranscodesAssumption DEF TransInit, TransIInv

(* A user's slot is taken.                                                  *)
LEMMA UserSlotTaken ==
    ASSUME TransIInv, NEW r \in StreamRequests, NEW u \in Listeners, TakeUserSlot(r, u)
    PROVE  TransIInv'
<1> DEFINE x == [transcodes[r] EXCEPT !.pc = "global", !.user = u]
<1>1. /\ x \in Transcode /\ OneSound(x) /\ x.pc = "global" /\ x.user = u
      /\ transcodes' = [transcodes EXCEPT ![r] = x] /\ Pc(r) = "new"
  BY DEF TakeUserSlot, TransIInv, Transcode, OneSound, Pc, Slotted, Working
<1> HIDE DEF x
<1>2. /\ transcodes' \in [StreamRequests -> Transcode]
      /\ \A q \in StreamRequests : OneSound(transcodes'[q])
      /\ transcodes'[r] = x
      /\ \A q \in StreamRequests \ {r} : transcodes'[q] = transcodes[q]
  BY <1>1, OneChanges
<1>3. Holding(Working)' = Holding(Working)
  BY <1>1, <1>2 DEF Holding, Pc, Working
<1>4. Holding(Slotted)' = Holding(Slotted) \cup {r} /\ r \notin Holding(Slotted)
  BY <1>1, <1>2 DEF Holding, Pc, Slotted, Working
<1>5. User(r)' = u /\ \A q \in Holding(Slotted) : User(q)' = User(q)
  BY <1>1, <1>2, <1>4 DEF Holding, User
<1>6. /\ HeldBy(u)' = HeldBy(u) \cup {r} /\ r \notin HeldBy(u)
      /\ \A v \in Listeners \ {u} : HeldBy(v)' = HeldBy(v)
  BY <1>4, <1>5 DEF HeldBy
<1>7. Cardinality(HeldBy(u)') = Cardinality(HeldBy(u)) + 1
  BY <1>6, HoldingIsFinite, FS_AddElement
<1>8. held' = [held EXCEPT ![u] = @ + 1] /\ slots' = slots
  BY DEF TakeUserSlot
<1>9. held' \in [Listeners -> Int] /\ \A v \in Listeners : held'[v] = Cardinality(HeldBy(v)')
  <2> DEFINE n == held[u] + 1
  <2>1. n \in Int /\ held' = [held EXCEPT ![u] = n]
    BY <1>8 DEF TransIInv
  <2>2. n = Cardinality(HeldBy(u)')
    BY <1>7 DEF TransIInv
  <2> HIDE DEF n
  <2> QED BY <1>6, <2>1, <2>2, HeldFollows
<1> QED BY <1>2, <1>3, <1>8, <1>9 DEF TransIInv

(* A slot of the server is taken, or there is none and the user's goes back.*)
LEMMA SlotTakenOrRefused ==
    ASSUME TransIInv, NEW r \in StreamRequests, TakeSlot(r)
    PROVE  TransIInv'
<1>0. Pc(r) = "global" /\ r \in Holding(Slotted) /\ r \notin Holding(Working)
  BY DEF TakeSlot, Holding, Slotted, Working
<1>1. CASE slots > 0
  <2> DEFINE x == [transcodes[r] EXCEPT !.pc = "start"]
  <2>1. /\ x \in Transcode /\ OneSound(x) /\ x.pc = "start" /\ x.user = User(r)
        /\ transcodes' = [transcodes EXCEPT ![r] = x] /\ slots' = slots - 1 /\ held' = held
    BY <1>0, <1>1 DEF TakeSlot, ToPc, TransIInv, Transcode, OneSound, Pc, User, Slotted, Working
  <2> HIDE DEF x
  <2>2. /\ transcodes' \in [StreamRequests -> Transcode]
        /\ \A q \in StreamRequests : OneSound(transcodes'[q])
        /\ transcodes'[r] = x
        /\ \A q \in StreamRequests \ {r} : transcodes'[q] = transcodes[q]
    BY <2>1, OneChanges
  <2>3. Holding(Working)' = Holding(Working) \cup {r}
    BY <2>1, <2>2 DEF Holding, Pc, Working
  <2>4. \A u \in Listeners : HeldBy(u)' = HeldBy(u)
    BY <1>0, <2>1, <2>2 DEF HeldBy, Holding, Pc, User, Slotted, Working
  <2>5. Cardinality(Holding(Working)') = Cardinality(Holding(Working)) + 1
    BY <1>0, <2>3, HoldingIsFinite, FS_AddElement
  <2>6. slots' \in Nat /\ slots' = TranscodesMax - Cardinality(Holding(Working)')
    BY <1>1, <2>1, <2>5, HoldingIsFinite, TranscodesAssumption DEF TransIInv
  <2> QED BY <2>1, <2>2, <2>4, <2>6 DEF TransIInv
<1>2. CASE ~(slots > 0)
  <2> DEFINE x == [transcodes[r] EXCEPT !.pc = "over"]
  <2>1. /\ x \in Transcode /\ OneSound(x) /\ x.pc = "over" /\ x.user = User(r)
        /\ transcodes' = [transcodes EXCEPT ![r] = x] /\ slots' = slots
        /\ held' = [held EXCEPT ![User(r)] = @ - 1] /\ User(r) \in Listeners
    BY <1>0, <1>2 DEF TakeSlot, ToPc, TransIInv, Transcode, OneSound, Pc, User, Slotted, Working
  <2> HIDE DEF x
  <2>0. PICK u \in Listeners : u = User(r)
    BY <2>1
  <2>2. /\ transcodes' \in [StreamRequests -> Transcode]
        /\ \A q \in StreamRequests : OneSound(transcodes'[q])
        /\ transcodes'[r] = x
        /\ \A q \in StreamRequests \ {r} : transcodes'[q] = transcodes[q]
    BY <2>1, OneChanges
  <2>3. Holding(Working)' = Holding(Working)
    BY <1>0, <2>1, <2>2 DEF Holding, Pc, Working
  <2>4. Holding(Slotted)' = Holding(Slotted) \ {r}
    BY <2>1, <2>2 DEF Holding, Pc, Slotted, Working
  <2>5. \A q \in StreamRequests : User(q)' = User(q)
    BY <2>1, <2>2 DEF User
  <2>6. /\ HeldBy(u)' = HeldBy(u) \ {r} /\ r \in HeldBy(u)
        /\ \A v \in Listeners \ {u} : HeldBy(v)' = HeldBy(v)
    BY <1>0, <2>0, <2>4, <2>5 DEF HeldBy, Holding
  <2>7. Cardinality(HeldBy(u)') = Cardinality(HeldBy(u)) - 1
    BY <2>6, HoldingIsFinite, FS_RemoveElement
  <2>8. held' \in [Listeners -> Int] /\ \A v \in Listeners : held'[v] = Cardinality(HeldBy(v)')
    <3> DEFINE n == held[u] - 1
    <3>1. n \in Int /\ held' = [held EXCEPT ![u] = n]
      BY <2>0, <2>1 DEF TransIInv
    <3>2. n = Cardinality(HeldBy(u)')
      BY <2>1, <2>7 DEF TransIInv
    <3> HIDE DEF n
    <3> QED BY <2>1, <2>6, <3>1, <3>2, HeldFollows
  <2> QED BY <2>1, <2>2, <2>3, <2>8 DEF TransIInv
<1> QED BY <1>1, <1>2

-----------------------------------------------------------------------------
(* The step makes x of request r, which neither takes nor returns a slot.   *)
Becomes(r, x) ==
    /\ x \in Transcode /\ OneSound(x) /\ transcodes' = [transcodes EXCEPT ![r] = x]
    /\ x.user = User(r) /\ (x.pc \in Working <=> Pc(r) \in Working)
    /\ (x.pc \in Slotted <=> Pc(r) \in Slotted)

(* The steps of a transcode that keep its slots.                            *)
LEMMA RunningKeeps ==
    ASSUME TransIInv, NEW r \in StreamRequests,
           \/ StartFile(r) \/ \E n \in 1..ChunksMax : StartStream(r, n)
           \/ Generate(r) \/ FfmpegEnds(r) \/ FfmpegBreaks(r)
           \/ ReadChunk(r) \/ PutChunk(r) \/ ReaderEnds(r)
           \/ GetChunk(r) \/ Collected(r)
    PROVE  TransIInv'
<1> DEFINE t == transcodes[r]
<1>1. t \in Transcode /\ OneSound(t)
  BY DEF TransIInv
<1>2. \E x : Becomes(r, x)
  <2> USE <1>1 DEF Pc, User, Transcode, OneSound, Slotted, Working, Becomes
  <2>1. CASE StartFile(r)
    <3>5. Becomes(r, [t EXCEPT !.pc = "file"])
      BY <2>1 DEF StartFile, ToPc
    <3> QED BY <3>5
  <2>2. ASSUME NEW n \in 1..ChunksMax, StartStream(r, n)
        PROVE  \E x : Becomes(r, x)
    <3> DEFINE x == [t EXCEPT !.pc = "open", !.ffmpeg = "runs", !.left = n]
    <3>1. n \in Nat /\ Pc(r) = "start" /\ t.mark = "no"
      BY <2>2, TranscodesAssumption DEF StartStream
    <3>2. x \in Transcode /\ OneSound(x) /\ x.pc = "open" /\ x.user = t.user
      BY <3>1
    <3>3. transcodes' = [transcodes EXCEPT ![r] = x]
      BY <2>2 DEF StartStream
    <3>5. Becomes(r, x)
      BY <3>1, <3>2, <3>3
    <3> QED BY <3>5
  <2>3. CASE Generate(r)
    <3>5. Becomes(r, [t EXCEPT !.pc = "stream", !.reader = "reads"])
      BY <2>3 DEF Generate
    <3> QED BY <3>5
  <2>4. CASE FfmpegEnds(r) \/ Collected(r)
    <3>5. Becomes(r, [t EXCEPT !.ffmpeg = "ended"])
      BY <2>4 DEF FfmpegEnds, Collected
    <3> QED BY <3>5
  <2>5. CASE FfmpegBreaks(r)
    <3>5. Becomes(r, [t EXCEPT !.ffmpeg = "ended", !.left = 0])
      BY <2>5, ZenonT(40) DEF FfmpegBreaks
    <3> QED BY <3>5
  <2>6. CASE ReadChunk(r)
    <3>1. t.left - 1 \in Nat
      BY <2>6 DEF ReadChunk
    <3>5. Becomes(r, [t EXCEPT !.left = t.left - 1, !.inHand = TRUE])
      BY <2>6, <3>1 DEF ReadChunk
    <3> QED BY <3>5
  <2>7. CASE PutChunk(r)
    <3>1. t.queued + 1 \in Nat /\ t.mark = "no"
      BY <2>7 DEF PutChunk
    <3> DEFINE x == [t EXCEPT !.inHand = FALSE, !.queued = t.queued + 1]
    <3>2. x \in Transcode /\ OneSound(x) /\ x.pc = t.pc /\ x.user = t.user
      BY <2>7, <3>1 DEF PutChunk
    <3>3. transcodes' = [transcodes EXCEPT ![r] = x]
      BY <2>7 DEF PutChunk
    <3>5. Becomes(r, x)
      BY <3>2, <3>3
    <3> QED BY <3>5
  <2>8. CASE ReaderEnds(r)
    <3>5. Becomes(r, [t EXCEPT !.reader = "ended",
                          !.mark = IF t.queued < ChunkQueueSize THEN "queued" ELSE "dropped"])
      BY <2>8 DEF ReaderEnds
    <3> QED BY <3>5, ZenonT(40)
  <2>9. CASE GetChunk(r)
    <3>1. t.queued - 1 \in Nat
      BY <2>9 DEF GetChunk
    <3>5. Becomes(r, [t EXCEPT !.queued = t.queued - 1])
      BY <2>9, <3>1 DEF GetChunk
    <3> QED BY <3>5
  <2> QED BY <2>1, <2>2, <2>3, <2>4, <2>5, <2>6, <2>7, <2>8, <2>9
<1>3. UNCHANGED <<slots, held>>
  BY DEF StartFile, StartStream, Generate, FfmpegEnds, FfmpegBreaks, ReadChunk, PutChunk,
         ReaderEnds, GetChunk, Collected
<1> QED BY <1>2, <1>3, SlotsStay DEF Becomes

(* The ways a transcode ends, each of which gives back both slots.          *)
LEMMA EndingReturns ==
    ASSUME TransIInv, NEW r \in StreamRequests,
           StartFails(r) \/ EndStream(r) \/ ClientGone(r)
    PROVE  TransIInv'
<1> DEFINE t == transcodes[r]
<1>1. t \in Transcode /\ OneSound(t)
  BY DEF TransIInv
<1>2. /\ Pc(r) \in Working /\ ReleaseSlots(r)
      /\ \E x \in Transcode : /\ OneSound(x) /\ x.pc \notin Slotted
                               /\ transcodes' = [transcodes EXCEPT ![r] = x]
  <2> USE <1>1 DEF Pc, User, Transcode, OneSound, Slotted, Working
  <2>1. CASE StartFails(r)
    <3>1. [t EXCEPT !.pc = "over"] \in Transcode /\ OneSound([t EXCEPT !.pc = "over"])
      BY <2>1 DEF StartFails
    <3> QED BY <2>1, <3>1 DEF StartFails, ToPc
  <2>2. CASE EndStream(r)
    <3> DEFINE x == [t EXCEPT !.pc = "sent", !.user = User(r), !.ffmpeg = "ended"]
    <3>1. x \in Transcode /\ OneSound(x) /\ x.pc = "sent"
      BY <2>2 DEF EndStream, AtEnd
    <3>2. transcodes' = [transcodes EXCEPT ![r] = x]
      BY <2>2 DEF EndStream, Close
    <3> HIDE DEF x
    <3> QED BY <2>2, <3>1, <3>2 DEF EndStream, Close
  <2>3. CASE ClientGone(r)
    <3> DEFINE x == [NewTranscode EXCEPT !.pc = "over", !.user = User(r),
                                         !.ffmpeg = IF Pc(r) = "stream" THEN "ended" ELSE t.ffmpeg]
    <3>1. x \in Transcode /\ OneSound(x) /\ x.pc = "over"
      BY <2>3 DEF ClientGone, NewTranscode
    <3>2. transcodes' = [transcodes EXCEPT ![r] = x]
      BY <2>3 DEF ClientGone, Close, NewTranscode
    <3> HIDE DEF x
    <3> QED BY <2>3, <3>1, <3>2 DEF ClientGone, Close
  <2> QED BY <2>1, <2>2, <2>3
<1> QED BY <1>2, SlotsReturn

LEMMA TransStep == TransIInv /\ [TransNext]_transVars => TransIInv'
<1> SUFFICES ASSUME TransIInv, [TransNext]_transVars PROVE TransIInv'
  OBVIOUS
<1>1. CASE TransNext
  BY <1>1, UserSlotTaken, SlotTakenOrRefused, RunningKeeps, EndingReturns DEF TransNext
<1>2. CASE UNCHANGED transVars
  BY <1>2 DEF transVars, TransIInv, Holding, HeldBy, Pc, User
<1> QED BY <1>1, <1>2

(* Whichever way a transcode ends or is refused it gives back both slots,   *)
(* once, and a response that came to its end sent all that ffmpeg wrote.    *)
THEOREM TranscodesSound == TransSpec => []TranscodesHold
<1>1. TransIInv => TranscodesHold
  BY DEF TransIInv, TranscodesHold, SlotsExact, AllSent, HeldBy, Slotted, OneSound, Pc
<1> QED BY TransStart, TransStep, <1>1, PTL DEF TransSpec

(* The server never runs more transcodes than it has slots for.             *)
THEOREM TranscodesBounded == TransSpec => [](Cardinality(Holding(Working)) <= TranscodesMax)
<1>1. TransIInv => Cardinality(Holding(Working)) <= TranscodesMax
  BY HoldingIsFinite, TranscodesAssumption DEF TransIInv
<1> QED BY TransStart, TransStep, <1>1, PTL DEF TransSpec

-----------------------------------------------------------------------------
(***************************************************************************)
(* The watcher forgets no change, for any folders, any number of changes   *)
(* and of imports asked for by others.  Remembered speaks of the folders   *)
(* that are watched now; a folder may be switched off and on again between  *)
(* two ticks, so what is inductive is the same of every pinned folder.      *)
(***************************************************************************)

WatchTypes ==
    /\ waiting \in Seq(Paths)
    /\ changes \in Nat
    /\ files \in [PinnedPaths -> Nat] /\ snapshot \in [PinnedPaths -> Int]
    /\ dirty \in [PinnedPaths -> BOOLEAN] /\ tried \in [PinnedPaths -> Nat]
    /\ asking \in PinnedPaths \cup {NoPath}
    /\ watched \subseteq PinnedPaths /\ todo \subseteq PinnedPaths

(* No folder has, or was seen with, contents that are still to come.        *)
SeenBefore == \A p \in PinnedPaths : files[p] <= changes /\ snapshot[p] <= changes

FollowedUp(p) ==
    New(p) => \/ snapshot[p] # files[p]
              \/ dirty[p]
              \/ p \in WaitingPaths \cup dropped

AllKept == \A p \in PinnedPaths : FollowedUp(p)

WatchIInv == WatchTypes /\ SeenBefore /\ AllKept

-----------------------------------------------------------------------------
LEMMA PinnedArePaths == PinnedPaths \subseteq Paths
BY PinnedFolders DEF PinnedPaths

(* Whatever a step does to the queue, a folder that waited or was dropped   *)
(* still waits, counts as dropped, or has its import.                       *)
LEMMA FollowKeeps ==
    ASSUME tried \in [PinnedPaths -> Nat], files \in [PinnedPaths -> Nat], Follow, UNCHANGED files
    PROVE  /\ tried' \in [PinnedPaths -> Nat]
           /\ \A p \in PinnedPaths :
                /\ New(p)' => New(p)
                /\ New(p)' /\ p \in WaitingPaths \cup dropped => p \in WaitingPaths' \cup dropped'
<1> DEFINE begun == IF active = NoPath /\ active' # NoPath THEN {active'} ELSE {}
<1>1. /\ tried' = [p \in PinnedPaths |-> IF p \in begun THEN files[p] ELSE tried[p]]
      /\ dropped' = (dropped \cup ((WaitingPaths \ WaitingPaths') \cap PinnedPaths)) \ begun
  BY DEF Follow
<1> HIDE DEF begun
<1>2. tried' \in [PinnedPaths -> Nat]
  BY <1>1
<1>3. ASSUME NEW p \in PinnedPaths, New(p)'
      PROVE  p \notin begun /\ New(p)
  BY <1>1, <1>3 DEF New
<1> QED BY <1>1, <1>2, <1>3

(* A folder whose import starts has nothing new.                            *)
LEMMA BegunIsOld ==
    ASSUME NEW p \in PinnedPaths, Follow, UNCHANGED files, active = NoPath, active' = p, p # NoPath
    PROVE  ~New(p)'
BY DEF Follow, New

(* What the queue's operations leave waiting are folders.                   *)
LEMMA WaitingStays ==
    ASSUME waiting \in Seq(Paths),
           \/ \E p \in Paths : Direct(p) \/ Wait(p)
           \/ Scan \/ End \/ NoneWaits \/ StartNext \/ DropAll
    PROVE  waiting' \in Seq(Paths)
<1>1. ASSUME NEW p \in Paths, Direct(p) \/ Wait(p)
      PROVE  waiting' \in Seq(Paths)
  BY <1>1 DEF Direct, Wait
<1>2. CASE Scan
  BY <1>2, PinnedFolders DEF Scan
<1>3. CASE End \/ NoneWaits \/ StartNext \/ DropAll
  <2>1. waiting # << >> => Tail(waiting) \in Seq(Paths)
    OBVIOUS
  <2>2. << >> \in Seq(Paths)
    OBVIOUS
  <2> QED BY <1>3, <2>1, <2>2 DEF End, NoneWaits, StartNext, DropAll
<1> QED BY <1>1, <1>2, <1>3

(* A step in which the watcher looks at nothing.                            *)
LEMMA QueueStepKeeps ==
    ASSUME WatchIInv, Follow, waiting' \in Seq(Paths), UNCHANGED <<watchVars, outside>>
    PROVE  WatchIInv'
<1> USE DEF WatchIInv
<1>1. UNCHANGED <<snapshot, dirty, todo, asking, files, changes, watched>>
  BY DEF watchVars, outside
<1>2. WatchTypes'
  BY <1>1, FollowKeeps DEF WatchTypes
<1>3. SeenBefore'
  BY <1>1 DEF SeenBefore
<1>4. AllKept'
  BY <1>1, FollowKeeps DEF WatchTypes, AllKept, FollowedUp
<1> QED BY <1>2, <1>3, <1>4

LEMMA ChangeKeeps ==
    ASSUME WatchIInv, NEW p \in PinnedPaths, Change(p)
    PROVE  WatchIInv'
<1> USE DEF WatchIInv
<1>1. PICK contents \in {0, changes + 1} : files' = [files EXCEPT ![p] = contents]
  BY DEF Change
<1>2. /\ changes' = changes + 1 /\ dropped' = dropped \ {p}
      /\ UNCHANGED <<waiting, snapshot, dirty, todo, asking, watched, tried>>
  BY DEF Change, queueVars, watchVars
<1>3. WatchTypes'
  BY <1>1, <1>2 DEF WatchTypes
<1>4. SeenBefore'
  BY <1>1, <1>2 DEF SeenBefore, WatchTypes
<1>5. FollowedUp(p)'
  <2>1. files'[p] = contents
    BY <1>1 DEF WatchTypes
  <2>2. contents # 0 => snapshot'[p] # files'[p]
    BY <2>1, <1>2 DEF WatchTypes, SeenBefore
  <2> QED BY <2>1, <2>2 DEF FollowedUp, New
<1>6. ASSUME NEW q \in PinnedPaths \ {p}
      PROVE  FollowedUp(q)'
  <2>1. files'[q] = files[q]
    BY <1>1 DEF WatchTypes
  <2> QED BY <2>1, <1>2 DEF AllKept, FollowedUp, New, WaitingPaths
<1> QED BY <1>3, <1>4, <1>5, <1>6 DEF AllKept

LEMMA TickStartsKeeps ==
    ASSUME WatchIInv, TickStarts
    PROVE  WatchIInv'
<1> USE DEF WatchIInv
<1>1. /\ todo' = watched
      /\ snapshot' = [p \in PinnedPaths |-> IF p \in watched THEN snapshot[p] ELSE -1]
      /\ dirty' = [p \in PinnedPaths |-> p \in watched /\ dirty[p]]
      /\ UNCHANGED <<waiting, asking, files, changes, watched, tried, dropped>>
  BY DEF TickStarts, queueVars, outside, ghosts
<1>2. WatchTypes'
  BY <1>1 DEF WatchTypes
<1>3. SeenBefore'
  BY <1>1 DEF SeenBefore, WatchTypes
<1>4. ASSUME NEW p \in PinnedPaths
      PROVE  FollowedUp(p)'
  <2>1. CASE p \in watched
    BY <2>1, <1>1 DEF AllKept, FollowedUp, New, WaitingPaths
  <2>2. CASE p \notin watched
    BY <2>2, <1>1 DEF WatchTypes, FollowedUp
  <2> QED BY <2>1, <2>2
<1> QED BY <1>2, <1>3, <1>4 DEF AllKept

LEMMA TickLooksKeeps ==
    ASSUME WatchIInv, NEW p \in PinnedPaths, TickLooks(p)
    PROVE  WatchIInv'
<1> USE DEF WatchIInv
<1>1. /\ todo' = todo \ {p}
      /\ UNCHANGED <<waiting, files, changes, watched, tried, dropped>>
  BY DEF TickLooks, queueVars, outside, ghosts
<1>2. CASE /\ snapshot' = [snapshot EXCEPT ![p] = files[p]]
           /\ dirty' = [dirty EXCEPT ![p] = files[p] # 0]
           /\ UNCHANGED asking
  <2>1. WatchTypes'
    BY <1>1, <1>2 DEF WatchTypes
  <2>2. ASSUME NEW q \in PinnedPaths \ {p}
        PROVE  snapshot'[q] = snapshot[q] /\ dirty'[q] = dirty[q]
    BY <1>2 DEF WatchTypes
  <2>3. snapshot'[p] = files[p] /\ dirty'[p] = (files[p] # 0)
    BY <1>2 DEF WatchTypes
  <2>4. SeenBefore'
    BY <2>2, <2>3, <1>1 DEF SeenBefore
  <2>5. FollowedUp(p)'
    BY <2>3, <1>1 DEF FollowedUp, New
  <2>6. ASSUME NEW q \in PinnedPaths \ {p}
        PROVE  FollowedUp(q)'
    BY <2>2, <1>1 DEF AllKept, FollowedUp, New, WaitingPaths
  <2> QED BY <2>1, <2>4, <2>5, <2>6 DEF AllKept
<1>3. CASE asking' \in {p, NoPath} /\ UNCHANGED <<snapshot, dirty>>
  BY <1>1, <1>3 DEF WatchTypes, SeenBefore, AllKept, FollowedUp, New, WaitingPaths
<1> QED BY <1>2, <1>3 DEF TickLooks

(* enqueue_pinned() said yes: the folder is imported now, or waits.         *)
LEMMA TickAsksKeeps ==
    ASSUME WatchIInv, TickAsks
    PROVE  WatchIInv'
<1> USE DEF WatchIInv
<1>1. asking \in PinnedPaths /\ asking \in Paths /\ asking # NoPath
  BY PinnedArePaths DEF TickAsks, WatchTypes
<1>2. /\ dirty' = [q \in PinnedPaths |-> IF q = asking THEN FALSE ELSE dirty[q]]
      /\ asking' = NoPath /\ Follow
      /\ UNCHANGED <<snapshot, todo, files, changes, watched>>
  BY DEF TickAsks, Answered, outside, WatchTypes
<1>3. waiting' \in Seq(Paths)
  <2>1. CASE Direct(asking) \/ Wait(asking)
    BY <2>1, <1>1, WaitingStays DEF WatchTypes
  <2>2. CASE UNCHANGED queueVars
    BY <2>2 DEF queueVars, WatchTypes
  <2> QED BY <2>1, <2>2 DEF TickAsks
<1>4. WatchTypes'
  BY <1>2, <1>3, FollowKeeps DEF WatchTypes
<1>5. SeenBefore'
  BY <1>2 DEF SeenBefore
<1>6. ASSUME NEW p \in PinnedPaths, p = asking
      PROVE  FollowedUp(p)'
  <2>1. CASE Direct(asking)
    BY <2>1, <1>1, <1>2, <1>6, BegunIsOld DEF Direct, Begin, Busy, FollowedUp
  <2>2. CASE Wait(asking)
    <3>1. waiting' = Append(waiting, asking) /\ waiting \in Seq(Paths)
      BY <2>2 DEF Wait, WatchTypes
    <3>2. Len(waiting') \in 1..Len(waiting') /\ waiting'[Len(waiting')] = asking
      BY <3>1, <1>1
    <3>3. asking \in WaitingPaths'
      BY <3>2 DEF WaitingPaths
    <3> QED BY <3>3, <1>6 DEF FollowedUp
  <2>3. CASE asking \in WaitingPaths /\ UNCHANGED queueVars
    BY <2>3, <1>6 DEF queueVars, WaitingPaths, FollowedUp
  <2> QED BY <2>1, <2>2, <2>3 DEF TickAsks
<1>7. ASSUME NEW q \in PinnedPaths \ {asking}
      PROVE  FollowedUp(q)'
  <2>1. dirty'[q] = dirty[q] /\ snapshot'[q] = snapshot[q] /\ files'[q] = files[q]
    BY <1>2 DEF WatchTypes
  <2> QED BY <2>1, <1>2, FollowKeeps DEF WatchTypes, AllKept, FollowedUp
<1> QED BY <1>4, <1>5, <1>6, <1>7 DEF AllKept

-----------------------------------------------------------------------------
(* The invariant holds at first, and each step keeps it.                    *)
LEMMA WatchIsInductive ==
    /\ WatchInit => WatchIInv
    /\ WatchIInv /\ [WatchNext]_stepVars => WatchIInv'
<1>1. WatchInit => WatchIInv
  <2> SUFFICES ASSUME WatchInit PROVE WatchIInv
    OBVIOUS
  <2>1. WatchTypes
    BY DEF WatchInit, QueueInit, WatchTypes
  <2> QED BY <2>1 DEF WatchInit, WatchIInv, SeenBefore, AllKept, FollowedUp, New
<1>2. ASSUME WatchIInv, [WatchNext]_stepVars
      PROVE  WatchIInv'
  <2> USE DEF WatchIInv
  <2>1. CASE Others
    <3>1. waiting' \in Seq(Paths)
      BY <1>2, <2>1, WaitingStays DEF Others, WatchTypes
    <3> QED BY <1>2, <2>1, <3>1, QueueStepKeeps DEF Others
  <2>2. CASE Session
    <3>1. waiting' \in Seq(Paths)
      BY <1>2, <2>2, WaitingStays DEF Session, WatchTypes
    <3> QED BY <1>2, <2>2, <3>1, QueueStepKeeps DEF Session
  <2>3. ASSUME NEW p \in PinnedPaths, Change(p)
        PROVE  WatchIInv'
    BY <1>2, <2>3, ChangeKeeps
  <2>4. CASE SetWatched
    <3>1. UNCHANGED <<waiting, snapshot, dirty, todo, asking, files, changes, tried, dropped>>
      BY <2>4 DEF SetWatched, queueVars, watchVars, ghosts
    <3>2. watched' \subseteq PinnedPaths
      BY <1>2, <2>4 DEF SetWatched, WatchTypes
    <3> QED BY <1>2, <3>1, <3>2 DEF WatchTypes, SeenBefore, AllKept, FollowedUp, New, WaitingPaths
  <2>5. ASSUME NEW p \in PinnedPaths, Settle(p)
        PROVE  WatchIInv'
    <3>1. UNCHANGED <<waiting, snapshot, dirty, todo, asking, files, changes, watched, tried, dropped>>
      BY <2>5 DEF Settle, queueVars, outside, ghosts
    <3> QED BY <1>2, <3>1 DEF WatchTypes, SeenBefore, AllKept, FollowedUp, New, WaitingPaths
  <2>6. CASE Watcher
    BY <1>2, <2>6, TickStartsKeeps, TickLooksKeeps, TickAsksKeeps DEF Watcher
  <2>7. CASE TickRefused
    <3>1. /\ Follow /\ asking' = NoPath
          /\ UNCHANGED <<waiting, snapshot, dirty, todo, files, changes, watched>>
      BY <2>7 DEF TickRefused, Answered, queueVars, outside
    <3>2. WatchTypes' /\ SeenBefore'
      BY <1>2, <3>1, FollowKeeps DEF WatchTypes, SeenBefore
    <3>3. AllKept'
      BY <1>2, <3>1, FollowKeeps DEF WatchTypes, AllKept, FollowedUp
    <3> QED BY <3>2, <3>3
  <2>8. CASE UNCHANGED stepVars
    <3>1. UNCHANGED <<waiting, snapshot, dirty, todo, asking, files, changes, watched, tried, dropped>>
      BY <2>8 DEF stepVars, queueVars, watchVars, outside, ghosts
    <3> QED BY <1>2, <3>1 DEF WatchTypes, SeenBefore, AllKept, FollowedUp, New, WaitingPaths
  <2> QED BY <1>2, <2>1, <2>2, <2>3, <2>4, <2>5, <2>6, <2>7, <2>8 DEF WatchNext
<1> QED BY <1>1, <1>2

(* However ticks, changes of files and of the watch flags, and imports by   *)
(* others interleave: tick() loses no new files of a watched folder unless  *)
(* the session drops its queue.                                             *)
THEOREM ChangesAreRemembered == WatchSpec => []Remembered
<1>1. WatchIInv => Remembered
  BY DEF WatchIInv, WatchTypes, AllKept, FollowedUp, Remembered
<1> QED BY <1>1, WatchIsInductive, PTL DEF WatchSpec

-----------------------------------------------------------------------------
(***************************************************************************)
(* The chat. A panel shows an ascending list with no stored message left   *)
(* out between its ends, and polls from the last one; pages are the        *)
(* beginning or the end of what is newer or older. That retention removes  *)
(* the oldest is a matter of counting what is newer.                       *)
(***************************************************************************)

Ascending(s) == \A k, l \in DOMAIN s : k < l => s[k] < s[l]

\* All that lies between two of S is among them.
Gapless(S, ids) == \A i \in ids : (\E a, b \in S : a <= i /\ i <= b) => i \in S

PanelOK(r, ids, n) ==
    ~r.again => /\ r.shown \in Seq(1..n - 1) /\ Ascending(r.shown) /\ r.after = LastOr0(r.shown)
                /\ Gapless(ToSet(r.shown), ids)

ChatInv ==
    /\ chatClock \in Nat /\ nextId \in Nat \ {0}
    /\ DOMAIN rows \subseteq 1..nextId - 1 /\ rows \in [DOMAIN rows -> Nat]
    /\ post \in [Writers -> {NoPost} \cup [pc : {"allow", "write"}, time : Nat]]
    /\ panel \in [Panels -> [open : BOOLEAN, after : Nat, shown : Seq(Nat), again : BOOLEAN]]
    /\ \A p \in Panels : PanelOK(panel[p], Ids, nextId)

-----------------------------------------------------------------------------
LEMMA SeqWithin ==
    ASSUME NEW s \in Seq(Nat), NEW S, ToSet(s) \subseteq S
    PROVE  s \in Seq(S)
<1>1. Len(s) \in Nat /\ DOMAIN s = 1..Len(s) /\ s \in [1..Len(s) -> Nat] BY LenProperties
<1>2. \A k \in 1..Len(s) : s[k] \in S BY <1>1 DEF ToSet
<1>3. s \in [1..Len(s) -> S] BY <1>1, <1>2
<1>4. QED BY <1>1, <1>3, SeqDef

(* ORDER BY: all of the set, once, in order.                                *)
LEMMA SortedIs ==
    ASSUME NEW S \in SUBSET Nat, IsFiniteSet(S)
    PROVE  Sorted(S) \in Seq(S) /\ Ascending(Sorted(S)) /\ ToSet(Sorted(S)) = S
<1> DEFINE n == Cardinality(S)
           s == Sorted(S)
<1>1. n \in Nat BY FS_CardinalityType
<1>2. /\ \A k \in 1..n : Nth(S, k) \in S /\ Rank(S, Nth(S, k)) = k
      /\ \A i \in S : Nth(S, Rank(S, i)) = i /\ Rank(S, i) \in 1..n
  BY NthSound, RankType
<1>3. DOMAIN s = 1..n /\ \A k \in 1..n : s[k] = Nth(S, k) BY DEF Sorted
<1>4. s \in Seq(S)
  <2>1. s \in [1..n -> S] BY <1>2 DEF Sorted
  <2>2. QED BY <1>1, <2>1, SeqDef
<1>5. ASSUME NEW k \in DOMAIN s, NEW l \in DOMAIN s, k < l PROVE s[k] < s[l]
  <2>1. s[k] \in S /\ s[l] \in S /\ Rank(S, s[k]) = k /\ Rank(S, s[l]) = l BY <1>2, <1>3
  <2>2. ~(s[l] < s[k]) /\ s[k] # s[l]
    <3>1. k \in Nat /\ l \in Nat BY <1>1, <1>3
    <3>2. s[l] < s[k] => l < k BY <2>1, RankIncreases
    <3>3. QED BY <1>5, <2>1, <3>1, <3>2
  <2>3. s[k] \in Nat /\ s[l] \in Nat BY <2>1
  <2> HIDE DEF s, n
  <2>4. QED BY <2>2, <2>3
<1>6. ToSet(s) = S
  <2>1. \A i \in S : Rank(S, i) \in DOMAIN s /\ s[Rank(S, i)] = i BY <1>2, <1>3
  <2>2. \A k \in DOMAIN s : s[k] \in S BY <1>2, <1>3
  <2> HIDE DEF s
  <2>3. QED BY <2>1, <2>2 DEF ToSet
<1>7. QED BY <1>4, <1>5, <1>6 DEF Ascending

(* The last of an ascending list is its greatest, the first its least.      *)
LEMMA EndsOf ==
    ASSUME NEW s \in Seq(Nat), Ascending(s), s # << >>
    PROVE  /\ Last(s) \in ToSet(s) /\ Head(s) \in ToSet(s)
           /\ \A x \in ToSet(s) : Head(s) <= x /\ x <= Last(s)
<1>1. Len(s) \in Nat \ {0} /\ DOMAIN s = 1..Len(s) /\ Head(s) = s[1] /\ Last(s) = s[Len(s)]
  BY EmptySeq DEF Last
<1>2. \A k \in 1..Len(s) : s[k] \in Nat /\ s[1] <= s[k] /\ s[k] <= s[Len(s)]
  <2>1. ASSUME NEW k \in 1..Len(s) PROVE s[k] \in Nat /\ s[1] <= s[k] /\ s[k] <= s[Len(s)]
    <3>1. s[k] \in Nat /\ s[1] \in Nat /\ s[Len(s)] \in Nat BY <1>1
    <3>2. (1 < k => s[1] < s[k]) /\ (k < Len(s) => s[k] < s[Len(s)]) BY <1>1 DEF Ascending
    <3>3. k \in Nat /\ Len(s) \in Nat /\ 1 <= k /\ k <= Len(s) BY <1>1
    <3>4. QED BY <3>1, <3>2, <3>3
  <2>2. QED BY <2>1
<1>3. QED BY <1>1, <1>2 DEF ToSet

LEMMA LastType == ASSUME NEW s \in Seq(Nat) PROVE LastOr0(s) \in Nat
<1>1. CASE s = << >> BY <1>1 DEF LastOr0
<1>2. CASE s # << >>
  <2>1. Len(s) \in 1..Len(s) BY <1>2, EmptySeq
  <2>2. QED BY <1>2, <2>1 DEF LastOr0, Last
<1>3. QED BY <1>1, <1>2

LEMMA JoinAscending ==
    ASSUME NEW s \in Seq(Nat), NEW t \in Seq(Nat), Ascending(s), Ascending(t),
           \A x \in ToSet(s), y \in ToSet(t) : x < y
    PROVE  /\ s \o t \in Seq(Nat) /\ Ascending(s \o t) /\ ToSet(s \o t) = ToSet(s) \cup ToSet(t)
           /\ t # << >> => LastOr0(s \o t) = LastOr0(t) /\ s \o t # << >>
           /\ t = << >> => s \o t = s
<1> DEFINE u == s \o t
           m == Len(s)
           n == Len(t)
<1>1. /\ u \in Seq(Nat) /\ Len(u) = m + n
      /\ \A k \in 1..(m + n) : u[k] = IF k <= m THEN s[k] ELSE t[k - m]
  BY ConcatProperties
<1>2. m \in Nat /\ n \in Nat /\ DOMAIN s = 1..m /\ DOMAIN t = 1..n BY LenProperties
<1>3. DOMAIN u = 1..(m + n) BY <1>1, LenProperties
<1> HIDE DEF u, m, n
<1>4. \A k \in 1..m : k \in 1..(m + n) /\ u[k] = s[k] BY <1>1, <1>2
<1>5. \A k \in 1..n : k + m \in 1..(m + n) /\ u[k + m] = t[k]
  <2>1. ASSUME NEW k \in 1..n PROVE k + m \in 1..(m + n) /\ u[k + m] = t[k]
    <3>1. k + m \in 1..(m + n) /\ ~(k + m <= m) /\ (k + m) - m = k BY <1>2
    <3>2. QED BY <1>1, <3>1
  <2>2. QED BY <2>1
<1>6. \A k \in 1..(m + n) : k \in 1..m \/ (k - m \in 1..n /\ (k - m) + m = k) BY <1>2
<1>7. ToSet(u) = ToSet(s) \cup ToSet(t)
  <2>1. ASSUME NEW k \in 1..(m + n) PROVE u[k] \in ToSet(s) \cup ToSet(t)
    <3>1. CASE k \in 1..m BY <1>2, <1>4, <3>1 DEF ToSet
    <3>2. CASE k - m \in 1..n /\ (k - m) + m = k
      <4>1. u[k] = t[k - m] BY <1>5, <3>2
      <4>2. QED BY <1>2, <3>2, <4>1 DEF ToSet
    <3>3. QED BY <1>6, <3>1, <3>2
  <2>2. ToSet(s) \subseteq ToSet(u) BY <1>2, <1>3, <1>4 DEF ToSet
  <2>3. ToSet(t) \subseteq ToSet(u) BY <1>2, <1>3, <1>5 DEF ToSet
  <2>4. ToSet(u) \subseteq ToSet(s) \cup ToSet(t) BY <1>3, <2>1 DEF ToSet
  <2>5. QED BY <2>2, <2>3, <2>4
<1>8. ASSUME NEW k \in 1..(m + n), NEW l \in 1..(m + n), k < l PROVE u[k] < u[l]
  <2>1. CASE k \in 1..m /\ l \in 1..m BY <1>2, <1>4, <1>8, <2>1 DEF Ascending
  <2>2. CASE k \in 1..m /\ l - m \in 1..n /\ (l - m) + m = l
    <3>1. u[k] = s[k] /\ u[l] = t[l - m] BY <1>4, <1>5, <2>2
    <3>2. s[k] \in ToSet(s) /\ t[l - m] \in ToSet(t) BY <1>2, <2>2 DEF ToSet
    <3>3. QED BY <3>1, <3>2
  <2>3. CASE k - m \in 1..n /\ (k - m) + m = k /\ l - m \in 1..n /\ (l - m) + m = l
    <3>1. u[k] = t[k - m] /\ u[l] = t[l - m] BY <1>5, <2>3
    <3>2. k - m < l - m BY <1>2, <1>8
    <3>3. QED BY <1>2, <2>3, <3>1, <3>2 DEF Ascending
  <2>4. ~(k \notin 1..m /\ l \in 1..m) BY <1>2, <1>8
  <2>5. QED BY <1>6, <2>1, <2>2, <2>3, <2>4
<1>9. Ascending(u) BY <1>3, <1>8 DEF Ascending
<1>10. ASSUME t # << >> PROVE LastOr0(u) = LastOr0(t) /\ u # << >>
  <2>1. n # 0 BY <1>10, EmptySeq DEF n
  <2>2. u # << >> /\ Len(u) = n + m BY <1>1, <1>2, <2>1, EmptySeq
  <2>3. n \in 1..n BY <1>2, <2>1
  <2>4. u[n + m] = t[n] BY <1>5, <2>3
  <2>5. QED BY <1>10, <2>2, <2>4 DEF LastOr0, Last, n
<1>11. t = << >> => s \o t = s BY ConcatEmptySeq
<1>12. QED BY <1>1, <1>7, <1>9, <1>10, <1>11 DEF u

(* The head of an ascending list, and its end.                              *)
LEMMA PartAscending ==
    ASSUME NEW s \in Seq(Nat), Ascending(s), NEW i \in 1..(Len(s) + 1), NEW j \in 0..Len(s)
    PROVE  LET t == SubSeq(s, i, j) IN
           /\ t \in Seq(Nat) /\ Ascending(t) /\ ToSet(t) = {s[k] : k \in i..j}
           /\ t = << >> <=> j < i
<1> DEFINE t == SubSeq(s, i, j)
           n == IF i <= j THEN j - i + 1 ELSE 0
<1>1. Len(s) \in Nat /\ DOMAIN s = 1..Len(s) /\ \A k \in 1..Len(s) : s[k] \in Nat BY LenProperties
<1>2. i..j \subseteq 1..Len(s) BY <1>1
<1>3. \A k \in i..j : s[k] \in Nat BY <1>1, <1>2
<1>4. t \in Seq(Nat) /\ Len(t) = n /\ \A k \in 1..(j - i + 1) : t[k] = s[i + k - 1]
  <2>1. i \in Int /\ j \in Int BY <1>1
  <2>2. /\ SubSeq(s, i, j) \in Seq(Nat)
        /\ Len(SubSeq(s, i, j)) = IF i <= j THEN j - i + 1 ELSE 0
        /\ \A k \in 1..(j - i + 1) : SubSeq(s, i, j)[k] = s[i + k - 1]
    BY <1>3, <2>1, SubSeqProperties
  <2>3. QED BY <2>2, Zenon
<1>5. DOMAIN t = 1..n BY <1>4, LenProperties
<1> HIDE DEF t
<1>6. n \in Nat /\ \A k \in 1..n : i + k - 1 \in i..j /\ t[k] = s[i + k - 1]
  <2>1. n \in Nat BY <1>1
  <2>2. ASSUME NEW k \in 1..n PROVE k \in 1..(j - i + 1) /\ i + k - 1 \in i..j BY <1>1, <2>1
  <2>3. QED BY <1>4, <2>1, <2>2
<1>7. \A l \in i..j : l - i + 1 \in 1..n /\ i + (l - i + 1) - 1 = l BY <1>1
<1>8. ASSUME NEW k \in 1..n, NEW l \in 1..n, k < l PROVE t[k] < t[l]
  <2>1. i + k - 1 \in DOMAIN s /\ i + l - 1 \in DOMAIN s /\ i + k - 1 < i + l - 1
    BY <1>1, <1>2, <1>6, <1>8
  <2>2. QED BY <1>6, <2>1 DEF Ascending
<1>9. ToSet(t) = {s[k] : k \in i..j}
  <2>1. ASSUME NEW k \in 1..n PROVE t[k] \in {s[l] : l \in i..j} BY <1>6
  <2>2. ASSUME NEW l \in i..j PROVE \E k \in 1..n : t[k] = s[l]
    <3>1. l - i + 1 \in 1..n /\ i + (l - i + 1) - 1 = l BY <1>7
    <3>2. t[l - i + 1] = s[l] BY <1>6, <3>1
    <3>3. QED BY <3>1, <3>2
  <2>3. ToSet(t) = {t[k] : k \in 1..n} BY <1>5 DEF ToSet
  <2>4. QED BY <2>1, <2>2, <2>3
<1>10. t = << >> <=> j < i
  <2>1. t = << >> <=> n = 0 BY <1>4, EmptySeq
  <2>2. QED BY <1>1, <2>1
<1>11. QED BY <1>4, <1>5, <1>8, <1>9, <1>10 DEF Ascending, t

(* LIMIT n with ORDER BY id, and with ORDER BY id DESC.                     *)
LEMMA FirstOfSorted ==
    ASSUME NEW S \in SUBSET Nat, IsFiniteSet(S), NEW n \in Nat \ {0}
    PROVE  LET t == First(Sorted(S), n) IN
           /\ t \in Seq(Nat) /\ Ascending(t) /\ ToSet(t) \subseteq S
           /\ \A x \in S, y \in ToSet(t) : x <= y => x \in ToSet(t)
<1> DEFINE s == Sorted(S)
           j == IF Len(s) < n THEN Len(s) ELSE n
           t == SubSeq(s, 1, j)
<1>1. s \in Seq(Nat) /\ Ascending(s) /\ ToSet(s) = S
  <2>1. s \in Seq(S) /\ Ascending(s) /\ ToSet(s) = S BY SortedIs
  <2>2. QED BY <2>1, SeqMonotonic
<1> HIDE DEF s
<1>2. Len(s) \in Nat /\ DOMAIN s = 1..Len(s) BY <1>1, LenProperties
<1>3. 1 \in 1..(Len(s) + 1) /\ j \in 0..Len(s) BY <1>2
<1>4. t \in Seq(Nat) /\ Ascending(t) /\ ToSet(t) = {s[k] : k \in 1..j}
  BY <1>1, <1>3, PartAscending
<1>5. S = {s[k] : k \in 1..Len(s)} BY <1>1, <1>2 DEF ToSet
<1>6. ASSUME NEW k \in 1..Len(s), NEW l \in 1..j, s[k] <= s[l] PROVE k \in 1..j
  <2>1. l \in DOMAIN s /\ k \in DOMAIN s /\ s[l] \in Nat /\ s[k] \in Nat BY <1>1, <1>2, <1>3
  <2>2. ~(l < k) BY <1>1, <1>6, <2>1 DEF Ascending
  <2>3. QED BY <1>2, <1>3, <2>2
<1>7. 1..j \subseteq 1..Len(s) BY <1>2, <1>3
<1> HIDE DEF t, j
<1>8. \A x \in S, y \in ToSet(t) : x <= y => x \in ToSet(t)
  <2> SUFFICES ASSUME NEW k \in 1..Len(s), NEW l \in 1..j, s[k] <= s[l] PROVE s[k] \in ToSet(t)
    BY <1>4, <1>5
  <2>1. QED BY <1>4, <1>6
<1>9. ToSet(t) \subseteq S BY <1>4, <1>5, <1>7
<1>10. QED BY <1>4, <1>8, <1>9 DEF First, t, s, j

LEMMA LastsOfSorted ==
    ASSUME NEW S \in SUBSET Nat, IsFiniteSet(S), NEW n \in Nat \ {0}
    PROVE  LET t == Lasts(Sorted(S), n) IN
           /\ t \in Seq(Nat) /\ Ascending(t) /\ ToSet(t) \subseteq S
           /\ \A x \in S, y \in ToSet(t) : y <= x => x \in ToSet(t)
<1> DEFINE s == Sorted(S)
           i == IF Len(s) < n THEN 1 ELSE Len(s) - n + 1
           t == SubSeq(s, i, Len(s))
<1>1. s \in Seq(Nat) /\ Ascending(s) /\ ToSet(s) = S
  <2>1. s \in Seq(S) /\ Ascending(s) /\ ToSet(s) = S BY SortedIs
  <2>2. QED BY <2>1, SeqMonotonic
<1> HIDE DEF s
<1>2. Len(s) \in Nat /\ DOMAIN s = 1..Len(s) BY <1>1, LenProperties
<1>3. i \in 1..(Len(s) + 1) /\ Len(s) \in 0..Len(s) BY <1>2
<1>4. t \in Seq(Nat) /\ Ascending(t) /\ ToSet(t) = {s[k] : k \in i..Len(s)}
  BY <1>1, <1>3, PartAscending
<1>5. S = {s[k] : k \in 1..Len(s)} BY <1>1, <1>2 DEF ToSet
<1>6. ASSUME NEW k \in 1..Len(s), NEW l \in i..Len(s), s[l] <= s[k] PROVE k \in i..Len(s)
  <2>1. l \in DOMAIN s /\ k \in DOMAIN s /\ s[l] \in Nat /\ s[k] \in Nat BY <1>1, <1>2, <1>3
  <2>2. ~(k < l) BY <1>1, <1>6, <2>1 DEF Ascending
  <2>3. QED BY <1>2, <1>3, <2>2
<1>7. i..Len(s) \subseteq 1..Len(s) BY <1>2, <1>3
<1> HIDE DEF t, i
<1>8. \A x \in S, y \in ToSet(t) : y <= x => x \in ToSet(t)
  <2> SUFFICES ASSUME NEW k \in 1..Len(s), NEW l \in i..Len(s), s[l] <= s[k] PROVE s[k] \in ToSet(t)
    BY <1>4, <1>5
  <2>1. QED BY <1>4, <1>6
<1>9. ToSet(t) \subseteq S BY <1>4, <1>5, <1>7
<1>10. QED BY <1>4, <1>8, <1>9 DEF Lasts, t, s, i

-----------------------------------------------------------------------------
(* What OldestGo says of the two deletions: newer-than is a total order, so *)
(* what is newer than a message is fewer than what is newer than an older.  *)
LEMMA RetainedNewest ==
    ASSUME NEW D \in SUBSET Nat, IsFiniteSet(D), NEW t \in [D -> Nat], NEW now \in Nat,
           NEW i \in D, NEW j \in D, i \notin Retained(t, now), j \in Retained(t, now)
    PROVE  Newer(t, j, i)
<1> DEFINE young == {k \in D : t[k] >= now - ChatRetention}
           U == {k \in young : Newer(t, k, i)}
           V == {k \in young : Newer(t, k, j)}
<1>0. ChatRetention \in Nat /\ ChatKept \in Nat BY ChatAssumption
<1>1. Retained(t, now) = {k \in young : Cardinality({l \in young : Newer(t, l, k)}) < ChatKept}
  BY DEF Retained
<1>2. j \in young /\ Cardinality(V) < ChatKept BY <1>1
<1>3. t[i] \in Nat /\ t[j] \in Nat /\ i \in Nat /\ j \in Nat /\ i # j OBVIOUS
<1>4. CASE i \notin young
  <2>1. ~(t[i] >= now - ChatRetention) /\ t[j] >= now - ChatRetention BY <1>2, <1>4
  <2>2. t[j] > t[i] BY <1>0, <1>3, <2>1
  <2>3. QED BY <2>2 DEF Newer
<1>5. CASE i \in young /\ ~Newer(t, j, i)
  <2>1. ~(Cardinality(U) < ChatKept) BY <1>1, <1>5
  <2>2. Newer(t, i, j) BY <1>3, <1>5 DEF Newer
  <2>3. ASSUME NEW k \in D, Newer(t, k, i) PROVE Newer(t, k, j)
    <3>1. t[k] \in Nat /\ k \in Nat OBVIOUS
    <3>2. QED BY <1>3, <2>2, <2>3, <3>1 DEF Newer
  <2>4. U \subseteq V BY <2>3
  <2>5. IsFiniteSet(V) BY FS_Subset
  <2> HIDE DEF U, V, young
  <2>6. IsFiniteSet(U) /\ Cardinality(U) <= Cardinality(V) BY <2>4, <2>5, FS_Subset
  <2>7. Cardinality(U) \in Nat /\ Cardinality(V) \in Nat BY <2>5, <2>6, FS_CardinalityType
  <2>8. QED BY <1>0, <1>2, <2>1, <2>6, <2>7
<1>6. QED BY <1>4, <1>5

-----------------------------------------------------------------------------
LEMMA IdsFinite ==
    ASSUME NEW n \in Nat \ {0}, NEW S \in SUBSET (1..n - 1)
    PROVE  S \in SUBSET Nat /\ IsFiniteSet(S)
<1>1. n - 1 \in Int /\ 1 \in Int OBVIOUS
<1>2. IsFiniteSet(1..n - 1) BY <1>1, FS_Interval
<1>3. IsFiniteSet(S) BY <1>2, FS_Subset
<1>4. QED BY <1>3

(* A panel as messages come and go.                                         *)
LEMMA PanelKept ==
    ASSUME NEW r, NEW ids, NEW ids2, NEW n \in Nat \ {0}, NEW m \in Nat, n <= m,
           PanelOK(r, ids, n), ids2 \subseteq ids \cup {n}
    PROVE  PanelOK(r, ids2, m)
<1>1. SUFFICES ASSUME ~r.again PROVE r.shown \in Seq(1..m - 1) /\ Gapless(ToSet(r.shown), ids2)
  BY DEF PanelOK
<1>2. r.shown \in Seq(1..n - 1) /\ Gapless(ToSet(r.shown), ids) BY <1>1 DEF PanelOK
<1>3. r.shown \in Seq(1..m - 1)
  <2>1. 1..n - 1 \subseteq 1..m - 1 OBVIOUS
  <2>2. QED BY <1>2, <2>1, SeqMonotonic
<1>4. \A b \in ToSet(r.shown) : b \in 1..n - 1 BY <1>2 DEF ToSet
<1>5. \A b \in ToSet(r.shown) : ~(n <= b) BY <1>4
<1>6. Gapless(ToSet(r.shown), ids2) BY <1>2, <1>5 DEF Gapless
<1>7. QED BY <1>3, <1>6

(* The page a panel is opened with.                                         *)
LEMMA OpenedOK ==
    ASSUME NEW n \in Nat \ {0}, NEW ids \in SUBSET (1..n - 1), NEW page,
           page = Lasts(Sorted(ids), ChatPage)
    PROVE  PanelOK([open |-> TRUE, after |-> LastOr0(page), shown |-> page, again |-> FALSE], ids, n)
<1>1. ids \in SUBSET Nat /\ IsFiniteSet(ids) BY IdsFinite
<1>2. /\ page \in Seq(Nat) /\ Ascending(page) /\ ToSet(page) \subseteq ids
      /\ \A x \in ids, y \in ToSet(page) : y <= x => x \in ToSet(page)
  <2>1. ChatPage \in Nat \ {0} BY ChatAssumption
  <2>2. QED BY <1>1, <2>1, LastsOfSorted
<1>3. page \in Seq(1..n - 1) BY <1>2, SeqWithin
<1>4. Gapless(ToSet(page), ids) BY <1>2 DEF Gapless
<1>5. QED BY <1>2, <1>3, <1>4 DEF PanelOK

(* A poll of a panel r.                                                     *)
LEMMA PolledOK ==
    ASSUME NEW n \in Nat \ {0}, NEW ids \in SUBSET (1..n - 1), NEW page,
           NEW r \in [open : BOOLEAN, after : Nat, shown : Seq(Nat), again : BOOLEAN],
           PanelOK(r, ids, n),
           page = First(Sorted({i \in ids : i > r.after}), ChatNewerPage)
    PROVE  /\ page \in Seq(Nat)
           /\ PanelOK([open |-> TRUE, after |-> LastOr0(page), shown |-> r.shown \o page,
                       again |-> r.again \/ (page = << >> /\ r.after # 0)], ids, n)
<1> DEFINE S == {i \in ids : i > r.after}
           shown == r.shown
<1>1. S \in SUBSET Nat /\ IsFiniteSet(S)
  <2>1. S \in SUBSET (1..n - 1) OBVIOUS
  <2>2. QED BY <2>1, IdsFinite
<1>2. /\ page \in Seq(Nat) /\ Ascending(page) /\ ToSet(page) \subseteq S
      /\ \A x \in S, y \in ToSet(page) : x <= y => x \in ToSet(page)
  <2>1. ChatNewerPage \in Nat \ {0} BY ChatAssumption
  <2> HIDE DEF S
  <2>2. /\ First(Sorted(S), ChatNewerPage) \in Seq(Nat)
        /\ Ascending(First(Sorted(S), ChatNewerPage))
        /\ ToSet(First(Sorted(S), ChatNewerPage)) \subseteq S
        /\ \A x \in S, y \in ToSet(First(Sorted(S), ChatNewerPage)) :
              x <= y => x \in ToSet(First(Sorted(S), ChatNewerPage))
    BY <1>1, <2>1, FirstOfSorted
  <2>3. QED BY <2>2 DEF S
<1> SUFFICES ASSUME ~r.again, ~(page = << >> /\ r.after # 0)
             PROVE  /\ shown \o page \in Seq(1..n - 1) /\ Ascending(shown \o page)
                    /\ LastOr0(page) = LastOr0(shown \o page)
                    /\ Gapless(ToSet(shown \o page), ids)
  BY <1>2 DEF PanelOK
<1>3. /\ shown \in Seq(1..n - 1) /\ shown \in Seq(Nat) /\ Ascending(shown)
      /\ r.after = LastOr0(shown) /\ Gapless(ToSet(shown), ids) /\ r.after \in Nat
  BY DEF PanelOK
<1>4. \A x \in ToSet(shown) : x \in 1..n - 1 BY <1>3 DEF ToSet
<1>5. \A x \in ToSet(shown) : x <= r.after /\ r.after \in ToSet(shown)
  <2>1. CASE shown = << >> BY <2>1 DEF ToSet
  <2>2. CASE shown # << >>
    <3>1. r.after = Last(shown) BY <1>3, <2>2 DEF LastOr0
    <3>2. QED BY <1>3, <2>2, <3>1, EndsOf
  <2>3. QED BY <2>1, <2>2
<1>6. \A y \in ToSet(page) : y \in ids /\ y > r.after BY <1>2
<1>7. \A x \in ToSet(shown), y \in ToSet(page) : x < y
  <2>1. ASSUME NEW x \in ToSet(shown), NEW y \in ToSet(page) PROVE x < y
    <3>1. x \in Nat /\ y \in Nat BY <1>1, <1>2, <1>4
    <3>2. x <= r.after /\ y > r.after BY <1>5, <1>6
    <3>3. QED BY <1>3, <3>1, <3>2
  <2>2. QED BY <2>1
<1> HIDE DEF shown, S
<1>8. /\ shown \o page \in Seq(Nat) /\ Ascending(shown \o page)
      /\ ToSet(shown \o page) = ToSet(shown) \cup ToSet(page)
      /\ page # << >> => LastOr0(shown \o page) = LastOr0(page)
      /\ page = << >> => shown \o page = shown
  BY <1>2, <1>3, <1>7, JoinAscending
<1>9. shown \o page \in Seq(1..n - 1)
  <2>1. ToSet(shown \o page) \subseteq 1..n - 1 BY <1>4, <1>6, <1>8
  <2>2. QED BY <1>8, <2>1, SeqWithin
<1>10. LastOr0(page) = LastOr0(shown \o page)
  <2>1. CASE page = << >> BY <1>3, <1>8, <2>1 DEF LastOr0
  <2>2. QED BY <1>8, <2>1
<1>11. ASSUME NEW i \in ids, NEW a \in ToSet(shown) \cup ToSet(page),
              NEW b \in ToSet(shown) \cup ToSet(page), a <= i, i <= b
       PROVE  i \in ToSet(shown) \cup ToSet(page)
  <2>1. i \in Nat /\ a \in Nat /\ b \in Nat /\ r.after \in Nat
    <3>1. a \in 1..n - 1 /\ b \in 1..n - 1 /\ i \in 1..n - 1 BY <1>4, <1>6
    <3>2. QED BY <1>3, <3>1
  <2>2. CASE i > r.after
    <3>1. b \notin ToSet(shown) BY <1>5, <1>11, <2>1, <2>2
    <3>2. i \in S BY <2>2 DEF S
    <3>3. QED BY <1>2, <1>11, <3>1, <3>2
  <2>3. CASE i <= r.after
    <3>1. a \in ToSet(shown) BY <1>6, <1>11, <2>1, <2>3
    <3>2. r.after \in ToSet(shown) BY <1>5, <3>1
    <3>3. QED BY <1>3, <1>11, <2>3, <3>1, <3>2 DEF Gapless
  <2>4. QED BY <2>1, <2>2, <2>3
<1>12. Gapless(ToSet(shown \o page), ids) BY <1>8, <1>11 DEF Gapless
<1>13. QED BY <1>8, <1>9, <1>10, <1>12

(* A panel scrolled up.                                                     *)
LEMMA ScrolledOK ==
    ASSUME NEW n \in Nat \ {0}, NEW ids \in SUBSET (1..n - 1), NEW page,
           NEW r \in [open : BOOLEAN, after : Nat, shown : Seq(Nat), again : BOOLEAN],
           PanelOK(r, ids, n), r.shown # << >>,
           page = Lasts(Sorted({i \in ids : i < Head(r.shown)}), ChatPage)
    PROVE  /\ page \in Seq(Nat)
           /\ PanelOK([r EXCEPT !.shown = page \o r.shown], ids, n)
<1> DEFINE S == {i \in ids : i < Head(r.shown)}
           shown == r.shown
<1>1. S \in SUBSET Nat /\ IsFiniteSet(S)
  <2>1. S \in SUBSET (1..n - 1) OBVIOUS
  <2>2. QED BY <2>1, IdsFinite
<1>2. /\ page \in Seq(Nat) /\ Ascending(page) /\ ToSet(page) \subseteq S
      /\ \A x \in S, y \in ToSet(page) : y <= x => x \in ToSet(page)
  <2>1. ChatPage \in Nat \ {0} BY ChatAssumption
  <2> HIDE DEF S
  <2>2. /\ Lasts(Sorted(S), ChatPage) \in Seq(Nat)
        /\ Ascending(Lasts(Sorted(S), ChatPage))
        /\ ToSet(Lasts(Sorted(S), ChatPage)) \subseteq S
        /\ \A x \in S, y \in ToSet(Lasts(Sorted(S), ChatPage)) :
              y <= x => x \in ToSet(Lasts(Sorted(S), ChatPage))
    BY <1>1, <2>1, LastsOfSorted
  <2>3. QED BY <2>2 DEF S
<1> SUFFICES ASSUME ~r.again
             PROVE  /\ page \o shown \in Seq(1..n - 1) /\ Ascending(page \o shown)
                    /\ r.after = LastOr0(page \o shown)
                    /\ Gapless(ToSet(page \o shown), ids)
  BY <1>2 DEF PanelOK
<1>3. /\ shown \in Seq(1..n - 1) /\ shown \in Seq(Nat) /\ Ascending(shown)
      /\ r.after = LastOr0(shown) /\ Gapless(ToSet(shown), ids)
  BY DEF PanelOK
<1>4. \A x \in ToSet(shown) : x \in 1..n - 1 BY <1>3 DEF ToSet
<1>5. Head(shown) \in ToSet(shown) /\ \A x \in ToSet(shown) : Head(shown) <= x
  BY <1>3, EndsOf
<1>6. \A y \in ToSet(page) : y \in ids /\ y < Head(shown) BY <1>2
<1>7. \A y \in ToSet(page), x \in ToSet(shown) : y < x
  <2>1. ASSUME NEW x \in ToSet(shown), NEW y \in ToSet(page) PROVE y < x
    <3>1. x \in Nat /\ y \in Nat /\ Head(shown) \in Nat BY <1>1, <1>2, <1>4, <1>5
    <3>2. Head(shown) <= x /\ y < Head(shown) BY <1>5, <1>6
    <3>3. QED BY <3>1, <3>2
  <2>2. QED BY <2>1
<1>8. shown # << >> OBVIOUS
<1>14. \A x \in ids : x < Head(shown) => x \in S OBVIOUS
<1> HIDE DEF shown, S
<1>9. /\ page \o shown \in Seq(Nat) /\ Ascending(page \o shown)
      /\ ToSet(page \o shown) = ToSet(page) \cup ToSet(shown)
      /\ LastOr0(page \o shown) = LastOr0(shown)
  BY <1>2, <1>3, <1>7, <1>8, JoinAscending
<1>10. page \o shown \in Seq(1..n - 1)
  <2>1. ToSet(page \o shown) \subseteq 1..n - 1 BY <1>4, <1>6, <1>9
  <2>2. QED BY <1>9, <2>1, SeqWithin
<1>11. ASSUME NEW i \in ids, NEW a \in ToSet(page) \cup ToSet(shown),
              NEW b \in ToSet(page) \cup ToSet(shown), a <= i, i <= b
       PROVE  i \in ToSet(page) \cup ToSet(shown)
  <2>1. i \in Nat /\ a \in Nat /\ b \in Nat /\ Head(shown) \in Nat
    <3>1. /\ a \in 1..n - 1 /\ b \in 1..n - 1 /\ i \in 1..n - 1
          /\ Head(shown) \in 1..n - 1
      BY <1>4, <1>5, <1>6
    <3>2. QED BY <3>1
  <2>2. CASE i < Head(shown)
    <3>1. a \notin ToSet(shown) BY <1>5, <1>11, <2>1, <2>2
    <3>2. QED BY <1>2, <1>11, <1>14, <2>2, <3>1
  <2>3. CASE Head(shown) <= i
    <3>1. b \in ToSet(shown) BY <1>6, <1>11, <2>1, <2>3
    <3>2. QED BY <1>3, <1>5, <1>11, <2>3, <3>1 DEF Gapless
  <2>4. QED BY <2>1, <2>2, <2>3
<1>12. Gapless(ToSet(page \o shown), ids) BY <1>9, <1>11 DEF Gapless
<1>13. QED BY <1>3, <1>9, <1>10, <1>12

-----------------------------------------------------------------------------
LEMMA ChatStart == ChatInit => ChatInv
<1> SUFFICES ASSUME ChatInit PROVE ChatInv OBVIOUS
<1>1. chatClock = 0 /\ nextId = 1 /\ rows = << >> BY DEF ChatInit
<1>2. DOMAIN rows = {} /\ rows \in [DOMAIN rows -> Nat] BY <1>1
<1>3. post \in [Writers -> {NoPost} \cup [pc : {"allow", "write"}, time : Nat]] BY DEF ChatInit
<1>4. \A p \in Panels : panel[p] = ClosedPanel /\ panel = [q \in Panels |-> ClosedPanel]
  BY DEF ChatInit
<1>5. ClosedPanel \in [open : BOOLEAN, after : Nat, shown : Seq(Nat), again : BOOLEAN]
  BY DEF ClosedPanel
<1>6. panel \in [Panels -> [open : BOOLEAN, after : Nat, shown : Seq(Nat), again : BOOLEAN]]
  BY <1>5 DEF ChatInit
<1>7. PanelOK(ClosedPanel, Ids, nextId)
  <2>1. /\ ClosedPanel.shown = << >> /\ ClosedPanel.after = 0
    BY DEF ClosedPanel
  <2>2. Ids = {} BY <1>2 DEF Ids
  <2>3. << >> \in Seq(1..nextId - 1) /\ LastOr0(<< >>) = 0 BY DEF LastOr0
  <2>4. Ascending(<< >>) BY DEF Ascending
  <2>5. QED BY <2>1, <2>2, <2>3, <2>4 DEF PanelOK, Gapless
<1>8. QED BY <1>1, <1>2, <1>3, <1>4, <1>6, <1>7 DEF ChatInv

\* What a step of a panel does to the panels.
LEMMA OnePanel ==
    ASSUME ChatInv, UNCHANGED <<chatClock, rows, nextId, post>>, NEW p \in Panels,
           NEW r \in [open : BOOLEAN, after : Nat, shown : Seq(Nat), again : BOOLEAN],
           panel' = [panel EXCEPT ![p] = r], PanelOK(r, Ids, nextId)
    PROVE  ChatInv'
<1>1. panel' \in [Panels -> [open : BOOLEAN, after : Nat, shown : Seq(Nat), again : BOOLEAN]]
  BY DEF ChatInv
<1>2. \A q \in Panels : panel'[q] = IF q = p THEN r ELSE panel[q] BY DEF ChatInv
<1>3. Ids' = Ids BY DEF Ids
<1>4. \A q \in Panels : PanelOK(panel'[q], Ids', nextId') BY <1>2, <1>3 DEF ChatInv
<1>5. QED BY <1>1, <1>4 DEF ChatInv

LEMMA ChatOpenStep == ASSUME ChatInv, NEW p \in Panels, OpenPanel(p) PROVE ChatInv'
<1> DEFINE page == Lasts(Sorted(Ids), ChatPage)
           r == [open |-> TRUE, after |-> LastOr0(page), shown |-> page, again |-> FALSE]
<1>1. nextId \in Nat \ {0} /\ Ids \in SUBSET (1..nextId - 1) BY DEF ChatInv, Ids
<1>2. PanelOK(r, Ids, nextId) BY <1>1, OpenedOK
<1>3. page \in Seq(Nat)
  <2>1. IsFiniteSet(Ids) /\ Ids \in SUBSET Nat BY <1>1, IdsFinite
  <2>2. ChatPage \in Nat \ {0} BY ChatAssumption
  <2>3. QED BY <2>1, <2>2, LastsOfSorted
<1>4. panel' = [panel EXCEPT ![p] = r] /\ UNCHANGED <<chatClock, rows, nextId, post>>
  BY DEF OpenPanel
<1> HIDE DEF page
<1>5. r \in [open : BOOLEAN, after : Nat, shown : Seq(Nat), again : BOOLEAN]
  <2>1. LastOr0(page) \in Nat BY <1>3, LastType
  <2>2. QED BY <1>3, <2>1
<1> HIDE DEF r
<1>6. QED BY <1>2, <1>4, <1>5, OnePanel

LEMMA ChatPollStep == ASSUME ChatInv, NEW p \in Panels, Poll(p) PROVE ChatInv'
<1> DEFINE page == NewerPage(panel[p].after)
           r == [open |-> TRUE, after |-> LastOr0(page), shown |-> panel[p].shown \o page,
                 again |-> panel[p].again \/ (page = << >> /\ panel[p].after # 0)]
<1>1. nextId \in Nat \ {0} /\ Ids \in SUBSET (1..nextId - 1) BY DEF ChatInv, Ids
<1>2. /\ panel[p] \in [open : BOOLEAN, after : Nat, shown : Seq(Nat), again : BOOLEAN]
      /\ PanelOK(panel[p], Ids, nextId)
  BY DEF ChatInv
<1>3. page = First(Sorted({i \in Ids : i > panel[p].after}), ChatNewerPage) BY DEF NewerPage
<1>4. panel' = [panel EXCEPT ![p] = r] /\ UNCHANGED <<chatClock, rows, nextId, post>>
  BY DEF Poll
<1> HIDE DEF page
<1>5. page \in Seq(Nat) /\ PanelOK(r, Ids, nextId) BY <1>1, <1>2, <1>3, PolledOK
<1>6. r \in [open : BOOLEAN, after : Nat, shown : Seq(Nat), again : BOOLEAN]
  <2>1. LastOr0(page) \in Nat BY <1>5, LastType
  <2>2. panel[p].shown \o page \in Seq(Nat) BY <1>2, <1>5, ConcatProperties
  <2>3. QED BY <1>2, <2>1, <2>2
<1> HIDE DEF r
<1>7. QED BY <1>4, <1>5, <1>6, OnePanel

LEMMA ChatScrollStep == ASSUME ChatInv, NEW p \in Panels, Scroll(p) PROVE ChatInv'
<1> DEFINE page == Lasts(Sorted({i \in Ids : i < Head(panel[p].shown)}), ChatPage)
           r == [panel[p] EXCEPT !.shown = page \o panel[p].shown]
<1>1. nextId \in Nat \ {0} /\ Ids \in SUBSET (1..nextId - 1) BY DEF ChatInv, Ids
<1>2. /\ panel[p] \in [open : BOOLEAN, after : Nat, shown : Seq(Nat), again : BOOLEAN]
      /\ PanelOK(panel[p], Ids, nextId)
  BY DEF ChatInv
<1>3. /\ panel[p].shown # << >> /\ UNCHANGED <<chatClock, rows, nextId, post>>
      /\ panel' = [panel EXCEPT ![p].shown = page \o panel[p].shown]
  BY DEF Scroll
<1>4. page \in Seq(Nat) /\ PanelOK(r, Ids, nextId) BY <1>1, <1>2, <1>3, ScrolledOK
<1> HIDE DEF page
<1>5. panel' = [panel EXCEPT ![p] = r] BY <1>3
<1>6. r \in [open : BOOLEAN, after : Nat, shown : Seq(Nat), again : BOOLEAN]
  <2>1. page \o panel[p].shown \in Seq(Nat) BY <1>2, <1>4, ConcatProperties
  <2>2. QED BY <1>2, <2>1
<1> HIDE DEF r
<1>7. QED BY <1>3, <1>4, <1>5, <1>6, OnePanel

\* The messages change, and no panel.
LEMMA RowsChange ==
    ASSUME ChatInv, NEW m \in {nextId, nextId + 1}, nextId' = m,
           NEW ids \in SUBSET (Ids \cup {nextId}), rows' \in [ids -> Nat], ids \subseteq 1..m - 1,
           chatClock' \in Nat, panel' = panel,
           post' \in [Writers -> {NoPost} \cup [pc : {"allow", "write"}, time : Nat]]
    PROVE  ChatInv'
<1>1. nextId \in Nat \ {0} /\ m \in Nat \ {0} BY DEF ChatInv
<1>2. DOMAIN rows' = ids /\ Ids' = ids BY DEF Ids
<1>3. ASSUME NEW p \in Panels PROVE PanelOK(panel[p], ids, m)
  <2>1. PanelOK(panel[p], Ids, nextId) BY DEF ChatInv
  <2>2. ids \subseteq Ids \cup {nextId} /\ m \in Nat /\ nextId <= m BY <1>1
  <2>3. QED BY <1>1, <2>1, <2>2, PanelKept
<1>4. QED BY <1>1, <1>2, <1>3 DEF ChatInv

LEMMA ChatWriteStep ==
    ASSUME ChatInv, NEW w \in Writers, WritePost(w)
    PROVE  /\ ChatInv'
           /\ \A i, j \in Ids : i \notin DOMAIN rows' /\ j \in DOMAIN rows' => Newer(rows, j, i)
<1> DEFINE time == post[w].time
           D == Ids \cup {nextId}
           all == [i \in D |-> IF i = nextId THEN time ELSE rows[i]]
           left == Retained(all, time)
<1>1. nextId \in Nat \ {0} /\ Ids \in SUBSET (1..nextId - 1) /\ rows \in [Ids -> Nat]
  BY DEF ChatInv, Ids
<1>2. time \in Nat
  <2>1. post[w] \in {NoPost} \cup [pc : {"allow", "write"}, time : Nat] BY DEF ChatInv
  <2>2. NoPost.pc = "idle" /\ post[w].pc = "write" BY DEF NoPost, WritePost
  <2>3. QED BY <2>1, <2>2
<1>3. D \in SUBSET (1..nextId) /\ nextId = (nextId + 1) - 1 BY <1>1
<1>4. D \in SUBSET Nat /\ IsFiniteSet(D)
  <2>1. D \in SUBSET (1..(nextId + 1) - 1) /\ nextId + 1 \in Nat \ {0} BY <1>1, <1>3
  <2> HIDE DEF D
  <2>2. QED BY <2>1, IdsFinite
<1>5. all \in [D -> Nat] BY <1>1, <1>2
<1>6. left \subseteq D BY DEF Retained
<1>7. \A i \in Ids : i \in D /\ all[i] = rows[i]
  <2>1. \A i \in Ids : i # nextId BY <1>1
  <2>2. QED BY <2>1
<1>8. /\ rows' = [i \in left |-> all[i]] /\ nextId' = nextId + 1
      /\ post' = [post EXCEPT ![w] = NoPost] /\ UNCHANGED <<chatClock, allowed, panel>>
  BY DEF WritePost
<1> HIDE DEF time, D, all
<1>9. ASSUME NEW i \in Ids, NEW j \in Ids, i \notin left, j \in left PROVE Newer(rows, j, i)
  <2>1. i \in D /\ j \in D /\ all[i] = rows[i] /\ all[j] = rows[j] BY <1>7
  <2>2. Newer(all, j, i) BY <1>2, <1>4, <1>5, <1>9, <2>1, RetainedNewest
  <2>3. QED BY <2>1, <2>2 DEF Newer
<1> HIDE DEF left
<1>10. ChatInv'
  <2>1. post' \in [Writers -> {NoPost} \cup [pc : {"allow", "write"}, time : Nat]]
    BY <1>8 DEF ChatInv
  <2>2. left \in SUBSET (Ids \cup {nextId}) BY <1>6 DEF D
  <2>3. rows' \in [left -> Nat] BY <1>5, <1>6, <1>8
  <2>4. left \subseteq 1..(nextId + 1) - 1 BY <1>3, <1>6
  <2>5. chatClock' \in Nat /\ panel' = panel BY <1>8 DEF ChatInv
  <2>6. nextId + 1 \in {nextId, nextId + 1} OBVIOUS
  <2>7. QED BY <1>8, <2>1, <2>2, <2>3, <2>4, <2>5, <2>6, RowsChange
<1>11. QED BY <1>8, <1>9, <1>10

LEMMA ChatOtherSteps ==
    ASSUME ChatInv,
           \/ \E w \in Writers : BeginPost(w) \/ Allow(w)
           \/ \E i \in 1..ChatPostsMax : DeleteMessage(i)
           \/ ChatTick
           \/ UNCHANGED chatVars
    PROVE  ChatInv' /\ nextId' = nextId
<1>0. /\ nextId \in Nat \ {0} /\ Ids \subseteq 1..nextId - 1 /\ rows \in [Ids -> Nat]
      /\ chatClock \in Nat
      /\ post \in [Writers -> {NoPost} \cup [pc : {"allow", "write"}, time : Nat]]
  BY DEF ChatInv, Ids
<1>1. ASSUME NEW w \in Writers, BeginPost(w) PROVE ChatInv' /\ nextId' = nextId
  <2>1. post' \in [Writers -> {NoPost} \cup [pc : {"allow", "write"}, time : Nat]]
    BY <1>0, <1>1 DEF BeginPost
  <2>2. UNCHANGED <<chatClock, rows, nextId, panel>> BY <1>1 DEF BeginPost
  <2>3. QED BY <2>1, <2>2 DEF ChatInv, Ids
<1>2. ASSUME NEW w \in Writers, Allow(w) PROVE ChatInv' /\ nextId' = nextId
  <2>1. post[w].pc = "allow" /\ NoPost.pc = "idle" BY <1>2 DEF Allow, NoPost
  <2>2. post[w] \in [pc : {"allow", "write"}, time : Nat] BY <1>0, <2>1
  <2>3. \/ post' = [post EXCEPT ![w].pc = "write"]
        \/ post' = [post EXCEPT ![w] = NoPost]
    BY <1>2 DEF Allow
  <2>4. post' \in [Writers -> {NoPost} \cup [pc : {"allow", "write"}, time : Nat]]
    <3>1. CASE post' = [post EXCEPT ![w] = NoPost] BY <1>0, <3>1
    <3>2. CASE post' = [post EXCEPT ![w].pc = "write"]
      <4>1. [post[w] EXCEPT !.pc = "write"] \in [pc : {"allow", "write"}, time : Nat] BY <2>2
      <4>2. post' = [post EXCEPT ![w] = [post[w] EXCEPT !.pc = "write"]] BY <3>2
      <4>3. QED BY <1>0, <4>1, <4>2
    <3>3. QED BY <2>3, <3>1, <3>2
  <2>5. UNCHANGED <<chatClock, rows, nextId, panel>> BY <1>2 DEF Allow
  <2>6. QED BY <2>4, <2>5 DEF ChatInv, Ids
<1>3. ASSUME NEW i \in 1..ChatPostsMax, DeleteMessage(i) PROVE ChatInv' /\ nextId' = nextId
  <2>1. /\ rows' = [j \in Ids \ {i} |-> rows[j]]
        /\ UNCHANGED <<chatClock, nextId, post, panel>>
    BY <1>3 DEF DeleteMessage
  <2>2. Ids \ {i} \in SUBSET (Ids \cup {nextId}) /\ nextId \in {nextId, nextId + 1} OBVIOUS
  <2>3. rows' \in [Ids \ {i} -> Nat] BY <1>0, <2>1
  <2>4. Ids \ {i} \subseteq 1..nextId - 1 BY <1>0
  <2>5. QED BY <1>0, <2>1, <2>2, <2>3, <2>4, RowsChange
<1>4. ASSUME ChatTick PROVE ChatInv' /\ nextId' = nextId
  <2>1. chatClock' \in Nat /\ UNCHANGED <<rows, nextId, post, panel>> BY <1>0, <1>4 DEF ChatTick
  <2>2. QED BY <2>1 DEF ChatInv, Ids
<1>5. ASSUME UNCHANGED chatVars PROVE ChatInv' /\ nextId' = nextId
  BY <1>5 DEF ChatInv, Ids, chatVars
<1>6. QED BY <1>1, <1>2, <1>3, <1>4, <1>5

\* What a step may remove.
OldestOnly == \A i, j \in Ids :
    nextId' > nextId /\ i \notin DOMAIN rows' /\ j \in DOMAIN rows' => Newer(rows, j, i)

LEMMA ChatStep == ASSUME ChatInv, [ChatNext]_chatVars PROVE ChatInv' /\ OldestOnly
<1>1. ASSUME NEW w \in Writers, WritePost(w) PROVE ChatInv' /\ OldestOnly
  BY <1>1, ChatWriteStep DEF OldestOnly
<1>2. ASSUME nextId' = nextId PROVE OldestOnly
  <2>1. nextId \in Nat BY DEF ChatInv
  <2>2. ~(nextId' > nextId) BY <1>2, <2>1
  <2>3. QED BY <2>2 DEF OldestOnly
<1>3. ASSUME NEW p \in Panels, OpenPanel(p) \/ Poll(p) \/ Scroll(p) PROVE ChatInv' /\ OldestOnly
  <2>1. ChatInv' BY <1>3, ChatOpenStep, ChatPollStep, ChatScrollStep
  <2>2. nextId' = nextId BY <1>3 DEF OpenPanel, Poll, Scroll
  <2>3. QED BY <1>2, <2>1, <2>2
<1>4. ASSUME \/ \E w \in Writers : BeginPost(w) \/ Allow(w)
             \/ \E i \in 1..ChatPostsMax : DeleteMessage(i)
             \/ ChatTick
             \/ UNCHANGED chatVars
      PROVE  ChatInv' /\ OldestOnly
  <2>1. ChatInv' /\ nextId' = nextId BY <1>4, ChatOtherSteps
  <2>2. QED BY <1>2, <2>1
<1>5. QED BY <1>1, <1>3, <1>4 DEF ChatNext

LEMMA ChatInvGives == ChatInv => NoGap
<1> SUFFICES ASSUME ChatInv, NEW p \in Panels, ~panel[p].again
             PROVE  /\ Ascending(panel[p].shown)
                    /\ \A i \in Ids : (\E a, b \in ToSet(panel[p].shown) : a < i /\ i < b) =>
                          i \in ToSet(panel[p].shown)
  BY DEF NoGap, Ascending
<1>1. PanelOK(panel[p], Ids, nextId) BY DEF ChatInv
<1>2. /\ panel[p].shown \in Seq(1..nextId - 1) /\ Ascending(panel[p].shown)
      /\ Gapless(ToSet(panel[p].shown), Ids)
  BY <1>1 DEF PanelOK
<1>3. nextId \in Nat /\ \A i \in Ids : i \in Int BY DEF ChatInv, Ids
<1>4. \A a \in ToSet(panel[p].shown) : a \in Int BY <1>2, <1>3 DEF ToSet
<1>5. QED BY <1>2, <1>3, <1>4 DEF Gapless

(* A panel whose polls have found messages shows each one once, in order,   *)
(* and none left out, and retention removes only what is older than all it  *)
(* leaves (chat.py: post_message, fetch_messages; the panel's templates).   *)
THEOREM ChatIsSound == ChatSpec => ChatHolds
<1>1. ChatSpec => []ChatInv
  <2>1. ChatInv /\ [ChatNext]_chatVars => ChatInv' BY ChatStep
  <2>2. QED BY <2>1, ChatStart, PTL DEF ChatSpec
<1>2. ChatInv /\ [ChatNext]_chatVars => [OldestOnly]_chatVars BY ChatStep
<1>3. ChatSpec => [][OldestOnly]_chatVars
  BY <1>1, <1>2, PTL DEF ChatSpec
<1>4. ChatSpec => []NoGap BY <1>1, ChatInvGives, PTL
<1>5. QED BY <1>3, <1>4 DEF ChatHolds, OldestGo, OldestOnly

=============================================================================
