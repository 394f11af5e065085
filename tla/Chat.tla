-------------------------------- MODULE Chat --------------------------------
(***************************************************************************)
(* The chat (core/services/chat.py), the limiter of its posts              *)
(* (RollingLimiter of utils/concurrency.py) and the panels that show it    *)
(* (blueprints/shared/chat.py and its templates): a panel is opened with   *)
(* the newest page, asks for older pages as it is scrolled, and polls for  *)
(* what came after its last message.  A post takes its time first, is let  *)
(* through next and is written last, so others come in between.            *)
(***************************************************************************)
EXTENDS Subsequences, FiniteSets

CONSTANTS
    Writers,                  \* the requests of one user, each in its thread
    Panels,
    ChatRateMax, ChatWindow,  \* posts of a user in the window
    ChatKept,                 \* CHAT_MAX_STORED
    ChatRetention,            \* CHAT_RETENTION_SEC
    ChatPage,                 \* CHAT_PAGE_SIZE
    ChatNewerPage,            \* the most messages a poll returns
    ChatClockMax, ChatPostsMax  \* bounds

VARIABLES
    chatClock,
    rows,       \* the table: time of each message by its id
    nextId,
    allowed,    \* the limiter: times of the user's posts
    post,       \* the post each request is in
    panel       \* each panel: its after parameter, the ids it shows, and (history)
                \* whether a poll without an answer has made it begin again

chatVars == <<chatClock, rows, nextId, allowed, post, panel>>

ASSUME ChatAssumption ==
    /\ {ChatRateMax, ChatWindow, ChatKept, ChatPage, ChatNewerPage} \subseteq Nat \ {0}
    /\ {ChatRetention, ChatClockMax, ChatPostsMax} \subseteq Nat

NoPost      == [pc |-> "idle"]
ClosedPanel == [open |-> FALSE, after |-> 0, shown |-> << >>, again |-> FALSE]

ChatInit ==
    /\ chatClock = 0 /\ rows = << >> /\ nextId = 1
    /\ allowed = << >>
    /\ post = [w \in Writers |-> NoPost]
    /\ panel = [p \in Panels |-> ClosedPanel]

Ids     == DOMAIN rows
Sorted(S) == [k \in 1..Cardinality(S) |-> Nth(S, k)]     \* ORDER BY id
First(s, n) == SubSeq(s, 1, IF Len(s) < n THEN Len(s) ELSE n)
Lasts(s, n) == SubSeq(s, IF Len(s) < n THEN 1 ELSE Len(s) - n + 1, Len(s))

-----------------------------------------------------------------------------
BeginPost(w) ==
    /\ post[w] = NoPost /\ nextId <= ChatPostsMax
    /\ post' = [post EXCEPT ![w] = [pc |-> "allow", time |-> chatClock]]
    /\ UNCHANGED <<chatClock, rows, nextId, allowed, panel>>

(* The old ones at the head are forgotten; times need not be in order.      *)
Alive(times, now) ==
    LET young == {n \in 1..Len(times) : now - times[n] <= ChatWindow} IN
    IF young = {} THEN << >> ELSE SubSeq(times, Min(young), Len(times))

(* RollingLimiter.allow()                                                   *)
Allow(w) ==
    /\ post[w].pc = "allow"
    /\ LET times == Alive(allowed, post[w].time) IN
       IF Len(times) < ChatRateMax
       THEN allowed' = Append(times, post[w].time) /\ post' = [post EXCEPT ![w].pc = "write"]
       ELSE allowed' = times /\ post' = [post EXCEPT ![w] = NoPost]
    /\ UNCHANGED <<chatClock, rows, nextId, panel>>

(* By time, and by id at the same time.                                     *)
Newer(t, i, j) == t[i] > t[j] \/ (t[i] = t[j] /\ i > j)

(* Mutant of Retained: the cap keeps the oldest.                            *)
RetainedOldest(t, now) ==
    {i \in DOMAIN t : t[i] >= now - ChatRetention
                      /\ Cardinality({j \in DOMAIN t : Newer(t, i, j)}) < ChatKept}

(* What the two deletions of post_message() leave.                          *)
Retained(t, now) ==
    LET young == {i \in DOMAIN t : t[i] >= now - ChatRetention} IN
    {i \in young : Cardinality({j \in young : Newer(t, j, i)}) < ChatKept}

WritePost(w) ==
    /\ post[w].pc = "write"
    /\ LET all == [i \in Ids \cup {nextId} |-> IF i = nextId THEN post[w].time ELSE rows[i]]
           left == Retained(all, post[w].time)
       IN rows' = [i \in left |-> all[i]]
    /\ nextId' = nextId + 1
    /\ post' = [post EXCEPT ![w] = NoPost]
    /\ UNCHANGED <<chatClock, allowed, panel>>

DeleteMessage(i) ==
    /\ i \in Ids
    /\ rows' = [j \in Ids \ {i} |-> rows[j]]
    /\ UNCHANGED <<chatClock, nextId, allowed, post, panel>>

-----------------------------------------------------------------------------
LastOr0(s) == IF s = << >> THEN 0 ELSE Last(s)

OpenPanel(p) ==
    /\ ~panel[p].open
    /\ LET page == Lasts(Sorted(Ids), ChatPage) IN
       panel' = [panel EXCEPT ![p] =
                      [open |-> TRUE, after |-> LastOr0(page), shown |-> page, again |-> FALSE]]
    /\ UNCHANGED <<chatClock, rows, nextId, allowed, post>>

NewerPage(after) == First(Sorted({i \in Ids : i > after}), ChatNewerPage)

(* A poll.  Its answer polls next from its last message; when it has none,  *)
(* the template has no last_id either, and begins again from 0.             *)
Poll(p) ==
    /\ panel[p].open /\ Len(panel[p].shown) < ChatPostsMax
    /\ LET page == NewerPage(panel[p].after) IN
       panel' = [panel EXCEPT ![p] =
                   [open |-> TRUE, after |-> LastOr0(page), shown |-> panel[p].shown \o page,
                    again |-> panel[p].again \/ (page = << >> /\ panel[p].after # 0)]]
    /\ UNCHANGED <<chatClock, rows, nextId, allowed, post>>

(* Scrolling up: the page before the first message shown, if it has one.    *)
Scroll(p) ==
    /\ panel[p].open /\ panel[p].shown # << >>
    /\ LET older == {i \in Ids : i < Head(panel[p].shown)} IN
       /\ older # {}
       /\ panel' = [panel EXCEPT ![p].shown = Lasts(Sorted(older), ChatPage) \o panel[p].shown]
    /\ UNCHANGED <<chatClock, rows, nextId, allowed, post>>

ChatTick ==
    /\ chatClock < ChatClockMax /\ chatClock' = chatClock + 1
    /\ UNCHANGED <<rows, nextId, allowed, post, panel>>

ChatNext ==
    \/ \E w \in Writers : BeginPost(w) \/ Allow(w) \/ WritePost(w)
    \/ \E i \in 1..ChatPostsMax : DeleteMessage(i)
    \/ \E p \in Panels : OpenPanel(p) \/ Poll(p) \/ Scroll(p)
    \/ ChatTick

ChatSpec == ChatInit /\ [][ChatNext]_chatVars

-----------------------------------------------------------------------------
(* A panel whose polls have found messages shows each one once, in order,   *)
(* and without a gap: a stored message between two that it shows is shown.  *)
(* Polls that return the oldest of the newer messages first, and pages      *)
(* going up, leave none out, however many were posted in between.  (A poll  *)
(* that finds nothing makes the next one begin again from 0, and then old   *)
(* messages are shown again, below the newest.)                             *)
NoGap ==
    \A p \in Panels : LET shown == panel[p].shown IN
        ~panel[p].again =>
            /\ \A k, l \in DOMAIN shown : k < l => shown[k] < shown[l]
            /\ \A i \in Ids : (\E a, b \in ToSet(shown) : a < i /\ i < b) => i \in ToSet(shown)

(* Retention never takes the newer message and leaves an older one: what a  *)
(* post removes is older than everything that stays, the posts that took    *)
(* their time before others were written included.                          *)
OldestGo ==
    [][\A i, j \in Ids : nextId' > nextId /\ i \notin DOMAIN rows' /\ j \in DOMAIN rows' =>
          Newer(rows, j, i)]_chatVars

(* What the chat promises: both hold.                                       *)
ChatHolds == []NoGap /\ OldestGo
=============================================================================
