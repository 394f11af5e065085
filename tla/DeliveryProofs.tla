--------------------------- MODULE DeliveryProofs ---------------------------
(***************************************************************************)
(* What passes between this server and others: listens for the services of *)
(* a user, the segments of a stream, the form it is sent in, the feeds of  *)
(* podcast channels, and what mpv is told to play. The components share no *)
(* state; each has its invariant and its theorem.                          *)
(***************************************************************************)
EXTENDS Scrobbling, HLS, StreamChoice, PodcastChannels, Jukebox, SubsequencesProofs

-----------------------------------------------------------------------------
(***************************************************************************)
(* The queue of listens. A row is stored once, owned by one delivery at a  *)
(* time, and leaves the table only when its service answered or it         *)
(* expired. The invariant gives the rows of a job, in the order of their   *)
(* ids, split between those done with, the one being sent and those to     *)
(* come; Kept and its lemmas say what a selection of rows contains.        *)
(***************************************************************************)

(* No listen is twice in a list of rows.                                    *)
Distinct(s) == \A i, j \in DOMAIN s : i # j => s[i].nr # s[j].nr

(* Rows of listens 1..p, in a queue or in a job.                            *)
RowsOK(s, p) ==
    /\ s \in Seq(Listen) /\ Distinct(s)
    /\ \A i \in DOMAIN s : s[i].id = s[i].nr /\ s[i].nr \in 1..p

(* A share of a job, when c connections were saved and those in r rejected. *)
ShareOK(s, p, c, r) ==
    /\ s \in Share /\ RowsOK(s.listens, p)
    /\ s.credentials \in (1..c) \ r
    /\ \A k \in DOMAIN s.listens : s.listens[k].account = s.account

Apart(s, t) ==
    /\ s.account # t.account /\ s.credentials # t.credentials
    /\ \A k \in DOMAIN s.listens, m \in DOMAIN t.listens : s.listens[k].nr # t.listens[m].nr

TodoOK(todo, p, c, r) ==
    /\ todo \in Seq(Share)
    /\ \A i \in DOMAIN todo : ShareOK(todo[i], p, c, r)
    /\ \A i, j \in DOMAIN todo : i # j => Apart(todo[i], todo[j])

(* A listen that was taken by its service is known to be doubtful.          *)
Clean(n) == sent[n] > 0 => n \in doubtful

(* Place k of share i is in the batch that was sent last.                   *)
InBatch(i, k) == i = 1 /\ k <= BatchSize

WorkerOK ==
    /\ TodoOK(worker.todo, played, saves, refused)
    /\ worker.pc # "idle" => worker.todo # << >>
    /\ worker.pc # "idle" =>
          \A i \in DOMAIN worker.todo : \A k \in DOMAIN worker.todo[i].listens :
              \/ Clean(worker.todo[i].listens[k].nr)
              \/ worker.pc = "answered" /\ worker.status = "ok" /\ InBatch(i, k)
    /\ worker.pc = "answered" /\ worker.status = "ok" => \A n \in Numbers(Batch) : sent[n] > 0

QueueOK ==
    /\ RowsOK(queue, played)
    /\ \A i \in DOMAIN queue : Clean(queue[i].nr) \/ queue[i].nr \in Unrecorded

CredentialsOK ==
    /\ \A a \in Accounts : connection[a].credentials \in 0..saves
    /\ \A a, b \in Accounts :
          a # b /\ Connected(a) => connection[a].credentials # connection[b].credentials
    /\ \A a \in Accounts :
          Connected(a) /\ ~connection[a].broken => connection[a].credentials \notin refused
    /\ \A i \in DOMAIN worker.todo : \A a \in Accounts :
          worker.todo[i].credentials = connection[a].credentials => worker.todo[i].account = a

FutureUnsent == \A n \in 1..budget.plays : n > played => sent[n] = 0

OutboxIInv ==
    /\ TypeOK /\ WorkerOK /\ QueueOK /\ CredentialsOK /\ FutureUnsent
    /\ NoListenLost /\ SentOnce

-----------------------------------------------------------------------------
(* Lists of rows.                                                           *)
LEMMA UptoOf ==
    ASSUME NEW T, NEW s \in Seq(T), NEW n \in Nat
    PROVE  /\ Upto(n, s) \in Seq(T)
           /\ Len(Upto(n, s)) = IF Len(s) < n THEN Len(s) ELSE n
           /\ \A k \in DOMAIN Upto(n, s) : k \in DOMAIN s /\ k <= n /\ Upto(n, s)[k] = s[k]
<1> DEFINE m == IF Len(s) < n THEN Len(s) ELSE n
<1>1. m \in Nat /\ m <= Len(s) /\ m <= n OBVIOUS
<1>2. Upto(n, s) = SubSeq(s, 1, m) BY DEF Upto
<1> HIDE DEF m
<1>3. \A i \in 1..m : s[i] \in T BY <1>1
<1>4. /\ Upto(n, s) \in Seq(T) /\ Len(Upto(n, s)) = m
      /\ \A i \in 1..m : Upto(n, s)[i] = s[i]
  BY <1>1, <1>2, <1>3, SubSeqProperties
<1>5. QED BY <1>1, <1>4 DEF m

LEMMA KeptDistinct ==
    ASSUME NEW T, NEW s \in Seq(T), NEW I, Distinct(s)
    PROVE  Distinct(Kept(s, I))
<1> DEFINE t == Kept(s, I)
<1>1. PICK h \in [DOMAIN t -> I \cap DOMAIN s] :
         /\ \A k \in DOMAIN t : t[k] = s[h[k]]
         /\ \A k, l \in DOMAIN t : k < l => h[k] < h[l]
  BY KeptOf
<1>2. t \in Seq(T) BY KeptOf
<1>3. DOMAIN t \subseteq Nat /\ DOMAIN s \subseteq Nat BY <1>2
<1> HIDE DEF t
<1>4. ASSUME NEW k \in DOMAIN t, NEW l \in DOMAIN t, k # l PROVE t[k].nr # t[l].nr
  <2>1. h[k] # h[l] BY <1>1, <1>3, <1>4
  <2>2. QED BY <1>1, <2>1 DEF Distinct
<1>5. QED BY <1>4 DEF Distinct, t

LEMMA KeptRows ==
    ASSUME NEW s, NEW p, RowsOK(s, p), NEW I
    PROVE  /\ RowsOK(Kept(s, I), p)
           /\ \A k \in DOMAIN Kept(s, I) : \E i \in I \cap DOMAIN s : Kept(s, I)[k] = s[i]
           /\ \A i \in I \cap DOMAIN s : \E k \in DOMAIN Kept(s, I) : Kept(s, I)[k] = s[i]
<1> USE DEF RowsOK
<1>1. Kept(s, I) \in Seq(Listen) BY KeptOf
<1>2. Distinct(Kept(s, I)) BY KeptDistinct
<1>3. PICK h \in [DOMAIN Kept(s, I) -> I \cap DOMAIN s] :
         /\ \A k \in DOMAIN Kept(s, I) : Kept(s, I)[k] = s[h[k]]
         /\ \A i \in I \cap DOMAIN s : \E k \in DOMAIN Kept(s, I) : h[k] = i
  BY KeptOf, SMTT(30)
<1>4. \A k \in DOMAIN Kept(s, I) : \E i \in I \cap DOMAIN s : Kept(s, I)[k] = s[i] BY <1>3
<1>5. \A i \in I \cap DOMAIN s : \E k \in DOMAIN Kept(s, I) : Kept(s, I)[k] = s[i] BY <1>3
<1>6. QED BY <1>1, <1>2, <1>4, <1>5, ZenonT(40)

LEMMA UptoRows ==
    ASSUME NEW s, NEW p, RowsOK(s, p), NEW n \in Nat
    PROVE  RowsOK(Upto(n, s), p)
<1> USE DEF RowsOK
<1>1. Upto(n, s) \in Seq(Listen) BY UptoOf
<1>2. \A k \in DOMAIN Upto(n, s) : k \in DOMAIN s /\ Upto(n, s)[k] = s[k] BY UptoOf
<1>3. QED BY <1>1, <1>2 DEF Distinct

(* The rows from place m on.                                                *)
LEMMA RestOf ==
    ASSUME NEW T, NEW s \in Seq(T), NEW m \in Nat
    PROVE  /\ SubSeq(s, m + 1, Len(s)) \in Seq(T)
           /\ \A k \in DOMAIN SubSeq(s, m + 1, Len(s)) :
                 m + k \in DOMAIN s /\ SubSeq(s, m + 1, Len(s))[k] = s[m + k]
           /\ \A i \in DOMAIN s : i > m =>
                 i - m \in DOMAIN SubSeq(s, m + 1, Len(s)) /\ SubSeq(s, m + 1, Len(s))[i - m] = s[i]
<1> DEFINE t == SubSeq(s, m + 1, Len(s))
<1>1. Len(s) \in Nat /\ DOMAIN s = 1..Len(s) OBVIOUS
<1>2. \A i \in m + 1 .. Len(s) : s[i] \in T OBVIOUS
<1> DEFINE d == Len(s) - m
<1>3. d \in Int /\ d = Len(s) - (m + 1) + 1 /\ (m + 1 <= Len(s) <=> d >= 1) BY <1>1
<1>4. /\ t \in Seq(T) /\ Len(t) = (IF d >= 1 THEN d ELSE 0)
      /\ \A i \in 1..d : t[i] = s[m + 1 + i - 1]
  BY <1>1, <1>2, <1>3, SubSeqProperties
<1> HIDE DEF t
<1>t. DOMAIN t = 1..d
  <2>1. DOMAIN t = 1..Len(t) BY <1>4, LenProperties
  <2>2. CASE d >= 1 BY <1>4, <2>1, <2>2
  <2>3. CASE ~(d >= 1)
    <3>1. Len(t) = 0 /\ 1..d = {} /\ 1..0 = {} BY <1>3, <1>4, <2>3
    <3>2. QED BY <2>1, <3>1
  <2>4. QED BY <2>2, <2>3
<1>5. ASSUME NEW k \in DOMAIN t PROVE m + k \in DOMAIN s /\ t[k] = s[m + k]
  <2>1. k \in 1..d BY <1>t
  <2>2. m + 1 + k - 1 = m + k /\ m + k \in 1..Len(s) BY <1>1, <2>1
  <2>3. QED BY <1>1, <1>4, <2>1, <2>2
<1>6. ASSUME NEW i \in DOMAIN s, i > m PROVE i - m \in DOMAIN t /\ t[i - m] = s[i]
  <2>1. i - m \in 1..d BY <1>1, <1>6
  <2>2. m + 1 + (i - m) - 1 = i BY <1>1
  <2>3. QED BY <1>4, <1>t, <2>1, <2>2
<1>7. QED BY <1>4, <1>5, <1>6 DEF t

LEMMA RestRows ==
    ASSUME NEW s, NEW p, RowsOK(s, p), NEW m \in Nat
    PROVE  RowsOK(SubSeq(s, m + 1, Len(s)), p)
<1> DEFINE t == SubSeq(s, m + 1, Len(s))
<1>1. t \in Seq(Listen) BY RestOf DEF RowsOK
<1>2. \A k \in DOMAIN t : m + k \in DOMAIN s /\ t[k] = s[m + k] BY RestOf DEF RowsOK
<1>3. DOMAIN t \subseteq Nat BY <1>1
<1> HIDE DEF t
<1>4. Distinct(t)
  <2>1. \A k, l \in DOMAIN t : k # l => m + k # m + l BY <1>3
  <2>2. QED BY <1>2, <2>1 DEF Distinct, RowsOK
<1>5. RowsOK(t, p) BY <1>1, <1>2, <1>4 DEF RowsOK
<1>6. QED BY <1>5 DEF t

(* Rows r put into the list s after place i.                                *)
PutIn(s, i, r) == SubSeq(s, 1, i) \o r \o SubSeq(s, i + 1, Len(s))

LEMMA RowsPutIn ==
    ASSUME NEW s, NEW p \in Nat, RowsOK(s, p), NEW i \in 0..Len(s), NEW q \in Nat, p <= q,
           NEW r \in Seq(Listen), Distinct(r),
           \A k \in DOMAIN r : r[k].id = r[k].nr /\ r[k].nr \in p + 1 .. q
    PROVE  /\ RowsOK(PutIn(s, i, r), q)
           /\ \A k \in DOMAIN PutIn(s, i, r) : \/ \E j \in DOMAIN s : PutIn(s, i, r)[k] = s[j]
                                              \/ \E j \in DOMAIN r : PutIn(s, i, r)[k] = r[j]
           /\ \A j \in DOMAIN s : \E k \in DOMAIN PutIn(s, i, r) : PutIn(s, i, r)[k] = s[j]
           /\ \A j \in DOMAIN r : \E k \in DOMAIN PutIn(s, i, r) : PutIn(s, i, r)[k] = r[j]
<1> DEFINE u == SubSeq(s, 1, i)
           v == SubSeq(s, i + 1, Len(s))
           w == u \o r
           t == PutIn(s, i, r)
           n == Len(r)
<1>0. s \in Seq(Listen) /\ Len(s) \in Nat /\ i \in Nat /\ i <= Len(s) /\ n \in Nat
      /\ DOMAIN s = 1..Len(s) /\ DOMAIN r = 1..n
  BY DEF RowsOK
<1>1. u \in Seq(Listen) /\ Len(u) = i /\ \A k \in 1..i : u[k] = s[k]
  <2>1. \A k \in 1..i : s[k] \in Listen BY <1>0
  <2>2. QED BY <1>0, <2>1, SubSeqProperties
<1>2. v \in Seq(Listen) /\ \A k \in DOMAIN v : i + k \in DOMAIN s /\ v[k] = s[i + k]
  BY <1>0, RestOf
<1>3. \A j \in DOMAIN s : j > i => j - i \in DOMAIN v /\ v[j - i] = s[j]
  BY <1>0, RestOf
<1> HIDE DEF u, v, n
<1>4. /\ w \in Seq(Listen) /\ Len(w) = i + n
      /\ \A k \in 1 .. i + n : w[k] = IF k <= i THEN u[k] ELSE r[k - i]
  <2>1. Len(r) = n BY DEF n
  <2>2. QED BY <1>0, <1>1, <2>1, ConcatProperties, ZenonT(40)
<1> HIDE DEF w
<1>5. /\ t \in Seq(Listen) /\ Len(t) = i + n + Len(v) /\ Len(v) \in Nat /\ DOMAIN v = 1..Len(v)
      /\ \A k \in 1 .. i + n + Len(v) : t[k] = IF k <= i + n THEN w[k] ELSE v[k - (i + n)]
  <2>0. t = w \o v BY DEF u, v, w, PutIn
  <2> DEFINE x == w \o v
  <2>1. /\ x \in Seq(Listen) /\ Len(x) = Len(w) + Len(v)
        /\ \A k \in 1 .. Len(w) + Len(v) : x[k] = IF k <= Len(w) THEN w[k] ELSE v[k - Len(w)]
    BY <1>2, <1>4, ConcatProperties
  <2>2. Len(v) \in Nat /\ DOMAIN v = 1..Len(v) BY <1>2, LenProperties
  <2>3. Len(w) = i + n /\ t = x BY <1>4, <2>0
  <2> HIDE DEF t, x
  <2>4. QED BY <2>1, <2>2, <2>3
<1> HIDE DEF t
<1>6. DOMAIN t = 1 .. i + n + Len(v) BY <1>5
<1>7. ASSUME NEW k \in DOMAIN t
      PROVE  \/ k <= i /\ k \in DOMAIN s /\ t[k] = s[k]
             \/ k > i /\ k <= i + n /\ k - i \in DOMAIN r /\ t[k] = r[k - i]
             \/ k > i + n /\ k - n \in DOMAIN s /\ k - n > i /\ t[k] = s[k - n]
  <2>1. k \in Nat /\ k >= 1 BY <1>0, <1>5, <1>6
  <2>2. CASE k <= i
    <3>1. t[k] = w[k] /\ w[k] = u[k] BY <1>0, <1>4, <1>5, <1>6, <2>1, <2>2
    <3>2. QED BY <1>0, <1>1, <2>1, <2>2, <3>1
  <2>3. CASE k > i /\ k <= i + n
    <3>1. t[k] = w[k] /\ w[k] = r[k - i] BY <1>0, <1>4, <1>5, <1>6, <2>1, <2>3
    <3>2. QED BY <1>0, <2>1, <2>3, <3>1
  <2>4. CASE k > i + n
    <3>1. t[k] = v[k - (i + n)] /\ k - (i + n) \in DOMAIN v BY <1>0, <1>5, <1>6, <2>1, <2>4
    <3>2. i + (k - (i + n)) = k - n BY <1>0, <2>1
    <3>3. QED BY <1>0, <1>2, <2>1, <2>4, <3>1, <3>2
  <2>5. QED BY <1>0, <2>1, <2>2, <2>3, <2>4
<1>8. ASSUME NEW j \in DOMAIN s PROVE \E k \in DOMAIN t : t[k] = s[j]
  <2>1. CASE j <= i
    <3>1. j \in DOMAIN t BY <1>0, <1>5, <1>6, <2>1
    <3>2. t[j] = s[j] BY <1>0, <1>7, <2>1, <3>1
    <3>3. QED BY <3>1, <3>2
  <2>2. CASE j > i
    <3>1. j - i \in 1..Len(v) BY <1>0, <1>3, <1>5, <2>2
    <3>2. j + n \in DOMAIN t /\ j + n > i + n /\ (j + n) - n = j BY <1>0, <1>5, <1>6, <2>2, <3>1
    <3>3. t[j + n] = s[j] BY <1>0, <1>7, <3>2
    <3>4. QED BY <3>2, <3>3
  <2>3. QED BY <1>0, <2>1, <2>2
<1>9. ASSUME NEW j \in DOMAIN r PROVE \E k \in DOMAIN t : t[k] = r[j]
  <2>1. i + j \in DOMAIN t /\ i + j > i /\ i + j <= i + n /\ (i + j) - i = j BY <1>0, <1>5, <1>6
  <2>2. t[i + j] = r[j] BY <1>0, <1>7, <2>1
  <2>3. QED BY <2>1, <2>2
<1>10. \A k \in DOMAIN t : (\E j \in DOMAIN s : t[k] = s[j]) \/ (\E j \in DOMAIN r : t[k] = r[j])
  BY <1>7
<1>11. \A k \in DOMAIN t : t[k].id = t[k].nr /\ t[k].nr \in 1..q BY <1>10 DEF RowsOK
<1>12. Distinct(t)
  <2> SUFFICES ASSUME NEW k \in DOMAIN t, NEW l \in DOMAIN t, k # l PROVE t[k].nr # t[l].nr
    BY DEF Distinct
  <2>0. k \in Nat /\ l \in Nat BY <1>0, <1>5, <1>6
  <2>1. \A x \in DOMAIN s, y \in DOMAIN r : s[x].nr # r[y].nr BY DEF RowsOK
  <2>2. \A x, y \in DOMAIN s : x # y => s[x].nr # s[y].nr BY DEF RowsOK, Distinct
  <2>3. \A x, y \in DOMAIN r : x # y => r[x].nr # r[y].nr BY DEF Distinct
  <2>4. ASSUME NEW m \in DOMAIN t
        PROVE  \/ \E y \in DOMAIN r : t[m] = r[y] /\ m > i /\ m <= i + n /\ y = m - i
               \/ \E x \in DOMAIN s : t[m] = s[x] /\ ((m <= i /\ x = m) \/ (m > i + n /\ x > i /\ x = m - n))
    <3>1. CASE m <= i /\ m \in DOMAIN s /\ t[m] = s[m] BY <3>1
    <3>2. CASE m > i /\ m <= i + n /\ m - i \in DOMAIN r /\ t[m] = r[m - i] BY <3>2
    <3>3. CASE m > i + n /\ m - n \in DOMAIN s /\ m - n > i /\ t[m] = s[m - n] BY <3>3
    <3>4. QED BY <1>7, <3>1, <3>2, <3>3
  <2>5. CASE \E y \in DOMAIN r : t[k] = r[y] /\ k > i /\ k <= i + n /\ y = k - i
    <3>1. PICK y \in DOMAIN r : t[k] = r[y] /\ y = k - i BY <2>5
    <3>2. ASSUME NEW z \in DOMAIN r, t[l] = r[z], z = l - i PROVE y # z BY <1>0, <2>0, <3>1, <3>2
    <3>3. QED BY <2>1, <2>3, <2>4, <3>1, <3>2
  <2>6. CASE \E x \in DOMAIN s : t[k] = s[x] /\ ((k <= i /\ x = k) \/ (k > i + n /\ x > i /\ x = k - n))
    <3>1. PICK x \in DOMAIN s : t[k] = s[x] /\ ((k <= i /\ x = k) \/ (k > i + n /\ x > i /\ x = k - n)) BY <2>6
    <3>2. ASSUME NEW z \in DOMAIN s, (l <= i /\ z = l) \/ (l > i + n /\ z > i /\ z = l - n) PROVE x # z
      BY <1>0, <2>0, <3>1, <3>2
    <3>3. QED BY <2>1, <2>2, <2>4, <3>1, <3>2
  <2>7. QED BY <2>4, <2>5, <2>6
<1>13. RowsOK(t, q) BY <1>5, <1>11, <1>12 DEF RowsOK
<1>14. QED BY <1>8, <1>9, <1>10, <1>13 DEF t

LEMMA SetToSeqOf ==
    ASSUME NEW S, IsFiniteSet(S)
    PROVE  SetToSeq(S) \in Seq(S)
<1> DEFINE n == Cardinality(S)
<1>1. n \in Nat /\ ExistsBijection(1..n, S) BY FS_CardinalityType
<1>2. PICK g : g \in Bijection(1..n, S) BY <1>1, Fun_ExistsBij
<1>3. g \in [1..n -> S] /\ \A a, b \in 1..n : g[a] = g[b] => a = b BY <1>2, Fun_BijectionProperties
<1>4. IsInjective(g) BY <1>3 DEF IsInjective
<1>5. SetToSeq(S) \in [1..n -> S] BY <1>3, <1>4 DEF SetToSeq
<1>6. QED BY <1>1, <1>5, SeqDef

LEMMA RowsStay ==
    ASSUME NEW s, NEW p \in Nat, NEW q \in Nat, p <= q, RowsOK(s, p)
    PROVE  RowsOK(s, q)
BY DEF RowsOK

LEMMA TodoStays ==
    ASSUME NEW todo, NEW p \in Nat, NEW q \in Nat, p <= q, NEW c \in Nat, NEW d \in Nat, c <= d,
           NEW r, TodoOK(todo, p, c, r)
    PROVE  TodoOK(todo, q, d, r)
BY RowsStay DEF TodoOK, ShareOK

LEMMA NoTodo ==
    ASSUME NEW p, NEW c, NEW r
    PROVE  TodoOK(<< >>, p, c, r)
BY DEF TodoOK

(* The shares of a job, made of rows of working connections.                *)
LEMMA PerConnectionOK ==
    ASSUME TypeOK, CredentialsOK, NEW due, RowsOK(due, played), due # << >>,
           \A i \in DOMAIN due : Working(due[i].account)
    PROVE  /\ TodoOK(PerConnection(due), played, saves, refused) /\ PerConnection(due) # << >>
           /\ \A i \in DOMAIN PerConnection(due) :
                /\ PerConnection(due)[i].credentials = connection[PerConnection(due)[i].account].credentials
                /\ Connected(PerConnection(due)[i].account)
                /\ \A k \in DOMAIN PerConnection(due)[i].listens :
                      \E j \in DOMAIN due : PerConnection(due)[i].listens[k] = due[j]
<1> DEFINE first == Kept(due, Firsts(due))
           todo  == PerConnection(due)
<1>0. due \in Seq(Listen) BY DEF RowsOK
<1>1. PICK h \in [DOMAIN first -> Firsts(due) \cap DOMAIN due] :
         /\ \A k \in DOMAIN first : first[k] = due[h[k]]
         /\ \A k, l \in DOMAIN first : k < l => h[k] < h[l]
         /\ \A i \in Firsts(due) \cap DOMAIN due : \E k \in DOMAIN first : h[k] = i
  BY ONLY <1>0, KeptOf
<1>2. first \in Seq(Listen) BY <1>0, KeptOf
<1>3. DOMAIN first = 1..Len(first) /\ Len(first) \in Nat BY <1>2
<1>4. todo = [k \in DOMAIN first |->
                [account |-> first[k].account, credentials |-> connection[first[k].account].credentials,
                 listens |-> RowsOf(due, first[k].account)]]
  BY DEF PerConnection
<1> HIDE DEF first, todo
<1>5. \A k \in DOMAIN first : first[k] \in Listen /\ first[k].account \in Accounts /\ Working(first[k].account)
  <2>1. ASSUME NEW k \in DOMAIN first PROVE first[k] \in Listen BY <1>2
  <2>2. \A k \in DOMAIN first : Working(first[k].account) BY <1>1
  <2>3. QED BY <2>1, <2>2 DEF Listen
<1>6. ASSUME NEW a
      PROVE  /\ RowsOK(RowsOf(due, a), played)
             /\ \A k \in DOMAIN RowsOf(due, a) : \E j \in DOMAIN due :
                   due[j].account = a /\ RowsOf(due, a)[k] = due[j]
  <2> DEFINE I == {i \in DOMAIN due : due[i].account = a}
  <2>a. RowsOf(due, a) = Kept(due, I) BY DEF RowsOf
  <2> HIDE DEF I
  <2>1. RowsOK(RowsOf(due, a), played) BY <2>a, KeptRows
  <2>2. \A k \in DOMAIN RowsOf(due, a) : \E j \in I \cap DOMAIN due : RowsOf(due, a)[k] = due[j]
    BY <2>a, KeptRows
  <2> USE DEF I
  <2>3. QED BY <2>1, <2>2
<1>7. ASSUME NEW k \in DOMAIN todo PROVE ShareOK(todo[k], played, saves, refused)
  <2>1. k \in DOMAIN first BY <1>4
  <2>2. PICK a \in Accounts : a = first[k].account /\ Working(a) BY <1>5, <2>1
  <2>3. todo[k] = [account |-> a, credentials |-> connection[a].credentials, listens |-> RowsOf(due, a)]
    BY <1>4, <2>1, <2>2
  <2>4. connection[a].credentials \in (1..saves) \ refused
    BY <2>2 DEF Working, Connected, CredentialsOK, TypeOK
  <2>5. connection[a].credentials \in Nat BY DEF TypeOK, Connection
  <2>6. RowsOK(RowsOf(due, a), played) BY <1>6
  <2>7. RowsOf(due, a) \in Seq(Listen) BY <2>6 DEF RowsOK
  <2>8. todo[k] \in Share BY <2>3, <2>5, <2>7 DEF Share
  <2>9. \A m \in DOMAIN RowsOf(due, a) : RowsOf(due, a)[m].account = a BY <1>6
  <2>10. QED BY <2>3, <2>4, <2>6, <2>8, <2>9 DEF ShareOK
<1>8. ASSUME NEW k \in DOMAIN first, NEW l \in DOMAIN first, k # l
      PROVE  first[k].account # first[l].account
  <2>1. \A i, j \in DOMAIN first : i < j => first[i].account # first[j].account
    <3> SUFFICES ASSUME NEW i \in DOMAIN first, NEW j \in DOMAIN first, i < j
                 PROVE  first[i].account # first[j].account
      OBVIOUS
    <3>1. h[i] < h[j] /\ h[i] \in DOMAIN due /\ h[j] \in Firsts(due) BY <1>1
    <3>2. h[i] \in Nat /\ h[j] \in Nat /\ h[i] >= 1 BY <1>1, <3>1 DEF RowsOK
    <3>3. h[i] \in 1..h[j] - 1 BY <3>1, <3>2
    <3>4. due[h[i]].account # due[h[j]].account BY <3>1, <3>3 DEF Firsts
    <3>5. QED BY <1>1, <3>4
  <2>2. k < l \/ l < k BY <1>3, <1>8
  <2>3. QED BY <2>1, <2>2
<1>9. ASSUME NEW k \in DOMAIN todo, NEW l \in DOMAIN todo, k # l PROVE Apart(todo[k], todo[l])
  <2>1. k \in DOMAIN first /\ l \in DOMAIN first BY <1>4
  <2>2. PICK a \in Accounts : a = first[k].account /\ Working(a) BY <1>5, <2>1
  <2>3. PICK b \in Accounts : b = first[l].account BY <1>5, <2>1
  <2>4. a # b BY <1>8, <1>9, <2>1, <2>2, <2>3
  <2>5. todo[k] = [account |-> a, credentials |-> connection[a].credentials, listens |-> RowsOf(due, a)]
    BY <1>4, <2>1, <2>2
  <2>6. todo[l] = [account |-> b, credentials |-> connection[b].credentials, listens |-> RowsOf(due, b)]
    BY <1>4, <2>1, <2>3
  <2>7. connection[a].credentials # connection[b].credentials
    BY <2>2, <2>4 DEF CredentialsOK, Working
  <2>8. ASSUME NEW i \in DOMAIN RowsOf(due, a), NEW j \in DOMAIN RowsOf(due, b)
        PROVE  RowsOf(due, a)[i].nr # RowsOf(due, b)[j].nr
    <3>1. PICK x \in DOMAIN due : due[x].account = a /\ RowsOf(due, a)[i] = due[x] BY <1>6
    <3>2. PICK y \in DOMAIN due : due[y].account = b /\ RowsOf(due, b)[j] = due[y] BY <1>6
    <3>3. x # y BY <2>4, <3>1, <3>2
    <3>4. due[x].nr # due[y].nr BY <3>3 DEF RowsOK, Distinct
    <3>5. QED BY <3>1, <3>2, <3>4
  <2>9. QED BY <2>4, <2>5, <2>6, <2>7, <2>8 DEF Apart
<1>10. todo \in Seq(Share)
  <2>1. \A k \in DOMAIN todo : todo[k] \in Share BY <1>7 DEF ShareOK
  <2>2. todo \in [1..Len(first) -> Share] BY <1>3, <1>4, <2>1
  <2>3. QED BY <1>3, <2>2, SeqDef
<1>11. todo # << >>
  <2>1. 1 \in DOMAIN due /\ 1 \in Firsts(due) BY DEF RowsOK, Firsts
  <2>2. PICK k \in DOMAIN first : h[k] = 1 BY <1>1, <2>1
  <2>3. k \in DOMAIN todo BY <1>4, <2>2
  <2>4. QED BY <2>3
<1>12. ASSUME NEW i \in DOMAIN todo
       PROVE  /\ todo[i].credentials = connection[todo[i].account].credentials
              /\ Connected(todo[i].account)
              /\ \A k \in DOMAIN todo[i].listens : \E j \in DOMAIN due : todo[i].listens[k] = due[j]
  <2>1. i \in DOMAIN first BY <1>4
  <2>2. PICK a \in Accounts : a = first[i].account /\ Working(a) BY <1>5, <2>1
  <2>3. todo[i] = [account |-> a, credentials |-> connection[a].credentials, listens |-> RowsOf(due, a)]
    BY <1>4, <2>1, <2>2
  <2>4. QED BY <1>6, <2>2, <2>3 DEF Working
<1>13. TodoOK(todo, played, saves, refused) BY <1>7, <1>9, <1>10 DEF TodoOK
<1>14. QED BY <1>11, <1>12, <1>13 DEF todo

-----------------------------------------------------------------------------
LEMMA OutboxBounds ==
    ASSUME TypeOK
    PROVE  /\ played \in Nat /\ saves \in Nat /\ toggles \in Nat /\ crashes \in Nat /\ jobs \in Nat
           /\ budget.plays \in Nat /\ budget.saves \in Nat /\ budget.toggles \in Nat
           /\ budget.crashes \in Nat /\ played <= budget.plays /\ MaxJobs \in Nat \ {0}
BY BoundsAssumption DEF TypeOK

LEMMA OutboxStarts == Init => OutboxIInv
<1> SUFFICES ASSUME Init PROVE OutboxIInv OBVIOUS
<1> USE DEF Init
<1>1. Idle \in Worker BY DEF Idle, Worker, Statuses
<1>2. budget.plays \in Nat /\ budget.saves \in Nat /\ budget.toggles \in Nat /\ budget.crashes \in Nat
  BY BoundsAssumption
<1>3. NoRow \in Connection BY DEF NoRow, Connection
<1>4. TypeOK
  <2>1. connection \in [Accounts -> Connection] BY <1>3
  <2>2. queue \in Seq(Listen) OBVIOUS
  <2>3. sent \in [1..budget.plays -> 0..2] OBVIOUS
  <2>4. jobs \in 0..MaxJobs BY BoundsAssumption
  <2>5. QED BY <1>1, <1>2, <2>1, <2>2, <2>3, <2>4 DEF TypeOK
<1>5. WorkerOK BY NoTodo DEF WorkerOK, Idle
<1>6. QueueOK BY DEF QueueOK, RowsOK, Distinct
<1>7. CredentialsOK BY DEF CredentialsOK, Connected, NoRow, Idle
<1>8. FutureUnsent BY DEF FutureUnsent
<1>9. NoListenLost /\ SentOnce BY DEF NoListenLost, SentOnce
<1>10. QED BY <1>4, <1>5, <1>6, <1>7, <1>8, <1>9 DEF OutboxIInv

LEMMA SubmitType ==
    ASSUME TypeOK, Submit
    PROVE  jobs' \in 0..MaxJobs
BY OutboxBounds DEF TypeOK, Submit

LEMMA SaveKeeps ==
    ASSUME OutboxIInv, NEW a \in Accounts, SaveConnection(a)
    PROVE  OutboxIInv'
<1> USE DEF OutboxIInv, SaveConnection
<1>0. /\ saves \in Nat /\ saves' = saves + 1 /\ played \in Nat
      /\ UNCHANGED <<queue, worker, budget, played, toggles, crashes, sent, gone, doubtful, refused>>
  BY OutboxBounds DEF ghosts
<1> DEFINE row == [credentials |-> saves + 1, broken |-> FALSE, enabled |-> TRUE]
<1>1. row \in Connection BY <1>0 DEF Connection
<1>2. connection' = [connection EXCEPT ![a] = row] OBVIOUS
<1> HIDE DEF SaveConnection
<1>3. connection'[a] = row /\ \A b \in Accounts \ {a} : connection'[b] = connection[b]
  BY <1>2 DEF TypeOK
<1>4. TypeOK'
  <2>1. connection' \in [Accounts -> Connection] BY <1>1, <1>2 DEF TypeOK
  <2>2. jobs' \in 0..MaxJobs BY SubmitType DEF SaveConnection
  <2>3. saves' \in 0..budget.saves /\ refused \subseteq 1..saves'
    BY <1>0, OutboxBounds DEF TypeOK, SaveConnection
  <2>4. QED BY <1>0, <2>1, <2>2, <2>3 DEF TypeOK
<1>5. WorkerOK'
  <2>1. TodoOK(worker.todo, played, saves', refused) BY <1>0, TodoStays DEF WorkerOK
  <2>2. QED BY <1>0, <2>1 DEF WorkerOK, Clean, Batch, Current, Numbers
<1>6. QueueOK' BY <1>0 DEF QueueOK, Clean, Unrecorded, Batch, Current, Numbers
<1>7. CredentialsOK'
  <2>1. \A i \in DOMAIN worker.todo : worker.todo[i].credentials \in 1..saves
    BY DEF WorkerOK, TodoOK, ShareOK
  <2>2. refused \subseteq 1..saves BY DEF TypeOK
  <2>3. row.credentials = saves + 1 /\ ~row.broken OBVIOUS
  <2>4. \A b \in Accounts : connection[b].credentials \in 0..saves BY DEF CredentialsOK
  <2>5. \A b \in Accounts : connection'[b].credentials \in 0..saves'
    BY <1>0, <1>3, <2>3, <2>4
  <2>6. ASSUME NEW b \in Accounts, NEW d \in Accounts, b # d, Connected(b)'
        PROVE  connection'[b].credentials # connection'[d].credentials
    BY <1>0, <1>3, <2>3, <2>4, <2>6 DEF CredentialsOK, Connected
  <2>7. ASSUME NEW b \in Accounts, Connected(b)', ~connection'[b].broken
        PROVE  connection'[b].credentials \notin refused
    BY <1>0, <1>3, <2>2, <2>3, <2>7 DEF CredentialsOK, Connected
  <2>8. ASSUME NEW i \in DOMAIN worker.todo, NEW b \in Accounts,
               worker.todo[i].credentials = connection'[b].credentials
        PROVE  worker.todo[i].account = b
    BY <1>0, <1>3, <2>1, <2>3, <2>8 DEF CredentialsOK
  <2>9. QED BY <1>0, <2>5, <2>6, <2>7, <2>8 DEF CredentialsOK
<1>8. FutureUnsent' /\ NoListenLost' /\ SentOnce'
  BY <1>0 DEF FutureUnsent, NoListenLost, SentOnce, Queued, Numbers
<1>9. QED BY <1>4, <1>5, <1>6, <1>7, <1>8

LEMMA SwitchKeeps ==
    ASSUME OutboxIInv, NEW a \in Accounts, NEW enabled \in BOOLEAN, SetEnabled(a, enabled)
    PROVE  OutboxIInv'
<1> USE DEF OutboxIInv
<1>0. /\ UNCHANGED <<queue, worker, budget, played, saves, crashes, sent, gone, doubtful, refused>>
      /\ toggles' = toggles + 1 /\ toggles < budget.toggles
      /\ connection' = IF Connected(a) THEN [connection EXCEPT ![a].enabled = enabled] ELSE connection
      /\ (Submit \/ jobs' = jobs)
  BY DEF SetEnabled, ghosts
<1>1. \A b \in Accounts : /\ connection'[b].credentials = connection[b].credentials
                          /\ connection'[b].broken = connection[b].broken
  BY <1>0 DEF TypeOK, Connection
<1>2. TypeOK'
  <2>1. connection' \in [Accounts -> Connection] BY <1>0 DEF TypeOK, Connection
  <2>2. jobs' \in 0..MaxJobs BY <1>0, SubmitType DEF TypeOK
  <2>3. toggles' \in 0..budget.toggles BY <1>0, OutboxBounds
  <2>4. QED BY <1>0, <2>1, <2>2, <2>3 DEF TypeOK
<1>3. WorkerOK' BY <1>0 DEF WorkerOK, Clean, Batch, Current, Numbers
<1>4. QueueOK' BY <1>0 DEF QueueOK, Clean, Unrecorded, Batch, Current, Numbers
<1>5. CredentialsOK' BY <1>0, <1>1 DEF CredentialsOK, Connected
<1>6. FutureUnsent' /\ NoListenLost' /\ SentOnce'
  BY <1>0 DEF FutureUnsent, NoListenLost, SentOnce, Queued, Numbers
<1>7. QED BY <1>2, <1>3, <1>4, <1>5, <1>6

LEMMA RetryKeeps ==
    ASSUME OutboxIInv, RetryLater
    PROVE  OutboxIInv'
<1> USE DEF OutboxIInv
<1>0. UNCHANGED <<connection, queue, worker, budget, played, saves, toggles, crashes,
                  sent, gone, doubtful, refused>>
  BY DEF RetryLater, bounds, ghosts
<1>1. TypeOK' BY <1>0, SubmitType DEF TypeOK, RetryLater
<1>2. WorkerOK' BY <1>0 DEF WorkerOK, Clean, Batch, Current, Numbers
<1>3. QueueOK' BY <1>0 DEF QueueOK, Clean, Unrecorded, Batch, Current, Numbers
<1>4. CredentialsOK' BY <1>0 DEF CredentialsOK, Connected
<1>5. FutureUnsent' /\ NoListenLost' /\ SentOnce'
  BY <1>0 DEF FutureUnsent, NoListenLost, SentOnce, Queued, Numbers
<1>6. QED BY <1>1, <1>2, <1>3, <1>4, <1>5

LEMMA DeleteKeeps ==
    ASSUME OutboxIInv, NEW a \in Accounts, DeleteConnection(a)
    PROVE  OutboxIInv'
<1> USE DEF OutboxIInv
<1> DEFINE I == {i \in DOMAIN queue : queue[i].account # a}
           theirs == {l.nr : l \in {m \in ToSet(queue) : m.account = a}}
<1>0. /\ UNCHANGED <<jobs, worker, budget, played, saves, toggles, crashes, sent, doubtful, refused>>
      /\ connection' = [connection EXCEPT ![a] = NoRow]
      /\ gone' = gone \cup theirs /\ queue' = Kept(queue, I)
  BY DEF DeleteConnection, bounds
<1>1. connection'[a] = NoRow /\ \A b \in Accounts \ {a} : connection'[b] = connection[b]
  BY <1>0 DEF TypeOK
<1>2. /\ RowsOK(queue', played)
      /\ \A k \in DOMAIN queue' : \E i \in I \cap DOMAIN queue : queue'[k] = queue[i]
      /\ \A i \in I \cap DOMAIN queue : \E k \in DOMAIN queue' : queue'[k] = queue[i]
  <2>1. RowsOK(queue, played) BY DEF QueueOK
  <2>2. queue' = Kept(queue, I) BY <1>0
  <2> HIDE DEF I
  <2>3. QED BY <2>1, <2>2, KeptRows
<1>3. TypeOK'
  <2>1. NoRow \in Connection BY DEF NoRow, Connection
  <2>2. connection' \in [Accounts -> Connection] BY <1>0, <2>1 DEF TypeOK
  <2>3. queue' \in Seq(Listen) BY <1>2 DEF RowsOK
  <2>4. theirs \subseteq 1..played BY DEF QueueOK, RowsOK, ToSet
  <2>5. QED BY <1>0, <2>2, <2>3, <2>4 DEF TypeOK
<1>4. WorkerOK' BY <1>0 DEF WorkerOK, Clean, Batch, Current, Numbers
<1>5. QueueOK'
  <2>1. Unrecorded' = Unrecorded BY <1>0 DEF Unrecorded, Batch, Current, Numbers
  <2>2. QED BY <1>0, <1>2, <2>1 DEF QueueOK, Clean
<1>6. CredentialsOK'
  <2>1. NoRow.credentials = 0 BY DEF NoRow
  <2>2. saves \in Nat BY OutboxBounds
  <2>3. \A b \in Accounts : connection'[b].credentials \in 0..saves BY <1>1, <2>1, <2>2 DEF CredentialsOK
  <2>4. \A i \in DOMAIN worker.todo : worker.todo[i].credentials \in 1..saves
    BY DEF WorkerOK, TodoOK, ShareOK
  <2>5. QED BY <1>0, <1>1, <2>1, <2>3, <2>4 DEF CredentialsOK, Connected
<1>7. NoListenLost'
  <2> SUFFICES ASSUME NEW n \in 1..played, ~(sent[n] > 0), n \notin gone', Queued(n)
               PROVE  Queued(n)'
    BY <1>0 DEF NoListenLost
  <2>1. PICK i \in DOMAIN queue : queue[i].nr = n BY DEF Queued, Numbers, ToSet
  <2>2. queue[i].account # a BY <1>0, <2>1 DEF ToSet
  <2>3. PICK k \in DOMAIN queue' : queue'[k] = queue[i] BY <1>2, <2>2
  <2>4. QED BY <2>1, <2>3 DEF Queued, Numbers, ToSet
<1>8. FutureUnsent' /\ SentOnce' BY <1>0 DEF FutureUnsent, SentOnce
<1>9. QED BY <1>3, <1>4, <1>5, <1>6, <1>7, <1>8

LEMMA ScrobbleKeeps ==
    ASSUME OutboxIInv, NEW user \in Users, Scrobble(user)
    PROVE  OutboxIInv'
<1> USE DEF OutboxIInv
<1> DEFINE S == {a \in Accounts : a[1] = user /\ Working(a)}
           targets == SetToSeq(S)
           rows == [k \in DOMAIN targets |-> [id |-> NextId + k - 1, account |-> targets[k], nr |-> played + k]]
           n == Len(rows)
<1>0. /\ UNCHANGED <<connection, worker, budget, saves, toggles, crashes, sent, gone, doubtful, refused>>
      /\ played' = played + n /\ played + n <= budget.plays /\ Submit
      /\ \E i \in 0..Len(queue) : queue' = SubSeq(queue, 1, i) \o rows \o SubSeq(queue, i + 1, Len(queue))
  BY DEF Scrobble, ghosts
<1>1. targets \in Seq(Accounts)
  <2>1. S \subseteq Accounts /\ IsFiniteSet(S) BY ReachableAssumption, FS_Subset
  <2> HIDE DEF S
  <2>2. SetToSeq(S) \in Seq(S) BY <2>1, SetToSeqOf
  <2>3. QED BY <2>1, <2>2, SeqMonotonic
<1> HIDE DEF targets
<1>2. played \in Nat /\ budget.plays \in Nat BY OutboxBounds
<1>3. DOMAIN targets = 1..Len(targets) /\ Len(targets) \in Nat BY <1>1
<1>4. ASSUME NEW k \in DOMAIN targets
      PROVE  rows[k] \in Listen /\ rows[k].nr = played + k /\ rows[k].id = played + k
  <2>1. k \in Nat /\ k >= 1 /\ NextId + k - 1 = played + k BY <1>2, <1>3 DEF NextId
  <2>2. targets[k] \in Accounts BY <1>1
  <2>3. rows[k] = [id |-> played + k, account |-> targets[k], nr |-> played + k] BY <2>1
  <2>4. QED BY <1>2, <2>1, <2>2, <2>3 DEF Listen
<1>5. rows \in Seq(Listen) /\ DOMAIN rows = 1..n /\ n \in Nat /\ DOMAIN rows = DOMAIN targets
  <2>1. rows \in [1..Len(targets) -> Listen] BY <1>3, <1>4
  <2>2. rows \in Seq(Listen) BY <1>3, <2>1, SeqDef
  <2>3. QED BY <2>2
<1> HIDE DEF rows, n
<1>6. played' \in Nat /\ played <= played' /\ played' = played + n /\ played' <= budget.plays BY <1>0, <1>2, <1>5
<1>7. Distinct(rows) /\ \A k \in DOMAIN rows : rows[k].id = rows[k].nr /\ rows[k].nr \in played + 1 .. played'
  <2>1. \A k \in DOMAIN rows : k \in Nat /\ k >= 1 /\ k <= n BY <1>5
  <2>2. \A k \in DOMAIN rows : rows[k].id = played + k /\ rows[k].nr = played + k BY <1>4, <1>5
  <2>3. \A k \in DOMAIN rows : played + k \in played + 1 .. played' BY <1>2, <1>5, <1>6, <2>1
  <2>4. \A k, l \in DOMAIN rows : k # l => played + k # played + l BY <1>2, <2>1
  <2>5. QED BY <2>2, <2>3, <2>4 DEF Distinct
<1>8. /\ RowsOK(queue', played')
      /\ \A k \in DOMAIN queue' : (\E j \in DOMAIN queue : queue'[k] = queue[j])
                                  \/ (\E j \in DOMAIN rows : queue'[k] = rows[j])
      /\ \A j \in DOMAIN queue : \E k \in DOMAIN queue' : queue'[k] = queue[j]
      /\ \A j \in DOMAIN rows : \E k \in DOMAIN queue' : queue'[k] = rows[j]
  <2>1. PICK i \in 0..Len(queue) : queue' = PutIn(queue, i, rows) BY <1>0 DEF PutIn
  <2>2. RowsOK(queue, played) BY DEF QueueOK
  <2>3. played \in Nat /\ played' \in Nat /\ played <= played' /\ rows \in Seq(Listen) BY <1>2, <1>5, <1>6
  <2>4. QED BY <1>7, <2>1, <2>2, <2>3, RowsPutIn, SMTT(30)
<1>9. TypeOK'
  <2>1. queue' \in Seq(Listen) BY <1>8 DEF RowsOK
  <2>2. jobs' \in 0..MaxJobs BY <1>0, SubmitType
  <2>3. played' \in 0..budget.plays BY <1>2, <1>6
  <2>4. gone \subseteq 1..played' /\ doubtful \subseteq 1..played' BY <1>2, <1>6 DEF TypeOK
  <2>5. QED BY <1>0, <2>1, <2>2, <2>3, <2>4 DEF TypeOK
<1>10. WorkerOK'
  <2>1. saves \in Nat BY OutboxBounds
  <2>2. TodoOK(worker.todo, played', saves, refused) BY <1>2, <1>6, <2>1, TodoStays DEF WorkerOK
  <2>3. QED BY <1>0, <2>2 DEF WorkerOK, Clean, Batch, Current, Numbers
<1>11. \A k \in DOMAIN rows : sent[rows[k].nr] = 0
  <2>1. \A k \in DOMAIN rows : rows[k].nr \in 1..budget.plays /\ rows[k].nr > played
    BY <1>2, <1>6, <1>7
  <2>2. QED BY <2>1 DEF FutureUnsent
<1>12. QueueOK'
  <2>1. Unrecorded' = Unrecorded BY <1>0 DEF Unrecorded, Batch, Current, Numbers
  <2>2. \A k \in DOMAIN rows : Clean(rows[k].nr) BY <1>11 DEF Clean
  <2>3. QED BY <1>0, <1>8, <2>1, <2>2 DEF QueueOK, Clean
<1>13. CredentialsOK' BY <1>0 DEF CredentialsOK, Connected
<1>14. FutureUnsent' BY <1>0, <1>2, <1>6 DEF FutureUnsent
<1>15. NoListenLost'
  <2> SUFFICES ASSUME NEW m \in 1..played', ~(sent[m] > 0), m \notin gone PROVE Queued(m)'
    BY <1>0 DEF NoListenLost
  <2>1. CASE m <= played
    <3>1. m \in 1..played BY <1>2, <1>6, <2>1
    <3>2. Queued(m) BY <3>1 DEF NoListenLost
    <3>3. PICK j \in DOMAIN queue : queue[j].nr = m BY <3>2 DEF Queued, Numbers, ToSet
    <3>4. QED BY <1>8, <3>3 DEF Queued, Numbers, ToSet
  <2>2. CASE m > played
    <3>1. m - played \in DOMAIN rows /\ played + (m - played) = m BY <1>2, <1>5, <1>6, <2>2
    <3>2. rows[m - played].nr = m BY <1>4, <1>5, <3>1
    <3>3. PICK k \in DOMAIN queue' : queue'[k] = rows[m - played] BY <1>8, <3>1
    <3>4. QED BY <3>2, <3>3 DEF Queued, Numbers, ToSet
  <2>3. QED BY <1>2, <1>6, <2>1, <2>2
<1>16. SentOnce'
  <2> SUFFICES ASSUME NEW m \in 1..played', sent[m] > 1 PROVE m \in doubtful
    BY <1>0 DEF SentOnce
  <2>1. m \in 1..budget.plays BY <1>2, <1>6
  <2>2. m <= played BY <1>2, <1>6, <2>1 DEF FutureUnsent
  <2>3. QED BY <1>2, <1>6, <2>2 DEF SentOnce
<1>17. QED BY <1>9, <1>10, <1>12, <1>13, <1>14, <1>15, <1>16

LEMMA TakeKeeps ==
    ASSUME OutboxIInv, TakeJob
    PROVE  OutboxIInv'
<1> USE DEF OutboxIInv
<1> DEFINE due == Due(queue')
           job == [Idle EXCEPT !.pc = "sending", !.todo = PerConnection(due)]
<1>0. /\ UNCHANGED <<connection, budget, played, saves, toggles, crashes, sent, doubtful, refused>>
      /\ worker.pc = "idle" /\ jobs > 0 /\ jobs' = jobs - 1
      /\ worker' = IF due = << >> THEN Idle ELSE job
  BY DEF TakeJob, bounds
<1>1. PICK old \in 0..Len(queue) : /\ queue' = SubSeq(queue, old + 1, Len(queue))
                                   /\ gone' = gone \cup Numbers(SubSeq(queue, 1, old))
  BY DEF TakeJob
<1> HIDE DEF due, job
<1>2. queue \in Seq(Listen) /\ RowsOK(queue, played) /\ old \in Nat /\ Len(queue) \in Nat BY DEF QueueOK, TypeOK
<1>3. RowsOK(queue', played) BY <1>1, <1>2, RestRows
<1>4. /\ \A k \in DOMAIN queue' : old + k \in DOMAIN queue /\ queue'[k] = queue[old + k]
      /\ \A i \in DOMAIN queue : i > old => i - old \in DOMAIN queue' /\ queue'[i - old] = queue[i]
  BY <1>1, <1>2, RestOf
<1>5. \A i \in 1..old : i \in DOMAIN queue /\ queue[i].nr \in Numbers(SubSeq(queue, 1, old))
  <2>1. \A i \in 1..old : i \in DOMAIN queue /\ queue[i] \in Listen BY <1>2
  <2>2. /\ SubSeq(queue, 1, old) \in Seq(Listen) /\ Len(SubSeq(queue, 1, old)) = old
        /\ \A i \in 1..old : SubSeq(queue, 1, old)[i] = queue[i]
    BY <1>2, <2>1, SubSeqProperties
  <2>3. DOMAIN SubSeq(queue, 1, old) = 1..old BY <2>2, LenProperties
  <2>4. QED BY <2>1, <2>2, <2>3 DEF Numbers, ToSet
<1>6. Numbers(SubSeq(queue, 1, old)) \subseteq 1..played
  <2>1. \A i \in 1..old : i \in DOMAIN queue /\ queue[i] \in Listen BY <1>2
  <2>2. /\ SubSeq(queue, 1, old) \in Seq(Listen) /\ Len(SubSeq(queue, 1, old)) = old
        /\ \A i \in 1..old : SubSeq(queue, 1, old)[i] = queue[i]
    BY <1>2, <2>1, SubSeqProperties
  <2>3. DOMAIN SubSeq(queue, 1, old) = 1..old BY <2>2, LenProperties
  <2>4. QED BY <1>2, <2>1, <2>2, <2>3 DEF Numbers, ToSet, RowsOK
<1>7. \A k \in DOMAIN queue' : Clean(queue'[k].nr)
  <2>1. Unrecorded = {} BY <1>0 DEF Unrecorded
  <2>2. QED BY <1>4, <2>1 DEF QueueOK
<1>8. /\ RowsOK(due, played)
      /\ \A k \in DOMAIN due : Working(due[k].account) /\ Clean(due[k].nr)
  <2> DEFINE I == {i \in DOMAIN queue' : Working(queue'[i].account)}
             kept == Kept(queue', I)
  <2>1. due = Upto(DueLimit, kept) BY DEF due, Due
  <2>2. /\ RowsOK(kept, played)
        /\ \A k \in DOMAIN kept : \E i \in I \cap DOMAIN queue' : kept[k] = queue'[i]
    <3> HIDE DEF I
    <3>1. QED BY <1>3, KeptRows
  <2> HIDE DEF kept
  <2>3. DueLimit \in Nat /\ kept \in Seq(Listen) BY <2>2, SizesAssumption DEF RowsOK
  <2>4. RowsOK(due, played) BY <2>1, <2>2, <2>3, UptoRows
  <2>5. \A k \in DOMAIN due : k \in DOMAIN kept /\ due[k] = kept[k] BY <2>1, <2>3, UptoOf
  <2>6. QED BY <1>7, <2>2, <2>4, <2>5
<1>9. ASSUME due = << >> PROVE worker' \in Worker /\ WorkerOK' /\ CredentialsOK'
  <2>1. worker' = Idle BY <1>0, <1>9
  <2>2. WorkerOK' BY <2>1, NoTodo DEF WorkerOK, Idle
  <2>3. CredentialsOK' BY <1>0, <2>1 DEF CredentialsOK, Connected, Idle
  <2>4. worker' \in Worker BY <2>1 DEF Idle, Worker, Statuses
  <2>5. QED BY <2>2, <2>3, <2>4
<1>10. ASSUME due # << >> PROVE worker' \in Worker /\ WorkerOK' /\ CredentialsOK'
  <2> DEFINE todo == PerConnection(due)
  <2>0. /\ TodoOK(todo, played, saves, refused) /\ todo # << >>
        /\ \A i \in DOMAIN todo :
              /\ todo[i].credentials = connection[todo[i].account].credentials
              /\ Connected(todo[i].account)
              /\ \A k \in DOMAIN todo[i].listens : \E j \in DOMAIN due : todo[i].listens[k] = due[j]
    BY <1>8, <1>10, PerConnectionOK
  <2>1. worker' = [Idle EXCEPT !.pc = "sending", !.todo = todo] BY <1>0, <1>10 DEF job
  <2> HIDE DEF todo
  <2>2. worker'.pc = "sending" /\ worker'.todo = todo /\ worker' \in Worker
    BY <2>0, <2>1 DEF Idle, Worker, Statuses, TodoOK
  <2>3. WorkerOK' BY <1>0, <1>8, <2>0, <2>2 DEF WorkerOK, Clean
  <2>4. \A i \in DOMAIN todo : todo[i].account \in Accounts
    <3>1. \A i \in DOMAIN todo : todo[i] \in Share BY <2>0 DEF TodoOK, ShareOK
    <3>2. QED BY <3>1 DEF Share
  <2>5. CredentialsOK' BY <1>0, <2>0, <2>2, <2>4 DEF CredentialsOK, Connected
  <2>6. QED BY <2>2, <2>3, <2>5
<1>11. TypeOK' /\ WorkerOK' /\ CredentialsOK'
  <2>1. worker' \in Worker /\ WorkerOK' /\ CredentialsOK' BY <1>9, <1>10
  <2>2. jobs' \in 0..MaxJobs BY <1>0, OutboxBounds DEF TypeOK
  <2>3. queue' \in Seq(Listen) /\ gone' \subseteq 1..played BY <1>1, <1>3, <1>6 DEF RowsOK, TypeOK
  <2>4. QED BY <1>0, <2>1, <2>2, <2>3 DEF TypeOK
<1>12. QueueOK' BY <1>0, <1>3, <1>7 DEF QueueOK, Clean
<1>13. NoListenLost'
  <2> SUFFICES ASSUME NEW n \in 1..played, ~(sent[n] > 0), n \notin gone' PROVE Queued(n)'
    BY <1>0 DEF NoListenLost
  <2>1. n \notin gone /\ Queued(n) BY <1>1 DEF NoListenLost
  <2>2. PICK i \in DOMAIN queue : queue[i].nr = n BY <2>1 DEF Queued, Numbers, ToSet
  <2>3. i > old BY <1>1, <1>2, <1>5, <2>2
  <2>4. i - old \in DOMAIN queue' /\ queue'[i - old].nr = n BY <1>4, <2>2, <2>3
  <2>5. QED BY <2>4 DEF Queued, Numbers, ToSet
<1>14. FutureUnsent' /\ SentOnce' BY <1>0 DEF FutureUnsent, SentOnce
<1>15. QED BY <1>11, <1>12, <1>13, <1>14

(* The listens of the batch, while a call or its recording is under way.    *)
LEMMA BatchOf ==
    ASSUME OutboxIInv, worker.pc # "idle"
    PROVE  /\ 1 \in DOMAIN worker.todo /\ Current = worker.todo[1] /\ Current \in Share
           /\ ShareOK(Current, played, saves, refused)
           /\ Len(Batch) = IF Len(Current.listens) < BatchSize THEN Len(Current.listens) ELSE BatchSize
           /\ \A n : n \in Numbers(Batch) <=>
                 \E k \in DOMAIN Current.listens : k <= BatchSize /\ Current.listens[k].nr = n
           /\ {l.id : l \in ToSet(Batch)} = Numbers(Batch) /\ Numbers(Batch) \subseteq 1..played
<1> USE DEF OutboxIInv
<1>1. worker.todo \in Seq(Share) /\ worker.todo # << >> BY DEF WorkerOK, TodoOK
<1>2. 1 \in DOMAIN worker.todo /\ Current = worker.todo[1] /\ Current \in Share BY <1>1 DEF Current
<1>3. ShareOK(Current, played, saves, refused) BY <1>2 DEF WorkerOK, TodoOK
<1>4. RowsOK(Current.listens, played) /\ Current.listens \in Seq(Listen) BY <1>3 DEF ShareOK, RowsOK
<1>5. BatchSize \in Nat BY SizesAssumption
<1>6. /\ Batch \in Seq(Listen)
      /\ Len(Batch) = IF Len(Current.listens) < BatchSize THEN Len(Current.listens) ELSE BatchSize
      /\ \A k \in DOMAIN Batch : k \in DOMAIN Current.listens /\ k <= BatchSize /\ Batch[k] = Current.listens[k]
  BY <1>4, <1>5, UptoOf DEF Batch
<1>7. \A k \in DOMAIN Current.listens : k <= BatchSize => k \in DOMAIN Batch
  <2>1. DOMAIN Batch = 1..Len(Batch) /\ DOMAIN Current.listens = 1..Len(Current.listens)
    BY <1>4, <1>6
  <2>2. Len(Current.listens) \in Nat BY <1>4
  <2>3. QED BY <1>5, <1>6, <2>1, <2>2
<1>8. \A n : n \in Numbers(Batch) <=>
          \E k \in DOMAIN Current.listens : k <= BatchSize /\ Current.listens[k].nr = n
  BY <1>6, <1>7 DEF Numbers, ToSet
<1>9. \A k \in DOMAIN Batch : Batch[k].id = Batch[k].nr /\ Batch[k].nr \in 1..played
  BY <1>4, <1>6 DEF RowsOK
<1>10. {l.id : l \in ToSet(Batch)} = Numbers(Batch) /\ Numbers(Batch) \subseteq 1..played
  BY <1>9 DEF Numbers, ToSet
<1>11. QED BY <1>2, <1>3, <1>6, <1>8, <1>10

LEMMA SendKeeps ==
    ASSUME OutboxIInv, NEW status \in Statuses, Send(status)
    PROVE  OutboxIInv'
<1> USE DEF OutboxIInv
<1>1. PICK taken \in BOOLEAN :
        /\ status = "ok" => taken
        /\ status \in {"drop", "invalid_auth"} => ~taken
        /\ sent' = [n \in 1..budget.plays |->
                       IF taken /\ n \in Numbers(Batch) /\ sent[n] < 2 THEN sent[n] + 1 ELSE sent[n]]
        /\ doubtful' = IF taken /\ status = "retry" THEN doubtful \cup Numbers(Batch) ELSE doubtful
  BY DEF Send
<1>2. /\ UNCHANGED <<connection, queue, jobs, budget, played, saves, toggles, crashes, gone, refused>>
      /\ worker' = [worker EXCEPT !.pc = "answered", !.status = status] /\ worker.pc = "sending"
  BY DEF Send, bounds
<1>3. /\ worker'.pc = "answered" /\ worker'.status = status /\ worker'.todo = worker.todo
      /\ worker' \in Worker
  BY <1>2 DEF TypeOK, Worker
<1> DEFINE B == Numbers(Batch)
<1>4. /\ 1 \in DOMAIN worker.todo /\ Current = worker.todo[1]
      /\ ShareOK(Current, played, saves, refused)
      /\ \A n : n \in B <=> \E k \in DOMAIN Current.listens : k <= BatchSize /\ Current.listens[k].nr = n
      /\ B \subseteq 1..played
  BY <1>2, BatchOf
<1>5. Batch' = Batch /\ Numbers(Batch)' = B BY <1>3 DEF Batch, Current, Numbers
<1> HIDE DEF B
<1>6. played \in Nat /\ budget.plays \in Nat /\ played <= budget.plays BY OutboxBounds
<1>7. \A n \in 1..budget.plays : sent[n] \in 0..2 BY DEF TypeOK
<1>8. \A n \in 1..budget.plays :
         /\ sent'[n] = IF taken /\ n \in B /\ sent[n] < 2 THEN sent[n] + 1 ELSE sent[n]
         /\ sent'[n] \in 0..2 /\ sent'[n] >= sent[n]
  BY <1>1, <1>7 DEF B
<1>9. doubtful' = IF taken /\ status = "retry" THEN doubtful \cup B ELSE doubtful BY <1>1 DEF B
<1>10. TypeOK'
  <2>1. sent' \in [1..budget.plays -> 0..2] BY <1>1, <1>8
  <2>2. doubtful' \subseteq 1..played BY <1>4, <1>9 DEF TypeOK
  <2>3. QED BY <1>2, <1>3, <2>1, <2>2 DEF TypeOK
<1>11. ASSUME NEW n \in 1..played, Clean(n), n \notin B \/ status # "ok"
       PROVE  Clean(n)'
  <2>1. n \in 1..budget.plays BY <1>6
  <2>2. CASE n \notin B BY <1>8, <1>9, <1>11, <2>1, <2>2 DEF Clean
  <2>3. CASE n \in B /\ status = "retry" BY <1>1, <1>8, <1>9, <1>11, <2>1, <2>3 DEF Clean
  <2>4. CASE status \in {"drop", "invalid_auth"} BY <1>1, <1>8, <1>9, <1>11, <2>1, <2>4 DEF Clean
  <2>5. QED BY <1>11, <2>2, <2>3, <2>4 DEF Statuses
<1>12. ASSUME status = "ok", NEW n \in B PROVE sent'[n] > 0
  <2>1. n \in 1..budget.plays /\ taken BY <1>1, <1>4, <1>6, <1>12
  <2>2. QED BY <1>7, <1>8, <2>1
<1>13. WorkerOK'
  <2>1. ASSUME NEW i \in DOMAIN worker.todo, NEW k \in DOMAIN worker.todo[i].listens
        PROVE  Clean(worker.todo[i].listens[k].nr)' \/ (status = "ok" /\ InBatch(i, k))
    <3> DEFINE n == worker.todo[i].listens[k].nr
    <3>1. Clean(n) BY <1>2 DEF WorkerOK
    <3>2. n \in 1..played BY DEF WorkerOK, TodoOK, ShareOK, RowsOK
    <3>3. ASSUME ~InBatch(i, k) PROVE n \notin B
      <4> SUFFICES ASSUME n \in B PROVE FALSE OBVIOUS
      <4>1. PICK m \in DOMAIN Current.listens : m <= BatchSize /\ Current.listens[m].nr = n BY <1>4
      <4>2. CASE i # 1 BY <1>4, <4>1, <4>2 DEF WorkerOK, TodoOK, Apart
      <4>3. CASE i = 1
        <5>1. m # k BY <3>3, <4>1, <4>3 DEF InBatch
        <5>2. Current.listens[m].nr # Current.listens[k].nr BY <1>4, <4>3, <5>1 DEF ShareOK, RowsOK, Distinct
        <5>3. QED BY <1>4, <4>1, <4>3, <5>2
      <4>4. QED BY <4>2, <4>3
    <3>4. PICK N : N = n OBVIOUS
    <3>5. Clean(N)' \/ (status = "ok" /\ InBatch(i, k)) BY <1>11, <3>1, <3>2, <3>3, <3>4
    <3>6. QED BY <1>3, <3>4, <3>5 DEF Clean
  <2>2. TodoOK(worker'.todo, played', saves', refused') BY <1>2, <1>3 DEF WorkerOK
  <2>3. QED BY <1>2, <1>3, <1>4, <1>5, <1>12, <2>1, <2>2 DEF WorkerOK, Clean
<1>14. QueueOK'
  <2>1. Unrecorded = {} BY <1>2 DEF Unrecorded
  <2>2. status = "ok" => Unrecorded' = B BY <1>3, <1>5 DEF Unrecorded
  <2>3. ASSUME NEW i \in DOMAIN queue PROVE Clean(queue[i].nr)' \/ queue[i].nr \in Unrecorded'
    <3>1. PICK N : N = queue[i].nr OBVIOUS
    <3>2. Clean(N) /\ N \in 1..played BY <2>1, <3>1 DEF QueueOK, RowsOK
    <3>3. Clean(N)' \/ N \in Unrecorded' BY <1>11, <2>2, <3>2
    <3>4. QED BY <1>2, <3>1, <3>3 DEF Clean
  <2>4. QED BY <1>2, <2>3 DEF QueueOK, Clean
<1>15. CredentialsOK' BY <1>2, <1>3 DEF CredentialsOK, Connected
<1>16. FutureUnsent'
  <2>1. \A n \in 1..budget.plays : n > played => n \notin B BY <1>4, <1>6
  <2>2. QED BY <1>2, <1>8, <2>1 DEF FutureUnsent
<1>17. NoListenLost'
  <2>1. \A n \in 1..played : sent[n] > 0 => sent'[n] > 0 BY <1>6, <1>7, <1>8
  <2>2. QED BY <1>2, <2>1 DEF NoListenLost, Queued, Numbers
<1>18. SentOnce'
  <2> SUFFICES ASSUME NEW n \in 1..played, sent'[n] > 1 PROVE n \in doubtful'
    BY <1>2 DEF SentOnce
  <2>1. n \in 1..budget.plays BY <1>6
  <2>2. CASE sent[n] > 1 BY <1>9, <2>2 DEF SentOnce
  <2>3. CASE ~(sent[n] > 1)
    <3>1. n \in B /\ sent[n] > 0 BY <1>7, <1>8, <2>1, <2>3
    <3>2. PICK k \in DOMAIN Current.listens : Current.listens[k].nr = n BY <1>4, <3>1
    <3>3. Clean(n) BY <1>2, <1>4, <3>2 DEF WorkerOK
    <3>4. QED BY <1>9, <3>1, <3>3 DEF Clean
  <2>4. QED BY <2>2, <2>3
<1>19. QED BY <1>10, <1>13, <1>14, <1>15, <1>16, <1>17, <1>18

LEMMA StopKeeps ==
    ASSUME OutboxIInv, RecordFails \/ Crash
    PROVE  OutboxIInv'
<1> USE DEF OutboxIInv
<1>1. /\ UNCHANGED <<connection, queue, budget, played, saves, toggles, sent, gone, refused>>
      /\ doubtful' = doubtful \cup Unrecorded /\ worker' = Idle
      /\ jobs' \in {jobs, 0} /\ (crashes' = crashes \/ (crashes < budget.crashes /\ crashes' = crashes + 1))
  BY DEF RecordFails, Crash, bounds
<1>2. Unrecorded \subseteq 1..played BY BatchOf DEF Unrecorded
<1>3. TypeOK'
  <2>1. worker' \in Worker BY <1>1 DEF Idle, Worker, Statuses
  <2>2. jobs' \in 0..MaxJobs /\ crashes' \in 0..budget.crashes BY <1>1, OutboxBounds, SMTT(30) DEF TypeOK
  <2>3. doubtful' \subseteq 1..played BY <1>1, <1>2 DEF TypeOK
  <2>4. QED BY <1>1, <2>1, <2>2, <2>3 DEF TypeOK
<1>4. WorkerOK' BY <1>1, NoTodo DEF WorkerOK, Idle
<1>5. QueueOK' BY <1>1 DEF QueueOK, Clean
<1>6. CredentialsOK' BY <1>1 DEF CredentialsOK, Connected, Idle
<1>7. FutureUnsent' /\ NoListenLost' /\ SentOnce'
  BY <1>1 DEF FutureUnsent, NoListenLost, SentOnce, Queued, Numbers
<1>8. QED BY <1>3, <1>4, <1>5, <1>6, <1>7

(* What GoesOn goes on with: the other shares of the job, after the share   *)
(* without its first n listens or alone.                                    *)
RestOfShare(s, n) == [s EXCEPT !.listens = SubSeq(s.listens, n + 1, Len(s.listens))]
GoOn(todo, n)     == <<RestOfShare(todo[1], n)>> \o Tail(todo)

LEMMA OtherShares ==
    ASSUME NEW todo, NEW p, NEW c, NEW r, TodoOK(todo, p, c, r), todo # << >>
    PROVE  /\ TodoOK(Tail(todo), p, c, r \cup {todo[1].credentials}) /\ TodoOK(Tail(todo), p, c, r)
           /\ Tail(todo) \in Seq(Share) /\ Len(Tail(todo)) = Len(todo) - 1
           /\ \A i \in DOMAIN Tail(todo) : i + 1 \in DOMAIN todo /\ i + 1 # 1 /\ Tail(todo)[i] = todo[i + 1]
<1> DEFINE tail == Tail(todo)
<1>1. todo \in Seq(Share) /\ DOMAIN todo = 1..Len(todo) /\ Len(todo) \in Nat /\ 1 \in DOMAIN todo
  BY DEF TodoOK
<1>2. /\ tail \in Seq(Share) /\ Len(tail) = Len(todo) - 1
      /\ \A i \in 1..Len(tail) : tail[i] = todo[i + 1]
  BY <1>1, HeadTailProperties
<1> HIDE DEF tail
<1>3. DOMAIN tail = 1..Len(tail) BY <1>2
<1>4. \A i \in DOMAIN tail : i + 1 \in DOMAIN todo /\ i + 1 # 1 /\ tail[i] = todo[i + 1] BY <1>1, <1>2, <1>3
<1>5. ASSUME NEW i \in DOMAIN tail
      PROVE ShareOK(tail[i], p, c, r) /\ ShareOK(tail[i], p, c, r \cup {todo[1].credentials})
  <2>1. ShareOK(tail[i], p, c, r) BY <1>4 DEF TodoOK
  <2>2. Apart(todo[1], tail[i]) BY <1>1, <1>4 DEF TodoOK
  <2>3. QED BY <2>1, <2>2 DEF ShareOK, Apart
<1>6. ASSUME NEW i \in DOMAIN tail, NEW j \in DOMAIN tail, i # j PROVE Apart(tail[i], tail[j])
  <2>1. i + 1 # j + 1 BY <1>3, <1>6
  <2>2. QED BY <1>4, <2>1 DEF TodoOK
<1>7. TodoOK(tail, p, c, r) /\ TodoOK(tail, p, c, r \cup {todo[1].credentials})
  BY <1>2, <1>5, <1>6 DEF TodoOK
<1>8. QED BY <1>2, <1>4, <1>7 DEF tail

LEMMA RestOfShareOK ==
    ASSUME NEW s, NEW p, NEW c, NEW r, ShareOK(s, p, c, r), NEW n \in Nat
    PROVE  /\ ShareOK(RestOfShare(s, n), p, c, r) /\ RestOfShare(s, n) \in Share
           /\ RestOfShare(s, n).account = s.account
           /\ RestOfShare(s, n).credentials = s.credentials
           /\ \A k \in DOMAIN RestOfShare(s, n).listens :
                 n + k \in DOMAIN s.listens /\ RestOfShare(s, n).listens[k] = s.listens[n + k]
<1> DEFINE rest == SubSeq(s.listens, n + 1, Len(s.listens))
<1>1. s \in Share /\ RowsOK(s.listens, p) /\ s.listens \in Seq(Listen) BY DEF ShareOK, RowsOK
<1>2. /\ RowsOK(rest, p)
      /\ \A k \in DOMAIN rest : n + k \in DOMAIN s.listens /\ rest[k] = s.listens[n + k]
  BY <1>1, RestOf, RestRows
<1>3. rest \in Seq(Listen) BY <1>2 DEF RowsOK
<1> HIDE DEF rest
<1>4. /\ [s EXCEPT !.listens = rest] \in Share
      /\ [s EXCEPT !.listens = rest].account = s.account
      /\ [s EXCEPT !.listens = rest].credentials = s.credentials
      /\ [s EXCEPT !.listens = rest].listens = rest
  BY <1>1, <1>3 DEF Share
<1>5. RestOfShare(s, n) = [s EXCEPT !.listens = rest] BY DEF RestOfShare, rest
<1> DEFINE one == [s EXCEPT !.listens = rest]
<1>6. one \in Share /\ one.account = s.account /\ one.credentials = s.credentials /\ one.listens = rest BY <1>4
<1> HIDE DEF one
<1>7. ShareOK(one, p, c, r) BY <1>2, <1>6 DEF ShareOK
<1>8. QED BY <1>2, <1>5, <1>6, <1>7 DEF one

LEMMA RestOfJob ==
    ASSUME NEW todo, NEW p, NEW c, NEW r, TodoOK(todo, p, c, r), todo # << >>, NEW n \in Nat
    PROVE  /\ TodoOK(GoOn(todo, n), p, c, r) /\ GoOn(todo, n) # << >>
           /\ DOMAIN GoOn(todo, n) = DOMAIN todo
           /\ GoOn(todo, n)[1] = RestOfShare(todo[1], n)
           /\ \A i \in DOMAIN todo : i # 1 => GoOn(todo, n)[i] = todo[i]
<1> DEFINE one == RestOfShare(todo[1], n)
           tail == Tail(todo)
           new == <<one>> \o tail
<1>1. todo \in Seq(Share) /\ DOMAIN todo = 1..Len(todo) /\ Len(todo) \in Nat /\ 1 \in DOMAIN todo
  BY DEF TodoOK
<1>2. /\ tail \in Seq(Share) /\ Len(tail) = Len(todo) - 1
      /\ \A i \in DOMAIN tail : i + 1 \in DOMAIN todo /\ tail[i] = todo[i + 1]
  BY OtherShares
<1>3. ShareOK(todo[1], p, c, r) BY <1>1 DEF TodoOK
<1>4. /\ ShareOK(one, p, c, r) /\ one \in Share
      /\ one.account = todo[1].account /\ one.credentials = todo[1].credentials
      /\ \A k \in DOMAIN one.listens :
            n + k \in DOMAIN todo[1].listens /\ one.listens[k] = todo[1].listens[n + k]
  BY <1>3, RestOfShareOK
<1>5. GoOn(todo, n) = new BY DEF GoOn
<1> HIDE DEF one, tail
<1>6. <<one>> \in Seq(Share) /\ Len(<<one>>) = 1 /\ <<one>>[1] = one BY <1>4
<1>7. /\ new \in Seq(Share) /\ Len(new) = 1 + Len(tail)
      /\ \A i \in 1 .. 1 + Len(tail) : new[i] = IF i <= 1 THEN <<one>>[i] ELSE tail[i - 1]
  BY <1>2, <1>6, ConcatProperties
<1>8. Len(tail) \in Nat /\ DOMAIN tail = 1..Len(tail) /\ Len(tail) = Len(todo) - 1 BY <1>2
<1> HIDE DEF new
<1>9. new[1] = one BY <1>6, <1>7, <1>8
<1>10. ASSUME NEW i \in DOMAIN todo, i # 1 PROVE new[i] = todo[i]
  <2>1. i \in 1 .. 1 + Len(tail) /\ ~(i <= 1) /\ i - 1 \in DOMAIN tail /\ (i - 1) + 1 = i
    BY <1>1, <1>8, <1>10
  <2>2. QED BY <1>2, <1>7, <2>1
<1>11. DOMAIN new = DOMAIN todo /\ new # << >> BY <1>1, <1>7, <1>8
<1>12. \A i \in DOMAIN new : ShareOK(new[i], p, c, r) BY <1>4, <1>9, <1>10, <1>11 DEF TodoOK
<1>13. ASSUME NEW i \in DOMAIN new, NEW j \in DOMAIN new, i # j PROVE Apart(new[i], new[j])
  <2>1. Apart(todo[i], todo[j]) BY <1>11, <1>13 DEF TodoOK
  <2>2. CASE i # 1 /\ j # 1 BY <1>10, <1>11, <2>1, <2>2
  <2>3. CASE i = 1
    <3>1. new[i] = one /\ new[j] = todo[j] BY <1>9, <1>10, <1>11, <1>13, <2>3
    <3>2. Apart(one, todo[j]) BY <1>4, <2>1, <2>3 DEF Apart
    <3>3. QED BY <3>1, <3>2
  <2>4. CASE j = 1
    <3>1. new[j] = one /\ new[i] = todo[i] BY <1>9, <1>10, <1>11, <1>13, <2>4
    <3>2. Apart(todo[i], one) BY <1>4, <2>1, <2>4 DEF Apart
    <3>3. QED BY <3>1, <3>2
  <2>5. QED BY <2>2, <2>3, <2>4
<1>14. TodoOK(new, p, c, r) BY <1>7, <1>12, <1>13 DEF TodoOK
<1>15. QED BY <1>5, <1>9, <1>10, <1>11, <1>14 DEF one

LEMMA RecordKeeps ==
    ASSUME OutboxIInv, Record
    PROVE  OutboxIInv'
<1> USE DEF OutboxIInv
<1> DEFINE B == Numbers(Batch)
           ids == {l.id : l \in ToSet(Batch)}
           left == {i \in DOMAIN queue : queue[i].id \notin ids}
           rest == SubSeq(Current.listens, Len(Batch) + 1, Len(Current.listens))
           on  == <<[Current EXCEPT !.listens = rest]>> \o Tail(worker.todo)
           todo == IF worker.status \notin {"ok", "drop"} \/ rest = << >> THEN Tail(worker.todo) ELSE on
<1>1. /\ UNCHANGED <<jobs, budget, played, saves, toggles, crashes, sent, doubtful>>
      /\ worker.pc = "answered"
      /\ queue' = IF Deletes(worker.status) THEN Kept(queue, left) ELSE queue
      /\ gone' = IF worker.status = "drop" THEN gone \cup B ELSE gone
      /\ IF worker.status = "invalid_auth"
         THEN /\ connection' = [connection EXCEPT ![Current.account].broken = Connected(Current.account)]
              /\ refused' = refused \cup {Current.credentials}
         ELSE UNCHANGED <<connection, refused>>
  BY DEF Record, bounds
<1>2. worker' = IF todo = << >> THEN Idle ELSE [Idle EXCEPT !.pc = "sending", !.todo = todo]
  BY DEF Record, GoesOn
<1>3. /\ 1 \in DOMAIN worker.todo /\ Current = worker.todo[1] /\ Current \in Share
      /\ ShareOK(Current, played, saves, refused)
      /\ Len(Batch) = IF Len(Current.listens) < BatchSize THEN Len(Current.listens) ELSE BatchSize
      /\ \A n : n \in B <=> \E k \in DOMAIN Current.listens : k <= BatchSize /\ Current.listens[k].nr = n
      /\ ids = B /\ B \subseteq 1..played
  BY <1>1, BatchOf
<1>4. worker.status \in Statuses /\ worker.todo # << >> /\ TodoOK(worker.todo, played, saves, refused)
  BY <1>1 DEF TypeOK, Worker, WorkerOK
<1>5. Current.account \in Accounts /\ Current.credentials \in (1..saves) \ refused
      /\ Current.listens \in Seq(Listen)
  BY <1>3 DEF Share, ShareOK
<1>6. BatchSize \in Nat /\ Len(Batch) \in Nat BY <1>3, <1>5, SizesAssumption
<1>7. /\ TodoOK(Tail(worker.todo), played, saves, refused \cup {Current.credentials})
      /\ TodoOK(Tail(worker.todo), played, saves, refused)
      /\ \A i \in DOMAIN Tail(worker.todo) :
            i + 1 \in DOMAIN worker.todo /\ i + 1 # 1 /\ Tail(worker.todo)[i] = worker.todo[i + 1]
  BY <1>3, <1>4, OtherShares
<1>7a. on = GoOn(worker.todo, Len(Batch)) BY <1>3 DEF GoOn, RestOfShare
<1> HIDE DEF on, B, ids, rest
<1>7b. /\ TodoOK(on, played, saves, refused) /\ DOMAIN on = DOMAIN worker.todo
       /\ on[1] = RestOfShare(Current, Len(Batch))
       /\ \A i \in DOMAIN worker.todo : i # 1 => on[i] = worker.todo[i]
  BY <1>3, <1>4, <1>6, <1>7a, RestOfJob
<1>7c. /\ on[1].account = Current.account /\ on[1].credentials = Current.credentials
       /\ \A k \in DOMAIN on[1].listens :
             Len(Batch) + k \in DOMAIN Current.listens
             /\ on[1].listens[k] = Current.listens[Len(Batch) + k]
  <2>1. PICK s : s = Current OBVIOUS
  <2>2. PICK n \in Nat : n = Len(Batch) BY <1>6
  <2>3. ShareOK(s, played, saves, refused) BY <1>3, <2>1
  <2>4. on[1] = RestOfShare(s, n) BY <1>7b, <2>1, <2>2
  <2>5. /\ RestOfShare(s, n).account = s.account
        /\ RestOfShare(s, n).credentials = s.credentials
        /\ \A k \in DOMAIN RestOfShare(s, n).listens :
              n + k \in DOMAIN s.listens /\ RestOfShare(s, n).listens[k] = s.listens[n + k]
    BY <2>3, RestOfShareOK
  <2>6. QED BY <2>1, <2>2, <2>4, <2>5
<1>8. \A i \in DOMAIN worker.todo : \A k \in DOMAIN worker.todo[i].listens :
          ~InBatch(i, k) => Clean(worker.todo[i].listens[k].nr)
  BY <1>1 DEF WorkerOK
<1>9. ASSUME NEW i \in DOMAIN todo
      PROVE  /\ \E j \in DOMAIN worker.todo : todo[i].account = worker.todo[j].account
                                              /\ todo[i].credentials = worker.todo[j].credentials
             /\ \A k \in DOMAIN todo[i].listens : Clean(todo[i].listens[k].nr)
  <2>1. CASE todo = Tail(worker.todo)
    <3>1. i + 1 \in DOMAIN worker.todo /\ i + 1 # 1 /\ todo[i] = worker.todo[i + 1] BY <1>7, <2>1
    <3>2. QED BY <1>8, <3>1 DEF InBatch
  <2>2. CASE todo = on
    <3>0. i \in DOMAIN worker.todo /\ todo[i] = on[i] /\ (i # 1 => todo[i] = worker.todo[i])
      BY <1>7b, <2>2
    <3> HIDE DEF todo
    <3>1. CASE i # 1 BY <1>8, <3>0, <3>1 DEF InBatch
    <3>2. CASE i = 1
      <4> SUFFICES ASSUME NEW k \in DOMAIN on[1].listens PROVE Clean(on[1].listens[k].nr)
        BY <1>3, <1>7c, <3>0, <3>2
      <4>1. /\ Len(Batch) + k \in DOMAIN Current.listens
            /\ on[1].listens[k] = Current.listens[Len(Batch) + k]
        BY <1>7c
      <4>2. Len(Batch) + k \in 1..Len(Current.listens) /\ Len(Current.listens) \in Nat BY <1>5, <4>1
      <4>3. k \in Nat /\ k >= 1
        <5>1. on[1].listens \in Seq(Listen) BY <1>7b, <3>0, <3>2 DEF TodoOK, ShareOK, RowsOK
        <5>2. QED BY <5>1
      <4>4. ~(Len(Batch) + k <= BatchSize) BY <1>3, <1>6, <4>2, <4>3
      <4>5. QED BY <1>3, <1>8, <4>1, <4>4 DEF InBatch
    <3>3. QED BY <3>1, <3>2
  <2>3. QED BY <2>1, <2>2
<1>10. TodoOK(todo, played, saves, refused')
  <2>1. CASE worker.status = "invalid_auth"
    <3>1. todo = Tail(worker.todo) /\ refused' = refused \cup {Current.credentials} BY <1>1, <2>1
    <3>2. QED BY <1>7, <3>1
  <2>2. CASE worker.status # "invalid_auth"
    <3>1. refused' = refused /\ todo \in {Tail(worker.todo), on} BY <1>1, <2>2
    <3>2. QED BY <1>7, <1>7b, <3>1
  <2>3. QED BY <2>1, <2>2
<1> HIDE DEF todo
<1>11. /\ worker' \in Worker
       /\ worker' = Idle \/ (worker'.pc = "sending" /\ worker'.todo = todo /\ todo # << >>)
  <2>1. Idle \in Worker BY DEF Idle, Worker, Statuses
  <2>2. todo \in Seq(Share) BY <1>10 DEF TodoOK
  <2>3. PICK t \in Seq(Share) : t = todo BY <2>2
  <2>4. worker' = IF t = << >> THEN Idle ELSE [Idle EXCEPT !.pc = "sending", !.todo = t] BY <1>2, <2>3
  <2>5. /\ [Idle EXCEPT !.pc = "sending", !.todo = t].pc = "sending"
        /\ [Idle EXCEPT !.pc = "sending", !.todo = t].todo = t
        /\ [Idle EXCEPT !.pc = "sending", !.todo = t] \in Worker
    BY ONLY t \in Seq(Share) DEF Idle, Worker, Statuses
  <2>6. QED BY <2>1, <2>3, <2>4, <2>5
<1>12. WorkerOK'
  <2>1. CASE worker' = Idle BY <2>1, NoTodo DEF WorkerOK, Idle
  <2>2. CASE worker'.pc = "sending" /\ worker'.todo = todo /\ todo # << >>
    BY <1>1, <1>9, <1>10, <2>2 DEF WorkerOK, Clean
  <2>3. QED BY <1>11, <2>1, <2>2
<1>13. /\ RowsOK(queue', played)
       /\ \A k \in DOMAIN queue' : \E i \in DOMAIN queue :
             queue'[k] = queue[i] /\ (Deletes(worker.status) => queue[i].nr \notin B)
       /\ \A i \in DOMAIN queue : (Deletes(worker.status) => queue[i].nr \notin B) =>
             \E k \in DOMAIN queue' : queue'[k] = queue[i]
  <2>1. RowsOK(queue, played) /\ \A i \in DOMAIN queue : queue[i].id = queue[i].nr BY DEF QueueOK, RowsOK
  <2>2. CASE ~Deletes(worker.status)
    <3>1. queue' = queue BY <1>1, <2>2
    <3>2. QED BY <2>1, <2>2, <3>1
  <2>3. CASE Deletes(worker.status)
    <3>1. queue' = Kept(queue, left) BY <1>1, <2>3
    <3>2. left = {i \in DOMAIN queue : queue[i].nr \notin B} BY <1>3, <2>1
    <3> HIDE DEF left
    <3>3. /\ RowsOK(queue', played)
          /\ \A k \in DOMAIN queue' : \E i \in left \cap DOMAIN queue : queue'[k] = queue[i]
          /\ \A i \in left \cap DOMAIN queue : \E k \in DOMAIN queue' : queue'[k] = queue[i]
      BY <2>1, <3>1, KeptRows
    <3>4. left \cap DOMAIN queue = left BY <3>2
    <3>5. \A i \in left : i \in DOMAIN queue /\ queue[i].nr \notin B BY <3>2
    <3>6. \A i \in DOMAIN queue : queue[i].nr \notin B => i \in left BY <3>2
    <3>7. QED BY <2>3, <3>3, <3>4, <3>5, <3>6
  <2>4. QED BY <2>2, <2>3
<1>14. QueueOK'
  <2>1. ASSUME NEW i \in DOMAIN queue, Deletes(worker.status) => queue[i].nr \notin B
        PROVE  Clean(queue[i].nr)
    <3>1. Unrecorded = IF worker.status = "ok" THEN B ELSE {} BY <1>1 DEF Unrecorded, B
    <3>2. queue[i].nr \notin Unrecorded BY <2>1, <3>1 DEF Deletes
    <3>3. QED BY <3>2 DEF QueueOK
  <2>2. \A k \in DOMAIN queue' : Clean(queue'[k].nr) BY <1>13, <2>1
  <2>3. QED BY <1>1, <1>13, <2>2 DEF QueueOK, Clean
<1>15. \A a \in Accounts :
          /\ connection'[a].credentials = connection[a].credentials
          /\ worker.status = "invalid_auth" /\ a = Current.account => connection'[a].broken = Connected(a)
          /\ a # Current.account \/ worker.status # "invalid_auth" => connection'[a].broken = connection[a].broken
  BY <1>1, <1>5 DEF TypeOK, Connection
<1>16. CredentialsOK'
  <2>1. ASSUME NEW a \in Accounts, Connected(a), ~connection'[a].broken
        PROVE  connection[a].credentials \notin refused'
    <3>1. CASE worker.status # "invalid_auth" BY <1>1, <1>15, <2>1, <3>1 DEF CredentialsOK
    <3>2. CASE worker.status = "invalid_auth"
      <4>1. a # Current.account BY <1>15, <2>1, <3>2
      <4>2. connection[a].credentials \notin refused BY <1>15, <2>1, <4>1 DEF CredentialsOK
      <4>3. connection[a].credentials # Current.credentials BY <1>3, <4>1 DEF CredentialsOK
      <4>4. QED BY <1>1, <3>2, <4>2, <4>3
    <3>3. QED BY <3>1, <3>2
  <2>2. ASSUME NEW i \in DOMAIN worker'.todo, NEW a \in Accounts,
               worker'.todo[i].credentials = connection[a].credentials
        PROVE  worker'.todo[i].account = a
    <3>1. worker'.todo = todo BY <1>11, <2>2 DEF Idle
    <3>2. QED BY <1>9, <2>2, <3>1 DEF CredentialsOK
  <2>3. \A a \in Accounts : Connected(a)' <=> Connected(a) BY <1>15 DEF Connected
  <2>4. QED BY <1>1, <1>15, <2>1, <2>2, <2>3 DEF CredentialsOK
<1>17. TypeOK'
  <2>1. connection' \in [Accounts -> Connection]
    <3>1. connection \in [Accounts -> Connection] BY DEF TypeOK
    <3>2. connection[Current.account] \in Connection BY <1>5, <3>1
    <3>3. ASSUME NEW b \in BOOLEAN
          PROVE [connection EXCEPT ![Current.account].broken = b] \in [Accounts -> Connection]
      <4>1. [connection[Current.account] EXCEPT !.broken = b] \in Connection
        BY <3>2, <3>3 DEF Connection
      <4>2. [connection EXCEPT ![Current.account].broken = b]
            = [connection EXCEPT ![Current.account] = [connection[Current.account] EXCEPT !.broken = b]]
        BY <1>5, <3>1
      <4>3. QED BY <3>1, <4>1, <4>2
    <3>4. Connected(Current.account) \in BOOLEAN BY DEF Connected
    <3>5. QED BY <1>1, <3>1, <3>3, <3>4
  <2>2. queue' \in Seq(Listen) BY <1>13 DEF RowsOK
  <2>3. gone' \subseteq 1..played BY <1>1, <1>3 DEF TypeOK
  <2>4. refused' \subseteq 1..saves BY <1>1, <1>5 DEF TypeOK
  <2>5. QED BY <1>1, <1>11, <2>1, <2>2, <2>3, <2>4 DEF TypeOK
<1>18. NoListenLost'
  <2> SUFFICES ASSUME NEW n \in 1..played, ~(sent[n] > 0), n \notin gone' PROVE Queued(n)'
    BY <1>1 DEF NoListenLost
  <2>1. n \notin gone /\ (worker.status = "drop" => n \notin B) BY <1>1
  <2>2. worker.status = "ok" => n \notin B BY <1>1 DEF WorkerOK, B
  <2>3. PICK i \in DOMAIN queue : queue[i].nr = n BY <2>1 DEF NoListenLost, Queued, Numbers, ToSet
  <2>4. PICK k \in DOMAIN queue' : queue'[k] = queue[i] BY <1>13, <2>1, <2>2, <2>3 DEF Deletes
  <2>5. QED BY <2>3, <2>4 DEF Queued, Numbers, ToSet
<1>19. FutureUnsent' /\ SentOnce' BY <1>1 DEF FutureUnsent, SentOnce
<1>20. QED BY <1>12, <1>14, <1>16, <1>17, <1>18, <1>19

LEMMA OutboxInduction == OutboxIInv /\ [Next]_vars => OutboxIInv'
<1> SUFFICES ASSUME OutboxIInv, [Next]_vars PROVE OutboxIInv' OBVIOUS
<1>1. CASE UNCHANGED vars
  BY <1>1 DEF vars, bounds, ghosts, OutboxIInv, TypeOK, WorkerOK, QueueOK, CredentialsOK, FutureUnsent,
     NoListenLost, SentOnce, Clean, Batch, Current, Numbers, Unrecorded, Connected, Queued
<1>2. CASE Requests
  BY <1>2, SaveKeeps, DeleteKeeps, SwitchKeeps, ScrobbleKeeps DEF Requests
<1>3. CASE Next
  BY <1>2, <1>3, RetryKeeps, TakeKeeps, SendKeeps, RecordKeeps, StopKeeps DEF Next, Sends
<1>4. QED BY <1>1, <1>3

(* Every listen stays queued until its service took it, the user has        *)
(* disconnected, the service refused it, or it got too old; none is sent    *)
(* twice but when the server could not know that it was taken; and          *)
(* credentials that a service rejected are not used again (service.py).     *)
THEOREM OutboxIsSound == Spec => []OutboxSound
<1>1. OutboxIInv => OutboxSound
  <2> SUFFICES ASSUME OutboxIInv PROVE RejectedNotUsed BY DEF OutboxIInv, OutboxSound
  <2>1. \A i \in DOMAIN worker.todo : worker.todo[i].credentials \notin refused
    BY DEF OutboxIInv, WorkerOK, TodoOK, ShareOK
  <2>2. QED BY <2>1 DEF RejectedNotUsed, ToSet
<1>2. QED BY <1>1, OutboxStarts, OutboxInduction, PTL DEF Spec

-----------------------------------------------------------------------------
(***************************************************************************)
(* HLS sessions. The invariant has the types and the exact count of the    *)
(* encoding slots; that directories in use stay follows from what the      *)
(* steps that shorten the cache keep.                                      *)
(***************************************************************************)

HLSStates ==
    [pc : {"idle"}] \cup [pc : {"reserve", "encode", "discard"}, session : Sessions]

Slotted == {r \in HLSRequests : hlsReq[r].pc \in {"reserve", "encode"}}
TakesSlot(q) == q.pc \in {"reserve", "encode"}

HLSTypes ==
    /\ hlsFree \in Int /\ cache \in Seq(Sessions) /\ encoding \in SUBSET Sessions
    /\ hlsReq \in [HLSRequests -> HLSStates]

HLSInv == HLSTypes /\ HLSSlotsExact

(* What a list without some of its places still has.                        *)
LEMMA KeptHas ==
    ASSUME NEW T, NEW c \in Seq(T), NEW I, NEW d \in ToSet(c),
           \A i \in DOMAIN c : c[i] = d => i \in I
    PROVE  d \in ToSet(Kept(c, I))
<1>1. ToSet(Kept(c, I)) = {c[i] : i \in I \cap DOMAIN c} BY KeptElements
<1>2. PICK i \in DOMAIN c : c[i] = d BY DEF ToSet
<1>3. QED BY <1>1, <1>2

LEMMA AppendHas ==
    ASSUME NEW T, NEW c \in Seq(T), NEW s \in T
    PROVE  ToSet(Append(c, s)) = ToSet(c) \cup {s}
<1>1. DOMAIN Append(c, s) = 1..(Len(c) + 1) /\ DOMAIN c = 1..Len(c) /\ Len(c) \in Nat OBVIOUS
<1>2. \A i \in 1..Len(c) : Append(c, s)[i] = c[i] OBVIOUS
<1>3. Append(c, s)[Len(c) + 1] = s OBVIOUS
<1>4. \A i \in 1..(Len(c) + 1) : i \in 1..Len(c) \/ i = Len(c) + 1 BY <1>1
<1>5. ToSet(c) \cup {s} \subseteq ToSet(Append(c, s))
  <2>1. Len(c) + 1 \in DOMAIN Append(c, s) /\ \A i \in DOMAIN c : i \in DOMAIN Append(c, s) BY <1>1
  <2>2. QED BY <1>1, <1>2, <1>3, <2>1 DEF ToSet
<1>6. ToSet(Append(c, s)) \subseteq ToSet(c) \cup {s}
  BY <1>1, <1>2, <1>3, <1>4 DEF ToSet
<1>7. QED BY <1>5, <1>6

(* Only sessions that may be evicted are, however many it takes.            *)
LEMMA CappedKeeps ==
    ASSUME NEW c \in Seq(Sessions)
    PROVE  Capped(c) \in Seq(Sessions) /\ \A d \in ToSet(c) : d \in encoding => d \in ToSet(Capped(c))
<1> DEFINE old == {i \in DOMAIN c : c[i] \in Evictable(c)}
           kept(n) == Kept(c, {i \in DOMAIN c : i \in old => Rank(old, i) > n})
<1>1. \E n : Capped(c) = kept(n) BY DEF Capped
<1>2. PICK n : Capped(c) = kept(n) BY <1>1
<1>3. kept(n) \in Seq(Sessions) BY KeptOf
<1>4. ASSUME NEW d \in ToSet(c), d \in encoding PROVE d \in ToSet(kept(n))
  <2>1. \A i \in DOMAIN c : c[i] = d => i \in {j \in DOMAIN c : j \in old => Rank(old, j) > n}
    BY <1>4 DEF Evictable
  <2>2. QED BY <2>1, KeptHas
<1>5. QED BY <1>2, <1>3, <1>4

LEMMA WithoutKeeps ==
    ASSUME HLSInv, NEW s \in Sessions
    PROVE  /\ CacheWithout(s) \in Seq(Sessions) /\ UsedAt(s) \in Seq(Sessions)
           /\ \A d \in ToSet(cache) : d # s => d \in ToSet(CacheWithout(s))
           /\ \A d \in ToSet(cache) : d \in ToSet(UsedAt(s))
<1>1. cache \in Seq(Sessions) BY DEF HLSInv, HLSTypes
<1>2. CacheWithout(s) \in Seq(Sessions) BY <1>1, KeptOf DEF CacheWithout
<1>3. ASSUME NEW d \in ToSet(cache), d # s PROVE d \in ToSet(CacheWithout(s))
  BY <1>1, <1>3, KeptHas DEF CacheWithout
<1>4. ToSet(UsedAt(s)) = ToSet(CacheWithout(s)) \cup {s} BY <1>2, AppendHas DEF UsedAt
<1>5. UsedAt(s) \in Seq(Sessions) BY <1>2 DEF UsedAt
<1>6. QED BY <1>2, <1>3, <1>4, <1>5

LEMMA TailHas ==
    ASSUME NEW T, NEW c \in Seq(T), c # << >>
    PROVE  Tail(c) \in Seq(T) /\ \A d \in ToSet(c) : d # Head(c) => d \in ToSet(Tail(c))
<1>1. ASSUME NEW d \in ToSet(c), d # Head(c) PROVE d \in ToSet(Tail(c))
  <2>1. PICK i \in DOMAIN c : c[i] = d BY DEF ToSet
  <2>2. i \in 1..Len(c) /\ i # 1 BY <1>1, <2>1
  <2>3. i - 1 \in 1..Len(Tail(c)) /\ Tail(c)[i - 1] = c[i] BY <2>2
  <2>4. i - 1 \in DOMAIN Tail(c) BY <2>3
  <2>5. QED BY <2>1, <2>3, <2>4 DEF ToSet
<1>2. QED BY <1>1

-----------------------------------------------------------------------------
(* A request is among those with a slot, or joins or leaves them.           *)
LEMMA SlottedChanges ==
    ASSUME HLSTypes, HLSTypes', NEW r \in HLSRequests, NEW q,
           hlsReq' = [hlsReq EXCEPT ![r] = q]
    PROVE  Cardinality(Slotted') =
               Cardinality(Slotted) + (IF TakesSlot(q) THEN 1 ELSE 0)
                                    - (IF r \in Slotted THEN 1 ELSE 0)
<1> DEFINE rest == Slotted \ {r}
<1>1. IsFiniteSet(Slotted) /\ IsFiniteSet(rest) BY HLSAssumption, FS_Subset DEF Slotted
<1>2. Cardinality(rest) \in Nat BY <1>1, FS_CardinalityType
<1>3. Cardinality(Slotted) = Cardinality(rest) + (IF r \in Slotted THEN 1 ELSE 0)
  <2>1. CASE r \in Slotted
    <3>1. Slotted = rest \cup {r} BY <2>1
    <3>2. Cardinality(rest \cup {r}) = Cardinality(rest) + 1 BY <1>1, FS_AddElement
    <3>3. QED BY <2>1, <3>1, <3>2
  <2>2. CASE r \notin Slotted
    <3>1. Slotted = rest BY <2>2
    <3>2. QED BY <1>2, <2>2, <3>1
  <2>3. QED BY <2>1, <2>2
<1>4. hlsReq'[r] = q /\ \A x \in HLSRequests \ {r} : hlsReq'[x] = hlsReq[x] BY DEF HLSTypes
<1>5. Cardinality(Slotted') = Cardinality(rest) + (IF TakesSlot(q) THEN 1 ELSE 0)
  <2>1. CASE TakesSlot(q)
    <3>1. Slotted' = rest \cup {r} BY <1>4, <2>1 DEF Slotted, TakesSlot
    <3>2. Cardinality(rest \cup {r}) = Cardinality(rest) + 1 BY <1>1, FS_AddElement
    <3>3. QED BY <2>1, <3>1, <3>2
  <2>2. CASE ~TakesSlot(q)
    <3>1. Slotted' = rest BY <1>4, <2>2 DEF Slotted, TakesSlot
    <3>2. QED BY <1>2, <2>2, <3>1
  <2>3. QED BY <2>1, <2>2
<1> HIDE DEF rest
<1>6. QED BY <1>2, <1>3, <1>5

LEMMA SlottedIsFinite == Cardinality(Slotted) \in Nat /\ IsFiniteSet(Slotted)
BY HLSAssumption, FS_Subset, FS_CardinalityType DEF Slotted

LEMMA HLSStarts == HLSInit => HLSInv
<1> SUFFICES ASSUME HLSInit PROVE HLSInv OBVIOUS
<1>1. HLSTypes BY HLSAssumption DEF HLSInit, HLSTypes, HLSStates, NoHLS
<1>2. {r \in HLSRequests : hlsReq[r].pc \in {"reserve", "encode"}} = {} BY DEF HLSInit, NoHLS
<1>3. HLSMax = HLSMax - 0 BY HLSAssumption
<1>4. QED BY <1>1, <1>2, <1>3, FS_EmptySet DEF HLSInit, HLSInv, HLSSlotsExact

-----------------------------------------------------------------------------
(* What a step owes: the invariant, and a directory that is written stays.  *)
StaysHere ==
    \A s \in encoding \cap encoding' : There(s) /\ ~There(s)' =>
        \E r \in HLSRequests : hlsReq[r] = [pc |-> "discard", session |-> s]

Kind(r, s) == hlsReq[r] = [pc |-> "encode", session |-> s]

LEMMA AskKeeps ==
    ASSUME HLSInv, NEW r \in HLSRequests, NEW s \in Sessions, AskHLS(r, s)
    PROVE  HLSInv' /\ StaysHere
<1> DEFINE q == [pc |-> "reserve", session |-> s]
<1>1. CASE There(s)
  <2>1. cache' = UsedAt(s) /\ UNCHANGED <<hlsFree, hlsReq, encoding>> BY <1>1 DEF AskHLS
  <2>2. HLSInv' BY <2>1, WithoutKeeps DEF HLSInv, HLSTypes, HLSSlotsExact
  <2>3. StaysHere BY <2>1, WithoutKeeps DEF StaysHere, There
  <2>4. QED BY <2>2, <2>3
<1>2. CASE ~There(s)
  <2>1. /\ hlsFree' = hlsFree - 1 /\ hlsReq' = [hlsReq EXCEPT ![r] = q] /\ hlsReq[r] = NoHLS
        /\ UNCHANGED <<cache, encoding>>
    BY <1>2 DEF AskHLS
  <2>2. HLSTypes' BY <2>1 DEF HLSInv, HLSTypes, HLSStates
  <2>3. Cardinality(Slotted') = Cardinality(Slotted) + 1
    <3>1. r \notin Slotted BY <2>1 DEF Slotted, NoHLS
    <3>2. TakesSlot(q) BY DEF TakesSlot
    <3> HIDE DEF q
    <3>3. Cardinality(Slotted') = Cardinality(Slotted) + 1 - 0
      BY <2>1, <2>2, <3>1, <3>2, SlottedChanges DEF HLSInv
    <3>4. QED BY <3>3, SlottedIsFinite
  <2>4. hlsFree' = HLSMax - Cardinality(Slotted')
    BY <2>1, <2>3, SlottedIsFinite, HLSAssumption DEF HLSInv, HLSSlotsExact, Slotted
  <2>5. ASSUME NEW d \in encoding' PROVE \E x \in HLSRequests : hlsReq'[x] = [pc |-> "encode", session |-> d]
    <3>1. PICK x \in HLSRequests : hlsReq[x] = [pc |-> "encode", session |-> d]
      BY <2>1, <2>5 DEF HLSInv, HLSSlotsExact
    <3>2. x # r BY <2>1, <3>1 DEF NoHLS
    <3>3. QED BY <2>1, <3>1, <3>2 DEF HLSInv, HLSTypes
  <2>6. HLSSlotsExact' BY <2>4, <2>5 DEF HLSSlotsExact, Slotted
  <2>7. StaysHere BY <2>1 DEF StaysHere, There
  <2>8. QED BY <2>2, <2>6, <2>7 DEF HLSInv
<1>3. QED BY <1>1, <1>2

(* A request goes from one state to another, and a slot with it.            *)
LEMMA RequestMoves ==
    ASSUME HLSInv, NEW r \in HLSRequests, NEW q \in HLSStates, NEW back \in {0, 1},
           hlsReq' = [hlsReq EXCEPT ![r] = q], hlsFree' = hlsFree + back,
           hlsReq[r].pc \in {"reserve", "encode", "discard"},
           \/ back = 1 /\ r \in Slotted /\ ~TakesSlot(q)
           \/ back = 0 /\ (r \in Slotted <=> TakesSlot(q)),
           cache' \in Seq(Sessions), encoding' \in SUBSET Sessions,
           \A d \in encoding' : \/ q = [pc |-> "encode", session |-> d]
                                \/ d \in encoding /\ ~Kind(r, d)
    PROVE  HLSInv'
<1>1. HLSTypes' BY DEF HLSInv, HLSTypes
<1>2. hlsFree' = HLSMax - Cardinality(Slotted')
  <2> DEFINE was == IF r \in Slotted THEN 1 ELSE 0
             is == IF TakesSlot(q) THEN 1 ELSE 0
  <2>1. Cardinality(Slotted') = Cardinality(Slotted) + is - was
    BY <1>1, SlottedChanges DEF HLSInv
  <2>2. back = was - is OBVIOUS
  <2>3. hlsFree = HLSMax - Cardinality(Slotted) BY DEF HLSInv, HLSSlotsExact, Slotted
  <2>4. Cardinality(Slotted) \in Nat /\ HLSMax \in Nat BY SlottedIsFinite, HLSAssumption
  <2>5. was \in Int /\ is \in Int OBVIOUS
  <2> HIDE DEF was, is
  <2>6. QED BY <2>1, <2>2, <2>3, <2>4, <2>5
<1>3. ASSUME NEW d \in encoding' PROVE \E x \in HLSRequests : hlsReq'[x] = [pc |-> "encode", session |-> d]
  <2>1. hlsReq'[r] = q BY DEF HLSInv, HLSTypes
  <2>2. CASE q = [pc |-> "encode", session |-> d] BY <2>1, <2>2
  <2>3. CASE d \in encoding /\ ~Kind(r, d)
    <3>1. PICK x \in HLSRequests : hlsReq[x] = [pc |-> "encode", session |-> d]
      BY <2>3 DEF HLSInv, HLSSlotsExact
    <3>2. x # r BY <2>3, <3>1 DEF Kind
    <3>3. hlsReq'[x] = hlsReq[x] BY <3>2 DEF HLSInv, HLSTypes
    <3>4. QED BY <3>1, <3>3
  <2>4. QED BY <2>2, <2>3
<1>4. QED BY <1>1, <1>2, <1>3 DEF HLSInv, HLSSlotsExact, Slotted

LEMMA ReserveKeeps ==
    ASSUME HLSInv, NEW r \in HLSRequests, Reserve(r)
    PROVE  HLSInv' /\ StaysHere
<1> DEFINE s == hlsReq[r].session
           left == Capped(cache)
<1>1. hlsReq[r].pc = "reserve" /\ s \in Sessions /\ r \in Slotted
  BY DEF Reserve, HLSInv, HLSTypes, HLSStates, Slotted
<1>2. /\ cache \in Seq(Sessions) /\ left \in Seq(Sessions)
      /\ \A d \in ToSet(cache) : d \in encoding => d \in ToSet(left)
  BY CappedKeeps DEF HLSInv, HLSTypes
<1>3. \A d : ~Kind(r, d) BY <1>1 DEF Kind
<1> HIDE DEF left, s
<1>4. ASSUME RefusedHLS(r), cache' \in {cache, left}, encoding' = encoding PROVE HLSInv' /\ StaysHere
  <2>1. NoHLS \in HLSStates /\ ~TakesSlot(NoHLS) BY DEF NoHLS, HLSStates, TakesSlot
  <2>2. hlsReq' = [hlsReq EXCEPT ![r] = NoHLS] /\ hlsFree' = hlsFree + 1 BY <1>4 DEF RefusedHLS
  <2>3. cache' \in Seq(Sessions) /\ encoding' \in SUBSET Sessions BY <1>2, <1>4 DEF HLSInv, HLSTypes
  <2>4. HLSInv'
    <3>1. \A d \in encoding' : d \in encoding /\ ~Kind(r, d) BY <1>3, <1>4
    <3> DEFINE back == 1
    <3>2. back \in {0, 1} /\ (back = 1 /\ r \in Slotted /\ ~TakesSlot(NoHLS)) /\ hlsFree' = hlsFree + back
      BY <1>1, <2>1, <2>2
    <3> HIDE DEF back
    <3>3. QED BY <1>1, <2>1, <2>2, <2>3, <3>1, <3>2, RequestMoves
  <2>5. StaysHere BY <1>2, <1>4 DEF StaysHere, There
  <2>6. QED BY <2>4, <2>5
<1>5. CASE There(s)
  <2>1. RefusedHLS(r) /\ cache' = cache /\ encoding' = encoding BY <1>5 DEF Reserve, s
  <2>2. QED BY <1>4, <2>1
<1>6. CASE ~There(s) /\ Total(left) > HLSCacheMax
  <2>1. RefusedHLS(r) /\ cache' = left /\ encoding' = encoding BY <1>6 DEF Reserve, s, left
  <2>2. QED BY <1>4, <2>1
<1>7. CASE ~There(s) /\ ~(Total(left) > HLSCacheMax)
  <2> DEFINE q == [hlsReq[r] EXCEPT !.pc = "encode"]
  <2>1. /\ cache' = Append(left, s) /\ encoding' = encoding \cup {s}
        /\ hlsReq' = [hlsReq EXCEPT ![r].pc = "encode"] /\ hlsFree' = hlsFree
    BY <1>7 DEF Reserve, s, left
  <2>2. hlsReq' = [hlsReq EXCEPT ![r] = q] BY <2>1 DEF HLSInv, HLSTypes
  <2>3. hlsReq[r] \in [pc : {"reserve", "encode", "discard"}, session : Sessions]
    BY <1>1 DEF HLSInv, HLSTypes, HLSStates
  <2>4. q \in HLSStates /\ TakesSlot(q) /\ q = [pc |-> "encode", session |-> s]
    BY <2>3 DEF HLSStates, TakesSlot, s
  <2>5. cache' \in Seq(Sessions) /\ encoding' \in SUBSET Sessions BY <1>1, <1>2, <2>1 DEF HLSInv, HLSTypes
  <2>6. hlsFree' = hlsFree + 0 BY <2>1 DEF HLSInv, HLSTypes
  <2> HIDE DEF q
  <2>7. HLSInv' BY <1>1, <1>3, <2>1, <2>2, <2>4, <2>5, <2>6, RequestMoves
  <2>8. ToSet(cache') = ToSet(left) \cup {s} BY <1>1, <1>2, <2>1, AppendHas
  <2>9. StaysHere BY <1>2, <2>8 DEF StaysHere, There
  <2>10. QED BY <2>7, <2>9
<1>8. QED BY <1>5, <1>6, <1>7

LEMMA EndKeeps ==
    ASSUME HLSInv, NEW r \in HLSRequests, NEW failed \in BOOLEAN, EncodeEnds(r, failed)
    PROVE  HLSInv' /\ StaysHere
<1> DEFINE q == IF failed THEN [hlsReq[r] EXCEPT !.pc = "discard"] ELSE NoHLS
<1>1. /\ hlsReq[r].pc = "encode" /\ encoding' = encoding \ {hlsReq[r].session}
      /\ hlsFree' = hlsFree + 1 /\ UNCHANGED cache
  BY DEF EncodeEnds
<1>2. hlsReq[r] \in [pc : {"reserve", "encode", "discard"}, session : Sessions] /\ r \in Slotted
  BY <1>1 DEF HLSInv, HLSTypes, HLSStates, Slotted
<1>3. q \in HLSStates /\ ~TakesSlot(q) BY <1>2 DEF HLSStates, NoHLS, TakesSlot
<1>4. hlsReq' = [hlsReq EXCEPT ![r] = q] BY DEF EncodeEnds
<1>5. \A d \in encoding' : d \in encoding /\ ~Kind(r, d) BY <1>1 DEF Kind
<1>6. cache' \in Seq(Sessions) /\ encoding' \in SUBSET Sessions BY <1>1 DEF HLSInv, HLSTypes
<1> HIDE DEF q
<1>7. HLSInv'
  <2> DEFINE back == 1
  <2>1. back \in {0, 1} /\ (back = 1 /\ r \in Slotted /\ ~TakesSlot(q)) /\ hlsFree' = hlsFree + back
    BY <1>1, <1>2, <1>3
  <2> HIDE DEF back
  <2>2. QED BY <1>1, <1>3, <1>4, <1>5, <1>6, <2>1, RequestMoves
<1>8. StaysHere BY <1>1 DEF StaysHere, There
<1>9. QED BY <1>7, <1>8

LEMMA DiscardKeeps ==
    ASSUME HLSInv, NEW r \in HLSRequests, Discard(r)
    PROVE  HLSInv' /\ StaysHere
<1> DEFINE s == hlsReq[r].session
<1>1. /\ hlsReq[r].pc = "discard" /\ cache' = CacheWithout(s)
      /\ hlsReq' = [hlsReq EXCEPT ![r] = NoHLS] /\ UNCHANGED <<hlsFree, encoding>>
  BY DEF Discard
<1>2. s \in Sessions /\ hlsReq[r] = [pc |-> "discard", session |-> s] /\ r \notin Slotted
  BY <1>1 DEF HLSInv, HLSTypes, HLSStates, Slotted
<1> HIDE DEF s
<1>3. NoHLS \in HLSStates /\ ~TakesSlot(NoHLS) BY DEF NoHLS, HLSStates, TakesSlot
<1>4. \A d : ~Kind(r, d) BY <1>1 DEF Kind
<1>5. cache' \in Seq(Sessions) /\ encoding' \in SUBSET Sessions /\ hlsFree' = hlsFree + 0
  BY <1>1, <1>2, WithoutKeeps DEF HLSInv, HLSTypes
<1>6. HLSInv' BY <1>1, <1>2, <1>3, <1>4, <1>5, RequestMoves
<1>7. StaysHere BY <1>1, <1>2, WithoutKeeps DEF StaysHere, There
<1>8. QED BY <1>6, <1>7

LEMMA HLSStep ==
    ASSUME HLSInv, [HLSNext]_hlsVars PROVE HLSInv' /\ StaysHere
<1>1. ASSUME NEW r \in HLSRequests, NEW s \in Sessions, AskHLS(r, s) PROVE HLSInv' /\ StaysHere
  BY <1>1, AskKeeps
<1>2. ASSUME NEW r \in HLSRequests, NEW failed \in BOOLEAN, EncodeEnds(r, failed) PROVE HLSInv' /\ StaysHere
  BY <1>2, EndKeeps
<1>3. ASSUME NEW r \in HLSRequests, Reserve(r) PROVE HLSInv' /\ StaysHere BY <1>3, ReserveKeeps
<1>4. ASSUME NEW r \in HLSRequests, Segment(r) PROVE HLSInv' /\ StaysHere
  BY <1>4 DEF Segment, HLSInv, HLSTypes, HLSSlotsExact, StaysHere, There
<1>5. ASSUME NEW r \in HLSRequests, Discard(r) PROVE HLSInv' /\ StaysHere BY <1>5, DiscardKeeps
<1>6. ASSUME NEW s \in Sessions, ServeSegment(s) PROVE HLSInv' /\ StaysHere
  <2>1. cache' = UsedAt(s) /\ UNCHANGED <<hlsFree, hlsReq, encoding>> BY <1>6 DEF ServeSegment
  <2>2. HLSInv' BY <2>1, WithoutKeeps DEF HLSInv, HLSTypes, HLSSlotsExact
  <2>3. StaysHere BY <2>1, WithoutKeeps DEF StaysHere, There
  <2>4. QED BY <2>2, <2>3
<1>7. ASSUME PurgeOld PROVE HLSInv' /\ StaysHere
  <2>1. cache # << >> /\ Head(cache) \notin encoding /\ cache' = Tail(cache) /\ UNCHANGED <<hlsFree, hlsReq, encoding>>
    BY <1>7 DEF PurgeOld
  <2>2. cache \in Seq(Sessions) BY DEF HLSInv, HLSTypes
  <2>3. Tail(cache) \in Seq(Sessions) /\ \A d \in ToSet(cache) : d # Head(cache) => d \in ToSet(Tail(cache))
    BY <2>1, <2>2, TailHas
  <2>4. HLSInv'
    <3>1. HLSTypes' BY <2>1, <2>3 DEF HLSInv, HLSTypes
    <3>2. HLSSlotsExact' BY <2>1 DEF HLSInv, HLSSlotsExact
    <3>3. QED BY <3>1, <3>2 DEF HLSInv
  <2>5. StaysHere BY <2>1, <2>3, Zenon DEF StaysHere, There
  <2>6. QED BY <2>4, <2>5
<1>8. CASE UNCHANGED hlsVars
  BY <1>8 DEF hlsVars, HLSInv, HLSTypes, HLSSlotsExact, StaysHere, There
<1>9. QED BY <1>1, <1>2, <1>3, <1>4, <1>5, <1>6, <1>7, <1>8 DEF HLSNext

(* For any requests, sessions and sizes: the slots of HLS are those of      *)
(* requests that reserve or encode, and no directory that ffmpeg writes to  *)
(* is taken away to make room.                                              *)
THEOREM HLSIsSound == HLSSpec => HLSHolds
<1>1. HLSInv => HLSSlotsExact BY DEF HLSInv
<1>2. HLSSpec => []HLSInv BY HLSStarts, HLSStep, PTL DEF HLSSpec
<1>3. HLSInv /\ [HLSNext]_hlsVars => [StaysHere]_hlsVars BY HLSStep
<1>4. QED BY <1>1, <1>2, <1>3, PTL DEF HLSSpec, HLSHolds, EncodedStays, StaysHere

-----------------------------------------------------------------------------
(***************************************************************************)
(* The choice of a stream. Of an answer the invariant says what it was     *)
(* made for, so that the request that follows a decision, under the same   *)
(* limit and settings, comes to the same.                                  *)
(***************************************************************************)

DirectFor(a) ==
    /\ a.song \in Songs /\ a.under \in Nat /\ a.by \in Servers
    /\ ~a.by.norm /\ ~a.by.healing
    /\ a.under > 0 => a.song.bitrate <= a.under

TranscodeFor(a) ==
    /\ a.under > 0 => a.bitrate <= a.under /\ a.format \notin Lossless
    /\ a.song.format \notin Lossless => a.format \notin Lossless /\ a.bitrate <= a.song.bitrate

AnswerIs(a) ==
    a = NotAsked \/ (/\ a.is = "direct" => DirectFor(a)
                     /\ a.is = "whole" => (a.under > 0 => a.song.bitrate <= a.under)
                     /\ a.is = "encoded" => (a.under > 0 => a.bitrate <= a.under)
                     /\ a.is \in {"transcode", "sent"} => TranscodeFor(a))

ChoiceInv ==
    /\ limit \in Bitrates /\ server \in Servers
    /\ AnswerIs(answer)

LEMMA CapsAreLeast ==
    ASSUME NEW a \in Nat, NEW b \in Nat
    PROVE  /\ Capped0(a, b) \in Nat
           /\ a > 0 => Capped0(a, b) > 0 /\ Capped0(a, b) <= a
           /\ b > 0 => Capped0(a, b) > 0 /\ Capped0(a, b) <= b
BY DEF Capped0, Least

(* The container is one the client asks for that may be chosen, or mp3.     *)
LEMMA Containers ==
    ASSUME ChoiceInv, NEW song \in Songs, NEW profiles \in Profiles,
           NEW target, target = Kept(profiles, {i \in DOMAIN profiles : Selectable(song, profiles[i])})
    PROVE  target # << >> => Selectable(song, Head(target))
<1> SUFFICES ASSUME target # << >> PROVE Selectable(song, Head(target)) OBVIOUS
<1> DEFINE I == {i \in DOMAIN profiles : Selectable(song, profiles[i])}
           C == UNION {ToSet(p) : p \in Profiles}
<1>1. profiles \in Seq(C) BY ChoiceAssumption
<1> HIDE DEF C
<1>2. target \in Seq(C) BY <1>1, KeptOf
<1>3. ToSet(target) = {profiles[i] : i \in I \cap DOMAIN profiles}
  <2>1. target = Kept(profiles, I) OBVIOUS
  <2> HIDE DEF I
  <2>2. QED BY <1>1, <2>1, KeptElements
<1>4. Head(target) \in ToSet(target)
  <2>1. 1 \in DOMAIN target /\ Head(target) = target[1] BY <1>2
  <2>2. QED BY <2>1 DEF ToSet
<1>5. QED BY <1>3, <1>4

LEMMA DecideKeeps ==
    ASSUME ChoiceInv, NEW song \in Songs, NEW plays \in BOOLEAN, NEW profiles \in Profiles,
           NEW rate \in Bitrates, rate > 0, Decide(song, plays, profiles, rate)
    PROVE  ChoiceInv'
<1> DEFINE target == Kept(profiles, {i \in DOMAIN profiles : Selectable(song, profiles[i])})
           container == IF target = << >> THEN Mp3 ELSE Head(target)
           lossy == song.format \notin Lossless /\ container \notin Lossless
           own == IF lossy THEN song.bitrate ELSE 0
           bitrate == Capped0(Capped0(rate, limit), own)
           direct == [is |-> "direct", song |-> song, under |-> limit, by |-> server]
           transcode == [is |-> "transcode", song |-> song, under |-> limit, by |-> server,
                         format |-> container, bitrate |-> bitrate]
<1>1. limit \in Nat /\ server \in Servers /\ rate \in Nat /\ song.bitrate \in Nat \ {0} /\ limit \in Bitrates
  BY ChoiceAssumption DEF ChoiceInv, Songs
<1>2. UNCHANGED <<limit, server>> BY DEF Decide
<1>3. container \in Lossless => limit = 0 /\ song.format \in Lossless
  <2>1. target # << >> => Selectable(song, Head(target)) BY Containers
  <2>2. QED BY <2>1, ChoiceAssumption DEF Selectable
<1>4. CASE CanDirectPlay(song, plays)
  <2>1. answer' = direct BY <1>4 DEF Decide
  <2>2. DirectFor(direct) BY <1>1, <1>4 DEF DirectFor, CanDirectPlay
  <2>3. direct.is = "direct" OBVIOUS
  <2> HIDE DEF direct
  <2>4. QED BY <1>1, <1>2, <2>1, <2>2, <2>3 DEF ChoiceInv, AnswerIs
<1>5. CASE ~CanDirectPlay(song, plays)
  <2>1. answer' = transcode BY <1>5 DEF Decide
  <2> HIDE DEF container, target
  <2>2. Capped0(rate, limit) \in Nat /\ Capped0(rate, limit) > 0 /\ (limit > 0 => Capped0(rate, limit) <= limit)
    BY <1>1, CapsAreLeast
  <2>3. own \in Nat /\ (lossy => own = song.bitrate) BY <1>1
  <2> HIDE DEF own, lossy
  <2>4. bitrate \in Nat /\ bitrate <= Capped0(rate, limit) /\ (own > 0 => bitrate <= own)
    BY <2>2, <2>3, CapsAreLeast
  <2>5. limit > 0 => bitrate <= limit BY <1>1, <2>2, <2>4
  <2>6. song.format \notin Lossless => container \notin Lossless /\ bitrate <= song.bitrate
    BY <1>1, <1>3, <2>3, <2>4 DEF lossy
  <2>7. limit > 0 => container \notin Lossless BY <1>1, <1>3
  <2> HIDE DEF bitrate
  <2>8. TranscodeFor(transcode) BY <2>5, <2>6, <2>7 DEF TranscodeFor
  <2>9. transcode.is = "transcode" OBVIOUS
  <2> HIDE DEF transcode
  <2>10. QED BY <1>1, <1>2, <2>1, <2>8, <2>9 DEF ChoiceInv, AnswerIs
<1>6. QED BY <1>4, <1>5

LEMMA StreamKeeps ==
    ASSUME ChoiceInv, NEW song, NEW asked \in Nat, NEW format, NEW seek, Stream(song, asked, format, seek),
           song.bitrate \in Nat
    PROVE  ChoiceInv'
<1>1. UNCHANGED <<limit, server>> BY DEF Stream
<1>2. limit \in Nat BY ChoiceAssumption DEF ChoiceInv
<1>3. AskedMax(asked) \in Nat /\ (limit > 0 => AskedMax(asked) > 0 /\ AskedMax(asked) <= limit)
  BY <1>2, CapsAreLeast DEF AskedMax
<1>4. CASE NeedsTranscode(song, asked, format, seek)
  <2>1. PICK rate \in Nat : rate = IF AskedMax(asked) > 0 THEN AskedMax(asked) ELSE 320 BY <1>3
  <2>2. limit > 0 => rate <= limit BY <1>3, <2>1
  <2>3. answer'.is = "encoded" /\ answer'.under = limit /\ answer'.bitrate = rate
    BY <1>4, <2>1 DEF Stream
  <2>4. QED BY <1>1, <2>2, <2>3 DEF ChoiceInv, AnswerIs
<1>5. CASE ~NeedsTranscode(song, asked, format, seek)
  <2>1. limit > 0 => song.bitrate <= limit
    <3>1. ~(AskedMax(asked) > 0 /\ song.bitrate > AskedMax(asked)) BY <1>5, Zenon DEF NeedsTranscode
    <3>2. QED BY <1>2, <1>3, <3>1
  <2>2. answer'.is = "whole" /\ answer'.under = limit /\ answer'.song = song BY <1>5 DEF Stream
  <2>3. QED BY <1>1, <2>1, <2>2 DEF ChoiceInv, AnswerIs
<1>6. QED BY <1>4, <1>5

LEMMA ChoiceStep == ChoiceInv /\ [ChoiceNext]_choiceVars => ChoiceInv'
<1> SUFFICES ASSUME ChoiceInv, [ChoiceNext]_choiceVars PROVE ChoiceInv' OBVIOUS
<1>1. CASE SetLimit BY <1>1 DEF SetLimit, ChoiceInv
<1>2. CASE SetServer BY <1>2 DEF SetServer, ChoiceInv
<1>3. CASE StreamDecided
  <2>1. TranscodeFor(answer) BY <1>3 DEF StreamDecided, Is, ChoiceInv, AnswerIs
  <2>2. UNCHANGED <<limit, server>> /\ answer' = [answer EXCEPT !.is = "sent"] /\ answer.is = "transcode"
    BY <1>3 DEF StreamDecided, Is
  <2>3. TranscodeFor(answer') /\ answer'.is = "sent" BY <2>1, <2>2 DEF TranscodeFor
  <2>4. QED BY <2>2, <2>3 DEF ChoiceInv, AnswerIs
<1>4. CASE StreamDirect
  <2>1. DirectFor(answer) BY <1>4 DEF StreamDirect, Is, ChoiceInv, AnswerIs
  <2>2. answer.song.bitrate \in Nat BY <2>1, ChoiceAssumption DEF DirectFor, Songs
  <2>3. QED BY <1>4, <2>2, StreamKeeps DEF StreamDirect
<1>5. CASE NextSong BY <1>5 DEF NextSong, ChoiceInv, AnswerIs
<1>6. ASSUME NEW song \in Songs, NEW rate \in Bitrates, NEW plays \in BOOLEAN, NEW profiles \in Profiles,
             rate > 0, Decide(song, plays, profiles, rate)
      PROVE  ChoiceInv'
  BY <1>6, DecideKeeps
<1>7. ASSUME NEW song \in Songs, NEW rate \in Bitrates, NEW format, NEW seek, Stream(song, rate, format, seek)
      PROVE  ChoiceInv'
  BY <1>7, StreamKeeps, ChoiceAssumption DEF Songs
<1>8. CASE UNCHANGED choiceVars BY <1>8 DEF choiceVars, ChoiceInv
<1>9. QED BY <1>1, <1>2, <1>3, <1>4, <1>5, <1>6, <1>7, <1>8 DEF ChoiceNext

(* The request that follows a decision to play directly, under the same     *)
(* limit and settings, needs no transcode.                                  *)
LEMMA DirectComesWhole ==
    ASSUME ChoiceInv, StreamDirect, answer.under = limit, answer.by = server
    PROVE  answer'.is = "whole"
<1>1. answer # NotAsked /\ answer.is = "direct" /\ Stream(answer.song, 0, Raw, FALSE)
  BY DEF StreamDirect, Is
<1>2. DirectFor(answer) BY <1>1 DEF ChoiceInv, AnswerIs
<1>3. limit \in Nat BY ChoiceAssumption DEF ChoiceInv
<1>4. AskedMax(0) = limit BY <1>3 DEF AskedMax, Capped0
<1>5. ~NeedsTranscode(answer.song, 0, Raw, FALSE)
  <2>1. ~server.norm /\ ~server.healing BY <1>2 DEF DirectFor
  <2>2. ~(limit > 0 /\ answer.song.bitrate > limit)
    <3>1. answer.song.bitrate \in Nat /\ (limit > 0 => answer.song.bitrate <= limit)
      BY <1>2, ChoiceAssumption DEF DirectFor, Songs
    <3>2. QED BY <1>3, <3>1
  <2>3. QED BY <1>4, <2>1, <2>2, Zenon DEF NeedsTranscode
<1>6. QED BY <1>1, <1>5 DEF Stream

(* For any formats, bitrates and profiles, and whatever changes in between: *)
(* a decision keeps the limit it was made under, and a file that may be     *)
(* played directly is sent whole.                                           *)
THEOREM ChoicesAreSound == ChoiceSpec => ChoiceHolds
<1>1. ChoiceInit => ChoiceInv BY DEF ChoiceInit, ChoiceInv, AnswerIs
<1>2. ChoiceInv => DecidedWithin BY DEF ChoiceInv, AnswerIs, DirectFor, TranscodeFor, DecidedWithin, Is
<1>3. ChoiceInv /\ [ChoiceNext]_choiceVars =>
          [StreamDirect /\ answer.under = limit /\ answer.by = server => answer'.is = "whole"]_choiceVars
  BY DirectComesWhole
<1>4. QED BY <1>1, <1>2, <1>3, ChoiceStep, PTL DEF ChoiceSpec, ChoiceHolds, DirectIsWhole

-----------------------------------------------------------------------------
(***************************************************************************)
(* Podcast channels. A channel keeps its feed for good, whatever becomes   *)
(* of its address: what an actor has read of the feeds stays true, and a   *)
(* new channel differs from those it had seen (ActFeed). Of OPML imports,  *)
(* each user has at most one stage (a request that submits, a job in the   *)
(* queue, the worker), and what is counted and what is left make the total *)
(* (ImportsOK).                                                            *)
(***************************************************************************)

ChannelPc  == {"idle", "look", "join", "fetch", "match", "insert", "next", "claim", "row", "free",
               "mark", "get", "upgrade", "store", "error", "check", "purgeFailed", "purge",
               "purgeAll", "submit", "feed", "count"}
AnyUrl     == [feed : Feeds \cup {NoSubscriber}, host : FeedHosts \cup {NoSubscriber}, tls : BOOLEAN]
ChannelAct == [pc : ChannelPc, who : Subscribers \cup {NoSubscriber}, url : AnyUrl, got : AnyUrl,
               ch : Nat, creating : BOOLEAN, todo : SUBSET Nat, urls : SUBSET Url, known : SUBSET Nat]
ChannelRow == [url : AnyUrl, status : {"new", "downloading", "completed", "error"}]
AtRefresh    == {"get", "upgrade", "store", "error"}

ChannelRows(chans, last) == chans \in [DOMAIN chans -> ChannelRow] /\ DOMAIN chans \subseteq 1..last

\* What an act knows of the feeds of channels: a channel keeps its feed for good.
ActFeed(act, chans, last) ==
    /\ act.todo \subseteq 1..last /\ act.known \subseteq 1..last
    /\ act.pc = "next" => ~act.creating
    /\ act.pc \in {"claim", "row", "mark", "get", "upgrade"} => act.ch \in 1..last
    /\ act.ch \in DOMAIN chans =>
         /\ act.pc \in {"claim", "row", "mark", "get", "upgrade"} /\ (act.creating \/ act.pc = "upgrade")
              => chans[act.ch].url.feed = act.got.feed
         /\ act.pc \in {"mark", "get"} /\ ~act.creating => chans[act.ch].url.feed = act.url.feed
    /\ act.pc = "insert" =>
         \A d \in act.known \cap DOMAIN chans : chans[d].url.feed # act.got.feed

ChannelsInv ==
    /\ lastChannel \in Nat /\ ChannelRows(channels, lastChannel)
    /\ chanActs \in [ChannelActors -> ChannelAct]
    /\ \A a \in ChannelActors : ActFeed(chanActs[a], channels, lastChannel)
    /\ RefreshTrue

FeedsStay(chans, last, chans2, last2) ==
    /\ last <= last2
    /\ \A d \in DOMAIN chans2 : IF d \in DOMAIN chans THEN chans2[d].url.feed = chans[d].url.feed
                                ELSE d > last

\* One actor goes from one act to another, and what becomes of the channels.
Moves(a, act) ==
    /\ Does(a, act) /\ act \in ChannelAct /\ ActFeed(act, channels', lastChannel')
    /\ lastChannel' \in Nat /\ ChannelRows(channels', lastChannel')
    /\ FeedsStay(channels, lastChannel, channels', lastChannel')
    /\ recovered' = recovered
    /\ \A c \in DOMAIN channels' : channels'[c].status = "downloading" =>
         \/ c \in DOMAIN channels /\ channels[c].status = "downloading"
                /\ ~(chanActs[a].ch = c /\ chanActs[a].pc \in AtRefresh)
         \/ act.ch = c /\ act.pc \in AtRefresh

LEMMA FeedKeeps ==
    ASSUME NEW act, NEW c1, NEW n1 \in Nat, NEW c2, NEW n2 \in Nat, ActFeed(act, c1, n1),
           FeedsStay(c1, n1, c2, n2)
    PROVE  ActFeed(act, c2, n2)
<1>1. 1..n1 \subseteq 1..n2 BY DEF FeedsStay
<1>2. \A d \in 1..n1 : ~(d > n1) OBVIOUS
<1>3. \A d \in 1..n1 : d \in DOMAIN c2 => d \in DOMAIN c1 /\ c2[d].url.feed = c1[d].url.feed
  BY <1>2 DEF FeedsStay
<1>4. act.todo \subseteq 1..n2 /\ act.known \subseteq 1..n2 BY <1>1 DEF ActFeed
<1>5. act.pc \in {"claim", "row", "mark", "get", "upgrade"} => act.ch \in 1..n1 BY DEF ActFeed
<1>6. act.known \subseteq 1..n1 BY DEF ActFeed
<1>7. QED BY <1>1, <1>3, <1>4, <1>5, <1>6 DEF ActFeed

LEMMA MovesKeep == ASSUME ChannelsInv, NEW a \in ChannelActors, NEW act, Moves(a, act) PROVE ChannelsInv'
<1>1. /\ chanActs' \in [ChannelActors -> ChannelAct]
      /\ \A b \in ChannelActors : chanActs'[b] = IF b = a THEN act ELSE chanActs[b]
  BY DEF ChannelsInv, Moves, Does
<1>2. \A b \in ChannelActors : ActFeed(chanActs'[b], channels', lastChannel')
  <2>1. ASSUME NEW b \in ChannelActors PROVE ActFeed(chanActs[b], channels', lastChannel')
    <3>1. ActFeed(chanActs[b], channels, lastChannel) /\ lastChannel \in Nat BY DEF ChannelsInv
    <3>2. FeedsStay(channels, lastChannel, channels', lastChannel') /\ lastChannel' \in Nat BY DEF Moves
    <3>3. QED BY <3>1, <3>2, FeedKeeps
  <2>2. ActFeed(act, channels', lastChannel') BY DEF Moves
  <2>3. QED BY <1>1, <2>1, <2>2
<1>3. RefreshTrue'
  <2> SUFFICES ASSUME recovered, NEW c \in DOMAIN channels', channels'[c].status = "downloading"
               PROVE  \E b \in ChannelActors : chanActs'[b].ch = c /\ chanActs'[b].pc \in AtRefresh
    BY DEF RefreshTrue, Moves, AtRefresh
  <2>1. CASE act.ch = c /\ act.pc \in AtRefresh BY <1>1, <2>1
  <2>2. CASE /\ c \in DOMAIN channels /\ channels[c].status = "downloading"
             /\ ~(chanActs[a].ch = c /\ chanActs[a].pc \in AtRefresh)
    <3>1. PICK b \in ChannelActors : chanActs[b].ch = c /\ chanActs[b].pc \in AtRefresh
      BY <2>2 DEF ChannelsInv, RefreshTrue, AtRefresh
    <3>2. QED BY <1>1, <2>2, <3>1
  <2>3. QED BY <2>1, <2>2 DEF Moves
<1>4. QED BY <1>1, <1>2, <1>3 DEF ChannelsInv, Moves

(* A step that leaves the channels alone, of an actor that is at no work.   *)
LEMMA QuietMove ==
    ASSUME ChannelsInv, NEW a \in ChannelActors, NEW act \in ChannelAct, Does(a, act),
           UNCHANGED <<channels, lastChannel>>, recovered' = recovered, ActFeed(act, channels, lastChannel),
           chanActs[a].pc \in AtRefresh => act.pc \in AtRefresh /\ act.ch = chanActs[a].ch
    PROVE  Moves(a, act)
<1>1. channels' = channels /\ lastChannel' = lastChannel OBVIOUS
<1>2. lastChannel \in Nat /\ ChannelRows(channels, lastChannel) BY DEF ChannelsInv
<1>3. FeedsStay(channels, lastChannel, channels, lastChannel) BY <1>2 DEF FeedsStay
<1>4. \A c \in DOMAIN channels :
         \/ ~(chanActs[a].ch = c /\ chanActs[a].pc \in AtRefresh)
         \/ act.ch = c /\ act.pc \in AtRefresh
  OBVIOUS
<1>5. QED BY <1>1, <1>2, <1>3, <1>4 DEF Moves

LEMMA ActFields ==
    ASSUME NEW act \in ChannelAct, NEW pc \in ChannelPc
    PROVE  LET x == [act EXCEPT !.pc = pc] IN
           /\ x \in ChannelAct /\ x.pc = pc /\ x.who = act.who /\ x.url = act.url /\ x.got = act.got
           /\ x.ch = act.ch /\ x.creating = act.creating /\ x.todo = act.todo /\ x.urls = act.urls
           /\ x.known = act.known
BY DEF ChannelAct

LEMMA IdleAct ==
    /\ ChannelIdle \in ChannelAct /\ ChannelIdle.pc = "idle" /\ ChannelIdle.todo = {}
    /\ ChannelIdle.known = {} /\ ~ChannelIdle.creating /\ ChannelIdle.urls = {}
    /\ \A c, n : ActFeed(ChannelIdle, c, n)
<1>1. NoUrl \in AnyUrl BY DEF NoUrl, AnyUrl
<1>2. ChannelIdle \in ChannelAct BY <1>1 DEF ChannelIdle, ChannelAct, ChannelPc
<1>3. QED BY <1>2 DEF ChannelIdle, ActFeed

-----------------------------------------------------------------------------
\* What an import sees of a step: its feed under way stays its feed.
GoesOver(a, act) ==
    /\ chanActs[a].pc \notin {"idle", "feed", "submit", "count"} /\ act.pc \notin {"feed", "submit"}
    /\ a = OpmlWorker => /\ act.pc # "idle" /\ act.who = chanActs[a].who
                         /\ act.urls = chanActs[a].urls

LEMMA EndsAct ==
    ASSUME ChannelsInv, NEW a \in ChannelActors, NEW failed \in BOOLEAN, Ends(a, failed),
           chanActs[a].pc \notin {"idle", "feed", "submit", "count"}
    PROVE  \E act \in ChannelAct :
              /\ Does(a, act) /\ act.pc \in {"idle", "count"} /\ GoesOver(a, act)
              /\ \A c, n : chanActs[a].known \cup chanActs[a].todo \subseteq 1..n => ActFeed(act, c, n)
<1>0. chanActs[a] \in ChannelAct BY DEF ChannelsInv
<1>1. CASE a = OpmlWorker
  <2> DEFINE act == [chanActs[a] EXCEPT !.pc = "count", !.ch = IF failed THEN 0 ELSE 1]
  <2>1. /\ act \in ChannelAct /\ act.pc = "count" /\ act.who = chanActs[a].who
        /\ act.urls = chanActs[a].urls /\ act.todo = chanActs[a].todo /\ act.known = chanActs[a].known
    BY <1>0 DEF ChannelAct, ChannelPc
  <2>2. Does(a, act) BY <1>1 DEF Ends
  <2> HIDE DEF act
  <2>3. \A c, n : chanActs[a].known \cup chanActs[a].todo \subseteq 1..n => ActFeed(act, c, n)
    BY <2>1 DEF ActFeed
  <2>4. GoesOver(a, act) BY <2>1 DEF GoesOver
  <2>5. QED BY <2>1, <2>2, <2>3, <2>4
<1>2. CASE a # OpmlWorker
  <2>1. Does(a, ChannelIdle) BY <1>2 DEF Ends
  <2>2. GoesOver(a, ChannelIdle) BY <1>2, IdleAct DEF GoesOver
  <2>3. QED BY <2>1, <2>2, IdleAct
<1>3. QED BY <1>1, <1>2

LEMMA EndsQuiet ==
    ASSUME ChannelsInv, NEW a \in ChannelActors, NEW failed \in BOOLEAN, Ends(a, failed),
           UNCHANGED <<channels, lastChannel>>, recovered' = recovered, chanActs[a].pc \notin {"idle", "feed", "submit", "count"} \cup AtRefresh
    PROVE  \E act : Moves(a, act) /\ GoesOver(a, act)
<1>1. PICK act \in ChannelAct :
              /\ Does(a, act) /\ act.pc \in {"idle", "count"} /\ GoesOver(a, act)
              /\ \A c, n : chanActs[a].known \cup chanActs[a].todo \subseteq 1..n => ActFeed(act, c, n)
  BY EndsAct
<1>2. ActFeed(act, channels, lastChannel) BY <1>1 DEF ChannelsInv, ActFeed
<1>3. Moves(a, act) BY <1>1, <1>2, QuietMove
<1>4. QED BY <1>1, <1>3

(* A step from one place to the next that leaves the channels alone.        *)
LEMMA ToStepQuiet ==
    ASSUME ChannelsInv, NEW a \in ChannelActors, NEW pc \in ChannelPc, ToStep(a, pc),
           UNCHANGED <<channels, lastChannel>>, recovered' = recovered, pc \notin {"mark", "insert"},
           chanActs[a].pc \notin {"idle", "feed", "submit", "count"}, pc \notin {"feed", "submit", "idle"},
           chanActs[a].pc \in AtRefresh => pc \in AtRefresh, pc = "next" => ~chanActs[a].creating,
           pc \in {"claim", "row", "get", "upgrade"} =>
              /\ chanActs[a].pc \in {"claim", "row", "mark", "get"}
              /\ pc \in {"get", "upgrade"} => chanActs[a].creating
    PROVE  \E act : Moves(a, act) /\ GoesOver(a, act)
<1>0. chanActs[a] \in ChannelAct /\ ActFeed(chanActs[a], channels, lastChannel) BY DEF ChannelsInv
<1> DEFINE act == [chanActs[a] EXCEPT !.pc = pc]
<1>1. /\ act \in ChannelAct /\ act.pc = pc /\ act.who = chanActs[a].who /\ act.got = chanActs[a].got
      /\ act.ch = chanActs[a].ch /\ act.creating = chanActs[a].creating
      /\ act.todo = chanActs[a].todo /\ act.urls = chanActs[a].urls /\ act.known = chanActs[a].known
  BY <1>0, ActFields
<1>2. Does(a, act) BY DEF ToStep
<1> HIDE DEF act
<1>3. ActFeed(act, channels, lastChannel) BY <1>0, <1>1 DEF ActFeed
<1>4. Moves(a, act) BY <1>1, <1>2, <1>3, QuietMove
<1>5. GoesOver(a, act) BY <1>1 DEF GoesOver
<1>6. QED BY <1>4, <1>5

LEMMA LookMoves ==
    ASSUME ChannelsInv, NEW a \in ChannelActors, LookForChannel(a)
    PROVE  \E act : Moves(a, act) /\ GoesOver(a, act)
<1>0. /\ chanActs[a] \in ChannelAct /\ ActFeed(chanActs[a], channels, lastChannel)
      /\ chanActs[a].pc = "look" /\ UNCHANGED <<channels, lastChannel>> /\ recovered' = recovered
      /\ DOMAIN channels \subseteq 1..lastChannel /\ lastChannel \in Nat
  BY DEF ChannelsInv, LookForChannel, ChAt, RestSame, DataSame, ChannelRows
<1> DEFINE act0 == [chanActs[a] EXCEPT !.known = DOMAIN channels]
<1>1. \E act \in ChannelAct : /\ Does(a, act) /\ act.pc \in {"fetch", "join"} /\ act.known = DOMAIN channels
                              /\ act.todo = chanActs[a].todo /\ act.who = chanActs[a].who
                              /\ act.urls = chanActs[a].urls
  <2>1. DOMAIN channels \in SUBSET Nat BY <1>0
  <2>2. CASE Does(a, [act0 EXCEPT !.pc = "fetch"])
    <3>1. [act0 EXCEPT !.pc = "fetch"] \in ChannelAct BY <1>0, <2>1 DEF ChannelAct, ChannelPc
    <3>2. QED BY <1>0, <2>2, <3>1 DEF ChannelAct
  <2>3. CASE \E c \in DOMAIN channels : Does(a, [act0 EXCEPT !.pc = "join", !.ch = c])
    <3>1. PICK c \in DOMAIN channels : Does(a, [act0 EXCEPT !.pc = "join", !.ch = c]) BY <2>3
    <3>2. c \in Nat BY <2>1
    <3>3. [act0 EXCEPT !.pc = "join", !.ch = c] \in ChannelAct
      BY <1>0, <2>1, <3>2 DEF ChannelAct, ChannelPc
    <3>4. QED BY <1>0, <3>1, <3>3 DEF ChannelAct
  <2>4. QED BY <2>2, <2>3 DEF LookForChannel, AddressedBy
<1>2. PICK act \in ChannelAct : /\ Does(a, act) /\ act.pc \in {"fetch", "join"} /\ act.known = DOMAIN channels
                                /\ act.todo = chanActs[a].todo /\ act.who = chanActs[a].who
                                /\ act.urls = chanActs[a].urls
  BY <1>1
<1>3. ActFeed(act, channels, lastChannel) BY <1>0, <1>2 DEF ActFeed
<1>4. Moves(a, act) BY <1>0, <1>2, <1>3, QuietMove DEF AtRefresh
<1>5. GoesOver(a, act) BY <1>0, <1>2 DEF GoesOver
<1>6. QED BY <1>4, <1>5

LEMMA JoinMoves ==
    ASSUME ChannelsInv, NEW a \in ChannelActors, Join(a)
    PROVE  \E act : Moves(a, act) /\ GoesOver(a, act)
<1>1. PICK failed \in BOOLEAN : Ends(a, failed) BY DEF Join
<1>2. /\ chanActs[a].pc = "join" /\ recovered' = recovered
      /\ channels' = channels /\ lastChannel' = lastChannel
  BY DEF Join, ChAt, RestSame
<1>3. QED BY <1>1, <1>2, EndsQuiet DEF AtRefresh

LEMMA FetchMoves ==
    ASSUME ChannelsInv, NEW a \in ChannelActors, FetchChannel(a)
    PROVE  \E act : Moves(a, act) /\ GoesOver(a, act)
<1>0. /\ chanActs[a] \in ChannelAct /\ ActFeed(chanActs[a], channels, lastChannel)
      /\ chanActs[a].pc = "fetch" /\ UNCHANGED <<channels, lastChannel>> /\ recovered' = recovered
  BY DEF ChannelsInv, FetchChannel, ChAt, RestSame, DataSame
<1>1. CASE Ends(a, TRUE)
  <2>1. TRUE \in BOOLEAN OBVIOUS
  <2>2. QED BY <1>0, <1>1, <2>1, EndsQuiet DEF AtRefresh
<1>2. CASE \E url \in ResolvedUrl(chanActs[a].url) :
              Does(a, [chanActs[a] EXCEPT !.pc = "match", !.got = url])
  <2>1. PICK url \in ResolvedUrl(chanActs[a].url) :
              Does(a, [chanActs[a] EXCEPT !.pc = "match", !.got = url])
    BY <1>2
  <2>2. url \in AnyUrl BY <1>0 DEF ResolvedUrl, ChannelAct, AnyUrl
  <2> DEFINE act == [chanActs[a] EXCEPT !.pc = "match", !.got = url]
  <2>3. /\ act \in ChannelAct /\ act.pc = "match" /\ act.who = chanActs[a].who
        /\ act.urls = chanActs[a].urls /\ act.todo = chanActs[a].todo /\ act.known = chanActs[a].known
    BY <1>0, <2>2 DEF ChannelAct, ChannelPc
  <2>4. Does(a, act) BY <2>1
  <2> HIDE DEF act
  <2>5. ActFeed(act, channels, lastChannel) BY <1>0, <2>3 DEF ActFeed
  <2>6. Moves(a, act) BY <1>0, <2>3, <2>4, <2>5, QuietMove DEF AtRefresh
  <2>7. GoesOver(a, act) BY <1>0, <2>3 DEF GoesOver
  <2>8. QED BY <2>6, <2>7
<1>3. QED BY <1>1, <1>2 DEF FetchChannel

LEMMA MatchMoves ==
    ASSUME ChannelsInv, NEW a \in ChannelActors, Match(a)
    PROVE  \E act : Moves(a, act) /\ GoesOver(a, act)
<1>0. /\ chanActs[a] \in ChannelAct /\ ActFeed(chanActs[a], channels, lastChannel)
      /\ chanActs[a].pc = "match" /\ UNCHANGED <<channels, lastChannel>> /\ recovered' = recovered
      /\ DOMAIN channels \subseteq Nat
  <2>1. DOMAIN channels \subseteq 1..lastChannel /\ lastChannel \in Nat BY DEF ChannelsInv, ChannelRows
  <2>2. DOMAIN channels \subseteq Nat BY <2>1
  <2>3. chanActs[a] \in ChannelAct /\ ActFeed(chanActs[a], channels, lastChannel) BY DEF ChannelsInv
  <2>4. chanActs[a].pc = "match" /\ UNCHANGED <<channels, lastChannel>> /\ recovered' = recovered
    BY DEF Match, ChAt, RestSame, DataSame
  <2>5. QED BY <2>2, <2>3, <2>4
<1>1. CASE Titled(chanActs[a].got.feed) = {}
  <2> DEFINE act == [chanActs[a] EXCEPT !.pc = "insert"]
  <2>1. Does(a, act) BY <1>1 DEF Match, ToStep
  <2>2. "insert" \in ChannelPc BY DEF ChannelPc
  <2>3. /\ act \in ChannelAct /\ act.pc = "insert" /\ act.who = chanActs[a].who
        /\ act.got = chanActs[a].got /\ act.ch = chanActs[a].ch
        /\ act.urls = chanActs[a].urls /\ act.todo = chanActs[a].todo /\ act.known = chanActs[a].known
    BY <1>0, <2>2, ActFields
  <2> HIDE DEF act
  <2>4. \A d \in DOMAIN channels : channels[d].url.feed # act.got.feed BY <1>1, <2>3 DEF Titled
  <2>5. ActFeed(act, channels, lastChannel) BY <1>0, <2>3, <2>4 DEF ActFeed
  <2>6. Moves(a, act) BY <1>0, <2>1, <2>3, <2>5, QuietMove DEF AtRefresh
  <2>7. GoesOver(a, act) BY <1>0, <2>3 DEF GoesOver
  <2>8. QED BY <2>6, <2>7
<1>2. CASE Titled(chanActs[a].got.feed) # {}
  <2>1. PICK c \in DOMAIN channels : Does(a, [chanActs[a] EXCEPT !.pc = "join", !.ch = c])
    BY <1>2 DEF Match, Titled
  <2> DEFINE act == [chanActs[a] EXCEPT !.pc = "join", !.ch = c]
  <2>2. c \in Nat BY <1>0
  <2>3. /\ act \in ChannelAct /\ act.pc = "join" /\ act.who = chanActs[a].who
        /\ act.urls = chanActs[a].urls /\ act.todo = chanActs[a].todo /\ act.known = chanActs[a].known
    BY <1>0, <2>2 DEF ChannelAct, ChannelPc
  <2>4. Does(a, act) BY <2>1
  <2> HIDE DEF act
  <2>5. ActFeed(act, channels, lastChannel) BY <1>0, <2>3 DEF ActFeed
  <2>6. Moves(a, act) BY <1>0, <2>3, <2>4, <2>5, QuietMove DEF AtRefresh
  <2>7. GoesOver(a, act) BY <1>0, <2>3 DEF GoesOver
  <2>8. QED BY <2>6, <2>7
<1>3. QED BY <1>1, <1>2

LEMMA InsertMoves ==
    ASSUME ChannelsInv, NEW a \in ChannelActors, Insert(a)
    PROVE  /\ \E act : Moves(a, act) /\ GoesOver(a, act)
           /\ \A c \in DOMAIN channels' \ DOMAIN channels :
                 /\ c = lastChannel + 1 /\ channels'[c].url = chanActs[a].got
<1>0. /\ chanActs[a] \in ChannelAct /\ ActFeed(chanActs[a], channels, lastChannel)
      /\ chanActs[a].pc = "insert" /\ recovered' = recovered
      /\ DOMAIN channels \subseteq 1..lastChannel /\ lastChannel \in Nat
      /\ \A d \in DOMAIN channels : channels[d] \in ChannelRow
  BY DEF ChannelsInv, Insert, ChAt, RestSame, ChannelRows
<1>1. CASE AddressedBy({chanActs[a].got}) # {}
  <2>1. Ends(a, FALSE) /\ UNCHANGED <<channels, lastChannel>> /\ FALSE \in BOOLEAN BY <1>1 DEF Insert
  <2>2. \E act : Moves(a, act) /\ GoesOver(a, act) BY <1>0, <2>1, EndsQuiet DEF AtRefresh
  <2>3. QED BY <2>1, <2>2
<1>2. CASE AddressedBy({chanActs[a].got}) = {}
  <2> DEFINE c == lastChannel + 1
             row == [url |-> chanActs[a].got, status |-> "new"]
             act == [chanActs[a] EXCEPT !.pc = "claim", !.ch = c]
  <2>1. lastChannel' = c /\ channels' = WithChannel(c, row) /\ Does(a, act) BY <1>2 DEF Insert
  <2>2. row \in ChannelRow /\ row.url = chanActs[a].got /\ row.status = "new"
    BY <1>0 DEF ChannelRow, ChannelAct
  <2>3. c \in Nat /\ c \in 1..c /\ 1..lastChannel \subseteq 1..c /\ c > lastChannel /\ lastChannel <= c
        /\ c \notin 1..lastChannel
    BY <1>0
  <2>4. /\ act \in ChannelAct /\ act.pc = "claim" /\ act.who = chanActs[a].who /\ act.got = chanActs[a].got
        /\ act.ch = c /\ act.urls = chanActs[a].urls /\ act.todo = chanActs[a].todo
        /\ act.known = chanActs[a].known
    BY <1>0, <2>3 DEF ChannelAct, ChannelPc
  <2> HIDE DEF c, act, row
  <2>5. /\ DOMAIN channels' = DOMAIN channels \cup {c}
        /\ \A d \in DOMAIN channels' : channels'[d] = IF d = c THEN row ELSE channels[d]
    BY <2>1 DEF WithChannel
  <2>6. channels' \in [DOMAIN channels' -> ChannelRow]
    BY <1>0, <2>1, <2>2 DEF WithChannel
  <2>7. ChannelRows(channels', c) BY <1>0, <2>3, <2>5, <2>6 DEF ChannelRows
  <2>8. FeedsStay(channels, lastChannel, channels', c) BY <1>0, <2>3, <2>5 DEF FeedsStay
  <2>9. ActFeed(act, channels', c) BY <1>0, <2>2, <2>3, <2>4, <2>5 DEF ActFeed
  <2>10. \A d \in DOMAIN channels' : channels'[d].status = "downloading" =>
            d \in DOMAIN channels /\ channels[d].status = "downloading"
    BY <2>2, <2>5
  <2>11. Moves(a, act) BY <1>0, <2>1, <2>3, <2>4, <2>7, <2>8, <2>9, <2>10 DEF Moves, AtRefresh
  <2>12. GoesOver(a, act) BY <1>0, <2>4 DEF GoesOver
  <2>13. \A d \in DOMAIN channels' \ DOMAIN channels :
            d = lastChannel + 1 /\ channels'[d].url = chanActs[a].got
    BY <2>2, <2>5 DEF c
  <2>14. QED BY <2>11, <2>12, <2>13
<1>3. QED BY <1>1, <1>2

LEMMA ClaimMoves ==
    ASSUME ChannelsInv, NEW a \in ChannelActors,
           ClaimRefresh(a) \/ EndRefresh(a) \/ CheckCreated(a)
    PROVE  \E act : Moves(a, act) /\ GoesOver(a, act)
<1>0. /\ {"row", "check", "next", "purgeFailed"} \subseteq ChannelPc /\ FALSE \in BOOLEAN
      /\ UNCHANGED <<channels, lastChannel>> /\ recovered' = recovered
      /\ chanActs[a].pc \in {"claim", "free", "check"}
  BY DEF ClaimRefresh, EndRefresh, CheckCreated, ChannelPc, DataSame, RestSame, ChAt
<1>1. \/ \E pc \in {"check", "next", "purgeFailed"} :
               ToStep(a, pc) /\ (pc = "next" => ~chanActs[a].creating)
      \/ ToStep(a, "row") /\ chanActs[a].pc = "claim"
      \/ Ends(a, FALSE)
  BY DEF ClaimRefresh, EndRefresh, CheckCreated, AfterRefresh, ChAt
<1>2. ASSUME NEW pc \in {"check", "next", "purgeFailed"}, ToStep(a, pc),
             pc = "next" => ~chanActs[a].creating
      PROVE  \E act : Moves(a, act) /\ GoesOver(a, act)
  BY <1>0, <1>2, ToStepQuiet DEF AtRefresh
<1>3. CASE ToStep(a, "row") /\ chanActs[a].pc = "claim" BY <1>0, <1>3, ToStepQuiet DEF AtRefresh
<1>4. CASE Ends(a, FALSE) BY <1>0, <1>4, EndsQuiet DEF AtRefresh
<1>5. QED BY <1>1, <1>2, <1>3, <1>4

LEMMA ReadMoves ==
    ASSUME ChannelsInv, NEW a \in ChannelActors, ReadChannel(a)
    PROVE  \E act : Moves(a, act) /\ GoesOver(a, act)
<1>0. /\ chanActs[a] \in ChannelAct /\ ActFeed(chanActs[a], channels, lastChannel)
      /\ chanActs[a].pc = "row" /\ UNCHANGED <<channels, lastChannel>> /\ recovered' = recovered
      /\ \A d \in DOMAIN channels : channels[d] \in ChannelRow
  BY DEF ChannelsInv, ReadChannel, ChAt, RestSame, DataSame, ChannelRows
<1>1. CASE ToStep(a, "free")
  <2>1. "free" \in ChannelPc BY DEF ChannelPc
  <2>2. QED BY <1>0, <1>1, <2>1, ToStepQuiet DEF AtRefresh
<1>2. CASE chanActs[a].ch \in DOMAIN channels
           /\ Does(a, [chanActs[a] EXCEPT !.pc = "mark", !.url = channels[chanActs[a].ch].url])
  <2> DEFINE url == channels[chanActs[a].ch].url
             act == [chanActs[a] EXCEPT !.pc = "mark", !.url = url]
  <2>1. url \in AnyUrl BY <1>0, <1>2 DEF ChannelRow
  <2>2. Does(a, act) BY <1>2
  <2>3. channels[chanActs[a].ch].url = url OBVIOUS
  <2> HIDE DEF url
  <2>4. /\ act \in ChannelAct /\ act.pc = "mark" /\ act.who = chanActs[a].who /\ act.got = chanActs[a].got
        /\ act.ch = chanActs[a].ch /\ act.creating = chanActs[a].creating /\ act.url = url
        /\ act.urls = chanActs[a].urls /\ act.todo = chanActs[a].todo /\ act.known = chanActs[a].known
    BY <1>0, <2>1 DEF ChannelAct, ChannelPc
  <2> HIDE DEF act
  <2>5. ActFeed(act, channels, lastChannel) BY <1>0, <2>3, <2>4 DEF ActFeed
  <2>6. Moves(a, act) BY <1>0, <2>2, <2>4, <2>5, QuietMove DEF AtRefresh
  <2>7. GoesOver(a, act) BY <1>0, <2>4 DEF GoesOver
  <2>8. QED BY <2>6, <2>7
<1>3. QED BY <1>1, <1>2 DEF ReadChannel

(* UPDATE of the status of a channel, if it is there.                       *)
LEMMA MarkedKeeps ==
    ASSUME ChannelsInv, NEW c, NEW status \in {"new", "downloading", "completed", "error"},
           channels' = MarkedChannel(c, status), lastChannel' = lastChannel
    PROVE  /\ DOMAIN channels' = DOMAIN channels /\ ChannelRows(channels', lastChannel')
           /\ FeedsStay(channels, lastChannel, channels', lastChannel')
           /\ \A d \in DOMAIN channels :
                channels'[d].status = IF d = c THEN status ELSE channels[d].status
           /\ \A d \in DOMAIN channels : channels'[d].url = channels[d].url
<1>0. /\ lastChannel \in Nat /\ DOMAIN channels \subseteq 1..lastChannel
      /\ \A d \in DOMAIN channels : channels[d] \in ChannelRow
  BY DEF ChannelsInv, ChannelRows
<1>1. DOMAIN channels' = DOMAIN channels /\ \A d \in DOMAIN channels :
         channels'[d] = IF d = c THEN [channels[d] EXCEPT !.status = status] ELSE channels[d]
  BY DEF MarkedChannel
<1>2. \A d \in DOMAIN channels : /\ channels'[d] \in ChannelRow /\ channels'[d].url = channels[d].url
                                 /\ channels'[d].status = IF d = c THEN status ELSE channels[d].status
  BY <1>0, <1>1 DEF ChannelRow
<1>3. channels' \in [DOMAIN channels' -> ChannelRow] BY <1>1, <1>2 DEF MarkedChannel
<1>4. FeedsStay(channels, lastChannel, channels', lastChannel') BY <1>0, <1>1, <1>2 DEF FeedsStay
<1>5. QED BY <1>0, <1>1, <1>2, <1>3, <1>4 DEF ChannelRows

LEMMA MarkMoves ==
    ASSUME ChannelsInv, NEW a \in ChannelActors, MarkRefresh(a) \/ StoreFeed(a) \/ RefreshFails(a)
    PROVE  \E act : Moves(a, act) /\ GoesOver(a, act)
<1>0. /\ chanActs[a] \in ChannelAct /\ ActFeed(chanActs[a], channels, lastChannel)
      /\ lastChannel' = lastChannel /\ recovered' = recovered /\ lastChannel \in Nat
      /\ {"get", "free", "error"} \subseteq ChannelPc
  BY DEF ChannelsInv, MarkRefresh, StoreFeed, RefreshFails, RestSame, ChannelPc
<1>1. \/ chanActs[a].pc = "store" /\ channels' = channels /\ ToStep(a, "error")
      \/ \E status \in {"downloading", "completed", "error"}, pc \in {"get", "free"} :
           /\ channels' = MarkedChannel(chanActs[a].ch, status) /\ ToStep(a, pc)
           /\ chanActs[a].pc \in IF pc = "get" THEN {"mark"} ELSE {"store", "error"}
           /\ status = "downloading" <=> pc = "get"
  BY DEF MarkRefresh, StoreFeed, RefreshFails, ChAt
<1>2. CASE chanActs[a].pc = "store" /\ channels' = channels /\ ToStep(a, "error")
  BY <1>0, <1>2, ToStepQuiet DEF AtRefresh
<1>3. ASSUME NEW status \in {"downloading", "completed", "error"}, NEW pc \in {"get", "free"},
             channels' = MarkedChannel(chanActs[a].ch, status), ToStep(a, pc),
             chanActs[a].pc \in (IF pc = "get" THEN {"mark"} ELSE {"store", "error"}),
             status = "downloading" <=> pc = "get"
      PROVE  \E act : Moves(a, act) /\ GoesOver(a, act)
  <2> DEFINE act == [chanActs[a] EXCEPT !.pc = pc]
  <2>1. /\ act \in ChannelAct /\ act.pc = pc /\ act.who = chanActs[a].who /\ act.got = chanActs[a].got
        /\ act.ch = chanActs[a].ch /\ act.creating = chanActs[a].creating /\ act.url = chanActs[a].url
        /\ act.todo = chanActs[a].todo /\ act.urls = chanActs[a].urls /\ act.known = chanActs[a].known
    <3>1. pc \in ChannelPc BY <1>0
    <3>2. QED BY <1>0, <3>1, ActFields
  <2>2. Does(a, act) BY <1>3 DEF ToStep
  <2> HIDE DEF act
  <2>3. /\ DOMAIN channels' = DOMAIN channels /\ ChannelRows(channels', lastChannel')
        /\ FeedsStay(channels, lastChannel, channels', lastChannel')
        /\ \A d \in DOMAIN channels :
             channels'[d].status = IF d = chanActs[a].ch THEN status ELSE channels[d].status
        /\ \A d \in DOMAIN channels : channels'[d].url = channels[d].url
    BY <1>0, <1>3, MarkedKeeps
  <2>4. ActFeed(act, channels', lastChannel') BY <1>0, <1>3, <2>1, <2>3 DEF ActFeed
  <2>5. ASSUME NEW c \in DOMAIN channels', channels'[c].status = "downloading"
        PROVE  \/ c \in DOMAIN channels /\ channels[c].status = "downloading"
                       /\ ~(chanActs[a].ch = c /\ chanActs[a].pc \in AtRefresh)
               \/ act.ch = c /\ act.pc \in AtRefresh
    <3>1. CASE c = chanActs[a].ch
      <4>1. status = "downloading" BY <2>3, <2>5, <3>1
      <4>2. QED BY <1>3, <2>1, <3>1, <4>1 DEF AtRefresh
    <3>2. CASE c # chanActs[a].ch BY <2>3, <2>5, <3>2
    <3>3. QED BY <3>1, <3>2
  <2>6. Moves(a, act) BY <1>0, <2>1, <2>2, <2>3, <2>4, <2>5 DEF Moves
  <2>7. GoesOver(a, act) BY <1>3, <2>1 DEF GoesOver
  <2>8. QED BY <2>6, <2>7
<1>4. QED BY <1>1, <1>2, <1>3

LEMMA GetMoves ==
    ASSUME ChannelsInv, NEW a \in ChannelActors, GetFeed(a)
    PROVE  \E act : Moves(a, act) /\ GoesOver(a, act)
<1>0. /\ chanActs[a] \in ChannelAct /\ ActFeed(chanActs[a], channels, lastChannel)
      /\ chanActs[a].pc = "get" /\ UNCHANGED <<channels, lastChannel>> /\ recovered' = recovered
      /\ {"upgrade", "error"} \subseteq ChannelPc
  BY DEF ChannelsInv, GetFeed, ChAt, RestSame, DataSame, ChannelPc
<1>1. CASE chanActs[a].creating /\ ToStep(a, "upgrade") BY <1>0, <1>1, ToStepQuiet DEF AtRefresh
<1>2. CASE ToStep(a, "error") BY <1>0, <1>2, ToStepQuiet DEF AtRefresh
<1>3. CASE ~chanActs[a].creating /\ \E url \in ResolvedUrl(chanActs[a].url) :
              Does(a, [chanActs[a] EXCEPT !.pc = "upgrade", !.got = url])
  <2>1. PICK url \in ResolvedUrl(chanActs[a].url) :
              Does(a, [chanActs[a] EXCEPT !.pc = "upgrade", !.got = url])
    BY <1>3
  <2>2. url \in AnyUrl /\ url.feed = chanActs[a].url.feed
    BY <1>0 DEF ResolvedUrl, ChannelAct, AnyUrl
  <2> DEFINE act == [chanActs[a] EXCEPT !.pc = "upgrade", !.got = url]
  <2>3. /\ act \in ChannelAct /\ act.pc = "upgrade" /\ act.who = chanActs[a].who /\ act.got = url
        /\ act.ch = chanActs[a].ch /\ act.creating = chanActs[a].creating
        /\ act.urls = chanActs[a].urls /\ act.todo = chanActs[a].todo /\ act.known = chanActs[a].known
    BY <1>0, <2>2 DEF ChannelAct, ChannelPc
  <2>4. Does(a, act) BY <2>1
  <2> HIDE DEF act
  <2>5. ActFeed(act, channels, lastChannel) BY <1>0, <1>3, <2>2, <2>3 DEF ActFeed
  <2>6. Moves(a, act) BY <1>0, <2>3, <2>4, <2>5, QuietMove DEF AtRefresh
  <2>7. GoesOver(a, act) BY <1>0, <2>3 DEF GoesOver
  <2>8. QED BY <2>6, <2>7
<1>4. QED BY <1>1, <1>2, <1>3 DEF GetFeed

LEMMA UpgradeMoves ==
    ASSUME ChannelsInv, NEW a \in ChannelActors, Upgrade(a)
    PROVE  \E act : Moves(a, act) /\ GoesOver(a, act)
<1>0. /\ chanActs[a] \in ChannelAct /\ ActFeed(chanActs[a], channels, lastChannel)
      /\ chanActs[a].pc = "upgrade" /\ lastChannel' = lastChannel /\ recovered' = recovered
      /\ "store" \in ChannelPc /\ ToStep(a, "store") /\ lastChannel \in Nat
      /\ DOMAIN channels \subseteq 1..lastChannel
      /\ \A d \in DOMAIN channels : channels[d] \in ChannelRow
  BY DEF ChannelsInv, Upgrade, ChAt, RestSame, ChannelPc, ChannelRows
<1>1. CASE channels' = channels BY <1>0, <1>1, ToStepQuiet DEF AtRefresh
<1>2. CASE chanActs[a].ch \in DOMAIN channels
           /\ channels' = [channels EXCEPT ![chanActs[a].ch].url = chanActs[a].got]
  <2> DEFINE act == [chanActs[a] EXCEPT !.pc = "store"]
             ch == chanActs[a].ch
             got == chanActs[a].got
  <2>1. /\ act \in ChannelAct /\ act.pc = "store" /\ act.who = chanActs[a].who
        /\ act.ch = ch /\ act.todo = chanActs[a].todo /\ act.urls = chanActs[a].urls
        /\ act.known = chanActs[a].known
    BY <1>0, ActFields
  <2>2. Does(a, act) BY <1>0 DEF ToStep
  <2> HIDE DEF act
  <2>3. got \in AnyUrl /\ channels[ch].url.feed = got.feed BY <1>0, <1>2 DEF ActFeed, ChannelAct
  <2>4. ch \in DOMAIN channels /\ channels' = [channels EXCEPT ![ch].url = got] BY <1>2
  <2> HIDE DEF ch, got
  <2>5. /\ [channels[ch] EXCEPT !.url = got] \in ChannelRow
        /\ [channels[ch] EXCEPT !.url = got].url = got
        /\ [channels[ch] EXCEPT !.url = got].status = channels[ch].status
    BY <1>0, <2>3, <2>4 DEF ChannelRow
  <2>6. /\ DOMAIN channels' = DOMAIN channels
        /\ \A d \in DOMAIN channels : channels'[d] =
               IF d = ch THEN [channels[ch] EXCEPT !.url = got] ELSE channels[d]
    BY <2>4
  <2>7. \A d \in DOMAIN channels : channels'[d] \in ChannelRow BY <1>0, <2>5, <2>6
  <2>8. channels' \in [DOMAIN channels' -> ChannelRow] BY <2>4, <2>6, <2>7
  <2>9. FeedsStay(channels, lastChannel, channels', lastChannel')
    <3>1. \A d \in DOMAIN channels : channels'[d].url.feed = channels[d].url.feed BY <2>3, <2>5, <2>6
    <3>2. lastChannel <= lastChannel' BY <1>0
    <3>3. QED BY <2>6, <3>1, <3>2 DEF FeedsStay
  <2>10. ActFeed(act, channels', lastChannel') BY <1>0, <2>1 DEF ActFeed
  <2>11. \A d \in DOMAIN channels : channels'[d].status = channels[d].status BY <2>5, <2>6
  <2>12. ASSUME NEW d \in DOMAIN channels', channels'[d].status = "downloading"
         PROVE  \/ d \in DOMAIN channels /\ channels[d].status = "downloading"
                       /\ ~(chanActs[a].ch = d /\ chanActs[a].pc \in AtRefresh)
                \/ act.ch = d /\ act.pc \in AtRefresh
    BY <2>1, <2>6, <2>11, <2>12 DEF AtRefresh, ch
  <2>13. Moves(a, act) BY <1>0, <2>1, <2>2, <2>6, <2>8, <2>9, <2>10, <2>12 DEF Moves, ChannelRows
  <2>14. GoesOver(a, act) BY <1>0, <2>1 DEF GoesOver
  <2>15. QED BY <2>13, <2>14
<1>3. QED BY <1>1, <1>2 DEF Upgrade

LEMMA PurgeMoves ==
    ASSUME ChannelsInv, NEW a \in ChannelActors, PurgeChannel(a)
    PROVE  \E act : Moves(a, act) /\ GoesOver(a, act)
<1>0. /\ chanActs[a] \in ChannelAct /\ ActFeed(chanActs[a], channels, lastChannel)
      /\ chanActs[a].pc \in {"purge", "purgeAll", "purgeFailed"} /\ lastChannel' = lastChannel
      /\ recovered' = recovered /\ Ends(a, TRUE) /\ TRUE \in BOOLEAN
      /\ channels' = [d \in DOMAIN channels \ {chanActs[a].ch} |-> channels[d]]
      /\ lastChannel \in Nat /\ DOMAIN channels \subseteq 1..lastChannel
      /\ \A d \in DOMAIN channels : channels[d] \in ChannelRow
  BY DEF ChannelsInv, PurgeChannel, RestSame, ChannelRows
<1>1. PICK act \in ChannelAct :
              /\ Does(a, act) /\ act.pc \in {"idle", "count"} /\ GoesOver(a, act)
              /\ \A c, n : chanActs[a].known \cup chanActs[a].todo \subseteq 1..n => ActFeed(act, c, n)
  BY <1>0, EndsAct
<1>2. ActFeed(act, channels', lastChannel') BY <1>0, <1>1 DEF ActFeed
<1>3. /\ DOMAIN channels' \subseteq DOMAIN channels
      /\ \A d \in DOMAIN channels' : channels'[d] = channels[d]
  BY <1>0
<1>4. channels' \in [DOMAIN channels' -> ChannelRow] BY <1>0, <1>3
<1>5. FeedsStay(channels, lastChannel, channels', lastChannel') BY <1>0, <1>3 DEF FeedsStay
<1>6. ChannelRows(channels', lastChannel') BY <1>0, <1>3, <1>4 DEF ChannelRows
<1>7. chanActs[a].pc \notin AtRefresh BY <1>0 DEF AtRefresh
<1>8. Moves(a, act) BY <1>0, <1>1, <1>2, <1>3, <1>5, <1>6, <1>7 DEF Moves
<1>9. QED BY <1>1, <1>8

LEMMA StepMoves ==
    ASSUME ChannelsInv, NEW a \in ChannelActors, ChannelStep(a)
    PROVE  \E act : Moves(a, act) /\ GoesOver(a, act)
BY LookMoves, JoinMoves, FetchMoves, MatchMoves, InsertMoves, ClaimMoves, ReadMoves, MarkMoves,
   GetMoves, UpgradeMoves, PurgeMoves DEF ChannelStep

OneMoves == \E a \in ChannelActors : \E act : Moves(a, act) /\ channels' = channels

(* A request of a thread, and a step of the import worker.                  *)
LEMMA OtherMoves ==
    ASSUME ChannelsInv,
           \/ \E t \in ChannelThreads : ChannelRequest(t) \/ NextChannel(t) \/ SubmitImport(t)
           \/ StartImport \/ ImportFeed \/ CountFeed \/ EndImport,
           \A job \in importQueue : job[1] \in Subscribers \cup {NoSubscriber} /\ job[2] \in SUBSET Url
    PROVE  OneMoves
<1>0. /\ lastChannel \in Nat /\ DOMAIN channels \subseteq 1..lastChannel
      /\ chanActs \in [ChannelActors -> ChannelAct]
      /\ \A b \in ChannelActors : ActFeed(chanActs[b], channels, lastChannel)
      /\ ChannelThreads \subseteq ChannelActors /\ OpmlWorker \in ChannelActors
  BY DEF ChannelsInv, ChannelRows, ChannelActors
<1>1. DOMAIN channels \subseteq Nat BY <1>0
<1>2. ASSUME NEW a \in ChannelActors, NEW act \in ChannelAct, Does(a, act),
             UNCHANGED <<channels, lastChannel>>, recovered' = recovered,
             act.pc \notin {"row", "mark", "get", "upgrade", "insert"},
             act.pc = "claim" => act.ch \in 1..lastChannel, ~act.creating \/ act.pc \notin {"claim", "next"},
             act.todo \subseteq 1..lastChannel, act.known \subseteq 1..lastChannel,
             chanActs[a].pc \notin AtRefresh
      PROVE  OneMoves
  <2>1. ActFeed(act, channels, lastChannel) BY <1>2 DEF ActFeed
  <2>2. Moves(a, act) BY <1>2, <2>1, QuietMove
  <2>3. QED BY <1>2, <2>2 DEF OneMoves
<1>3. ASSUME NEW t \in ChannelThreads, NEW u \in Subscribers, NEW url \in Url, AskCreate(t, u, url)
      PROVE  OneMoves
  <2> DEFINE act == Creating(u, url)
  <2>1. url \in AnyUrl BY DEF Url, AnyUrl
  <2>2. act \in ChannelAct /\ act.pc = "look" /\ act.todo = {} /\ act.known = {}
    BY IdleAct, <2>1 DEF Creating, ChannelAct, ChannelPc
  <2>3. /\ Does(t, act) /\ UNCHANGED <<channels, lastChannel>> /\ recovered' = recovered
        /\ chanActs[t].pc \notin AtRefresh
    BY <1>3 DEF AskCreate, Asks, ChAt, DataSame, RestSame, AtRefresh
  <2> HIDE DEF act
  <2>4. t \in ChannelActors BY <1>0
  <2>5. QED BY <1>2, <2>2, <2>3, <2>4
<1>4. ASSUME NEW t \in ChannelThreads, NEW todo \in SUBSET DOMAIN channels, AskRefresh(t, todo)
      PROVE  OneMoves
  <2> DEFINE act == [ChannelIdle EXCEPT !.pc = "next", !.todo = todo]
  <2>1. todo \in SUBSET Nat /\ todo \subseteq 1..lastChannel BY <1>0, <1>1
  <2>2. act \in ChannelAct /\ act.pc = "next" /\ act.todo = todo /\ act.known = {} /\ ~act.creating
    BY IdleAct, <2>1 DEF ChannelAct, ChannelPc
  <2>3. /\ Does(t, act) /\ UNCHANGED <<channels, lastChannel>> /\ recovered' = recovered
        /\ chanActs[t].pc \notin AtRefresh
    BY <1>4 DEF AskRefresh, Asks, ChAt, DataSame, RestSame, AtRefresh
  <2> HIDE DEF act
  <2>4. t \in ChannelActors BY <1>0
  <2>5. QED BY <1>2, <2>1, <2>2, <2>3, <2>4
<1>5. ASSUME NEW t \in ChannelThreads, NEW c \in DOMAIN channels,
             AskDelete(t, c) \/ \E u \in Subscribers : Unsubscribe(t, u, c)
      PROVE  OneMoves
  <2>1. ASSUME NEW pc \in {"purge", "purgeAll"}, Does(t, [ChannelIdle EXCEPT !.pc = pc, !.ch = c]),
               UNCHANGED <<channels, lastChannel>>, recovered' = recovered, chanActs[t].pc = "idle"
        PROVE  OneMoves
    <3> DEFINE act == [ChannelIdle EXCEPT !.pc = pc, !.ch = c]
    <3>1. c \in Nat /\ pc \in ChannelPc BY <1>1 DEF ChannelPc
    <3>2. act \in ChannelAct /\ act.pc = pc /\ act.todo = {} /\ act.known = {}
      BY IdleAct, <3>1 DEF ChannelAct
    <3>3. Does(t, act) /\ t \in ChannelActors /\ chanActs[t].pc \notin AtRefresh
      BY <1>0, <2>1 DEF AtRefresh
    <3> HIDE DEF act
    <3>4. QED BY <1>2, <2>1, <3>2, <3>3
  <2>2. CASE Does(t, ChannelIdle) /\ chanActs[t].pc = "idle" /\ UNCHANGED <<channels, lastChannel>>
             /\ recovered' = recovered
    BY <1>0, <1>2, <2>2, IdleAct DEF AtRefresh
  <2>3. /\ UNCHANGED <<channels, lastChannel>> /\ recovered' = recovered /\ chanActs[t].pc = "idle"
        /\ \/ \E pc \in {"purge", "purgeAll"} : Does(t, [ChannelIdle EXCEPT !.pc = pc, !.ch = c])
           \/ Does(t, ChannelIdle)
    BY <1>5 DEF AskDelete, Unsubscribe, Asks, ChAt, DataSame, RestSame
  <2>4. QED BY <2>1, <2>2, <2>3
<1>6. ASSUME NEW t \in ChannelThreads, NEW u \in Subscribers, NEW urls \in OpmlFiles, AskImport(t, u, urls)
      PROVE  OneMoves
  <2> DEFINE act == [ChannelIdle EXCEPT !.pc = "submit", !.who = u, !.urls = urls]
  <2>1. urls \in SUBSET Url BY ChannelsAssumption DEF Url
  <2>2. act \in ChannelAct /\ act.pc = "submit" /\ act.todo = {} /\ act.known = {}
    BY IdleAct, <2>1 DEF ChannelAct, ChannelPc
  <2>3. /\ Does(t, act) /\ UNCHANGED <<channels, lastChannel>> /\ recovered' = recovered
        /\ chanActs[t].pc \notin AtRefresh
    BY <1>6 DEF AskImport, Asks, ChAt, DataSame, AtRefresh
  <2> HIDE DEF act
  <2>4. t \in ChannelActors BY <1>0
  <2>5. QED BY <1>2, <2>2, <2>3, <2>4
<1>7. ASSUME NEW t \in ChannelThreads, NextChannel(t)
      PROVE  OneMoves
  <2>1. /\ UNCHANGED <<channels, lastChannel>> /\ recovered' = recovered /\ chanActs[t].pc \notin AtRefresh
        /\ t \in ChannelActors
    BY <1>0, <1>7 DEF NextChannel, ChAt, DataSame, RestSame, AtRefresh
  <2>0. chanActs[t].pc = "next" BY <1>7 DEF NextChannel, ChAt
  <2>2. CASE Does(t, ChannelIdle) BY <1>2, <2>1, <2>2, IdleAct
  <2>3. ASSUME NEW c \in chanActs[t].todo,
               Does(t, [chanActs[t] EXCEPT !.pc = "claim", !.ch = c, !.todo = @ \ {c}])
        PROVE  OneMoves
    <3> DEFINE act == [chanActs[t] EXCEPT !.pc = "claim", !.ch = c, !.todo = @ \ {c}]
    <3>1. chanActs[t] \in ChannelAct /\ ActFeed(chanActs[t], channels, lastChannel) BY <1>0, <2>1
    <3>2. c \in Nat BY <3>1 DEF ChannelAct
    <3>3. /\ act \in ChannelAct /\ act.pc = "claim" /\ act.ch = c /\ act.todo \subseteq chanActs[t].todo
          /\ act.known = chanActs[t].known /\ act.creating = chanActs[t].creating
      BY <3>1, <3>2 DEF ChannelAct, ChannelPc
    <3>4. /\ act.todo \subseteq 1..lastChannel /\ act.known \subseteq 1..lastChannel
          /\ c \in 1..lastChannel
      BY <3>1, <3>3 DEF ActFeed
    <3>5. ~act.creating BY <2>0, <3>1, <3>3 DEF ActFeed
    <3>6. Does(t, act) BY <2>3
    <3> HIDE DEF act
    <3>7. QED BY <1>2, <2>1, <3>3, <3>4, <3>5, <3>6
  <2>4. QED BY <1>7, <2>2, <2>3 DEF NextChannel
<1>8. ASSUME NEW t \in ChannelThreads, SubmitImport(t)
      PROVE  OneMoves
  <2>1. /\ UNCHANGED <<channels, lastChannel>> /\ recovered' = recovered /\ chanActs[t].pc \notin AtRefresh
        /\ t \in ChannelActors /\ Does(t, ChannelIdle)
    BY <1>0, <1>8 DEF SubmitImport, ChAt, DataSame, AtRefresh
  <2>2. QED BY <1>2, <2>1, IdleAct
<1>9. CASE EndImport
  <2>1. /\ UNCHANGED <<channels, lastChannel>> /\ recovered' = recovered
        /\ chanActs[OpmlWorker].pc \notin AtRefresh /\ Does(OpmlWorker, ChannelIdle)
    BY <1>9 DEF EndImport, ChAt, DataSame, AtRefresh
  <2>2. QED BY <1>0, <1>2, <2>1, IdleAct
<1>10. CASE StartImport
  <2>1. PICK job \in importQueue :
           Does(OpmlWorker, [ChannelIdle EXCEPT !.pc = "feed", !.who = job[1], !.urls = job[2]])
    BY <1>10 DEF StartImport
  <2> DEFINE act == [ChannelIdle EXCEPT !.pc = "feed", !.who = job[1], !.urls = job[2]]
  <2>2. act \in ChannelAct /\ act.pc = "feed" /\ act.todo = {} /\ act.known = {}
    BY IdleAct DEF ChannelAct, ChannelPc
  <2>3. Does(OpmlWorker, act) BY <2>1
  <2>4. /\ UNCHANGED <<channels, lastChannel>> /\ recovered' = recovered
        /\ chanActs[OpmlWorker].pc \notin AtRefresh
    BY <1>10 DEF StartImport, ChAt, DataSame, AtRefresh
  <2> HIDE DEF act
  <2>5. QED BY <1>0, <1>2, <2>2, <2>3, <2>4
<1>11. CASE CountFeed
  <2> DEFINE old == chanActs[OpmlWorker]
             act == [ChannelIdle EXCEPT !.pc = "feed", !.who = old.who, !.urls = old.urls]
  <2>1. old \in ChannelAct BY <1>0
  <2>2. act \in ChannelAct /\ act.pc = "feed" /\ act.todo = {} /\ act.known = {}
    BY IdleAct, <2>1 DEF ChannelAct, ChannelPc
  <2>3. Does(OpmlWorker, act) BY <1>11 DEF CountFeed
  <2>4. /\ UNCHANGED <<channels, lastChannel>> /\ recovered' = recovered /\ old.pc \notin AtRefresh
    BY <1>11 DEF CountFeed, ChAt, DataSame, AtRefresh
  <2> HIDE DEF act
  <2>5. QED BY <1>0, <1>2, <2>2, <2>3, <2>4
<1>12. CASE ImportFeed
  <2> DEFINE old == chanActs[OpmlWorker]
  <2>1. old \in ChannelAct /\ ActFeed(old, channels, lastChannel) BY <1>0
  <2>2. /\ UNCHANGED <<channels, lastChannel>> /\ recovered' = recovered
        /\ chanActs[OpmlWorker].pc \notin AtRefresh
    BY <1>12 DEF ImportFeed, ChAt, DataSame, RestSame, AtRefresh
  <2>3. PICK url \in old.urls :
          \/ Does(OpmlWorker, [old EXCEPT !.pc = "count", !.urls = old.urls \ {url}, !.ch = 1])
          \/ Does(OpmlWorker, [Creating(old.who, url) EXCEPT !.urls = old.urls \ {url}])
    BY <1>12 DEF ImportFeed
  <2>4. url \in Url /\ url \in AnyUrl BY <2>1 DEF ChannelAct, Url, AnyUrl
  <2>5. CASE Does(OpmlWorker, [old EXCEPT !.pc = "count", !.urls = old.urls \ {url}, !.ch = 1])
    <3> DEFINE act == [old EXCEPT !.pc = "count", !.urls = old.urls \ {url}, !.ch = 1]
    <3>1. act \in ChannelAct /\ act.pc = "count" /\ act.todo = old.todo /\ act.known = old.known
      BY <2>1 DEF ChannelAct, ChannelPc
    <3>2. act.todo \subseteq 1..lastChannel /\ act.known \subseteq 1..lastChannel
      BY <2>1, <3>1 DEF ActFeed
    <3>3. Does(OpmlWorker, act) BY <2>5
    <3> HIDE DEF act
    <3>4. QED BY <1>0, <1>2, <2>2, <3>1, <3>2, <3>3
  <2>6. CASE Does(OpmlWorker, [Creating(old.who, url) EXCEPT !.urls = old.urls \ {url}])
    <3> DEFINE act == [Creating(old.who, url) EXCEPT !.urls = old.urls \ {url}]
    <3>1. act \in ChannelAct /\ act.pc = "look" /\ act.todo = {} /\ act.known = {}
      BY IdleAct, <2>1, <2>4 DEF ChannelAct, ChannelPc, Creating
    <3>2. Does(OpmlWorker, act) BY <2>6
    <3> HIDE DEF act
    <3>3. QED BY <1>0, <1>2, <2>2, <3>1, <3>2
  <2>7. QED BY <2>3, <2>5, <2>6
<1>13. QED
  BY <1>3, <1>4, <1>5, <1>6, <1>7, <1>8, <1>9, <1>10, <1>11, <1>12 DEF ChannelRequest

LEMMA RecoveryKeeps ==
    ASSUME ChannelsInv, RestartChannels \/ ResumeChannels \/ (\E u \in Subscribers : TellImport(u))
                        \/ UNCHANGED chanVars
    PROVE  ChannelsInv' /\ DOMAIN channels' = DOMAIN channels
<1>0. /\ lastChannel \in Nat /\ DOMAIN channels \subseteq 1..lastChannel
      /\ \A d \in DOMAIN channels : channels[d] \in ChannelRow
      /\ chanActs \in [ChannelActors -> ChannelAct]
      /\ \A b \in ChannelActors : ActFeed(chanActs[b], channels, lastChannel)
  BY DEF ChannelsInv, ChannelRows
<1>1. CASE RestartChannels
  <2>1. /\ UNCHANGED <<channels, lastChannel>> /\ ~recovered'
        /\ chanActs' = [a \in ChannelActors |-> ChannelIdle]
    BY <1>1 DEF RestartChannels, DataSame
  <2>2. /\ chanActs' \in [ChannelActors -> ChannelAct]
        /\ \A b \in ChannelActors : ActFeed(chanActs'[b], channels', lastChannel')
    BY <2>1, IdleAct
  <2>3. QED BY <2>1, <2>2 DEF ChannelsInv, RefreshTrue
<1>2. CASE ResumeChannels
  <2>1. /\ channels' = ResetChannels /\ UNCHANGED <<lastChannel, chanActs>>
    BY <1>2 DEF ResumeChannels
  <2>2. /\ DOMAIN channels' = DOMAIN channels
        /\ \A d \in DOMAIN channels : channels'[d] =
             [channels[d] EXCEPT !.status = IF @ = "downloading" THEN "new" ELSE @]
    BY <2>1 DEF ResetChannels
  <2>3. \A d \in DOMAIN channels : /\ channels'[d] \in ChannelRow /\ channels'[d].url = channels[d].url
                                   /\ channels'[d].status # "downloading"
    BY <1>0, <2>2 DEF ChannelRow
  <2>4. channels' \in [DOMAIN channels' -> ChannelRow] BY <2>1, <2>2, <2>3 DEF ResetChannels
  <2>5. FeedsStay(channels, lastChannel, channels', lastChannel') BY <1>0, <2>1, <2>2, <2>3 DEF FeedsStay
  <2>6. \A b \in ChannelActors : ActFeed(chanActs'[b], channels', lastChannel')
    BY <1>0, <2>1, <2>5, FeedKeeps
  <2>7. RefreshTrue' BY <2>2, <2>3 DEF RefreshTrue
  <2>8. QED BY <1>0, <2>1, <2>2, <2>4, <2>6, <2>7 DEF ChannelsInv, ChannelRows
<1>3. CASE (\E u \in Subscribers : TellImport(u)) \/ UNCHANGED chanVars
  <2>1. UNCHANGED <<channels, lastChannel, chanActs, recovered>>
    BY <1>3 DEF TellImport, chanVars, DataSame
  <2>2. QED BY <2>1 DEF ChannelsInv, RefreshTrue
<1>4. QED BY <1>1, <1>2, <1>3

\* What NoTwin and ImportTold say of a step.
NoTwinStep ==
    \A c \in DOMAIN channels' \ DOMAIN channels : \A a \in ChannelActors :
          chanActs'[a].ch = c /\ chanActs'[a].pc = "claim" =>
            \A d \in chanActs[a].known \cap DOMAIN channels :
                channels[d].url.feed # channels'[c].url.feed

ToldStep ==
    \A u \in Subscribers :
          imports'[u] # imports[u] =>
            imports[u].done = imports[u].total
              \/ (imports'[u].done = imports[u].done + 1 /\ imports'[u].total = imports[u].total)
              \/ chanStops' # chanStops

LEMMA InsertNoTwin == ASSUME ChannelsInv, NEW a \in ChannelActors, Insert(a) PROVE NoTwinStep
<1>1. /\ lastChannel \in Nat /\ chanActs[a].pc = "insert"
      /\ \A b \in ChannelActors : ActFeed(chanActs[b], channels, lastChannel)
  BY DEF ChannelsInv, Insert, ChAt
<1>2. PICK act : Moves(a, act) BY InsertMoves
<1>3. \A b \in ChannelActors : b # a => chanActs'[b] = chanActs[b]
  BY <1>2 DEF Moves, Does, ChannelsInv
<1>4. \A c \in DOMAIN channels' \ DOMAIN channels :
         c = lastChannel + 1 /\ channels'[c].url = chanActs[a].got
  BY InsertMoves
<1>5. \A b \in ChannelActors : chanActs[b].pc = "claim" => chanActs[b].ch # lastChannel + 1
  <2>1. \A b \in ChannelActors : chanActs[b].pc = "claim" => chanActs[b].ch \in 1..lastChannel
    BY <1>1 DEF ActFeed
  <2>2. QED BY <1>1, <2>1
<1>6. \A d \in chanActs[a].known \cap DOMAIN channels : channels[d].url.feed # chanActs[a].got.feed
  BY <1>1 DEF ActFeed
<1>7. QED BY <1>3, <1>4, <1>5, <1>6 DEF NoTwinStep

LEMMA StepNoTwin == ASSUME ChannelsInv, NEW a \in ChannelActors, ChannelStep(a) PROVE NoTwinStep
<1>1. CASE Insert(a) BY <1>1, InsertNoTwin
<1>2. CASE MarkRefresh(a) \/ StoreFeed(a) \/ RefreshFails(a)
  <2>1. DOMAIN channels' = DOMAIN channels
    BY <1>2 DEF MarkRefresh, StoreFeed, RefreshFails, MarkedChannel
  <2>2. QED BY <2>1 DEF NoTwinStep
<1>3. CASE Upgrade(a)
  <2>1. DOMAIN channels' = DOMAIN channels BY <1>3 DEF Upgrade
  <2>2. QED BY <2>1 DEF NoTwinStep
<1>4. CASE PurgeChannel(a)
  <2>1. DOMAIN channels' \subseteq DOMAIN channels BY <1>4 DEF PurgeChannel
  <2>2. QED BY <2>1 DEF NoTwinStep
<1>5. CASE \/ LookForChannel(a) \/ Join(a) \/ FetchChannel(a) \/ Match(a) \/ ClaimRefresh(a)
           \/ ReadChannel(a) \/ GetFeed(a) \/ EndRefresh(a) \/ CheckCreated(a)
  <2>1. channels' = channels
    BY <1>5 DEF LookForChannel, Join, FetchChannel, Match, ClaimRefresh, ReadChannel, GetFeed,
                EndRefresh, CheckCreated, DataSame
  <2>2. QED BY <2>1 DEF NoTwinStep
<1>6. QED BY <1>1, <1>2, <1>3, <1>4, <1>5 DEF ChannelStep

-----------------------------------------------------------------------------
(* OPML imports: whose turn it is at every stage, and what is left to count *)
Told(im, u)  == im[u].done = im[u].total
JobLeft(im, u, urls, more) == IsFiniteSet(urls) /\ im[u].done + Cardinality(urls) + more = im[u].total

\* Of a user whose import holds the limit, one stage only.
Submits(acts, t) == acts[t].pc = "submit"
WorksFor(acts, u) == acts[OpmlWorker].pc # "idle" /\ acts[OpmlWorker].who = u

ImportsOK(acts, active, im, waiting) ==
    /\ im \in [Subscribers -> [total : Nat, done : Nat, failed : Nat]]
    /\ \A job \in waiting : job[1] \in Subscribers /\ job[2] \in SUBSET Url
    /\ \A u \in Subscribers \ active : Told(im, u)
    /\ \A t \in ChannelThreads : Submits(acts, t) =>
          /\ acts[t].who \in active /\ acts[t].who \in Subscribers /\ Told(im, acts[t].who)
          /\ IsFiniteSet(acts[t].urls) /\ ~WorksFor(acts, acts[t].who)
          /\ \A s \in ChannelThreads : Submits(acts, s) /\ acts[s].who = acts[t].who => s = t
          /\ \A job \in waiting : job[1] # acts[t].who
    /\ \A job \in waiting :
          /\ job[1] \in active /\ JobLeft(im, job[1], job[2], 0) /\ ~WorksFor(acts, job[1])
          /\ \A other \in waiting : other[1] = job[1] => other = job
    /\ \A u : WorksFor(acts, u) =>
          /\ u \in active /\ u \in Subscribers
          /\ JobLeft(im, u, acts[OpmlWorker].urls, IF acts[OpmlWorker].pc = "feed" THEN 0 ELSE 1)

ImportsInv == ImportsOK(chanActs, importing, imports, importQueue)

\* A step that no import takes notice of.
Unseen(a, act) ==
    IF a = OpmlWorker
      THEN /\ chanActs[a].pc \notin {"idle", "feed"} /\ act.pc \notin {"idle", "feed"}
           /\ act.who = chanActs[a].who /\ act.urls = chanActs[a].urls
      ELSE chanActs[a].pc # "submit" /\ act.pc # "submit"

LEMMA UnseenKeeps ==
    ASSUME ChannelsInv, ImportsInv, NEW a \in ChannelActors, NEW act, Does(a, act), Unseen(a, act),
           UNCHANGED opml
    PROVE  ImportsInv' /\ ToldStep
<1>1. \A b \in ChannelActors : chanActs'[b] = IF b = a THEN act ELSE chanActs[b]
  BY DEF Does, ChannelsInv
<1>2. UNCHANGED <<importing, imports, importQueue>> BY DEF opml
<1>3. \A u : WorksFor(chanActs', u) <=> WorksFor(chanActs, u)
  BY <1>1 DEF WorksFor, Unseen, ChannelActors
<1>4. \A t \in ChannelThreads : /\ Submits(chanActs', t) <=> Submits(chanActs, t)
                                /\ Submits(chanActs, t) => chanActs'[t] = chanActs[t]
  <2>1. \A t \in ChannelThreads : t \in ChannelActors /\ t # OpmlWorker
    BY ChannelsAssumption DEF ChannelActors
  <2>2. QED BY <1>1, <2>1 DEF Submits, Unseen
<1>5. chanActs'[OpmlWorker].urls = chanActs[OpmlWorker].urls
      /\ (chanActs'[OpmlWorker].pc = "feed" <=> chanActs[OpmlWorker].pc = "feed")
  BY <1>1 DEF Unseen, ChannelActors
<1>6. ImportsInv' BY <1>2, <1>3, <1>4, <1>5 DEF ImportsInv, ImportsOK
<1>7. QED BY <1>2, <1>6 DEF ToldStep

LEMMA AskImportKeeps ==
    ASSUME ChannelsInv, ImportsInv, NEW t \in ChannelThreads, NEW u \in Subscribers,
           NEW urls \in OpmlFiles, AskImport(t, u, urls)
    PROVE  ImportsInv' /\ ToldStep
<1> DEFINE act == [ChannelIdle EXCEPT !.pc = "submit", !.who = u, !.urls = urls]
<1>0. act.pc = "submit" /\ act.who = u /\ act.urls = urls BY DEF ChannelIdle
<1>1. /\ Does(t, act) /\ chanActs[t].pc = "idle" /\ u \notin importing
      /\ importing' = importing \cup {u} /\ UNCHANGED <<imports, importQueue>>
  BY DEF AskImport, Asks, ChAt, Allowed
<1> HIDE DEF act
<1>2. IsFiniteSet(urls) BY ChannelsAssumption
<1>3. \A s \in ChannelThreads : s # OpmlWorker /\ s \in ChannelActors
  BY ChannelsAssumption DEF ChannelActors
<1>4. \A b \in ChannelActors : chanActs'[b] = IF b = t THEN act ELSE chanActs[b]
  BY <1>1 DEF Does, ChannelsInv
<1>5. chanActs'[OpmlWorker] = chanActs[OpmlWorker] BY <1>3, <1>4 DEF ChannelActors
<1>6. \A v : WorksFor(chanActs', v) <=> WorksFor(chanActs, v) BY <1>5 DEF WorksFor
<1>7. \A s \in ChannelThreads : /\ s # t => chanActs'[s] = chanActs[s]
                                /\ Submits(chanActs', s) <=> s = t \/ Submits(chanActs, s)
  BY <1>0, <1>3, <1>4 DEF Submits
<1>8. /\ chanActs'[t] = act /\ ~Submits(chanActs, t)
  BY <1>1, <1>3, <1>4 DEF Submits
<1>9. Told(imports, u) /\ ~WorksFor(chanActs, u) /\ (\A job \in importQueue : job[1] # u)
      /\ \A s \in ChannelThreads : Submits(chanActs, s) => chanActs[s].who # u
  BY <1>1 DEF ImportsInv, ImportsOK
<1>10. ImportsInv'
  BY <1>0, <1>1, <1>2, <1>5, <1>6, <1>7, <1>8, <1>9 DEF ImportsInv, ImportsOK
<1>11. QED BY <1>1, <1>10 DEF ToldStep

LEMMA SubmitKeeps ==
    ASSUME ChannelsInv, ImportsInv, NEW t \in ChannelThreads, SubmitImport(t)
    PROVE  ImportsInv' /\ ToldStep
<1> DEFINE u == chanActs[t].who
           urls == chanActs[t].urls
           row == [NoImport EXCEPT !.total = Cardinality(urls)]
<1>1. /\ Does(t, ChannelIdle) /\ chanActs[t].pc = "submit" /\ importing' = importing
      /\ imports' = [imports EXCEPT ![u] = row] /\ importQueue' = importQueue \cup {<<u, urls>>}
  BY DEF SubmitImport, ChAt
<1>2. \A s \in ChannelThreads : s # OpmlWorker /\ s \in ChannelActors
  BY ChannelsAssumption DEF ChannelActors
<1>3. chanActs[t] \in ChannelAct BY <1>2 DEF ChannelsInv
<1>4. Submits(chanActs, t) BY <1>1 DEF Submits
<1>5. /\ u \in importing /\ u \in Subscribers /\ Told(imports, u) /\ IsFiniteSet(urls)
      /\ ~WorksFor(chanActs, u) /\ \A job \in importQueue : job[1] # u
      /\ \A s \in ChannelThreads : Submits(chanActs, s) /\ s # t => chanActs[s].who # u
  BY <1>4 DEF ImportsInv, ImportsOK
<1>6. urls \in SUBSET Url BY <1>3 DEF ChannelAct
<1>7. Cardinality(urls) \in Nat BY <1>5, FS_CardinalityType
<1>8. row \in [total : Nat, done : Nat, failed : Nat] /\ row.done = 0 /\ row.total = Cardinality(urls)
  BY <1>7 DEF NoImport
<1> HIDE DEF row
<1>9. /\ imports' \in [Subscribers -> [total : Nat, done : Nat, failed : Nat]]
      /\ \A v \in Subscribers : imports'[v] = IF v = u THEN row ELSE imports[v]
  BY <1>1, <1>5, <1>8 DEF ImportsInv, ImportsOK
<1>10. JobLeft(imports', u, urls, 0) BY <1>5, <1>7, <1>8, <1>9 DEF JobLeft
<1>11. ToldStep BY <1>5, <1>9 DEF ToldStep, Told
<1>12. \A b \in ChannelActors : chanActs'[b] = IF b = t THEN ChannelIdle ELSE chanActs[b]
  BY <1>1 DEF Does, ChannelsInv
<1>13. /\ chanActs'[OpmlWorker] = chanActs[OpmlWorker]
       /\ \A v : WorksFor(chanActs', v) <=> WorksFor(chanActs, v)
  BY <1>2, <1>12 DEF ChannelActors, WorksFor
<1>14. \A s \in ChannelThreads : /\ Submits(chanActs', s) <=> s # t /\ Submits(chanActs, s)
                                 /\ s # t => chanActs'[s] = chanActs[s]
  BY <1>2, <1>12, IdleAct DEF Submits
<1>15. <<u, urls>>[1] = u /\ <<u, urls>>[2] = urls OBVIOUS
<1> HIDE DEF u, urls
<1>16. /\ \A v \in Subscribers : v # u => (Told(imports', v) <=> Told(imports, v))
       /\ \A v \in Subscribers : \A w, n : v # u =>
             (JobLeft(imports', v, w, n) <=> JobLeft(imports, v, w, n))
  BY <1>9 DEF Told, JobLeft
<1>17. \A job \in importQueue' : job = <<u, urls>> \/ job \in importQueue BY <1>1
<1>18. \A job \in importQueue' : job[1] \in Subscribers /\ job[2] \in SUBSET Url
  BY <1>5, <1>6, <1>15, <1>17 DEF ImportsInv, ImportsOK
<1>19. \A v \in Subscribers \ importing' : Told(imports', v)
  BY <1>1, <1>5, <1>16 DEF ImportsInv, ImportsOK
<1>20. ASSUME NEW s \in ChannelThreads, Submits(chanActs', s)
       PROVE  /\ chanActs'[s].who \in importing' /\ chanActs'[s].who \in Subscribers
              /\ Told(imports', chanActs'[s].who)
              /\ IsFiniteSet(chanActs'[s].urls) /\ ~WorksFor(chanActs', chanActs'[s].who)
              /\ \A r \in ChannelThreads : Submits(chanActs', r) /\ chanActs'[r].who = chanActs'[s].who
                    => r = s
              /\ \A job \in importQueue' : job[1] # chanActs'[s].who
  <2>1. s # t /\ Submits(chanActs, s) /\ chanActs'[s] = chanActs[s] BY <1>14, <1>20
  <2>2. chanActs[s].who # u BY <1>5, <2>1
  <2>3. chanActs[s].who \in importing /\ chanActs[s].who \in Subscribers /\ Told(imports, chanActs[s].who)
    BY <2>1 DEF ImportsInv, ImportsOK
  <2>4. IsFiniteSet(chanActs[s].urls) /\ ~WorksFor(chanActs, chanActs[s].who)
    BY <2>1 DEF ImportsInv, ImportsOK
  <2>5. \A r \in ChannelThreads : Submits(chanActs, r) /\ chanActs[r].who = chanActs[s].who => r = s
    BY <2>1 DEF ImportsInv, ImportsOK
  <2>6. \A job \in importQueue : job[1] # chanActs[s].who BY <2>1 DEF ImportsInv, ImportsOK
  <2>7. Told(imports', chanActs[s].who) BY <1>16, <2>2, <2>3
  <2>8. \A r \in ChannelThreads : Submits(chanActs', r) /\ chanActs'[r].who = chanActs'[s].who => r = s
    BY <1>14, <2>1, <2>5
  <2>9. \A job \in importQueue' : job[1] # chanActs'[s].who BY <1>15, <1>17, <2>1, <2>2, <2>6
  <2>10. IsFiniteSet(chanActs'[s].urls) /\ ~WorksFor(chanActs', chanActs'[s].who)
    BY <1>13, <2>1, <2>4
  <2>11. QED BY <1>1, <2>1, <2>3, <2>7, <2>8, <2>9, <2>10
<1>21. ASSUME NEW job \in importQueue'
       PROVE  /\ job[1] \in importing' /\ JobLeft(imports', job[1], job[2], 0)
              /\ ~WorksFor(chanActs', job[1])
              /\ \A other \in importQueue' : other[1] = job[1] => other = job
  <2>1. CASE job = <<u, urls>> BY <1>1, <1>5, <1>10, <1>13, <1>15, <1>17, <2>1
  <2>2. CASE job \in importQueue
    <3>1. job[1] # u /\ job[1] \in Subscribers BY <1>5, <2>2 DEF ImportsInv, ImportsOK
    <3>2. JobLeft(imports', job[1], job[2], 0) BY <1>16, <2>2, <3>1 DEF ImportsInv, ImportsOK
    <3>3. QED BY <1>1, <1>13, <1>15, <1>17, <2>2, <3>1, <3>2 DEF ImportsInv, ImportsOK
  <2>3. QED BY <1>17, <2>1, <2>2
<1>22. ASSUME NEW v, WorksFor(chanActs', v)
       PROVE  /\ v \in importing' /\ v \in Subscribers
              /\ JobLeft(imports', v, chanActs'[OpmlWorker].urls,
                         IF chanActs'[OpmlWorker].pc = "feed" THEN 0 ELSE 1)
  <2>1. WorksFor(chanActs, v) BY <1>13, <1>22
  <2>2. v # u BY <1>5, <2>1
  <2>3. QED BY <1>1, <1>13, <1>16, <2>1, <2>2 DEF ImportsInv, ImportsOK
<1>23. ImportsInv' BY <1>9, <1>18, <1>19, <1>20, <1>21, <1>22 DEF ImportsInv, ImportsOK
<1>24. QED BY <1>11, <1>23

(* A step of the worker touches no thread that submits an import.           *)
LEMMA WorkerFrame ==
    ASSUME ChannelsInv, NEW act, Does(OpmlWorker, act)
    PROVE  /\ chanActs'[OpmlWorker] = act
           /\ \A v : WorksFor(chanActs', v) <=> act.pc # "idle" /\ act.who = v
           /\ \A t \in ChannelThreads : chanActs'[t] = chanActs[t]
           /\ \A t \in ChannelThreads : Submits(chanActs', t) <=> Submits(chanActs, t)
<1>1. \A b \in ChannelActors : chanActs'[b] = IF b = OpmlWorker THEN act ELSE chanActs[b]
  BY DEF Does, ChannelsInv
<1>2. \A t \in ChannelThreads : t \in ChannelActors /\ t # OpmlWorker
  BY ChannelsAssumption DEF ChannelActors
<1>3. QED BY <1>1, <1>2 DEF ChannelActors, WorksFor, Submits

LEMMA StartKeeps == ASSUME ChannelsInv, ImportsInv, StartImport PROVE ImportsInv' /\ ToldStep
<1>1. PICK job \in importQueue :
         /\ importQueue' = importQueue \ {job}
         /\ Does(OpmlWorker, [ChannelIdle EXCEPT !.pc = "feed", !.who = job[1], !.urls = job[2]])
  BY DEF StartImport
<1> DEFINE act == [ChannelIdle EXCEPT !.pc = "feed", !.who = job[1], !.urls = job[2]]
<1>2. act.pc = "feed" /\ act.who = job[1] /\ act.urls = job[2] BY DEF ChannelIdle
<1>3. /\ Does(OpmlWorker, act) /\ chanActs[OpmlWorker].pc = "idle"
      /\ UNCHANGED <<importing, imports>>
  BY <1>1 DEF StartImport, ChAt
<1> HIDE DEF act
<1>4. /\ chanActs'[OpmlWorker] = act /\ \A v : WorksFor(chanActs', v) <=> v = job[1]
      /\ \A t \in ChannelThreads : chanActs'[t] = chanActs[t]
      /\ \A t \in ChannelThreads : Submits(chanActs', t) <=> Submits(chanActs, t)
  BY <1>2, <1>3, WorkerFrame
<1>5. /\ job[1] \in importing /\ job[1] \in Subscribers /\ JobLeft(imports, job[1], job[2], 0)
      /\ \A other \in importQueue : other[1] = job[1] => other = job
      /\ \A t \in ChannelThreads : Submits(chanActs, t) => chanActs[t].who # job[1]
  BY <1>1 DEF ImportsInv, ImportsOK
<1>6. \A other \in importQueue' : other \in importQueue /\ other[1] # job[1] BY <1>1, <1>5
<1>7. ASSUME NEW t \in ChannelThreads, Submits(chanActs', t)
      PROVE  /\ chanActs'[t].who \in importing' /\ chanActs'[t].who \in Subscribers
             /\ Told(imports', chanActs'[t].who)
             /\ IsFiniteSet(chanActs'[t].urls) /\ ~WorksFor(chanActs', chanActs'[t].who)
             /\ \A s \in ChannelThreads : Submits(chanActs', s) /\ chanActs'[s].who = chanActs'[t].who
                   => s = t
             /\ \A other \in importQueue' : other[1] # chanActs'[t].who
  <2>1. Submits(chanActs, t) /\ chanActs'[t] = chanActs[t] BY <1>4, <1>7
  <2>2. ~WorksFor(chanActs', chanActs'[t].who) BY <1>4, <1>5, <2>1
  <2>3. QED BY <1>3, <1>4, <1>6, <2>1, <2>2 DEF ImportsInv, ImportsOK
<1>8. ASSUME NEW other \in importQueue'
      PROVE  /\ other[1] \in importing' /\ JobLeft(imports', other[1], other[2], 0)
             /\ ~WorksFor(chanActs', other[1])
             /\ \A third \in importQueue' : third[1] = other[1] => third = other
  BY <1>3, <1>4, <1>6 DEF ImportsInv, ImportsOK
<1>9. ASSUME NEW v, WorksFor(chanActs', v)
      PROVE  /\ v \in importing' /\ v \in Subscribers
             /\ JobLeft(imports', v, chanActs'[OpmlWorker].urls,
                        IF chanActs'[OpmlWorker].pc = "feed" THEN 0 ELSE 1)
  BY <1>2, <1>3, <1>4, <1>5, <1>9
<1>10. ImportsInv' BY <1>3, <1>6, <1>7, <1>8, <1>9 DEF ImportsInv, ImportsOK
<1>11. QED BY <1>3, <1>10 DEF ToldStep

LEMMA CountKeeps == ASSUME ChannelsInv, ImportsInv, CountFeed PROVE ImportsInv' /\ ToldStep
<1> DEFINE u == chanActs[OpmlWorker].who
           urls == chanActs[OpmlWorker].urls
           act == [ChannelIdle EXCEPT !.pc = "feed", !.who = u, !.urls = urls]
           plus == IF chanActs[OpmlWorker].ch = 0 THEN 1 ELSE 0
<1>1. act.pc = "feed" /\ act.who = u /\ act.urls = urls BY DEF ChannelIdle
<1>2. /\ Does(OpmlWorker, act) /\ chanActs[OpmlWorker].pc = "count"
      /\ imports' = [imports EXCEPT ![u].done = @ + 1, ![u].failed = @ + plus]
      /\ UNCHANGED <<importing, importQueue>>
  BY DEF CountFeed, ChAt
<1>3. plus \in Nat OBVIOUS
<1>4. /\ WorksFor(chanActs, u) /\ u \in importing /\ u \in Subscribers
      /\ JobLeft(imports, u, urls, 1)
      /\ imports \in [Subscribers -> [total : Nat, done : Nat, failed : Nat]]
  BY <1>2 DEF ImportsInv, ImportsOK, WorksFor
<1> HIDE DEF act, plus
<1>5. /\ chanActs'[OpmlWorker] = act /\ \A v : WorksFor(chanActs', v) <=> v = u
      /\ \A t \in ChannelThreads : chanActs'[t] = chanActs[t]
      /\ \A t \in ChannelThreads : Submits(chanActs', t) <=> Submits(chanActs, t)
  BY <1>1, <1>2, WorkerFrame
<1> DEFINE old == imports[u]
<1>6. old \in [total : Nat, done : Nat, failed : Nat] BY <1>4
<1> DEFINE row == [old EXCEPT !.done = old.done + 1, !.failed = old.failed + plus]
<1>7. /\ row \in [total : Nat, done : Nat, failed : Nat] /\ row.done = old.done + 1
      /\ row.total = old.total
  <2>1. old.done + 1 \in Nat /\ old.failed + plus \in Nat BY <1>3, <1>6
  <2> HIDE DEF old
  <2>2. QED BY <1>6, <2>1
<1>8. imports' = [imports EXCEPT ![u] = row] BY <1>2, <1>4, <1>6
<1> HIDE DEF row
<1>9. /\ imports' \in [Subscribers -> [total : Nat, done : Nat, failed : Nat]]
      /\ imports'[u] = row /\ \A v \in Subscribers : v # u => imports'[v] = imports[v]
  BY <1>4, <1>7, <1>8
<1>10. JobLeft(imports', u, urls, 0)
  <2>1. /\ IsFiniteSet(urls) /\ imports'[u].done = old.done + 1 /\ imports'[u].total = old.total
        /\ old.done + Cardinality(urls) + 1 = old.total
    BY <1>4, <1>7, <1>9 DEF JobLeft
  <2>2. Cardinality(urls) \in Nat /\ old.done \in Nat BY <2>1, <1>6, FS_CardinalityType
  <2>3. QED BY <2>1, <2>2 DEF JobLeft
<1>11. ToldStep BY <1>7, <1>9 DEF ToldStep
<1> HIDE DEF old, u, urls
<1>12. /\ \A v \in Subscribers : v # u => (Told(imports', v) <=> Told(imports, v))
       /\ \A v \in Subscribers : \A w, n : v # u =>
             (JobLeft(imports', v, w, n) <=> JobLeft(imports, v, w, n))
  BY <1>9 DEF Told, JobLeft
<1>13. \A v \in Subscribers \ importing' : Told(imports', v)
  BY <1>2, <1>4, <1>12 DEF ImportsInv, ImportsOK
<1>14. ASSUME NEW t \in ChannelThreads, Submits(chanActs', t)
       PROVE  /\ chanActs'[t].who \in importing' /\ chanActs'[t].who \in Subscribers
              /\ Told(imports', chanActs'[t].who)
              /\ IsFiniteSet(chanActs'[t].urls) /\ ~WorksFor(chanActs', chanActs'[t].who)
              /\ \A s \in ChannelThreads : Submits(chanActs', s) /\ chanActs'[s].who = chanActs'[t].who
                    => s = t
              /\ \A job \in importQueue' : job[1] # chanActs'[t].who
  <2>1. Submits(chanActs, t) /\ chanActs'[t] = chanActs[t] BY <1>5, <1>14
  <2>2. chanActs[t].who # u BY <1>4, <2>1 DEF ImportsInv, ImportsOK
  <2>3. /\ chanActs[t].who \in Subscribers /\ Told(imports, chanActs[t].who)
    BY <2>1 DEF ImportsInv, ImportsOK
  <2>4. Told(imports', chanActs[t].who) /\ ~WorksFor(chanActs', chanActs[t].who)
    BY <1>5, <1>12, <2>2, <2>3
  <2>5. QED BY <1>2, <1>5, <2>1, <2>3, <2>4 DEF ImportsInv, ImportsOK
<1>15. ASSUME NEW job \in importQueue'
       PROVE  /\ job[1] \in importing' /\ JobLeft(imports', job[1], job[2], 0)
              /\ ~WorksFor(chanActs', job[1])
              /\ \A other \in importQueue' : other[1] = job[1] => other = job
  <2>1. job \in importQueue /\ job[1] # u /\ job[1] \in Subscribers
    BY <1>2, <1>4 DEF ImportsInv, ImportsOK
  <2>2. JobLeft(imports', job[1], job[2], 0) BY <1>12, <2>1 DEF ImportsInv, ImportsOK
  <2>3. QED BY <1>2, <1>5, <2>1, <2>2 DEF ImportsInv, ImportsOK
<1>16. ASSUME NEW v, WorksFor(chanActs', v)
       PROVE  /\ v \in importing' /\ v \in Subscribers
              /\ JobLeft(imports', v, chanActs'[OpmlWorker].urls,
                         IF chanActs'[OpmlWorker].pc = "feed" THEN 0 ELSE 1)
  BY <1>1, <1>2, <1>4, <1>5, <1>10, <1>16
<1>17. \A job \in importQueue' : job[1] \in Subscribers /\ job[2] \in SUBSET Url
  BY <1>2 DEF ImportsInv, ImportsOK
<1>18. ImportsInv' BY <1>9, <1>13, <1>14, <1>15, <1>16, <1>17 DEF ImportsInv, ImportsOK
<1>19. QED BY <1>11, <1>18

LEMMA FeedImportKeeps == ASSUME ChannelsInv, ImportsInv, ImportFeed PROVE ImportsInv' /\ ToldStep
<1> DEFINE old == chanActs[OpmlWorker]
           u == old.who
           urls == old.urls
<1>1. PICK url \in urls :
          \/ Does(OpmlWorker, [old EXCEPT !.pc = "count", !.urls = urls \ {url}, !.ch = 1])
          \/ Does(OpmlWorker, [Creating(u, url) EXCEPT !.urls = urls \ {url}])
  BY DEF ImportFeed
<1>2. old.pc = "feed" /\ UNCHANGED <<importing, imports, importQueue>>
  BY DEF ImportFeed, ChAt, RestSame, opml
<1>3. old \in ChannelAct BY DEF ChannelsInv, ChannelActors
<1>4. \E act : Does(OpmlWorker, act) /\ act.pc \in {"count", "look"} /\ act.who = u
               /\ act.urls = urls \ {url}
  <2>1. LET act == [old EXCEPT !.pc = "count", !.urls = urls \ {url}, !.ch = 1]
        IN act.pc \in {"count", "look"} /\ act.who = u /\ act.urls = urls \ {url}
    BY <1>3 DEF ChannelAct
  <2>2. LET act == [Creating(u, url) EXCEPT !.urls = urls \ {url}]
        IN act.pc \in {"count", "look"} /\ act.who = u /\ act.urls = urls \ {url}
    BY DEF Creating, ChannelIdle
  <2>3. QED BY <1>1, <2>1, <2>2
<1>5. PICK act : Does(OpmlWorker, act) /\ act.pc \in {"count", "look"} /\ act.who = u
                 /\ act.urls = urls \ {url}
  BY <1>4
<1>6. /\ chanActs'[OpmlWorker] = act /\ \A v : WorksFor(chanActs', v) <=> v = u
      /\ \A t \in ChannelThreads : chanActs'[t] = chanActs[t]
      /\ \A t \in ChannelThreads : Submits(chanActs', t) <=> Submits(chanActs, t)
  BY <1>5, WorkerFrame
<1>7. \A v : WorksFor(chanActs, v) <=> v = u BY <1>2 DEF WorksFor
<1>8. u \in importing /\ u \in Subscribers /\ JobLeft(imports, u, urls, 0)
      /\ imports \in [Subscribers -> [total : Nat, done : Nat, failed : Nat]]
  BY <1>2, <1>7 DEF ImportsInv, ImportsOK
<1>9. JobLeft(imports, u, urls \ {url}, 1)
  <2>1. IsFiniteSet(urls) /\ imports[u].done + Cardinality(urls) + 0 = imports[u].total
        /\ imports[u].done \in Nat
    BY <1>8 DEF JobLeft
  <2>2. IsFiniteSet(urls \ {url}) /\ Cardinality(urls \ {url}) = Cardinality(urls) - 1
    BY <1>1, <2>1, FS_RemoveElement
  <2>3. Cardinality(urls) \in Nat BY <2>1, FS_CardinalityType
  <2>4. imports[u].done + Cardinality(urls \ {url}) + 1 = imports[u].total BY <2>1, <2>2, <2>3
  <2>5. QED BY <2>2, <2>4 DEF JobLeft
<1> HIDE DEF u, urls, old
<1>10. ASSUME NEW v, WorksFor(chanActs', v)
       PROVE  /\ v \in importing' /\ v \in Subscribers
              /\ JobLeft(imports', v, chanActs'[OpmlWorker].urls,
                         IF chanActs'[OpmlWorker].pc = "feed" THEN 0 ELSE 1)
  BY <1>2, <1>5, <1>6, <1>8, <1>9, <1>10
<1>11. \A v : WorksFor(chanActs', v) <=> WorksFor(chanActs, v) BY <1>6, <1>7
<1>12. ImportsInv' BY <1>2, <1>6, <1>10, <1>11 DEF ImportsInv, ImportsOK
<1>13. QED BY <1>2, <1>12 DEF ToldStep

LEMMA EndImportKeeps == ASSUME ChannelsInv, ImportsInv, EndImport PROVE ImportsInv' /\ ToldStep
<1> DEFINE u == chanActs[OpmlWorker].who
<1>1. /\ chanActs[OpmlWorker].pc = "feed" /\ chanActs[OpmlWorker].urls = {}
      /\ importing' = importing \ {u} /\ Does(OpmlWorker, ChannelIdle)
      /\ UNCHANGED <<imports, importQueue>>
  BY DEF EndImport, ChAt
<1>2. /\ \A v : ~WorksFor(chanActs', v)
      /\ \A t \in ChannelThreads : chanActs'[t] = chanActs[t]
      /\ \A t \in ChannelThreads : Submits(chanActs', t) <=> Submits(chanActs, t)
  BY <1>1, WorkerFrame, IdleAct
<1>3. WorksFor(chanActs, u) BY <1>1 DEF WorksFor
<1>4. u \in Subscribers /\ JobLeft(imports, u, {}, 0)
      /\ imports \in [Subscribers -> [total : Nat, done : Nat, failed : Nat]]
  BY <1>1, <1>3 DEF ImportsInv, ImportsOK
<1>5. Told(imports, u)
  <2>1. imports[u].done \in Nat /\ imports[u].done + 0 + 0 = imports[u].total
    BY <1>4, FS_EmptySet DEF JobLeft
  <2>2. QED BY <2>1 DEF Told
<1>6. /\ \A t \in ChannelThreads : Submits(chanActs, t) => chanActs[t].who # u
      /\ \A job \in importQueue : job[1] # u
  BY <1>3 DEF ImportsInv, ImportsOK
<1> HIDE DEF u
<1>7. ImportsInv' BY <1>1, <1>2, <1>5, <1>6 DEF ImportsInv, ImportsOK
<1>8. QED BY <1>1, <1>7 DEF ToldStep

LEMMA TellKeeps ==
    ASSUME ImportsInv, NEW u \in Subscribers, TellImport(u) PROVE ImportsInv' /\ ToldStep
<1>1. /\ u \notin importing /\ imports' = [imports EXCEPT ![u] = NoImport]
      /\ UNCHANGED <<chanActs, importing, importQueue>>
  BY DEF TellImport
<1>2. NoImport \in [total : Nat, done : Nat, failed : Nat] /\ NoImport.done = NoImport.total
  BY DEF NoImport
<1>3. /\ imports' \in [Subscribers -> [total : Nat, done : Nat, failed : Nat]]
      /\ Told(imports, u) /\ Told(imports', u)
      /\ \A v \in Subscribers : v # u => imports'[v] = imports[v]
  BY <1>1, <1>2 DEF ImportsInv, ImportsOK, Told
<1>4. /\ \A v \in Subscribers : Told(imports, v) => Told(imports', v)
      /\ \A v \in Subscribers : \A w, n : v # u =>
            (JobLeft(imports', v, w, n) <=> JobLeft(imports, v, w, n))
  BY <1>3 DEF Told, JobLeft
<1>5. \A v \in importing : v # u BY <1>1
<1>6. /\ \A job \in importQueue : JobLeft(imports', job[1], job[2], 0)
      /\ \A v : WorksFor(chanActs, v) =>
            JobLeft(imports', v, chanActs[OpmlWorker].urls,
                    IF chanActs[OpmlWorker].pc = "feed" THEN 0 ELSE 1)
  BY <1>4, <1>5 DEF ImportsInv, ImportsOK
<1>7. ImportsInv' BY <1>1, <1>3, <1>4, <1>6 DEF ImportsInv, ImportsOK
<1>8. ToldStep BY <1>3 DEF ToldStep, Told
<1>9. QED BY <1>7, <1>8

LEMMA RestartImports ==
    ASSUME chanStops \in Nat, RestartChannels PROVE ImportsInv' /\ ToldStep
<1>1. /\ chanActs' = [a \in ChannelActors |-> ChannelIdle] /\ importing' = {} /\ importQueue' = {}
      /\ imports' = [u \in Subscribers |-> NoImport] /\ chanStops' # chanStops
  BY DEF RestartChannels
<1>2. NoImport \in [total : Nat, done : Nat, failed : Nat] BY DEF NoImport
<1>3. \A v \in Subscribers : Told(imports', v) BY <1>1 DEF Told, NoImport
<1>4. \A a \in ChannelActors : chanActs'[a].pc = "idle" BY <1>1, IdleAct
<1>5. (\A t \in ChannelThreads : ~Submits(chanActs', t)) /\ \A v : ~WorksFor(chanActs', v)
  BY <1>4 DEF Submits, WorksFor, ChannelActors
<1>6. imports' \in [Subscribers -> [total : Nat, done : Nat, failed : Nat]] BY <1>1, <1>2
<1>7. ImportsInv' BY <1>1, <1>3, <1>5, <1>6 DEF ImportsInv, ImportsOK
<1>8. ToldStep BY <1>1 DEF ToldStep
<1>9. QED BY <1>7, <1>8

LEMMA RequestKeeps ==
    ASSUME ChannelsInv, ImportsInv, NEW t \in ChannelThreads, ChannelRequest(t) \/ NextChannel(t)
    PROVE  ImportsInv' /\ ToldStep
<1>0. t \in ChannelActors /\ t # OpmlWorker BY ChannelsAssumption DEF ChannelActors
<1>1. CASE \E u \in Subscribers : \E urls \in OpmlFiles : AskImport(t, u, urls)
  BY <1>1, AskImportKeeps
<1>2. CASE ~\E u \in Subscribers : \E urls \in OpmlFiles : AskImport(t, u, urls)
  <2>1. \E act : Does(t, act) /\ act.pc # "submit" /\ chanActs[t].pc # "submit" /\ UNCHANGED opml
    <3>1. CASE \E u \in Subscribers : \E url \in Url : AskCreate(t, u, url)
      <4>1. PICK u \in Subscribers, url \in Url : AskCreate(t, u, url) BY <3>1
      <4>2. Creating(u, url).pc = "look" BY DEF Creating, ChannelIdle
      <4>3. Does(t, Creating(u, url)) /\ chanActs[t].pc = "idle" /\ UNCHANGED opml
        BY <4>1 DEF AskCreate, Asks, ChAt, RestSame
      <4>4. QED BY <4>2, <4>3
    <3>2. CASE \E todo : AskRefresh(t, todo)
      <4>1. PICK todo : AskRefresh(t, todo) BY <3>2
      <4>2. [ChannelIdle EXCEPT !.pc = "next", !.todo = todo].pc = "next" BY DEF ChannelIdle
      <4>3. Does(t, [ChannelIdle EXCEPT !.pc = "next", !.todo = todo]) /\ chanActs[t].pc = "idle"
            /\ UNCHANGED opml
        BY <4>1 DEF AskRefresh, Asks, ChAt, RestSame
      <4>4. QED BY <4>2, <4>3
    <3>3. CASE \E c : AskDelete(t, c)
      <4>1. PICK c : AskDelete(t, c) BY <3>3
      <4>2. [ChannelIdle EXCEPT !.pc = "purgeAll", !.ch = c].pc = "purgeAll" BY DEF ChannelIdle
      <4>3. Does(t, [ChannelIdle EXCEPT !.pc = "purgeAll", !.ch = c]) /\ chanActs[t].pc = "idle"
            /\ UNCHANGED opml
        BY <4>1 DEF AskDelete, Asks, ChAt, RestSame
      <4>4. QED BY <4>2, <4>3
    <3>4. CASE \E c : \E u : Unsubscribe(t, u, c)
      <4>1. PICK c : \E u : Unsubscribe(t, u, c) BY <3>4
      <4>2. PICK u : Unsubscribe(t, u, c) BY <4>1
      <4>3. [ChannelIdle EXCEPT !.pc = "purge", !.ch = c].pc = "purge" BY DEF ChannelIdle
      <4>4. /\ \/ Does(t, [ChannelIdle EXCEPT !.pc = "purge", !.ch = c]) \/ Does(t, ChannelIdle)
            /\ chanActs[t].pc = "idle" /\ UNCHANGED opml
        BY <4>2 DEF Unsubscribe, Asks, ChAt, RestSame
      <4>5. QED BY <4>3, <4>4, IdleAct
    <3>5. CASE NextChannel(t)
      <4>0. chanActs[t].pc = "next" /\ UNCHANGED opml BY <3>5 DEF NextChannel, ChAt, RestSame
      <4>1. CASE Does(t, ChannelIdle) BY <4>0, <4>1, IdleAct
      <4>2. ASSUME NEW c, Does(t, [chanActs[t] EXCEPT !.pc = "claim", !.ch = c, !.todo = @ \ {c}])
            PROVE  \E act : Does(t, act) /\ act.pc # "submit" /\ chanActs[t].pc # "submit"
                            /\ UNCHANGED opml
        <5>1. chanActs[t] \in ChannelAct BY <1>0 DEF ChannelsInv
        <5>2. [chanActs[t] EXCEPT !.pc = "claim", !.ch = c, !.todo = @ \ {c}].pc = "claim"
          BY <5>1 DEF ChannelAct
        <5>3. QED BY <4>0, <4>2, <5>2
      <4>3. QED BY <3>5, <4>1, <4>2 DEF NextChannel
    <3>6. QED BY <1>2, <3>1, <3>2, <3>3, <3>4, <3>5 DEF ChannelRequest
  <2>2. PICK act : Does(t, act) /\ act.pc # "submit" /\ chanActs[t].pc # "submit" /\ UNCHANGED opml
    BY <2>1
  <2>3. Unseen(t, act) BY <1>0, <2>2 DEF Unseen
  <2>4. QED BY <1>0, <2>2, <2>3, UnseenKeeps
<1>3. QED BY <1>1, <1>2

LEMMA StepImports ==
    ASSUME ChannelsInv, ImportsInv, NEW a \in ChannelActors, ChannelStep(a)
    PROVE  ImportsInv' /\ ToldStep
<1>1. PICK act : Moves(a, act) /\ GoesOver(a, act) BY StepMoves
<1>2. UNCHANGED opml
  BY DEF ChannelStep, LookForChannel, Join, FetchChannel, Match, Insert, ClaimRefresh, ReadChannel,
         MarkRefresh, GetFeed, Upgrade, StoreFeed, RefreshFails, EndRefresh, CheckCreated,
         PurgeChannel, RestSame
<1>3. Does(a, act) /\ Unseen(a, act) BY <1>1 DEF Moves, GoesOver, Unseen
<1>4. QED BY <1>2, <1>3, UnseenKeeps

-----------------------------------------------------------------------------
ChannelsAllInv == ChannelsInv /\ ImportsInv /\ chanStops \in Nat

LEMMA ChannelsStart == ChannelsInit => ChannelsAllInv
<1> SUFFICES ASSUME ChannelsInit PROVE ChannelsAllInv OBVIOUS
<1>1. /\ channels = << >> /\ lastChannel = 0 /\ chanStops = 0 /\ importing = {} /\ importQueue = {}
      /\ chanActs = [a \in ChannelActors |-> ChannelIdle]
      /\ imports = [u \in Subscribers |-> NoImport]
  BY DEF ChannelsInit
<1>2. DOMAIN channels = {} /\ ChannelRows(channels, lastChannel) BY <1>1 DEF ChannelRows
<1>3. /\ chanActs \in [ChannelActors -> ChannelAct]
      /\ \A b \in ChannelActors : ActFeed(chanActs[b], channels, lastChannel)
      /\ \A b \in ChannelActors : chanActs[b].pc = "idle"
  BY <1>1, IdleAct
<1>4. ChannelsInv BY <1>1, <1>2, <1>3 DEF ChannelsInv, RefreshTrue
<1>5. NoImport \in [total : Nat, done : Nat, failed : Nat] BY DEF NoImport
<1>6. \A v \in Subscribers : Told(imports, v) BY <1>1 DEF Told, NoImport
<1>7. (\A t \in ChannelThreads : ~Submits(chanActs, t)) /\ \A v : ~WorksFor(chanActs, v)
  BY <1>3 DEF Submits, WorksFor, ChannelActors
<1>8. imports \in [Subscribers -> [total : Nat, done : Nat, failed : Nat]] BY <1>1, <1>5
<1>9. ImportsInv BY <1>1, <1>6, <1>7, <1>8 DEF ImportsInv, ImportsOK
<1>10. QED BY <1>1, <1>4, <1>9 DEF ChannelsAllInv

LEMMA ChannelsNextKeeps ==
    ChannelsAllInv /\ [ChannelsNext]_chanVars => ChannelsAllInv' /\ NoTwinStep /\ ToldStep
<1> SUFFICES ASSUME ChannelsAllInv, [ChannelsNext]_chanVars
             PROVE  ChannelsAllInv' /\ NoTwinStep /\ ToldStep
  OBVIOUS
<1>1. ChannelsInv /\ ImportsInv /\ chanStops \in Nat BY DEF ChannelsAllInv
<1>2. chanStops' \in Nat
  <2>1. chanStops' = chanStops \/ chanStops' = chanStops + 1
    BY DEF ChannelsNext, ChannelRequest, NextChannel, SubmitImport, ChannelStep, AskCreate, AskRefresh,
           AskDelete, Unsubscribe, AskImport, LookForChannel, Join, FetchChannel, Match, Insert,
           ClaimRefresh, ReadChannel, MarkRefresh, GetFeed, Upgrade, StoreFeed, RefreshFails,
           EndRefresh, CheckCreated, PurgeChannel, StartImport, ImportFeed, CountFeed, EndImport,
           TellImport, RestartChannels, ResumeChannels, RestSame, chanVars
  <2>2. QED BY <1>1, <2>1
<1>3. CASE \E a \in ChannelActors : ChannelStep(a)
  <2>1. PICK a \in ChannelActors : ChannelStep(a) BY <1>3
  <2>2. PICK act : Moves(a, act) BY <1>1, <2>1, StepMoves
  <2>3. ChannelsInv' BY <1>1, <2>2, MovesKeep
  <2>4. ImportsInv' /\ ToldStep BY <1>1, <2>1, StepImports
  <2>5. NoTwinStep BY <1>1, <2>1, StepNoTwin
  <2>6. QED BY <1>2, <2>3, <2>4, <2>5 DEF ChannelsAllInv
<1>4. CASE \/ \E t \in ChannelThreads : ChannelRequest(t) \/ NextChannel(t) \/ SubmitImport(t)
           \/ StartImport \/ ImportFeed \/ CountFeed \/ EndImport
  <2>1. \A job \in importQueue : job[1] \in Subscribers \cup {NoSubscriber} /\ job[2] \in SUBSET Url
    BY <1>1 DEF ImportsInv, ImportsOK
  <2>2. PICK a \in ChannelActors : \E act : Moves(a, act) /\ channels' = channels
    BY <1>1, <1>4, <2>1, OtherMoves DEF OneMoves
  <2>3. PICK act : Moves(a, act) /\ channels' = channels BY <2>2
  <2>4. ChannelsInv' BY <1>1, <2>3, MovesKeep
  <2>5. NoTwinStep BY <2>3 DEF NoTwinStep
  <2>6. ImportsInv' /\ ToldStep
    BY <1>1, <1>4, RequestKeeps, SubmitKeeps, StartKeeps, FeedImportKeeps, CountKeeps, EndImportKeeps
  <2>7. QED BY <1>2, <2>4, <2>5, <2>6 DEF ChannelsAllInv
<1>5. CASE RestartChannels \/ ResumeChannels \/ (\E u \in Subscribers : TellImport(u))
           \/ UNCHANGED chanVars
  <2>1. ChannelsInv' /\ DOMAIN channels' = DOMAIN channels BY <1>1, <1>5, RecoveryKeeps
  <2>2. NoTwinStep BY <2>1 DEF NoTwinStep
  <2>3. CASE RestartChannels BY <1>1, <1>2, <2>1, <2>2, <2>3, RestartImports DEF ChannelsAllInv
  <2>4. CASE \E u \in Subscribers : TellImport(u)
    BY <1>1, <1>2, <2>1, <2>2, <2>4, TellKeeps DEF ChannelsAllInv
  <2>5. CASE ResumeChannels \/ UNCHANGED chanVars
    <3>1. UNCHANGED <<chanActs, importing, imports, importQueue>>
      BY <2>5 DEF ResumeChannels, chanVars, opml
    <3>2. ImportsInv' BY <1>1, <3>1 DEF ImportsInv
    <3>3. ToldStep BY <3>1 DEF ToldStep
    <3>4. QED BY <1>2, <2>1, <2>2, <3>2, <3>3 DEF ChannelsAllInv
  <2>6. QED BY <1>5, <2>3, <2>4, <2>5
<1>6. QED BY <1>3, <1>4, <1>5 DEF ChannelsNext

(* Once the recovery after a restart has run, a channel that says it is     *)
(* being refreshed is being refreshed; a subscription never makes a second  *)
(* channel of a feed that was known when it was asked for; and a user is    *)
(* told of an OPML import when every feed of it is counted, not before: for *)
(* any number of threads, users, feeds, hosts and imports.                  *)
THEOREM ChannelsAreSound == ChannelsSpec => ChannelsHold
<1>1. ChannelsInit => ChannelsAllInv BY ChannelsStart
<1>2. ChannelsAllInv /\ [ChannelsNext]_chanVars => ChannelsAllInv' /\ NoTwinStep /\ ToldStep
  BY ChannelsNextKeeps
<1>3. ChannelsAllInv => RefreshTrue BY DEF ChannelsAllInv, ChannelsInv
<1>4. ChannelsSpec => []RefreshTrue /\ [][NoTwinStep]_chanVars /\ [][ToldStep]_chanVars
  BY <1>1, <1>2, <1>3, PTL DEF ChannelsSpec
<1>5. QED BY <1>4 DEF ChannelsHold, NoTwin, ImportTold, NoTwinStep, ToldStep

-----------------------------------------------------------------------------
(***************************************************************************)
(* The jukebox. Queue and playlist differ while an operation runs. What is *)
(* inductive is what the commands it has left will come to (Going): that   *)
(* queue and playlist will be the same once they are done, from where they *)
(* are and, before the operation's first command, from an mpv that has     *)
(* just been started, unless the operation was cut in two.                 *)
(***************************************************************************)

Neutral  == [do : {"unpause", "pause", "volume", "get"}] \cup [do : {"position"}, index : Nat]
Calm     == Neutral \cup [do : {"mpvStop", "mpvClear", "isPlaying", "shuffle", "appendAll"}]
                \cup [do : {"append", "assign", "extend"}, entries : Seq(Tracks)]
Commands == Calm \cup [do : {"ready"}] \cup [do : {"mpvRemove", "delete"}, index : Nat]

Loads(ts, rest) == Appends(ts) \o rest

-----------------------------------------------------------------------------
(* What is left once `ready` is done, by what it will do.  It loads `ts`    *)
(* and ends with the change of the queue that goes with that, or with none. *)
EndsAlike(rest, Q, M) ==
    \/ rest \in Seq(Neutral) /\ M = Q
    \/ \E es \in Seq(Tracks) : rest = Cons(Load("extend", es), << >>) /\ M = Q \o es
    \/ \E es \in Seq(Tracks), n \in Seq(Neutral) : rest = Cons(Load("assign", es), n) /\ M = es

Loading(t, Q, L) ==
    \E ts \in Seq(Tracks), rest \in Seq(Calm) : t = Loads(ts, rest) /\ EndsAlike(rest, Q, L \o ts)

AppendsAll(t) == \E n \in Seq(Neutral) : t = Cons(Do("appendAll"), n)

Refills(t) ==
    \/ AppendsAll(t)
    \/ \E ts \in Seq(Tracks), n \in Seq(Neutral) : t = Loads(ts, Cons(Load("assign", ts), n))

Clears(t)   == \E s \in Seq(Calm) : Refills(s) /\ t = Cons(Do("mpvClear"), s)
Stops(t)    == \E s \in Seq(Calm) : Clears(s) /\ t = Cons(Do("mpvStop"), s)
Shuffles(t) == \E s \in Seq(Calm) : Stops(s) /\ t = Cons(Do("shuffle"), s)

Shuffling(n) == Cons(Do("shuffle"), Cons(Do("mpvStop"), Cons(Do("mpvClear"), Cons(Do("appendAll"), n))))

(* The queue Q and the playlist L will be the same after t.                 *)
Settles(t, Q, L) ==
    \/ Loading(t, Q, L)
    \/ AppendsAll(t) /\ L = << >>
    \/ Clears(t) \/ Stops(t) \/ Shuffles(t)
    \/ t = Cons(Do("isPlaying"), Shuffling(<< >>))

Deletion(i) == Cons(At("delete", i), << >>)
Removal(i)  == Cons(At("mpvRemove", i), Deletion(i))

SettlesFor(op, t, Q, L) ==
    IF op.name = "remove"
    THEN /\ t \in {<< >>, Removal(op.index)} => Q = L
         /\ t = Deletion(op.index) => L = RemoveAt(Q, op.index + 1)
    ELSE IF op.name \in Edits THEN Settles(t, Q, L)
    ELSE Q = L

Bodies(op) ==
    IF op.name = "remove" THEN {<< >>, Deletion(op.index), Removal(op.index)}
    ELSE IF op.name \in Edits THEN Seq(Calm)
    ELSE Seq(Neutral)

(* The entry to delete is there, or mpv will refuse to remove it.           *)
EntryThere(op, s, Q, L) ==
    op.name = "remove" =>
        /\ s = Deletion(op.index) => op.index < Len(Q)
        /\ s = Removal(op.index) => op.index < Len(Q) \/ (Q = << >> /\ L = << >>)

(* An operation that is still whole: what is left of it settles after a     *)
(* start, and from where it is if nothing but itself has to be put right.   *)
Whole(op, cut) == op.name \in Edits => ~cut
InStep(op, m, lost) == m.up /\ (~lost \/ op.name \in {"set", "clear"})

Going(op, cut, t, Q, m, lost) ==
    \E s \in Bodies(op) :
        /\ \/ t = s
           \/ t = Cons(Do("ready"), s) /\ (op.name = "remove" => s = Removal(op.index))
        /\ EntryThere(op, s, Q, m.list)
        /\ Whole(op, cut) =>
              /\ t = Cons(Do("ready"), s) => SettlesFor(op, s, << >>, << >>)
              /\ InStep(op, m, lost) => SettlesFor(op, s, Q, m.list)

-----------------------------------------------------------------------------
OpTypes == Ops \cup {Status}
RequestStates ==
    {AtRest} \cup [pc : {"asked"}, op : OpTypes, backend : Backends]
        \cup [pc : {"return"}, op : OpTypes]
        \cup [pc : {"has"}, op : OpTypes, player : Players]
        \cup [pc : {"runs"}, op : OpTypes, player : Players, todo : Seq(Commands), cut : BOOLEAN]
Processes == [up : {TRUE}, list : Seq(Tracks)] \cup {Down}

JukeboxTypes ==
    /\ setting \in Backends /\ current \in {0} \cup Players
    /\ kind \in [Players -> Backends]
    /\ songs \in [Players -> Seq(Tracks)] /\ mpv \in [Players -> Processes]
    /\ thread \in [Clients -> RequestStates]
    /\ torn \subseteq Players /\ late \subseteq Players

(* A player has one operation at a time.                                    *)
OneAtATime ==
    \A r, s \in Clients :
        thread[r].pc = "runs" /\ thread[s].pc = "runs" /\ thread[r].player = thread[s].player => r = s

(* A request has the player in use, or one that was replaced meanwhile.     *)
Held ==
    \A r \in Clients :
        /\ thread[r].pc \in {"has", "runs"} => thread[r].player \in late \cup {current}
        /\ thread[r].pc = "return" => current # 0

RunsWell(r) ==
    LET p == thread[r].player IN
    IF kind[p] = "server_hardware"
    THEN Going(thread[r].op, thread[r].cut, thread[r].todo, songs[p], mpv[p], p \in torn)
    ELSE thread[r].todo = << >>

Operations == \A r \in Clients : thread[r].pc = "runs" => RunsWell(r)

JukeboxIInv == JukeboxTypes /\ OneAtATime /\ Held /\ Operations /\ QueueInStep /\ ReplacedAreSilent

-----------------------------------------------------------------------------
(* Lists of commands, taken apart from their heads.                         *)
LEMMA ConsIs ==
    ASSUME NEW S, NEW x \in S, NEW s \in Seq(S)
    PROVE  /\ Cons(x, s) \in Seq(S) /\ Cons(x, s) # << >>
           /\ Head(Cons(x, s)) = x /\ Tail(Cons(x, s)) = s
<1> DEFINE t == Cons(x, s)
<1>1. <<x>> \in Seq(S) /\ Len(<<x>>) = 1 /\ <<x>>[1] = x OBVIOUS
<1>2. /\ t \in Seq(S) /\ Len(t) = Len(<<x>>) + Len(s)
      /\ \A i \in 1..(Len(<<x>>) + Len(s)) : t[i] = (IF i <= Len(<<x>>) THEN <<x>>[i] ELSE s[i - Len(<<x>>)])
  BY <1>1, ConcatProperties DEF Cons
<1> HIDE DEF t
<1>3. Len(s) \in Nat /\ Len(t) = Len(s) + 1 /\ DOMAIN s = 1..Len(s) BY <1>1, <1>2, LenProperties
<1>4. t # << >>
  <2>1. Len(t) # 0 BY <1>3
  <2>2. QED BY <2>1
<1>5. Head(t) = t[1] BY <1>2, <1>4, HeadTailProperties
<1>6. t[1] = x BY <1>1, <1>2, <1>3
<1>7. /\ Tail(t) \in Seq(S) /\ Len(Tail(t)) = Len(t) - 1
      /\ \A i \in 1..Len(Tail(t)) : Tail(t)[i] = t[i + 1]
  BY <1>2, <1>4, HeadTailProperties
<1>8. \A i \in 1..Len(s) : t[i + 1] = s[i]
  <2>1. ASSUME NEW i \in 1..Len(s) PROVE t[i + 1] = s[i]
    <3>1. i + 1 \in 1..(1 + Len(s)) /\ ~(i + 1 <= 1) /\ (i + 1) - 1 = i BY <1>3
    <3>2. QED BY <1>1, <1>2, <3>1
  <2>2. QED BY <2>1
<1>9. Tail(t) = s
  <2>1. Len(Tail(t)) = Len(s) BY <1>3, <1>7
  <2>2. \A i \in 1..Len(s) : Tail(t)[i] = s[i] BY <1>7, <1>8, <2>1
  <2>3. QED BY <1>7, <2>1, <2>2, SeqEqual
<1>10. QED BY <1>2, <1>4, <1>5, <1>6, <1>9 DEF t

LEMMA HeadTail ==
    ASSUME NEW S, NEW s \in Seq(S), s # << >>
    PROVE  Head(s) \in S /\ Tail(s) \in Seq(S) /\ s = Cons(Head(s), Tail(s))
<1> DEFINE a == Head(s)
           b == Tail(s)
           t == Cons(a, b)
<1>1. /\ a \in S /\ b \in Seq(S) /\ Len(b) = Len(s) - 1
      /\ a = s[1] /\ \A i \in 1..Len(b) : b[i] = s[i + 1]
  <2>1. Len(s) \in Nat /\ Len(s) # 0 /\ DOMAIN s = 1..Len(s) BY LenProperties, EmptySeq
  <2>2. QED BY <2>1, HeadTailProperties, ElementOfSeq
<1> HIDE DEF a, b
<1>2. <<a>> \in Seq(S) /\ Len(<<a>>) = 1 /\ <<a>>[1] = a BY <1>1
<1>3. /\ t \in Seq(S) /\ Len(t) = Len(<<a>>) + Len(b)
      /\ \A i \in 1..(Len(<<a>>) + Len(b)) : t[i] = (IF i <= Len(<<a>>) THEN <<a>>[i] ELSE b[i - Len(<<a>>)])
  BY <1>1, <1>2, ConcatProperties DEF Cons
<1> HIDE DEF t
<1>4. Len(s) \in Nat /\ Len(t) = Len(s) BY <1>1, <1>2, <1>3, LenProperties
<1>5. ASSUME NEW i \in 1..Len(s) PROVE t[i] = s[i]
  <2>1. CASE i = 1 BY <1>1, <1>2, <1>3, <1>4, <2>1
  <2>2. CASE i # 1
    <3>1. ~(i <= 1) /\ i - 1 \in 1..Len(b) /\ (i - 1) + 1 = i BY <1>1, <1>4, <2>2
    <3>2. t[i] = b[i - 1] BY <1>2, <1>3, <1>4, <3>1
    <3>3. QED BY <1>1, <3>1, <3>2
  <2>3. QED BY <2>1, <2>2
<1>6. s = t BY <1>3, <1>4, <1>5, SeqEqual
<1>7. QED BY <1>1, <1>6 DEF a, b, t

LEMMA ConsInjective ==
    ASSUME NEW S, NEW x \in S, NEW s \in Seq(S), NEW y \in S, NEW t \in Seq(S),
           Cons(x, s) = Cons(y, t)
    PROVE  x = y /\ s = t
<1>1. Head(Cons(x, s)) = x /\ Tail(Cons(x, s)) = s BY ConsIs
<1>2. Head(Cons(y, t)) = y /\ Tail(Cons(y, t)) = t BY ConsIs
<1>3. QED BY <1>1, <1>2

LEMMA AppendsType ==
    ASSUME NEW ts \in Seq(Tracks)
    PROVE  /\ Appends(ts) \in Seq(Calm) /\ Len(Appends(ts)) = Len(ts)
           /\ \A i \in 1..Len(ts) : Appends(ts)[i] = Load("append", <<ts[i]>>)
<1>1. DOMAIN ts = 1..Len(ts) /\ Len(ts) \in Nat BY LenProperties
<1>2. ASSUME NEW i \in 1..Len(ts) PROVE Load("append", <<ts[i]>>) \in Calm
  <2>1. ts[i] \in Tracks BY <1>1, ElementOfSeq
  <2>2. <<ts[i]>> \in Seq(Tracks) BY <2>1
  <2>3. QED BY <2>2 DEF Load, Calm
<1>3. Appends(ts) = [i \in 1..Len(ts) |-> Load("append", <<ts[i]>>)] BY <1>1 DEF Appends
<1>4. QED BY <1>1, <1>2, <1>3

LEMMA LoadsType ==
    ASSUME NEW ts \in Seq(Tracks), NEW rest \in Seq(Calm)
    PROVE  Loads(ts, rest) \in Seq(Calm)
BY AppendsType, ConcatProperties DEF Loads

LEMMA LoadsNone ==
    ASSUME NEW rest \in Seq(Calm)
    PROVE  Loads(<< >>, rest) = rest
<1>1. Appends(<< >>) = << >>
  <2>1. << >> \in Seq(Tracks) /\ Len(<< >>) = 0 OBVIOUS
  <2>2. Appends(<< >>) \in Seq(Calm) /\ Len(Appends(<< >>)) = 0 BY <2>1, AppendsType
  <2>3. QED BY <2>2, EmptySeq
<1>2. QED BY <1>1, ConcatEmptySeq DEF Loads

(* The first of the tracks to load.                                         *)
LEMMA LoadsFirst ==
    ASSUME NEW ts \in Seq(Tracks), ts # << >>, NEW rest \in Seq(Calm)
    PROVE  /\ Head(ts) \in Tracks /\ Tail(ts) \in Seq(Tracks)
           /\ Load("append", <<Head(ts)>>) \in Calm
           /\ Loads(ts, rest) = Cons(Load("append", <<Head(ts)>>), Loads(Tail(ts), rest))
<1> DEFINE c == Load("append", <<Head(ts)>>)
           A == Appends(ts)
           B == Appends(Tail(ts))
<1>1. /\ Head(ts) \in Tracks /\ Tail(ts) \in Seq(Tracks) /\ Len(Tail(ts)) = Len(ts) - 1
      /\ \A i \in 1..Len(Tail(ts)) : Tail(ts)[i] = ts[i + 1]
  BY HeadTailProperties
<1>2. Len(ts) \in Nat /\ Len(ts) # 0 /\ Head(ts) = ts[1] BY LenProperties, EmptySeq, HeadTailProperties
<1>3. /\ A \in Seq(Calm) /\ Len(A) = Len(ts) /\ \A i \in 1..Len(ts) : A[i] = Load("append", <<ts[i]>>)
  BY AppendsType
<1>4. /\ B \in Seq(Calm) /\ Len(B) = Len(ts) - 1
      /\ \A i \in 1..(Len(ts) - 1) : B[i] = Load("append", <<ts[i + 1]>>)
  BY <1>1, AppendsType
<1> HIDE DEF A, B
<1>5. A # << >> BY <1>2, <1>3
<1>6. A[1] = c /\ c \in Calm
  <2>1. 1 \in 1..Len(ts) BY <1>2
  <2>2. A[1] = c BY <1>2, <1>3, <2>1
  <2>3. QED BY <2>1, <2>2, <1>3, ElementOfSeq
<1>7. A = Cons(Head(A), Tail(A)) /\ Tail(A) \in Seq(Calm) BY <1>3, <1>5, HeadTail
<1>8. Head(A) = c BY <1>3, <1>5, <1>6, HeadTailProperties
<1>9. Tail(A) = B
  <2>1. Len(Tail(A)) = Len(ts) - 1 /\ \A i \in 1..Len(Tail(A)) : Tail(A)[i] = A[i + 1]
    BY <1>3, <1>5, HeadTailProperties
  <2>2. ASSUME NEW i \in 1..(Len(ts) - 1) PROVE Tail(A)[i] = B[i]
    <3>1. i + 1 \in 1..Len(ts) BY <1>2
    <3>2. QED BY <2>1, <1>3, <1>4, <3>1
  <2>3. QED BY <1>4, <1>7, <2>1, <2>2, SeqEqual
<1> HIDE DEF c
<1>10. <<c>> \in Seq(Calm) BY <1>6
<1>11. A \o rest = <<c>> \o (B \o rest)
  <2>1. A = <<c>> \o B BY <1>7, <1>8, <1>9 DEF Cons
  <2>2. QED BY <2>1, <1>4, <1>10, ConcatAssociative
<1>12. QED BY <1>1, <1>6, <1>11 DEF A, B, c, Loads, Cons

LEMMA ConsConcat ==
    ASSUME NEW c \in Calm, NEW s \in Seq(Calm), NEW t \in Seq(Calm)
    PROVE  Cons(c, s) \o t = Cons(c, s \o t)
<1>1. <<c>> \in Seq(Calm) OBVIOUS
<1>2. QED BY <1>1, ConcatAssociative DEF Cons

-----------------------------------------------------------------------------
(* Commands and changes of the queue keep what is left settling.            *)
LEMMA CalmKinds ==
    ASSUME NEW c \in Calm
    PROVE  /\ c.do # "ready" /\ c.do \notin {"mpvRemove", "delete"}
           /\ c \in Neutral => c.do \notin Local /\ c.do # "isPlaying"
           /\ c \in Neutral => c.do \in {"unpause", "pause", "volume", "get", "position"}
           /\ c.do = "position" => c.index \in Nat
           /\ c.do \in {"append", "assign", "extend"} => c.entries \in Seq(Tracks)
BY DEF Calm, Neutral, Local

LEMMA NeutralCalm == Neutral \subseteq Calm /\ Seq(Neutral) \subseteq Seq(Calm)
<1>1. Neutral \subseteq Calm BY DEF Calm
<1>2. QED BY <1>1

LEMMA EndsHeads ==
    ASSUME NEW rest \in Seq(Calm), rest # << >>, NEW Q, NEW M, EndsAlike(rest, Q, M)
    PROVE  \/ Head(rest) \in Neutral /\ Tail(rest) \in Seq(Neutral) /\ M = Q
           \/ \E es \in Seq(Tracks) : Head(rest) = Load("extend", es) /\ Tail(rest) = << >> /\ M = Q \o es
           \/ \E es \in Seq(Tracks) : Head(rest) = Load("assign", es) /\ Tail(rest) \in Seq(Neutral) /\ M = es
<1>1. CASE rest \in Seq(Neutral) /\ M = Q BY <1>1, HeadTailProperties
<1>2. ASSUME NEW es \in Seq(Tracks), rest = Cons(Load("extend", es), << >>), M = Q \o es
      PROVE  Head(rest) = Load("extend", es) /\ Tail(rest) = << >> /\ M = Q \o es
  <2>1. Load("extend", es) \in Calm BY DEF Load, Calm
  <2>2. << >> \in Seq(Calm) OBVIOUS
  <2>3. QED BY <1>2, <2>1, <2>2, ConsIs
<1>3. ASSUME NEW es \in Seq(Tracks), NEW n \in Seq(Neutral), rest = Cons(Load("assign", es), n), M = es
      PROVE  Head(rest) = Load("assign", es) /\ Tail(rest) \in Seq(Neutral) /\ M = es
  <2>1. Load("assign", es) \in Calm BY DEF Load, Calm
  <2>2. n \in Seq(Calm) BY NeutralCalm
  <2>3. QED BY <1>3, <2>1, <2>2, ConsIs
<1>4. QED BY <1>1, <1>2, <1>3 DEF EndsAlike

LEMMA TracksRegroup == \A s, t, u \in Seq(Tracks) : s \o (t \o u) = (s \o t) \o u
<1>1. ASSUME NEW s \in Seq(Tracks), NEW t \in Seq(Tracks), NEW u \in Seq(Tracks)
      PROVE  s \o (t \o u) = (s \o t) \o u
  BY ConcatAssociative
<1>2. QED BY <1>1

(* The first of what is left of loading, with its tracks before it or not.  *)
LEMMA LoadingHeads ==
    ASSUME NEW t \in Seq(Calm), t # << >>, NEW Q \in Seq(Tracks), NEW L \in Seq(Tracks), Loading(t, Q, L)
    PROVE  \/ Head(t) \in Neutral /\ Tail(t) \in Seq(Neutral) /\ L = Q
           \/ \E es \in Seq(Tracks) : Head(t) = Load("extend", es) /\ Tail(t) = << >> /\ L = Q \o es
           \/ \E es \in Seq(Tracks) : Head(t) = Load("assign", es) /\ Tail(t) \in Seq(Neutral) /\ L = es
           \/ \E x \in Tracks : Head(t) = Load("append", <<x>>) /\ Loading(Tail(t), Q, L \o <<x>>)
<1>1. PICK ts \in Seq(Tracks), rest \in Seq(Calm) : t = Loads(ts, rest) /\ EndsAlike(rest, Q, L \o ts)
  BY DEF Loading
<1>2. CASE ts = << >>
  <2>1. t = rest /\ L \o ts = L BY <1>1, <1>2, LoadsNone, ConcatEmptySeq
  <2>2. EndsAlike(t, Q, L) BY <1>1, <2>1
  <2>3. QED BY <2>2, EndsHeads
<1>3. CASE ts # << >>
  <2> DEFINE x == Head(ts)
             u == Tail(ts)
             c == Load("append", <<x>>)
  <2>1. x \in Tracks /\ u \in Seq(Tracks) /\ c \in Calm /\ t = Cons(c, Loads(u, rest))
    BY <1>1, <1>3, LoadsFirst
  <2>2. ts = Cons(x, u) BY <1>3, HeadTail
  <2> HIDE DEF x, u
  <2>3. Loads(u, rest) \in Seq(Calm) BY <2>1, LoadsType
  <2>4. Head(t) = c /\ Tail(t) = Loads(u, rest) BY <2>1, <2>3, ConsIs
  <2>5. <<x>> \in Seq(Tracks) BY <2>1
  <2>6. L \o ts = (L \o <<x>>) \o u
    <3>1. ts = <<x>> \o u BY <2>2 DEF Cons
    <3>2. QED BY <2>1, <2>5, <3>1, TracksRegroup
  <2>7. Loading(Tail(t), Q, L \o <<x>>) BY <1>1, <2>1, <2>4, <2>6 DEF Loading
  <2>8. QED BY <2>1, <2>4, <2>7
<1>4. QED BY <1>2, <1>3

LEMMA LoadingNothing ==
    ASSUME NEW n \in Seq(Neutral), NEW Q \in Seq(Tracks)
    PROVE  Loading(n, Q, Q)
<1>1. n \in Seq(Calm) /\ << >> \in Seq(Tracks) BY NeutralCalm
<1>2. n = Loads(<< >>, n) /\ Q \o << >> = Q BY <1>1, LoadsNone, ConcatEmptySeq
<1>3. EndsAlike(n, Q, Q \o << >>) BY <1>2 DEF EndsAlike
<1>4. QED BY <1>1, <1>2, <1>3 DEF Loading

LEMMA AllDone ==
    ASSUME NEW Q \in Seq(Tracks), NEW L \in Seq(Tracks), Settles(<< >>, Q, L)
    PROVE  Q = L
<1> DEFINE e == << >>
<1>1. ASSUME NEW c, NEW s \in Seq(Calm), c \in Calm PROVE e # Cons(c, s) BY <1>1, ConsIs
<1>2. \A d \in {"mpvStop", "mpvClear", "isPlaying", "shuffle", "appendAll"} : Do(d) \in Calm BY DEF Do, Calm
<1>3. ~Clears(e) /\ ~Stops(e) /\ ~Shuffles(e) BY <1>1, <1>2 DEF Clears, Stops, Shuffles
<1>4. ~AppendsAll(e) BY <1>1, <1>2, NeutralCalm DEF AppendsAll
<1>5. << >> \in Seq(Calm) OBVIOUS
<1>6. Shuffling(<< >>) \in Seq(Calm)
  <2>1. Cons(Do("appendAll"), << >>) \in Seq(Calm) BY <1>2, <1>5, ConsIs
  <2>2. Cons(Do("mpvClear"), Cons(Do("appendAll"), << >>)) \in Seq(Calm) BY <1>2, <2>1, ConsIs
  <2>3. Cons(Do("mpvStop"), Cons(Do("mpvClear"), Cons(Do("appendAll"), << >>))) \in Seq(Calm) BY <1>2, <2>2, ConsIs
  <2>4. QED BY <1>2, <2>3, ConsIs DEF Shuffling
<1>7. e # Cons(Do("isPlaying"), Shuffling(<< >>)) BY <1>1, <1>2, <1>6
<1>8. Loading(e, Q, L) BY <1>3, <1>4, <1>7 DEF Settles
<1>9. PICK ts \in Seq(Tracks), rest \in Seq(Calm) : e = Loads(ts, rest) /\ EndsAlike(rest, Q, L \o ts)
  BY <1>8 DEF Loading
<1>10. ts = << >>
  <2> SUFFICES ASSUME ts # << >> PROVE FALSE OBVIOUS
  <2>1. /\ Load("append", <<Head(ts)>>) \in Calm /\ Tail(ts) \in Seq(Tracks)
        /\ e = Cons(Load("append", <<Head(ts)>>), Loads(Tail(ts), rest))
    BY <1>9, LoadsFirst
  <2>2. QED BY <1>1, <2>1, LoadsType
<1>11. rest = << >> /\ L \o ts = L BY <1>9, <1>10, LoadsNone, ConcatEmptySeq
<1>12. EndsAlike(e, Q, L) BY <1>9, <1>11
<1>13. \A es \in Seq(Tracks) : Load("extend", es) \in Calm /\ Load("assign", es) \in Calm BY DEF Load, Calm
<1>14. QED BY <1>1, <1>5, <1>12, <1>13, NeutralCalm DEF EndsAlike

LEMMA PlainCalm ==
    \A d \in {"mpvStop", "mpvClear", "isPlaying", "shuffle", "appendAll", "pause", "unpause", "volume", "get"} :
        Do(d) \in Calm /\ Do(d).do = d
BY DEF Do, Calm, Neutral

LEMMA ShufflingType ==
    ASSUME NEW n \in Seq(Neutral)
    PROVE  Shuffling(n) \in Seq(Calm) /\ Shuffles(Shuffling(n))
<1> DEFINE a == Cons(Do("appendAll"), n)
           b == Cons(Do("mpvClear"), a)
           c == Cons(Do("mpvStop"), b)
           d == Cons(Do("shuffle"), c)
<1>1. n \in Seq(Calm) BY NeutralCalm
<1>2. a \in Seq(Calm) /\ AppendsAll(a) BY <1>1, PlainCalm, ConsIs DEF AppendsAll
<1> HIDE DEF a
<1>3. b \in Seq(Calm) /\ Clears(b) BY <1>2, PlainCalm, ConsIs DEF Clears, Refills
<1> HIDE DEF b
<1>4. c \in Seq(Calm) /\ Stops(c) BY <1>3, PlainCalm, ConsIs DEF Stops
<1> HIDE DEF c
<1>5. d \in Seq(Calm) /\ Shuffles(d) BY <1>4, PlainCalm, ConsIs DEF Shuffles
<1>6. Shuffling(n) = d BY DEF a, b, c, Shuffling
<1>7. QED BY <1>5, <1>6

LEMMA ShufflingEnds ==
    ASSUME NEW n \in Seq(Neutral)
    PROVE  Shuffling(<< >>) \o n = Shuffling(n)
<1> DEFINE a == Cons(Do("appendAll"), << >>)
           b == Cons(Do("mpvClear"), a)
           c == Cons(Do("mpvStop"), b)
<1>1. n \in Seq(Calm) /\ << >> \in Seq(Calm) BY NeutralCalm
<1>2. a \in Seq(Calm) /\ a \o n = Cons(Do("appendAll"), n)
  <2>1. a \in Seq(Calm) BY <1>1, PlainCalm, ConsIs
  <2>2. a \o n = Cons(Do("appendAll"), << >> \o n) BY <1>1, PlainCalm, ConsConcat
  <2>3. QED BY <2>1, <2>2, <1>1, ConcatEmptySeq
<1> HIDE DEF a
<1>3. b \in Seq(Calm) /\ b \o n = Cons(Do("mpvClear"), a \o n) BY <1>1, <1>2, PlainCalm, ConsIs, ConsConcat
<1> HIDE DEF b
<1>4. c \in Seq(Calm) /\ c \o n = Cons(Do("mpvStop"), b \o n) BY <1>1, <1>3, PlainCalm, ConsIs, ConsConcat
<1> HIDE DEF c
<1>5. Cons(Do("shuffle"), c) \o n = Cons(Do("shuffle"), c \o n) BY <1>1, <1>4, PlainCalm, ConsConcat
<1>6. Shuffling(<< >>) = Cons(Do("shuffle"), c) BY DEF Shuffling, a, b, c
<1>7. QED BY <1>2, <1>3, <1>4, <1>5, <1>6 DEF Shuffling

LEMMA RefillsFromNone ==
    ASSUME NEW s \in Seq(Calm), Refills(s), NEW Q \in Seq(Tracks)
    PROVE  Settles(s, Q, << >>)
<1>1. CASE AppendsAll(s) BY <1>1 DEF Settles
<1>2. ASSUME NEW ts \in Seq(Tracks), NEW n \in Seq(Neutral), s = Loads(ts, Cons(Load("assign", ts), n))
      PROVE  Loading(s, Q, << >>)
  <2> DEFINE rest == Cons(Load("assign", ts), n)
  <2>1. rest \in Seq(Calm)
    <3>1. Load("assign", ts) \in Calm /\ n \in Seq(Calm) BY NeutralCalm DEF Load, Calm
    <3>2. QED BY <3>1, ConsIs
  <2>2. << >> \o ts = ts BY ConcatEmptySeq
  <2>3. EndsAlike(rest, Q, << >> \o ts) BY <2>2 DEF EndsAlike
  <2>4. s = Loads(ts, rest) BY <1>2
  <2> HIDE DEF rest
  <2>5. QED BY <2>1, <2>3, <2>4 DEF Loading
<1>3. QED BY <1>1, <1>2 DEF Refills, Settles

(* A command that mpv carries out.                                          *)
LEMMA CommandSettles ==
    ASSUME NEW t \in Seq(Calm), t # << >>, Head(t).do \notin Local,
           NEW Q \in Seq(Tracks), NEW L \in Seq(Tracks), Settles(t, Q, L)
    PROVE  /\ Head(t).do # "isPlaying" => Settles(Tail(t), Q, Listed(Head(t), L))
           /\ Head(t).do = "isPlaying" =>
                 \A n \in Seq(Neutral) : Settles(Tail(t) \o n, Q, Listed(Head(t), L))
<1> DEFINE c == Head(t)
           u == Tail(t)
<1>1. c \in Calm /\ u \in Seq(Calm) BY HeadTailProperties
<1>2. CASE Loading(t, Q, L)
  <2>1. CASE c \in Neutral /\ u \in Seq(Neutral) /\ L = Q
    <3>1. c.do \in {"unpause", "pause", "volume", "get", "position"} BY <1>1, <2>1, CalmKinds
    <3>2. Listed(c, L) = L BY <3>1 DEF Listed
    <3>3. Loading(u, Q, L) BY <2>1, LoadingNothing
    <3>4. QED BY <3>1, <3>2, <3>3 DEF Settles
  <2>2. ASSUME NEW es \in Seq(Tracks), c \in {Load("extend", es), Load("assign", es)}
        PROVE  FALSE
    BY <2>2 DEF Load, Local
  <2>3. ASSUME NEW x \in Tracks, c = Load("append", <<x>>), Loading(u, Q, L \o <<x>>)
        PROVE  c.do # "isPlaying" /\ Settles(u, Q, Listed(c, L))
    <3>1. c.do = "append" /\ c.entries = <<x>> BY <2>3 DEF Load
    <3>2. Listed(c, L) = L \o <<x>> BY <3>1 DEF Listed
    <3>3. QED BY <2>3, <3>1, <3>2 DEF Settles
  <2>4. QED BY <1>2, <2>1, <2>2, <2>3, LoadingHeads
<1>3. CASE AppendsAll(t)
  <2>1. PICK n \in Seq(Neutral) : t = Cons(Do("appendAll"), n) BY <1>3 DEF AppendsAll
  <2>2. c = Do("appendAll") BY <2>1, PlainCalm, NeutralCalm, ConsIs
  <2>3. QED BY <2>2, PlainCalm DEF Local
<1>4. CASE Clears(t)
  <2>1. PICK s \in Seq(Calm) : Refills(s) /\ t = Cons(Do("mpvClear"), s) BY <1>4 DEF Clears
  <2>2. c = Do("mpvClear") /\ u = s BY <2>1, PlainCalm, ConsIs
  <2>3. c.do = "mpvClear" BY <2>2, PlainCalm
  <2>4. Listed(c, L) = << >> BY <2>3 DEF Listed
  <2>5. QED BY <2>1, <2>2, <2>3, <2>4, RefillsFromNone
<1>5. CASE Stops(t)
  <2>1. PICK s \in Seq(Calm) : Clears(s) /\ t = Cons(Do("mpvStop"), s) BY <1>5 DEF Stops
  <2>2. c = Do("mpvStop") /\ u = s BY <2>1, PlainCalm, ConsIs
  <2>3. c.do = "mpvStop" BY <2>2, PlainCalm
  <2>4. QED BY <2>1, <2>2, <2>3 DEF Settles
<1>6. CASE Shuffles(t)
  <2>1. PICK s \in Seq(Calm) : Stops(s) /\ t = Cons(Do("shuffle"), s) BY <1>6 DEF Shuffles
  <2>2. c = Do("shuffle") BY <2>1, PlainCalm, ConsIs
  <2>3. QED BY <2>2, PlainCalm DEF Local
<1>7. CASE t = Cons(Do("isPlaying"), Shuffling(<< >>))
  <2>1. << >> \in Seq(Neutral) OBVIOUS
  <2>2. Shuffling(<< >>) \in Seq(Calm) BY <2>1, ShufflingType
  <2>3. c = Do("isPlaying") /\ u = Shuffling(<< >>) BY <1>7, <2>2, PlainCalm, ConsIs
  <2>4. c.do = "isPlaying" BY <2>3, PlainCalm
  <2>5. ASSUME NEW n \in Seq(Neutral), NEW M PROVE Settles(u \o n, Q, M)
    BY <2>3, ShufflingEnds, ShufflingType DEF Settles
  <2>6. QED BY <2>4, <2>5
<1>8. QED BY <1>2, <1>3, <1>4, <1>5, <1>6, <1>7 DEF Settles

(* A change of the queue.                                                   *)
LEMMA QueueSettles ==
    ASSUME NEW t \in Seq(Calm), t # << >>,
           NEW Q \in Seq(Tracks), NEW L \in Seq(Tracks), Settles(t, Q, L)
    PROVE  /\ Head(t).do = "assign" => Settles(Tail(t), Head(t).entries, L)
           /\ Head(t).do = "extend" => Settles(Tail(t), Q \o Head(t).entries, L)
           /\ Head(t).do = "shuffle" => \A P \in Seq(Tracks) : Settles(Tail(t), P, L)
           /\ Head(t).do = "appendAll" => Settles(Appends(Q) \o Tail(t), Q, L)
<1> DEFINE c == Head(t)
           u == Tail(t)
<1>1. c \in Calm /\ u \in Seq(Calm) BY HeadTailProperties
<1>2. CASE Loading(t, Q, L)
  <2>1. CASE c \in Neutral BY <1>1, <2>1, CalmKinds DEF Local
  <2>2. ASSUME NEW es \in Seq(Tracks), c = Load("extend", es), u = << >>, L = Q \o es
        PROVE  c.do = "extend" /\ Settles(u, Q \o c.entries, L)
    <3>1. c.do = "extend" /\ c.entries = es BY <2>2 DEF Load
    <3>2. Q \o es \in Seq(Tracks) /\ << >> \in Seq(Neutral) BY ConcatProperties
    <3>3. Loading(u, Q \o es, L) BY <2>2, <3>2, LoadingNothing
    <3>4. QED BY <3>1, <3>3 DEF Settles
  <2>3. ASSUME NEW es \in Seq(Tracks), c = Load("assign", es), u \in Seq(Neutral), L = es
        PROVE  c.do = "assign" /\ Settles(u, c.entries, L)
    <3>1. c.do = "assign" /\ c.entries = es BY <2>3 DEF Load
    <3>2. Loading(u, es, L) BY <2>3, LoadingNothing
    <3>3. QED BY <3>1, <3>2 DEF Settles
  <2>4. ASSUME NEW x \in Tracks, c = Load("append", <<x>>) PROVE c.do = "append" BY <2>4 DEF Load
  <2>5. QED BY <1>2, <2>1, <2>2, <2>3, <2>4, LoadingHeads
<1>3. CASE AppendsAll(t) /\ L = << >>
  <2>1. PICK n \in Seq(Neutral) : t = Cons(Do("appendAll"), n) BY <1>3 DEF AppendsAll
  <2>2. c = Do("appendAll") /\ u = n BY <2>1, PlainCalm, NeutralCalm, ConsIs
  <2>3. c.do = "appendAll" BY <2>2, PlainCalm
  <2>4. n \in Seq(Calm) /\ L \o Q = Q BY <1>3, NeutralCalm, ConcatEmptySeq
  <2>5. EndsAlike(n, Q, L \o Q) BY <2>4 DEF EndsAlike
  <2>6. Loading(Appends(Q) \o n, Q, L) BY <2>4, <2>5 DEF Loading, Loads
  <2>7. QED BY <2>2, <2>3, <2>6 DEF Settles
<1>4. CASE Clears(t)
  <2>1. PICK s \in Seq(Calm) : t = Cons(Do("mpvClear"), s) BY <1>4 DEF Clears
  <2>2. c = Do("mpvClear") BY <2>1, PlainCalm, ConsIs
  <2>3. c.do = "mpvClear" BY <2>2, PlainCalm
  <2>4. QED BY <2>3
<1>5. CASE Stops(t)
  <2>1. PICK s \in Seq(Calm) : t = Cons(Do("mpvStop"), s) BY <1>5 DEF Stops
  <2>2. c = Do("mpvStop") BY <2>1, PlainCalm, ConsIs
  <2>3. c.do = "mpvStop" BY <2>2, PlainCalm
  <2>4. QED BY <2>3
<1>6. CASE Shuffles(t)
  <2>1. PICK s \in Seq(Calm) : Stops(s) /\ t = Cons(Do("shuffle"), s) BY <1>6 DEF Shuffles
  <2>2. c = Do("shuffle") /\ u = s BY <2>1, PlainCalm, ConsIs
  <2>3. c.do = "shuffle" BY <2>2, PlainCalm
  <2>4. QED BY <2>1, <2>2, <2>3 DEF Settles
<1>7. CASE t = Cons(Do("isPlaying"), Shuffling(<< >>))
  <2>1. << >> \in Seq(Neutral) OBVIOUS
  <2>2. c = Do("isPlaying") BY <1>7, <2>1, ShufflingType, PlainCalm, ConsIs
  <2>3. c.do = "isPlaying" BY <2>2, PlainCalm
  <2>4. QED BY <2>3
<1>8. QED BY <1>2, <1>3, <1>4, <1>5, <1>6, <1>7 DEF Settles

-----------------------------------------------------------------------------
(* What is left of an operation of each kind.                               *)
LEMMA OpKinds ==
    ASSUME NEW op \in OpTypes
    PROVE  /\ op.name \in {"set", "add", "remove", "skip", "clear", "shuffle", "start", "stop",
                           "setGain", "status"}
           /\ op.name \in {"remove", "skip"} => op.index \in Nat
           /\ op.name \in {"set", "add"} => op.entries \in Seq(Tracks)
<1>1. Lists \subseteq Seq(Tracks)
  <2>1. << >> \in Seq(Tracks) OBVIOUS
  <2>2. ASSUME NEW x \in Tracks PROVE <<x>> \in Seq(Tracks) OBVIOUS
  <2>3. ASSUME NEW x \in Tracks, NEW y \in Tracks PROVE <<x, y>> \in Seq(Tracks) OBVIOUS
  <2>4. ASSUME NEW l \in Lists
        PROVE  l = << >> \/ (\E x \in Tracks : l = <<x>>) \/ (\E x, y \in Tracks : l = <<x, y>>)
    BY DEF Lists
  <2>5. QED BY <2>1, <2>2, <2>3, <2>4
<1>2. QED BY <1>1 DEF OpTypes, Ops, Status

LEMMA IndexedCommands ==
    ASSUME NEW i \in Nat
    PROVE  /\ At("mpvRemove", i) \in Commands /\ At("delete", i) \in Commands
           /\ At("mpvRemove", i).do = "mpvRemove" /\ At("mpvRemove", i).index = i
           /\ At("delete", i).do = "delete" /\ At("delete", i).index = i
           /\ At("position", i) \in Neutral
BY DEF At, Commands, Neutral

LEMMA RemovalParts ==
    ASSUME NEW i \in Nat
    PROVE  /\ Deletion(i) \in Seq(Commands) /\ Deletion(i) # << >>
           /\ Head(Deletion(i)) = At("delete", i) /\ Tail(Deletion(i)) = << >>
           /\ Removal(i) \in Seq(Commands) /\ Removal(i) # << >>
           /\ Head(Removal(i)) = At("mpvRemove", i) /\ Tail(Removal(i)) = Deletion(i)
<1>1. << >> \in Seq(Commands) OBVIOUS
<1>2. /\ Deletion(i) \in Seq(Commands) /\ Deletion(i) # << >>
      /\ Head(Deletion(i)) = At("delete", i) /\ Tail(Deletion(i)) = << >>
  BY <1>1, IndexedCommands, ConsIs DEF Deletion
<1>3. /\ Removal(i) \in Seq(Commands) /\ Removal(i) # << >>
      /\ Head(Removal(i)) = At("mpvRemove", i) /\ Tail(Removal(i)) = Deletion(i)
  <2>1. At("mpvRemove", i) \in Commands /\ Deletion(i) \in Seq(Commands) BY <1>2, IndexedCommands
  <2>2. QED BY <2>1, ConsIs DEF Removal
<1>4. QED BY <1>2, <1>3

LEMMA CalmCommands == Calm \subseteq Commands /\ Seq(Calm) \subseteq Seq(Commands) /\ Do("ready") \in Commands
<1>1. Calm \subseteq Commands /\ Do("ready") \in Commands BY DEF Commands, Do
<1>2. QED BY <1>1

LEMMA BodyTypes ==
    ASSUME NEW op \in OpTypes, NEW s \in Bodies(op)
    PROVE  /\ s \in Seq(Commands)
           /\ op.name # "remove" => s \in Seq(Calm)
           /\ s # << >> => Head(s).do # "ready"
<1>1. CASE op.name = "remove"
  <2>1. op.index \in Nat /\ << >> \in Seq(Commands) BY <1>1, OpKinds
  <2>2. s \in {<< >>, Deletion(op.index), Removal(op.index)} BY <1>1 DEF Bodies
  <2>3. s # << >> => Head(s) \in {At("delete", op.index), At("mpvRemove", op.index)} BY <2>1, <2>2, RemovalParts
  <2>4. QED BY <1>1, <2>1, <2>2, <2>3, RemovalParts, IndexedCommands
<1>2. CASE op.name # "remove"
  <2>1. s \in Seq(Calm) BY <1>2, NeutralCalm DEF Bodies
  <2>2. s # << >> => Head(s) \in Calm BY <2>1, HeadTailProperties
  <2>3. s \in Seq(Commands) BY <2>1, CalmCommands
  <2>4. QED BY <2>1, <2>2, <2>3, CalmKinds
<1>3. QED BY <1>1, <1>2

(* `ready` comes first, or is done.                                         *)
LEMMA ReadyFirst ==
    ASSUME NEW op \in OpTypes, NEW s \in Bodies(op), NEW t, t # << >>, t = s \/ t = Cons(Do("ready"), s)
    PROVE  /\ t \in Seq(Commands)
           /\ Head(t).do = "ready" => t = Cons(Do("ready"), s) /\ Tail(t) = s
           /\ Head(t).do # "ready" => t = s
<1>1. s \in Seq(Commands) BY BodyTypes
<1>2. CASE t = s BY <1>1, <1>2, BodyTypes
<1>3. CASE t = Cons(Do("ready"), s)
  <2>1. t \in Seq(Commands) /\ Head(t) = Do("ready") /\ Tail(t) = s BY <1>1, <1>3, CalmCommands, ConsIs
  <2>2. Head(t).do = "ready" BY <2>1 DEF Do
  <2>3. QED BY <1>3, <2>1, <2>2
<1>4. QED BY <1>2, <1>3

(* The three parts of Going, for one body.                                  *)
GoesOnWith(op, cut, t, Q, m, lost, s) ==
    /\ \/ t = s
       \/ t = Cons(Do("ready"), s) /\ (op.name = "remove" => s = Removal(op.index))
    /\ EntryThere(op, s, Q, m.list)
    /\ Whole(op, cut) =>
          /\ t = Cons(Do("ready"), s) => SettlesFor(op, s, << >>, << >>)
          /\ InStep(op, m, lost) => SettlesFor(op, s, Q, m.list)

LEMMA GoingBy ==
    ASSUME NEW op, NEW cut, NEW t, NEW Q, NEW m, NEW lost
    PROVE  Going(op, cut, t, Q, m, lost) <=> \E s \in Bodies(op) : GoesOnWith(op, cut, t, Q, m, lost, s)
BY DEF Going, GoesOnWith

LEMMA EmptySettles ==
    ASSUME NEW op \in OpTypes, NEW s \in Bodies(op), op.name \notin Edits
    PROVE  SettlesFor(op, s, << >>, << >>)
BY OpKinds DEF SettlesFor, Edits

LEMMA StartGoing ==
    ASSUME NEW op \in OpTypes, NEW cut \in BOOLEAN, NEW t, t # << >>, NEW Q \in Seq(Tracks),
           NEW lost \in BOOLEAN, Going(op, cut, t, Q, Down, lost), Head(t).do \notin Local,
           NEW between \in BOOLEAN, between <=> Head(t).do = "ready" \/ op.name \notin Edits
    PROVE  Going(op, cut \/ ~between, IF Head(t).do = "ready" THEN Tail(t) ELSE t, << >>,
                 [up |-> TRUE, list |-> << >>], lost /\ ~between)
<1> DEFINE m == [up |-> TRUE, list |-> << >>]
           t1 == IF Head(t).do = "ready" THEN Tail(t) ELSE t
<1>1. PICK s \in Bodies(op) : GoesOnWith(op, cut, t, Q, Down, lost, s) BY GoingBy
<1>2. t = s \/ t = Cons(Do("ready"), s) BY <1>1 DEF GoesOnWith
<1>3. t1 = s BY <1>2, ReadyFirst
<1>4. m.list = << >> /\ m.up OBVIOUS
<1>5. EntryThere(op, s, << >>, m.list)
  <2> SUFFICES ASSUME op.name = "remove", s = Deletion(op.index) PROVE FALSE BY <1>4 DEF EntryThere
  <2>1. op.index \in Nat BY OpKinds
  <2>2. CASE t = s
    <3>1. Head(t) = At("delete", op.index) BY <2>1, <2>2, RemovalParts
    <3>2. QED BY <2>1, <3>1, IndexedCommands DEF Local
  <2>3. CASE t = Cons(Do("ready"), s) /\ s = Removal(op.index)
    <3>1. At("delete", op.index) = At("mpvRemove", op.index) BY <2>1, <2>3, RemovalParts
    <3>2. QED BY <2>1, <3>1, IndexedCommands
  <2>4. QED BY <1>1, <2>2, <2>3 DEF GoesOnWith
<1>6. Whole(op, cut \/ ~between) => SettlesFor(op, s, << >>, << >>)
  <2>1. CASE op.name \notin Edits BY <2>1, EmptySettles
  <2>2. CASE op.name \in Edits /\ Head(t).do = "ready"
    <3>1. t = Cons(Do("ready"), s) BY <1>2, <2>2, ReadyFirst
    <3>2. Whole(op, cut \/ ~between) => Whole(op, cut) BY DEF Whole
    <3>3. QED BY <1>1, <3>1, <3>2 DEF GoesOnWith
  <2>3. CASE op.name \in Edits /\ Head(t).do # "ready" BY <2>3 DEF Whole
  <2>4. QED BY <2>1, <2>2, <2>3
<1>7. t1 # Cons(Do("ready"), s) \/ SettlesFor(op, s, << >>, << >>) \/ ~Whole(op, cut \/ ~between) BY <1>6
<1>8. GoesOnWith(op, cut \/ ~between, t1, << >>, m, lost /\ ~between, s) BY <1>3, <1>4, <1>5, <1>6 DEF GoesOnWith
<1> HIDE DEF m, t1
<1>9. Going(op, cut \/ ~between, t1, << >>, m, lost /\ ~between) BY <1>8, GoingBy
<1>10. QED BY <1>9 DEF m, t1

LEMMA ReadyGoing ==
    ASSUME NEW op \in OpTypes, NEW cut \in BOOLEAN, NEW t, t # << >>, NEW Q, NEW m, NEW lost,
           Going(op, cut, t, Q, m, lost), Head(t).do = "ready"
    PROVE  Going(op, cut \/ FALSE, Tail(t), Q, m, lost)
<1>1. PICK s \in Bodies(op) : GoesOnWith(op, cut, t, Q, m, lost, s) BY GoingBy
<1>2. t = s \/ t = Cons(Do("ready"), s) BY <1>1 DEF GoesOnWith
<1>3. t = Cons(Do("ready"), s) /\ Tail(t) = s BY <1>2, ReadyFirst
<1>4. (cut \/ FALSE) = cut OBVIOUS
<1>5. GoesOnWith(op, cut \/ FALSE, s, Q, m, lost, s) BY <1>1, <1>3, <1>4 DEF GoesOnWith
<1>6. QED BY <1>3, <1>5, GoingBy

LEMMA DeathGoing ==
    ASSUME NEW op, NEW cut, NEW t, NEW Q, NEW m, NEW lost, Going(op, cut, t, Q, m, lost)
    PROVE  Going(op, cut, t, Q, Down, lost)
<1>1. PICK s \in Bodies(op) : GoesOnWith(op, cut, t, Q, m, lost, s) BY GoingBy
<1>2. Down.list = << >> /\ ~Down.up BY DEF Down
<1>3. GoesOnWith(op, cut, t, Q, Down, lost, s) BY <1>1, <1>2 DEF GoesOnWith, EntryThere, InStep
<1>4. QED BY <1>3, GoingBy

LEMMA BodyGoing ==
    ASSUME NEW op \in OpTypes, NEW cut, NEW s \in Bodies(op), NEW Q, NEW m, NEW lost,
           EntryThere(op, s, Q, m.list),
           Whole(op, cut) /\ InStep(op, m, lost) => SettlesFor(op, s, Q, m.list)
    PROVE  Going(op, cut, s, Q, m, lost)
<1>1. s # Cons(Do("ready"), s)
  <2> SUFFICES ASSUME s = Cons(Do("ready"), s) PROVE FALSE OBVIOUS
  <2>1. s \in Seq(Commands) BY BodyTypes
  <2>2. s # << >> /\ Head(s) = Do("ready") BY <2>1, CalmCommands, ConsIs
  <2>3. Head(s).do = "ready" BY <2>2 DEF Do
  <2>4. QED BY <2>2, <2>3, BodyTypes
<1>2. GoesOnWith(op, cut, s, Q, m, lost, s) BY <1>1 DEF GoesOnWith
<1>3. QED BY <1>2, GoingBy

LEMMA RemoveAtType ==
    ASSUME NEW s \in Seq(Tracks), NEW i \in Nat, i < Len(s)
    PROVE  RemoveAt(s, i + 1) \in Seq(Tracks)
<1>1. Len(s) \in Nat /\ \A k \in 1..Len(s) : s[k] \in Tracks BY LenProperties, ElementOfSeq
<1>2. (i + 1) - 1 \in Int /\ (i + 1) + 1 \in Int /\ Len(s) \in Int BY <1>1
<1>3. SubSeq(s, 1, (i + 1) - 1) \in Seq(Tracks)
  <2>1. \A k \in 1..((i + 1) - 1) : s[k] \in Tracks BY <1>1
  <2>2. QED BY <1>2, <2>1, SubSeqProperties
<1>4. SubSeq(s, (i + 1) + 1, Len(s)) \in Seq(Tracks)
  <2>1. \A k \in ((i + 1) + 1)..Len(s) : s[k] \in Tracks BY <1>1
  <2>2. QED BY <1>2, <2>1, SubSeqProperties
<1>5. QED BY <1>3, <1>4, ConcatProperties DEF RemoveAt

LEMMA ListedType ==
    ASSUME NEW c \in Calm, NEW L \in Seq(Tracks)
    PROVE  Listed(c, L) \in Seq(Tracks)
<1>1. c.do \in {"mpvStop", "mpvClear"} => Listed(c, L) = << >> BY DEF Listed
<1>2. c.do = "append" => c.entries \in Seq(Tracks) /\ Listed(c, L) = L \o c.entries BY CalmKinds DEF Listed
<1>3. c.do \notin {"mpvStop", "mpvClear", "append"} => Listed(c, L) = L BY CalmKinds DEF Listed
<1>4. << >> \in Seq(Tracks) OBVIOUS
<1>5. CASE c.do = "append" BY <1>2, <1>5, ConcatProperties
<1>6. CASE c.do \in {"mpvStop", "mpvClear"} BY <1>1, <1>4, <1>6
<1>7. CASE c.do \notin {"mpvStop", "mpvClear", "append"} BY <1>3, <1>7
<1>8. QED BY <1>5, <1>6, <1>7

LEMMA BodyLeft ==
    ASSUME NEW op \in OpTypes, NEW t, t # << >>, Head(t).do # "ready", NEW cut, NEW Q, NEW m, NEW lost,
           Going(op, cut, t, Q, m, lost)
    PROVE  /\ t \in Bodies(op) /\ t \in Seq(Commands) /\ EntryThere(op, t, Q, m.list)
           /\ Whole(op, cut) /\ InStep(op, m, lost) => SettlesFor(op, t, Q, m.list)
           /\ op.name = "remove" =>
                 /\ op.index \in Nat
                 /\ \/ t = Removal(op.index) /\ Head(t) = At("mpvRemove", op.index) /\ Tail(t) = Deletion(op.index)
                    \/ t = Deletion(op.index) /\ Head(t) = At("delete", op.index) /\ Tail(t) = << >>
           /\ op.name # "remove" /\ op.name \in Edits => t \in Seq(Calm)
           /\ op.name # "remove" /\ op.name \notin Edits => t \in Seq(Neutral)
<1>1. PICK s \in Bodies(op) : GoesOnWith(op, cut, t, Q, m, lost, s) BY GoingBy
<1>2. t = s \/ t = Cons(Do("ready"), s) BY <1>1 DEF GoesOnWith
<1>3. t = s /\ t \in Seq(Commands) BY <1>2, ReadyFirst
<1>4. op.name = "remove" =>
                 /\ op.index \in Nat
                 /\ \/ t = Removal(op.index) /\ Head(t) = At("mpvRemove", op.index) /\ Tail(t) = Deletion(op.index)
                    \/ t = Deletion(op.index) /\ Head(t) = At("delete", op.index) /\ Tail(t) = << >>
  BY <1>3, OpKinds, RemovalParts DEF Bodies
<1>5. QED BY <1>1, <1>3, <1>4 DEF GoesOnWith, Bodies

LEMMA CommandGoing ==
    ASSUME NEW op \in OpTypes, NEW cut \in BOOLEAN, NEW t, t # << >>, NEW Q \in Seq(Tracks),
           NEW L \in Seq(Tracks), NEW lost \in BOOLEAN,
           Going(op, cut, t, Q, [up |-> TRUE, list |-> L], lost),
           Head(t).do \notin Local, Head(t).do # "ready", Accepts(Head(t), L)
    PROVE  LET m == [up |-> TRUE, list |-> Listed(Head(t), L)] IN
           /\ m.list \in Seq(Tracks)
           /\ Head(t).do # "isPlaying" => Going(op, cut \/ FALSE, Tail(t), Q, m, lost)
           /\ Head(t).do = "isPlaying" =>
                 \A n \in Seq(Neutral) : Going(op, cut \/ FALSE, Tail(t) \o n, Q, m, lost)
<1> DEFINE l == [up |-> TRUE, list |-> L]
           m == [up |-> TRUE, list |-> Listed(Head(t), L)]
<1>1. /\ t \in Bodies(op) /\ t \in Seq(Commands) /\ EntryThere(op, t, Q, L)
      /\ Whole(op, cut) /\ InStep(op, l, lost) => SettlesFor(op, t, Q, L)
      /\ op.name = "remove" =>
            /\ op.index \in Nat
            /\ \/ t = Removal(op.index) /\ Head(t) = At("mpvRemove", op.index) /\ Tail(t) = Deletion(op.index)
               \/ t = Deletion(op.index) /\ Head(t) = At("delete", op.index) /\ Tail(t) = << >>
      /\ op.name # "remove" /\ op.name \in Edits => t \in Seq(Calm)
      /\ op.name # "remove" /\ op.name \notin Edits => t \in Seq(Neutral)
  <2>1. l.list = L OBVIOUS
  <2>2. Going(op, cut, t, Q, l, lost) OBVIOUS
  <2> HIDE DEF l
  <2>3. QED BY <2>1, <2>2, BodyLeft
<1>2. InStep(op, m, lost) <=> InStep(op, l, lost) BY DEF InStep
<1>3. m.list = Listed(Head(t), L) /\ (cut \/ FALSE) = cut OBVIOUS
<1> HIDE DEF l, m
<1>4. CASE op.name = "remove"
  <2> DEFINE i == op.index
  <2>1. i \in Nat /\ t = Removal(i) /\ Head(t) = At("mpvRemove", i) /\ Tail(t) = Deletion(i)
    <3>1. At("delete", i).do \in Local BY DEF At, Local
    <3>2. QED BY <1>1, <1>4, <3>1
  <2>2. Head(t).do = "mpvRemove" /\ Head(t).index = i BY <2>1, IndexedCommands
  <2>3. i < Len(L) BY <2>2 DEF Accepts
  <2>4. m.list = RemoveAt(L, i + 1) BY <1>3, <2>2 DEF Listed
  <2>5. m.list \in Seq(Tracks) BY <2>1, <2>3, <2>4, RemoveAtType
  <2>6. i < Len(Q)
    <3>1. L # << >>
      <4>1. Len(<< >>) = 0 OBVIOUS
      <4>2. QED BY <2>1, <2>3, <4>1
    <3>2. QED BY <1>1, <1>4, <2>1, <3>1 DEF EntryThere
  <2>7. Deletion(i) # Removal(i) /\ Deletion(i) # << >>
    <3>1. At("delete", i) # At("mpvRemove", i) BY <2>1, IndexedCommands
    <3>2. QED BY <2>1, <3>1, RemovalParts
  <2>8. Deletion(i) \in Bodies(op) BY <1>4 DEF Bodies
  <2>9. EntryThere(op, Deletion(i), Q, m.list) BY <2>6, <2>7 DEF EntryThere
  <2>10. Whole(op, cut) /\ InStep(op, m, lost) => SettlesFor(op, Deletion(i), Q, m.list)
    <3> SUFFICES ASSUME Whole(op, cut), InStep(op, m, lost) PROVE SettlesFor(op, Deletion(i), Q, m.list)
      OBVIOUS
    <3>1. SettlesFor(op, Removal(i), Q, L) BY <1>1, <1>2, <2>1
    <3>2. Q = L BY <1>4, <3>1 DEF SettlesFor
    <3>3. QED BY <1>4, <2>4, <2>7, <3>2 DEF SettlesFor
  <2>11. Going(op, cut, Deletion(i), Q, m, lost) BY <2>8, <2>9, <2>10, BodyGoing
  <2>12. QED BY <1>3, <2>1, <2>2, <2>5, <2>11 DEF m
<1>5. CASE op.name # "remove" /\ op.name \in Edits
  <2>1. t \in Seq(Calm) /\ Head(t) \in Calm /\ Tail(t) \in Seq(Calm) BY <1>1, <1>5, HeadTailProperties
  <2>2. m.list \in Seq(Tracks) BY <1>3, <2>1, ListedType
  <2>3. ASSUME NEW u \in Seq(Calm), Settles(t, Q, L) => Settles(u, Q, m.list)
        PROVE  Going(op, cut, u, Q, m, lost)
    <3>1. u \in Bodies(op) /\ EntryThere(op, u, Q, m.list) BY <1>5 DEF Bodies, EntryThere
    <3>2. Whole(op, cut) /\ InStep(op, m, lost) => SettlesFor(op, u, Q, m.list)
      BY <1>1, <1>2, <1>5, <2>3 DEF SettlesFor
    <3>3. QED BY <3>1, <3>2, BodyGoing
  <2>4. Head(t).do # "isPlaying" => Going(op, cut, Tail(t), Q, m, lost)
    BY <1>3, <2>1, <2>3, CommandSettles
  <2>5. ASSUME Head(t).do = "isPlaying", NEW n \in Seq(Neutral)
        PROVE  Going(op, cut, Tail(t) \o n, Q, m, lost)
    <3>1. Tail(t) \o n \in Seq(Calm)
      <4>1. n \in Seq(Calm) BY NeutralCalm
      <4>2. QED BY <2>1, <4>1, ConcatProperties
    <3>2. Settles(t, Q, L) => Settles(Tail(t) \o n, Q, m.list) BY <1>3, <2>1, <2>5, CommandSettles
    <3>3. QED BY <2>3, <3>1, <3>2
  <2>6. QED BY <1>3, <2>2, <2>4, <2>5 DEF m
<1>6. CASE op.name # "remove" /\ op.name \notin Edits
  <2>1. t \in Seq(Neutral) /\ Head(t) \in Neutral /\ Tail(t) \in Seq(Neutral) BY <1>1, <1>6, HeadTailProperties
  <2>2. Head(t).do \in {"unpause", "pause", "volume", "get", "position"} BY <2>1, CalmKinds, NeutralCalm
  <2>3. m.list = L BY <1>3, <2>2 DEF Listed
  <2>4. Tail(t) \in Bodies(op) /\ EntryThere(op, Tail(t), Q, m.list) BY <1>6, <2>1 DEF Bodies, EntryThere
  <2>5. Whole(op, cut) /\ InStep(op, m, lost) => SettlesFor(op, Tail(t), Q, m.list)
    BY <1>1, <1>2, <1>6, <2>3 DEF SettlesFor
  <2>6. Going(op, cut, Tail(t), Q, m, lost) BY <2>4, <2>5, BodyGoing
  <2>7. QED BY <1>3, <2>2, <2>3, <2>6 DEF m
<1>7. QED BY <1>4, <1>5, <1>6

LEMMA ProcessTypes ==
    ASSUME NEW m \in Processes
    PROVE  /\ m.list \in Seq(Tracks) /\ m.up \in BOOLEAN
           /\ m.up => m = [up |-> TRUE, list |-> m.list]
           /\ ~m.up => m = Down
<1>1. CASE m = Down
  <2>1. << >> \in Seq(Tracks) /\ Down.list = << >> /\ Down.up = FALSE BY DEF Down
  <2>2. m.list = << >> /\ m.up = FALSE BY <1>1, <2>1
  <2>3. QED BY <1>1, <2>1, <2>2
<1>2. CASE m \in [up : {TRUE}, list : Seq(Tracks)] BY <1>2
<1>3. QED BY <1>1, <1>2 DEF Processes

LEMMA QueueGoing ==
    ASSUME NEW op \in OpTypes, NEW cut \in BOOLEAN, NEW t, t # << >>, NEW Q \in Seq(Tracks),
           NEW m \in Processes, NEW lost \in BOOLEAN,
           Going(op, cut, t, Q, m, lost), Head(t).do \in Local
    PROVE  /\ Head(t).do = "assign" =>
                 Head(t).entries \in Seq(Tracks) /\ Going(op, cut \/ FALSE, Tail(t), Head(t).entries, m, lost)
           /\ Head(t).do = "extend" =>
                 /\ Q \o Head(t).entries \in Seq(Tracks)
                 /\ Going(op, cut \/ FALSE, Tail(t), Q \o Head(t).entries, m, lost)
           /\ Head(t).do = "delete" =>
                 /\ RemoveAt(Q, Head(t).index + 1) \in Seq(Tracks)
                 /\ Going(op, cut \/ FALSE, Tail(t), RemoveAt(Q, Head(t).index + 1), m, lost)
           /\ Head(t).do = "shuffle" =>
                 \A P \in Seq(Tracks) : Going(op, cut \/ FALSE, Tail(t), P, m, lost)
           /\ Head(t).do = "appendAll" => Going(op, cut \/ FALSE, Appends(Q) \o Tail(t), Q, m, lost)
<1>1. m.list \in Seq(Tracks) BY ProcessTypes
<1>2. (cut \/ FALSE) = cut OBVIOUS
<1>3. Head(t).do # "ready" BY DEF Local
<1>4. CASE op.name = "remove"
  <2> DEFINE i == op.index
             P == RemoveAt(Q, i + 1)
  <2>1. i \in Nat /\ t = Deletion(i) /\ Head(t) = At("delete", i) /\ Tail(t) = << >>
    <3>1. op.index \in Nat => At("mpvRemove", op.index).do \notin Local BY DEF At, Local
    <3>2. QED BY <1>3, <1>4, <3>1, BodyLeft
  <2>2. Head(t).do = "delete" /\ Head(t).index = i BY <2>1, IndexedCommands
  <2>3. i < Len(Q) BY <1>3, <1>4, <2>1, BodyLeft DEF EntryThere
  <2>4. P \in Seq(Tracks) BY <2>1, <2>3, RemoveAtType
  <2>5. Deletion(i) # Removal(i) /\ Deletion(i) # << >> /\ Removal(i) # << >>
    <3>1. At("delete", i) # At("mpvRemove", i) BY <2>1, IndexedCommands
    <3>2. QED BY <2>1, <3>1, RemovalParts
  <2>6. << >> \in Bodies(op) /\ EntryThere(op, << >>, P, m.list) BY <1>4, <2>5 DEF Bodies, EntryThere
  <2>7. Whole(op, cut) /\ InStep(op, m, lost) => SettlesFor(op, << >>, P, m.list)
    <3> SUFFICES ASSUME Whole(op, cut), InStep(op, m, lost) PROVE SettlesFor(op, << >>, P, m.list)
      OBVIOUS
    <3>1. SettlesFor(op, Deletion(i), Q, m.list) BY <1>3, <2>1, BodyLeft
    <3>2. m.list = P BY <1>4, <3>1 DEF SettlesFor
    <3>3. QED BY <1>4, <2>5, <3>2 DEF SettlesFor
  <2>8. Going(op, cut, << >>, P, m, lost) BY <2>6, <2>7, BodyGoing
  <2>9. QED BY <1>2, <2>1, <2>2, <2>4, <2>8
<1>5. CASE op.name # "remove" /\ op.name \in Edits
  <2>1. /\ t \in Seq(Calm)
        /\ Whole(op, cut) /\ InStep(op, m, lost) => SettlesFor(op, t, Q, m.list)
    BY <1>3, <1>5, BodyLeft
  <2>2. Head(t) \in Calm /\ Tail(t) \in Seq(Calm) BY <2>1, HeadTailProperties
  <2>3. ASSUME NEW u \in Seq(Calm), NEW P, Settles(t, Q, m.list) => Settles(u, P, m.list)
        PROVE  Going(op, cut, u, P, m, lost)
    <3>1. u \in Bodies(op) /\ EntryThere(op, u, P, m.list) BY <1>5 DEF Bodies, EntryThere
    <3>2. Whole(op, cut) /\ InStep(op, m, lost) => SettlesFor(op, u, P, m.list)
      BY <1>5, <2>1, <2>3 DEF SettlesFor
    <3>3. QED BY <3>1, <3>2, BodyGoing
  <2>4. Head(t).do = "assign" =>
          Head(t).entries \in Seq(Tracks) /\ Going(op, cut, Tail(t), Head(t).entries, m, lost)
    BY <1>1, <2>1, <2>2, <2>3, QueueSettles, CalmKinds
  <2>5. ASSUME Head(t).do = "extend"
        PROVE  /\ Q \o Head(t).entries \in Seq(Tracks)
               /\ Going(op, cut, Tail(t), Q \o Head(t).entries, m, lost)
    <3>1. Head(t).entries \in Seq(Tracks) BY <2>2, <2>5, CalmKinds
    <3>2. Q \o Head(t).entries \in Seq(Tracks) BY <3>1, ConcatProperties
    <3>3. Settles(t, Q, m.list) => Settles(Tail(t), Q \o Head(t).entries, m.list)
      BY <1>1, <2>1, <2>5, QueueSettles
    <3>4. QED BY <2>2, <2>3, <3>2, <3>3
  <2>6. Head(t).do # "delete" BY <2>2, CalmKinds
  <2>7. ASSUME Head(t).do = "shuffle", NEW P \in Seq(Tracks) PROVE Going(op, cut, Tail(t), P, m, lost)
    <3>1. Settles(t, Q, m.list) => Settles(Tail(t), P, m.list) BY <1>1, <2>1, <2>7, QueueSettles
    <3>2. QED BY <2>2, <2>3, <3>1
  <2>8. ASSUME Head(t).do = "appendAll" PROVE Going(op, cut, Appends(Q) \o Tail(t), Q, m, lost)
    <3>1. Appends(Q) \o Tail(t) \in Seq(Calm) BY <2>2, AppendsType, ConcatProperties
    <3>2. Settles(t, Q, m.list) => Settles(Appends(Q) \o Tail(t), Q, m.list) BY <1>1, <2>1, <2>8, QueueSettles
    <3>3. QED BY <2>3, <3>1, <3>2
  <2>9. QED BY <1>2, <2>4, <2>5, <2>6, <2>7, <2>8
<1>6. CASE op.name # "remove" /\ op.name \notin Edits
  <2>1. t \in Seq(Neutral) BY <1>3, <1>6, BodyLeft
  <2>2. Head(t) \in Neutral BY <2>1, HeadTailProperties
  <2>3. QED BY <2>2, CalmKinds, NeutralCalm
<1>7. QED BY <1>4, <1>5, <1>6

(* What is left after an exception.                                         *)
Handled(op, t) ==
    IF op.name = "clear" THEN <<Load("assign", << >>)>>
    ELSE IF Head(t).do = "isPlaying" THEN Append(Tail(t), Do("pause"))
    ELSE << >>

LEMMA LastAssign ==
    /\ <<Load("assign", << >>)>> \in Seq(Calm) /\ << >> \in Seq(Calm)
    /\ <<Load("assign", << >>)>> = Cons(Load("assign", << >>), << >>)
<1>1. << >> \in Seq(Tracks) /\ << >> \in Seq(Calm) OBVIOUS
<1>2. Load("assign", << >>) \in Calm BY <1>1 DEF Load, Calm
<1>3. <<Load("assign", << >>)>> \in Seq(Calm) BY <1>2
<1>4. QED BY <1>1, <1>3, ConcatEmptySeq DEF Cons

LEMMA HandledType ==
    ASSUME NEW op, NEW t, Tail(t) \in Seq(Commands)
    PROVE  Handled(op, t) \in Seq(Commands)
<1>1. <<Load("assign", << >>)>> \in Seq(Commands) /\ << >> \in Seq(Commands) BY LastAssign, CalmCommands
<1>2. Do("pause") \in Commands BY PlainCalm, CalmCommands
<1>3. Append(Tail(t), Do("pause")) \in Seq(Commands) BY <1>2, AppendProperties
<1>4. QED BY <1>1, <1>3 DEF Handled

LEMMA HandlerGoing ==
    ASSUME NEW op \in OpTypes, NEW cut \in BOOLEAN, NEW t, t # << >>, NEW Q,
           NEW m \in Processes, NEW lost, NEW l \in {m, Down},
           Going(op, cut, t, Q, m, lost), Head(t).do \notin Local
    PROVE  Going(op, cut \/ TRUE, Handled(op, t), Q, l, lost)
<1> DEFINE h == Handled(op, t)
<1>1. (cut \/ TRUE) = TRUE OBVIOUS
<1>2. CASE op.name = "remove"
  <2>1. op.index \in Nat BY <1>2, OpKinds
  <2>2. Head(t).do # "isPlaying"
    <3> SUFFICES ASSUME Head(t).do = "isPlaying" PROVE FALSE OBVIOUS
    <3>1. Head(t).do # "ready" OBVIOUS
    <3>2. Head(t) \in {At("mpvRemove", op.index), At("delete", op.index)} BY <1>2, <3>1, BodyLeft
    <3>3. QED BY <2>1, <3>2, IndexedCommands
  <2>3. h = << >> BY <1>2, <2>2 DEF Handled
  <2>4. EntryThere(op, << >>, Q, l.list) /\ << >> \in Bodies(op) BY <1>2, <2>1, RemovalParts DEF EntryThere, Bodies
  <2>5. ~Whole(op, TRUE) BY <1>2 DEF Whole, Edits
  <2>6. QED BY <1>1, <2>3, <2>4, <2>5, BodyGoing
<1>3. CASE op.name # "remove" /\ op.name \in Edits
  <2>1. h \in Seq(Calm)
    <3>1. CASE op.name = "clear" BY <3>1, LastAssign DEF Handled
    <3>2. CASE op.name # "clear" /\ Head(t).do = "isPlaying"
      <4>1. t \in Seq(Calm)
        <5>1. Head(t).do # "ready" BY <3>2
        <5>2. QED BY <1>3, <5>1, BodyLeft
      <4>2. Tail(t) \in Seq(Calm) BY <4>1, HeadTailProperties
      <4>3. Append(Tail(t), Do("pause")) \in Seq(Calm) BY <4>2, PlainCalm, AppendProperties
      <4>4. QED BY <3>2, <4>3 DEF Handled
    <3>3. CASE op.name # "clear" /\ Head(t).do # "isPlaying" BY <3>3, LastAssign DEF Handled
    <3>4. QED BY <3>1, <3>2, <3>3
  <2>2. h \in Bodies(op) /\ EntryThere(op, h, Q, l.list) BY <1>3, <2>1 DEF Bodies, EntryThere
  <2>3. ~Whole(op, TRUE) BY <1>3 DEF Whole
  <2> HIDE DEF h
  <2>4. Going(op, TRUE, h, Q, l, lost) BY <2>2, <2>3, BodyGoing
  <2>5. QED BY <1>1, <2>4 DEF h
<1>4. CASE op.name # "remove" /\ op.name \notin Edits
  <2>1. h = << >>
    <3>1. Head(t).do # "isPlaying"
      <4> SUFFICES ASSUME Head(t).do = "isPlaying" PROVE FALSE OBVIOUS
      <4>1. t \in Seq(Neutral)
        <5>1. Head(t).do # "ready" OBVIOUS
        <5>2. QED BY <1>4, <5>1, BodyLeft
      <4>2. Head(t) \in Neutral BY <4>1, HeadTailProperties
      <4>3. QED BY <4>2, CalmKinds, NeutralCalm
    <3>2. op.name # "clear" BY <1>4 DEF Edits
    <3>3. QED BY <3>1, <3>2 DEF Handled
  <2>2. << >> \in Bodies(op) /\ EntryThere(op, << >>, Q, l.list)
    <3>1. << >> \in Seq(Neutral) OBVIOUS
    <3>2. QED BY <1>4, <3>1 DEF Bodies, EntryThere
  <2>3. InStep(op, l, lost) => SettlesFor(op, << >>, Q, l.list)
    <3> SUFFICES ASSUME InStep(op, l, lost) PROVE Q = l.list BY <1>4 DEF SettlesFor
    <3>1. l = m BY DEF InStep, Down
    <3>2. PICK s \in Bodies(op) : GoesOnWith(op, cut, t, Q, m, lost, s) BY GoingBy
    <3>3. SettlesFor(op, s, Q, m.list) BY <1>4, <3>1, <3>2 DEF GoesOnWith, Whole
    <3>4. QED BY <1>4, <3>1, <3>3 DEF SettlesFor
  <2>4. QED BY <1>1, <2>1, <2>2, <2>3, BodyGoing
<1>5. QED BY <1>2, <1>3, <1>4

LEMMA GoingEnds ==
    ASSUME NEW op \in OpTypes, NEW cut, NEW Q \in Seq(Tracks), NEW m \in Processes, NEW lost,
           Going(op, cut, << >>, Q, m, lost), Whole(op, cut), InStep(op, m, lost)
    PROVE  Q = m.list
<1>1. PICK s \in Bodies(op) : GoesOnWith(op, cut, << >>, Q, m, lost, s) BY GoingBy
<1>2. s = << >>
  <2>1. s \in Seq(Commands) BY BodyTypes
  <2>2. Cons(Do("ready"), s) # << >> BY <2>1, CalmCommands, ConsIs
  <2>3. QED BY <1>1, <2>2 DEF GoesOnWith
<1>3. SettlesFor(op, << >>, Q, m.list) BY <1>1, <1>2 DEF GoesOnWith
<1>4. m.list \in Seq(Tracks) BY ProcessTypes
<1>5. QED BY <1>3, <1>4, AllDone DEF SettlesFor

-----------------------------------------------------------------------------
(* An operation begins.                                                     *)
LEMMA Single ==
    ASSUME NEW S, NEW a \in S
    PROVE  <<a>> \in Seq(S) /\ <<a>> = Cons(a, << >>)
<1>1. << >> \in Seq(S) /\ <<a>> \in Seq(S) OBVIOUS
<1>2. QED BY <1>1, ConcatEmptySeq DEF Cons

LEMMA Tuples ==
    \A a, b, c \in Commands :
        /\ <<a>> \in Seq(Commands) /\ <<a, b>> \in Seq(Commands) /\ <<a, b, c>> \in Seq(Commands)
        /\ <<a>> = Cons(a, << >>) /\ <<a, b>> = Cons(a, <<b>>) /\ <<a, b, c>> = Cons(a, <<b, c>>)
<1> SUFFICES ASSUME NEW a \in Commands, NEW b \in Commands, NEW c \in Commands
             PROVE  /\ <<a>> \in Seq(Commands) /\ <<a, b>> \in Seq(Commands)
                    /\ <<a, b, c>> \in Seq(Commands)
                    /\ <<a>> = Cons(a, << >>) /\ <<a, b>> = Cons(a, <<b>>) /\ <<a, b, c>> = Cons(a, <<b, c>>)
  OBVIOUS
<1>1. << >> \in Seq(Commands) /\ <<a>> \in Seq(Commands) /\ <<b>> \in Seq(Commands) OBVIOUS
<1>2. /\ <<a, b>> \in Seq(Commands) /\ <<b, c>> \in Seq(Commands) /\ <<a, b, c>> \in Seq(Commands)
  OBVIOUS
<1>3. <<a>> = Cons(a, << >>) BY <1>1, ConcatEmptySeq DEF Cons
<1>4. ASSUME NEW s \in Seq(Commands), NEW u \in Seq(Commands), s # << >>, Head(s) = a, Tail(s) = u
      PROVE  s = Cons(a, u)
  BY <1>4, HeadTail
<1>5. <<a, b>> # << >> /\ Head(<<a, b>>) = a /\ Tail(<<a, b>>) = <<b>> OBVIOUS
<1>6. <<a, b, c>> # << >> /\ Head(<<a, b, c>>) = a /\ Tail(<<a, b, c>>) = <<b, c>> OBVIOUS
<1>7. QED BY <1>1, <1>2, <1>3, <1>4, <1>5, <1>6

(* Concatenation by a name, for leaves that only regroup.                   *)
Cat(s, t) == s \o t

LEMMA CatLists == \A s, t \in Seq(Commands) : Cat(s, t) \in Seq(Commands)
<1>1. ASSUME NEW s \in Seq(Commands), NEW t \in Seq(Commands) PROVE Cat(s, t) \in Seq(Commands)
  BY ConcatProperties DEF Cat
<1>2. QED BY <1>1

LEMMA CatRegroups == \A s, t, u \in Seq(Commands) : Cat(Cat(s, t), u) = Cat(s, Cat(t, u))
<1>1. ASSUME NEW s \in Seq(Commands), NEW t \in Seq(Commands), NEW u \in Seq(Commands)
      PROVE  Cat(Cat(s, t), u) = Cat(s, Cat(t, u))
  BY ConcatAssociative DEF Cat
<1>2. QED BY <1>1

LEMMA ConcatRight ==
    ASSUME NEW a \in Seq(Commands), NEW b \in Seq(Commands), NEW c \in Seq(Commands),
           NEW d \in Seq(Commands), NEW e \in Seq(Commands)
    PROVE  Cat(Cat(Cat(Cat(a, b), c), d), e) = Cat(a, Cat(b, Cat(c, Cat(d, e))))
<1>1. /\ Cat(a, b) \in Seq(Commands) /\ Cat(Cat(a, b), c) \in Seq(Commands)
      /\ Cat(d, e) \in Seq(Commands) /\ Cat(c, Cat(d, e)) \in Seq(Commands)
  BY CatLists
<1>2. QED BY <1>1, CatRegroups

LEMMA ClearsFirst ==
    ASSUME NEW s \in Seq(Calm)
    PROVE  /\ ClearMpv \in Seq(Calm)
           /\ Cons(Do("mpvStop"), Cons(Do("mpvClear"), s)) \in Seq(Calm)
           /\ ClearMpv \o s = Cons(Do("mpvStop"), Cons(Do("mpvClear"), s))
           /\ Refills(s) => Stops(ClearMpv \o s)
<1> DEFINE a == Do("mpvStop")
           b == Do("mpvClear")
<1>1. a \in Calm /\ b \in Calm BY PlainCalm
<1>2. ClearMpv = <<a, b>> BY DEF ClearMpv
<1> HIDE DEF a, b
<1>3. ClearMpv \in Seq(Calm) /\ ClearMpv = Cons(a, <<b>>) /\ <<b>> = Cons(b, << >>) /\ <<b>> \in Seq(Calm)
  <2>1. <<a, b>> \in Seq(Calm) /\ <<b>> \in Seq(Calm) BY <1>1
  <2>2. a \in Commands /\ b \in Commands BY <1>1, CalmCommands
  <2>3. QED BY <1>2, <2>1, <2>2, Tuples
<1>4. << >> \in Seq(Calm) OBVIOUS
<1>5. Cons(b, s) \in Seq(Calm) /\ Cons(a, Cons(b, s)) \in Seq(Calm) BY <1>1, ConsIs
<1>6. ClearMpv \o s = Cons(a, <<b>> \o s) BY <1>1, <1>3, ConsConcat
<1>7. <<b>> \o s = Cons(b, s) BY DEF Cons
<1>8. Refills(s) => Stops(Cons(a, Cons(b, s))) BY <1>5 DEF Stops, Clears, a, b
<1>9. QED BY <1>3, <1>5, <1>6, <1>7, <1>8 DEF a, b

LEMMA ReadyBegins ==
    ASSUME NEW op \in OpTypes, NEW s \in Bodies(op), NEW t, t = Cons(Do("ready"), s),
           NEW Q, NEW m, NEW lost, NEW cut,
           op.name = "remove" => s = Removal(op.index) /\ op.index < Len(Q),
           SettlesFor(op, s, << >>, << >>),
           InStep(op, m, lost) => SettlesFor(op, s, Q, m.list)
    PROVE  t \in Seq(Commands) /\ Going(op, cut, t, Q, m, lost)
<1>1. s \in Seq(Commands) BY BodyTypes
<1>2. t \in Seq(Commands) BY <1>1, CalmCommands, ConsIs
<1>3. EntryThere(op, s, Q, m.list) BY DEF EntryThere
<1>4. GoesOnWith(op, cut, t, Q, m, lost, s) BY <1>3 DEF GoesOnWith
<1>5. QED BY <1>2, <1>4, GoingBy

LEMMA SetBegins ==
    ASSUME NEW es \in Seq(Tracks), NEW n \in Seq(Neutral)
    PROVE  LET s == Cons(Do("mpvStop"), Cons(Do("mpvClear"), Loads(es, Cons(Load("assign", es), n)))) IN
           /\ s \in Seq(Calm) /\ Stops(s)
           /\ <<Do("ready")>> \o ClearMpv \o Appends(es) \o <<Load("assign", es)>> \o n
                 = Cons(Do("ready"), s)
<1> DEFINE a == <<Do("ready")>>
           d == <<Load("assign", es)>>
           A == Appends(es)
           r == Cons(Load("assign", es), n)
           u == Loads(es, r)
<1>1. Load("assign", es) \in Calm /\ n \in Seq(Calm) BY NeutralCalm DEF Load, Calm
<1>2. r \in Seq(Calm) BY <1>1, ConsIs
<1>3. u \in Seq(Calm) /\ Refills(u)
  <2>1. u \in Seq(Calm) BY <1>2, LoadsType
  <2>2. QED BY <2>1 DEF Refills
<1>4. a \in Seq(Commands) BY CalmCommands
<1>5. d \in Seq(Calm) BY <1>1
<1>6. A \in Seq(Calm) BY AppendsType
<1>7. ClearMpv \in Seq(Calm) BY <1>3, ClearsFirst
<1>8. d \o n = r BY DEF Cons
<1>9. A \o r = u BY DEF Loads
<1> HIDE DEF a, d, A, r, u
<1>10. (((a \o ClearMpv) \o A) \o d) \o n = a \o (ClearMpv \o (A \o (d \o n)))
  <2>1. /\ ClearMpv \in Seq(Commands) /\ A \in Seq(Commands) /\ d \in Seq(Commands)
        /\ n \in Seq(Commands)
    BY <1>1, <1>5, <1>6, <1>7, CalmCommands
  <2>2. Cat(Cat(Cat(Cat(a, ClearMpv), A), d), n) = Cat(a, Cat(ClearMpv, Cat(A, Cat(d, n))))
    BY <1>4, <2>1, ConcatRight
  <2>3. QED BY <2>2 DEF Cat
<1>11. (((a \o ClearMpv) \o A) \o d) \o n = a \o (ClearMpv \o u) BY <1>8, <1>9, <1>10
<1>12. ClearMpv \o u = Cons(Do("mpvStop"), Cons(Do("mpvClear"), u)) /\ ClearMpv \o u \in Seq(Calm)
       /\ Stops(ClearMpv \o u)
  BY <1>3, ClearsFirst
<1>13. QED BY <1>11, <1>12 DEF a, d, A, r, u, Cons

LEMMA AddBegins ==
    ASSUME NEW es \in Seq(Tracks)
    PROVE  LET s == Loads(es, <<Load("extend", es)>>) IN
           /\ s \in Seq(Calm) /\ \A Q \in Seq(Tracks) : Settles(s, Q, Q)
           /\ <<Do("ready")>> \o Appends(es) \o <<Load("extend", es)>> = Cons(Do("ready"), s)
<1> DEFINE c == Load("extend", es)
           s == Loads(es, <<c>>)
<1>1. c \in Calm BY DEF Load, Calm
<1>2. <<c>> \in Seq(Calm) /\ <<c>> = Cons(c, << >>) BY <1>1, Single
<1>3. s \in Seq(Calm) BY <1>2, LoadsType
<1>4. ASSUME NEW Q \in Seq(Tracks) PROVE Settles(s, Q, Q)
  <2>1. EndsAlike(<<c>>, Q, Q \o es) BY <1>2 DEF EndsAlike
  <2>2. Loading(s, Q, Q) BY <1>2, <2>1 DEF Loading
  <2>3. QED BY <2>2 DEF Settles
<1>5. <<Do("ready")>> \o Appends(es) \o <<c>> = Cons(Do("ready"), s)
  <2>1. Appends(es) \in Seq(Commands) /\ <<c>> \in Seq(Commands) /\ <<Do("ready")>> \in Seq(Commands)
    BY <1>2, AppendsType, CalmCommands
  <2>2. QED BY <2>1, ConcatAssociative DEF Loads, Cons
<1>6. QED BY <1>3, <1>4, <1>5

LEMMA ShuffleBegins ==
    LET s == Cons(Do("isPlaying"), Shuffling(<< >>)) IN
    /\ s \in Seq(Calm) /\ \A Q, L \in Seq(Tracks) : Settles(s, Q, L)
    /\ <<Do("ready"), Do("isPlaying"), Do("shuffle")>> \o ClearMpv \o <<Do("appendAll")>> = Cons(Do("ready"), s)
<1> DEFINE a == Do("ready")
           b == Do("isPlaying")
           c == Do("shuffle")
           d == Do("appendAll")
           u == ClearMpv \o <<d>>
<1>1. << >> \in Seq(Neutral) /\ << >> \in Seq(Calm) OBVIOUS
<1>2. a \in Commands /\ b \in Calm /\ c \in Calm /\ d \in Calm BY PlainCalm, CalmCommands
<1>3. Shuffling(<< >>) \in Seq(Calm) BY <1>1, ShufflingType
<1>4. Cons(b, Shuffling(<< >>)) \in Seq(Calm) BY <1>2, <1>3, ConsIs
<1>5. <<d>> \in Seq(Calm) /\ <<d>> = Cons(d, << >>) BY <1>2, Single
<1>6. u = Cons(Do("mpvStop"), Cons(Do("mpvClear"), <<d>>)) /\ u \in Seq(Calm) /\ ClearMpv \in Seq(Calm)
  BY <1>5, ClearsFirst
<1>7. Cons(c, u) = Shuffling(<< >>) BY <1>5, <1>6 DEF Shuffling
<1>8. <<a, b, c>> \o ClearMpv \o <<d>> = Cons(a, Cons(b, Cons(c, u)))
  <2>1. b \in Commands /\ c \in Commands /\ <<d>> \in Seq(Commands)
        /\ ClearMpv \in Seq(Commands) /\ u \in Seq(Commands)
    BY <1>2, <1>5, <1>6, CalmCommands
  <2> HIDE DEF a, b, c, d
  <2>2. <<a, b, c>> \in Seq(Commands) /\ <<b, c>> \in Seq(Commands) /\ <<c>> \in Seq(Commands)
        /\ <<a, b, c>> = Cons(a, <<b, c>>) /\ <<b, c>> = Cons(b, <<c>>)
    BY <1>2, <2>1, Tuples
  <2>3. (<<a, b, c>> \o ClearMpv) \o <<d>> = <<a, b, c>> \o u BY <2>1, <2>2, ConcatAssociative
  <2> HIDE DEF u
  <2>4. <<a>> \in Seq(Commands) /\ <<b>> \in Seq(Commands) BY <1>2, <2>1
  <2> DEFINE x == <<a>>
             y == <<b>>
             z == <<c>>
  <2>5. <<a, b, c>> = Cat(x, Cat(y, z)) BY <2>2 DEF Cons, Cat
  <2>6. Cat(Cat(x, Cat(y, z)), u) = Cat(x, Cat(y, Cat(z, u)))
    <3>1. x \in Seq(Commands) /\ y \in Seq(Commands) /\ z \in Seq(Commands) BY <2>2, <2>4
    <3> HIDE DEF x, y, z
    <3>2. Cat(y, z) \in Seq(Commands) BY <3>1, CatLists
    <3>3. Cat(Cat(x, Cat(y, z)), u) = Cat(x, Cat(Cat(y, z), u)) BY <2>1, <3>1, <3>2, CatRegroups
    <3>4. Cat(Cat(y, z), u) = Cat(y, Cat(z, u)) BY <2>1, <3>1, CatRegroups
    <3>5. QED BY <3>3, <3>4
  <2>7. <<a, b, c>> \o u = Cons(a, Cons(b, Cons(c, u))) BY <2>5, <2>6 DEF Cat, Cons
  <2>8. QED BY <2>3, <2>7
<1>9. QED BY <1>4, <1>7, <1>8 DEF Settles

LEMMA NothingBegins ==
    ASSUME NEW op \in OpTypes, op.name \notin {"set", "clear"}, NEW Q \in Seq(Tracks), NEW m \in Processes,
           NEW lost \in BOOLEAN, m.up /\ ~lost => Q = m.list, NEW cut
    PROVE  << >> \in Seq(Commands) /\ Going(op, cut, << >>, Q, m, lost)
<1>1. << >> \in Seq(Commands) /\ << >> \in Seq(Calm) /\ << >> \in Seq(Neutral) OBVIOUS
<1>2. << >> \in Bodies(op) BY <1>1 DEF Bodies
<1>3. EntryThere(op, << >>, Q, m.list)
  <2>1. op.name = "remove" => op.index \in Nat BY OpKinds
  <2>2. QED BY <2>1, RemovalParts DEF EntryThere
<1>4. InStep(op, m, lost) => Q = m.list BY DEF InStep
<1>5. Q = m.list => SettlesFor(op, << >>, Q, m.list)
  <2>1. op.name = "remove" => op.index \in Nat /\ << >> # Deletion(op.index) BY OpKinds, RemovalParts
  <2>2. Q = m.list => Loading(<< >>, Q, m.list) BY <1>1, LoadingNothing
  <2>3. QED BY <2>1, <2>2 DEF SettlesFor, Settles
<1>6. Going(op, cut, << >>, Q, m, lost) BY <1>2, <1>3, <1>4, <1>5, BodyGoing
<1>7. QED BY <1>1, <1>6

LEMMA PlainBegins ==
    ASSUME NEW op \in OpTypes, op.name \notin Edits, NEW s \in Seq(Neutral),
           NEW t \in {s, Cons(Do("ready"), s)},
           NEW Q \in Seq(Tracks), NEW m \in Processes, NEW lost \in BOOLEAN, m.up /\ ~lost => Q = m.list, NEW cut
    PROVE  t \in Seq(Commands) /\ Going(op, cut, t, Q, m, lost)
<1>1. op.name \notin {"remove", "set", "clear"} BY DEF Edits
<1>2. s \in Bodies(op) BY <1>1 DEF Bodies
<1>3. InStep(op, m, lost) => SettlesFor(op, s, Q, m.list) BY <1>1 DEF InStep, SettlesFor
<1>4. CASE t = s
  <2>1. EntryThere(op, s, Q, m.list) BY <1>1 DEF EntryThere
  <2>2. Going(op, cut, s, Q, m, lost) BY <1>2, <1>3, <2>1, BodyGoing
  <2>3. QED BY <1>2, <1>4, <2>2, BodyTypes
<1>5. CASE t = Cons(Do("ready"), s)
  <2>1. SettlesFor(op, s, << >>, << >>) BY <1>2, EmptySettles
  <2>2. QED BY <1>1, <1>2, <1>3, <1>5, <2>1, ReadyBegins
<1>6. QED BY <1>4, <1>5

LEMMA EditBegins ==
    ASSUME NEW op \in OpTypes, op.name \in {"set", "add", "shuffle"}, NEW s \in Seq(Calm),
           NEW t, t = Cons(Do("ready"), s),
           NEW Q \in Seq(Tracks), NEW m \in Processes, NEW lost \in BOOLEAN, m.up /\ ~lost => Q = m.list, NEW cut,
           \A P \in Seq(Tracks) : Settles(s, P, P),
           op.name = "set" => \A P, L \in Seq(Tracks) : Settles(s, P, L)
    PROVE  t \in Seq(Commands) /\ Going(op, cut, t, Q, m, lost)
<1>1. << >> \in Seq(Tracks) /\ m.list \in Seq(Tracks) BY ProcessTypes
<1>2. op.name # "remove" /\ op.name \in Edits /\ s \in Bodies(op) BY DEF Edits, Bodies
<1>3. SettlesFor(op, s, << >>, << >>) BY <1>1, <1>2 DEF SettlesFor
<1>4. InStep(op, m, lost) => SettlesFor(op, s, Q, m.list) BY <1>1, <1>2 DEF InStep, SettlesFor
<1>5. QED BY <1>2, <1>3, <1>4, ReadyBegins

LEMMA StopsSettle ==
    ASSUME NEW s, Stops(s) PROVE \A P, L \in Seq(Tracks) : Settles(s, P, L)
BY DEF Settles

LEMMA BeginGoing ==
    ASSUME NEW op \in OpTypes, NEW p, songs[p] \in Seq(Tracks), mpv[p] \in Processes,
           NEW lost \in BOOLEAN, mpv[p].up /\ ~lost => songs[p] = mpv[p].list
    PROVE  Program(op, p) \in Seq(Commands) /\ Going(op, FALSE, Program(op, p), songs[p], mpv[p], lost)
<1> DEFINE Q == songs[p]
           m == mpv[p]
           G(t) == t \in Seq(Commands) /\ Going(op, FALSE, t, Q, m, lost)
<1>1. Q \in Seq(Tracks) /\ m \in Processes /\ (m.up /\ ~lost => Q = m.list) OBVIOUS
<1>2. ASSUME op.name \notin {"set", "clear"} PROVE G(<< >>)
  <2> HIDE DEF Q, m
  <2>1. QED BY <1>1, <1>2, NothingBegins
<1>3. ASSUME op.name \notin Edits, NEW s \in Seq(Neutral), NEW t \in {s, Cons(Do("ready"), s)} PROVE G(t)
  <2> HIDE DEF Q, m
  <2>1. QED BY <1>1, <1>3, PlainBegins
<1>4. ASSUME NEW s \in Seq(Calm), op.name \in {"set", "add", "shuffle"},
             \A P \in Seq(Tracks) : Settles(s, P, P),
             op.name = "set" => \A P, L \in Seq(Tracks) : Settles(s, P, L)
      PROVE  G(Cons(Do("ready"), s))
  <2> HIDE DEF Q, m
  <2>1. QED BY <1>1, <1>4, EditBegins
<1>5. Do("unpause") \in Neutral /\ Do("pause") \in Neutral /\ Do("volume") \in Neutral /\ Do("get") \in Neutral
  BY DEF Do, Neutral
<1>6. ASSUME NEW i \in Nat PROVE PlayFrom(i) \in Seq(Neutral) BY <1>5, IndexedCommands DEF PlayFrom
<1>7. ASSUME NEW c \in Neutral PROVE <<c>> \in Seq(Neutral) OBVIOUS
<1>8. ASSUME NEW c \in Neutral PROVE <<Do("ready"), c>> = Cons(Do("ready"), <<c>>)
  BY NeutralCalm, CalmCommands, Tuples
<1>9. CASE op.name = "set"
  <2> DEFINE es == op.entries
             n == IF es = << >> THEN << >> ELSE PlayFrom(0)
             s == Cons(Do("mpvStop"), Cons(Do("mpvClear"), Loads(es, Cons(Load("assign", es), n))))
  <2>1. es \in Seq(Tracks) BY <1>9, OpKinds
  <2>2. n \in Seq(Neutral)
    <3>1. << >> \in Seq(Neutral) OBVIOUS
    <3>2. QED BY <1>6, <3>1
  <2>3. Program(op, p) = <<Do("ready")>> \o ClearMpv \o Appends(es) \o <<Load("assign", es)>> \o n
    BY <1>9 DEF Program
  <2> HIDE DEF es, n
  <2>4. s \in Seq(Calm) /\ Stops(s) /\ Program(op, p) = Cons(Do("ready"), s) BY <2>1, <2>2, <2>3, SetBegins
  <2> HIDE DEF s
  <2>5. \A P, L \in Seq(Tracks) : Settles(s, P, L) BY <2>4, StopsSettle
  <2>6. G(Cons(Do("ready"), s)) BY <1>4, <1>9, <2>4, <2>5
  <2>7. QED BY <2>4, <2>6
<1>10. CASE op.name = "add"
  <2> DEFINE es == op.entries
             s == Loads(es, <<Load("extend", es)>>)
  <2>1. es \in Seq(Tracks) BY <1>10, OpKinds
  <2>2. Program(op, p) = <<Do("ready")>> \o Appends(es) \o <<Load("extend", es)>> BY <1>10 DEF Program
  <2> HIDE DEF es
  <2>3. /\ s \in Seq(Calm) /\ \A P \in Seq(Tracks) : Settles(s, P, P)
        /\ Program(op, p) = Cons(Do("ready"), s)
    BY <2>1, <2>2, AddBegins
  <2> HIDE DEF s
  <2>4. G(Cons(Do("ready"), s)) BY <1>4, <1>10, <2>3
  <2>5. QED BY <2>3, <2>4
<1>11. CASE op.name = "clear"
  <2> DEFINE a == <<Load("assign", << >>)>>
  <2>1. a \in Seq(Calm) /\ << >> \in Seq(Calm) /\ a = Cons(Load("assign", << >>), << >>) BY LastAssign
  <2>2. Program(op, p) = (IF m.up THEN ClearMpv ELSE << >>) \o a BY <1>11 DEF Program
  <2>3. ASSUME NEW s \in Seq(Calm), m.up => Stops(s) PROVE G(s)
    <3>1. s \in Bodies(op) BY <1>11 DEF Bodies, Edits
    <3>2. EntryThere(op, s, Q, m.list) BY <1>11 DEF EntryThere
    <3>3. InStep(op, m, lost) => SettlesFor(op, s, Q, m.list)
      BY <1>11, <2>3 DEF InStep, SettlesFor, Settles, Edits
    <3> HIDE DEF Q, m
    <3>4. Going(op, FALSE, s, Q, m, lost) BY <3>1, <3>2, <3>3, BodyGoing
    <3>5. QED BY <3>1, <3>4, BodyTypes
  <2>4. CASE m.up
    <3>1. Refills(a)
      <4>1. << >> \in Seq(Neutral) /\ << >> \in Seq(Tracks) OBVIOUS
      <4>2. a = Loads(<< >>, Cons(Load("assign", << >>), << >>)) BY <2>1, LoadsNone
      <4>3. QED BY <4>1, <4>2 DEF Refills
    <3>2. Stops(ClearMpv \o a) /\ ClearMpv \o a \in Seq(Calm) BY <2>1, <3>1, ClearsFirst
    <3>3. QED BY <2>2, <2>3, <2>4, <3>2
  <2>5. CASE ~m.up
    <3>1. << >> \o a = a BY <2>1, ConcatEmptySeq
    <3>2. QED BY <2>1, <2>2, <2>3, <2>5, <3>1
  <2>6. QED BY <2>4, <2>5
<1>12. CASE op.name = "remove"
  <2> DEFINE i == op.index
             s == Removal(i)
  <2>1. i \in Nat BY <1>12, OpKinds
  <2>2. CASE i < Len(Q)
    <3>1. Program(op, p) = <<Do("ready"), At("mpvRemove", i), At("delete", i)>> BY <1>12, <2>2 DEF Program
    <3>2. Program(op, p) = Cons(Do("ready"), s)
      <4>1. Do("ready") \in Commands /\ At("mpvRemove", i) \in Commands /\ At("delete", i) \in Commands
        BY <2>1, IndexedCommands, CalmCommands
      <4>2. <<Do("ready"), At("mpvRemove", i), At("delete", i)>>
              = Cons(Do("ready"), <<At("mpvRemove", i), At("delete", i)>>)
        BY <4>1, Tuples
      <4>3. <<At("mpvRemove", i), At("delete", i)>> = Cons(At("mpvRemove", i), <<At("delete", i)>>)
        BY <4>1, Tuples
      <4>4. <<At("delete", i)>> = Cons(At("delete", i), << >>) BY <4>1, Single
      <4>5. QED BY <3>1, <4>2, <4>3, <4>4 DEF Removal, Deletion
    <3>3. s \in Bodies(op) BY <1>12 DEF Bodies
    <3>4. s # Deletion(i)
      <4>1. At("delete", i) # At("mpvRemove", i) BY <2>1, IndexedCommands
      <4>2. QED BY <2>1, <4>1, RemovalParts
    <3>5. SettlesFor(op, s, << >>, << >>) BY <1>12, <3>4 DEF SettlesFor
    <3>6. InStep(op, m, lost) => SettlesFor(op, s, Q, m.list) BY <1>12, <3>4 DEF SettlesFor, InStep
    <3> HIDE DEF Q, m
    <3>7. G(Program(op, p)) BY <1>12, <2>2, <3>2, <3>3, <3>5, <3>6, ReadyBegins
    <3>8. QED BY <3>7 DEF Q, m
  <2>3. CASE ~(i < Len(Q))
    <3>1. Program(op, p) = << >> BY <1>12, <2>3 DEF Program
    <3>2. QED BY <1>2, <1>12, <3>1
  <2>4. QED BY <2>2, <2>3
<1>13. CASE op.name = "shuffle"
  <2> DEFINE s == Cons(Do("isPlaying"), Shuffling(<< >>))
  <2>1. CASE Q = << >>
    <3>1. Program(op, p) = << >> BY <1>13, <2>1 DEF Program
    <3>2. QED BY <1>2, <1>13, <3>1
  <2>2. CASE Q # << >>
    <3>1. Program(op, p) = <<Do("ready"), Do("isPlaying"), Do("shuffle")>> \o ClearMpv \o <<Do("appendAll")>>
      BY <1>13, <2>2 DEF Program
    <3>2. /\ s \in Seq(Calm) /\ \A P, L \in Seq(Tracks) : Settles(s, P, L)
          /\ Program(op, p) = Cons(Do("ready"), s)
      BY <3>1, ShuffleBegins
    <3> HIDE DEF s
    <3>3. G(Cons(Do("ready"), s)) BY <1>4, <1>13, <3>2
    <3>4. QED BY <3>2, <3>3
  <2>3. QED BY <2>1, <2>2
<1>14. ASSUME op.name \in {"start", "stop", "skip", "setGain", "status"} PROVE G(Program(op, p))
  <2>1. op.name \notin Edits /\ op.name \notin {"set", "clear"} BY <1>14 DEF Edits
  <2>2. G(<< >>) BY <1>2, <2>1
  <2>3. ASSUME NEW c \in Neutral PROVE G(<<c>>) /\ G(<<Do("ready"), c>>)
    <3>1. <<c>> \in Seq(Neutral) /\ <<Do("ready"), c>> = Cons(Do("ready"), <<c>>) BY <1>7, <1>8
    <3>2. G(<<c>>) /\ G(Cons(Do("ready"), <<c>>)) BY <1>3, <2>1, <3>1
    <3>3. QED BY <3>1, <3>2
  <2>4. CASE op.name = "start"
    <3>1. Program(op, p) \in {<< >>, <<Do("ready"), Do("unpause")>>} BY <2>4 DEF Program
    <3> HIDE DEF G
    <3>2. QED BY <1>5, <2>2, <2>3, <3>1
  <2>5. CASE op.name = "stop"
    <3>1. Program(op, p) \in {<< >>, <<Do("pause")>>} BY <2>5 DEF Program
    <3> HIDE DEF G
    <3>2. QED BY <1>5, <2>2, <2>3, <3>1
  <2>6. CASE op.name = "skip"
    <3>1. op.index \in Nat BY <2>6, OpKinds
    <3>2. Program(op, p) \in {<< >>, <<Do("ready")>> \o PlayFrom(op.index)} BY <2>6 DEF Program
    <3>3. G(Cons(Do("ready"), PlayFrom(op.index))) BY <1>3, <1>6, <2>1, <3>1
    <3>4. Cons(Do("ready"), PlayFrom(op.index)) = <<Do("ready")>> \o PlayFrom(op.index) BY DEF Cons
    <3> HIDE DEF G
    <3>5. QED BY <2>2, <3>2, <3>3, <3>4
  <2>7. CASE op.name = "setGain"
    <3>1. Program(op, p) = <<Do("ready"), Do("volume")>> BY <2>7 DEF Program
    <3> HIDE DEF G
    <3>2. QED BY <1>5, <2>3, <3>1
  <2>8. CASE op.name = "status"
    <3>1. Program(op, p) \in {<< >>, <<Do("get")>>} BY <2>8 DEF Program
    <3> HIDE DEF G
    <3>2. QED BY <1>5, <2>2, <2>3, <3>1
  <2>9. QED BY <1>14, <2>4, <2>5, <2>6, <2>7, <2>8
<1>15. QED BY <1>9, <1>10, <1>11, <1>12, <1>13, <1>14, OpKinds

-----------------------------------------------------------------------------
(* The state: requests, and the step of one that runs.                      *)
LEMMA RequestKinds ==
    ASSUME NEW q \in RequestStates
    PROVE  /\ q.pc \in {"idle", "asked", "return", "has", "runs"}
           /\ q.pc # "idle" => q.op \in OpTypes
           /\ q.pc = "asked" => q.backend \in Backends
           /\ q.pc \in {"has", "runs"} => q.player \in Players
           /\ q.pc = "runs" =>
                 /\ q.todo \in Seq(Commands) /\ q.cut \in BOOLEAN
                 /\ q = [pc |-> "runs", op |-> q.op, player |-> q.player, todo |-> q.todo, cut |-> q.cut]
BY DEF RequestStates, AtRest

RunRecord(op, player, todo, cut) == [pc |-> "runs", op |-> op, player |-> player, todo |-> todo, cut |-> cut]
Edited(q, todo, cut)             == [q EXCEPT !.todo = todo, !.cut = cut]

LEMMA RunEdited ==
    ASSUME NEW op, NEW player, NEW todo, NEW cut, NEW T, NEW c
    PROVE  Edited(RunRecord(op, player, todo, cut), T, c) = RunRecord(op, player, T, c)
<1> DEFINE old  == RunRecord(op, player, todo, cut)
           half == RunRecord(op, player, T, cut)
           new  == RunRecord(op, player, T, c)
<1>1. [old EXCEPT !.todo = T] = half BY DEF RunRecord
<1>2. [half EXCEPT !.cut = c] = new BY DEF RunRecord
<1>3. [[old EXCEPT !.todo = T] EXCEPT !.cut = c] = [old EXCEPT !.todo = T, !.cut = c] BY DEF RunRecord
<1> HIDE DEF old, half, new
<1>4. [old EXCEPT !.todo = T, !.cut = c] = new BY <1>1, <1>2, <1>3
<1>5. QED BY <1>4 DEF old, new, Edited

Process(up, list) == [up |-> up, list |-> list]
Relisted(m, l)    == [m EXCEPT !.list = l]

LEMMA ListEdited ==
    ASSUME NEW up, NEW list, NEW l
    PROVE  Relisted(Process(up, list), l) = Process(up, l)
BY DEF Process, Relisted

LEMMA GoesIs ==
    ASSUME thread \in [Clients -> RequestStates], NEW r \in Clients, thread[r].pc = "runs",
           NEW T \in Seq(Commands), NEW c \in BOOLEAN, Goes(r, T, c)
    PROVE  /\ thread' \in [Clients -> RequestStates]
           /\ thread'[r].pc = "runs" /\ thread'[r].op = thread[r].op /\ thread'[r].player = thread[r].player
           /\ thread'[r].todo = T /\ thread'[r].cut = (thread[r].cut \/ c)
           /\ \A s \in Clients \ {r} : thread'[s] = thread[s]
<1> DEFINE q == thread[r]
           new == [pc |-> "runs", op |-> q.op, player |-> q.player, todo |-> T, cut |-> q.cut \/ c]
<1>1. /\ q.op \in OpTypes /\ q.player \in Players /\ q.cut \in BOOLEAN
      /\ q = [pc |-> "runs", op |-> q.op, player |-> q.player, todo |-> q.todo, cut |-> q.cut]
  BY RequestKinds
<1>2. thread' = [thread EXCEPT ![r] = new]
  <2>1. thread' = [thread EXCEPT ![r].todo = T, ![r].cut = thread[r].cut \/ c] BY DEF Goes
  <2>2. [thread EXCEPT ![r].todo = T, ![r].cut = thread[r].cut \/ c]
          = [thread EXCEPT ![r] = [q EXCEPT !.todo = T, !.cut = q.cut \/ c]]
    OBVIOUS
  <2>3. [q EXCEPT !.todo = T, !.cut = q.cut \/ c] = new
    <3> DEFINE d == q.cut \/ c
    <3>1. q = RunRecord(q.op, q.player, q.todo, q.cut) BY <1>1 DEF RunRecord
    <3> HIDE DEF d, q
    <3>2. Edited(q, T, d) = RunRecord(q.op, q.player, T, d) BY <3>1, RunEdited
    <3>3. QED BY <3>2 DEF d, Edited, RunRecord
  <2>4. QED BY <2>1, <2>2, <2>3
<1>3. new \in RequestStates
  <2>1. q.cut \/ c \in BOOLEAN BY <1>1
  <2>2. QED BY <1>1, <2>1 DEF RequestStates
<1>4. /\ new.pc = "runs" /\ new.op = q.op /\ new.player = q.player
      /\ new.todo = T /\ new.cut = (q.cut \/ c)
  OBVIOUS
<1> HIDE DEF new
<1>5. thread'[r] = new /\ thread' \in [Clients -> RequestStates] /\ \A s \in Clients \ {r} : thread'[s] = thread[s]
  BY <1>2, <1>3
<1>6. QED BY <1>4, <1>5

LEMMA RunStep ==
    ASSUME JukeboxIInv, NEW r \in Clients, thread[r].pc = "runs",
           kind[thread[r].player] = "server_hardware",
           NEW T \in Seq(Commands), NEW c \in BOOLEAN, Goes(r, T, c),
           NEW Q \in Seq(Tracks), songs' = [songs EXCEPT ![thread[r].player] = Q],
           NEW m \in Processes, mpv' = [mpv EXCEPT ![thread[r].player] = m],
           torn' \subseteq Players, \A q \in Players \ {thread[r].player} : q \in torn' <=> q \in torn,
           Going(thread[r].op, thread[r].cut \/ c, T, Q, m, thread[r].player \in torn'),
           UNCHANGED <<setting, current, kind, late>>
    PROVE  JukeboxIInv'
<1> DEFINE p == thread[r].player
<1> USE DEF JukeboxIInv
<1>1. p \in Players /\ thread[r].op \in OpTypes BY RequestKinds DEF JukeboxTypes
<1>2. /\ thread' \in [Clients -> RequestStates]
      /\ thread'[r].pc = "runs" /\ thread'[r].op = thread[r].op /\ thread'[r].player = p
      /\ thread'[r].todo = T /\ thread'[r].cut = (thread[r].cut \/ c)
      /\ \A s \in Clients \ {r} : thread'[s] = thread[s]
  BY GoesIs DEF JukeboxTypes
<1>3. songs' \in [Players -> Seq(Tracks)] /\ mpv' \in [Players -> Processes] BY DEF JukeboxTypes
<1>4. JukeboxTypes' BY <1>2, <1>3 DEF JukeboxTypes
<1>5. /\ songs'[p] = Q /\ mpv'[p] = m
      /\ \A q \in Players \ {p} : songs'[q] = songs[q] /\ mpv'[q] = mpv[q]
  BY <1>1 DEF JukeboxTypes
<1>6. \A s \in Clients :
         /\ thread'[s].pc = thread[s].pc
         /\ (thread[s].pc \in {"has", "runs"} => thread'[s].player = thread[s].player)
  BY <1>2
<1>7. OneAtATime' BY <1>6 DEF OneAtATime
<1>8. Held' BY <1>6 DEF Held
<1>9. Operations'
  <2> SUFFICES ASSUME NEW s \in Clients, thread'[s].pc = "runs" PROVE RunsWell(s)' BY DEF Operations
  <2>1. CASE s = r
    <3>1. Going(thread'[r].op, thread'[r].cut, thread'[r].todo, songs'[p], mpv'[p], p \in torn') BY <1>2, <1>5
    <3>2. kind'[p] = "server_hardware" OBVIOUS
    <3>3. QED BY <1>2, <2>1, <3>1, <3>2 DEF RunsWell
  <2>2. CASE s # r
    <3> DEFINE q == thread[s].player
    <3>1. thread'[s] = thread[s] /\ thread[s].pc = "runs" BY <1>2, <2>2
    <3>2. q \in Players BY <3>1, RequestKinds DEF JukeboxTypes
    <3>3. q # p BY <2>2, <3>1 DEF OneAtATime
    <3>4. songs'[q] = songs[q] /\ mpv'[q] = mpv[q] /\ (q \in torn' <=> q \in torn) BY <1>5, <3>2, <3>3
    <3>5. RunsWell(s) BY <3>1 DEF Operations
    <3>6. CASE kind[q] = "server_hardware"
      <4>1. Going(thread[s].op, thread[s].cut, thread[s].todo, songs[q], mpv[q], q \in torn) BY <3>5, <3>6 DEF RunsWell
      <4>2. (q \in torn') = (q \in torn) BY <3>4
      <4>3. Going(thread'[s].op, thread'[s].cut, thread'[s].todo, songs'[q], mpv'[q], q \in torn')
        BY <3>1, <3>4, <4>1, <4>2
      <4>4. QED BY <3>1, <3>6, <4>3 DEF RunsWell
    <3>7. CASE kind[q] # "server_hardware" BY <3>1, <3>5, <3>7 DEF RunsWell
    <3>8. QED BY <3>6, <3>7
  <2>3. QED BY <2>1, <2>2
<1>10. QueueInStep'
  <2> SUFFICES ASSUME NEW q \in Players, q \notin torn', kind[q] = "server_hardware", mpv'[q].up, ~Locked(q)'
               PROVE  songs'[q] = mpv'[q].list
    BY DEF QueueInStep
  <2>1. q # p BY <1>2 DEF Locked
  <2>2. ~Locked(q) BY <1>6 DEF Locked
  <2>3. QED BY <1>5, <2>1, <2>2 DEF QueueInStep
<1>11. ReplacedAreSilent'
  <2>1. p \in late \cup {current} BY DEF Held
  <2>2. QED BY <1>5, <2>1 DEF ReplacedAreSilent
<1>12. QED BY <1>4, <1>7, <1>8, <1>9, <1>10, <1>11

LEMMA Runner ==
    ASSUME JukeboxIInv, NEW r \in Clients, Runs(r)
    PROVE  /\ thread[r].pc = "runs" /\ thread[r].todo # << >> /\ thread[r].todo \in Seq(Commands)
           /\ Tail(thread[r].todo) \in Seq(Commands)
           /\ thread[r].op \in OpTypes /\ thread[r].cut \in BOOLEAN /\ thread[r].player \in Players
           /\ kind[thread[r].player] = "server_hardware"
           /\ songs[thread[r].player] \in Seq(Tracks) /\ mpv[thread[r].player] \in Processes
           /\ torn \subseteq Players
           /\ songs \in [Players -> Seq(Tracks)] /\ mpv \in [Players -> Processes]
           /\ Going(thread[r].op, thread[r].cut, thread[r].todo, songs[thread[r].player],
                    mpv[thread[r].player], thread[r].player \in torn)
<1>1. thread[r].pc = "runs" /\ thread[r].todo # << >> BY DEF Runs
<1>2. /\ thread[r].todo \in Seq(Commands) /\ thread[r].op \in OpTypes /\ thread[r].cut \in BOOLEAN
      /\ thread[r].player \in Players
  BY <1>1, RequestKinds DEF JukeboxIInv, JukeboxTypes
<1>3. RunsWell(r) BY <1>1 DEF JukeboxIInv, Operations
<1>4. Tail(thread[r].todo) \in Seq(Commands) BY <1>1, <1>2, HeadTailProperties
<1>5. kind[thread[r].player] = "server_hardware" BY <1>1, <1>3 DEF RunsWell
<1>6. Going(thread[r].op, thread[r].cut, thread[r].todo, songs[thread[r].player],
            mpv[thread[r].player], thread[r].player \in torn)
  BY <1>3, <1>5 DEF RunsWell
<1>7. /\ torn \subseteq Players /\ songs \in [Players -> Seq(Tracks)] /\ mpv \in [Players -> Processes]
  BY DEF JukeboxIInv, JukeboxTypes
<1>8. songs[thread[r].player] \in Seq(Tracks) /\ mpv[thread[r].player] \in Processes BY <1>2, <1>7
<1>9. QED BY <1>1, <1>2, <1>4, <1>5, <1>6, <1>7, <1>8

LEMMA ProcessStartKeeps ==
    ASSUME JukeboxIInv, NEW r \in Clients, Start(r)
    PROVE  JukeboxIInv'
<1> DEFINE p == thread[r].player
           op == thread[r].op
           t == thread[r].todo
           between == First(r) = "ready" \/ op.name \notin Edits
           T == IF Head(t).do = "ready" THEN Tail(t) ELSE t
           m == [up |-> TRUE, list |-> << >>]
           lost == p \in torn
<1>1. /\ Runs(r) /\ First(r) \notin Local /\ ~mpv[p].up
      /\ mpv' = [mpv EXCEPT ![p] = m] /\ songs' = [songs EXCEPT ![p] = << >>]
      /\ torn' = (IF between THEN torn \ {p} ELSE torn)
      /\ Goes(r, T, ~between)
      /\ UNCHANGED <<setting, current, kind, late>>
  BY DEF Start, AfterStart, First
<1>2. /\ thread[r].pc = "runs" /\ t # << >> /\ t \in Seq(Commands) /\ Tail(t) \in Seq(Commands)
      /\ op \in OpTypes /\ thread[r].cut \in BOOLEAN /\ p \in Players
      /\ kind[p] = "server_hardware" /\ songs[p] \in Seq(Tracks) /\ mpv[p] \in Processes
      /\ torn \subseteq Players
      /\ Going(op, thread[r].cut, t, songs[p], mpv[p], lost)
  BY <1>1, Runner
<1>3. mpv[p] = Down BY <1>1, <1>2, ProcessTypes
<1>4. between \in BOOLEAN /\ (~between) \in BOOLEAN /\ lost \in BOOLEAN
      /\ (between <=> Head(t).do = "ready" \/ op.name \notin Edits)
  BY DEF First
<1>5. Head(t).do \notin Local BY <1>1 DEF First
<1>6. T \in Seq(Commands) BY <1>2
<1>7. << >> \in Seq(Tracks) /\ m \in Processes BY DEF Processes
<1>8. (p \in torn') = (lost /\ ~between) BY <1>1
<1>9. torn' \subseteq Players /\ \A q \in Players \ {p} : q \in torn' <=> q \in torn BY <1>1, <1>2
<1> HIDE DEF between, lost
<1>10. Going(op, thread[r].cut \/ ~between, T, << >>, m, lost /\ ~between)
  <2> HIDE DEF op, t
  <2>1. Going(op, thread[r].cut, t, songs[p], Down, lost) BY <1>2, <1>3
  <2>2. QED BY <1>2, <1>4, <1>5, <2>1, StartGoing
<1>11. Going(op, thread[r].cut \/ ~between, T, << >>, m, p \in torn') BY <1>8, <1>10
<1>12. (~between) \in BOOLEAN BY <1>4
<1> HIDE DEF T, m
<1>13. QED BY <1>1, <1>2, <1>6, <1>7, <1>9, <1>11, <1>12, RunStep

LEMMA StartFailsKeeps ==
    ASSUME JukeboxIInv, NEW r \in Clients, StartFails(r) \/ Breaks(r)
    PROVE  JukeboxIInv'
<1> DEFINE p == thread[r].player
           op == thread[r].op
           t == thread[r].todo
           T == Handled(op, t)
           m == Down
           lost == p \in torn
<1>1. /\ Runs(r) /\ First(r) \notin Local
      /\ songs' = songs /\ torn' = torn
      /\ Goes(r, Handler(r), TRUE)
      /\ UNCHANGED <<setting, current, kind, late>>
  BY DEF StartFails, Breaks, counts, jukeboxGhosts
<1>2. /\ thread[r].pc = "runs" /\ t # << >> /\ t \in Seq(Commands) /\ Tail(t) \in Seq(Commands)
      /\ op \in OpTypes /\ thread[r].cut \in BOOLEAN /\ p \in Players
      /\ kind[p] = "server_hardware" /\ songs[p] \in Seq(Tracks) /\ mpv[p] \in Processes
      /\ torn \subseteq Players /\ songs \in [Players -> Seq(Tracks)] /\ mpv \in [Players -> Processes]
      /\ Going(op, thread[r].cut, t, songs[p], mpv[p], lost)
  BY <1>1, Runner
<1>3. mpv' = [mpv EXCEPT ![p] = Down]
  <2>1. CASE StartFails(r)
    <3>1. mpv' = mpv /\ ~mpv[p].up BY <2>1 DEF StartFails
    <3>2. mpv[p] = Down BY <1>2, <3>1, ProcessTypes
    <3>3. QED BY <1>2, <3>1, <3>2
  <2>2. CASE Breaks(r) BY <2>2 DEF Breaks
  <2>3. QED BY <2>1, <2>2
<1>4. Head(t).do \notin Local BY <1>1 DEF First
<1>5. Handler(r) = T BY DEF Handler, Handled
<1>6. T \in Seq(Commands) BY <1>2, HandledType
<1>7. Down \in Processes BY DEF Processes
<1>8. songs' = [songs EXCEPT ![p] = songs[p]] BY <1>1, <1>2
<1> HIDE DEF lost
<1>9. Going(op, thread[r].cut \/ TRUE, T, songs[p], Down, lost)
  <2> HIDE DEF op, t, p
  <2>1. QED BY <1>2, <1>4, <1>7, HandlerGoing
<1>10. (p \in torn') = lost BY <1>1 DEF lost
<1>11. Going(op, thread[r].cut \/ TRUE, T, songs[p], Down, p \in torn') BY <1>9, <1>10
<1> HIDE DEF T
<1>12. Goes(r, T, TRUE) BY <1>1, <1>5
<1>13. QED BY <1>1, <1>2, <1>3, <1>6, <1>7, <1>8, <1>11, <1>12, RunStep

LEMMA IsReadyKeeps ==
    ASSUME JukeboxIInv, NEW r \in Clients, IsReady(r)
    PROVE  JukeboxIInv'
<1> DEFINE p == thread[r].player
           op == thread[r].op
           t == thread[r].todo
           lost == p \in torn
<1>1. /\ Runs(r) /\ First(r) = "ready"
      /\ songs' = songs /\ torn' = torn /\ mpv' = mpv
      /\ Goes(r, Tail(t), FALSE)
      /\ UNCHANGED <<setting, current, kind, late>>
  BY DEF IsReady, counts, jukeboxGhosts
<1>2. /\ thread[r].pc = "runs" /\ t # << >> /\ t \in Seq(Commands) /\ Tail(t) \in Seq(Commands)
      /\ op \in OpTypes /\ thread[r].cut \in BOOLEAN /\ p \in Players
      /\ kind[p] = "server_hardware" /\ songs[p] \in Seq(Tracks) /\ mpv[p] \in Processes
      /\ torn \subseteq Players /\ songs \in [Players -> Seq(Tracks)] /\ mpv \in [Players -> Processes]
      /\ Going(op, thread[r].cut, t, songs[p], mpv[p], lost)
  BY <1>1, Runner
<1>3. Head(t).do = "ready" BY <1>1 DEF First
<1>4. songs' = [songs EXCEPT ![p] = songs[p]] /\ mpv' = [mpv EXCEPT ![p] = mpv[p]] BY <1>1, <1>2
<1> HIDE DEF lost
<1>5. Going(op, thread[r].cut \/ FALSE, Tail(t), songs[p], mpv[p], lost)
  <2> HIDE DEF op, t, p
  <2>1. QED BY <1>2, <1>3, ReadyGoing
<1>6. (p \in torn') = lost BY <1>1 DEF lost
<1>7. Going(op, thread[r].cut \/ FALSE, Tail(t), songs[p], mpv[p], p \in torn') BY <1>5, <1>6
<1>8. QED BY <1>1, <1>2, <1>4, <1>7, RunStep
LEMMA CommandKeeps ==
    ASSUME JukeboxIInv, NEW r \in Clients, Command(r)
    PROVE  JukeboxIInv'
<1> DEFINE p == thread[r].player
           op == thread[r].op
           t == thread[r].todo
           lost == p \in torn
           L == mpv[p].list
<1>1. /\ Runs(r) /\ First(r) \notin Local \cup {"ready"} /\ mpv[p].up
      /\ songs' = songs /\ torn' = torn
      /\ UNCHANGED <<setting, current, kind, late>>
      /\ \/ /\ Accepts(Head(t), L) /\ mpv' = [mpv EXCEPT ![p].list = Listed(Head(t), L)]
            /\ \/ First(r) # "isPlaying" /\ Goes(r, Tail(t), FALSE)
               \/ /\ First(r) = "isPlaying"
                  /\ \E ending \in {PlayFrom(0), <<Do("pause")>>} : Goes(r, Tail(t) \o ending, FALSE)
         \/ mpv' = mpv /\ Goes(r, Handler(r), TRUE)
  BY DEF Command, jukeboxGhosts
<1>2. /\ thread[r].pc = "runs" /\ t # << >> /\ t \in Seq(Commands) /\ Tail(t) \in Seq(Commands)
      /\ op \in OpTypes /\ thread[r].cut \in BOOLEAN /\ p \in Players
      /\ kind[p] = "server_hardware" /\ songs[p] \in Seq(Tracks) /\ mpv[p] \in Processes
      /\ torn \subseteq Players /\ songs \in [Players -> Seq(Tracks)] /\ mpv \in [Players -> Processes]
      /\ Going(op, thread[r].cut, t, songs[p], mpv[p], lost)
  BY <1>1, Runner
<1>3. mpv[p] = [up |-> TRUE, list |-> L] /\ L \in Seq(Tracks) BY <1>1, <1>2, ProcessTypes
<1>4. Head(t).do \notin Local /\ Head(t).do # "ready" /\ (Head(t).do = First(r)) BY <1>1 DEF First
<1>5. songs' = [songs EXCEPT ![p] = songs[p]] BY <1>1, <1>2
<1>6. (p \in torn') = lost /\ lost \in BOOLEAN BY <1>1 DEF lost
<1> HIDE DEF lost, L
<1>7. CASE Accepts(Head(t), L) /\ mpv' = [mpv EXCEPT ![p].list = Listed(Head(t), L)]
              /\ (\/ First(r) # "isPlaying" /\ Goes(r, Tail(t), FALSE)
                  \/ /\ First(r) = "isPlaying"
                     /\ \E ending \in {PlayFrom(0), <<Do("pause")>>} : Goes(r, Tail(t) \o ending, FALSE))
  <2> DEFINE m == [up |-> TRUE, list |-> Listed(Head(t), L)]
  <2>1. /\ m.list \in Seq(Tracks)
        /\ Head(t).do # "isPlaying" => Going(op, thread[r].cut \/ FALSE, Tail(t), songs[p], m, lost)
        /\ Head(t).do = "isPlaying" =>
              \A n \in Seq(Neutral) : Going(op, thread[r].cut \/ FALSE, Tail(t) \o n, songs[p], m, lost)
    <3>1. Going(op, thread[r].cut, t, songs[p], [up |-> TRUE, list |-> L], lost) BY <1>2, <1>3
    <3>2. Accepts(Head(t), L) BY <1>7
    <3> DEFINE Q == songs[p]
               cut == thread[r].cut
    <3>3. /\ op \in OpTypes /\ cut \in BOOLEAN /\ t # << >> /\ Q \in Seq(Tracks)
          /\ Going(op, cut, t, Q, [up |-> TRUE, list |-> L], lost)
      BY <1>2, <3>1
    <3> HIDE DEF op, t, p, Q, cut
    <3>4. /\ m.list \in Seq(Tracks)
          /\ Head(t).do # "isPlaying" => Going(op, cut \/ FALSE, Tail(t), Q, m, lost)
          /\ Head(t).do = "isPlaying" =>
                \A n \in Seq(Neutral) : Going(op, cut \/ FALSE, Tail(t) \o n, Q, m, lost)
      BY <1>3, <1>4, <1>6, <3>2, <3>3, CommandGoing
    <3>5. QED BY <3>4 DEF Q, cut
  <2>2. m \in Processes BY <2>1 DEF Processes
  <2>3. mpv' = [mpv EXCEPT ![p] = m]
    <3>1. mpv' = [mpv EXCEPT ![p] = [mpv[p] EXCEPT !.list = Listed(Head(t), L)]] BY <1>7
    <3>2. mpv[p] = Process(TRUE, L) /\ m = Process(TRUE, Listed(Head(t), L)) BY <1>3 DEF Process
    <3> HIDE DEF m
    <3>3. Relisted(mpv[p], Listed(Head(t), L)) = m BY <3>2, ListEdited
    <3>4. QED BY <3>1, <3>3 DEF Relisted
  <2> HIDE DEF m
  <2>4. CASE First(r) # "isPlaying" /\ Goes(r, Tail(t), FALSE)
    <3>1. Going(op, thread[r].cut \/ FALSE, Tail(t), songs[p], m, p \in torn') BY <1>4, <1>6, <2>1, <2>4
    <3>2. QED BY <1>1, <1>2, <1>5, <2>2, <2>3, <2>4, <3>1, RunStep
  <2>5. ASSUME First(r) = "isPlaying", NEW ending \in {PlayFrom(0), <<Do("pause")>>}, Goes(r, Tail(t) \o ending, FALSE)
        PROVE  JukeboxIInv'
    <3>1. ending \in Seq(Neutral)
      <4>1. Do("pause") \in Neutral /\ Do("unpause") \in Neutral BY DEF Do, Neutral
      <4>2. At("position", 0) \in Neutral BY IndexedCommands
      <4>3. PlayFrom(0) \in Seq(Neutral) /\ <<Do("pause")>> \in Seq(Neutral) BY <4>1, <4>2 DEF PlayFrom
      <4>4. QED BY <4>3
    <3>2. Tail(t) \o ending \in Seq(Commands) BY <1>2, <3>1, NeutralCalm, CalmCommands, ConcatProperties
    <3>3. Going(op, thread[r].cut \/ FALSE, Tail(t) \o ending, songs[p], m, p \in torn')
      BY <1>4, <1>6, <2>1, <2>5, <3>1
    <3>4. QED BY <1>1, <1>2, <1>5, <2>2, <2>3, <2>5, <3>2, <3>3, RunStep
  <2>6. QED BY <1>7, <2>4, <2>5
<1>8. CASE mpv' = mpv /\ Goes(r, Handler(r), TRUE)
  <2> DEFINE T == Handled(op, t)
  <2>1. Handler(r) = T BY DEF Handler, Handled
  <2>2. T \in Seq(Commands) BY <1>2, HandledType
  <2>3. Going(op, thread[r].cut \/ TRUE, T, songs[p], mpv[p], lost)
    <3> DEFINE m == mpv[p]
    <3>1. m \in {m, Down} OBVIOUS
    <3> HIDE DEF op, t, p
    <3>2. QED BY <1>2, <1>4, <3>1, HandlerGoing
  <2>4. mpv' = [mpv EXCEPT ![p] = mpv[p]] BY <1>2, <1>8
  <2> HIDE DEF T
  <2>5. Going(op, thread[r].cut \/ TRUE, T, songs[p], mpv[p], p \in torn') BY <1>6, <2>3
  <2>6. Goes(r, T, TRUE) BY <1>8, <2>1
  <2>7. QED BY <1>1, <1>2, <1>5, <2>2, <2>4, <2>5, <2>6, RunStep
<1>9. QED BY <1>1, <1>7, <1>8
LEMMA QueueKeeps ==
    ASSUME JukeboxIInv, NEW r \in Clients, Queue(r)
    PROVE  JukeboxIInv'
<1> DEFINE p == thread[r].player
           op == thread[r].op
           t == thread[r].todo
           lost == p \in torn
           Q == songs[p]
           shuffled == {[i \in DOMAIN Q |-> Q[f[i]]] :
                           f \in {f \in [DOMAIN Q -> DOMAIN Q] : Range(f) = DOMAIN Q}}
<1>1. /\ Runs(r) /\ First(r) \in Local /\ mpv' = mpv /\ torn' = torn
      /\ UNCHANGED <<setting, current, kind, late>>
  BY DEF Queue, jukeboxGhosts
<1>2. /\ thread[r].pc = "runs" /\ t # << >> /\ t \in Seq(Commands) /\ Tail(t) \in Seq(Commands)
      /\ op \in OpTypes /\ thread[r].cut \in BOOLEAN /\ p \in Players
      /\ kind[p] = "server_hardware" /\ Q \in Seq(Tracks) /\ mpv[p] \in Processes
      /\ torn \subseteq Players /\ songs \in [Players -> Seq(Tracks)] /\ mpv \in [Players -> Processes]
      /\ Going(op, thread[r].cut, t, Q, mpv[p], lost)
  BY <1>1, Runner
<1>3. \/ /\ Head(t).do = "assign" /\ songs' = [songs EXCEPT ![p] = Head(t).entries]
         /\ Goes(r, Tail(t), FALSE)
      \/ /\ Head(t).do = "extend" /\ songs' = [songs EXCEPT ![p] = Q \o Head(t).entries]
         /\ Goes(r, Tail(t), FALSE)
      \/ /\ Head(t).do = "delete" /\ songs' = [songs EXCEPT ![p] = RemoveAt(Q, Head(t).index + 1)]
         /\ Goes(r, Tail(t), FALSE)
      \/ /\ Head(t).do = "shuffle" /\ \E P \in shuffled : songs' = [songs EXCEPT ![p] = P]
         /\ Goes(r, Tail(t), FALSE)
      \/ Head(t).do = "appendAll" /\ songs' = songs /\ Goes(r, Appends(Q) \o Tail(t), FALSE)
  BY DEF Queue
<1>4. Head(t).do \in Local BY <1>1 DEF First
<1>5. mpv' = [mpv EXCEPT ![p] = mpv[p]] BY <1>1, <1>2
<1>6. (p \in torn') = lost /\ lost \in BOOLEAN BY <1>1 DEF lost
<1>7. \A P \in shuffled : P \in Seq(Tracks)
  <2>1. DOMAIN Q = 1..Len(Q) /\ Len(Q) \in Nat /\ \A i \in 1..Len(Q) : Q[i] \in Tracks
    BY <1>2, LenProperties, ElementOfSeq
  <2> HIDE DEF Q
  <2>2. ASSUME NEW f \in [DOMAIN Q -> DOMAIN Q] PROVE [i \in DOMAIN Q |-> Q[f[i]]] \in Seq(Tracks)
    BY <2>1
  <2>3. QED BY <2>2
<1>8. /\ Head(t).do = "assign" =>
            Head(t).entries \in Seq(Tracks) /\ Going(op, thread[r].cut \/ FALSE, Tail(t), Head(t).entries, mpv[p], lost)
      /\ Head(t).do = "extend" =>
            /\ Q \o Head(t).entries \in Seq(Tracks)
            /\ Going(op, thread[r].cut \/ FALSE, Tail(t), Q \o Head(t).entries, mpv[p], lost)
      /\ Head(t).do = "delete" =>
            /\ RemoveAt(Q, Head(t).index + 1) \in Seq(Tracks)
            /\ Going(op, thread[r].cut \/ FALSE, Tail(t), RemoveAt(Q, Head(t).index + 1), mpv[p], lost)
      /\ Head(t).do = "shuffle" =>
            \A P \in Seq(Tracks) : Going(op, thread[r].cut \/ FALSE, Tail(t), P, mpv[p], lost)
      /\ Head(t).do = "appendAll" => Going(op, thread[r].cut \/ FALSE, Appends(Q) \o Tail(t), Q, mpv[p], lost)
  <2> HIDE DEF op, t, Q, p, lost
  <2>1. QED BY <1>2, <1>4, <1>6, QueueGoing
<1>9. ASSUME NEW P \in Seq(Tracks), songs' = [songs EXCEPT ![p] = P],
             NEW T \in Seq(Commands), Goes(r, T, FALSE),
             Going(op, thread[r].cut \/ FALSE, T, P, mpv[p], lost)
      PROVE  JukeboxIInv'
  <2>1. Going(op, thread[r].cut \/ FALSE, T, P, mpv[p], p \in torn') BY <1>6, <1>9
  <2>2. QED BY <1>1, <1>2, <1>5, <1>9, <2>1, RunStep
<1>10. Appends(Q) \o Tail(t) \in Seq(Commands)
  BY <1>2, AppendsType, CalmCommands, ConcatProperties
<1>11. songs = [songs EXCEPT ![p] = Q] BY <1>2
<1> HIDE DEF shuffled
<1>12. CASE Head(t).do = "assign" BY <1>2, <1>3, <1>8, <1>9, <1>12
<1>13. CASE Head(t).do = "extend" BY <1>2, <1>3, <1>8, <1>9, <1>13
<1>14. CASE Head(t).do = "delete" BY <1>2, <1>3, <1>8, <1>9, <1>14
<1>15. CASE Head(t).do = "shuffle" BY <1>2, <1>3, <1>7, <1>8, <1>9, <1>15
<1>16. CASE Head(t).do = "appendAll" BY <1>2, <1>3, <1>8, <1>9, <1>10, <1>11, <1>16
<1>17. QED BY <1>3, <1>12, <1>13, <1>14, <1>15, <1>16
(* A step of a request that does not run, or begins or ends to.             *)
Others(r) == \A s \in Clients \ {r} : thread'[s] = thread[s]

LEMMA OthersRun ==
    ASSUME JukeboxIInv, NEW r \in Clients, Others(r),
           UNCHANGED <<kind, songs, mpv>>,
           \A s \in Clients \ {r} : thread[s].pc = "runs" =>
              (thread[s].player \in torn' <=> thread[s].player \in torn),
           NEW s \in Clients \ {r}, thread'[s].pc = "runs"
    PROVE  RunsWell(s)'
<1> DEFINE p == thread[s].player
<1>1. thread'[s] = thread[s] /\ thread[s].pc = "runs" BY DEF Others
<1>2. RunsWell(s) BY <1>1 DEF JukeboxIInv, Operations
<1>3. (p \in torn') = (p \in torn) BY <1>1
<1>4. CASE kind[p] = "server_hardware"
  <2>1. Going(thread[s].op, thread[s].cut, thread[s].todo, songs[p], mpv[p], p \in torn) BY <1>2, <1>4 DEF RunsWell
  <2>2. Going(thread'[s].op, thread'[s].cut, thread'[s].todo, songs'[p], mpv'[p], p \in torn')
    BY <1>1, <1>3, <2>1
  <2>3. QED BY <1>1, <1>4, <2>2 DEF RunsWell
<1>5. CASE kind[p] # "server_hardware" BY <1>1, <1>2, <1>5 DEF RunsWell
<1>6. QED BY <1>4, <1>5

LEMMA RequestStep ==
    ASSUME JukeboxIInv, NEW r \in Clients, thread[r].pc # "runs",
           NEW q \in RequestStates, q.pc # "runs", thread' = [thread EXCEPT ![r] = q],
           q.pc = "has" => q.player \in late \cup {current}, q.pc = "return" => current # 0,
           UNCHANGED <<setting, current, kind, songs, mpv, torn, late>>
    PROVE  JukeboxIInv'
<1> USE DEF JukeboxIInv
<1>1. thread' \in [Clients -> RequestStates] /\ thread'[r] = q /\ Others(r) BY DEF JukeboxTypes, Others
<1>2. JukeboxTypes' BY <1>1 DEF JukeboxTypes
<1>3. OneAtATime' BY <1>1 DEF OneAtATime, Others
<1>4. Held' BY <1>1 DEF Held, Others
<1>5. Operations'
  <2> SUFFICES ASSUME NEW s \in Clients, thread'[s].pc = "runs" PROVE RunsWell(s)' BY DEF Operations
  <2>1. s # r BY <1>1
  <2>2. QED BY <1>1, <2>1, OthersRun
<1>6. \A p \in Players : Locked(p)' <=> Locked(p) BY <1>1 DEF Locked, Others
<1>7. QueueInStep' BY <1>6 DEF QueueInStep
<1>8. ReplacedAreSilent' BY DEF ReplacedAreSilent
<1>9. QED BY <1>2, <1>3, <1>4, <1>5, <1>7, <1>8

LEMMA PlayerAskKeeps ==
    ASSUME JukeboxIInv, NEW r \in Clients, NEW op \in OpTypes, Ask(r, op)
    PROVE  JukeboxIInv'
<1> DEFINE q == [pc |-> "asked", op |-> op, backend |-> setting]
<1>1. /\ thread[r].pc = "idle" /\ thread' = [thread EXCEPT ![r] = q]
      /\ UNCHANGED <<setting, current, kind, songs, mpv, torn, late>>
  BY DEF Ask, AtRest, jukeboxGhosts
<1>2. q \in RequestStates /\ q.pc = "asked" BY DEF RequestStates, JukeboxIInv, JukeboxTypes
<1> HIDE DEF q
<1>3. QED BY <1>1, <1>2, RequestStep

LEMMA KeepKeeps ==
    ASSUME JukeboxIInv, NEW r \in Clients, Keep(r)
    PROVE  JukeboxIInv'
<1> DEFINE q == [pc |-> "return", op |-> thread[r].op]
<1>1. /\ thread[r].pc = "asked" /\ thread' = [thread EXCEPT ![r] = q]
      /\ UNCHANGED <<setting, current, kind, songs, mpv, torn, late>>
  BY DEF Keep, jukeboxGhosts
<1>2. thread[r].op \in OpTypes BY <1>1, RequestKinds DEF JukeboxIInv, JukeboxTypes
<1>3. current # 0 BY DEF Keep, Differs
<1>4. q \in RequestStates /\ q.pc = "return" BY <1>2 DEF RequestStates
<1> HIDE DEF q
<1>5. QED BY <1>1, <1>3, <1>4, RequestStep

LEMMA ReturnKeeps ==
    ASSUME JukeboxIInv, NEW r \in Clients, Return(r)
    PROVE  JukeboxIInv'
<1> DEFINE q == [pc |-> "has", op |-> thread[r].op, player |-> current]
<1>1. /\ thread[r].pc = "return" /\ thread' = [thread EXCEPT ![r] = q]
      /\ UNCHANGED <<setting, current, kind, songs, mpv, torn, late>>
  BY DEF Return, jukeboxGhosts
<1>2. thread[r].op \in OpTypes BY <1>1, RequestKinds DEF JukeboxIInv, JukeboxTypes
<1>3. current \in Players BY <1>1 DEF JukeboxIInv, JukeboxTypes, Held
<1>4. q \in RequestStates /\ q.pc = "has" /\ q.player = current BY <1>2, <1>3 DEF RequestStates
<1> HIDE DEF q
<1>5. QED BY <1>1, <1>4, RequestStep

LEMMA BeginKeeps ==
    ASSUME JukeboxIInv, NEW r \in Clients, Begin(r)
    PROVE  JukeboxIInv'
<1> DEFINE p == thread[r].player
           op == thread[r].op
           T == IF kind[p] = "server_hardware" THEN Program(op, p) ELSE << >>
           q == RunRecord(op, p, T, FALSE)
           lost == p \in torn
<1> USE DEF JukeboxIInv
<1>1. /\ thread[r].pc = "has" /\ ~Locked(p) /\ thread' = [thread EXCEPT ![r] = q]
      /\ UNCHANGED <<setting, current, kind, songs, mpv, torn, late>>
  BY DEF Begin, jukeboxGhosts, RunRecord
<1>2. op \in OpTypes /\ p \in Players BY <1>1, RequestKinds DEF JukeboxTypes
<1>3. songs[p] \in Seq(Tracks) /\ mpv[p] \in Processes BY <1>2 DEF JukeboxTypes
<1>4. kind[p] = "server_hardware" =>
         /\ Program(op, p) \in Seq(Commands)
         /\ Going(op, FALSE, Program(op, p), songs[p], mpv[p], lost)
  <2> SUFFICES ASSUME kind[p] = "server_hardware"
               PROVE  /\ Program(op, p) \in Seq(Commands)
                      /\ Going(op, FALSE, Program(op, p), songs[p], mpv[p], lost)
    OBVIOUS
  <2>1. mpv[p].up /\ ~lost => songs[p] = mpv[p].list BY <1>1, <1>2 DEF QueueInStep
  <2>2. lost \in BOOLEAN OBVIOUS
  <2> HIDE DEF lost, p, op
  <2>3. QED BY <1>2, <1>3, <2>1, <2>2, BeginGoing
<1>5. T \in Seq(Commands)
  <2>1. << >> \in Seq(Commands) OBVIOUS
  <2>2. QED BY <1>4, <2>1
<1> HIDE DEF T
<1>6. /\ q \in RequestStates /\ q.pc = "runs" /\ q.op = op /\ q.player = p /\ q.todo = T /\ q.cut = FALSE
  BY <1>2, <1>5 DEF RequestStates, RunRecord
<1> HIDE DEF q
<1>7. thread' \in [Clients -> RequestStates] /\ thread'[r] = q /\ Others(r) BY <1>1, <1>6 DEF JukeboxTypes, Others
<1>8. JukeboxTypes' BY <1>1, <1>7 DEF JukeboxTypes
<1>9. OneAtATime' BY <1>1, <1>6, <1>7 DEF OneAtATime, Others, Locked
<1>10. Held' BY <1>1, <1>6, <1>7 DEF Held, Others
<1>11. Operations'
  <2> SUFFICES ASSUME NEW s \in Clients, thread'[s].pc = "runs" PROVE RunsWell(s)' BY DEF Operations
  <2>1. CASE s # r BY <1>1, <1>7, <2>1, OthersRun
  <2>2. CASE s = r
    <3>1. CASE kind[p] = "server_hardware"
      <4>1. T = Program(op, p) BY <3>1 DEF T
      <4>2. (p \in torn') = lost BY <1>1
      <4>3. Going(op, FALSE, T, songs'[p], mpv'[p], p \in torn') BY <1>1, <1>4, <3>1, <4>1, <4>2
      <4>4. kind'[p] = "server_hardware" BY <1>1, <3>1
      <4>5. QED BY <1>6, <1>7, <2>2, <4>3, <4>4 DEF RunsWell
    <3>2. CASE kind[p] # "server_hardware"
      <4>1. T = << >> BY <3>2 DEF T
      <4>2. QED BY <1>1, <1>6, <1>7, <2>2, <3>2, <4>1 DEF RunsWell
    <3>3. QED BY <3>1, <3>2
  <2>3. QED BY <2>1, <2>2
<1>12. QueueInStep'
  <2>1. \A x \in Players : Locked(x) => Locked(x)' BY <1>1, <1>7 DEF Locked, Others
  <2>2. QED BY <1>1, <2>1 DEF QueueInStep
<1>13. ReplacedAreSilent' BY <1>1 DEF ReplacedAreSilent
<1>14. QED BY <1>8, <1>9, <1>10, <1>11, <1>12, <1>13

LEMMA ReleaseKeeps ==
    ASSUME JukeboxIInv, NEW r \in Clients, End(r)
    PROVE  JukeboxIInv'
<1> DEFINE p == thread[r].player
           op == thread[r].op
           cut == thread[r].cut
<1> USE DEF JukeboxIInv
<1>1. /\ thread[r].pc = "runs" /\ thread[r].todo = << >> /\ thread' = [thread EXCEPT ![r] = AtRest]
      /\ torn' = (IF op.name \in Edits /\ cut THEN torn \cup {p}
                  ELSE IF op.name \in {"set", "clear"} THEN torn \ {p}
                  ELSE torn)
      /\ UNCHANGED <<setting, current, kind, songs, mpv, late>>
  BY DEF End
<1>2. op \in OpTypes /\ p \in Players /\ cut \in BOOLEAN BY <1>1, RequestKinds DEF JukeboxTypes
<1>3. AtRest \in RequestStates /\ AtRest.pc = "idle" BY DEF RequestStates, AtRest
<1>4. thread' \in [Clients -> RequestStates] /\ thread'[r] = AtRest /\ Others(r) BY <1>1, <1>3 DEF JukeboxTypes, Others
<1>5. torn' \subseteq Players /\ \A q \in Players \ {p} : q \in torn' <=> q \in torn
  BY <1>1, <1>2 DEF JukeboxTypes
<1>6. JukeboxTypes' BY <1>1, <1>4, <1>5 DEF JukeboxTypes
<1>7. OneAtATime' BY <1>3, <1>4 DEF OneAtATime, Others
<1>8. Held' BY <1>1, <1>3, <1>4 DEF Held, Others
<1>9. Operations'
  <2> SUFFICES ASSUME NEW s \in Clients, thread'[s].pc = "runs" PROVE RunsWell(s)' BY DEF Operations
  <2>1. s # r BY <1>3, <1>4
  <2>2. ASSUME NEW x \in Clients \ {r}, thread[x].pc = "runs"
        PROVE  thread[x].player \in torn' <=> thread[x].player \in torn
    <3>1. thread[x].player \in Players BY <2>2, RequestKinds DEF JukeboxTypes
    <3>2. thread[x].player # p BY <1>1, <2>2 DEF OneAtATime
    <3>3. QED BY <1>5, <3>1, <3>2
  <2>3. QED BY <1>1, <1>4, <2>1, <2>2, OthersRun
<1>10. QueueInStep'
  <2> SUFFICES ASSUME NEW x \in Players, x \notin torn', kind[x] = "server_hardware", mpv[x].up, ~Locked(x)'
               PROVE  songs[x] = mpv[x].list
    BY <1>1 DEF QueueInStep
  <2>1. CASE x = p
    <3> DEFINE lost == p \in torn
               m == mpv[p]
               Q == songs[p]
    <3>1. RunsWell(r) BY <1>1 DEF Operations
    <3>2. Going(op, cut, << >>, Q, m, lost) BY <1>1, <2>1, <3>1 DEF RunsWell
    <3>3. Whole(op, cut) BY <1>1, <2>1 DEF Whole
    <3>4. InStep(op, m, lost) BY <1>1, <2>1 DEF InStep
    <3>5. Q \in Seq(Tracks) /\ m \in Processes BY <1>2 DEF JukeboxTypes
    <3> HIDE DEF lost, m, Q, op, cut
    <3>6. Q = m.list BY <1>2, <3>2, <3>3, <3>4, <3>5, GoingEnds
    <3>7. QED BY <2>1, <3>6 DEF m, Q
  <2>2. CASE x # p
    <3>1. ~Locked(x)
      <4> SUFFICES ASSUME NEW s \in Clients, thread[s].pc = "runs", thread[s].player = x PROVE FALSE BY DEF Locked
      <4>1. s # r BY <2>2
      <4>2. QED BY <1>4, <4>1 DEF Locked, Others
    <3>2. QED BY <1>5, <2>2, <3>1 DEF QueueInStep
  <2>3. QED BY <2>1, <2>2
<1>11. ReplacedAreSilent' BY <1>1 DEF ReplacedAreSilent
<1>12. QED BY <1>6, <1>7, <1>8, <1>9, <1>10, <1>11
LEMMA SwapKeeps ==
    ASSUME JukeboxIInv, NEW r \in Clients, Swap(r)
    PROVE  JukeboxIInv'
<1> DEFINE q == [pc |-> "return", op |-> thread[r].op]
<1> USE DEF JukeboxIInv
<1>1. /\ thread[r].pc = "asked" /\ ~Locked(current)
      /\ thread' = [thread EXCEPT ![r] = q] /\ setting' = setting
  BY DEF Swap
<1>2. PICK new \in Players \ {current} :
         /\ ~Locked(new) /\ ~HasIt(new)
         /\ current' = new /\ kind' = [kind EXCEPT ![new] = thread[r].backend]
         /\ mpv' = [p \in Players |-> IF p = current THEN Down
                                      ELSE IF p = new THEN Down ELSE mpv[p]]
         /\ songs' = [p \in Players |-> IF p \in {current, new} THEN << >> ELSE songs[p]]
         /\ torn' = torn \ {current, new}
         /\ late' = (late \ {new}) \cup (IF HasIt(current) THEN {current} ELSE {})
  BY DEF Swap, Terminated
<1>3. thread[r].op \in OpTypes /\ thread[r].backend \in Backends BY <1>1, RequestKinds DEF JukeboxTypes
<1>4. q \in RequestStates /\ q.pc = "return" BY <1>3 DEF RequestStates
<1> HIDE DEF q
<1>5. thread' \in [Clients -> RequestStates] /\ thread'[r] = q /\ Others(r) BY <1>1, <1>4 DEF JukeboxTypes, Others
<1>6. HasIt(current) => current \in Players
  <2> SUFFICES ASSUME NEW s \in Clients, thread[s].pc = "has", thread[s].player = current PROVE current \in Players
    BY DEF HasIt
  <2>1. QED BY RequestKinds DEF JukeboxTypes
<1>7. JukeboxTypes'
  <2>1. Down \in Processes /\ << >> \in Seq(Tracks) BY DEF Processes
  <2>2. mpv' \in [Players -> Processes] /\ songs' \in [Players -> Seq(Tracks)] BY <1>2, <2>1 DEF JukeboxTypes
  <2>3. kind' \in [Players -> Backends] BY <1>2, <1>3 DEF JukeboxTypes
  <2>4. QED BY <1>1, <1>2, <1>5, <1>6, <2>2, <2>3 DEF JukeboxTypes
<1>8. OneAtATime' BY <1>4, <1>5 DEF OneAtATime, Others
<1>9. ASSUME NEW s \in Clients, thread'[s].pc \in {"has", "runs"}
      PROVE  /\ s # r /\ thread'[s] = thread[s] /\ thread[s].player # new
             /\ thread[s].player = current => HasIt(current) /\ thread[s].pc = "has"
  <2>1. s # r /\ thread'[s] = thread[s] BY <1>4, <1>5, <1>9 DEF Others
  <2>2. QED BY <1>1, <1>2, <1>9, <2>1 DEF Locked, HasIt
<1>10. Held'
  <2>1. ASSUME NEW s \in Clients, thread'[s].pc \in {"has", "runs"} PROVE thread'[s].player \in late' \cup {current'}
    <3>1. thread[s].player \in late \cup {current} BY <1>9, <2>1 DEF Held
    <3>2. QED BY <1>2, <1>9, <2>1, <3>1
  <2>2. current' # 0 BY <1>2
  <2>3. QED BY <2>1, <2>2 DEF Held
<1>11. Operations'
  <2> SUFFICES ASSUME NEW s \in Clients, thread'[s].pc = "runs" PROVE RunsWell(s)' BY DEF Operations
  <2> DEFINE p == thread[s].player
  <2>1. thread'[s] = thread[s] /\ thread[s].pc = "runs" /\ p # new /\ p # current BY <1>9
  <2>2. p \in Players BY <2>1, RequestKinds DEF JukeboxTypes
  <2>3. kind'[p] = kind[p] /\ songs'[p] = songs[p] /\ mpv'[p] = mpv[p] /\ (p \in torn') = (p \in torn)
    BY <1>2, <2>1, <2>2 DEF JukeboxTypes
  <2>4. RunsWell(s) BY <2>1 DEF Operations
  <2>5. CASE kind[p] = "server_hardware"
    <3>1. Going(thread[s].op, thread[s].cut, thread[s].todo, songs[p], mpv[p], p \in torn) BY <2>4, <2>5 DEF RunsWell
    <3>2. Going(thread'[s].op, thread'[s].cut, thread'[s].todo, songs'[p], mpv'[p], p \in torn')
      BY <2>1, <2>3, <3>1
    <3>3. QED BY <2>1, <2>3, <2>5, <3>2 DEF RunsWell
  <2>6. CASE kind[p] # "server_hardware" BY <2>1, <2>3, <2>4, <2>6 DEF RunsWell
  <2>7. QED BY <2>5, <2>6
<1>12. \A p \in Players : Locked(p) => Locked(p)' BY <1>1, <1>5 DEF Locked, Others
<1>13. Down.up = FALSE BY DEF Down
<1>14. QueueInStep' BY <1>2, <1>12, <1>13 DEF QueueInStep, JukeboxTypes
<1>15. ReplacedAreSilent' BY <1>2, <1>13 DEF ReplacedAreSilent
<1>16. QED BY <1>7, <1>8, <1>10, <1>11, <1>14, <1>15

LEMMA DiesKeeps ==
    ASSUME JukeboxIInv, NEW p \in Players, Dies(p)
    PROVE  JukeboxIInv'
<1> USE DEF JukeboxIInv
<1>1. /\ mpv' = [mpv EXCEPT ![p] = Down]
      /\ UNCHANGED <<setting, current, kind, songs, thread, torn, late>>
  BY DEF Dies, jukeboxGhosts
<1>2. Down \in Processes /\ Down.up = FALSE BY DEF Processes, Down
<1>3. /\ mpv' \in [Players -> Processes] /\ mpv'[p] = Down
      /\ \A q \in Players \ {p} : mpv'[q] = mpv[q]
  BY <1>1, <1>2 DEF JukeboxTypes
<1>4. JukeboxTypes' BY <1>1, <1>3 DEF JukeboxTypes
<1>5. OneAtATime' /\ Held' BY <1>1 DEF OneAtATime, Held
<1>6. Operations'
  <2> SUFFICES ASSUME NEW s \in Clients, thread[s].pc = "runs" PROVE RunsWell(s)' BY <1>1 DEF Operations
  <2>1. RunsWell(s) BY DEF Operations
  <2>2. CASE thread[s].player # p
    <3>1. thread[s].player \in Players BY RequestKinds DEF JukeboxTypes
    <3>2. mpv'[thread[s].player] = mpv[thread[s].player] BY <1>3, <2>2, <3>1
    <3>3. QED BY <1>1, <2>1, <3>2 DEF RunsWell
  <2>3. CASE thread[s].player = p
    <3>1. CASE kind[p] = "server_hardware"
      <4>1. Going(thread[s].op, thread[s].cut, thread[s].todo, songs[p], mpv[p], p \in torn)
        BY <2>1, <2>3, <3>1 DEF RunsWell
      <4>2. Going(thread[s].op, thread[s].cut, thread[s].todo, songs[p], Down, p \in torn)
        <5> DEFINE op == thread[s].op
                   cut == thread[s].cut
                   lost == p \in torn
        <5>1. Going(op, cut, thread[s].todo, songs[p], mpv[p], lost) BY <4>1
        <5> HIDE DEF op, cut, lost
        <5>2. Going(op, cut, thread[s].todo, songs[p], Down, lost) BY <5>1, DeathGoing
        <5>3. QED BY <5>2 DEF op, cut, lost
      <4>3. Going(thread'[s].op, thread'[s].cut, thread'[s].todo, songs'[p], mpv'[p], p \in torn')
        BY <1>1, <1>3, <4>2
      <4>4. QED BY <1>1, <2>3, <3>1, <4>3 DEF RunsWell
    <3>2. CASE kind[p] # "server_hardware" BY <1>1, <2>1, <2>3, <3>2 DEF RunsWell
    <3>3. QED BY <3>1, <3>2
  <2>4. QED BY <2>2, <2>3
<1>7. QueueInStep' BY <1>1, <1>2, <1>3 DEF QueueInStep, Locked
<1>8. ReplacedAreSilent' BY <1>1, <1>2, <1>3 DEF ReplacedAreSilent
<1>9. QED BY <1>4, <1>5, <1>6, <1>7, <1>8

LEMMA JukeboxStill ==
    ASSUME JukeboxIInv, setting' \in Backends, UNCHANGED <<current, kind, songs, mpv, thread, torn, late>>
    PROVE  JukeboxIInv'
BY DEF JukeboxIInv, JukeboxTypes, OneAtATime, Held, Operations, RunsWell, QueueInStep, Locked, ReplacedAreSilent

LEMMA JukeboxStarts ==
    ASSUME JukeboxInit PROVE JukeboxIInv
<1> USE DEF JukeboxInit
<1>1. Down \in Processes /\ Down.up = FALSE BY DEF Processes, Down
<1>2. AtRest \in RequestStates /\ AtRest.pc = "idle" BY DEF RequestStates, AtRest
<1>3. << >> \in Seq(Tracks) /\ "server_hardware" \in Backends BY DEF Backends
<1>4. JukeboxTypes BY <1>1, <1>2, <1>3 DEF JukeboxTypes
<1>5. \A r \in Clients : thread[r].pc = "idle" BY <1>2
<1>6. OneAtATime /\ Held /\ Operations BY <1>5 DEF OneAtATime, Held, Operations
<1>7. \A p \in Players : mpv[p].up = FALSE BY <1>1
<1>8. QueueInStep /\ ReplacedAreSilent BY <1>7 DEF QueueInStep, ReplacedAreSilent
<1>9. QED BY <1>4, <1>6, <1>8 DEF JukeboxIInv

LEMMA JukeboxKeeps ==
    ASSUME JukeboxIInv, [JukeboxNext]_jukeboxVars PROVE JukeboxIInv'
<1>1. ASSUME NEW r \in Clients, NEW op \in Ops \cup {Status}, Ask(r, op) PROVE JukeboxIInv'
  BY <1>1, PlayerAskKeeps DEF OpTypes
<1>2. ASSUME NEW r \in Clients, Begin(r) PROVE JukeboxIInv' BY <1>2, BeginKeeps
<1>3. ASSUME NEW r \in Clients, Step(r) PROVE JukeboxIInv'
  BY <1>3, KeepKeeps, SwapKeeps, ReturnKeeps, ProcessStartKeeps, StartFailsKeeps, IsReadyKeeps,
     CommandKeeps, QueueKeeps, ReleaseKeeps DEF Step
<1>4. ASSUME NEW r \in Clients, Breaks(r) PROVE JukeboxIInv' BY <1>4, StartFailsKeeps
<1>5. ASSUME NEW p \in Players, Dies(p) PROVE JukeboxIInv' BY <1>5, DiesKeeps
<1>6. CASE Switch BY <1>6, JukeboxStill DEF Switch, jukeboxGhosts
<1>7. CASE UNCHANGED jukeboxVars
  <2>1. setting' \in Backends BY <1>7 DEF jukeboxVars, JukeboxIInv, JukeboxTypes
  <2>2. QED BY <1>7, <2>1, JukeboxStill DEF jukeboxVars, jukeboxGhosts
<1>8. QED BY <1>1, <1>2, <1>3, <1>4, <1>5, <1>6, <1>7 DEF JukeboxNext

LEMMA JukeboxIsSound ==
    ASSUME JukeboxIInv PROVE JukeboxSound
<1>1. JukeboxTypes /\ QueueInStep /\ ReplacedAreSilent BY DEF JukeboxIInv
<1>2. \A p \in Players : songs[p] \in Seq(Tracks) /\ mpv[p].up \in BOOLEAN /\ mpv[p].list \in Seq(Tracks)
  BY <1>1, ProcessTypes DEF JukeboxTypes
<1>3. \A r \in Clients :
         /\ thread[r].pc \in {"idle", "asked", "return", "has", "runs"}
         /\ thread[r].pc \in {"has", "runs"} => thread[r].player \in Players
  BY <1>1, RequestKinds DEF JukeboxTypes
<1>4. JukeboxTypeOK BY <1>1, <1>2, <1>3 DEF JukeboxTypes, JukeboxTypeOK
<1>5. QED BY <1>1, <1>4 DEF JukeboxSound

(* Whatever clients ask for, whenever mpv dies, a command is refused or the *)
(* setting changes: what mpv plays is `_queue` whenever no operation runs,  *)
(* unless one that changes it was cut in two; and a player that was         *)
(* replaced is silent, unless a request had it already.                     *)
THEOREM JukeboxStaysSound == JukeboxSpec => []JukeboxSound
<1>1. JukeboxInit => JukeboxIInv BY JukeboxStarts
<1>2. JukeboxIInv /\ [JukeboxNext]_jukeboxVars => JukeboxIInv' BY JukeboxKeeps
<1>3. JukeboxIInv => JukeboxSound BY JukeboxIsSound
<1>4. QED BY <1>1, <1>2, <1>3, PTL DEF JukeboxSpec

=============================================================================
