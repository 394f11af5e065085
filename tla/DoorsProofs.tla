----------------------------- MODULE DoorsProofs -----------------------------
(***************************************************************************)
(* Who is let in: address lists, login limits, sessions of the web         *)
(* interface, app passwords and shares, each for any number of users,      *)
(* requests and threads. The components share no state; each has its       *)
(* invariant and its theorem.                                              *)
(***************************************************************************)
EXTENDS AddressFilter, LoginLimiter, WebSessions, AppPasswords, Shares, SubsequencesProofs

-----------------------------------------------------------------------------
(***************************************************************************)
(* The lists of addresses. A verdict is reached from two lists read one    *)
(* after the other, while an admin sets both from another thread: what is  *)
(* inductive is, for each request, what its first read says of the lists   *)
(* that have been in force since it came.                                  *)
(***************************************************************************)

Checks     == {NoCheck} \cup [pc : {"black", "any", "white", "passed", "refused"}, client : Clients]
SetterActs == {NotChecking} \cup [pc : {"white", "black"}, list : Lists]

FilterTypeOK ==
    /\ {whiteRaw, whiteNets, blackRaw, blackNets} \subseteq Lists
    /\ setter \in SetterActs
    /\ check \in [FilterThreads -> Checks]
    /\ inForce \in [FilterThreads -> SUBSET (Lists \X Lists)]

(* The strings already are what the setter has still to make networks of.   *)
SetterAhead ==
    /\ setter.pc = "white" => whiteRaw = setter.list
    /\ setter.pc = "black" => blackRaw = setter.list

Whites(t) == {ls[1] : ls \in inForce[t]}
Blacks(t) == {ls[2] : ls \in inForce[t]}

(* What a check under way may read counts as being in force since it began. *)
ReadsInForce ==
    \A t \in FilterThreads : check[t].pc \in {"black", "any", "white"} =>
        /\ {whiteRaw, whiteNets} \subseteq Whites(t)
        /\ {blackRaw, blackNets} \subseteq Blacks(t)

(* What a check that is past its first read, or has let its client in, saw. *)
FoundSoFar ==
    \A t \in FilterThreads :
        /\ check[t].pc \in {"any", "white", "passed"} =>
              \E l \in Blacks(t) : check[t].client \notin l
        /\ check[t].pc = "passed" =>
              \E l \in Whites(t) : l = {} \/ check[t].client \in l

FilterIInv == FilterTypeOK /\ SetterAhead /\ ReadsInForce /\ FoundSoFar

LEMMA FilterStarts == FilterInit => FilterIInv
<1> SUFFICES ASSUME FilterInit PROVE FilterIInv OBVIOUS
<1> USE DEF FilterInit, NoCheck, NotChecking
<1>1. FilterTypeOK BY DEF FilterTypeOK, Checks, SetterActs
<1>2. SetterAhead BY DEF SetterAhead
<1>3. ReadsInForce BY DEF ReadsInForce
<1>4. FoundSoFar BY DEF FoundSoFar
<1>5. QED BY <1>1, <1>2, <1>3, <1>4 DEF FilterIInv

(* A setter: every check under way sees the new list as well.               *)
LEMMA StringsKeep ==
    ASSUME FilterIInv, NEW which \in {"white", "black"}, NEW list \in Lists, SetStrings(which, list)
    PROVE  FilterIInv'
<1> USE DEF FilterIInv, SetStrings, Meanwhile
<1>1. FilterTypeOK' BY DEF FilterTypeOK, SetterActs, Seen
<1>2. SetterAhead' BY DEF SetterAhead
<1>3. ReadsInForce'
  <2> SUFFICES ASSUME NEW t \in FilterThreads, check[t].pc \in {"black", "any", "white"}
               PROVE  /\ {whiteRaw', whiteNets'} \subseteq Whites(t)'
                      /\ {blackRaw', blackNets'} \subseteq Blacks(t)'
    BY DEF ReadsInForce
  <2>1. CASE which = "white"
    <3>1. inForce'[t] = inForce[t] \cup {<<list, blackRaw>>} BY <2>1 DEF Seen, FilterTypeOK
    <3>2. <<list, blackRaw>>[1] = list /\ <<list, blackRaw>>[2] = blackRaw OBVIOUS
    <3>3. list \in Whites(t)' /\ Whites(t) \subseteq Whites(t)' BY <3>1, <3>2 DEF Whites
    <3>4. Blacks(t) \subseteq Blacks(t)' BY <3>1 DEF Blacks
    <3>5. QED BY <2>1, <3>3, <3>4 DEF ReadsInForce
  <2>2. CASE which = "black"
    <3>1. inForce'[t] = inForce[t] \cup {<<whiteRaw, list>>} BY <2>2 DEF Seen, FilterTypeOK
    <3>2. <<whiteRaw, list>>[1] = whiteRaw /\ <<whiteRaw, list>>[2] = list OBVIOUS
    <3>3. list \in Blacks(t)' /\ Blacks(t) \subseteq Blacks(t)' BY <3>1, <3>2 DEF Blacks
    <3>4. Whites(t) \subseteq Whites(t)' BY <3>1 DEF Whites
    <3>5. QED BY <2>2, <3>3, <3>4 DEF ReadsInForce
  <2>3. QED BY <2>1, <2>2
<1>4. FoundSoFar'
  <2>1. \A t \in FilterThreads : inForce[t] \subseteq inForce'[t]
    BY DEF Seen, FilterTypeOK
  <2>2. QED BY <2>1 DEF FoundSoFar, Whites, Blacks
<1>5. QED BY <1>1, <1>2, <1>3, <1>4

LEMMA NetworksKeep ==
    ASSUME FilterIInv, SetNetworks PROVE FilterIInv'
<1> USE DEF FilterIInv, SetNetworks
<1>1. FilterTypeOK' BY DEF FilterTypeOK, SetterActs
<1>2. SetterAhead' BY DEF SetterAhead, NotChecking
<1>3. ReadsInForce' BY DEF ReadsInForce, SetterAhead, Whites, Blacks
<1>4. FoundSoFar' BY DEF FoundSoFar, Whites, Blacks
<1>5. QED BY <1>1, <1>2, <1>3, <1>4

(* A check that begins, reads or ends.                                      *)
LEMMA ChecksKeep ==
    ASSUME FilterIInv, NEW t \in FilterThreads,
           CheckUnparsed(t) \/ CheckRead(t) \/ CheckEnd(t) \/ \E h \in Hosts : CheckStart(t, h)
    PROVE  FilterIInv'
<1> USE DEF FilterIInv
<1>1. CASE CheckUnparsed(t)
  <2> USE <1>1 DEF CheckUnparsed, filterLists
  <2>1. FilterTypeOK' BY DEF FilterTypeOK, Checks, Clients
  <2>2. SetterAhead' BY DEF SetterAhead
  <2>3. ReadsInForce' BY DEF ReadsInForce, Whites, Blacks, FilterTypeOK
  <2>4. FoundSoFar' BY DEF FoundSoFar, Whites, Blacks, FilterTypeOK, Allows
  <2>5. QED BY <2>1, <2>2, <2>3, <2>4
<1>2. CASE CheckRead(t)
  <2> USE <1>2 DEF CheckRead, filterLists
  <2>1. FilterTypeOK' BY DEF FilterTypeOK, Checks, NoCheck, Reads
  <2>2. SetterAhead' BY DEF SetterAhead
  <2>3. ReadsInForce' BY DEF ReadsInForce, Whites, Blacks, FilterTypeOK, Reads, Checks, NoCheck
  <2>4. FoundSoFar'
    <3> SUFFICES ASSUME NEW u \in FilterThreads
                 PROVE  /\ check'[u].pc \in {"any", "white", "passed"} =>
                              \E l \in Blacks(u) : check'[u].client \notin l
                        /\ check'[u].pc = "passed" =>
                              \E l \in Whites(u) : l = {} \/ check'[u].client \in l
      BY DEF FoundSoFar, Blacks, Whites
    <3>1. CASE u # t BY <3>1 DEF FoundSoFar, FilterTypeOK
    <3>2. CASE u = t
      <4>1. blackNets \in Blacks(t) /\ whiteNets \in Whites(t) BY DEF ReadsInForce
      <4>2. check'[t].pc = Reads(check[t].client, check[t].pc) /\ check'[t].client = check[t].client
        BY DEF FilterTypeOK, Checks, NoCheck
      <4>3. QED BY <3>2, <4>1, <4>2 DEF FoundSoFar, Reads
    <3>3. QED BY <3>1, <3>2
  <2>5. QED BY <2>1, <2>2, <2>3, <2>4
<1>3. CASE CheckEnd(t)
  <2> USE <1>3 DEF CheckEnd, filterLists, NoCheck
  <2>1. FilterTypeOK' BY DEF FilterTypeOK, Checks
  <2>2. SetterAhead' BY DEF SetterAhead
  <2>3. ReadsInForce' BY DEF ReadsInForce, Whites, Blacks, FilterTypeOK
  <2>4. FoundSoFar' BY DEF FoundSoFar, Whites, Blacks, FilterTypeOK
  <2>5. QED BY <2>1, <2>2, <2>3, <2>4
<1>4. ASSUME NEW h \in Hosts, CheckStart(t, h) PROVE FilterIInv'
  <2> USE <1>4 DEF CheckStart, filterLists
  <2>1. FilterTypeOK' BY DEF FilterTypeOK, Checks, Clients
  <2>2. SetterAhead' BY DEF SetterAhead
  <2>3. ReadsInForce'
    <3>1. inForce'[t] = {<<whiteRaw, blackRaw>>, <<whiteNets, blackNets>>} BY DEF FilterTypeOK
    <3>2. <<whiteRaw, blackRaw>> \in inForce'[t] /\ <<whiteNets, blackNets>> \in inForce'[t] BY <3>1
    <3>3. /\ <<whiteRaw, blackRaw>>[1] = whiteRaw /\ <<whiteRaw, blackRaw>>[2] = blackRaw
          /\ <<whiteNets, blackNets>>[1] = whiteNets /\ <<whiteNets, blackNets>>[2] = blackNets
      OBVIOUS
    <3>4. {whiteRaw, whiteNets} \subseteq Whites(t)' /\ {blackRaw, blackNets} \subseteq Blacks(t)'
      BY <3>2, <3>3 DEF Whites, Blacks
    <3>5. QED BY <3>4 DEF ReadsInForce, FilterTypeOK, Whites, Blacks
  <2>4. FoundSoFar' BY DEF FoundSoFar, Whites, Blacks, FilterTypeOK
  <2>5. QED BY <2>1, <2>2, <2>3, <2>4
<1>5. QED BY <1>1, <1>2, <1>3, <1>4

LEMMA FilterInduction == FilterIInv /\ [FilterNext]_filterVars => FilterIInv'
<1> SUFFICES ASSUME FilterIInv, [FilterNext]_filterVars PROVE FilterIInv' OBVIOUS
<1>1. CASE UNCHANGED filterVars
  BY <1>1 DEF filterVars, filterLists, FilterIInv, FilterTypeOK, SetterAhead, ReadsInForce, FoundSoFar,
              Whites, Blacks
<1>2. CASE FilterNext BY <1>2, StringsKeep, NetworksKeep, ChecksKeep DEF FilterNext
<1>3. QED BY <1>1, <1>2

(* A client is let in only by lists in force during its check, however its  *)
(* reads fall among the assignments (IPFilter.is_allowed() and the setters).*)
THEOREM ListsAdmit == FilterSpec => []AdmittedByLists
<1>1. FilterIInv => AdmittedByLists
  BY DEF FilterIInv, FoundSoFar, AdmittedByLists, Whites, Blacks
<1>2. QED BY <1>1, FilterStarts, FilterInduction, PTL DEF FilterSpec

-----------------------------------------------------------------------------
(***************************************************************************)
(* Login limits. Failures are compared by a matching: Within says that     *)
(* each entry of one list of times has one of its own, of the same time,   *)
(* in another. The invariant matches the failures an attempt may answer    *)
(* for with those that were counted.                                       *)
(***************************************************************************)

Within(f, g) ==
    \E h \in [DOMAIN f -> DOMAIN g] :
        /\ \A x, y \in DOMAIN f : h[x] = h[y] => x = y
        /\ \A x \in DOMAIN f : g[h[x]] = f[x]

LEMMA WithinIsTransitive ==
    ASSUME NEW e, NEW f, NEW g, Within(e, f), Within(f, g)
    PROVE  Within(e, g)
<1>1. PICK h \in [DOMAIN e -> DOMAIN f] :
         /\ \A x, y \in DOMAIN e : h[x] = h[y] => x = y
         /\ \A x \in DOMAIN e : f[h[x]] = e[x]
  BY DEF Within
<1>2. PICK k \in [DOMAIN f -> DOMAIN g] :
         /\ \A x, y \in DOMAIN f : k[x] = k[y] => x = y
         /\ \A x \in DOMAIN f : g[k[x]] = f[x]
  BY DEF Within
<1> DEFINE m == [x \in DOMAIN e |-> k[h[x]]]
<1>3. m \in [DOMAIN e -> DOMAIN g] BY <1>1, <1>2
<1>4. \A x, y \in DOMAIN e : m[x] = m[y] => x = y BY <1>1, <1>2
<1>5. \A x \in DOMAIN e : g[m[x]] = e[x] BY <1>1, <1>2
<1>6. QED BY <1>3, <1>4, <1>5 DEF Within

LEMMA WithinPart ==
    ASSUME NEW f, NEW g, DOMAIN f \subseteq DOMAIN g, \A x \in DOMAIN f : g[x] = f[x]
    PROVE  Within(f, g)
<1> DEFINE h == [x \in DOMAIN f |-> x]
<1>1. h \in [DOMAIN f -> DOMAIN g] OBVIOUS
<1>2. QED BY <1>1 DEF Within

LEMMA WithinCounts ==
    ASSUME NEW f, NEW g, Within(f, g), IsFiniteSet(DOMAIN g)
    PROVE  IsFiniteSet(DOMAIN f) /\ Cardinality(DOMAIN f) <= Cardinality(DOMAIN g)
<1>1. PICK h \in [DOMAIN f -> DOMAIN g] : \A x, y \in DOMAIN f : h[x] = h[y] => x = y BY DEF Within
<1>2. h \in Injection(DOMAIN f, DOMAIN g) BY <1>1, Fun_IsInj
<1>3. QED BY <1>2, FS_Injection

-----------------------------------------------------------------------------
(* The places of a list whose times count at c with window w, and the times.*)
Counts(s, w, c)  == {i \in DOMAIN s : c - s[i] < w}
Times(s, w, c) == [i \in Counts(s, w, c) |-> s[i]]

Sorted(s) == \A i, j \in DOMAIN s : i < j => s[i] <= s[j]

LEMMA LiveIsFinite ==
    ASSUME NEW T, NEW s \in Seq(T), NEW w, NEW c
    PROVE  IsFiniteSet(Counts(s, w, c)) /\ Cardinality(Counts(s, w, c)) \in Nat
<1>1. DOMAIN s = 1..Len(s) /\ Len(s) \in Nat OBVIOUS
<1>2. IsFiniteSet(DOMAIN s) BY <1>1, FS_Interval
<1>3. QED BY <1>2, FS_Subset, FS_CardinalityType DEF Counts

LEMMA KeptLength ==
    ASSUME NEW T, NEW s \in Seq(T), NEW w, NEW c
    PROVE  Len(Kept(s, Counts(s, w, c))) = Cardinality(Counts(s, w, c))
<1>1. Counts(s, w, c) \cap DOMAIN s = Counts(s, w, c) BY DEF Counts
<1> DEFINE n == Cardinality(Counts(s, w, c))
           t == Kept(s, Counts(s, w, c))
<1>2. n \in Nat BY LiveIsFinite
<1>3. DOMAIN t = 1..n BY <1>1 DEF Kept
<1>4. t \in Seq(T) BY KeptOf
<1> HIDE DEF t, n
<1>5. Len(t) \in Nat /\ DOMAIN t = 1..Len(t) BY <1>4
<1>6. Len(t) = n BY <1>2, <1>3, <1>5
<1>7. QED BY <1>6 DEF t, n

(* Dropping what counts no more changes nothing that counts.                *)
LEMMA RecentWithin ==
    ASSUME NEW s \in Seq(Nat), NEW w \in Nat, NEW c \in Nat
    PROVE  /\ Kept(s, Counts(s, w, c)) \in Seq(Nat)
           /\ Sorted(s) => Sorted(Kept(s, Counts(s, w, c)))
           /\ Within(Times(Kept(s, Counts(s, w, c)), w, c), Times(s, w, c))
           /\ Within(Times(s, w, c), Times(Kept(s, Counts(s, w, c)), w, c))
<1> DEFINE I == Counts(s, w, c)
           t == Kept(s, I)
<1>1. t \in Seq(Nat) BY KeptOf
<1>2. PICK h \in [DOMAIN t -> I] :
         /\ \A k \in DOMAIN t : t[k] = s[h[k]]
         /\ \A k, l \in DOMAIN t : k < l => h[k] < h[l]
         /\ \A i \in I : \E k \in DOMAIN t : h[k] = i
  <2>1. I \cap DOMAIN s = I BY DEF Counts
  <2>2. PICK h : IsPlaces(h, s, I) BY KeptPlaces
  <2> HIDE DEF I
  <2>3. QED BY <2>1, <2>2 DEF IsPlaces
<1>3. I \subseteq DOMAIN s /\ \A i \in I : c - s[i] < w BY DEF Counts
<1> HIDE DEF t, I
<1>4. DOMAIN t \subseteq Nat /\ DOMAIN s \subseteq Nat BY <1>1
<1>5. \A k, l \in DOMAIN t : h[k] = h[l] => k = l
  <2>1. ASSUME NEW k \in DOMAIN t, NEW l \in DOMAIN t, h[k] = h[l] PROVE k = l
    <3>1. k \in Nat /\ l \in Nat /\ h[k] \in Nat /\ h[l] \in Nat BY <1>2, <1>3, <1>4
    <3>2. ~(k < l) /\ ~(l < k) BY <1>2, <2>1, <3>1
    <3>3. QED BY <3>1, <3>2
  <2>2. QED BY <2>1
<1>6. Counts(t, w, c) = DOMAIN t BY <1>2, <1>3 DEF Counts
<1>7. Sorted(s) => Sorted(t) BY <1>2, <1>3 DEF Sorted
<1>8. DOMAIN Times(t, w, c) = DOMAIN t /\ DOMAIN Times(s, w, c) = I
      /\ (\A k \in DOMAIN t : Times(t, w, c)[k] = t[k]) /\ (\A i \in I : Times(s, w, c)[i] = s[i])
  BY <1>6 DEF Times, I
<1>9. Within(Times(t, w, c), Times(s, w, c)) BY <1>2, <1>5, <1>8 DEF Within
<1>10. Within(Times(s, w, c), Times(t, w, c))
  <2> DEFINE g == [i \in I |-> CHOOSE k \in DOMAIN t : h[k] = i]
  <2>1. \A i \in I : g[i] \in DOMAIN t /\ h[g[i]] = i BY <1>2
  <2>2. g \in [I -> DOMAIN t] BY <2>1
  <2> HIDE DEF g
  <2>3. \A i, j \in I : g[i] = g[j] => i = j BY <2>1
  <2>4. \A i \in I : t[g[i]] = s[i] BY <1>2, <2>1
  <2>5. QED BY <1>8, <2>2, <2>3, <2>4 DEF Within
<1>11. QED BY <1>1, <1>7, <1>9, <1>10 DEF t, I

-----------------------------------------------------------------------------
(* The failures of an address with every name: a name and a place.          *)
Every == Names \cup {NoName}

Fails(ps, w, c, ip)     == UNION {{n} \X Counts(ps[<<ip, n>>], w, c) : n \in Every}
FailTimes(ps, w, c, ip) == [f \in Fails(ps, w, c, ip) |-> ps[<<ip, f[1]>>][f[2]]]

LEMMA FailsAre ==
    ASSUME NEW ps, NEW w, NEW c, NEW ip
    PROVE  /\ \A f \in Fails(ps, w, c, ip) :
                f = <<f[1], f[2]>> /\ f[1] \in Every /\ f[2] \in Counts(ps[<<ip, f[1]>>], w, c)
           /\ \A n \in Every : \A i \in Counts(ps[<<ip, n>>], w, c) : <<n, i>> \in Fails(ps, w, c, ip)
<1>1. ASSUME NEW f \in Fails(ps, w, c, ip)
      PROVE  f = <<f[1], f[2]>> /\ f[1] \in Every /\ f[2] \in Counts(ps[<<ip, f[1]>>], w, c)
  <2>1. PICK n \in Every : f \in {n} \X Counts(ps[<<ip, n>>], w, c) BY DEF Fails
  <2>2. PICK i \in Counts(ps[<<ip, n>>], w, c) : f = <<n, i>> BY <2>1
  <2>3. QED BY <2>2
<1>2. ASSUME NEW n \in Every, NEW i \in Counts(ps[<<ip, n>>], w, c) PROVE <<n, i>> \in Fails(ps, w, c, ip)
  <2>1. <<n, i>> \in {n} \X Counts(ps[<<ip, n>>], w, c) OBVIOUS
  <2>2. QED BY <2>1 DEF Fails
<1>3. QED BY <1>1, <1>2

LEMMA FewerFailures ==
    ASSUME NEW ps, NEW qs, NEW w, NEW c, NEW ip,
           \A n \in Every : Within(Times(qs[<<ip, n>>], w, c), Times(ps[<<ip, n>>], w, c))
    PROVE  Within(FailTimes(qs, w, c, ip), FailTimes(ps, w, c, ip))
<1> DEFINE F(n) == Times(qs[<<ip, n>>], w, c)
           G(n) == Times(ps[<<ip, n>>], w, c)
           IsMatch(h, n) == /\ h \in [DOMAIN F(n) -> DOMAIN G(n)]
                            /\ \A x, y \in DOMAIN F(n) : h[x] = h[y] => x = y
                            /\ \A x \in DOMAIN F(n) : G(n)[h[x]] = F(n)[x]
           H == [n \in Every |-> CHOOSE h : IsMatch(h, n)]
           m == [f \in Fails(qs, w, c, ip) |-> <<f[1], H[f[1]][f[2]]>>]
<1>1. \A n \in Every : \E h : IsMatch(h, n) BY ZenonT(40) DEF Within
<1>2. \A n \in Every : IsMatch(H[n], n)
  <2> HIDE DEF IsMatch
  <2>1. QED BY <1>1
<1> HIDE DEF H
<1>3. \A n \in Every : DOMAIN F(n) = Counts(qs[<<ip, n>>], w, c) /\ DOMAIN G(n) = Counts(ps[<<ip, n>>], w, c)
  BY DEF Times
<1>4. \A n \in Every : /\ \A i \in Counts(qs[<<ip, n>>], w, c) :
                             /\ H[n][i] \in Counts(ps[<<ip, n>>], w, c)
                             /\ ps[<<ip, n>>][H[n][i]] = qs[<<ip, n>>][i]
                       /\ \A i, j \in Counts(qs[<<ip, n>>], w, c) : H[n][i] = H[n][j] => i = j
  BY <1>2, <1>3, ZenonT(40) DEF Times
<1>5. m \in [Fails(qs, w, c, ip) -> Fails(ps, w, c, ip)]
  <2>1. ASSUME NEW f \in Fails(qs, w, c, ip) PROVE <<f[1], H[f[1]][f[2]]>> \in Fails(ps, w, c, ip)
    BY <1>4, FailsAre, ZenonT(40)
  <2>2. QED BY <2>1
<1>6. ASSUME NEW f \in Fails(qs, w, c, ip), NEW e \in Fails(qs, w, c, ip), m[f] = m[e] PROVE f = e
  <2>1. f[1] = e[1] /\ H[f[1]][f[2]] = H[e[1]][e[2]] BY <1>6
  <2>2. /\ f = <<f[1], f[2]>> /\ f[1] \in Every /\ f[2] \in Counts(qs[<<ip, f[1]>>], w, c)
        /\ e = <<e[1], e[2]>> /\ e[1] \in Every /\ e[2] \in Counts(qs[<<ip, e[1]>>], w, c)
    BY FailsAre
  <2>3. H[f[1]][f[2]] = H[f[1]][e[2]] /\ e[2] \in Counts(qs[<<ip, f[1]>>], w, c) BY <2>1, <2>2
  <2>4. f[2] = e[2] BY <1>4, <2>2, <2>3
  <2>5. QED BY <2>1, <2>2, <2>4
<1>7. ASSUME NEW f \in Fails(qs, w, c, ip)
      PROVE  FailTimes(ps, w, c, ip)[m[f]] = FailTimes(qs, w, c, ip)[f]
  <2>1. m[f] \in Fails(ps, w, c, ip) /\ m[f] = <<f[1], H[f[1]][f[2]]>> BY <1>5, <1>7
  <2>2. ps[<<ip, f[1]>>][H[f[1]][f[2]]] = qs[<<ip, f[1]>>][f[2]] BY <1>4, FailsAre
  <2>3. QED BY <2>1, <2>2 DEF FailTimes
<1>8. DOMAIN FailTimes(qs, w, c, ip) = Fails(qs, w, c, ip) /\ DOMAIN FailTimes(ps, w, c, ip) = Fails(ps, w, c, ip)
  BY DEF FailTimes
<1> HIDE DEF m
<1>9. QED BY <1>5, <1>6, <1>7, <1>8 DEF Within

(* A tick ends some failures of the pairs, and of the address no other.     *)
LEMMA TickWithin ==
    ASSUME NEW ps, NEW a, NEW w \in Nat, NEW v \in Nat, NEW c \in Nat, w <= v, NEW ip,
           a \in Seq(Nat), \A n \in Every : ps[<<ip, n>>] \in Seq(Nat),
           Within(FailTimes(ps, w, c, ip), Times(a, v, c))
    PROVE  Within(FailTimes(ps, w, c + 1, ip), Times(a, v, c + 1))
<1> DEFINE F == FailTimes(ps, w, c, ip)
           G == Times(a, v, c)
           F1 == FailTimes(ps, w, c + 1, ip)
           G1 == Times(a, v, c + 1)
<1>1. PICK h \in [DOMAIN F -> DOMAIN G] :
         /\ \A x, y \in DOMAIN F : h[x] = h[y] => x = y
         /\ \A x \in DOMAIN F : G[h[x]] = F[x]
  BY DEF Within
<1>2. ASSUME NEW f \in DOMAIN F1 PROVE f \in DOMAIN F /\ F1[f] = F[f] /\ F1[f] \in Nat /\ c + 1 - F1[f] < w
  <2>1. f = <<f[1], f[2]>> /\ f[1] \in Every /\ f[2] \in Counts(ps[<<ip, f[1]>>], w, c + 1) BY FailsAre DEF FailTimes
  <2>2. ps[<<ip, f[1]>>][f[2]] \in Nat /\ c + 1 - ps[<<ip, f[1]>>][f[2]] < w BY <2>1, SMTT(30) DEF Counts
  <2>3. f[2] \in Counts(ps[<<ip, f[1]>>], w, c) BY <2>1, <2>2 DEF Counts
  <2>4. f \in Fails(ps, w, c, ip) BY <2>1, <2>3, FailsAre
  <2>5. QED BY <2>2, <2>4 DEF FailTimes
<1>3. ASSUME NEW i \in DOMAIN G, c + 1 - G[i] < w PROVE i \in DOMAIN G1 /\ G1[i] = G[i]
  <2>1. i \in DOMAIN a /\ G[i] = a[i] /\ a[i] \in Nat BY DEF Times, Counts
  <2>2. c + 1 - a[i] < v BY <1>3, <2>1
  <2>3. i \in Counts(a, v, c + 1) BY <2>1, <2>2 DEF Counts
  <2>4. QED BY <2>1, <2>3 DEF Times
<1> HIDE DEF F, G, F1, G1
<1> DEFINE m == [f \in DOMAIN F1 |-> h[f]]
<1>4. \A f \in DOMAIN F1 : m[f] \in DOMAIN G1 /\ G1[m[f]] = F1[f] BY <1>1, <1>2, <1>3
<1>5. m \in [DOMAIN F1 -> DOMAIN G1] BY <1>4
<1>6. \A f, e \in DOMAIN F1 : m[f] = m[e] => f = e BY <1>1, <1>2
<1>7. Within(F1, G1) BY <1>4, <1>5, <1>6 DEF Within
<1>8. QED BY <1>7 DEF F1, G1

(* A failure that is recorded counts once more for both.                    *)
CountsOneMore(s, w, c) ==
    /\ Append(s, c) \in Seq(Nat)
    /\ Len(s) + 1 \notin Counts(s, w, c)
    /\ Counts(Append(s, c), w, c) = Counts(s, w, c) \cup {Len(s) + 1}
    /\ Append(s, c)[Len(s) + 1] = c
    /\ \A i \in Counts(s, w, c) : Append(s, c)[i] = s[i]

LEMMA LiveAppend ==
    ASSUME NEW s \in Seq(Nat), NEW w \in Nat \ {0}, NEW c \in Nat
    PROVE  CountsOneMore(s, w, c)
<1>1. DOMAIN s = 1..Len(s) /\ Len(s) \in Nat /\ DOMAIN Append(s, c) = 1..(Len(s) + 1) OBVIOUS
<1>2. (\A i \in 1..Len(s) : Append(s, c)[i] = s[i]) /\ Append(s, c)[Len(s) + 1] = c OBVIOUS
<1>3. \A i \in 1..(Len(s) + 1) : i \in 1..Len(s) \/ i = Len(s) + 1 BY <1>1
<1>4. c - c < w /\ \A i \in 1..Len(s) : i \in 1..(Len(s) + 1) BY <1>1
<1>5. Len(s) + 1 \in 1..(Len(s) + 1) /\ Len(s) + 1 \notin 1..Len(s) BY <1>1
<1>6. Counts(Append(s, c), w, c) \subseteq Counts(s, w, c) \cup {Len(s) + 1} BY <1>1, <1>2, <1>3 DEF Counts
<1>7. Counts(s, w, c) \cup {Len(s) + 1} \subseteq Counts(Append(s, c), w, c) BY <1>1, <1>2, <1>4, <1>5 DEF Counts
<1>8. QED BY <1>1, <1>2, <1>5, <1>6, <1>7 DEF Counts, CountsOneMore

LEMMA FailWithin ==
    ASSUME NEW ps \in [Keys -> Seq(Nat)], NEW qs, NEW a \in Seq(Nat), NEW ip \in Addresses, NEW n \in Every,
           NEW w \in Nat \ {0}, NEW v \in Nat \ {0}, NEW c \in Nat,
           qs = [ps EXCEPT ![<<ip, n>>] = Append(@, c)],
           Within(FailTimes(ps, w, c, ip), Times(a, v, c))
    PROVE  Within(FailTimes(qs, w, c, ip), Times(Append(a, c), v, c))
<1> DEFINE F == FailTimes(ps, w, c, ip)
           G == Times(a, v, c)
           F1 == FailTimes(qs, w, c, ip)
           G1 == Times(Append(a, c), v, c)
           s == ps[<<ip, n>>]
           f0 == <<n, Len(s) + 1>>
           i0 == Len(a) + 1
<1>1. PICK h \in [DOMAIN F -> DOMAIN G] :
         /\ \A x, y \in DOMAIN F : h[x] = h[y] => x = y
         /\ \A x \in DOMAIN F : G[h[x]] = F[x]
  BY DEF Within
<1>2. /\ i0 \notin DOMAIN G /\ DOMAIN G1 = DOMAIN G \cup {i0}
      /\ G1[i0] = c /\ \A i \in DOMAIN G : G1[i] = G[i]
  <2>1. /\ i0 \notin Counts(a, v, c) /\ Counts(Append(a, c), v, c) = Counts(a, v, c) \cup {i0}
        /\ Append(a, c)[i0] = c /\ \A i \in Counts(a, v, c) : Append(a, c)[i] = a[i]
    <3>1. CountsOneMore(a, v, c) BY LiveAppend
    <3>2. QED BY <3>1 DEF CountsOneMore
  <2>2. DOMAIN G = Counts(a, v, c) /\ DOMAIN G1 = Counts(Append(a, c), v, c) BY DEF Times
  <2>3. (\A i \in DOMAIN G : G[i] = a[i]) /\ (\A i \in DOMAIN G1 : G1[i] = Append(a, c)[i]) BY DEF Times
  <2> HIDE DEF G, G1, i0
  <2>4. QED BY <2>1, <2>2, <2>3
<1>3. <<ip, n>> \in Keys /\ s \in Seq(Nat) /\ qs[<<ip, n>>] = Append(s, c)
  BY DEF Keys, Every
<1>3a. CountsOneMore(s, w, c) BY <1>3, LiveAppend
<1>4. \A x \in Every : x # n => qs[<<ip, x>>] = ps[<<ip, x>>]
  BY <1>3 DEF Keys, Every
<1>5. ASSUME NEW f \in DOMAIN F1
      PROVE  \/ f = f0 /\ F1[f] = c
             \/ f \in DOMAIN F /\ F1[f] = F[f]
  <2>1. f \in Fails(qs, w, c, ip) /\ F1[f] = qs[<<ip, f[1]>>][f[2]] BY DEF FailTimes
  <2>2. f = <<f[1], f[2]>> /\ f[1] \in Every /\ f[2] \in Counts(qs[<<ip, f[1]>>], w, c)
    BY ONLY <2>1, FailsAre
  <2>3. CASE f[1] = n
    <3>1. f[2] \in Counts(Append(s, c), w, c) BY <1>3, <2>2, <2>3
    <3>2. f[2] \in Counts(s, w, c) \/ f[2] = Len(s) + 1 BY <1>3a, <3>1 DEF CountsOneMore
    <3>3. CASE f[2] = Len(s) + 1 BY <1>3, <1>3a, <2>1, <2>2, <2>3, <3>3 DEF CountsOneMore
    <3>4. CASE f[2] \in Counts(s, w, c)
      <4>1. f \in Fails(ps, w, c, ip) BY <2>2, <2>3, <3>4, FailsAre
      <4>2. F1[f] = s[f[2]]
        <5>1. F1[f] = Append(s, c)[f[2]] BY <1>3, <2>1, <2>3
        <5>2. Append(s, c)[f[2]] = s[f[2]] BY <1>3a, <3>4 DEF CountsOneMore
        <5>3. QED BY <5>1, <5>2
      <4>3. QED BY <2>3, <4>1, <4>2 DEF FailTimes
    <3>5. QED BY <3>2, <3>3, <3>4
  <2>4. CASE f[1] # n
    <3>1. f[2] \in Counts(ps[<<ip, f[1]>>], w, c) /\ F1[f] = ps[<<ip, f[1]>>][f[2]] BY <1>4, <2>1, <2>2, <2>4
    <3>2. f \in Fails(ps, w, c, ip) BY <2>2, <3>1, FailsAre
    <3>3. QED BY <3>1, <3>2 DEF FailTimes
  <2>5. QED BY <2>3, <2>4
<1>6. f0 \notin DOMAIN F
  <2>1. SUFFICES ASSUME f0 \in Fails(ps, w, c, ip) PROVE FALSE BY DEF FailTimes
  <2>2. f0[2] \in Counts(ps[<<ip, f0[1]>>], w, c) BY <2>1, FailsAre
  <2>3. Len(s) + 1 \in Counts(s, w, c) BY <2>2
  <2>4. QED BY <1>3a, <2>3 DEF CountsOneMore
<1> HIDE DEF F, G, F1, G1, f0, i0
<1> DEFINE m == [f \in DOMAIN F1 |-> IF f = f0 THEN i0 ELSE h[f]]
<1>7. \A f \in DOMAIN F1 : m[f] \in DOMAIN G1 /\ G1[m[f]] = F1[f]
  <2>1. ASSUME NEW f \in DOMAIN F1 PROVE m[f] \in DOMAIN G1 /\ G1[m[f]] = F1[f]
    <3>1. CASE f = f0
      <4>1. F1[f] = c BY <1>5, <1>6, <3>1
      <4>2. QED BY <1>2, <3>1, <4>1
    <3>2. CASE f # f0
      <4>1. f \in DOMAIN F /\ F1[f] = F[f] BY <1>5, <3>2
      <4>2. m[f] = h[f] /\ h[f] \in DOMAIN G /\ G[h[f]] = F[f] BY <1>1, <3>2, <4>1
      <4>3. QED BY <1>2, <4>1, <4>2
    <3>3. QED BY <3>1, <3>2
  <2>2. QED BY <2>1
<1>8. m \in [DOMAIN F1 -> DOMAIN G1] BY <1>7
<1>9. ASSUME NEW f \in DOMAIN F1, NEW e \in DOMAIN F1, m[f] = m[e] PROVE f = e
  <2>1. \A x \in DOMAIN F1 : x # f0 => x \in DOMAIN F /\ m[x] = h[x] /\ h[x] \in DOMAIN G BY <1>1, <1>5
  <2>2. \A x \in DOMAIN F1 : x = f0 => m[x] = i0 OBVIOUS
  <2> HIDE DEF m
  <2>3. QED BY <1>1, <1>2, <1>9, <2>1, <2>2
<1> HIDE DEF m
<1>10. Within(F1, G1) BY <1>7, <1>8, <1>9 DEF Within
<1>11. QED BY <1>10 DEF F1, G1

-----------------------------------------------------------------------------
Logins == [pc : {"idle"}] \cup [pc : {"checked"}, key : Keys]

Checked(k) == {t \in LoginThreads : login[t].pc = "checked" /\ login[t].key = k}

LimTypes ==
    /\ limClock \in Nat /\ limits \in LimitSettings /\ limTuned \in BOOLEAN
    /\ pairs \in [Keys -> Seq(Nat)] /\ addresses \in [Addresses -> Seq(Nat)]
    /\ login \in [LoginThreads -> Logins]

(* Failures are recorded in order, and none is later than now.              *)
InOrder ==
    \A ip \in Addresses :
        Sorted(addresses[ip]) /\ \A i \in DOMAIN addresses[ip] : addresses[ip][i] <= limClock

Count(k) == Cardinality(Counts(pairs[k], limits.window, limClock))

FewOver ==
    limTuned \/ \A k \in Keys :
        Count(k) + Cardinality(Checked(k)) <= limits.max - 1 + Cardinality(LoginThreads)

AllMatched ==
    limTuned \/ limits.window > limits.ipWindow \/ \A ip \in Addresses :
        Within(FailTimes(pairs, limits.window, limClock, ip),
               Times(addresses[ip], limits.ipWindow, limClock))

LimInv == LimTypes /\ InOrder /\ FewOver /\ AllMatched

LEMMA SettingsAre ==
    ASSUME LimTypes
    PROVE  /\ limits.max \in Nat \ {0} /\ limits.window \in Nat \ {0}
           /\ limits.ipMax \in Nat \ {0} /\ limits.ipWindow \in Nat \ {0}
BY LimAssumption DEF LimTypes

LEMMA CheckedFinite ==
    \A k : IsFiniteSet(Checked(k)) /\ Cardinality(Checked(k)) \in Nat
            /\ Cardinality(Checked(k)) <= Cardinality(LoginThreads)
<1>1. IsFiniteSet(LoginThreads) /\ \A k : Checked(k) \subseteq LoginThreads BY LimAssumption DEF Checked
<1>2. QED BY <1>1, FS_Subset, FS_CardinalityType

LEMMA CountIsPairCount ==
    ASSUME LimTypes
    PROVE  /\ \A k \in Keys : PairCount(k) = Count(k) /\ Count(k) \in Nat
           /\ \A ip \in Addresses :
                 AddrCount(ip) = Cardinality(Counts(addresses[ip], limits.ipWindow, limClock))
<1>1. \A s, w : Counting(s, w) = Counts(s, w, limClock) BY DEF Counting, Counts
<1>2. ASSUME NEW k \in Keys PROVE PairCount(k) = Count(k) /\ Count(k) \in Nat
  <2>1. pairs[k] \in Seq(Nat) BY DEF LimTypes
  <2>2. Len(Kept(pairs[k], Counts(pairs[k], limits.window, limClock))) = Count(k) BY <2>1, KeptLength DEF Count
  <2>3. QED BY <1>1, <2>1, <2>2, LiveIsFinite DEF PairCount, Recent, Count
<1>3. ASSUME NEW ip \in Addresses
      PROVE  AddrCount(ip) = Cardinality(Counts(addresses[ip], limits.ipWindow, limClock))
  <2>1. addresses[ip] \in Seq(Nat) BY DEF LimTypes
  <2>2. QED BY <1>1, <2>1, KeptLength DEF AddrCount, Recent
<1>4. QED BY <1>2, <1>3

LEMMA LimPromised == LimInv => LimitHolds
<1> SUFFICES ASSUME LimInv PROVE LimitHolds OBVIOUS
<1>1. LimTypes BY DEF LimInv
<1>2. Overshoot
  BY <1>1, CountIsPairCount DEF LimInv, FewOver, Overshoot, Checked
<1>3. ASSUME ~limTuned, ~(limits.window > limits.ipWindow), NEW ip \in Addresses
      PROVE  AddrCount(ip) >= Cardinality(
                 UNION {{n} \X Counting(pairs[<<ip, n>>], limits.window) : n \in Names \cup {NoName}})
  <2> DEFINE F == FailTimes(pairs, limits.window, limClock, ip)
             G == Times(addresses[ip], limits.ipWindow, limClock)
  <2>1. Within(F, G) BY <1>3 DEF LimInv, AllMatched
  <2>2. DOMAIN F = Fails(pairs, limits.window, limClock, ip)
        /\ DOMAIN G = Counts(addresses[ip], limits.ipWindow, limClock)
    BY DEF FailTimes, Times
  <2>3. IsFiniteSet(DOMAIN G) BY <1>1, <2>2, LiveIsFinite DEF LimTypes
  <2>4. Cardinality(DOMAIN F) <= Cardinality(DOMAIN G) /\ IsFiniteSet(DOMAIN F) BY <2>1, <2>3, WithinCounts
  <2>5. Fails(pairs, limits.window, limClock, ip) =
          UNION {{n} \X Counting(pairs[<<ip, n>>], limits.window) : n \in Names \cup {NoName}}
    BY DEF Fails, Every, Counting, Counts
  <2>6. AddrCount(ip) = Cardinality(DOMAIN G) BY <1>1, <2>2, CountIsPairCount
  <2>7. Cardinality(DOMAIN F) \in Nat /\ Cardinality(DOMAIN G) \in Nat BY <2>3, <2>4, FS_CardinalityType
  <2> HIDE DEF F, G
  <2>8. QED BY <2>2, <2>4, <2>5, <2>6, <2>7
<1>4. AddressCountsAll BY <1>3 DEF AddressCountsAll
<1>5. QED BY <1>2, <1>4 DEF LimitHolds

-----------------------------------------------------------------------------
(* What a step owes to each of the two, when the limits are not changed.    *)
LEMMA FewOverKept ==
    ASSUME LimInv, LimTypes', UNCHANGED <<limits, limTuned>>,
           \A k \in Keys : Within(Times(pairs'[k], limits.window, limClock'), Times(pairs[k], limits.window, limClock)),
           \A k \in Keys : Checked(k)' \subseteq Checked(k) \/ Count(k) <= limits.max - 1
    PROVE  FewOver'
<1>1. ASSUME NEW k \in Keys, ~limTuned
      PROVE  Count(k)' + Cardinality(Checked(k)') <= limits.max - 1 + Cardinality(LoginThreads)
  <2>1. Cardinality(LoginThreads) \in Nat BY LimAssumption, FS_CardinalityType
  <2>2. /\ IsFiniteSet(Checked(k)) /\ Cardinality(Checked(k)) \in Nat
        /\ IsFiniteSet(Checked(k)') /\ Cardinality(Checked(k)') \in Nat
        /\ Cardinality(Checked(k)') <= Cardinality(LoginThreads)
    BY CheckedFinite, LimAssumption, FS_Subset, FS_CardinalityType DEF Checked
  <2>3. limits.max \in Nat \ {0} BY SettingsAre DEF LimInv
  <2>4. Count(k)' <= Count(k) /\ Count(k)' \in Nat /\ Count(k) \in Nat
    <3>1. pairs[k] \in Seq(Nat) /\ pairs'[k] \in Seq(Nat) BY DEF LimInv, LimTypes
    <3> DEFINE f == Times(pairs'[k], limits.window, limClock')
               g == Times(pairs[k], limits.window, limClock)
    <3>2. DOMAIN f = Counts(pairs'[k], limits.window, limClock') /\ DOMAIN g = Counts(pairs[k], limits.window, limClock)
      BY DEF Times
    <3>3. IsFiniteSet(DOMAIN g) BY <3>1, <3>2, LiveIsFinite
    <3>4. Within(f, g) OBVIOUS
    <3>5. IsFiniteSet(DOMAIN f) /\ Cardinality(DOMAIN f) <= Cardinality(DOMAIN g) BY <3>3, <3>4, WithinCounts
    <3>6. Cardinality(DOMAIN f) \in Nat /\ Cardinality(DOMAIN g) \in Nat BY <3>3, <3>5, FS_CardinalityType
    <3> HIDE DEF f, g
    <3>7. QED BY <3>2, <3>5, <3>6 DEF Count
  <2>5. CASE Checked(k)' \subseteq Checked(k)
    <3>1. Cardinality(Checked(k)') <= Cardinality(Checked(k)) BY <2>2, <2>5, FS_Subset
    <3>2. Count(k) + Cardinality(Checked(k)) <= limits.max - 1 + Cardinality(LoginThreads)
      BY <1>1 DEF LimInv, FewOver
    <3> HIDE DEF Count
    <3>3. QED BY <2>1, <2>2, <2>3, <2>4, <3>1, <3>2
  <2>6. CASE Count(k) <= limits.max - 1
    BY <2>1, <2>2, <2>3, <2>4, <2>6
  <2>7. QED BY <2>5, <2>6
<1>2. QED BY <1>1 DEF FewOver

PairTimes(k)  == Times(pairs[k], limits.window, limClock)
AddrTimes(ip) == Times(addresses[ip], limits.ipWindow, limClock)

LEMMA AllMatchedKept ==
    ASSUME LimInv, UNCHANGED <<limits, limTuned, limClock>>,
           \A k \in Keys : Within(PairTimes(k)', PairTimes(k)),
           \A ip \in Addresses : Within(AddrTimes(ip), AddrTimes(ip)')
    PROVE  AllMatched'
<1>1. ASSUME NEW ip \in Addresses, ~limTuned, ~(limits.window > limits.ipWindow)
      PROVE  Within(FailTimes(pairs', limits.window, limClock, ip), Times(addresses'[ip], limits.ipWindow, limClock))
  <2>1. Within(FailTimes(pairs, limits.window, limClock, ip), Times(addresses[ip], limits.ipWindow, limClock))
    BY <1>1 DEF LimInv, AllMatched
  <2>2. \A n \in Every : <<ip, n>> \in Keys BY DEF Every, Keys
  <2>3. Within(FailTimes(pairs', limits.window, limClock, ip), FailTimes(pairs, limits.window, limClock, ip))
    <3>1. \A n \in Every : Within(Times(pairs'[<<ip, n>>], limits.window, limClock), Times(pairs[<<ip, n>>], limits.window, limClock))
      BY <2>2 DEF PairTimes
    <3>2. QED BY <3>1, FewerFailures
  <2>4. Within(Times(addresses[ip], limits.ipWindow, limClock), Times(addresses'[ip], limits.ipWindow, limClock))
    BY DEF AddrTimes
  <2>5. QED BY <2>1, <2>3, <2>4, WithinIsTransitive
<1>2. QED BY <1>1 DEF AllMatched

LEMMA WithinItself == \A f : Within(f, f)
BY WithinPart

LEMMA EmptyWithin == \A w, c : \A f : Within(Times(<< >>, w, c), f)
<1>1. \A w, c : DOMAIN Times(<< >>, w, c) = {} BY DEF Times, Counts
<1>2. QED BY <1>1, WithinPart

LEMMA RecentIs ==
    ASSUME LimTypes, NEW s \in Seq(Nat), NEW w \in Nat
    PROVE  /\ Recent(s, w) \in Seq(Nat)
           /\ Sorted(s) => Sorted(Recent(s, w))
           /\ Within(Times(Recent(s, w), w, limClock), Times(s, w, limClock))
           /\ Within(Times(s, w, limClock), Times(Recent(s, w), w, limClock))
           /\ \A i \in DOMAIN Recent(s, w) : \E j \in DOMAIN s : Recent(s, w)[i] = s[j]
<1>1. Recent(s, w) = Kept(s, Counts(s, w, limClock)) BY DEF Recent, Counting, Counts
<1>2. limClock \in Nat BY DEF LimTypes
<1>3. PICK h : IsPlaces(h, s, Counts(s, w, limClock)) BY KeptPlaces
<1>4. \A i \in DOMAIN Recent(s, w) : \E j \in DOMAIN s : Recent(s, w)[i] = s[j]
  BY <1>1, <1>3 DEF IsPlaces
<1>5. QED BY <1>1, <1>2, <1>4, RecentWithin

-----------------------------------------------------------------------------
LEMMA CheckKeeps ==
    ASSUME LimInv, NEW t \in LoginThreads, NEW k \in Keys, Check(t, k)
    PROVE  LimInv'
<1>1. LimTypes /\ UNCHANGED <<limClock, limits, limTuned>> BY DEF LimInv, Check
<1>2. limits.window \in Nat /\ limits.ipWindow \in Nat BY <1>1, SettingsAre
<1>3. /\ k[1] \in Addresses /\ addresses[k[1]] \in Seq(Nat) /\ pairs[k] \in Seq(Nat)
      /\ addresses' = [addresses EXCEPT ![k[1]] = Recent(addresses[k[1]], limits.ipWindow)]
      /\ pairs' \in {pairs, [pairs EXCEPT ![k] = Recent(pairs[k], limits.window)]}
      /\ \/ login' = login
         \/ ~Blocked(k) /\ login' = [login EXCEPT ![t] = [pc |-> "checked", key |-> k]]
  BY <1>1 DEF Check, Keys, LimTypes
<1>4. Recent(addresses[k[1]], limits.ipWindow) \in Seq(Nat) /\ Recent(pairs[k], limits.window) \in Seq(Nat)
  BY <1>1, <1>2, <1>3, RecentIs
<1>4a. /\ Within(Times(addresses[k[1]], limits.ipWindow, limClock),
                Times(Recent(addresses[k[1]], limits.ipWindow), limits.ipWindow, limClock))
       /\ \A i \in DOMAIN Recent(addresses[k[1]], limits.ipWindow) :
             \E j \in DOMAIN addresses[k[1]] : Recent(addresses[k[1]], limits.ipWindow)[i] = addresses[k[1]][j]
  <2>1. PICK a : a = addresses[k[1]] OBVIOUS
  <2>2. PICK w : w = limits.ipWindow OBVIOUS
  <2>3. a \in Seq(Nat) /\ w \in Nat BY <1>2, <1>3, <2>1, <2>2
  <2>4. Within(Times(a, w, limClock), Times(Recent(a, w), w, limClock))
        /\ \A i \in DOMAIN Recent(a, w) : \E j \in DOMAIN a : Recent(a, w)[i] = a[j]
    BY ONLY <1>1, <2>3, RecentIs
  <2>5. QED BY <2>1, <2>2, <2>4
<1>5. LimTypes'
  <2>1. [pc |-> "checked", key |-> k] \in Logins BY DEF Logins
  <2>2. QED BY <1>1, <1>3, <1>4, <2>1 DEF LimTypes
<1>6. InOrder'
  <2>1. ASSUME NEW ip \in Addresses
        PROVE  Sorted(addresses'[ip]) /\ \A i \in DOMAIN addresses'[ip] : addresses'[ip][i] <= limClock
    <3>1. Sorted(addresses[ip]) /\ \A i \in DOMAIN addresses[ip] : addresses[ip][i] <= limClock
      BY DEF LimInv, InOrder
    <3>2. CASE ip # k[1]
      <4>1. addresses'[ip] = addresses[ip] BY <1>1, <1>3, <3>2 DEF LimTypes
      <4>2. QED BY <3>1, <4>1
    <3>3. CASE ip = k[1]
      <4>1. addresses'[ip] = Recent(addresses[ip], limits.ipWindow) BY <1>1, <1>3, <3>3 DEF LimTypes
      <4>2. Sorted(Recent(addresses[ip], limits.ipWindow)) BY <1>1, <1>2, <1>3, <3>1, <3>3, RecentIs
      <4>3. \A i \in DOMAIN Recent(addresses[ip], limits.ipWindow) :
              \E j \in DOMAIN addresses[ip] : Recent(addresses[ip], limits.ipWindow)[i] = addresses[ip][j]
        BY <1>4a, <3>3
      <4>4. QED BY <3>1, <4>1, <4>2, <4>3
    <3>4. QED BY <3>2, <3>3
  <2>2. QED BY <1>1, <2>1 DEF InOrder
<1>7. ASSUME NEW q \in Keys PROVE Within(PairTimes(q)', PairTimes(q))
  <2>1. CASE pairs'[q] = pairs[q] BY <1>1, <2>1, WithinItself DEF PairTimes
  <2>2. CASE pairs'[q] # pairs[q]
    <3>1. q = k /\ pairs'[q] = Recent(pairs[k], limits.window) BY <1>1, <1>3, <2>2 DEF LimTypes
    <3>2. QED BY <1>1, <1>2, <1>3, <3>1, RecentIs DEF PairTimes
  <2>3. QED BY <2>1, <2>2
<1>8. ASSUME NEW ip \in Addresses PROVE Within(AddrTimes(ip), AddrTimes(ip)')
  <2>1. CASE ip # k[1]
    <3>1. addresses'[ip] = addresses[ip] BY <1>1, <1>3, <2>1 DEF LimTypes
    <3>2. QED BY <1>1, <3>1, WithinItself DEF AddrTimes
  <2>2. CASE ip = k[1]
    <3>1. addresses'[ip] = Recent(addresses[ip], limits.ipWindow) BY <1>1, <1>3, <2>2 DEF LimTypes
    <3>2. QED BY <1>1, <1>4a, <2>2, <3>1 DEF AddrTimes
  <2>3. QED BY <2>1, <2>2
<1>9. AllMatched' BY <1>1, <1>7, <1>8, AllMatchedKept
<1>10. ASSUME NEW q \in Keys PROVE Checked(q)' \subseteq Checked(q) \/ Count(q) <= limits.max - 1
  <2>1. CASE login' = login BY <2>1 DEF Checked
  <2>2. CASE ~Blocked(k) /\ login' = [login EXCEPT ![t] = [pc |-> "checked", key |-> k]]
    <3>1. CASE q # k
      BY <1>1, <2>2, <3>1 DEF Checked, LimTypes
    <3>2. CASE q = k
      <4>1. ~(PairCount(k) >= limits.max) BY <2>2 DEF Blocked
      <4>2. PairCount(k) = Count(k) /\ Count(k) \in Nat BY <1>1, CountIsPairCount
      <4>3. limits.max \in Nat BY <1>1, SettingsAre
      <4> HIDE DEF Count
      <4>4. QED BY <3>2, <4>1, <4>2, <4>3
    <3>3. QED BY <3>1, <3>2
  <2>3. QED BY <1>3, <2>1, <2>2
<1>11. FewOver' BY <1>1, <1>5, <1>7, <1>10, FewOverKept DEF PairTimes
<1>12. QED BY <1>5, <1>6, <1>9, <1>11 DEF LimInv

(* A failure moves its request from the checked ones to the counted ones.   *)
LEMMA FailKeeps ==
    ASSUME LimInv, NEW t \in LoginThreads, Fail(t)
    PROVE  LimInv'
<1> DEFINE k == login[t].key
           ip == k[1]
           n == k[2]
           w == limits.window
           v == limits.ipWindow
<1>1. LimTypes /\ UNCHANGED <<limClock, limits, limTuned>> /\ login[t].pc = "checked"
  BY DEF LimInv, Fail
<1>2. k \in Keys /\ ip \in Addresses /\ n \in Every /\ k = <<ip, n>>
  BY <1>1 DEF LimTypes, Logins, Keys, Every
<1>3. limClock \in Nat /\ w \in Nat \ {0} /\ v \in Nat \ {0} BY <1>1, SettingsAre DEF LimTypes
<1>4. /\ pairs' = [pairs EXCEPT ![k] = Append(@, limClock)]
      /\ addresses' = [addresses EXCEPT ![ip] = Append(@, limClock)]
      /\ login' = [login EXCEPT ![t] = NoLogin]
  BY DEF Fail
<1>5. pairs \in [Keys -> Seq(Nat)] /\ addresses \in [Addresses -> Seq(Nat)] /\ login \in [LoginThreads -> Logins]
  BY <1>1 DEF LimTypes
<1> HIDE DEF ip, n, w, v
<1>6. LimTypes'
  <2>1. NoLogin \in Logins BY DEF NoLogin, Logins
  <2>2. QED BY <1>1, <1>2, <1>3, <1>4, <1>5, <2>1 DEF LimTypes
<1>7. InOrder'
  <2>1. ASSUME NEW i \in Addresses
        PROVE  Sorted(addresses'[i]) /\ \A x \in DOMAIN addresses'[i] : addresses'[i][x] <= limClock
    <3> DEFINE a == addresses[i]
    <3>1. a \in Seq(Nat) /\ Sorted(a) /\ \A x \in DOMAIN a : a[x] <= limClock BY <1>5 DEF LimInv, InOrder
    <3>2. CASE i # ip
      <4>1. addresses'[i] = a BY <1>4, <1>5, <3>2
      <4>2. QED BY <3>1, <4>1
    <3>3. CASE i = ip
      <4>1. addresses'[i] = Append(a, limClock) BY <1>4, <1>5, <3>3
      <4> HIDE DEF a
      <4>2. DOMAIN a = 1..Len(a) /\ DOMAIN Append(a, limClock) = 1..(Len(a) + 1) /\ Len(a) \in Nat BY <3>1
      <4>3. (\A x \in 1..Len(a) : Append(a, limClock)[x] = a[x]) /\ Append(a, limClock)[Len(a) + 1] = limClock
        BY <3>1
      <4>4. \A x \in 1..(Len(a) + 1) : x \in 1..Len(a) \/ x = Len(a) + 1 BY <4>2
      <4>5. \A x \in DOMAIN Append(a, limClock) : Append(a, limClock)[x] <= limClock
        BY <1>3, <3>1, <4>2, <4>3, <4>4
      <4>6. ASSUME NEW x \in DOMAIN Append(a, limClock), NEW y \in DOMAIN Append(a, limClock), x < y
            PROVE  Append(a, limClock)[x] <= Append(a, limClock)[y]
        <5>1. x \in 1..Len(a) /\ (y \in 1..Len(a) \/ y = Len(a) + 1) BY <4>2, <4>6
        <5>2. CASE y \in 1..Len(a) BY <3>1, <4>2, <4>3, <4>6, <5>1, <5>2 DEF Sorted
        <5>3. CASE y = Len(a) + 1 BY <4>3, <4>5, <5>3
        <5>4. QED BY <5>1, <5>2, <5>3
      <4>7. QED BY <4>1, <4>5, <4>6 DEF Sorted
    <3>4. QED BY <3>2, <3>3
  <2>2. QED BY <1>1, <2>1 DEF InOrder
<1>8. AllMatched'
  <2>1. ASSUME NEW i \in Addresses, ~limTuned, ~(limits.window > limits.ipWindow)
        PROVE  Within(FailTimes(pairs', w, limClock, i), Times(addresses'[i], v, limClock))
    <3>1. Within(FailTimes(pairs, w, limClock, i), Times(addresses[i], v, limClock))
      BY <2>1 DEF LimInv, AllMatched, w, v
    <3>2. CASE i = ip
      <4>1. pairs' = [pairs EXCEPT ![<<ip, n>>] = Append(@, limClock)] BY <1>2, <1>4
      <4>2. addresses'[i] = Append(addresses[ip], limClock) BY <1>2, <1>4, <1>5, <3>2
      <4>3. PICK a : a = addresses[ip] OBVIOUS
      <4>4. a \in Seq(Nat) /\ Within(FailTimes(pairs, w, limClock, ip), Times(a, v, limClock))
        BY <1>2, <1>5, <3>1, <3>2, <4>3
      <4>5. PICK qs : qs = pairs' OBVIOUS
      <4>6. PICK c : c = limClock OBVIOUS
      <4>7. c \in Nat /\ qs = [pairs EXCEPT ![<<ip, n>>] = Append(@, c)]
            /\ Within(FailTimes(pairs, w, c, ip), Times(a, v, c))
        BY <1>3, <4>1, <4>4, <4>5, <4>6
      <4>8. Within(FailTimes(qs, w, c, ip), Times(Append(a, c), v, c))
        BY ONLY <1>2, <1>3, <1>5, <4>4, <4>7, FailWithin
      <4>9. QED BY <3>2, <4>2, <4>3, <4>5, <4>6, <4>8
    <3>3. CASE i # ip
      <4>1. \A x \in Every : pairs'[<<i, x>>] = pairs[<<i, x>>]
        <5>1. ASSUME NEW x \in Every PROVE pairs'[<<i, x>>] = pairs[<<i, x>>]
          <6>1. <<i, x>> \in Keys /\ <<i, x>> # k BY <1>2, <3>3 DEF Keys, Every
          <6>2. QED BY <1>4, <1>5, <6>1
        <5>2. QED BY <5>1
      <4>2. Within(FailTimes(pairs', w, limClock, i), FailTimes(pairs, w, limClock, i))
        BY <4>1, WithinItself, FewerFailures
      <4>3. addresses'[i] = addresses[i] BY <1>4, <1>5, <3>3
      <4>4. QED BY <3>1, <4>2, <4>3, WithinIsTransitive
    <3>4. QED BY <3>2, <3>3
  <2>2. QED BY <1>1, <2>1 DEF AllMatched, w, v
<1>9. FewOver'
  <2>1. ASSUME NEW q \in Keys, ~limTuned
        PROVE  Count(q)' + Cardinality(Checked(q)') <= limits.max - 1 + Cardinality(LoginThreads)
    <3>1. Count(q) + Cardinality(Checked(q)) <= limits.max - 1 + Cardinality(LoginThreads)
      BY <2>1 DEF LimInv, FewOver
    <3>2. CASE q # k
      <4>1. pairs'[q] = pairs[q] BY <1>4, <1>5, <3>2
      <4>2. Count(q)' = Count(q) BY <1>1, <4>1 DEF Count
      <4>3. Checked(q)' = Checked(q) BY <1>4, <1>5, <3>2 DEF Checked, NoLogin
      <4>4. QED BY <3>1, <4>2, <4>3
    <3>3. CASE q = k
      <4>1. pairs'[q] = Append(pairs[q], limClock) /\ pairs[q] \in Seq(Nat) BY <1>4, <1>5, <3>3
      <4>2. PICK s : s = pairs[q] OBVIOUS
      <4>3. CountsOneMore(s, w, limClock) BY <1>3, <4>1, <4>2, LiveAppend
      <4>4. IsFiniteSet(Counts(s, w, limClock)) /\ Cardinality(Counts(s, w, limClock)) \in Nat
        BY <4>1, <4>2, LiveIsFinite
      <4>5. Cardinality(Counts(s, w, limClock) \cup {Len(s) + 1}) = Cardinality(Counts(s, w, limClock)) + 1
        BY <4>3, <4>4, FS_AddElement DEF CountsOneMore
      <4>6. Count(q)' = Count(q) + 1 /\ Count(q) \in Nat
        BY <1>1, <4>1, <4>2, <4>3, <4>4, <4>5 DEF Count, CountsOneMore, w
      <4>7. Checked(q)' = Checked(q) \ {t} /\ t \in Checked(q)
        BY <1>1, <1>4, <1>5, <3>3 DEF Checked, NoLogin
      <4>8. IsFiniteSet(Checked(q)) /\ Cardinality(Checked(q)) \in Nat BY CheckedFinite
      <4>9. Cardinality(Checked(q)') = Cardinality(Checked(q)) - 1 BY <4>7, <4>8, FS_RemoveElement
      <4>10. limits.max \in Nat /\ Cardinality(LoginThreads) \in Nat
        BY <1>1, SettingsAre, LimAssumption, FS_CardinalityType
      <4> HIDE DEF Count, Checked
      <4>11. QED BY <3>1, <4>6, <4>8, <4>9, <4>10
    <3>4. QED BY <3>2, <3>3
  <2>2. QED BY <1>1, <2>1 DEF FewOver
<1>10. QED BY <1>6, <1>7, <1>8, <1>9 DEF LimInv

(* Buckets that are emptied, of pairs and, where nothing counts any more, of *)
(* addresses.                                                               *)
LEMMA EmptiedKeeps ==
    ASSUME LimInv, LimTypes', UNCHANGED <<limClock, limits, limTuned>>,
           \A k \in Keys : pairs'[k] \in {pairs[k], << >>},
           \A ip \in Addresses : \/ addresses'[ip] = addresses[ip]
                                 \/ addresses'[ip] = << >> /\ Counts(addresses[ip], limits.ipWindow, limClock) = {},
           \A t \in LoginThreads : login'[t] \in {login[t], NoLogin}
    PROVE  LimInv'
<1>1. ASSUME NEW k \in Keys PROVE Within(PairTimes(k)', PairTimes(k))
  <2>1. CASE pairs'[k] = pairs[k] BY <2>1, WithinItself DEF PairTimes
  <2>2. CASE pairs'[k] = << >> BY <2>2, EmptyWithin DEF PairTimes
  <2>3. QED BY <2>1, <2>2
<1>2. ASSUME NEW ip \in Addresses PROVE Within(AddrTimes(ip), AddrTimes(ip)')
  <2>1. CASE addresses'[ip] = addresses[ip] BY <2>1, WithinItself DEF AddrTimes
  <2>2. CASE Counts(addresses[ip], limits.ipWindow, limClock) = {}
    <3>1. DOMAIN AddrTimes(ip) = {} BY <2>2 DEF AddrTimes, Times
    <3>2. QED BY <3>1, WithinPart
  <2>3. QED BY <2>1, <2>2
<1>3. AllMatched' BY <1>1, <1>2, AllMatchedKept
<1>4. \A k \in Keys : Checked(k)' \subseteq Checked(k) BY DEF Checked, NoLogin
<1>5. FewOver' BY <1>1, <1>4, FewOverKept DEF PairTimes
<1>6. InOrder'
  <2>1. ASSUME NEW ip \in Addresses
        PROVE  Sorted(addresses'[ip]) /\ \A i \in DOMAIN addresses'[ip] : addresses'[ip][i] <= limClock
    <3>1. CASE addresses'[ip] = addresses[ip] BY <3>1 DEF LimInv, InOrder
    <3>2. CASE addresses'[ip] = << >> BY <3>2 DEF Sorted
    <3>3. QED BY <3>1, <3>2
  <2>2. QED BY <2>1 DEF InOrder
<1>7. QED BY <1>3, <1>5, <1>6 DEF LimInv

LEMMA SucceedKeeps ==
    ASSUME LimInv, NEW t \in LoginThreads, Succeed(t)
    PROVE  LimInv'
<1>1. PICK name \in Names : pairs' = [pairs EXCEPT ![<<login[t].key[1], name>>] = << >>] BY DEF Succeed
<1>2. login' = [login EXCEPT ![t] = NoLogin] /\ UNCHANGED <<limClock, limits, limTuned, addresses>> BY DEF Succeed
<1>3. LimTypes BY DEF LimInv
<1>4. LimTypes'
  <2>1. NoLogin \in Logins /\ << >> \in Seq(Nat) BY DEF NoLogin, Logins
  <2>2. QED BY <1>1, <1>2, <1>3, <2>1 DEF LimTypes
<1>5. \A k \in Keys : pairs'[k] \in {pairs[k], << >>} BY <1>1, <1>3 DEF LimTypes
<1>6. \A x \in LoginThreads : login'[x] \in {login[x], NoLogin} BY <1>2, <1>3 DEF LimTypes
<1>7. QED BY <1>2, <1>4, <1>5, <1>6, EmptiedKeeps

(* A bucket whose last failure is too old has none that counts.             *)
LEMMA StaleCountsNone ==
    ASSUME LimInv, NEW ip \in Addresses, Stale(addresses[ip], limits.ipWindow)
    PROVE  Counts(addresses[ip], limits.ipWindow, limClock) = {}
<1> DEFINE a == addresses[ip]
           w == limits.ipWindow
<1>1. a \in Seq(Nat) /\ Sorted(a) /\ limClock \in Nat /\ w \in Nat /\ a # << >>
  BY SettingsAre DEF LimInv, LimTypes, InOrder, Stale
<1>2. limClock - a[Len(a)] > w BY <1>1 DEF Stale, Last
<1> HIDE DEF a, w
<1>3. Len(a) \in DOMAIN a /\ DOMAIN a = 1..Len(a) /\ Len(a) \in Nat BY <1>1
<1>4. ASSUME NEW i \in DOMAIN a PROVE ~(limClock - a[i] < w)
  <2>1. a[i] \in Nat /\ a[Len(a)] \in Nat BY <1>1, <1>3
  <2>2. a[i] <= a[Len(a)] BY <1>1, <1>3, <2>1 DEF Sorted
  <2>3. QED BY <1>1, <1>2, <2>1, <2>2
<1>5. QED BY <1>4 DEF Counts, a, w

LEMMA SweepKeeps == LimInv /\ Sweep => LimInv'
<1> SUFFICES ASSUME LimInv, Sweep PROVE LimInv' OBVIOUS
<1>1. LimTypes /\ UNCHANGED <<limClock, limits, limTuned, login>> BY DEF LimInv, Sweep
<1>2. LimTypes' BY <1>1 DEF LimTypes, Sweep
<1>3. \A k \in Keys : pairs'[k] \in {pairs[k], << >>} BY DEF Sweep
<1>4. \A ip \in Addresses : \/ addresses'[ip] = addresses[ip]
                            \/ addresses'[ip] = << >> /\ Counts(addresses[ip], limits.ipWindow, limClock) = {}
  BY StaleCountsNone DEF Sweep
<1>5. QED BY <1>1, <1>2, <1>3, <1>4, EmptiedKeeps

LEMMA PurgeKeeps == LimInv /\ Purge => LimInv'
<1> SUFFICES ASSUME LimInv, Purge PROVE LimInv' OBVIOUS
<1>1. LimTypes /\ UNCHANGED <<limClock, limits, limTuned, login>> BY DEF LimInv, Purge
<1>2. LimTypes' BY <1>1 DEF LimTypes, Purge
<1>3. \A k \in Keys : pairs'[k] = << >> BY DEF Purge
<1>4. InOrder' BY DEF Purge, InOrder, Sorted
<1>5. \A k \in Keys : Within(Times(pairs'[k], limits.window, limClock'), Times(pairs[k], limits.window, limClock))
  BY <1>1, <1>3, EmptyWithin
<1>6. FewOver' BY <1>1, <1>2, <1>5, FewOverKept DEF Checked
<1>7. AllMatched'
  <2>1. ASSUME NEW ip \in Addresses
        PROVE  Within(FailTimes(pairs', limits.window, limClock, ip), Times(addresses'[ip], limits.ipWindow, limClock))
    <3>1. \A n \in Every : pairs'[<<ip, n>>] = << >> BY <1>3 DEF Keys, Every
    <3>2. ASSUME NEW f \in Fails(pairs', limits.window, limClock, ip) PROVE FALSE
      <4>1. f[1] \in Every /\ f[2] \in Counts(pairs'[<<ip, f[1]>>], limits.window, limClock) BY FailsAre
      <4>2. f[2] \in Counts(<< >>, limits.window, limClock) BY <3>1, <4>1
      <4>3. QED BY <4>2 DEF Counts
    <3>3. DOMAIN FailTimes(pairs', limits.window, limClock, ip) = {} BY <3>2 DEF FailTimes
    <3>4. QED BY <3>3, WithinPart
  <2>2. QED BY <1>1, <2>1 DEF AllMatched
<1>8. QED BY <1>2, <1>4, <1>6, <1>7 DEF LimInv

LEMMA LimTickKeeps == LimInv /\ Tick => LimInv'
<1> SUFFICES ASSUME LimInv, Tick PROVE LimInv' OBVIOUS
<1>1. LimTypes /\ UNCHANGED <<limits, limTuned, pairs, addresses, login>> /\ limClock' = limClock + 1
  BY DEF LimInv, Tick
<1>2. limClock \in Nat /\ limits.window \in Nat /\ limits.ipWindow \in Nat BY <1>1, SettingsAre DEF LimTypes
<1>3. LimTypes' BY <1>1 DEF LimTypes
<1>4. InOrder'
  <2>1. ASSUME NEW ip \in Addresses, NEW i \in DOMAIN addresses[ip] PROVE addresses[ip][i] <= limClock + 1
    <3>1. addresses[ip][i] \in Nat /\ addresses[ip][i] <= limClock BY <1>1 DEF LimInv, LimTypes, InOrder
    <3>2. QED BY <1>2, <3>1
  <2>2. QED BY <1>1, <2>1 DEF LimInv, InOrder
<1>5. ASSUME NEW k \in Keys
      PROVE  Within(Times(pairs[k], limits.window, limClock + 1), Times(pairs[k], limits.window, limClock))
  <2>1. \A i \in DOMAIN pairs[k] : pairs[k][i] \in Nat BY <1>1 DEF LimTypes
  <2>2. Counts(pairs[k], limits.window, limClock + 1) \subseteq Counts(pairs[k], limits.window, limClock)
    BY <1>2, <2>1 DEF Counts
  <2>3. QED BY <2>2, WithinPart DEF Times
<1>6. FewOver' BY <1>1, <1>3, <1>5, FewOverKept DEF Checked
<1>7. AllMatched'
  <2>1. ASSUME NEW ip \in Addresses, ~limTuned, ~(limits.window > limits.ipWindow)
        PROVE  Within(FailTimes(pairs, limits.window, limClock + 1, ip), Times(addresses[ip], limits.ipWindow, limClock + 1))
    <3>1. Within(FailTimes(pairs, limits.window, limClock, ip), Times(addresses[ip], limits.ipWindow, limClock))
      BY <2>1 DEF LimInv, AllMatched
    <3>2. addresses[ip] \in Seq(Nat) /\ \A n \in Every : pairs[<<ip, n>>] \in Seq(Nat)
      BY <1>1 DEF LimTypes, Every, Keys
    <3>3. limits.window <= limits.ipWindow BY <1>2, <2>1
    <3>4. QED BY <1>2, <3>1, <3>2, <3>3, TickWithin
  <2>2. QED BY <1>1, <2>1 DEF AllMatched
<1>8. QED BY <1>3, <1>4, <1>6, <1>7 DEF LimInv

LEMMA LimStarts == LimInit => LimInv
<1> SUFFICES ASSUME LimInit PROVE LimInv OBVIOUS
<1>1. limits \in LimitSettings /\ limClock = 0 /\ limTuned = FALSE
      /\ pairs = [k \in Keys |-> << >>] /\ addresses = [ip \in Addresses |-> << >>]
      /\ login = [t \in LoginThreads |-> NoLogin]
  BY DEF LimInit
<1>2. LimTypes
  <2>1. NoLogin \in Logins /\ << >> \in Seq(Nat) BY DEF NoLogin, Logins
  <2>2. pairs \in [Keys -> Seq(Nat)] /\ addresses \in [Addresses -> Seq(Nat)] BY <1>1, <2>1
  <2>3. login \in [LoginThreads -> Logins] BY <1>1, <2>1
  <2>4. QED BY <1>1, <2>2, <2>3 DEF LimTypes
<1>3. InOrder BY <1>1 DEF InOrder, Sorted
<1>4. FewOver
  <2>1. ASSUME NEW k \in Keys PROVE Count(k) + Cardinality(Checked(k)) <= limits.max - 1 + Cardinality(LoginThreads)
    <3>1. Counts(pairs[k], limits.window, limClock) = {} BY <1>1 DEF Counts
    <3>2. Checked(k) = {} BY <1>1 DEF Checked, NoLogin
    <3>3. Count(k) = 0 /\ Cardinality(Checked(k)) = 0 BY <3>1, <3>2, FS_EmptySet DEF Count
    <3>4. limits.max \in Nat \ {0} /\ Cardinality(LoginThreads) \in Nat
      BY <1>2, SettingsAre, LimAssumption, FS_CardinalityType
    <3> HIDE DEF Count, Checked
    <3>5. QED BY <3>3, <3>4
  <2>2. QED BY <2>1 DEF FewOver
<1>5. AllMatched
  <2>1. ASSUME NEW ip \in Addresses
        PROVE  Within(FailTimes(pairs, limits.window, limClock, ip), Times(addresses[ip], limits.ipWindow, limClock))
    <3>1. \A n \in Every : pairs[<<ip, n>>] = << >> BY <1>1 DEF Keys, Every
    <3>2. ASSUME NEW f \in Fails(pairs, limits.window, limClock, ip) PROVE FALSE
      <4>1. f[1] \in Every /\ f[2] \in Counts(pairs[<<ip, f[1]>>], limits.window, limClock) BY FailsAre
      <4>2. f[2] \in Counts(<< >>, limits.window, limClock) BY <3>1, <4>1
      <4>3. QED BY <4>2 DEF Counts
    <3>3. DOMAIN FailTimes(pairs, limits.window, limClock, ip) = {} BY <3>2 DEF FailTimes
    <3>4. QED BY <3>3, WithinPart
  <2>2. QED BY <2>1 DEF AllMatched
<1>6. QED BY <1>2, <1>3, <1>4, <1>5 DEF LimInv

LEMMA LimStep == LimInv /\ [LimNext]_limVars => LimInv'
<1> SUFFICES ASSUME LimInv, [LimNext]_limVars PROVE LimInv' OBVIOUS
<1>1. ASSUME NEW t \in LoginThreads, NEW k \in Keys, Check(t, k) PROVE LimInv' BY <1>1, CheckKeeps
<1>2. ASSUME NEW t \in LoginThreads, Fail(t) PROVE LimInv' BY <1>2, FailKeeps
<1>3. ASSUME NEW t \in LoginThreads, Succeed(t) PROVE LimInv' BY <1>3, SucceedKeeps
<1>4. CASE Tune
  <2>1. limTuned' = TRUE /\ limits' \in LimitSettings /\ UNCHANGED <<limClock, pairs, addresses, login>>
    BY <1>4 DEF Tune
  <2>2. QED BY <2>1 DEF LimInv, LimTypes, InOrder, FewOver, AllMatched
<1>5. CASE UNCHANGED limVars
  BY <1>5 DEF limVars, LimInv, LimTypes, InOrder, FewOver, AllMatched, Count, Checked
<1>6. QED BY <1>1, <1>2, <1>3, <1>4, <1>5, SweepKeeps, PurgeKeeps, LimTickKeeps DEF LimNext

(* For any addresses, names, threads and settings: the failures of a pair   *)
(* exceed its limit by no more than the requests that were under way, and   *)
(* an address answers for all of its failures.                              *)
THEOREM LimitsHold == LimSpec => []LimitHolds
<1>1. QED BY LimStarts, LimStep, LimPromised, PTL DEF LimSpec

-----------------------------------------------------------------------------
(***************************************************************************)
(* Web sessions. A cookie carries the stamp of the session's password and  *)
(* a copy of the role; the invariant says where the stamp of every cookie, *)
(* and of every request that goes on with one, can come from.              *)
(***************************************************************************)

Cookies == [name : People \cup {Nobody}, stamp : Nat, sid : Nat, knows : Nat, raced : BOOLEAN]

Routes ==
    {Free} \cup [pc : {"proved", "changed"}, name : People, knows : Nat]
           \cup [pc : {"stamped", "changing"}, name : People]

WebTypeOK ==
    /\ account \in [People -> [pw : Nat, role : Roles]]
    /\ nextPw \in Nat \ {0} /\ nextSid \in Nat \ {0}
    /\ sessions \in [Sids -> People \cup {Nobody}]
    /\ cookie \in [Browsers -> Cookies]
    /\ route \in [Browsers -> Routes]

(* A cookie's stamp is of the password its holder knows, or it was raced.   *)
StampKnown == \A b \in Browsers : ~cookie[b].raced => cookie[b].knows = cookie[b].stamp

(* Ids of sessions are given in order, each once.                           *)
SidsGiven == \A b \in Browsers : cookie[b].sid < nextSid

WebIInv == WebTypeOK /\ StampKnown /\ SidsGiven /\ SessionsOwned

-----------------------------------------------------------------------------
LEMMA WebStarts == WebInit => WebIInv
<1> SUFFICES ASSUME WebInit PROVE WebIInv OBVIOUS
<1> USE WebAssumption DEF WebInit, NoCookie
<1>1. WebTypeOK BY DEF WebTypeOK, Cookies, Routes, Free, Roles
<1>2. StampKnown BY DEF StampKnown
<1>3. SidsGiven BY DEF SidsGiven
<1>4. SessionsOwned BY DEF SessionsOwned
<1>5. QED BY <1>1, <1>2, <1>3, <1>4 DEF WebIInv

(* A step that leaves the cookies, and at most frees or adds accounts, may  *)
(* only take session rows away.                                             *)
LEMMA RowsGo ==
    ASSUME WebIInv, WebTypeOK', UNCHANGED <<cookie, nextSid>>,
           \A s \in Sids : sessions'[s] \in {sessions[s], Nobody},
           \A s \in Sids : sessions'[s] # Nobody => account'[sessions[s]].pw # 0
    PROVE  WebIInv'
<1>1. StampKnown' BY DEF WebIInv, StampKnown
<1>2. SidsGiven' BY DEF WebIInv, SidsGiven
<1>3. SessionsOwned' BY DEF WebIInv, SessionsOwned
<1>4. QED BY <1>1, <1>2, <1>3 DEF WebIInv

(* One browser's cookie becomes another one without a session row, or with  *)
(* the row it had.                                                          *)
LEMMA CookieReplaced ==
    ASSUME WebIInv, WebTypeOK', UNCHANGED <<account, nextSid>>,
           NEW b \in Browsers, NEW c \in Cookies, cookie' = [cookie EXCEPT ![b] = c],
           ~c.raced => c.knows = c.stamp, c.sid \in {0, cookie[b].sid},
           \A s \in Sids : sessions'[s] \in {sessions[s], Nobody}
    PROVE  WebIInv'
<1> USE DEF WebIInv
<1>1. cookie'[b] = c /\ \A d \in Browsers \ {b} : cookie'[d] = cookie[d] BY DEF WebTypeOK
<1>2. StampKnown' BY <1>1 DEF StampKnown
<1>3. SidsGiven' BY <1>1 DEF SidsGiven, WebTypeOK
<1>4. SessionsOwned' BY <1>1 DEF SessionsOwned
<1>5. QED BY <1>2, <1>3, <1>4

-----------------------------------------------------------------------------
LEMMA VisitKeeps == ASSUME WebIInv, NEW b \in Browsers, Visit(b) PROVE WebIInv'
<1> USE DEF Visit
<1>1. NoCookie \in Cookies BY DEF NoCookie, Cookies
<1>2. WebTypeOK' BY <1>1 DEF WebIInv, WebTypeOK
<1>3. QED BY <1>1, <1>2, CookieReplaced DEF NoCookie

LEMMA LoginKeeps ==
    ASSUME WebIInv, NEW b \in Browsers, NEW p \in People, Login(b, p) PROVE WebIInv'
<1> USE DEF Login
<1>1. WebTypeOK' BY DEF WebIInv, WebTypeOK, Routes
<1>2. QED BY <1>1, RowsGo DEF WebIInv, SessionsOwned

LEMMA LoginStampKeeps == ASSUME WebIInv, NEW b \in Browsers, LoginStamp(b) PROVE WebIInv'
<1> DEFINE r == route[b]
           c == [name |-> r.name, stamp |-> account[r.name].pw, sid |-> 0, knows |-> r.knows,
                 raced |-> r.knows # account[r.name].pw]
<1>1. r.name \in People /\ r.knows \in Nat BY DEF LoginStamp, WebIInv, WebTypeOK, Routes, Free
<1>2. c \in Cookies BY <1>1 DEF Cookies, WebIInv, WebTypeOK
<1>3. WebTypeOK' BY <1>1, <1>2 DEF LoginStamp, WebIInv, WebTypeOK, Routes
<1>4. cookie' = [cookie EXCEPT ![b] = c] /\ UNCHANGED <<account, nextSid, sessions>> BY DEF LoginStamp
<1>5. (~c.raced => c.knows = c.stamp) /\ c.sid = 0 OBVIOUS
<1> HIDE DEF c
<1>6. QED BY <1>2, <1>3, <1>4, <1>5, CookieReplaced

(* The row of a login is a new one, of a user who exists.                   *)
LEMMA LoginRowKeeps == ASSUME WebIInv, NEW b \in Browsers, LoginRow(b) PROVE WebIInv'
<1> USE DEF LoginRow
<1>1. route[b].name \in People BY DEF WebIInv, WebTypeOK, Routes, Free
<1>2. CASE account[route[b].name].pw = 0
  <2>1. WebTypeOK' BY <1>2 DEF WebIInv, WebTypeOK, Routes
  <2>2. QED BY <1>2, <2>1, RowsGo DEF WebIInv, SessionsOwned
<1>3. CASE account[route[b].name].pw # 0
  <2>1. WebTypeOK' BY <1>1, <1>3 DEF WebIInv, WebTypeOK, Routes, Cookies
  <2>2. /\ cookie'[b].sid = nextSid
        /\ cookie'[b].raced = cookie[b].raced /\ cookie'[b].knows = cookie[b].knows
        /\ cookie'[b].stamp = cookie[b].stamp
        /\ \A d \in Browsers \ {b} : cookie'[d] = cookie[d]
    BY <1>3 DEF WebIInv, WebTypeOK, Cookies
  <2>3. StampKnown' BY <2>2 DEF WebIInv, StampKnown
  <2>4. SidsGiven'
    <3>1. \A d \in Browsers : cookie[d].sid \in Nat BY DEF WebIInv, WebTypeOK, Cookies
    <3>2. QED BY <1>3, <2>2, <3>1 DEF WebIInv, SidsGiven, WebTypeOK
  <2>5. SessionsOwned'
    <3>1. \A s \in Sids : sessions'[s] \in {sessions[s], route[b].name} /\ UNCHANGED account
      BY <1>3 DEF WebIInv, WebTypeOK
    <3>2. \A d \in Browsers : cookie[d].sid # nextSid
      BY DEF WebIInv, SidsGiven, WebTypeOK, Cookies
    <3>3. QED BY <1>3, <2>2, <3>1, <3>2 DEF WebIInv, SessionsOwned
  <2>6. QED BY <2>1, <2>3, <2>4, <2>5 DEF WebIInv
<1>4. QED BY <1>2, <1>3

LEMMA LogoutKeeps == ASSUME WebIInv, NEW b \in Browsers, Logout(b) PROVE WebIInv'
<1> USE DEF Logout
<1>1. NoCookie \in Cookies BY DEF NoCookie, Cookies
<1>2. \A s \in Sids : sessions'[s] \in {sessions[s], Nobody} BY DEF WebIInv, WebTypeOK
<1>3. WebTypeOK' BY <1>1 DEF WebIInv, WebTypeOK
<1>4. QED BY <1>1, <1>2, <1>3, CookieReplaced DEF NoCookie

LEMMA ChangePasswordKeeps ==
    ASSUME WebIInv, NEW b \in Browsers, ChangePassword(b) PROVE WebIInv'
<1> USE DEF ChangePassword
<1>1. cookie[b].name \in People BY DEF Valid, WebIInv, WebTypeOK, Cookies
<1>2. WebTypeOK' BY <1>1 DEF WebIInv, WebTypeOK, Routes
<1>3. QED BY <1>2, RowsGo DEF WebIInv, SessionsOwned

LEMMA WritePasswordKeeps ==
    ASSUME WebIInv, NEW b \in Browsers, WritePassword(b) PROVE WebIInv'
<1> USE DEF WritePassword
<1>1. route[b].name \in People BY DEF WebIInv, WebTypeOK, Routes, Free
<1>2. WebTypeOK' BY <1>1 DEF WebIInv, WebTypeOK, Routes
<1>3. \A p \in People : account[p].pw # 0 => account'[p].pw # 0 BY <1>1 DEF WebIInv, WebTypeOK
<1>4. \A s \in Sids : sessions[s] # Nobody => sessions[s] \in People BY DEF WebIInv, WebTypeOK
<1>5. QED BY <1>2, <1>3, <1>4, RowsGo DEF WebIInv, SessionsOwned

LEMMA ChangeStampKeeps == ASSUME WebIInv, NEW b \in Browsers, ChangeStamp(b) PROVE WebIInv'
<1> DEFINE now == account[route[b].name].pw
           c == [cookie[b] EXCEPT !.stamp = now, !.knows = route[b].knows,
                                  !.raced = @ \/ route[b].knows # now]
<1>1. route[b].name \in People /\ route[b].knows \in Nat
  BY DEF ChangeStamp, WebIInv, WebTypeOK, Routes, Free
<1>2. cookie[b] \in Cookies /\ now \in Nat BY <1>1 DEF WebIInv, WebTypeOK
<1>3. c \in Cookies BY <1>1, <1>2 DEF Cookies
<1>4. (~c.raced => c.knows = c.stamp) /\ c.sid = cookie[b].sid BY <1>2 DEF Cookies
<1>5. cookie' = [cookie EXCEPT ![b] = c] /\ UNCHANGED <<account, nextSid, sessions>>
  BY <1>2 DEF ChangeStamp, WebIInv, WebTypeOK, Cookies
<1>6. WebTypeOK' BY <1>3, <1>5 DEF ChangeStamp, WebIInv, WebTypeOK, Routes
<1> HIDE DEF c
<1>7. QED BY <1>3, <1>4, <1>5, <1>6, CookieReplaced

LEMMA RevokeOthersKeeps ==
    ASSUME WebIInv, NEW b \in Browsers, RevokeOthers(b) PROVE WebIInv'
<1> USE DEF RevokeOthers
<1>1. WebTypeOK' BY DEF WebIInv, WebTypeOK
<1>2. \A s \in Sids : sessions'[s] \in {sessions[s], Nobody} BY DEF WebIInv, WebTypeOK
<1>3. QED BY <1>1, <1>2, RowsGo DEF WebIInv, SessionsOwned

(* The rows of a user who is deleted go with the user.                      *)
LEMMA UserGoes ==
    ASSUME WebIInv, NEW p \in People, WithoutUser(p)
    PROVE  /\ account' \in [People -> [pw : Nat, role : Roles]]
           /\ sessions' \in [Sids -> People \cup {Nobody}]
           /\ \A s \in Sids : sessions'[s] \in {sessions[s], Nobody}
           /\ \A s \in Sids : sessions'[s] # Nobody =>
                 account'[sessions[s]].pw # 0 /\ sessions'[s] = sessions[s]
<1> USE DEF WithoutUser, WebIInv
<1>1. Gone \in [pw : Nat, role : Roles] BY DEF Gone, Roles
<1>2. account' \in [People -> [pw : Nat, role : Roles]] BY <1>1 DEF WebTypeOK
<1>3. \A s \in Sids : sessions[s] \in People \cup {Nobody} BY DEF WebTypeOK
<1>4. \A q \in People \ {p} : account'[q] = account[q] BY DEF WebTypeOK
<1>5. QED BY <1>2, <1>3, <1>4 DEF SessionsOwned

LEMMA DeleteOwnKeeps == ASSUME WebIInv, NEW b \in Browsers, DeleteOwn(b) PROVE WebIInv'
<1> USE DEF DeleteOwn
<1> DEFINE p == cookie[b].name
<1>1. p \in People BY DEF Valid, WebIInv, WebTypeOK, Cookies
<1>2. NoCookie \in Cookies BY DEF NoCookie, Cookies
<1>3. WebTypeOK' BY <1>1, <1>2, UserGoes DEF WebIInv, WebTypeOK
<1>4. cookie'[b] = NoCookie /\ \A d \in Browsers \ {b} : cookie'[d] = cookie[d]
  BY DEF WebIInv, WebTypeOK
<1>5. StampKnown' BY <1>4 DEF WebIInv, StampKnown, NoCookie
<1>6. SidsGiven' BY <1>4 DEF WebIInv, SidsGiven, NoCookie, WebTypeOK
<1>7. SessionsOwned' BY <1>1, <1>4, UserGoes DEF WebIInv, SessionsOwned, NoCookie
<1>8. QED BY <1>3, <1>5, <1>6, <1>7 DEF WebIInv

-----------------------------------------------------------------------------
(* What administrators and the command line do.                             *)
LEMMA ManagersKeep ==
    ASSUME WebIInv, NEW m \in Browsers \cup {Cli}, NEW p \in People,
           \/ SetsPassword(m, p) \/ ManagerDeletes(m, p)
           \/ \E role \in Roles : ManagerCreates(m, p, role) \/ SetsRole(m, p, role)
    PROVE  WebIInv'
<1>0. \A s \in Sids : sessions[s] # Nobody => sessions[s] \in People BY DEF WebIInv, WebTypeOK
<1>1. CASE SetsPassword(m, p)
  <2> USE <1>1 DEF SetsPassword
  <2>1. p = Self(m) => m \in Browsers BY WebAssumption DEF Self
  <2>2. WebTypeOK' BY <2>1 DEF WebIInv, WebTypeOK, Routes
  <2>3. \A q \in People : account[q].pw # 0 => account'[q].pw # 0 BY DEF WebIInv, WebTypeOK
  <2>4. QED BY <1>0, <2>2, <2>3, RowsGo DEF WebIInv, SessionsOwned
<1>2. CASE ManagerDeletes(m, p)
  <2> USE <1>2 DEF ManagerDeletes
  <2>1. WebTypeOK' BY UserGoes DEF WebIInv, WebTypeOK
  <2>2. QED BY <2>1, UserGoes, RowsGo
<1>3. ASSUME NEW role \in Roles, ManagerCreates(m, p, role) PROVE WebIInv'
  <2> USE <1>3 DEF ManagerCreates
  <2>1. WebTypeOK' BY DEF WebIInv, WebTypeOK
  <2>2. \A q \in People : account[q].pw # 0 => account'[q].pw # 0 BY DEF WebIInv, WebTypeOK
  <2>3. QED BY <1>0, <2>1, <2>2, RowsGo DEF WebIInv, SessionsOwned
<1>4. ASSUME NEW role \in Roles, SetsRole(m, p, role) PROVE WebIInv'
  <2> USE <1>4 DEF SetsRole
  <2>1. WebTypeOK' BY DEF WebIInv, WebTypeOK
  <2>2. \A q \in People : account'[q].pw = account[q].pw BY DEF WebIInv, WebTypeOK
  <2>3. QED BY <1>0, <2>1, <2>2, RowsGo DEF WebIInv, SessionsOwned
<1>5. QED BY <1>1, <1>2, <1>3, <1>4

LEMMA AdminRevokesKeeps ==
    ASSUME WebIInv, NEW b \in Browsers, NEW p \in People, AdminRevokes(b, p) PROVE WebIInv'
<1> USE DEF AdminRevokes
<1>1. WebTypeOK' BY DEF WebIInv, WebTypeOK
<1>2. \A s \in Sids : sessions'[s] \in {sessions[s], Nobody} BY DEF WebIInv, WebTypeOK
<1>3. QED BY <1>1, <1>2, RowsGo DEF WebIInv, SessionsOwned

LEMMA ExpireKeeps == ASSUME WebIInv, NEW s \in Sids, Expire(s) PROVE WebIInv'
<1> USE DEF Expire
<1>1. WebTypeOK' BY DEF WebIInv, WebTypeOK
<1>2. \A x \in Sids : sessions'[x] \in {sessions[x], Nobody} BY DEF WebIInv, WebTypeOK
<1>3. QED BY <1>1, <1>2, RowsGo DEF WebIInv, SessionsOwned

LEMMA WebInduction == WebIInv /\ [WebNext]_webVars => WebIInv'
<1> SUFFICES ASSUME WebIInv, [WebNext]_webVars PROVE WebIInv' OBVIOUS
<1>1. CASE UNCHANGED webVars
  <2>1. WebTypeOK' BY <1>1 DEF webVars, WebIInv, WebTypeOK
  <2>2. QED BY <1>1, <2>1, RowsGo DEF webVars, WebIInv, SessionsOwned
<1>2. CASE WebNext
  BY <1>2, VisitKeeps, LoginKeeps, LoginStampKeeps, LoginRowKeeps, LogoutKeeps,
     ChangePasswordKeeps, WritePasswordKeeps, ChangeStampKeeps, RevokeOthersKeeps,
     DeleteOwnKeeps, ManagersKeep, AdminRevokesKeeps, ExpireKeeps DEF WebNext
<1>3. QED BY <1>1, <1>2

(* A changed password ends the sessions of whoever does not know it, but    *)
(* for those that raced with it, and no session row outlives its user or    *)
(* serves two browsers (sessions.py, users_crud.py and the routes).         *)
THEOREM SessionsAreSound == WebSpec => []SessionsHold
<1>1. WebIInv => SessionsHold
  BY DEF WebIInv, StampKnown, SessionsHold, OldPasswordOut, Valid
<1>2. QED BY <1>1, WebStarts, WebInduction, PTL DEF WebSpec

-----------------------------------------------------------------------------
(***************************************************************************)
(* App passwords. A request checks the count and then stores: the          *)
(* invariant bounds the live passwords of a user by the limit plus the     *)
(* requests that have passed the check.                                    *)
(***************************************************************************)

AppRow    == [label : Labels, legacy : BOOLEAN, expired : BOOLEAN]
Inserting == [pc : {"insert"}, label : Labels, legacy : BOOLEAN]

(* The requests that have counted and not yet inserted; those for a label,  *)
(* and the rows of one.                                                     *)
Counted        == {t \in AppThreads : appThread[t] # NotAsking}
CountedFor(l)  == {t \in AppThreads : appThread[t] # NotAsking /\ appThread[t].label = l}
LiveOf(l)      == {i \in Live : appRows[i].label = l}

AppTypes ==
    /\ appNext \in Nat \ {0} /\ Live \in SUBSET (1..(appNext - 1))
    /\ appRows \in [Live -> AppRow]
    /\ appThread \in [AppThreads -> {NotAsking} \cup Inserting]

(* Each request that still waits may take one more.                         *)
AppCounts ==
    /\ Cardinality(Live) + Cardinality(Counted) <= AppLimit - 1 + Cardinality(AppThreads)
    /\ \A l \in Labels : Cardinality(LiveOf(l)) + Cardinality(CountedFor(l)) <= Cardinality(AppThreads)

AppIInv == AppTypes /\ AppCounts

LEMMA AppFinite ==
    ASSUME AppTypes
    PROVE  /\ IsFiniteSet(Live) /\ \A S \in SUBSET Live : IsFiniteSet(S) /\ Cardinality(S) \in Nat
           /\ \A T \in SUBSET AppThreads : IsFiniteSet(T) /\ Cardinality(T) \in Nat
                                           /\ Cardinality(T) <= Cardinality(AppThreads)
<1>1. IsFiniteSet(1..(appNext - 1)) BY FS_Interval DEF AppTypes
<1>2. IsFiniteSet(Live) BY <1>1, FS_Subset DEF AppTypes
<1>3. \A S \in SUBSET Live : IsFiniteSet(S) /\ Cardinality(S) \in Nat
  BY <1>2, FS_Subset, FS_CardinalityType
<1>4. \A T \in SUBSET AppThreads : IsFiniteSet(T) /\ Cardinality(T) \in Nat
                                   /\ Cardinality(T) <= Cardinality(AppThreads)
  BY AppAssumption, FS_Subset, FS_CardinalityType
<1>5. QED BY <1>2, <1>3, <1>4

LEMMA AppStarts == AppInit => AppIInv
<1> SUFFICES ASSUME AppInit PROVE AppIInv OBVIOUS
<1>1. Live = {} /\ Counted = {} BY DEF AppInit, Live, Counted
<1>2. AppTypes BY <1>1 DEF AppInit, AppTypes, Live
<1>3. \A l \in Labels : LiveOf(l) = {} /\ CountedFor(l) = {} BY <1>1 DEF LiveOf, CountedFor, Counted
<1>4. Cardinality({}) = 0 /\ Cardinality(AppThreads) \in Nat
  BY FS_EmptySet, AppAssumption, FS_CardinalityType
<1>5. AppCounts BY <1>1, <1>3, <1>4, AppAssumption DEF AppCounts
<1>6. QED BY <1>2, <1>5 DEF AppIInv

(* Fewer rows of each label, and the same requests.                         *)
LEMMA FewerKeep ==
    ASSUME AppIInv, AppTypes', UNCHANGED appThread, Live' \subseteq Live,
           \A i \in Live' : appRows'[i].label = appRows[i].label
    PROVE  AppIInv'
<1>1. Counted' = Counted /\ \A l \in Labels : CountedFor(l)' = CountedFor(l)
  BY DEF Counted, CountedFor
<1>2. AppTypes BY DEF AppIInv
<1>3. \A l \in Labels : LiveOf(l)' \subseteq LiveOf(l) /\ LiveOf(l) \subseteq Live BY DEF LiveOf
<1>4. Cardinality(Live') <= Cardinality(Live) BY <1>2, AppFinite, FS_Subset
<1>5. \A l \in Labels : Cardinality(LiveOf(l)') <= Cardinality(LiveOf(l))
  BY <1>2, <1>3, AppFinite, FS_Subset
<1>6. /\ Cardinality(Live) \in Nat /\ Cardinality(Live') \in Nat /\ Cardinality(Counted) \in Nat
      /\ Cardinality(AppThreads) \in Nat
  BY <1>2, AppFinite DEF Counted
<1>7. \A l \in Labels : /\ Cardinality(LiveOf(l)) \in Nat /\ Cardinality(LiveOf(l)') \in Nat
                        /\ Cardinality(CountedFor(l)) \in Nat
  BY <1>2, <1>3, AppFinite DEF CountedFor
<1>8. AppCounts'
  <2>1. Cardinality(Live') + Cardinality(Counted') <= AppLimit - 1 + Cardinality(AppThreads)
    BY <1>1, <1>4, <1>6, AppAssumption DEF AppIInv, AppCounts
  <2>2. ASSUME NEW l \in Labels
        PROVE  Cardinality(LiveOf(l)') + Cardinality(CountedFor(l)') <= Cardinality(AppThreads)
    <3>1. Cardinality(LiveOf(l)) + Cardinality(CountedFor(l)) <= Cardinality(AppThreads)
      BY DEF AppIInv, AppCounts
    <3>2. QED BY <1>1, <1>5, <1>6, <1>7, <3>1
  <2>3. QED BY <2>1, <2>2 DEF AppCounts
<1>9. QED BY <1>8 DEF AppIInv

LEMMA AskAppKeeps ==
    ASSUME AppIInv, NEW t \in AppThreads, NEW label \in Labels, NEW legacy \in BOOLEAN,
           AskApp(t, label, legacy)
    PROVE  AppIInv'
<1>1. /\ appThread[t] = NotAsking /\ UNCHANGED <<appRows, appNext>>
      /\ appThread' = [appThread EXCEPT ![t] = [pc |-> "insert", label |-> label, legacy |-> legacy]]
      /\ LiveOf(label) = {} /\ Cardinality(Live) < AppLimit
  BY DEF AskApp, RoomFor, LiveOf
<1>2. AppTypes /\ AppTypes' /\ Live' = Live
  <2>1. AppTypes /\ Live' = Live BY <1>1 DEF AppIInv, Live
  <2>2. [pc |-> "insert", label |-> label, legacy |-> legacy] \in Inserting BY DEF Inserting
  <2>3. QED BY <1>1, <2>1, <2>2 DEF AppTypes
<1>3. Cardinality(Live) \in Nat /\ Cardinality(AppThreads) \in Nat BY <1>2, AppFinite
<1>4. /\ Cardinality(Counted') \in Nat /\ Cardinality(Counted') <= Cardinality(AppThreads)
      /\ \A l \in Labels : Cardinality(CountedFor(l)') \in Nat
                           /\ Cardinality(CountedFor(l)') <= Cardinality(AppThreads)
  <2>1. Counted' \in SUBSET AppThreads /\ \A l \in Labels : CountedFor(l)' \in SUBSET AppThreads
    BY DEF Counted, CountedFor
  <2>2. QED BY <1>2, <2>1, AppFinite
<1>5. Cardinality(Live') + Cardinality(Counted') <= AppLimit - 1 + Cardinality(AppThreads)
  BY <1>1, <1>2, <1>3, <1>4, AppAssumption
<1>6. ASSUME NEW l \in Labels
      PROVE  Cardinality(LiveOf(l)') + Cardinality(CountedFor(l)') <= Cardinality(AppThreads)
  <2>1. LiveOf(l)' = LiveOf(l) BY <1>1, <1>2 DEF LiveOf
  <2>2. CASE l = label
    <3>1. LiveOf(l)' = {} BY <1>1, <2>1, <2>2
    <3>2. Cardinality(LiveOf(l)') = 0 BY <3>1, FS_EmptySet
    <3>3. QED BY <1>3, <1>4, <3>2
  <2>3. CASE l # label
    <3>1. CountedFor(l)' = CountedFor(l)
      BY <1>1, <1>2, <2>3 DEF CountedFor, AppTypes, NotAsking
    <3>2. QED BY <2>1, <3>1 DEF AppIInv, AppCounts
  <2>4. QED BY <2>2, <2>3
<1>7. QED BY <1>2, <1>5, <1>6 DEF AppIInv, AppCounts

LEMMA InsertAppKeeps ==
    ASSUME AppIInv, NEW t \in AppThreads, InsertApp(t)
    PROVE  AppIInv'
<1> DEFINE row == [label |-> appThread[t].label, legacy |-> appThread[t].legacy, expired |-> FALSE]
<1>1. /\ appThread[t].pc = "insert" /\ appNext' = appNext + 1
      /\ appRows' = [i \in Live \cup {appNext} |-> IF i = appNext THEN row ELSE appRows[i]]
      /\ appThread' = [appThread EXCEPT ![t] = NotAsking]
  BY DEF InsertApp
<1>2. AppTypes BY DEF AppIInv
<1>3. appThread[t] \in Inserting BY <1>1, <1>2 DEF AppTypes, NotAsking
<1>4. row \in AppRow /\ row.label = appThread[t].label BY <1>3 DEF Inserting, AppRow
<1> HIDE DEF row
<1>5. Live' = Live \cup {appNext} /\ appNext \notin Live /\ appNext \in Nat
  BY <1>1, <1>2 DEF Live, AppTypes
<1>6. \A i \in Live : appRows'[i] = appRows[i] BY <1>1, <1>5
<1>7. appRows'[appNext] = row BY <1>1
<1>8. AppTypes'
  <2>1. Live' \in SUBSET (1..(appNext' - 1)) /\ appNext' \in Nat \ {0} BY <1>1, <1>2, <1>5 DEF AppTypes
  <2>2. appRows' \in [Live' -> AppRow] BY <1>1, <1>2, <1>4, <1>5 DEF AppTypes
  <2>3. QED BY <1>1, <1>2, <2>1, <2>2 DEF AppTypes
<1>9. /\ Cardinality(Live') = Cardinality(Live) + 1
      /\ Cardinality(Live) \in Nat /\ Cardinality(AppThreads) \in Nat
  BY <1>2, <1>5, AppFinite, FS_AddElement
<1>10. Counted' = Counted \ {t} /\ t \in Counted
  BY <1>1, <1>2 DEF Counted, AppTypes, NotAsking
<1>11. Cardinality(Counted') = Cardinality(Counted) - 1 /\ Cardinality(Counted) \in Nat
  <2>1. Counted \in SUBSET AppThreads BY DEF Counted
  <2>2. QED BY <1>2, <1>10, <2>1, AppFinite, FS_RemoveElement
<1>12. Cardinality(Live') + Cardinality(Counted') <= AppLimit - 1 + Cardinality(AppThreads)
  BY <1>9, <1>11, AppAssumption DEF AppIInv, AppCounts
<1>13. ASSUME NEW l \in Labels
       PROVE  Cardinality(LiveOf(l)') + Cardinality(CountedFor(l)') <= Cardinality(AppThreads)
  <2>1. Cardinality(LiveOf(l)) + Cardinality(CountedFor(l)) <= Cardinality(AppThreads)
    BY DEF AppIInv, AppCounts
  <2>2. LiveOf(l) \in SUBSET Live /\ CountedFor(l) \in SUBSET AppThreads BY DEF LiveOf, CountedFor
  <2>3. IsFiniteSet(LiveOf(l)) /\ IsFiniteSet(CountedFor(l))
        /\ Cardinality(LiveOf(l)) \in Nat /\ Cardinality(CountedFor(l)) \in Nat
    BY <1>2, <2>2, AppFinite
  <2>4. CASE l = row.label
    <3>1. LiveOf(l)' = LiveOf(l) \cup {appNext} /\ appNext \notin LiveOf(l)
      BY <1>5, <1>6, <1>7, <2>4 DEF LiveOf
    <3>2. CountedFor(l)' = CountedFor(l) \ {t} /\ t \in CountedFor(l)
      BY <1>1, <1>2, <1>4, <2>4 DEF CountedFor, AppTypes, NotAsking
    <3>3. Cardinality(LiveOf(l)') = Cardinality(LiveOf(l)) + 1 BY <2>3, <3>1, FS_AddElement
    <3>4. Cardinality(CountedFor(l)') = Cardinality(CountedFor(l)) - 1
      BY <2>3, <3>2, FS_RemoveElement
    <3>5. QED BY <2>1, <2>3, <3>3, <3>4
  <2>5. CASE l # row.label
    <3>1. LiveOf(l)' = LiveOf(l) BY <1>5, <1>6, <1>7, <2>5 DEF LiveOf
    <3>2. CountedFor(l)' = CountedFor(l)
      BY <1>1, <1>2, <1>4, <2>5 DEF CountedFor, AppTypes, NotAsking
    <3>3. QED BY <2>1, <3>1, <3>2
  <2>6. QED BY <2>4, <2>5
<1>14. QED BY <1>8, <1>12, <1>13 DEF AppIInv, AppCounts

LEMMA RevokeKeeps ==
    ASSUME AppIInv, NEW ids, Revoke(ids)
    PROVE  AppIInv'
<1>1. /\ Live' = Live \ ids /\ \A i \in Live' : appRows'[i] = appRows[i]
      /\ appRows' = [i \in Live' |-> appRows[i]] /\ UNCHANGED <<appNext, appThread>>
  BY DEF Revoke, With, Revoked, Live
<1>2. AppTypes' BY <1>1 DEF AppIInv, AppTypes
<1>3. QED BY <1>1, <1>2, FewerKeep

LEMMA AppExpireKeeps ==
    ASSUME AppIInv, NEW i \in Live, ExpireApp(i)
    PROVE  AppIInv'
<1>1. /\ appRows' = [appRows EXCEPT ![i] = [appRows[i] EXCEPT !.expired = TRUE]]
      /\ UNCHANGED <<appNext, appThread>>
  BY DEF ExpireApp
<1>2. appRows \in [Live -> AppRow] /\ appRows[i] \in AppRow BY DEF AppIInv, AppTypes
<1>3. /\ [appRows[i] EXCEPT !.expired = TRUE] \in AppRow
      /\ [appRows[i] EXCEPT !.expired = TRUE].label = appRows[i].label
  BY <1>2 DEF AppRow
<1>4. Live' = Live BY <1>1, <1>2 DEF Live
<1>5. appRows' \in [Live -> AppRow] /\ \A j \in Live : appRows'[j].label = appRows[j].label
  BY <1>1, <1>2, <1>3
<1>6. AppTypes' BY <1>1, <1>4, <1>5 DEF AppIInv, AppTypes
<1>7. QED BY <1>1, <1>4, <1>5, <1>6, FewerKeep

LEMMA AppInduction == AppIInv /\ [AppNext]_appVars => AppIInv'
<1> SUFFICES ASSUME AppIInv, [AppNext]_appVars PROVE AppIInv' OBVIOUS
<1>1. ASSUME NEW t \in AppThreads, InsertApp(t) PROVE AppIInv' BY <1>1, InsertAppKeeps
<1>2. ASSUME NEW t \in AppThreads, NEW l \in Labels, NEW legacy \in BOOLEAN, AskApp(t, l, legacy)
      PROVE  AppIInv'
  BY <1>2, AskAppKeeps
<1>3. ASSUME NEW i \in Live, ExpireApp(i) PROVE AppIInv' BY <1>3, AppExpireKeeps
<1>4. ASSUME NEW ids, Revoke(ids) PROVE AppIInv' BY <1>4, RevokeKeeps
<1>5. CASE UNCHANGED <<appRows, appNext, appThread>>
  <2>1. AppTypes' /\ Live' = Live BY <1>5 DEF AppIInv, AppTypes, Live
  <2>2. QED BY <1>5, <2>1, FewerKeep
<1>6. QED BY <1>1, <1>2, <1>3, <1>4, <1>5 DEF AppNext, Authenticate, appVars

LEMMA QuotaOfCounts == AppIInv => AppQuota
<1> SUFFICES ASSUME AppIInv PROVE AppQuota OBVIOUS
<1>1. Cardinality(Live) + Cardinality(Counted) <= AppLimit - 1 + Cardinality(AppThreads)
  BY DEF AppIInv, AppCounts
<1>2. ASSUME NEW l \in Labels PROVE Cardinality(LiveOf(l)) <= Cardinality(AppThreads)
  <2>1. LiveOf(l) \in SUBSET Live /\ CountedFor(l) \in SUBSET AppThreads BY DEF LiveOf, CountedFor
  <2>2. /\ Cardinality(LiveOf(l)) \in Nat /\ Cardinality(CountedFor(l)) \in Nat
        /\ Cardinality(AppThreads) \in Nat
    BY <2>1, AppFinite DEF AppIInv
  <2>3. QED BY <2>2 DEF AppIInv, AppCounts
<1>3. QED BY <1>1, <1>2 DEF AppQuota, Counted, LiveOf

LEMMA RevokedStays ==
    ASSUME AppIInv, AppNext
    PROVE  /\ \A i \in 1..(appNext - 1) : i \notin Live => i \notin Live' /\ keyUsed' # i
           /\ \A i \in 1..AppRowsMax : Revoke({i}) => i \notin Live' /\ Live \ {i} \subseteq Live'
<1>1. AppTypes BY DEF AppIInv
<1>2. ASSUME NEW i \in 1..AppRowsMax, Revoke({i}) PROVE i \notin Live' /\ Live \ {i} \subseteq Live'
  BY <1>2 DEF Revoke, With, Revoked, Live
<1>3. Live' \subseteq Live \cup {appNext} /\ (keyUsed' = 0 \/ keyUsed' \in Live)
  <2>1. ASSUME NEW t \in AppThreads, InsertApp(t) PROVE <1>3
    BY <2>1 DEF InsertApp, Live
  <2>2. ASSUME NEW t \in AppThreads, NEW l \in Labels, NEW legacy \in BOOLEAN, AskApp(t, l, legacy)
        PROVE  <1>3
    BY <2>2 DEF AskApp, Live
  <2>3. ASSUME NEW i \in Live, ExpireApp(i) PROVE <1>3 BY <2>3 DEF ExpireApp, Live
  <2>4. ASSUME NEW ids, Revoke(ids) PROVE <1>3 BY <2>4 DEF Revoke, With, Revoked, Live
  <2>5. ASSUME NEW i, NEW legacy, Authenticate(i, legacy) PROVE <1>3
    BY <2>5 DEF Authenticate, Live
  <2>6. QED BY <2>1, <2>2, <2>3, <2>4, <2>5 DEF AppNext
<1>4. QED BY <1>1, <1>2, <1>3 DEF AppTypes

(* For any number of threads and any limit: create_app_password() exceeds   *)
(* the limit, or doubles a name, by no more than the requests that counted  *)
(* at the same time; and what revoke_app_password() took never signs in.    *)
THEOREM AppPasswordsAreSound == AppSpec => AppPasswordsHold
<1>1. AppSpec => []AppIInv BY AppStarts, AppInduction, PTL DEF AppSpec
<1>2. AppSpec => []AppQuota BY <1>1, QuotaOfCounts, PTL
<1>3. AppSpec => RevokedForGood
  <2>1. AppIInv /\ [AppNext]_appVars =>
          [/\ \A i \in 1..(appNext - 1) : i \notin Live => i \notin Live' /\ keyUsed' # i
           /\ \A i \in 1..AppRowsMax : Revoke({i}) => i \notin Live' /\ Live \ {i} \subseteq Live']_appVars
    BY RevokedStays
  <2>2. QED BY <1>1, <2>1, PTL DEF AppSpec, RevokedForGood
<1>4. QED BY <1>2, <1>3 DEF AppPasswordsHold

-----------------------------------------------------------------------------
(***************************************************************************)
(* Shares. The count of a share is kept exact by adding, for each request, *)
(* what it takes and gives back (Follows); a cookie is honest when each of *)
(* its unlocks was entered by its visitor; and no request asks for a share *)
(* before it exists.                                                       *)
(***************************************************************************)

Mark     == [share : ShareIds, stamp : Nat]
ShareRow == [limit : ShareLimits, count : Nat, over : BOOLEAN, hash : Nat]
Asking   == [pc : {"unlock", "view", "song", "album", "send", "zip", "build"},
             visitor : Visitors, share : ShareIds, hash : Nat, cookie : Seq(Mark)]
Request  == Asking \cup {NoRequest}

ShareTypes ==
    /\ shares \in [ShareIds -> ShareRow \cup {NoShare}] /\ cookies \in [Visitors -> Seq(Mark)]
    /\ requests \in [ShareRequests -> Request] /\ zipping \in Nat /\ asked \in Nat
    /\ entered \in [Visitors -> SUBSET Nat]
    /\ tally \in [ShareIds -> [created : BOOLEAN, served : Nat, lost : Nat]]

(* The unlocks of a cookie whose browser entered the passwords e.           *)
Honest(unlocks, e) == \A n \in DOMAIN unlocks : unlocks[n].stamp \in e

(* A request of a visitor who entered e.                                    *)
Admitted(q, e) ==
    IF q.pc = "unlock" THEN Honest(q.cookie, e) ELSE q.hash \in e \cup {NoHash}

AllHonest ==
    /\ \A v \in Visitors : Honest(cookies[v], entered[v])
    /\ \A r \in ShareRequests : requests[r].pc # "idle" => Admitted(requests[r], entered[requests[r].visitor])

(* Before a share is created nobody asks for it.                            *)
NotYet ==
    \A s \in ShareIds : ~tally[s].created =>
        /\ s \notin Stored /\ tally[s].served = 0 /\ tally[s].lost = 0
        /\ \A r \in ShareRequests : requests[r].pc # "idle" => requests[r].share # s

SharesIInv == ShareTypes /\ AllHonest /\ NotYet /\ CountTrue /\ SlotsHeld

(* Preparing(s) and the requests that build, of the requests q.             *)
IsPreparing(a, s) == a.pc \in {"send", "zip", "build"} /\ a.share = s
PreparingIn(q, s) == {r \in ShareRequests : IsPreparing(q[r], s)}
BuildingIn(q)     == {r \in ShareRequests : q[r].pc = "build"}
One(b)            == IF b THEN 1 ELSE 0

LEMMA OneMoreOrLess ==
    ASSUME NEW P, NEW Q, NEW r, IsFiniteSet(P), IsFiniteSet(Q), P \ {r} = Q \ {r}
    PROVE  /\ Cardinality(P) \in Nat /\ Cardinality(Q) \in Nat
           /\ Cardinality(Q) = Cardinality(P) + One(r \in Q) - One(r \in P)
<1>1. Cardinality(P) \in Nat /\ Cardinality(Q) \in Nat BY FS_CardinalityType
<1>2. CASE (r \in P) <=> (r \in Q)
  <2>1. P = Q BY <1>2
  <2>2. QED BY <1>1, <1>2, <2>1 DEF One
<1>3. CASE r \in P /\ r \notin Q
  <2>1. Q = P \ {r} BY <1>3
  <2>2. Cardinality(Q) = Cardinality(P) - 1 BY <1>3, <2>1, FS_RemoveElement
  <2>3. QED BY <1>1, <1>3, <2>2 DEF One
<1>4. CASE r \notin P /\ r \in Q
  <2>1. Q = P \cup {r} BY <1>4
  <2>2. Cardinality(Q) = Cardinality(P) + 1 BY <1>4, <2>1, FS_AddElement
  <2>3. QED BY <1>1, <1>4, <2>2 DEF One
<1>5. QED BY <1>2, <1>3, <1>4

(* One request goes on: what it prepares and builds is counted with it.     *)
LEMMA RequestGoesOn ==
    ASSUME SharesAssumption, NEW q \in [ShareRequests -> Request], NEW r \in ShareRequests, NEW a \in Request
    PROVE  LET next == [q EXCEPT ![r] = a] IN
           /\ \A s \in ShareIds :
                 /\ Cardinality(PreparingIn(q, s)) \in Nat /\ Cardinality(PreparingIn(next, s)) \in Nat
                 /\ Cardinality(PreparingIn(next, s))
                      = Cardinality(PreparingIn(q, s)) + One(IsPreparing(a, s)) - One(IsPreparing(q[r], s))
           /\ Cardinality(BuildingIn(q)) \in Nat
           /\ Cardinality(BuildingIn(next))
                = Cardinality(BuildingIn(q)) + One(a.pc = "build") - One(q[r].pc = "build")
<1> DEFINE next == [q EXCEPT ![r] = a]
<1>0. next[r] = a /\ \A o \in ShareRequests \ {r} : next[o] = q[o] OBVIOUS
<1> HIDE DEF next
<1>1. IsFiniteSet(ShareRequests) BY DEF SharesAssumption
<1>2. ASSUME NEW s \in ShareIds
      PROVE  /\ Cardinality(PreparingIn(q, s)) \in Nat /\ Cardinality(PreparingIn(next, s)) \in Nat
             /\ Cardinality(PreparingIn(next, s))
                  = Cardinality(PreparingIn(q, s)) + One(IsPreparing(a, s)) - One(IsPreparing(q[r], s))
  <2>1. IsFiniteSet(PreparingIn(q, s)) /\ IsFiniteSet(PreparingIn(next, s))
    BY <1>1, FS_Subset DEF PreparingIn
  <2>2. PreparingIn(q, s) \ {r} = PreparingIn(next, s) \ {r} BY <1>0 DEF PreparingIn
  <2>3. /\ (r \in PreparingIn(q, s)) = IsPreparing(q[r], s)
        /\ (r \in PreparingIn(next, s)) = IsPreparing(a, s)
    BY <1>0 DEF PreparingIn, IsPreparing
  <2>4. /\ Cardinality(PreparingIn(q, s)) \in Nat /\ Cardinality(PreparingIn(next, s)) \in Nat
        /\ Cardinality(PreparingIn(next, s)) = Cardinality(PreparingIn(q, s))
             + One(r \in PreparingIn(next, s)) - One(r \in PreparingIn(q, s))
    BY <2>1, <2>2, OneMoreOrLess
  <2>5. QED BY <2>3, <2>4
<1>3. /\ Cardinality(BuildingIn(q)) \in Nat
      /\ Cardinality(BuildingIn(next))
           = Cardinality(BuildingIn(q)) + One(a.pc = "build") - One(q[r].pc = "build")
  <2>1. IsFiniteSet(BuildingIn(q)) /\ IsFiniteSet(BuildingIn(next))
    BY <1>1, FS_Subset DEF BuildingIn
  <2>2. BuildingIn(q) \ {r} = BuildingIn(next) \ {r} BY <1>0 DEF BuildingIn
  <2>3. /\ (r \in BuildingIn(q)) = (q[r].pc = "build") /\ (r \in BuildingIn(next)) = (a.pc = "build")
    BY <1>0 DEF BuildingIn
  <2>4. /\ Cardinality(BuildingIn(q)) \in Nat
        /\ Cardinality(BuildingIn(next)) = Cardinality(BuildingIn(q))
             + One(r \in BuildingIn(next)) - One(r \in BuildingIn(q))
    BY <2>1, <2>2, OneMoreOrLess
  <2>5. QED BY <2>3, <2>4
<1>4. QED BY <1>2, <1>3 DEF next

LEMMA SharesStart == SharesAssumption /\ SharesInit => SharesIInv
<1> SUFFICES ASSUME SharesAssumption, SharesInit PROVE SharesIInv OBVIOUS
<1>1. Stored = {} BY DEF SharesInit, Stored
<1>2. ShareTypes BY DEF SharesInit, ShareTypes, Request
<1>3. AllHonest BY DEF SharesInit, AllHonest, Honest, NoRequest
<1>4. NotYet BY <1>1 DEF SharesInit, NotYet, NoRequest
<1>5. CountTrue BY <1>1 DEF CountTrue
<1>6. SlotsHeld
  <2>1. {r \in ShareRequests : requests[r].pc = "build"} = {} BY DEF SharesInit, NoRequest
  <2>2. QED BY <2>1, FS_EmptySet DEF SharesInit, SlotsHeld
<1>7. QED BY <1>2, <1>3, <1>4, <1>5, <1>6 DEF SharesIInv

(* The counts of shares and slots stay true when they change by what the    *)
(* request that goes on takes and gives back.                               *)
Follows(r, a) ==
    /\ requests' = [requests EXCEPT ![r] = a]
    /\ shares' \in [ShareIds -> ShareRow \cup {NoShare}]
    /\ tally' \in [ShareIds -> [created : BOOLEAN, served : Nat, lost : Nat]] /\ zipping' \in Nat
    /\ \A s \in Stored' :
          /\ s \in Stored
          /\ shares'[s].count + One(IsPreparing(requests[r], s)) + tally[s].served + tally[s].lost
               = shares[s].count + One(IsPreparing(a, s)) + tally'[s].served + tally'[s].lost
    /\ zipping' + One(requests[r].pc = "build") = zipping + One(a.pc = "build")

LEMMA CountsFollow ==
    ASSUME SharesAssumption, SharesIInv, NEW r \in ShareRequests, NEW a \in Request, Follows(r, a)
    PROVE  CountTrue' /\ SlotsHeld'
<1>1. /\ requests \in [ShareRequests -> Request] /\ zipping \in Nat
      /\ shares \in [ShareIds -> ShareRow \cup {NoShare}]
      /\ tally \in [ShareIds -> [created : BOOLEAN, served : Nat, lost : Nat]]
  BY DEF SharesIInv, ShareTypes
<1>2. /\ \A s \in ShareIds :
            /\ Cardinality(PreparingIn(requests, s)) \in Nat /\ Cardinality(PreparingIn(requests', s)) \in Nat
            /\ Cardinality(PreparingIn(requests', s)) = Cardinality(PreparingIn(requests, s))
                 + One(IsPreparing(a, s)) - One(IsPreparing(requests[r], s))
      /\ Cardinality(BuildingIn(requests)) \in Nat
      /\ Cardinality(BuildingIn(requests')) = Cardinality(BuildingIn(requests))
           + One(a.pc = "build") - One(requests[r].pc = "build")
  <2> DEFINE next == [requests EXCEPT ![r] = a]
  <2>1. /\ \A s \in ShareIds :
            /\ Cardinality(PreparingIn(requests, s)) \in Nat /\ Cardinality(PreparingIn(next, s)) \in Nat
            /\ Cardinality(PreparingIn(next, s)) = Cardinality(PreparingIn(requests, s))
                 + One(IsPreparing(a, s)) - One(IsPreparing(requests[r], s))
        /\ Cardinality(BuildingIn(requests)) \in Nat
        /\ Cardinality(BuildingIn(next)) = Cardinality(BuildingIn(requests))
             + One(a.pc = "build") - One(requests[r].pc = "build")
    BY <1>1, RequestGoesOn
  <2>2. requests' = next BY DEF Follows
  <2> HIDE DEF next
  <2>3. QED BY <2>1, <2>2
<1>3. /\ \A s : Preparing(s) = PreparingIn(requests, s) /\ Preparing(s)' = PreparingIn(requests', s)
      /\ {o \in ShareRequests : requests[o].pc = "build"} = BuildingIn(requests)
      /\ {o \in ShareRequests : requests'[o].pc = "build"} = BuildingIn(requests')
  BY DEF Preparing, PreparingIn, IsPreparing, BuildingIn
<1>4. CountTrue'
  <2> SUFFICES ASSUME NEW s \in Stored'
               PROVE shares'[s].count = tally'[s].served + Cardinality(PreparingIn(requests', s)) + tally'[s].lost
    BY <1>3 DEF CountTrue
  <2>1. s \in ShareIds /\ s \in Stored /\ shares'[s] # NoShare /\ shares[s] # NoShare BY DEF Stored, Follows
  <2>2. shares[s] \in ShareRow /\ shares'[s] \in ShareRow BY <1>1, <2>1 DEF Follows
  <2>3. shares[s].count \in Nat /\ shares'[s].count \in Nat BY <2>2 DEF ShareRow
  <2>4. shares[s].count = tally[s].served + Cardinality(PreparingIn(requests, s)) + tally[s].lost
    BY <1>3, <2>1 DEF SharesIInv, CountTrue
  <2>5. One(IsPreparing(a, s)) \in Nat /\ One(IsPreparing(requests[r], s)) \in Nat BY DEF One
  <2>6. /\ tally[s].served \in Nat /\ tally[s].lost \in Nat
        /\ tally'[s].served \in Nat /\ tally'[s].lost \in Nat
    BY <1>1, <2>1 DEF Follows
  <2>7. /\ Cardinality(PreparingIn(requests, s)) \in Nat /\ Cardinality(PreparingIn(requests', s)) \in Nat
        /\ Cardinality(PreparingIn(requests', s)) = Cardinality(PreparingIn(requests, s))
             + One(IsPreparing(a, s)) - One(IsPreparing(requests[r], s))
    BY <1>2, <2>1
  <2>8. shares'[s].count + One(IsPreparing(requests[r], s)) + tally[s].served + tally[s].lost
          = shares[s].count + One(IsPreparing(a, s)) + tally'[s].served + tally'[s].lost
    BY DEF Follows
  <2> DEFINE was == tally[s].served + tally[s].lost
             is  == tally'[s].served + tally'[s].lost
             in  == One(IsPreparing(a, s))
             out == One(IsPreparing(requests[r], s))
             y   == Cardinality(PreparingIn(requests, s))
             y2  == Cardinality(PreparingIn(requests', s))
  <2>9. was \in Nat /\ is \in Nat /\ in \in Nat /\ out \in Nat /\ y \in Nat /\ y2 \in Nat
    BY <2>5, <2>6, <2>7
  <2>10. shares[s].count = y + was BY <2>3, <2>4, <2>6, <2>9
  <2>11. shares'[s].count + out + was = shares[s].count + in + is BY <2>3, <2>6, <2>8, <2>9
  <2>12. y2 = y + in - out BY <2>7
  <2>13. shares'[s].count = y2 + is
    <3> HIDE DEF was, is, in, out, y, y2
    <3>1. QED BY <2>3, <2>9, <2>10, <2>11, <2>12
  <2>14. QED BY <2>3, <2>6, <2>9, <2>13
<1>5. SlotsHeld'
  <2>1. zipping = Cardinality(BuildingIn(requests)) BY <1>3 DEF SharesIInv, SlotsHeld
  <2>2. One(requests[r].pc = "build") \in Nat /\ One(a.pc = "build") \in Nat BY DEF One
  <2> DEFINE given == One(requests[r].pc = "build")
             taken == One(a.pc = "build")
             now   == Cardinality(BuildingIn(requests'))
  <2>4. given \in Nat /\ taken \in Nat /\ zipping' + given = zipping + taken /\ zipping' \in Nat
    BY <2>2 DEF Follows
  <2>5. now = zipping + taken - given /\ zipping \in Nat BY <1>1, <1>2, <2>1
  <2> HIDE DEF given, taken, now
  <2>3. now + given = zipping + taken /\ now \in Int BY <2>4, <2>5
  <2>6. zipping' = now BY <2>3, <2>4
  <2>7. QED BY <1>3, <2>6 DEF SlotsHeld, now
<1>6. QED BY <1>4, <1>5

(* The passwords entered and the cookies stay, and one request goes on, for *)
(* the visitor and the share it was for: the rest of the invariant.         *)
LEMMA OthersStay ==
    ASSUME SharesIInv, NEW r \in ShareRequests, NEW a \in Request, Follows(r, a), UNCHANGED <<cookies, entered>>,
           a.pc # "idle" => Admitted(a, entered[a.visitor])
    PROVE  AllHonest'
<1>1. requests \in [ShareRequests -> Request] BY DEF SharesIInv, ShareTypes
<1>2. \A o \in ShareRequests : requests'[o] = IF o = r THEN a ELSE requests[o] BY <1>1 DEF Follows
<1>3. QED BY <1>2 DEF SharesIInv, AllHonest

LEMMA NotYetStays ==
    ASSUME SharesIInv, NEW r \in ShareRequests, NEW a \in Request, Follows(r, a),
           \A s \in ShareIds : /\ tally'[s].created = tally[s].created
                               /\ ~tally[s].created => tally'[s].served = 0 /\ tally'[s].lost = 0,
           a.pc # "idle" => tally[a.share].created
    PROVE  NotYet'
<1>1. requests \in [ShareRequests -> Request] BY DEF SharesIInv, ShareTypes
<1>2. \A o \in ShareRequests : requests'[o] = IF o = r THEN a ELSE requests[o] BY <1>1 DEF Follows
<1>3. ASSUME NEW s \in ShareIds, ~tally'[s].created
      PROVE  /\ s \notin Stored' /\ tally'[s].served = 0 /\ tally'[s].lost = 0
             /\ \A o \in ShareRequests : requests'[o].pc # "idle" => requests'[o].share # s
  <2>1. ~tally[s].created BY <1>3
  <2>2. /\ s \notin Stored
        /\ \A o \in ShareRequests : requests[o].pc # "idle" => requests[o].share # s
    BY <2>1 DEF SharesIInv, NotYet
  <2>3. a.pc # "idle" => a.share # s BY <2>1
  <2>4. s \notin Stored' BY <2>2 DEF Follows
  <2>5. QED BY <1>2, <1>3, <2>1, <2>2, <2>3, <2>4
<1>4. QED BY <1>3 DEF NotYet

(* A request that goes on with what it takes and gives back counted.        *)
LEMMA StepKeeps ==
    ASSUME SharesAssumption, SharesIInv, NEW r \in ShareRequests, NEW a \in Request, Follows(r, a),
           UNCHANGED <<cookies, asked, entered>>,
           a.pc # "idle" => Admitted(a, entered[a.visitor]) /\ tally[a.share].created,
           \A s \in ShareIds : /\ tally'[s].created = tally[s].created
                               /\ ~tally[s].created => tally'[s].served = 0 /\ tally'[s].lost = 0
    PROVE  SharesIInv'
<1>1. CountTrue' /\ SlotsHeld' BY CountsFollow
<1>2. AllHonest' BY OthersStay
<1>3. NotYet' BY NotYetStays
<1>4. ShareTypes'
  <2>1. requests' \in [ShareRequests -> Request] BY DEF SharesIInv, ShareTypes, Follows
  <2>2. cookies' \in [Visitors -> Seq(Mark)] /\ asked' \in Nat /\ entered' \in [Visitors -> SUBSET Nat]
    BY DEF SharesIInv, ShareTypes
  <2>3. QED BY <2>1, <2>2 DEF ShareTypes, Follows
<1>5. QED BY <1>1, <1>2, <1>3, <1>4 DEF SharesIInv

(* What a request that is not idle looks like.                              *)
LEMMA AskedFor ==
    ASSUME SharesIInv, NEW r \in ShareRequests, requests[r].pc # "idle"
    PROVE  /\ requests[r] \in Asking /\ Admitted(requests[r], entered[requests[r].visitor])
           /\ requests[r].share \in ShareIds /\ tally[requests[r].share].created
<1>1. requests[r] \in Asking BY DEF SharesIInv, ShareTypes, Request, NoRequest
<1>2. Admitted(requests[r], entered[requests[r].visitor]) BY DEF SharesIInv, AllHonest
<1>3. requests[r].share \in ShareIds BY <1>1 DEF Asking
<1>4. tally[requests[r].share].created BY <1>3 DEF SharesIInv, NotYet
<1>5. QED BY <1>1, <1>2, <1>3, <1>4

(* The same request, at another place of the route.                         *)
LEMMA GoesOnTo ==
    ASSUME SharesIInv, NEW r \in ShareRequests, requests[r].pc \in {"song", "album", "send", "zip", "build"},
           NEW pc \in {"send", "zip", "build"}
    PROVE  LET a == [requests[r] EXCEPT !.pc = pc] IN
           /\ a \in Request /\ a.pc = pc /\ a.share = requests[r].share
           /\ Admitted(a, entered[a.visitor]) /\ tally[a.share].created
<1>1. /\ requests[r] \in Asking /\ Admitted(requests[r], entered[requests[r].visitor])
      /\ tally[requests[r].share].created
  BY AskedFor
<1> DEFINE a == [requests[r] EXCEPT !.pc = pc]
<1>2. /\ a \in Asking /\ a.pc = pc /\ a.share = requests[r].share
      /\ a.hash = requests[r].hash /\ a.visitor = requests[r].visitor
  BY <1>1 DEF Asking
<1>3. Admitted(a, entered[a.visitor]) BY <1>1, <1>2 DEF Admitted
<1>4. QED BY <1>1, <1>2, <1>3 DEF Request

LEMMA Idle == NoRequest \in Request /\ NoRequest.pc = "idle"
BY DEF Request, NoRequest

(* One(IsPreparing(a, s)) of a request in each of its places.               *)
LEMMA Prepares ==
    ASSUME NEW a, NEW s
    PROVE  /\ a.pc \in {"send", "zip", "build"} => One(IsPreparing(a, s)) = One(a.share = s)
           /\ a.pc \notin {"send", "zip", "build"} => One(IsPreparing(a, s)) = 0
BY DEF One, IsPreparing

(* A share that a request prepares a download of has it counted.            *)
LEMMA PreparedIsCounted ==
    ASSUME SharesAssumption, SharesIInv, NEW r \in ShareRequests, NEW s \in Stored, IsPreparing(requests[r], s)
    PROVE  shares[s] \in ShareRow /\ shares[s].count \in Nat \ {0}
<1>1. s \in ShareIds /\ shares[s] \in ShareRow BY DEF Stored, SharesIInv, ShareTypes
<1>2. shares[s].count \in Nat /\ tally[s].served \in Nat /\ tally[s].lost \in Nat
  BY <1>1 DEF ShareRow, SharesIInv, ShareTypes
<1>3. IsFiniteSet(Preparing(s)) BY FS_Subset DEF Preparing, SharesAssumption
<1>4. r \in Preparing(s) BY DEF Preparing, IsPreparing
<1>5. Cardinality(Preparing(s)) \in Nat /\ Cardinality(Preparing(s)) # 0
  BY <1>3, <1>4, FS_CardinalityType, FS_EmptySet
<1>6. shares[s].count = tally[s].served + Cardinality(Preparing(s)) + tally[s].lost
  BY DEF SharesIInv, CountTrue
<1>7. QED BY <1>1, <1>2, <1>5, <1>6

(* A request that asks for something, or ends with nothing to give back.    *)
LEMMA PlainStep ==
    ASSUME SharesAssumption, SharesIInv, NEW r \in ShareRequests, NEW a \in Request,
           requests' = [requests EXCEPT ![r] = a], UNCHANGED <<shares, cookies, zipping, asked, entered, tally>>,
           requests[r].pc \notin {"send", "zip", "build"}, a.pc \notin {"send", "zip", "build"},
           a.pc # "idle" => Admitted(a, entered[a.visitor]) /\ tally[a.share].created
    PROVE  SharesIInv'
<1>1. /\ shares \in [ShareIds -> ShareRow \cup {NoShare}] /\ zipping \in Nat
      /\ tally \in [ShareIds -> [created : BOOLEAN, served : Nat, lost : Nat]]
  BY DEF SharesIInv, ShareTypes
<1>2. /\ \A s \in ShareIds : One(IsPreparing(requests[r], s)) = 0 /\ One(IsPreparing(a, s)) = 0
      /\ One(requests[r].pc = "build") = 0 /\ One(a.pc = "build") = 0
  BY DEF One, IsPreparing
<1>3. Stored' = Stored /\ Stored \subseteq ShareIds BY DEF Stored
<1>4. Follows(r, a) BY <1>1, <1>2, <1>3 DEF Follows
<1>5. \A s \in ShareIds : /\ tally'[s].created = tally[s].created
                          /\ ~tally[s].created => tally'[s].served = 0 /\ tally'[s].lost = 0
  BY DEF SharesIInv, NotYet
<1>6. QED BY <1>4, <1>5, StepKeeps

LEMMA AskKeeps ==
    ASSUME SharesAssumption, SharesIInv, NEW r \in ShareRequests, NEW v \in Visitors, NEW s \in ShareIds,
           NEW what \in {"unlock", "view", "song", "album"}, Ask(r, v, s, what)
    PROVE  SharesIInv'
<1> DEFINE a == [pc |-> what, visitor |-> v, share |-> s, hash |-> shares[s].hash,
                 cookie |-> IF what = "unlock" THEN cookies[v] ELSE << >>]
<1>1. /\ s \in Stored /\ requests[r] = NoRequest /\ requests' = [requests EXCEPT ![r] = a]
      /\ UNCHANGED <<shares, cookies, zipping, asked, entered, tally>>
      /\ what # "unlock" => Unlocked(cookies[v], s, shares[s])
  BY DEF Ask
<1>2. shares[s] \in ShareRow /\ shares[s].hash \in Nat
  BY <1>1 DEF SharesIInv, ShareTypes, Stored, ShareRow
<1>3. cookies[v] \in Seq(Mark) /\ Honest(cookies[v], entered[v]) BY DEF SharesIInv, ShareTypes, AllHonest
<1>4. a \in Asking BY <1>2, <1>3 DEF Asking
<1>5. Admitted(a, entered[v])
  <2>1. CASE what = "unlock" BY <1>3, <2>1 DEF Admitted
  <2>2. CASE what # "unlock"
    <3>1. CASE shares[s].hash = NoHash BY <2>2, <3>1 DEF Admitted
    <3>2. CASE shares[s].hash # NoHash
      <4>1. PICK n \in DOMAIN cookies[v] : cookies[v][n] = [share |-> s, stamp |-> shares[s].hash]
        BY <1>1, <2>2, <3>2 DEF Unlocked
      <4>2. shares[s].hash \in entered[v] BY <1>3, <4>1 DEF Honest
      <4>3. QED BY <2>2, <4>2 DEF Admitted
    <3>3. QED BY <3>1, <3>2
  <2>3. QED BY <2>1, <2>2
<1>6. tally[s].created BY <1>1 DEF SharesIInv, NotYet
<1>7. a.pc = what /\ a.visitor = v /\ a.share = s /\ a \in Request BY <1>4 DEF Request
<1> HIDE DEF a
<1>8. requests[r].pc = "idle" BY <1>1, Idle
<1>9. QED BY <1>1, <1>5, <1>6, <1>7, <1>8, PlainStep

LEMMA ClaimKeeps ==
    ASSUME SharesAssumption, SharesIInv, NEW r \in ShareRequests, Claim(r)
    PROVE  SharesIInv'
<1> DEFINE s == requests[r].share
<1>1. /\ requests[r].pc \in {"song", "album"}
      /\ UNCHANGED <<cookies, zipping, asked, entered, tally>>
  BY DEF Claim
<1>2. /\ requests[r] \in Asking /\ s \in ShareIds /\ tally[s].created
      /\ Admitted(requests[r], entered[requests[r].visitor])
  BY <1>1, AskedFor
<1>3. CASE s \in Stored /\ Room(shares[s])
  <2> DEFINE pc == IF requests[r].pc = "song" THEN "send" ELSE "zip"
             a  == [requests[r] EXCEPT !.pc = pc]
  <2>1. shares' = [shares EXCEPT ![s].count = @ + 1] /\ requests' = [requests EXCEPT ![r] = a]
    BY <1>3 DEF Claim
  <2>2. pc \in {"send", "zip"} OBVIOUS
  <2> HIDE DEF pc
  <2>3. /\ a \in Request /\ a.pc = pc /\ a.share = s
        /\ Admitted(a, entered[a.visitor]) /\ tally[a.share].created
    BY <1>1, <2>2, GoesOnTo
  <2> HIDE DEF a
  <2>4. shares[s] \in ShareRow BY <1>3 DEF SharesIInv, ShareTypes, Stored
  <2>5. [shares[s] EXCEPT !.count = @ + 1] \in ShareRow
        /\ [shares[s] EXCEPT !.count = @ + 1].count = shares[s].count + 1 /\ shares[s].count \in Nat
    BY <2>4 DEF ShareRow
  <2>6. /\ shares \in [ShareIds -> ShareRow \cup {NoShare}] /\ zipping \in Nat
        /\ tally \in [ShareIds -> [created : BOOLEAN, served : Nat, lost : Nat]]
    BY DEF SharesIInv, ShareTypes
  <2>7. /\ shares' \in [ShareIds -> ShareRow \cup {NoShare}]
        /\ \A o \in ShareIds \ {s} : shares'[o] = shares[o]
        /\ shares'[s].count = shares[s].count + 1
    BY <1>2, <2>1, <2>5, <2>6
  <2>8. \A o \in Stored' : o \in Stored /\ o \in ShareIds BY <1>3, <2>7 DEF Stored
  <2>9. \A o \in ShareIds : One(IsPreparing(requests[r], o)) = 0 /\ One(IsPreparing(a, o)) = One(o = s)
    BY <1>1, <2>2, <2>3 DEF One, IsPreparing
  <2>10. One(requests[r].pc = "build") = 0 /\ One(a.pc = "build") = 0 BY <1>1, <2>2, <2>3 DEF One
  <2>11. ASSUME NEW o \in Stored'
         PROVE shares'[o].count + One(IsPreparing(requests[r], o)) + tally[o].served + tally[o].lost
                 = shares[o].count + One(IsPreparing(a, o)) + tally'[o].served + tally'[o].lost
    <3>1. o \in ShareIds /\ o \in Stored /\ shares[o] \in ShareRow
      BY <2>6, <2>8 DEF Stored
    <3>2. shares[o].count \in Nat /\ tally[o].served \in Nat /\ tally[o].lost \in Nat /\ tally' = tally
      BY <1>1, <2>6, <3>1 DEF ShareRow
    <3>3. shares'[o].count = shares[o].count + One(o = s) BY <2>7, <3>1, <3>2 DEF One
    <3>4. One(o = s) \in Nat /\ One(IsPreparing(requests[r], o)) = 0 /\ One(IsPreparing(a, o)) = One(o = s)
      BY <2>9, <3>1 DEF One
    <3>5. QED BY <3>2, <3>3, <3>4
  <2>12. Follows(r, a)
    BY <1>1, <2>1, <2>6, <2>7, <2>8, <2>10, <2>11 DEF Follows
  <2>13. \A o \in ShareIds : /\ tally'[o].created = tally[o].created
                             /\ ~tally[o].created => tally'[o].served = 0 /\ tally'[o].lost = 0
    BY <1>1 DEF SharesIInv, NotYet
  <2>14. QED BY <1>1, <2>3, <2>12, <2>13, StepKeeps
<1>4. CASE ~(s \in Stored /\ Room(shares[s]))
  <2>1. shares' = shares /\ requests' = [requests EXCEPT ![r] = NoRequest] BY <1>4 DEF Claim, Done
  <2>2. requests[r].pc \notin {"send", "zip", "build"} BY <1>1
  <2>3. QED BY <1>1, <2>1, <2>2, Idle, PlainStep
<1>5. QED BY <1>3, <1>4

(* A zip that is built has a slot.                                          *)
LEMMA BuiltHasSlot ==
    ASSUME SharesAssumption, SharesIInv, NEW r \in ShareRequests, requests[r].pc = "build"
    PROVE  zipping \in Nat \ {0}
<1> DEFINE B == {o \in ShareRequests : requests[o].pc = "build"}
<1>1. IsFiniteSet(B) BY FS_Subset DEF SharesAssumption
<1>2. Cardinality(B) \in Nat /\ Cardinality(B) # 0 BY <1>1, FS_CardinalityType, FS_EmptySet, SMTT(30)
<1>3. QED BY <1>2 DEF SharesIInv, SlotsHeld

(* A download ends, served or lost, and stays counted.                      *)
LEMMA EndedKeeps ==
    ASSUME SharesAssumption, SharesIInv, NEW r \in ShareRequests, requests[r].pc \in {"send", "zip", "build"},
           UNCHANGED <<shares, cookies, asked, entered>>, Done(r),
           \/ tally' = [tally EXCEPT ![requests[r].share].served = @ + 1]
           \/ tally' = [tally EXCEPT ![requests[r].share].lost = @ + 1],
           zipping' = IF requests[r].pc = "build" THEN zipping - 1 ELSE zipping
    PROVE  SharesIInv'
<1> DEFINE s == requests[r].share
<1>1. s \in ShareIds /\ tally[s].created BY AskedFor
<1>2. /\ shares \in [ShareIds -> ShareRow \cup {NoShare}] /\ zipping \in Nat
      /\ tally \in [ShareIds -> [created : BOOLEAN, served : Nat, lost : Nat]]
  BY DEF SharesIInv, ShareTypes
<1>3. /\ tally' \in [ShareIds -> [created : BOOLEAN, served : Nat, lost : Nat]]
      /\ \A o \in ShareIds : tally'[o].created = tally[o].created
      /\ \A o \in ShareIds \ {s} : tally'[o] = tally[o]
      /\ tally'[s].served + tally'[s].lost = tally[s].served + tally[s].lost + 1
  <2> DEFINE Tally == [created : BOOLEAN, served : Nat, lost : Nat]
  <2>1. PICK new \in Tally : /\ tally' = [tally EXCEPT ![s] = new] /\ new.created = tally[s].created
                             /\ new.served + new.lost = tally[s].served + tally[s].lost + 1
    <3>1. tally[s] \in Tally BY <1>1, <1>2
    <3>2. CASE tally' = [tally EXCEPT ![s].served = @ + 1]
      <4> DEFINE new == [tally[s] EXCEPT !.served = @ + 1]
      <4>1. /\ new \in Tally /\ new.created = tally[s].created
            /\ new.served = tally[s].served + 1 /\ new.lost = tally[s].lost
        BY <3>1
      <4>2. new.served + new.lost = tally[s].served + tally[s].lost + 1 BY <3>1, <4>1
      <4>3. tally' = [tally EXCEPT ![s] = new] BY <3>2
      <4>4. QED BY <4>1, <4>2, <4>3
    <3>3. CASE tally' = [tally EXCEPT ![s].lost = @ + 1]
      <4> DEFINE new == [tally[s] EXCEPT !.lost = @ + 1]
      <4>1. /\ new \in Tally /\ new.created = tally[s].created
            /\ new.served = tally[s].served /\ new.lost = tally[s].lost + 1
        BY <3>1
      <4>2. new.served + new.lost = tally[s].served + tally[s].lost + 1 BY <3>1, <4>1
      <4>3. tally' = [tally EXCEPT ![s] = new] BY <3>3
      <4>4. QED BY <4>1, <4>2, <4>3
    <3>4. QED BY <3>2, <3>3
  <2>2. QED BY <1>1, <1>2, <2>1
<1>4. requests' = [requests EXCEPT ![r] = NoRequest] BY DEF Done
<1>5. Stored' = Stored BY DEF Stored
<1>6. ASSUME NEW o \in Stored'
      PROVE  shares'[o].count + One(IsPreparing(requests[r], o)) + tally[o].served + tally[o].lost
               = shares[o].count + One(IsPreparing(NoRequest, o)) + tally'[o].served + tally'[o].lost
  <2>1. o \in ShareIds /\ shares[o] \in ShareRow /\ shares' = shares BY <1>2, <1>5 DEF Stored
  <2>2. /\ shares[o].count \in Nat /\ tally[o].served \in Nat /\ tally[o].lost \in Nat
        /\ tally'[o].served \in Nat /\ tally'[o].lost \in Nat
    BY <1>2, <1>3, <2>1 DEF ShareRow
  <2>3. One(IsPreparing(NoRequest, o)) = 0 BY DEF One, IsPreparing, NoRequest
  <2>4. CASE o = s
    <3>1. One(IsPreparing(requests[r], o)) = 1 BY <2>4 DEF One, IsPreparing
    <3>2. tally'[o].served + tally'[o].lost = tally[o].served + tally[o].lost + 1 BY <1>3, <2>4
    <3>3. QED BY <2>1, <2>2, <2>3, <3>1, <3>2
  <2>5. CASE o # s
    <3>1. One(IsPreparing(requests[r], o)) = 0 BY <2>5 DEF One, IsPreparing
    <3>2. tally'[o] = tally[o] BY <1>3, <2>1, <2>5
    <3>3. QED BY <2>1, <2>2, <2>3, <3>1, <3>2
  <2>6. QED BY <2>4, <2>5
<1>7. /\ zipping' \in Nat
      /\ zipping' + One(requests[r].pc = "build") = zipping + One(NoRequest.pc = "build")
  <2>1. One(NoRequest.pc = "build") = 0 BY DEF One, NoRequest
  <2>2. CASE requests[r].pc = "build"
    <3>1. zipping \in Nat \ {0} BY <2>2, BuiltHasSlot
    <3>2. One(requests[r].pc = "build") = 1 BY <2>2 DEF One
    <3>3. QED BY <2>1, <2>2, <3>1, <3>2
  <2>3. CASE requests[r].pc # "build"
    <3>1. One(requests[r].pc = "build") = 0 BY <2>3 DEF One
    <3>2. QED BY <1>2, <2>1, <2>3, <3>1
  <2>4. QED BY <2>2, <2>3
<1>8. Follows(r, NoRequest) BY <1>2, <1>3, <1>4, <1>5, <1>6, <1>7 DEF Follows
<1>9. \A o \in ShareIds : /\ tally'[o].created = tally[o].created
                          /\ ~tally[o].created => tally'[o].served = 0 /\ tally'[o].lost = 0
  BY <1>1, <1>3 DEF SharesIInv, NotYet
<1>10. QED BY <1>8, <1>9, Idle, StepKeeps

LEMMA BuildZipKeeps ==
    ASSUME SharesAssumption, SharesIInv, NEW r \in ShareRequests, BuildZip(r)
    PROVE  SharesIInv'
<1> DEFINE a == [requests[r] EXCEPT !.pc = "build"]
<1>1. /\ requests[r].pc = "zip" /\ zipping' = zipping + 1 /\ requests' = [requests EXCEPT ![r] = a]
      /\ UNCHANGED <<shares, cookies, asked, entered, tally>>
  BY DEF BuildZip
<1>2. /\ a \in Request /\ a.pc = "build" /\ a.share = requests[r].share
      /\ Admitted(a, entered[a.visitor]) /\ tally[a.share].created
  BY <1>1, GoesOnTo
<1> HIDE DEF a
<1>3. /\ shares \in [ShareIds -> ShareRow \cup {NoShare}] /\ zipping \in Nat
      /\ tally \in [ShareIds -> [created : BOOLEAN, served : Nat, lost : Nat]]
  BY DEF SharesIInv, ShareTypes
<1>4. Stored' = Stored /\ Stored \subseteq ShareIds BY <1>1 DEF Stored
<1>5. \A s : One(IsPreparing(requests[r], s)) = One(IsPreparing(a, s)) BY <1>1, <1>2 DEF IsPreparing
<1>6. One(requests[r].pc = "build") = 0 /\ One(a.pc = "build") = 1 BY <1>1, <1>2 DEF One
<1>7. Follows(r, a) BY <1>1, <1>3, <1>4, <1>5, <1>6 DEF Follows
<1>8. \A s \in ShareIds : /\ tally'[s].created = tally[s].created
                          /\ ~tally[s].created => tally'[s].served = 0 /\ tally'[s].lost = 0
  BY <1>1 DEF SharesIInv, NotYet
<1>9. QED BY <1>1, <1>2, <1>7, <1>8, StepKeeps

LEMMA GiveBackKeeps ==
    ASSUME SharesAssumption, SharesIInv, NEW r \in ShareRequests, GiveBack(r)
    PROVE  SharesIInv'
<1> DEFINE s == requests[r].share
<1>1. /\ requests[r].pc \in {"send", "zip"} /\ ReleaseDownload(r)
      /\ requests' = [requests EXCEPT ![r] = NoRequest]
      /\ UNCHANGED <<cookies, zipping, asked, entered, tally>>
  BY DEF GiveBack, Done
<1>2. s \in ShareIds /\ tally[s].created BY <1>1, AskedFor
<1>3. /\ shares \in [ShareIds -> ShareRow \cup {NoShare}] /\ zipping \in Nat
      /\ tally \in [ShareIds -> [created : BOOLEAN, served : Nat, lost : Nat]]
  BY DEF SharesIInv, ShareTypes
<1>4. /\ shares' \in [ShareIds -> ShareRow \cup {NoShare}]
      /\ \A o \in ShareIds \ {s} : shares'[o] = shares[o]
      /\ s \in Stored => shares'[s].count + 1 = shares[s].count
      /\ s \notin Stored => shares' = shares
  <2>1. CASE s \in Stored
    <3>1. shares[s] \in ShareRow /\ shares[s].count \in Nat \ {0}
      BY <1>1, <2>1, PreparedIsCounted DEF IsPreparing
    <3>2. shares' = [shares EXCEPT ![s].count = @ - 1]
      <4>1. shares[s].count # 0 BY <3>1
      <4>2. shares' = [shares EXCEPT ![s].count = IF @ = 0 THEN 0 ELSE @ - 1]
        BY <1>1, <2>1 DEF ReleaseDownload
      <4>3. QED BY <4>1, <4>2
    <3>3. [shares[s] EXCEPT !.count = @ - 1] \in ShareRow BY <3>1 DEF ShareRow
    <3>4. [shares[s] EXCEPT !.count = @ - 1].count = shares[s].count - 1 BY <3>1 DEF ShareRow
    <3>5. QED BY <1>2, <1>3, <2>1, <3>1, <3>2, <3>3, <3>4
  <2>2. CASE s \notin Stored BY <1>1, <1>3, <2>2 DEF ReleaseDownload
  <2>3. QED BY <2>1, <2>2
<1>5. \A o \in Stored' : o \in Stored /\ o \in ShareIds BY <1>2, <1>4 DEF Stored
<1>6. ASSUME NEW o \in Stored'
      PROVE  shares'[o].count + One(IsPreparing(requests[r], o)) + tally[o].served + tally[o].lost
               = shares[o].count + One(IsPreparing(NoRequest, o)) + tally'[o].served + tally'[o].lost
  <2>1. o \in ShareIds /\ o \in Stored /\ shares[o] \in ShareRow /\ shares'[o] \in ShareRow
    BY <1>3, <1>4, <1>5 DEF Stored
  <2>2. /\ shares[o].count \in Nat /\ shares'[o].count \in Nat
        /\ tally[o].served \in Nat /\ tally[o].lost \in Nat /\ tally' = tally
    BY <1>1, <1>3, <2>1 DEF ShareRow
  <2>3. One(IsPreparing(NoRequest, o)) = 0 BY DEF One, IsPreparing, NoRequest
  <2>4. CASE o = s
    <3>1. One(IsPreparing(requests[r], o)) = 1 BY <1>1, <2>4 DEF One, IsPreparing
    <3>2. QED BY <1>4, <2>1, <2>2, <2>3, <2>4, <3>1
  <2>5. CASE o # s
    <3>1. One(IsPreparing(requests[r], o)) = 0 BY <2>5 DEF One, IsPreparing
    <3>2. QED BY <1>4, <2>1, <2>2, <2>3, <2>5, <3>1
  <2>6. QED BY <2>4, <2>5
<1>7. One(requests[r].pc = "build") = 0 /\ One(NoRequest.pc = "build") = 0
  BY <1>1 DEF One, NoRequest
<1>8. Follows(r, NoRequest) BY <1>1, <1>3, <1>4, <1>5, <1>6, <1>7 DEF Follows
<1>9. \A o \in ShareIds : /\ tally'[o].created = tally[o].created
                          /\ ~tally[o].created => tally'[o].served = 0 /\ tally'[o].lost = 0
  BY <1>1 DEF SharesIInv, NotYet
<1>10. QED BY <1>1, <1>8, <1>9, Idle, StepKeeps

(* The owner changes or removes a row, and leaves its count alone.          *)
LEMMA OwnerKeeps ==
    ASSUME SharesIInv, shares' \in [ShareIds -> ShareRow \cup {NoShare}], asked' \in Nat,
           \A s \in ShareIds : shares'[s] # NoShare => s \in Stored /\ shares'[s].count = shares[s].count,
           UNCHANGED <<cookies, requests, zipping, entered, tally>>
    PROVE  SharesIInv'
<1>1. \A s \in Stored' : s \in Stored /\ s \in ShareIds /\ shares'[s].count = shares[s].count
  BY DEF Stored
<1>2. ShareTypes' BY DEF SharesIInv, ShareTypes
<1>3. AllHonest' BY DEF SharesIInv, AllHonest
<1>4. NotYet' BY <1>1 DEF SharesIInv, NotYet
<1>5. \A s : Preparing(s)' = Preparing(s) BY DEF Preparing
<1>6. CountTrue' BY <1>1, <1>5 DEF SharesIInv, CountTrue
<1>7. SlotsHeld' BY DEF SharesIInv, SlotsHeld
<1>8. QED BY <1>2, <1>3, <1>4, <1>6, <1>7 DEF SharesIInv

LEMMA UpdateKeeps ==
    ASSUME SharesIInv, NEW s \in ShareIds, NEW limit \in ShareLimits, NEW password \in {"new", "none", "kept"},
           UpdateShare(s, limit, password)
    PROVE  SharesIInv'
<1>1. s \in Stored /\ UNCHANGED <<cookies, requests, zipping, entered, tally>> BY DEF UpdateShare
<1>2. asked' \in Nat BY DEF UpdateShare, SharesIInv, ShareTypes
<1>3. shares[s] \in ShareRow /\ shares \in [ShareIds -> ShareRow \cup {NoShare}]
  BY <1>1 DEF SharesIInv, ShareTypes, Stored
<1>4. PICK hash \in Nat : shares' = [shares EXCEPT ![s].limit = limit, ![s].over = FALSE, ![s].hash = hash]
  <2>1. CASE password = "new" BY <1>2, <2>1 DEF UpdateShare
  <2>2. CASE password = "none" BY <2>2 DEF UpdateShare, NoHash
  <2>3. CASE password = "kept"
    <3>1. shares' = [shares EXCEPT ![s].limit = limit, ![s].over = FALSE, ![s].hash = @] BY <2>3 DEF UpdateShare
    <3>2. shares' = [shares EXCEPT ![s].limit = limit, ![s].over = FALSE, ![s].hash = shares[s].hash]
      BY <1>3, <3>1
    <3>3. shares[s].hash \in Nat BY <1>3 DEF ShareRow
    <3>4. QED BY <3>2, <3>3
  <2>4. QED BY <2>1, <2>2, <2>3
<1> DEFINE row == [shares[s] EXCEPT !.limit = limit, !.over = FALSE, !.hash = hash]
<1>5. row \in ShareRow /\ row.count = shares[s].count BY <1>3 DEF ShareRow
<1>6. shares' = [shares EXCEPT ![s] = row] BY <1>3, <1>4
<1> HIDE DEF row
<1>7. shares' \in [ShareIds -> ShareRow \cup {NoShare}] BY <1>3, <1>5, <1>6
<1>8. \A o \in ShareIds : shares'[o] # NoShare => o \in Stored /\ shares'[o].count = shares[o].count
  BY <1>1, <1>3, <1>5, <1>6 DEF Stored
<1>9. QED BY <1>1, <1>2, <1>7, <1>8, OwnerKeeps

LEMMA ExpireOrDeleteKeeps ==
    ASSUME SharesIInv, NEW s \in ShareIds, DeleteShare(s) \/ ExpireShare(s)
    PROVE  SharesIInv'
<1>1. s \in Stored /\ asked' \in Nat /\ UNCHANGED <<cookies, requests, zipping, entered, tally>>
  BY DEF DeleteShare, ExpireShare, SharesIInv, ShareTypes
<1>2. shares[s] \in ShareRow /\ shares \in [ShareIds -> ShareRow \cup {NoShare}]
  BY <1>1 DEF SharesIInv, ShareTypes, Stored
<1> DEFINE row == [shares[s] EXCEPT !.over = TRUE]
<1>3. row \in ShareRow /\ row.count = shares[s].count BY <1>2 DEF ShareRow
<1>4. shares' = [shares EXCEPT ![s] = row] \/ shares' = [shares EXCEPT ![s] = NoShare]
  BY <1>2 DEF DeleteShare, ExpireShare
<1> HIDE DEF row
<1>5. shares' \in [ShareIds -> ShareRow \cup {NoShare}] BY <1>2, <1>3, <1>4
<1>6. \A o \in ShareIds : shares'[o] # NoShare => o \in Stored /\ shares'[o].count = shares[o].count
  BY <1>1, <1>2, <1>3, <1>4 DEF Stored
<1>7. QED BY <1>1, <1>5, <1>6, OwnerKeeps

LEMMA CreateKeeps ==
    ASSUME SharesIInv, NEW s \in ShareIds, NEW limit \in ShareLimits, NEW locked \in BOOLEAN,
           CreateShare(s, limit, locked)
    PROVE  SharesIInv'
<1>1. PICK row \in ShareRow : shares' = [shares EXCEPT ![s] = row] /\ row.count = 0
  <2>1. asked' \in Nat BY DEF CreateShare, SharesIInv, ShareTypes
  <2> DEFINE row == [limit |-> limit, count |-> 0, over |-> FALSE, hash |-> IF locked THEN asked' ELSE NoHash]
  <2>2. shares' = [shares EXCEPT ![s] = row] BY DEF CreateShare
  <2>3. row \in ShareRow BY <2>1 DEF ShareRow, NoHash
  <2>4. QED BY <2>2, <2>3
<1>2. /\ ~tally[s].created /\ tally' = [tally EXCEPT ![s].created = TRUE]
      /\ UNCHANGED <<cookies, requests, zipping, entered>> /\ asked' \in Nat
  BY DEF CreateShare, SharesIInv, ShareTypes
<1>3. /\ shares \in [ShareIds -> ShareRow \cup {NoShare}]
      /\ tally \in [ShareIds -> [created : BOOLEAN, served : Nat, lost : Nat]]
  BY DEF SharesIInv, ShareTypes
<1>4. /\ tally' \in [ShareIds -> [created : BOOLEAN, served : Nat, lost : Nat]]
      /\ \A o \in ShareIds : tally'[o].served = tally[o].served /\ tally'[o].lost = tally[o].lost
      /\ \A o \in ShareIds \ {s} : tally'[o].created = tally[o].created
      /\ tally'[s].created
  <2>1. tally[s] \in [created : BOOLEAN, served : Nat, lost : Nat] BY <1>3
  <2> DEFINE new == [tally[s] EXCEPT !.created = TRUE]
  <2>2. /\ new \in [created : BOOLEAN, served : Nat, lost : Nat]
        /\ new.served = tally[s].served /\ new.lost = tally[s].lost
    BY <2>1
  <2>3. new.created BY <2>1
  <2>4. tally' = [tally EXCEPT ![s] = new] BY <1>2
  <2> HIDE DEF new
  <2>5. tally'[s] = new /\ \A o \in ShareIds \ {s} : tally'[o] = tally[o] BY <1>3, <2>4
  <2>6. tally' \in [ShareIds -> [created : BOOLEAN, served : Nat, lost : Nat]] BY <1>3, <2>2, <2>4
  <2>7. \A o \in ShareIds : tally'[o].served = tally[o].served /\ tally'[o].lost = tally[o].lost
    BY <2>2, <2>5
  <2>8. \A o \in ShareIds \ {s} : tally'[o].created = tally[o].created BY <2>5
  <2>9. tally'[s].created BY <2>3, <2>5, Zenon
  <2>10. QED BY <2>6, <2>7, <2>8, <2>9
<1>5. /\ shares' \in [ShareIds -> ShareRow \cup {NoShare}] /\ shares'[s].count = 0
      /\ \A o \in ShareIds \ {s} : shares'[o] = shares[o]
  BY <1>1, <1>3
<1>6. ShareTypes' BY <1>2, <1>4, <1>5 DEF SharesIInv, ShareTypes
<1>7. AllHonest' BY <1>2 DEF SharesIInv, AllHonest
<1>8. NotYet'
  <2>1. ASSUME NEW o \in ShareIds, ~tally'[o].created
        PROVE  /\ o \notin Stored' /\ tally'[o].served = 0 /\ tally'[o].lost = 0
               /\ \A r \in ShareRequests : requests'[r].pc # "idle" => requests'[r].share # o
    <3>1. o # s BY <1>4, <2>1, Zenon
    <3>2. ~tally[o].created BY <1>4, <2>1, <3>1, Zenon
    <3>3. /\ o \notin Stored /\ tally[o].served = 0 /\ tally[o].lost = 0
          /\ \A r \in ShareRequests : requests[r].pc # "idle" => requests[r].share # o
      BY <3>2 DEF SharesIInv, NotYet
    <3>4. o \notin Stored' BY <1>5, <3>1, <3>3 DEF Stored
    <3>5. QED BY <1>2, <1>4, <3>3, <3>4
  <2>2. QED BY <2>1 DEF NotYet
<1>9. \A o : Preparing(o)' = Preparing(o) BY <1>2 DEF Preparing
<1>10. CountTrue'
  <2> SUFFICES ASSUME NEW o \in Stored'
               PROVE  shares'[o].count = tally'[o].served + Cardinality(Preparing(o)) + tally'[o].lost
    BY <1>9 DEF CountTrue
  <2>1. o \in ShareIds BY DEF Stored
  <2>2. CASE o = s
    <3>1. /\ tally[s].served = 0 /\ tally[s].lost = 0
          /\ \A r \in ShareRequests : requests[r].pc # "idle" => requests[r].share # s
      BY <1>2 DEF SharesIInv, NotYet
    <3>2. Preparing(s) = {} BY <3>1 DEF Preparing
    <3>3. Cardinality(Preparing(s)) = 0 BY <3>2, FS_EmptySet
    <3>4. QED BY <1>4, <1>5, <2>2, <3>1, <3>3
  <2>3. CASE o # s
    <3>1. shares'[o] = shares[o] /\ o \in Stored BY <1>5, <2>1, <2>3 DEF Stored
    <3>2. QED BY <1>4, <2>1, <3>1 DEF SharesIInv, CountTrue
  <2>4. QED BY <2>2, <2>3
<1>11. SlotsHeld' BY <1>2 DEF SharesIInv, SlotsHeld
<1>12. QED BY <1>6, <1>7, <1>8, <1>10, <1>11 DEF SharesIInv

(* The newest entries of a cookie are honest when all of them are.          *)
LEMMA NewestHonest ==
    ASSUME NEW unlocks \in Seq(Mark), NEW e, Honest(unlocks, e), NEW m \in Nat \ {0}
    PROVE  LET newest == SubSeq(unlocks, m, Len(unlocks)) IN newest \in Seq(Mark) /\ Honest(newest, e)
<1> DEFINE n      == Len(unlocks)
           newest == SubSeq(unlocks, m, n)
<1>1. n \in Nat /\ DOMAIN unlocks = 1..n /\ \A i \in 1..n : unlocks[i] \in Mark OBVIOUS
<1>2. \A i \in m..n : unlocks[i] \in Mark BY <1>1
<1>3. /\ newest \in Seq(Mark) /\ Len(newest) = IF m <= n THEN n - m + 1 ELSE 0
      /\ \A i \in 1..n - m + 1 : newest[i] = unlocks[m + i - 1]
  BY <1>1, <1>2, SubSeqProperties
<1> HIDE DEF newest
<1>4. ASSUME NEW i \in DOMAIN newest PROVE newest[i].stamp \in e
  <2>1. i \in 1..n - m + 1 /\ m + i - 1 \in 1..n BY <1>1, <1>3
  <2>2. newest[i] = unlocks[m + i - 1] BY <1>3, <2>1
  <2>3. QED BY <1>1, <2>1, <2>2 DEF Honest
<1>5. QED BY <1>3, <1>4 DEF Honest, newest

LEMMA UnlockKeeps ==
    ASSUME SharesAssumption, SharesIInv, NEW r \in ShareRequests, NEW h, Unlock(r, h)
    PROVE  SharesIInv'
<1> DEFINE q      == requests[r]
           others == Kept(q.cookie, {i \in DOMAIN q.cookie : q.cookie[i].share # q.share})
           all    == Append(others, [share |-> q.share, stamp |-> q.hash])
           m      == IF Len(all) > UnlockedMax THEN Len(all) - UnlockedMax + 1 ELSE 1
           newest == SubSeq(all, m, Len(all))
<1>1. /\ q.pc = "unlock" /\ requests' = [requests EXCEPT ![r] = NoRequest]
      /\ UNCHANGED <<shares, zipping, asked, tally>>
      /\ \/ /\ h = q.hash /\ cookies' = [cookies EXCEPT ![q.visitor] = newest]
            /\ entered' = [entered EXCEPT ![q.visitor] = @ \cup {h}]
         \/ UNCHANGED <<cookies, entered>>
  BY DEF Unlock, Done
<1>2. CASE UNCHANGED <<cookies, entered>>
  <2>1. requests[r].pc \notin {"send", "zip", "build"} BY <1>1
  <2>2. QED BY <1>1, <1>2, <2>1, Idle, PlainStep
<1>3. CASE /\ h = q.hash /\ cookies' = [cookies EXCEPT ![q.visitor] = newest]
           /\ entered' = [entered EXCEPT ![q.visitor] = @ \cup {h}]
  <2>1. q \in Asking /\ Honest(q.cookie, entered[q.visitor]) BY <1>1, AskedFor DEF Admitted
  <2>2. q.visitor \in Visitors /\ q.share \in ShareIds /\ q.hash \in Nat /\ q.cookie \in Seq(Mark)
    BY <2>1 DEF Asking
  <2>3. /\ cookies \in [Visitors -> Seq(Mark)] /\ entered \in [Visitors -> SUBSET Nat]
        /\ requests \in [ShareRequests -> Request]
    BY DEF SharesIInv, ShareTypes
  <2>4. others \in Seq(Mark) /\ ToSet(others) \subseteq {q.cookie[i] : i \in DOMAIN q.cookie}
    BY <2>2, KeptOf, KeptElements
  <2>5. \A i \in DOMAIN others : others[i].stamp \in entered[q.visitor]
    <3>1. \A i \in DOMAIN others : others[i] \in ToSet(others) BY DEF ToSet
    <3>2. QED BY <2>1, <2>4, <3>1 DEF Honest
  <2> HIDE DEF others
  <2>6. all \in Seq(Mark) /\ Honest(all, entered[q.visitor] \cup {h})
    <3>1. [share |-> q.share, stamp |-> q.hash] \in Mark BY <2>2 DEF Mark
    <3>2. all \in Seq(Mark) BY <2>4, <3>1
    <3>3. ASSUME NEW i \in DOMAIN all PROVE all[i].stamp \in entered[q.visitor] \cup {h}
      <4>1. Len(others) \in Nat /\ DOMAIN others = 1..Len(others) /\ DOMAIN all = 1..(Len(others) + 1)
        BY <2>4
      <4>2. CASE i = Len(others) + 1
        <5>1. all[i] = [share |-> q.share, stamp |-> q.hash] BY <2>4, <4>2
        <5>2. QED BY <1>3, <5>1
      <4>3. CASE i # Len(others) + 1
        <5>1. i \in DOMAIN others BY <4>1, <4>3
        <5>2. all[i] = others[i] BY <2>4, <4>1, <5>1
        <5>3. QED BY <2>5, <5>1, <5>2
      <4>4. QED BY <4>2, <4>3
    <3>4. QED BY <3>2, <3>3 DEF Honest
  <2> HIDE DEF all
  <2>7. m \in Nat \ {0}
    <3>1. Len(all) \in Nat BY <2>6
    <3>2. UnlockedMax \in Nat \ {0} BY DEF SharesAssumption
    <3>3. QED BY <3>1, <3>2
  <2> HIDE DEF m
  <2>8. newest \in Seq(Mark) /\ Honest(newest, entered[q.visitor] \cup {h}) BY <2>6, <2>7, NewestHonest
  <2> HIDE DEF newest
  <2>9. cookies' \in [Visitors -> Seq(Mark)] /\ entered' \in [Visitors -> SUBSET Nat]
    BY <1>3, <2>2, <2>3, <2>8
  <2>10. /\ \A v \in Visitors : entered[v] \subseteq entered'[v]
         /\ entered'[q.visitor] = entered[q.visitor] \cup {h}
    BY <1>3, <2>2, <2>3
  <2>11. ASSUME NEW v \in Visitors PROVE Honest(cookies'[v], entered'[v])
    <3>1. CASE v = q.visitor
      <4>1. cookies'[v] = newest BY <1>3, <2>2, <2>3, <3>1
      <4>2. QED BY <2>8, <2>10, <3>1, <4>1
    <3>2. CASE v # q.visitor
      <4>1. cookies'[v] = cookies[v] /\ Honest(cookies[v], entered[v])
        BY <1>3, <2>3, <3>2 DEF SharesIInv, AllHonest
      <4>2. QED BY <2>10, <4>1 DEF Honest
    <3>3. QED BY <3>1, <3>2
  <2>12. ASSUME NEW o \in ShareRequests, requests'[o].pc # "idle"
         PROVE Admitted(requests'[o], entered'[requests'[o].visitor])
    <3>1. o # r BY <1>1, <2>3, <2>12, Idle
    <3>2. requests'[o] = requests[o] BY <1>1, <2>3, <3>1
    <3>3. requests[o] \in Asking /\ Admitted(requests[o], entered[requests[o].visitor])
      BY <2>12, <3>2, AskedFor
    <3>4. requests[o].visitor \in Visitors BY <3>3 DEF Asking
    <3>5. entered[requests[o].visitor] \subseteq entered'[requests[o].visitor] BY <2>10, <3>4
    <3>6. QED BY <3>2, <3>3, <3>5 DEF Admitted, Honest
  <2>13. AllHonest' BY <2>11, <2>12 DEF AllHonest
  <2>14. Follows(r, NoRequest)
    <3>1. /\ \A s : One(IsPreparing(requests[r], s)) = 0 /\ One(IsPreparing(NoRequest, s)) = 0
          /\ One(requests[r].pc = "build") = 0 /\ One(NoRequest.pc = "build") = 0
      BY <1>1 DEF One, IsPreparing, NoRequest
    <3>2. Stored' = Stored BY <1>1 DEF Stored
    <3>3. /\ shares \in [ShareIds -> ShareRow \cup {NoShare}] /\ zipping \in Nat
          /\ tally \in [ShareIds -> [created : BOOLEAN, served : Nat, lost : Nat]]
      BY DEF SharesIInv, ShareTypes
    <3>4. QED BY <1>1, <3>1, <3>2, <3>3 DEF Follows
  <2>15. CountTrue' /\ SlotsHeld' BY <2>14, Idle, CountsFollow
  <2>16. NotYet'
    <3>1. \A s \in ShareIds : /\ tally'[s].created = tally[s].created
                              /\ ~tally[s].created => tally'[s].served = 0 /\ tally'[s].lost = 0
      BY <1>1 DEF SharesIInv, NotYet
    <3>2. QED BY <2>14, <3>1, Idle, NotYetStays
  <2>17. ShareTypes'
    <3>1. requests' \in [ShareRequests -> Request] BY <1>1, <2>3, Idle
    <3>2. QED BY <1>1, <2>9, <3>1 DEF SharesIInv, ShareTypes
  <2>18. QED BY <2>13, <2>15, <2>16, <2>17 DEF SharesIInv
<1>4. QED BY <1>1, <1>2, <1>3

LEMMA RequestsKeep ==
    ASSUME SharesAssumption, SharesIInv, NEW r \in ShareRequests,
           View(r) \/ SendSong(r) \/ SendCached(r) \/ SendZip(r) \/ ZipFails(r)
    PROVE  SharesIInv'
<1>1. CASE View(r)
  <2>1. /\ requests[r].pc = "view" /\ requests' = [requests EXCEPT ![r] = NoRequest]
        /\ UNCHANGED <<shares, cookies, zipping, asked, entered, tally>>
    BY <1>1 DEF View, Done
  <2>2. requests[r].pc \notin {"send", "zip", "build"} BY <2>1
  <2>3. QED BY <2>1, <2>2, Idle, PlainStep
<1>2. CASE SendSong(r)
  <2>1. /\ requests[r].pc = "send" /\ Done(r) /\ UNCHANGED <<shares, cookies, zipping, asked, entered>>
        /\ tally' = [tally EXCEPT ![requests[r].share].served = @ + 1]
    BY <1>2 DEF SendSong, Serve
  <2>2. QED BY <2>1, EndedKeeps
<1>3. CASE SendCached(r)
  <2>1. /\ requests[r].pc = "zip" /\ Done(r) /\ UNCHANGED <<shares, cookies, zipping, asked, entered>>
        /\ tally' = [tally EXCEPT ![requests[r].share].served = @ + 1]
    BY <1>3 DEF SendCached, Serve
  <2>2. QED BY <2>1, EndedKeeps
<1>4. CASE SendZip(r)
  <2>1. /\ requests[r].pc = "build" /\ Done(r) /\ UNCHANGED <<shares, cookies, asked, entered>>
        /\ tally' = [tally EXCEPT ![requests[r].share].served = @ + 1] /\ zipping' = zipping - 1
    BY <1>4 DEF SendZip, Serve
  <2>2. QED BY <2>1, EndedKeeps
<1>5. CASE ZipFails(r)
  <2>1. /\ requests[r].pc = "build" /\ Done(r) /\ UNCHANGED <<shares, cookies, asked, entered>>
        /\ tally' = [tally EXCEPT ![requests[r].share].lost = @ + 1] /\ zipping' = zipping - 1
    BY <1>5 DEF ZipFails
  <2>2. QED BY <2>1, EndedKeeps
<1>6. QED BY <1>1, <1>2, <1>3, <1>4, <1>5

LEMMA SharesInduction == SharesAssumption /\ SharesIInv /\ [SharesNext]_shareVars => SharesIInv'
<1> SUFFICES ASSUME SharesAssumption, SharesIInv, [SharesNext]_shareVars PROVE SharesIInv' OBVIOUS
<1>1. ASSUME NEW s \in ShareIds, NEW limit \in ShareLimits,
             \/ \E locked \in BOOLEAN : CreateShare(s, limit, locked)
             \/ \E password \in {"new", "none", "kept"} : UpdateShare(s, limit, password)
      PROVE  SharesIInv'
  BY <1>1, CreateKeeps, UpdateKeeps
<1>2. ASSUME NEW s \in ShareIds, DeleteShare(s) \/ ExpireShare(s) PROVE SharesIInv'
  BY <1>2, ExpireOrDeleteKeeps
<1>3. ASSUME NEW r \in ShareRequests,
             \E v \in Visitors, s \in ShareIds, what \in {"unlock", "view", "song", "album"} : Ask(r, v, s, what)
      PROVE  SharesIInv'
  BY <1>3, AskKeeps
<1>4. ASSUME NEW r \in ShareRequests, NEW h \in 1..SharePasswordsMax, Unlock(r, h) PROVE SharesIInv'
  BY <1>4, UnlockKeeps
<1>5. ASSUME NEW r \in ShareRequests, Claim(r) \/ GiveBack(r) \/ BuildZip(r) PROVE SharesIInv'
  BY <1>5, ClaimKeeps, GiveBackKeeps, BuildZipKeeps
<1>6. ASSUME NEW r \in ShareRequests, View(r) \/ SendSong(r) \/ SendCached(r) \/ SendZip(r) \/ ZipFails(r)
      PROVE  SharesIInv'
  BY <1>6, RequestsKeep
<1>7. CASE UNCHANGED shareVars
  BY <1>7, OwnerKeeps DEF shareVars, SharesIInv, ShareTypes, Stored
<1>8. QED BY <1>1, <1>2, <1>3, <1>4, <1>5, <1>6, <1>7 DEF SharesNext

(* The hashes a request goes in with are what AllHonest says of it.         *)
LEMMA SharesImply == SharesIInv => SharesHold
BY DEF SharesIInv, SharesHold, LetIn, AllHonest, Admitted

(* claim_download(), release_download(), unlock_share() and the routes of   *)
(* shares: with any number of visitors, requests, shares and slots, in any  *)
(* order with the owner's edits, the count of a share is what it served, is *)
(* preparing and lost; whoever is let in entered the password the share had *)
(* then; and the slots of the zips are those of requests that build one.    *)
THEOREM SharesStaySound == SharesSpec => []SharesHold
<1>1. SharesInit => SharesIInv BY SharesAssumption, SharesStart
<1>2. SharesIInv /\ [SharesNext]_shareVars => SharesIInv' BY SharesAssumption, SharesInduction
<1>3. QED BY <1>1, <1>2, SharesImply, PTL DEF SharesSpec

=============================================================================
