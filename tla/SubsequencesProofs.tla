------------------------- MODULE SubsequencesProofs -------------------------
(***************************************************************************)
(* What Kept keeps.  The rank of a place among those that are kept is an   *)
(* injection into 1..n, where n is how many there are, and so it is onto.  *)
(***************************************************************************)
EXTENDS Subsequences, FunctionTheorems, FiniteSetTheorems, SequenceTheorems, TLAPS

LEMMA RankType ==
    ASSUME NEW J \in SUBSET Nat, IsFiniteSet(J), NEW i \in J
    PROVE  Rank(J, i) \in 1..Cardinality(J)
<1> DEFINE U == {j \in J : j <= i}
<1>1. IsFiniteSet(U) /\ Cardinality(U) <= Cardinality(J) BY FS_Subset
<1>2. Cardinality(U) \in Nat /\ Cardinality(J) \in Nat BY <1>1, FS_CardinalityType
<1>3. U # {} OBVIOUS
<1>4. Cardinality(U) # 0 BY <1>1, <1>3, FS_EmptySet
<1>5. QED BY <1>1, <1>2, <1>4 DEF Rank

LEMMA RankIncreases ==
    ASSUME NEW J \in SUBSET Nat, IsFiniteSet(J), NEW i \in J, NEW j \in J, i < j
    PROVE  Rank(J, i) < Rank(J, j)
<1> DEFINE U == {k \in J : k <= i}
           V == {k \in J : k <= j}
<1>0. J \subseteq Int OBVIOUS
<1>1. U \subseteq V /\ j \in V /\ j \notin U
  <2>1. ASSUME NEW k \in U PROVE k \in V BY <1>0
  <2>2. j \in V /\ j \notin U BY <1>0
  <2>3. QED BY <2>1, <2>2
<1>2. IsFiniteSet(V) BY FS_Subset
<1>3. Cardinality(U) <= Cardinality(V) /\ Cardinality(U) # Cardinality(V) /\ IsFiniteSet(U)
  BY <1>1, <1>2, FS_Subset
<1>4. Cardinality(U) \in Nat /\ Cardinality(V) \in Nat BY <1>2, <1>3, FS_CardinalityType
<1>5. QED BY <1>3, <1>4 DEF Rank

LEMMA NthSound ==
    ASSUME NEW J \in SUBSET Nat, IsFiniteSet(J)
    PROVE  /\ \A k \in 1..Cardinality(J) : Nth(J, k) \in J /\ Rank(J, Nth(J, k)) = k
           /\ \A i \in J : Nth(J, Rank(J, i)) = i
<1> DEFINE n == Cardinality(J)
           r == [i \in J |-> Rank(J, i)]
<1>1. n \in Nat BY FS_CardinalityType
<1>2. r \in [J -> 1..n] BY RankType
<1>3. ASSUME NEW i \in J, NEW j \in J, Rank(J, i) = Rank(J, j) PROVE i = j
  <2>1. ~(i < j) /\ ~(j < i)
    <3>1. Rank(J, i) \in Nat BY <1>1, RankType
    <3>2. QED BY <1>3, <3>1, RankIncreases
  <2>2. i \in Nat /\ j \in Nat OBVIOUS
  <2>3. QED BY <2>1, <2>2
<1>4. r \in Injection(J, 1..n) BY <1>2, <1>3, Fun_IsInj
<1>5. IsFiniteSet(1..n) /\ Cardinality(1..n) = n BY <1>1, FS_Interval
<1>6. r \in Surjection(J, 1..n) BY <1>4, <1>5, FS_Injection
<1>7. \A k \in 1..n : \E i \in J : Rank(J, i) = k
  <2> HIDE DEF r
  <2>1. \A k \in 1..n : \E i \in J : r[i] = k BY <1>6, Fun_SurjectionProperties
  <2>2. QED BY <2>1 DEF r
<1>8. QED BY <1>2, <1>3, <1>7 DEF Nth

LEMMA HasLeast ==
    ASSUME NEW J \in SUBSET Nat, IsFiniteSet(J), J # {}
    PROVE  \E i \in J : \A j \in J : i <= j
<1>1. Cardinality(J) \in Nat /\ Cardinality(J) # 0 BY FS_CardinalityType, FS_EmptySet
<1>2. Nth(J, 1) \in J /\ Rank(J, Nth(J, 1)) = 1 BY <1>1, NthSound
<1>3. PICK i \in J : Rank(J, i) = 1 BY <1>2
<1>4. ASSUME NEW j \in J PROVE i <= j
  <2>1. Rank(J, j) \in 1..Cardinality(J) BY RankType
  <2>2. ~(j < i) BY <1>1, <1>3, <2>1, RankIncreases
  <2>3. QED BY <2>2
<1>5. QED BY <1>4

LEMMA HasGreatest ==
    ASSUME NEW J \in SUBSET Nat, IsFiniteSet(J), J # {}
    PROVE  \E i \in J : \A j \in J : j <= i
<1> DEFINE n == Cardinality(J)
<1>1. n \in Nat /\ n # 0 BY FS_CardinalityType, FS_EmptySet
<1> HIDE DEF n
<1>2. n \in 1..n BY <1>1
<1>3. Nth(J, n) \in J /\ Rank(J, Nth(J, n)) = n BY <1>2, NthSound DEF n
<1>4. PICK i \in J : Rank(J, i) = n BY <1>3
<1>5. ASSUME NEW j \in J PROVE j <= i
  <2>1. Rank(J, j) \in 1..n BY RankType DEF n
  <2>2. ~(i < j) BY <1>1, <1>4, <2>1, RankIncreases
  <2>3. QED BY <2>2
<1>6. QED BY <1>5

(* Kept(s, I) is made of the elements at the places of I, in their order.   *)
LEMMA KeptOf ==
    ASSUME NEW T, NEW s \in Seq(T), NEW I
    PROVE  /\ Kept(s, I) \in Seq(T)
           /\ \E h \in [DOMAIN Kept(s, I) -> I \cap DOMAIN s] :
                /\ \A k \in DOMAIN Kept(s, I) : Kept(s, I)[k] = s[h[k]]
                /\ \A k, l \in DOMAIN Kept(s, I) : k < l => h[k] < h[l]
                /\ \A i \in I \cap DOMAIN s : \E k \in DOMAIN Kept(s, I) : h[k] = i
<1> DEFINE J == I \cap DOMAIN s
           n == Cardinality(J)
           h == [k \in 1..n |-> Nth(J, k)]
<1>1. J \in SUBSET Nat /\ IsFiniteSet(J)
  <2>1. DOMAIN s = 1..Len(s) /\ Len(s) \in Nat OBVIOUS
  <2>2. IsFiniteSet(1..Len(s)) BY <2>1, FS_Interval
  <2>3. QED BY <2>1, <2>2, FS_Subset
<1>2. n \in Nat BY <1>1, FS_CardinalityType
<1>3. Kept(s, I) = [k \in 1..n |-> s[Nth(J, k)]] BY DEF Kept
<1>4. \A k \in 1..n : Nth(J, k) \in J /\ Rank(J, Nth(J, k)) = k BY <1>1, NthSound
<1>5. \A i \in J : Rank(J, i) \in 1..n /\ Nth(J, Rank(J, i)) = i BY <1>1, NthSound, RankType
<1> HIDE DEF n
<1>6. DOMAIN Kept(s, I) = 1..n BY <1>3
<1>7. \A i \in J : s[i] \in T OBVIOUS
<1>8. Kept(s, I) \in Seq(T)
  <2>1. Kept(s, I) \in [1..n -> T] BY <1>3, <1>4, <1>7
  <2>2. QED BY <1>2, <2>1, SeqDef
<1>9. ASSUME NEW k \in 1..n, NEW l \in 1..n, k < l PROVE Nth(J, k) < Nth(J, l)
  <2>1. Nth(J, k) \in Nat /\ Nth(J, l) \in Nat /\ Nth(J, k) \in J /\ Nth(J, l) \in J BY <1>1, <1>4
  <2>2. Nth(J, l) < Nth(J, k) => l < k BY <1>1, <1>4, <2>1, RankIncreases
  <2>3. Nth(J, l) = Nth(J, k) => l = k BY <1>4
  <2>4. QED BY <1>2, <1>9, <2>1, <2>2, <2>3
<1>10. h \in [DOMAIN Kept(s, I) -> J] BY <1>4, <1>6
<1>11. \A k \in DOMAIN Kept(s, I) : Kept(s, I)[k] = s[h[k]] BY <1>3
<1>12. \A k, l \in DOMAIN Kept(s, I) : k < l => h[k] < h[l] BY <1>6, <1>9
<1>13. \A i \in J : \E k \in DOMAIN Kept(s, I) : h[k] = i BY <1>5, <1>6
<1>14. QED BY <1>8, <1>10, <1>11, <1>12, <1>13

(* The same, of one map of places.                                          *)
IsPlaces(h, s, I) ==
    /\ h \in [DOMAIN Kept(s, I) -> I \cap DOMAIN s]
    /\ \A k \in DOMAIN Kept(s, I) : Kept(s, I)[k] = s[h[k]]
    /\ \A k, l \in DOMAIN Kept(s, I) : k < l => h[k] < h[l]
    /\ \A i \in I \cap DOMAIN s : \E k \in DOMAIN Kept(s, I) : h[k] = i

LEMMA KeptPlaces ==
    ASSUME NEW T, NEW s \in Seq(T), NEW I
    PROVE  \E h : IsPlaces(h, s, I)
<1>1. PICK h \in [DOMAIN Kept(s, I) -> I \cap DOMAIN s] :
           /\ \A k \in DOMAIN Kept(s, I) : Kept(s, I)[k] = s[h[k]]
           /\ \A k, l \in DOMAIN Kept(s, I) : k < l => h[k] < h[l]
           /\ \A i \in I \cap DOMAIN s : \E k \in DOMAIN Kept(s, I) : h[k] = i
  BY KeptOf
<1>2. QED BY <1>1 DEF IsPlaces

LEMMA KeptElements ==
    ASSUME NEW T, NEW s \in Seq(T), NEW I
    PROVE  ToSet(Kept(s, I)) = {s[i] : i \in I \cap DOMAIN s}
<1> DEFINE t == Kept(s, I)
<1>1. PICK h \in [DOMAIN t -> I \cap DOMAIN s] :
         /\ \A k \in DOMAIN t : t[k] = s[h[k]]
         /\ \A i \in I \cap DOMAIN s : \E k \in DOMAIN t : h[k] = i
  BY KeptOf
<1> HIDE DEF t
<1>2. ToSet(t) \subseteq {s[i] : i \in I \cap DOMAIN s} BY <1>1 DEF ToSet
<1>3. {s[i] : i \in I \cap DOMAIN s} \subseteq ToSet(t)
  <2>1. ASSUME NEW i \in I \cap DOMAIN s PROVE s[i] \in ToSet(t)
    <3>1. PICK k \in DOMAIN t : h[k] = i BY <1>1
    <3>2. t[k] = s[i] BY <1>1, <3>1
    <3>3. QED BY <3>2 DEF ToSet
  <2>2. QED BY <2>1
<1>4. QED BY <1>2, <1>3 DEF t
=============================================================================
