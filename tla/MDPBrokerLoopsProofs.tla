------------------------- MODULE MDPBrokerLoopsProofs -------------------------
(***************************************************************************)
(* The proof that the loops of s_broker_purge and s_service_dispatch       *)
(* compute Purge and Dispatch, for any number of workers, services and     *)
(* requests, in whatever order the lists are: the closed forms with which  *)
(* MDPBroker and its proofs work are what the code computes.               *)
(***************************************************************************)
EXTENDS MDPBrokerLoops, MDPBrokerProofs

-----------------------------------------------------------------------------
(* One list operation of the code at a time *)

\* zlist_remove of an item that is not there, and of one that is there once.
LEMMA RemoveNothing ==
  ASSUME NEW S, NEW q \in Seq(S), NEW w, w \notin Range(q)
  PROVE  RemoveFirst(q, w) = q
<1>1. \A i \in 1..Len(q) : q[i] # w
  BY LenProperties DEF Range
<1> QED
  BY <1>1 DEF RemoveFirst, SelectInSeq, RemoveAt

LEMMA RemoveOne ==
  ASSUME NEW S, NEW q \in Seq(S), IsInjective(q), NEW m \in 1..Len(q)
  PROVE  LET r == RemoveFirst(q, q[m])
         IN  /\ r \in Seq(S) /\ Len(r) = Len(q) - 1
             /\ \A i \in 1..(Len(q) - 1) : r[i] = IF i < m THEN q[i] ELSE q[i + 1]
<1> DEFINE I == {i \in 1..Len(q) : q[i] = q[m]}
           a == SubSeq(q, 1, m - 1)
           c == SubSeq(q, m + 1, Len(q))
           r == RemoveFirst(q, q[m])
<1>1. Len(q) \in Nat /\ DOMAIN q = 1..Len(q)
  BY LenProperties
<1>2. I = {m}
  BY <1>1 DEF IsInjective
<1>3. r = RemoveAt(q, Min(I))
  BY <1>2 DEF RemoveFirst, SelectInSeq
<1> HIDE DEF I
<1>4. Min(I) = m
  BY <1>2 DEF Min
<1>5. r = a \o c
  BY <1>3, <1>4 DEF RemoveAt
<1>6. a \in Seq(S) /\ Len(a) = m - 1 /\ \A i \in 1..(m - 1) : a[i] = q[i]
  BY <1>1, SubSeqProperties
<1>7. /\ c \in Seq(S) /\ Len(c) = Len(q) - m
      /\ \A i \in 1..(Len(q) - m) : c[i] = q[m + i]
  <2>1. m + 1 \in Int /\ Len(q) \in Int /\ \A i \in (m + 1)..Len(q) : q[i] \in S
    BY <1>1, ElementOfSeq
  <2>2. /\ c \in Seq(S) /\ Len(c) = IF m + 1 <= Len(q) THEN Len(q) - (m + 1) + 1 ELSE 0
        /\ \A i \in 1..(Len(q) - (m + 1) + 1) : c[i] = q[(m + 1) + i - 1]
    BY <2>1, SubSeqProperties
  <2>3. Len(q) - (m + 1) + 1 = Len(q) - m
    BY <1>1
  <2> HIDE DEF c
  <2>4. Len(c) = Len(q) - m
    <3>1. Len(q) \in Nat
      BY <1>1
    <3> QED
      BY <2>2, <3>1
  <2>5. \A i \in 1..(Len(q) - m) : (m + 1) + i - 1 = m + i
    BY <1>1
  <2> QED
    BY <2>2, <2>3, <2>4, <2>5
<1> HIDE DEF a, c, r
<1>8. /\ r \in Seq(S) /\ Len(r) = Len(a) + Len(c)
      /\ \A i \in 1..(Len(a) + Len(c)) : r[i] = IF i <= Len(a) THEN a[i] ELSE c[i - Len(a)]
  BY <1>5, <1>6, <1>7, ConcatProperties
<1>9. Len(a) + Len(c) = Len(q) - 1
  BY <1>1, <1>6, <1>7
<1>10. ASSUME NEW i \in 1..(Len(q) - 1)
       PROVE  r[i] = IF i < m THEN q[i] ELSE q[i + 1]
  <2>1. CASE i < m
    <3>1. i <= Len(a) /\ i \in 1..(m - 1)
      BY <1>1, <1>6, <2>1
    <3> QED
      BY <1>6, <1>8, <1>9, <2>1, <3>1
  <2>2. CASE ~(i < m)
    <3>1. ~(i <= Len(a)) /\ i - Len(a) \in 1..(Len(q) - m) /\ m + (i - Len(a)) = i + 1
      BY <1>1, <1>6, <2>2
    <3>2. r[i] = c[i - Len(a)]
      BY <1>8, <1>9, <3>1
    <3> QED
      BY <1>7, <2>2, <3>1, <3>2
  <2> QED
    BY <2>1, <2>2
<1> QED
  BY <1>8, <1>9, <1>10 DEF r

\* Two lists of the same length with the same items are equal.
LEMMA SameList ==
  ASSUME NEW S, NEW q \in Seq(S), NEW T, NEW r \in Seq(T), Len(q) = Len(r),
         \A i \in 1..Len(q) : q[i] = r[i]
  PROVE  q = r
<1>1. DOMAIN q = 1..Len(q) /\ DOMAIN r = 1..Len(q)
  BY LenProperties
<1>2. q = [i \in DOMAIN q |-> q[i]] /\ r = [i \in DOMAIN r |-> r[i]]
  OBVIOUS
<1> QED
  BY <1>1, <1>2

\* Nothing is removed.
LEMMA WithoutNone ==
  ASSUME NEW S, NEW q \in Seq(S)
  PROVE  Without(q, {}) = q
<1> DEFINE n == Len(q)
           K == Kept(q, {})
<1>1. n \in Nat /\ DOMAIN q = 1..n
  BY LenProperties
<1>2. K = 1..n
  BY <1>1 DEF Kept
<1>3. Cardinality(K) = n
  BY <1>1, <1>2, FS_Interval
<1> HIDE DEF K, n
<1>4. \A i \in 1..n : Nth(K, i) = i
  <2> TAKE i \in 1..n
  <2>1. {j \in K : j <= i} = 1..i
    BY <1>1, <1>2
  <2>2. Cardinality(1..i) = i
    BY FS_Interval
  <2>3. Rank(K, i) = i
    BY <2>1, <2>2 DEF Rank
  <2> QED
    BY <1>1, <1>2, <2>3, NthOfRank
<1>5. Without(q, {}) = [i \in 1..n |-> q[i]]
  BY <1>3, <1>4 DEF Without, K
<1> QED
  BY <1>1, <1>5

\* The ranks of what stands behind an item that is removed are one less.
LEMMA RankRemoved ==
  ASSUME NEW n \in Nat, NEW K \in SUBSET (1..n), NEW p \in K, NEW k \in K \ {p}
  PROVE  Rank(K \ {p}, k) = IF k < p THEN Rank(K, k) ELSE Rank(K, k) - 1
<1> DEFINE A == {j \in K : j <= k}
<1>1. k \in Int /\ p \in Int
  BY PositionsFinite
<1>2. A \in SUBSET (1..n)
  OBVIOUS
<1>3. IsFiniteSet(A) /\ Cardinality(A) \in Nat
  BY <1>2, PositionsFinite
<1>4. {j \in K \ {p} : j <= k} = A \ {p}
  OBVIOUS
<1>5. p \in A <=> ~(k < p)
  BY <1>1
<1> HIDE DEF A
<1>6. Cardinality(A \ {p}) = IF p \in A THEN Cardinality(A) - 1 ELSE Cardinality(A)
  BY <1>3, FS_RemoveElement
<1> QED
  BY <1>4, <1>5, <1>6 DEF Rank, A

\* zlist_remove of one more item: Without computes what the loop does.
LEMMA RemoveIsWithout ==
  ASSUME NEW S, NEW q \in Seq(S), IsInjective(q), NEW D, NEW w
  PROVE  RemoveFirst(Without(q, D), w) = Without(q, D \cup {w})
<1> DEFINE r == Without(q, D)
           t == Without(q, D \cup {w})
           K == Kept(q, D)
           L == Kept(q, D \cup {w})
<1>1. Len(q) \in Nat /\ DOMAIN q = 1..Len(q) /\ K \in SUBSET (1..Len(q))
  BY LenProperties DEF Kept
<1>2. /\ r \in Seq(S) /\ Len(r) = Cardinality(K) /\ Range(r) = Range(q) \ D
      /\ IsInjective(r)
  BY WithoutProperties, WithoutInjective
<1>3. t \in Seq(S) /\ Len(t) = Cardinality(L)
  BY WithoutProperties
<1>4. \A i \in 1..Cardinality(K) : r[i] = q[Nth(K, i)]
  BY DEF Without
<1>5. \A i \in 1..Cardinality(L) : t[i] = q[Nth(L, i)]
  BY DEF Without
<1>6. CASE w \notin Range(q) \ D
  <2>1. L = K
    BY <1>6 DEF Kept, Range
  <2>2. t = r
    BY <2>1 DEF Without
  <2>3. RemoveFirst(r, w) = r
    BY <1>2, <1>6, RemoveNothing
  <2> QED
    BY <2>2, <2>3
<1>7. CASE w \in Range(q) \ D
  <2>1. PICK p \in DOMAIN q : q[p] = w
    BY <1>7 DEF Range
  <2>2. p \in K
    BY <1>7, <2>1 DEF Kept
  <2>3. L = K \ {p}
    BY <1>1, <2>1 DEF Kept, IsInjective
  <2> DEFINE m == Rank(K, p)
  <2> HIDE DEF K, L, r, t
  <2>4. m \in 1..Cardinality(K) /\ Nth(K, m) = p
    BY <1>1, <2>2, RankBounds, NthOfRank
  <2>5. IsFiniteSet(K) /\ Cardinality(K) \in Nat
    BY <1>1, PositionsFinite
  <2>6. Cardinality(L) = Cardinality(K) - 1
    BY <2>2, <2>3, <2>5, FS_RemoveElement
  <2>7. r[m] = w
    BY <1>4, <2>1, <2>4
  <2> HIDE DEF m
  <2> DEFINE x == RemoveFirst(r, r[m])
  <2>8. /\ x \in Seq(S) /\ Len(x) = Len(r) - 1
        /\ \A i \in 1..(Len(r) - 1) : x[i] = IF i < m THEN r[i] ELSE r[i + 1]
    BY <1>2, <2>4, RemoveOne
  <2>9. ASSUME NEW i \in 1..Cardinality(L)
        PROVE  t[i] = IF i < m THEN r[i] ELSE r[i + 1]
    <3> DEFINE h == IF i < m THEN i ELSE i + 1
               k == Nth(K, h)
    <3>1. h \in 1..Cardinality(K) /\ h # m
      BY <2>4, <2>5, <2>6
    <3>2. k \in K /\ Rank(K, k) = h
      <4> HIDE DEF h
      <4> QED
        BY <1>1, <3>1, NthHasRank
    <3>3. k # p
      BY <3>1, <3>2 DEF m
    <3>4. k \in L /\ L \in SUBSET (1..Len(q))
      BY <1>1, <2>3, <3>2, <3>3
    <3>5. Rank(L, k) = IF k < p THEN h ELSE h - 1
      <4> HIDE DEF h, k
      <4> QED
        BY <1>1, <2>2, <2>3, <3>2, <3>3, RankRemoved
    <3>6. k \in Int /\ p \in Int /\ h \in Int /\ m \in Int
      BY <1>1, <2>2, <2>4, <3>1, <3>2
    <3>7. k < p => h < m
      <4> HIDE DEF h, k
      <4> QED
        BY <1>1, <2>2, <3>2, RankIncreases DEF m
    <3>8. p < k => m < h
      <4> HIDE DEF h, k
      <4> QED
        BY <1>1, <2>2, <3>2, RankIncreases DEF m
    <3>9. Rank(L, k) = i
      BY <2>6, <3>3, <3>5, <3>6, <3>7, <3>8
    <3>10. Nth(L, i) = k
      <4> HIDE DEF k
      <4> QED
        BY <1>1, <3>4, <3>9, NthOfRank
    <3>11. t[i] = q[k] /\ r[h] = q[k]
      BY <1>4, <1>5, <3>1, <3>10
    <3> QED
      BY <3>11
  <2>10. x = t
    <3>1. Len(x) = Len(t)
      BY <1>2, <1>3, <2>6, <2>8
    <3>2. \A i \in 1..Len(x) : x[i] = t[i]
      BY <1>2, <1>3, <2>6, <2>8, <2>9, <3>1
    <3> HIDE DEF x
    <3> QED
      BY <1>3, <2>8, <3>1, <3>2, SameList
  <2> QED
    BY <2>7, <2>10 DEF r, t
<1> QED
  BY <1>6, <1>7

\* Quotient and remainder are unique.
LEMMA UniqueRemainder ==
  ASSUME NEW l \in Nat \ {0}, NEW a \in Int, NEW c \in Int,
         NEW x \in 0..(l - 1), NEW y \in 0..(l - 1), l * a + x = l * c + y
  PROVE  x = y
<1>1. ASSUME NEW d \in Int, NEW e \in Int, d >= e + 1
      PROVE  l * d >= l * e + l
  <2>1. l * d >= l * (e + 1)
    BY <1>1
  <2>2. l * (e + 1) = l * e + l
    OBVIOUS
  <2> QED
    BY <2>1, <2>2
<1>2. l * a \in Int /\ l * c \in Int
  OBVIOUS
<1>3. ~(a >= c + 1)
  <2> SUFFICES ASSUME a >= c + 1
               PROVE  FALSE
    OBVIOUS
  <2>1. l * a >= l * c + l
    BY <1>1
  <2> QED
    BY <1>2, <2>1
<1>4. ~(c >= a + 1)
  <2> SUFFICES ASSUME c >= a + 1
               PROVE  FALSE
    OBVIOUS
  <2>1. l * c >= l * a + l
    BY <1>1
  <2> QED
    BY <1>2, <2>1
<1>5. a = c
  BY <1>3, <1>4
<1> QED
  BY <1>2, <1>5

\* Counting around a list of l items.
LEMMA NextRemainder ==
  ASSUME NEW l \in Nat \ {0}, NEW n \in Nat
  PROVE  /\ n % l \in 0..(l - 1)
         /\ (n + 1) % l = IF (n % l) + 1 = l THEN 0 ELSE (n % l) + 1
<1> DEFINE a == n \div l
           c == (n + 1) \div l
           k == n % l
           m == (n + 1) % l
<1>1. n = l * a + k /\ a \in Int /\ k \in 0..(l - 1)
  OBVIOUS
<1>2. n + 1 = l * c + m /\ c \in Int /\ m \in 0..(l - 1)
  <2>1. n + 1 \in Nat
    OBVIOUS
  <2> QED
    BY <2>1
<1> HIDE DEF a, c, k, m
<1>3. CASE k + 1 = l
  <2>1. l * (a + 1) = l * a + l
    BY <1>1
  <2>2. l * a \in Int /\ l * c \in Int
    BY <1>1, <1>2
  <2>3. l * (a + 1) + 0 = l * c + m
    BY <1>1, <1>2, <1>3, <2>1, <2>2
  <2>4. a + 1 \in Int /\ 0 \in 0..(l - 1)
    BY <1>1
  <2>5. m = 0
    BY <1>2, <2>3, <2>4, UniqueRemainder
  <2> QED
    BY <1>1, <1>3, <2>5 DEF k, m
<1>4. CASE k + 1 # l
  <2>1. l * a \in Int /\ l * c \in Int
    BY <1>1, <1>2
  <2>2. l * a + (k + 1) = l * c + m
    BY <1>1, <1>2, <2>1
  <2>3. k + 1 \in 0..(l - 1)
    BY <1>1, <1>4
  <2>4. m = k + 1
    BY <1>1, <1>2, <2>2, <2>3, UniqueRemainder
  <2> QED
    BY <1>1, <1>4, <2>4 DEF k, m
<1> QED
  BY <1>3, <1>4

\* One more round of zlist_pop, zlist_remove and zlist_append of the same worker.
LEMMA OneMoreRound ==
  ASSUME NEW S, NEW q \in Seq(S), q # <<>>, IsInjective(q), NEW n \in Nat
  PROVE  LET r == Rotate(q, n)
         IN  /\ Head(r) = Popped(q, n + 1)
             /\ Append(RemoveFirst(Tail(r), Head(r)), Head(r)) = Rotate(q, n + 1)
<1> DEFINE l == Len(q)
           k == n % l
           m == (n + 1) % l
           r == Rotate(q, n)
           t == Rotate(q, n + 1)
           x == Append(Tail(r), Head(r))
<1>1. /\ l \in Nat \ {0} /\ k \in 0..(l - 1)
      /\ r \in Seq(S) /\ Len(r) = l
      /\ \A i \in 1..l : r[i] = IF i <= l - k THEN q[k + i] ELSE q[i - (l - k)]
  BY RotatedItems
<1>2. /\ m \in 0..(l - 1)
      /\ t \in Seq(S) /\ Len(t) = l
      /\ \A i \in 1..l : t[i] = IF i <= l - m THEN q[m + i] ELSE q[i - (l - m)]
  <2>1. n + 1 \in Nat
    OBVIOUS
  <2> QED
    BY <2>1, RotatedItems
<1>3. m = IF k + 1 = l THEN 0 ELSE k + 1
  BY <1>1, NextRemainder
<1>4. IsInjective(r)
  BY RotateProperties
<1>5. Popped(q, n + 1) = q[k + 1]
  BY DEF Popped
<1> HIDE DEF k, l, m, r, t
<1>6. r # <<>>
  BY <1>1
<1>7. /\ Tail(r) \in Seq(S) /\ Len(Tail(r)) = l - 1
      /\ \A i \in 1..(l - 1) : Tail(r)[i] = r[i + 1]
      /\ Head(r) = r[1] /\ Head(r) \in S
  BY <1>1, <1>6, HeadTailProperties
<1>8. Head(r) = q[k + 1]
  <2>1. 1 \in 1..l /\ 1 <= l - k
    BY <1>1
  <2> QED
    BY <1>1, <1>7, <2>1
<1>9. Head(r) \notin Range(Tail(r))
  <2> SUFFICES ASSUME NEW i \in DOMAIN Tail(r), Tail(r)[i] = Head(r)
               PROVE  FALSE
    BY DEF Range
  <2>1. DOMAIN Tail(r) = 1..(l - 1) /\ DOMAIN r = 1..l
    BY <1>1, <1>7, LenProperties
  <2>2. i \in 1..(l - 1)
    BY <2>1
  <2>3. r[i + 1] = r[1]
    BY <1>7, <2>2
  <2>4. i + 1 \in 1..l /\ 1 \in 1..l /\ i + 1 # 1
    BY <1>1, <2>2
  <2> QED
    BY <1>4, <2>1, <2>3, <2>4 DEF IsInjective
<1>10. RemoveFirst(Tail(r), Head(r)) = Tail(r)
  BY <1>7, <1>9, RemoveNothing
<1>11. /\ x \in Seq(S) /\ Len(x) = l
       /\ \A i \in 1..(l - 1) : x[i] = r[i + 1]
       /\ x[l] = q[k + 1]
  <2> DEFINE y == Tail(r)
             h == Head(r)
  <2>1. y \in Seq(S) /\ Len(y) = l - 1 /\ h \in S /\ h = q[k + 1]
    BY <1>7, <1>8
  <2>2. \A i \in 1..(l - 1) : y[i] = r[i + 1]
    BY <1>7
  <2> HIDE DEF y, h
  <2>3. /\ Append(y, h) \in Seq(S) /\ Len(Append(y, h)) = Len(y) + 1
        /\ \A i \in 1..Len(y) : Append(y, h)[i] = y[i]
        /\ Append(y, h)[Len(y) + 1] = h
    BY <2>1, AppendProperties
  <2>4. Len(y) + 1 = l
    BY <1>1, <2>1
  <2>5. Append(y, h) = x
    BY DEF y, h
  <2> HIDE DEF x
  <2> QED
    BY <2>1, <2>2, <2>3, <2>4, <2>5
<1> HIDE DEF x
<1>12. ASSUME NEW i \in 1..l
       PROVE  x[i] = t[i]
  <2>1. CASE i = l
    <3>1. x[i] = q[k + 1]
      BY <1>11, <2>1
    <3>2. t[i] = q[k + 1]
      <4>1. CASE k + 1 = l
        <5>1. m = 0 /\ i <= l - m /\ m + i = k + 1
          BY <1>1, <1>3, <2>1, <4>1
        <5> QED
          BY <1>2, <5>1
      <4>2. CASE k + 1 # l
        <5>1. m = k + 1 /\ ~(i <= l - m) /\ i - (l - m) = k + 1
          BY <1>1, <1>3, <2>1, <4>2
        <5> QED
          BY <1>2, <5>1
      <4> QED
        BY <4>1, <4>2
    <3> QED
      BY <3>1, <3>2
  <2>2. CASE i # l
    <3>1. i \in 1..(l - 1) /\ i + 1 \in 1..l
      BY <1>1, <2>2
    <3>2. x[i] = r[i + 1]
      BY <1>11, <3>1
    <3>3. CASE k + 1 = l
      <4>1. m = 0 /\ i <= l - m /\ m + i = i
        BY <1>1, <1>3, <3>1, <3>3
      <4>2. ~(i + 1 <= l - k) /\ i + 1 - (l - k) = i
        BY <1>1, <3>1, <3>3
      <4>3. t[i] = q[i] /\ r[i + 1] = q[i]
        BY <1>1, <1>2, <3>1, <4>1, <4>2
      <4> QED
        BY <3>2, <4>3
    <3>4. CASE k + 1 # l /\ i + 1 <= l - k
      <4>1. m = k + 1 /\ i <= l - m /\ m + i = k + (i + 1)
        BY <1>1, <1>3, <3>1, <3>4
      <4>2. t[i] = q[k + (i + 1)] /\ r[i + 1] = q[k + (i + 1)]
        BY <1>1, <1>2, <3>1, <3>4, <4>1
      <4> QED
        BY <3>2, <4>2
    <3>5. CASE k + 1 # l /\ ~(i + 1 <= l - k)
      <4>1. m = k + 1 /\ ~(i <= l - m) /\ i - (l - m) = (i + 1) - (l - k)
        BY <1>1, <1>3, <3>1, <3>5
      <4>2. t[i] = q[(i + 1) - (l - k)] /\ r[i + 1] = q[(i + 1) - (l - k)]
        BY <1>1, <1>2, <3>1, <3>5, <4>1
      <4> QED
        BY <3>2, <4>2
    <3> QED
      BY <3>3, <3>4, <3>5
  <2> QED
    BY <2>1, <2>2
<1>13. x = t
  BY <1>2, <1>11, <1>12, SameList
<1> QED
  BY <1>5, <1>8, <1>10, <1>13 DEF r, t, x

-----------------------------------------------------------------------------
(* The loops *)

TableType ==
  [known     : SUBSET Workers,
   service   : [Workers -> Names \cup {NoService}],
   expiry    : [Workers -> Nat],
   waiting   : Seq(Workers),
   queue     : [Names -> Seq(Workers)],
   count     : [Names -> Int],
   requests  : [Names -> Seq(Request)],
   blacklist : [Names -> SUBSET Commands]]

\* The tables that a loop starts from: no worker is in a list twice.
WellFormed(t) ==
  /\ t \in TableType
  /\ IsInjective(t.waiting)
  /\ \A s \in Names : IsInjective(t.queue[s])

\* The first k workers of broker->waiting have expired and been deleted.
Gone(k) == {was.waiting[i] : i \in 1..k}

Purging ==
  \E k \in 0..Len(was.waiting) :
    /\ \A i \in 1..k : was.expiry[was.waiting[i]] = 0
    /\ b = DeleteWorkers(was, Gone(k))
    /\ b.waiting = SubSeq(was.waiting, k + 1, Len(was.waiting))

\* Tables p, when the workers q and the requests r are left to service s.
Left(p, s, q, r) == [p EXCEPT !.queue[s] = q, !.requests[s] = r]

\* After the purge left tables p with the workers q and the requests r of self, the
\* first n requests have been sent.
Sent(p, q, r, n) ==
  /\ b = Left(p, self, Rotate(q, n), SubSeq(r, n + 1, Len(r)))
  /\ work = [i \in 1..n |-> [to |-> Popped(q, i), kind |-> "REQUEST", request |-> r[i]]]

Sending ==
  LET p == Purge(was)
      q == p.queue[self]
      r == p.requests[self]
  IN  q # <<>> /\ \E n \in 0..Len(r) : Sent(p, q, r, n)

LoopsInv ==
  /\ WellFormed(was) /\ self \in Names
  /\ pc \in {"purge", "dispatch", "done"}
  /\ pc = "purge" => Purging /\ work = <<>>
  /\ pc = "dispatch" => Sending
  /\ LoopsComputeDispatch

\* Tables are equal if their fields are.
LEMMA SameTables ==
  ASSUME NEW a \in TableType, NEW c \in TableType,
         a.known = c.known, a.service = c.service, a.expiry = c.expiry,
         a.waiting = c.waiting, a.queue = c.queue, a.count = c.count,
         a.requests = c.requests, a.blacklist = c.blacklist
  PROVE  a = c
<1>1. \A t \in TableType :
        t = [known |-> t.known, service |-> t.service, expiry |-> t.expiry,
             waiting |-> t.waiting, queue |-> t.queue, count |-> t.count,
             requests |-> t.requests, blacklist |-> t.blacklist]
  BY DEF TableType
<1>2. a = [known |-> a.known, service |-> a.service, expiry |-> a.expiry,
           waiting |-> a.waiting, queue |-> a.queue, count |-> a.count,
           requests |-> a.requests, blacklist |-> a.blacklist]
  BY <1>1
<1>3. c = [known |-> c.known, service |-> c.service, expiry |-> c.expiry,
           waiting |-> c.waiting, queue |-> c.queue, count |-> c.count,
           requests |-> c.requests, blacklist |-> c.blacklist]
  BY <1>1
<1> QED
  BY <1>2, <1>3

\* What well-formed tables are.
LEMMA TableFacts ==
  ASSUME NEW t, t \in TableType
  PROVE  /\ t.known \in SUBSET Workers
         /\ t.service \in [Workers -> Names \cup {NoService}]
         /\ t.expiry \in [Workers -> Nat]
         /\ t.waiting \in Seq(Workers)
         /\ t.queue \in [Names -> Seq(Workers)]
         /\ t.count \in [Names -> Int]
         /\ t.requests \in [Names -> Seq(Request)]
         /\ t.blacklist \in [Names -> SUBSET Commands]
BY DEF TableType

\* s_worker_delete, field by field.
LEMMA DeletedTables ==
  ASSUME NEW t, WellFormed(t), NEW D \in SUBSET Workers
  PROVE  LET d == DeleteWorkers(t, D)
         IN  /\ d \in TableType
             /\ d.known = t.known \ D
             /\ d.service = [w \in Workers |-> IF w \in D THEN NoService ELSE t.service[w]]
             /\ d.expiry = [w \in Workers |-> IF w \in D THEN 0 ELSE t.expiry[w]]
             /\ d.waiting = Without(t.waiting, D)
             /\ d.queue = [s \in Names |-> Without(t.queue[s], Serving(t, D, s))]
             /\ d.count = [s \in Names |-> t.count[s] - Cardinality(Serving(t, D, s))]
             /\ d.requests = t.requests /\ d.blacklist = t.blacklist
<1> DEFINE d == DeleteWorkers(t, D)
           known == t.known \ D
           service == [w \in Workers |-> IF w \in D THEN NoService ELSE t.service[w]]
           expiry == [w \in Workers |-> IF w \in D THEN 0 ELSE t.expiry[w]]
           waiting == Without(t.waiting, D)
           queue == [s \in Names |-> Without(t.queue[s], Serving(t, D, s))]
           count == [s \in Names |-> t.count[s] - Cardinality(Serving(t, D, s))]
<1>1. t \in TableType
  BY DEF WellFormed
<1>2. known \in SUBSET Workers
  BY <1>1, TableFacts
<1>3. service \in [Workers -> Names \cup {NoService}]
  BY <1>1, TableFacts
<1>4. expiry \in [Workers -> Nat]
  BY <1>1, TableFacts
<1>5. waiting \in Seq(Workers)
  BY <1>1, TableFacts, WithoutProperties
<1>6. queue \in [Names -> Seq(Workers)]
  BY <1>1, TableFacts, WithoutProperties
<1>7. count \in [Names -> Int]
  <2> SUFFICES ASSUME NEW s \in Names
               PROVE  t.count[s] - Cardinality(Serving(t, D, s)) \in Int
    OBVIOUS
  <2>1. Serving(t, D, s) \subseteq Workers
    BY DEF Serving
  <2>2. IsFiniteSet(Serving(t, D, s))
    BY <2>1, FiniteAssumption, FS_Subset
  <2>3. Cardinality(Serving(t, D, s)) \in Nat
    BY <2>2, FS_CardinalityType
  <2> QED
    BY <1>1, <2>3, TableFacts
<1>8. d = [t EXCEPT !.known = known, !.service = service, !.expiry = expiry,
                    !.waiting = waiting, !.queue = queue, !.count = count]
  <2>1. t.service = t.service /\ t = [t EXCEPT !.known = t.known]
    BY <1>1 DEF TableType
  <2> QED
    BY <1>1 DEF DeleteWorkers, TableType
<1> HIDE DEF d, known, service, expiry, waiting, queue, count
<1>9. d \in TableType
  BY <1>1, <1>2, <1>3, <1>4, <1>5, <1>6, <1>7, <1>8 DEF TableType
<1>10. /\ d.known = known /\ d.service = service /\ d.expiry = expiry /\ d.waiting = waiting
       /\ d.queue = queue /\ d.count = count
       /\ d.requests = t.requests /\ d.blacklist = t.blacklist
  BY <1>1, <1>8 DEF TableType
<1> QED
  BY <1>9, <1>10 DEF d, known, service, expiry, waiting, queue, count

\* The tables after one round of the loop of s_broker_purge, for worker w.
OneRound(d, w) ==
  [Detach(d, w) EXCEPT !.waiting = RemoveFirst(@, w),
                       !.known = @ \ {w},
                       !.service[w] = NoService]

\* That round deletes one more worker.
LEMMA DeleteOneMore ==
  ASSUME NEW t, WellFormed(t), NEW D \in SUBSET Workers, NEW w \in Workers \ D,
         t.expiry[w] = 0
  PROVE  OneRound(DeleteWorkers(t, D), w) = DeleteWorkers(t, D \cup {w})
<1> DEFINE d == DeleteWorkers(t, D)
           e == DeleteWorkers(t, D \cup {w})
           x == OneRound(d, w)
           s == t.service[w]
           Q == IF s = NoService THEN d.queue
                ELSE [d.queue EXCEPT ![s] = RemoveFirst(d.queue[s], w)]
           C == IF s = NoService THEN d.count ELSE [d.count EXCEPT ![s] = d.count[s] - 1]
<1>0. D \cup {w} \in SUBSET Workers
  OBVIOUS
<1>1. /\ d \in TableType
      /\ d.known = t.known \ D
      /\ d.service = [v \in Workers |-> IF v \in D THEN NoService ELSE t.service[v]]
      /\ d.expiry = [v \in Workers |-> IF v \in D THEN 0 ELSE t.expiry[v]]
      /\ d.waiting = Without(t.waiting, D)
      /\ d.queue = [n \in Names |-> Without(t.queue[n], Serving(t, D, n))]
      /\ d.count = [n \in Names |-> t.count[n] - Cardinality(Serving(t, D, n))]
      /\ d.requests = t.requests /\ d.blacklist = t.blacklist
  BY DeletedTables
<1>2. /\ e \in TableType
      /\ e.known = t.known \ (D \cup {w})
      /\ e.service = [v \in Workers |-> IF v \in D \cup {w} THEN NoService ELSE t.service[v]]
      /\ e.expiry = [v \in Workers |-> IF v \in D \cup {w} THEN 0 ELSE t.expiry[v]]
      /\ e.waiting = Without(t.waiting, D \cup {w})
      /\ e.queue = [n \in Names |-> Without(t.queue[n], Serving(t, D \cup {w}, n))]
      /\ e.count = [n \in Names |-> t.count[n] - Cardinality(Serving(t, D \cup {w}, n))]
      /\ e.requests = t.requests /\ e.blacklist = t.blacklist
  BY <1>0, DeletedTables
<1>3. /\ t.waiting \in Seq(Workers) /\ IsInjective(t.waiting)
      /\ \A n \in Names : t.queue[n] \in Seq(Workers) /\ IsInjective(t.queue[n])
      /\ t.count \in [Names -> Int]
  BY TableFacts DEF WellFormed
<1> HIDE DEF d, e
<1>0a. NoService \notin Names /\ s \in Names \cup {NoService} /\ d.service[w] = s
  BY <1>1, NamesAssumption, TableFacts DEF WellFormed
<1>0b. Detach(d, w) = [known |-> d.known, service |-> d.service, expiry |-> d.expiry,
                       waiting |-> d.waiting, queue |-> Q, count |-> C,
                       requests |-> d.requests, blacklist |-> d.blacklist]
  <2>1. CASE s = NoService
    BY <1>0a, <1>1, <2>1 DEF Detach, TableType
  <2>2. CASE s # NoService
    <3>1. Detach(d, w) = [d EXCEPT !.queue[s] = RemoveFirst(@, w), !.count[s] = @ - 1]
      BY <1>0a, <2>2 DEF Detach
    <3>2. Q = [d.queue EXCEPT ![s] = RemoveFirst(d.queue[s], w)]
      BY <2>2
    <3>3. C = [d.count EXCEPT ![s] = d.count[s] - 1]
      BY <2>2
    <3> HIDE DEF Q, C
    <3> QED
      BY <1>1, <3>1, <3>2, <3>3 DEF TableType
  <2> QED
    BY <2>1, <2>2
<1> HIDE DEF Q, C, s
<1>4. /\ x.known = d.known \ {w} /\ x.service = [d.service EXCEPT ![w] = NoService]
      /\ x.expiry = d.expiry /\ x.waiting = RemoveFirst(d.waiting, w)
      /\ x.queue = Q /\ x.count = C
      /\ x.requests = d.requests /\ x.blacklist = d.blacklist
      /\ x = [known |-> x.known, service |-> x.service, expiry |-> x.expiry,
              waiting |-> x.waiting, queue |-> x.queue, count |-> x.count,
              requests |-> x.requests, blacklist |-> x.blacklist]
  <2> DEFINE y == [known |-> d.known, service |-> d.service, expiry |-> d.expiry,
                   waiting |-> d.waiting, queue |-> Q, count |-> C,
                   requests |-> d.requests, blacklist |-> d.blacklist]
  <2>1. x = [y EXCEPT !.waiting = RemoveFirst(@, w), !.known = @ \ {w},
                      !.service[w] = NoService]
    BY <1>0b DEF OneRound
  <2> HIDE DEF x
  <2> QED
    BY <2>1
<1>5. RemoveFirst(d.waiting, w) = e.waiting
  BY <1>1, <1>2, <1>3, RemoveIsWithout
<1>6. [d.service EXCEPT ![w] = NoService] = e.service
  <2>1. /\ d.service \in [Workers -> Names \cup {NoService}]
        /\ e.service \in [Workers -> Names \cup {NoService}]
    BY <1>1, <1>2, TableFacts
  <2>2. \A v \in Workers : e.service[v] = IF v = w THEN NoService ELSE d.service[v]
    BY <1>1, <1>2
  <2> QED
    BY <2>1, <2>2
<1>7. d.expiry = e.expiry
  BY <1>1, <1>2
<1>8. /\ s \in Names => Serving(t, D \cup {w}, s) = Serving(t, D, s) \cup {w}
      /\ \A n \in Names : n # s => Serving(t, D \cup {w}, n) = Serving(t, D, n)
      /\ w \notin Serving(t, D, s)
  BY DEF Serving, s
<1>9. Q = e.queue
  <2>0. \A n \in Names : /\ d.queue[n] = Without(t.queue[n], Serving(t, D, n))
                         /\ e.queue[n] = Without(t.queue[n], Serving(t, D \cup {w}, n))
    BY <1>1, <1>2
  <2>1. ASSUME s \in Names
        PROVE  RemoveFirst(d.queue[s], w) = e.queue[s]
    <3>1. t.queue[s] \in Seq(Workers) /\ IsInjective(t.queue[s])
      BY <1>3, <2>1
    <3>2. RemoveFirst(Without(t.queue[s], Serving(t, D, s)), w)
            = Without(t.queue[s], Serving(t, D, s) \cup {w})
      BY <3>1, RemoveIsWithout
    <3> QED
      BY <1>8, <2>0, <2>1, <3>2
  <2>2. \A n \in Names : n # s => d.queue[n] = e.queue[n]
    BY <1>8, <2>0
  <2>3. d.queue \in [Names -> Seq(Workers)] /\ e.queue \in [Names -> Seq(Workers)]
    BY <1>1, <1>2, TableFacts
  <2>4. CASE s = NoService
    BY <1>0a, <2>2, <2>3, <2>4 DEF Q
  <2>5. CASE s # NoService
    BY <1>0a, <2>1, <2>2, <2>3, <2>5 DEF Q
  <2> QED
    BY <2>4, <2>5
<1>10. C = e.count
  <2>1. IsFiniteSet(Serving(t, D, s))
    <3>1. Serving(t, D, s) \subseteq Workers
      BY DEF Serving
    <3> QED
      BY <3>1, FiniteAssumption, FS_Subset
  <2>2. /\ Cardinality(Serving(t, D, s)) \in Nat
        /\ Cardinality(Serving(t, D, s) \cup {w}) = Cardinality(Serving(t, D, s)) + 1
    <3>1. \A T : IsFiniteSet(T) /\ w \notin T =>
                  /\ Cardinality(T) \in Nat
                  /\ Cardinality(T \cup {w}) = Cardinality(T) + 1
      BY FS_CardinalityType, FS_AddElement
    <3> QED
      BY <1>8, <2>1, <3>1
  <2>3. ASSUME s \in Names
        PROVE  d.count[s] - 1 = e.count[s]
    <3>1. /\ d.count[s] = t.count[s] - Cardinality(Serving(t, D, s))
          /\ e.count[s] = t.count[s] - Cardinality(Serving(t, D, s) \cup {w})
          /\ t.count[s] \in Int
      BY <1>1, <1>2, <1>3, <1>8, <2>3
    <3> QED
      BY <2>2, <3>1
  <2>4. \A n \in Names : n # s => d.count[n] = e.count[n]
    <3>1. \A n \in Names :
            /\ d.count[n] = t.count[n] - Cardinality(Serving(t, D, n))
            /\ e.count[n] = t.count[n] - Cardinality(Serving(t, D \cup {w}, n))
      BY <1>1, <1>2
    <3> QED
      BY <1>8, <3>1
  <2>5. d.count \in [Names -> Int] /\ e.count \in [Names -> Int]
    BY <1>1, <1>2, TableFacts
  <2>6. CASE s = NoService
    BY <1>0a, <2>4, <2>5, <2>6 DEF C
  <2>7. CASE s # NoService
    BY <1>0a, <2>3, <2>4, <2>5, <2>7 DEF C
  <2> QED
    BY <2>6, <2>7
<1>11. d.known \ {w} = e.known
  BY <1>1, <1>2
<1>12. x = e
  <2>1. /\ x.known = e.known /\ x.service = e.service /\ x.expiry = e.expiry
        /\ x.waiting = e.waiting /\ x.queue = e.queue /\ x.count = e.count
        /\ x.requests = e.requests /\ x.blacklist = e.blacklist
    BY <1>1, <1>2, <1>4, <1>5, <1>6, <1>7, <1>9, <1>10, <1>11
  <2> HIDE DEF x
  <2>2. x \in TableType
    BY <1>2, <1>4, <2>1 DEF TableType
  <2> QED
    BY <1>2, <2>1, <2>2, SameTables
<1> QED
  BY <1>12 DEF d, e

\* The whole of a list, a list that is not rotated, tables that are not changed.
LEMMA WholeList ==
  ASSUME NEW S, NEW q \in Seq(S)
  PROVE  SubSeq(q, 1, Len(q)) = q
<1> DEFINE r == SubSeq(q, 1, Len(q))
<1>1. Len(q) \in Nat /\ \A i \in 1..Len(q) : q[i] \in S
  BY LenProperties, ElementOfSeq
<1>2. /\ r \in Seq(S) /\ Len(r) = IF 1 <= Len(q) THEN Len(q) - 1 + 1 ELSE 0
      /\ \A i \in 1..(Len(q) - 1 + 1) : r[i] = q[1 + i - 1]
  BY <1>1, SubSeqProperties
<1> HIDE DEF r
<1>3. Len(r) = Len(q) /\ \A i \in 1..Len(r) : r[i] = q[i]
  BY <1>1, <1>2
<1>4. r = q
  BY <1>2, <1>3, SameList
<1> QED
  BY <1>4 DEF r

LEMMA NoRotation ==
  ASSUME NEW S, NEW q \in Seq(S), q # <<>>
  PROVE  Rotate(q, 0) = q
<1> DEFINE r == Rotate(q, 0)
           l == Len(q)
<1>1. /\ l \in Nat \ {0} /\ r \in Seq(S) /\ Len(r) = l
      /\ \A i \in 1..l : r[i] = IF i <= l - (0 % l) THEN q[(0 % l) + i] ELSE q[i - (l - (0 % l))]
  BY RotatedItems
<1>2. 0 % l = 0
  BY <1>1
<1> HIDE DEF r, l
<1>3. \A i \in 1..l : r[i] = q[i]
  <2> TAKE i \in 1..l
  <2>1. i <= l - 0 /\ 0 + i = i
    BY <1>1
  <2> QED
    BY <1>1, <1>2, <2>1
<1>4. r = q
  BY <1>1, <1>3, SameList DEF l
<1> QED
  BY <1>4 DEF r

LEMMA SameEntries ==
  ASSUME NEW t \in TableType, NEW s \in Names
  PROVE  [t EXCEPT !.queue[s] = t.queue[s], !.requests[s] = t.requests[s]] = t
<1>1. /\ [t.queue EXCEPT ![s] = t.queue[s]] = t.queue
      /\ [t.requests EXCEPT ![s] = t.requests[s]] = t.requests
  BY TableFacts
<1>2. [t EXCEPT !.queue[s] = t.queue[s], !.requests[s] = t.requests[s]]
        = [t EXCEPT !.queue = t.queue, !.requests = t.requests]
  BY <1>1 DEF TableType
<1> QED
  BY <1>2 DEF TableType

\* What the deletion of D does, and what one round of the loop makes of it.
Deleted(t, D) ==
  LET d == DeleteWorkers(t, D)
  IN  /\ d \in TableType
      /\ d.service = [w \in Workers |-> IF w \in D THEN NoService ELSE t.service[w]]
      /\ d.expiry = [w \in Workers |-> IF w \in D THEN 0 ELSE t.expiry[w]]
      /\ d.waiting = Without(t.waiting, D)

OneMore(t, D) ==
  \A w \in Workers \ D :
    t.expiry[w] = 0 => OneRound(DeleteWorkers(t, D), w) = DeleteWorkers(t, D \cup {w})

LEMMA WhatIsDeleted ==
  ASSUME NEW t, WellFormed(t), NEW D \in SUBSET Workers
  PROVE  Deleted(t, D) /\ OneMore(t, D)
<1> DEFINE d == DeleteWorkers(t, D)
<1>1. /\ d \in TableType
      /\ d.known = t.known \ D
      /\ d.service = [w \in Workers |-> IF w \in D THEN NoService ELSE t.service[w]]
      /\ d.expiry = [w \in Workers |-> IF w \in D THEN 0 ELSE t.expiry[w]]
      /\ d.waiting = Without(t.waiting, D)
      /\ d.queue = [s \in Names |-> Without(t.queue[s], Serving(t, D, s))]
      /\ d.count = [s \in Names |-> t.count[s] - Cardinality(Serving(t, D, s))]
      /\ d.requests = t.requests /\ d.blacklist = t.blacklist
  BY DeletedTables
<1>2. ASSUME NEW w \in Workers \ D, t.expiry[w] = 0
      PROVE  OneRound(d, w) = DeleteWorkers(t, D \cup {w})
  BY <1>2, DeleteOneMore
<1>3. Deleted(t, D)
  BY <1>1 DEF Deleted
<1>4. OneMore(t, D)
  BY <1>2 DEF OneMore
<1> QED
  BY <1>3, <1>4

LEMMA AnyDeleted ==
  ASSUME NEW t, WellFormed(t)
  PROVE  \A D \in SUBSET Workers : Deleted(t, D) /\ OneMore(t, D)
BY WhatIsDeleted

\* The expired head of broker->waiting ends at the first live worker.
LEMMA HeadEnds ==
  ASSUME NEW t, WellFormed(t), NEW k \in 0..Len(t.waiting),
         \A i \in 1..k : t.expiry[t.waiting[i]] = 0,
         k < Len(t.waiting) => t.expiry[t.waiting[k + 1]] # 0
  PROVE  {t.waiting[i] : i \in 1..k} = ExpiredHead(t)
<1> DEFINE q == t.waiting
           J == {j \in DOMAIN q : \A i \in 1..j : t.expiry[q[i]] = 0}
<1>1. q \in Seq(Workers)
  BY TableFacts DEF WellFormed
<1>2. Len(q) \in Nat
  BY <1>1, LenProperties
<1>3. DOMAIN q = 1..Len(q)
  BY <1>1, LenProperties
<1>4. \A j \in 1..Len(q) : j \in J <=> j \in 1..k
  <2> SUFFICES ASSUME NEW j \in 1..Len(q)
               PROVE  (\A i \in 1..j : t.expiry[q[i]] = 0) <=> j \in 1..k
    BY <1>3
  <2>1. CASE j <= k
    <3>1. \A i \in 1..j : i \in 1..k
      BY <1>2, <2>1
    <3> QED
      BY <1>2, <2>1, <3>1
  <2>2. CASE ~(j <= k)
    <3>1. k < Len(q) /\ k + 1 \in 1..j
      BY <1>2, <2>2
    <3> QED
      BY <2>2, <3>1
  <2> QED
    BY <2>1, <2>2
<1>5. J \subseteq 1..Len(q)
  BY <1>3
<1>6. \A j \in 1..k : j \in 1..Len(q)
  BY <1>2
<1>7. J = 1..k
  <2> HIDE DEF J, q
  <2> QED
    BY <1>4, <1>5, <1>6
<1> QED
  BY <1>7 DEF ExpiredHead

\* A round of the loop of s_broker_purge.
LEMMA DeleteRound ==
  ASSUME LoopsInv, DeleteFirst
  PROVE  LoopsInv'
<1>1. /\ WellFormed(was) /\ self \in Names /\ pc = "purge" /\ work = <<>>
      /\ was' = was /\ self' = self /\ work' = work /\ pc' = pc
  BY DEF LoopsInv, DeleteFirst
<1>0. \A D \in SUBSET Workers : Deleted(was, D) /\ OneMore(was, D)
  BY <1>1, AnyDeleted
<1>2. PICK k \in 0..Len(was.waiting) :
        /\ \A i \in 1..k : was.expiry[was.waiting[i]] = 0
        /\ b = DeleteWorkers(was, Gone(k))
        /\ b.waiting = SubSeq(was.waiting, k + 1, Len(was.waiting))
  BY <1>1 DEF LoopsInv, Purging
<1> DEFINE q == was.waiting
           w == Head(b.waiting)
<1>3. /\ q \in Seq(Workers) /\ Len(q) \in Nat
      /\ was.expiry \in [Workers -> Nat]
  BY <1>1, TableFacts, LenProperties DEF WellFormed
<1>4. \A i \in 1..Len(q) : q[i] \in Workers
  BY <1>3, ElementOfSeq
<1>5. Gone(k) \in SUBSET Workers
  BY <1>3, <1>4 DEF Gone
<1>6. /\ b.waiting # <<>> /\ b.expiry[w] = 0
      /\ b' = OneRound(b, w)
  BY DEF DeleteFirst, OneRound
<1> DEFINE r == SubSeq(q, k + 1, Len(q))
<1> HIDE DEF q, r
<1>7. /\ r \in Seq(Workers) /\ Len(r) = IF k + 1 <= Len(q) THEN Len(q) - (k + 1) + 1 ELSE 0
      /\ \A i \in 1..(Len(q) - (k + 1) + 1) : r[i] = q[(k + 1) + i - 1]
  <2>1. k + 1 \in Int /\ Len(q) \in Int
    BY <1>3
  <2>2. \A i \in (k + 1)..Len(q) : q[i] \in Workers
    BY <1>3, <1>4
  <2> QED
    BY <2>1, <2>2, SubSeqProperties DEF r
<1>8. b.waiting = r
  BY <1>2 DEF q, r
<1>9. k + 1 <= Len(q) /\ k \in Nat
  <2>1. k \in Nat
    BY <1>3 DEF q
  <2>2. ~(k + 1 <= Len(q)) => r = <<>>
    BY <1>7, EmptySeq
  <2> QED
    BY <1>6, <1>8, <2>1, <2>2
<1>10. r # <<>> /\ Head(r) = r[1] /\ r[1] = q[k + 1]
  <2>1. r # <<>>
    BY <1>6, <1>8
  <2>2. Head(r) = r[1]
    BY <1>7, <2>1, HeadTailProperties
  <2>3. 1 \in 1..(Len(q) - (k + 1) + 1) /\ (k + 1) + 1 - 1 = k + 1
    BY <1>3, <1>9
  <2> QED
    BY <1>7, <2>1, <2>2, <2>3
<1>11. w = q[k + 1]
  BY <1>8, <1>10
<1>12. k + 1 \in 1..Len(q)
  BY <1>3, <1>9
<1>13. w \in Workers
  BY <1>4, <1>11, <1>12
<1>14. \A i, j \in 1..Len(q) : q[i] = q[j] => i = j
  BY <1>1, <1>3, LenProperties DEF WellFormed, IsInjective, q
<1>15. w \notin Gone(k)
  <2> SUFFICES ASSUME NEW i \in 1..k, q[i] = q[k + 1]
               PROVE  FALSE
    BY <1>11 DEF Gone, q
  <2>1. i \in 1..Len(q) /\ i # k + 1
    BY <1>3, <1>9
  <2> QED
    BY <1>12, <1>14, <2>1
<1>16. /\ b.expiry = [v \in Workers |-> IF v \in Gone(k) THEN 0 ELSE was.expiry[v]]
       /\ b.waiting = Without(q, Gone(k))
  BY <1>0, <1>2, <1>5 DEF Deleted, q
<1>17. was.expiry[w] = 0
  BY <1>6, <1>13, <1>15, <1>16
<1> HIDE DEF w
<1>19. Gone(k + 1) = Gone(k) \cup {w}
  <2>1. 1..(k + 1) = 1..k \cup {k + 1}
    BY <1>9
  <2> QED
    BY <1>11, <2>1 DEF Gone, q
<1>20. b' = DeleteWorkers(was, Gone(k + 1))
  <2>1. OneMore(was, Gone(k))
    BY <1>0, <1>5
  <2>2. w \in Workers \ Gone(k) /\ was.expiry[w] = 0
    BY <1>13, <1>15, <1>17
  <2>3. OneRound(b, w) = DeleteWorkers(was, Gone(k) \cup {w})
    BY <1>2, <2>1, <2>2 DEF OneMore
  <2> QED
    BY <1>6, <1>19, <2>3
<1>21. b'.waiting = SubSeq(q, k + 2, Len(q))
  <2>1. b'.waiting = RemoveFirst(r, w)
    <3>1. b'.waiting = Without(q, Gone(k) \cup {w})
      <4>1. Gone(k) \cup {w} \in SUBSET Workers
        BY <1>5, <1>13
      <4>2. DeleteWorkers(was, Gone(k) \cup {w}).waiting = Without(q, Gone(k) \cup {w})
        BY <1>0, <4>1 DEF Deleted, q
      <4> QED
        BY <1>19, <1>20, <4>2
    <3>2. IsInjective(q)
      BY <1>1 DEF WellFormed, q
    <3> QED
      BY <1>3, <1>8, <1>16, <3>1, <3>2, RemoveIsWithout
  <2>2. IsInjective(r)
    <3>1. IsInjective(Without(q, Gone(k)))
      BY <1>1, <1>3, WithoutInjective DEF WellFormed, q
    <3> QED
      BY <1>8, <1>16, <3>1
  <2>3. 1 \in 1..Len(r) /\ r[1] = w
    <3>1. Len(r) = Len(q) - k
      BY <1>3, <1>7, <1>9
    <3>2. 1 \in 1..Len(r)
      BY <1>3, <1>9, <3>1
    <3> QED
      BY <1>10, <1>11, <3>2
  <2> DEFINE x == RemoveFirst(r, w)
             y == SubSeq(q, k + 2, Len(q))
  <2>4. /\ x \in Seq(Workers) /\ Len(x) = Len(r) - 1
        /\ \A i \in 1..(Len(r) - 1) : x[i] = IF i < 1 THEN r[i] ELSE r[i + 1]
    BY <1>7, <2>2, <2>3, RemoveOne
  <2>5. /\ y \in Seq(Workers) /\ Len(y) = IF k + 2 <= Len(q) THEN Len(q) - (k + 2) + 1 ELSE 0
        /\ \A i \in 1..(Len(q) - (k + 2) + 1) : y[i] = q[(k + 2) + i - 1]
    <3>1. k + 2 \in Int /\ Len(q) \in Int
      BY <1>3, <1>9
    <3>2. \A i \in (k + 2)..Len(q) : q[i] \in Workers
      BY <1>3, <1>4, <1>9
    <3> QED
      BY <3>1, <3>2, SubSeqProperties
  <2> HIDE DEF x, y
  <2>6. Len(x) = Len(y) /\ Len(x) = Len(q) - k - 1
    BY <1>3, <1>7, <1>9, <2>4, <2>5
  <2>7. ASSUME NEW i \in 1..Len(x)
        PROVE  x[i] = y[i]
    <3>1. /\ i \in 1..(Len(r) - 1) /\ ~(i < 1)
          /\ i + 1 \in 1..(Len(q) - (k + 1) + 1) /\ (k + 1) + (i + 1) - 1 = k + i + 1
          /\ i \in 1..(Len(q) - (k + 2) + 1) /\ (k + 2) + i - 1 = k + i + 1
      BY <1>3, <1>7, <1>9, <2>4, <2>6
    <3>2. x[i] = r[i + 1]
      BY <2>4, <3>1
    <3>4. r[i + 1] = q[(k + 1) + (i + 1) - 1]
      BY <1>7, <3>1
    <3>3. y[i] = q[k + i + 1]
      BY <2>5, <3>1
    <3> QED
      BY <3>1, <3>2, <3>4, <3>3
  <2>8. x = y
    BY <2>4, <2>5, <2>6, <2>7, SameList
  <2> QED
    BY <2>1, <2>8 DEF x, y
<1>22. \A i \in 1..(k + 1) : was.expiry[was.waiting[i]] = 0
  <2> TAKE i \in 1..(k + 1)
  <2>1. i \in 1..k \/ i = k + 1
    BY <1>9
  <2> QED
    BY <1>2, <1>11, <1>17, <2>1 DEF q
<1>23. Purging'
  <2>1. k + 1 \in 0..Len(was.waiting) /\ k + 1 + 1 = k + 2
    BY <1>3, <1>9 DEF q
  <2>2. b'.waiting = SubSeq(was.waiting, k + 1 + 1, Len(was.waiting))
    BY <1>21, <2>1 DEF q
  <2>3. \E n \in 0..Len(was.waiting) :
          /\ \A i \in 1..n : was.expiry[was.waiting[i]] = 0
          /\ b' = DeleteWorkers(was, {was.waiting[i] : i \in 1..n})
          /\ b'.waiting = SubSeq(was.waiting, n + 1, Len(was.waiting))
    BY <1>20, <1>22, <2>1, <2>2 DEF Gone
  <2> QED
    BY <1>1, <2>3 DEF Purging, Gone
<1> QED
  BY <1>1, <1>23 DEF LoopsInv, LoopsComputeDispatch

\* The purge is over: it has computed Purge, and no request has been sent.
LEMMA PurgeEnds ==
  ASSUME LoopsInv, PurgeDone
  PROVE  LoopsInv'
<1> DEFINE q == was.waiting
           p == Purge(was)
<1>1. /\ WellFormed(was) /\ self \in Names /\ pc = "purge" /\ work = <<>>
      /\ was' = was /\ self' = self /\ work' = work /\ b' = b
      /\ pc' = IF b.queue[self] = <<>> THEN "done" ELSE "dispatch"
      /\ b.waiting # <<>> => b.expiry[Head(b.waiting)] > 0
  BY DEF LoopsInv, PurgeDone
<1>0. \A D \in SUBSET Workers : Deleted(was, D) /\ OneMore(was, D)
  BY <1>1, AnyDeleted
<1>2. PICK k \in 0..Len(was.waiting) :
        /\ \A i \in 1..k : was.expiry[was.waiting[i]] = 0
        /\ b = DeleteWorkers(was, Gone(k))
        /\ b.waiting = SubSeq(was.waiting, k + 1, Len(was.waiting))
  BY <1>1 DEF LoopsInv, Purging
<1>3. q \in Seq(Workers) /\ Len(q) \in Nat /\ was.expiry \in [Workers -> Nat]
  BY <1>1, TableFacts, LenProperties DEF WellFormed
<1>4. \A i \in 1..Len(q) : q[i] \in Workers
  BY <1>3, ElementOfSeq
<1>5. Gone(k) \in SUBSET Workers
  BY <1>3, <1>4 DEF Gone
<1>6. b.expiry = [v \in Workers |-> IF v \in Gone(k) THEN 0 ELSE was.expiry[v]]
  BY <1>0, <1>2, <1>5 DEF Deleted
<1>7. ASSUME k < Len(q)
      PROVE  was.expiry[q[k + 1]] # 0
  <2> DEFINE r == SubSeq(q, k + 1, Len(q))
  <2>1. k + 1 \in Int /\ Len(q) \in Int /\ k \in Nat
    BY <1>3
  <2>2. \A i \in (k + 1)..Len(q) : q[i] \in Workers
    BY <1>3, <1>4
  <2>3. /\ r \in Seq(Workers) /\ Len(r) = IF k + 1 <= Len(q) THEN Len(q) - (k + 1) + 1 ELSE 0
        /\ \A i \in 1..(Len(q) - (k + 1) + 1) : r[i] = q[(k + 1) + i - 1]
    BY <2>1, <2>2, SubSeqProperties
  <2>4. b.waiting = r
    BY <1>2
  <2> HIDE DEF r, q
  <2>5. Len(r) > 0 /\ 1 \in 1..(Len(q) - (k + 1) + 1) /\ (k + 1) + 1 - 1 = k + 1
    BY <1>3, <1>7, <2>1, <2>3
  <2>6. r # <<>>
    BY <2>5, EmptySeq
  <2>7. Head(r) = r[1]
    BY <2>3, <2>6, HeadTailProperties
  <2>8. r[1] = q[k + 1]
    BY <2>3, <2>5
  <2>9. q[k + 1] \in Workers
    <3>1. k + 1 \in 1..Len(q)
      BY <1>3, <1>7, <2>1
    <3> QED
      BY <1>4, <3>1
  <2> QED
    BY <1>1, <1>3, <1>6, <2>4, <2>6, <2>7, <2>8, <2>9
<1>8. Gone(k) = ExpiredHead(was)
  BY <1>1, <1>2, <1>7, HeadEnds DEF Gone
<1>9. b = p
  BY <1>2, <1>8 DEF Purge
<1>10. CASE b.queue[self] = <<>>
  <2>1. pc' = "done"
    BY <1>1, <1>10
  <2>2. Dispatch(was, self) = [broker |-> b, work |-> <<>>]
    BY <1>9, <1>10 DEF Dispatch
  <2> QED
    BY <1>1, <2>1, <2>2 DEF LoopsInv, LoopsComputeDispatch
<1>11. CASE b.queue[self] # <<>>
  <2>1. pc' = "dispatch"
    BY <1>1, <1>11
  <2> DEFINE l == p.queue[self]
             r == p.requests[self]
             a == [p EXCEPT !.queue[self] = Rotate(l, 0), !.requests[self] = SubSeq(r, 1, Len(r))]
  <2>2. p \in TableType
    BY <1>0, <1>2, <1>5, <1>9 DEF Deleted
  <2>3. l \in Seq(Workers) /\ r \in Seq(Request) /\ Len(r) \in Nat /\ l # <<>>
    BY <1>1, <1>9, <1>11, <2>2, TableFacts, LenProperties
  <2>4. SubSeq(r, 1, Len(r)) = r
    BY <2>3, WholeList
  <2>5. Rotate(l, 0) = l
    BY <2>3, NoRotation
  <2>6. a = p
    <3>1. [p EXCEPT !.queue[self] = p.queue[self], !.requests[self] = p.requests[self]] = p
      <4> HIDE DEF p
      <4> QED
        BY <1>1, <2>2, SameEntries
    <3> QED
      BY <2>4, <2>5, <3>1
  <2>7. [i \in 1..0 |-> [to |-> Popped(l, i), kind |-> "REQUEST", request |-> r[i]]] = <<>>
    OBVIOUS
  <2>8. 0 \in 0..Len(r) /\ 0 + 1 = 1
    BY <2>3
  <2> HIDE DEF l, r, a, p
  <2>9. /\ b' = [p EXCEPT !.queue[self] = Rotate(l, 0), !.requests[self] = SubSeq(r, 0 + 1, Len(r))]
        /\ work' = [i \in 1..0 |-> [to |-> Popped(l, i), kind |-> "REQUEST", request |-> r[i]]]
    BY <1>1, <1>9, <2>6, <2>7, <2>8 DEF a
  <2>10. Sent(p, l, r, 0)'
    BY <1>1, <2>9 DEF Sent, Left, p, l, r
  <2>11. p' = p /\ l' = l /\ r' = r
    BY <1>1 DEF p, l, r
  <2>12. Sending'
    BY <2>3, <2>8, <2>10, <2>11 DEF Sending, p, l, r
  <2> QED
    BY <1>1, <2>1, <2>12 DEF LoopsInv, LoopsComputeDispatch
<1> QED
  BY <1>10, <1>11

\* What is left of a list of requests, and the list of the REQUESTs sent.
LEMMA RestOfList ==
  ASSUME NEW S, NEW r \in Seq(S), NEW n \in 0..Len(r)
  PROVE  LET x == SubSeq(r, n + 1, Len(r))
         IN  /\ x \in Seq(S)
             /\ x = <<>> => n = Len(r)
             /\ x # <<>> => /\ n + 1 \in 0..Len(r) /\ Head(x) = r[n + 1]
                            /\ Tail(x) = SubSeq(r, n + 2, Len(r))
<1> DEFINE l == Len(r)
           x == SubSeq(r, n + 1, Len(r))
           y == SubSeq(r, n + 2, Len(r))
<1>1. l \in Nat /\ n \in Nat /\ n <= l /\ \A i \in 1..l : r[i] \in S
  BY LenProperties, ElementOfSeq
<1>2. /\ x \in Seq(S) /\ Len(x) = IF n + 1 <= l THEN l - (n + 1) + 1 ELSE 0
      /\ \A i \in 1..(l - (n + 1) + 1) : x[i] = r[(n + 1) + i - 1]
  BY <1>1, SubSeqProperties
<1>3. /\ y \in Seq(S) /\ Len(y) = IF n + 2 <= l THEN l - (n + 2) + 1 ELSE 0
      /\ \A i \in 1..(l - (n + 2) + 1) : y[i] = r[(n + 2) + i - 1]
  <2>1. n + 2 \in Int /\ \A i \in (n + 2)..l : r[i] \in S
    BY <1>1
  <2> QED
    BY <1>1, <2>1, SubSeqProperties
<1> HIDE DEF l, x, y
<1>4. ASSUME x = <<>>
      PROVE  n = l
  <2>1. Len(x) = 0
    BY <1>4
  <2> QED
    BY <1>1, <1>2, <2>1
<1>5. ASSUME x # <<>>
      PROVE  n + 1 \in 0..l /\ Head(x) = r[n + 1] /\ Tail(x) = y
  <2>1. n + 1 <= l
    <3>1. ~(n + 1 <= l) => Len(x) = 0
      BY <1>2
    <3> QED
      BY <1>2, <1>5, <3>1, EmptySeq
  <2>2. Len(x) = l - n
    BY <1>1, <1>2, <2>1
  <2>3. /\ Head(x) = x[1] /\ Tail(x) \in Seq(S) /\ Len(Tail(x)) = l - n - 1
        /\ \A i \in 1..(l - n - 1) : Tail(x)[i] = x[i + 1]
    BY <1>2, <1>5, <2>2, HeadTailProperties
  <2>4. Head(x) = r[n + 1]
    <3>1. 1 \in 1..(l - (n + 1) + 1) /\ (n + 1) + 1 - 1 = n + 1
      BY <1>1, <2>1
    <3> QED
      BY <1>2, <2>3, <3>1
  <2> DEFINE z == Tail(x)
  <2>5. z \in Seq(S) /\ Len(z) = l - n - 1 /\ \A i \in 1..(l - n - 1) : z[i] = x[i + 1]
    BY <2>3
  <2> HIDE DEF z
  <2>6. Len(y) = l - n - 1
    BY <1>1, <1>3, <2>1
  <2>7. ASSUME NEW i \in 1..Len(z)
        PROVE  z[i] = y[i]
    <3>1. /\ i \in 1..(l - n - 1) /\ i + 1 \in 1..(l - (n + 1) + 1)
          /\ i \in 1..(l - (n + 2) + 1)
          /\ (n + 1) + (i + 1) - 1 = n + i + 1 /\ (n + 2) + i - 1 = n + i + 1
      BY <1>1, <2>1, <2>5
    <3>2. z[i] = x[i + 1]
      BY <2>5, <3>1
    <3>3. x[i + 1] = r[n + i + 1]
      BY <1>2, <3>1
    <3>4. y[i] = r[n + i + 1]
      BY <1>3, <3>1
    <3> QED
      BY <3>2, <3>3, <3>4
  <2>8. z = y
    BY <1>3, <2>5, <2>6, <2>7, SameList
  <2> QED
    BY <1>1, <2>1, <2>4, <2>8 DEF z
<1> QED
  BY <1>2, <1>4, <1>5 DEF l, x, y

LEMMA OneMoreItem ==
  ASSUME NEW S, NEW m \in Nat, NEW f \in [1..m -> S], NEW n \in Nat, n + 1 <= m
  PROVE  Append([i \in 1..n |-> f[i]], f[n + 1]) = [i \in 1..(n + 1) |-> f[i]]
<1> DEFINE q == [i \in 1..n |-> f[i]]
           x == Append(q, f[n + 1])
           y == [i \in 1..(n + 1) |-> f[i]]
<1>0. f[n + 1] \in S /\ \A i \in 1..(n + 1) : f[i] \in S
  BY Z3
<1>1. q \in Seq(S) /\ Len(q) = n
  <2>1. q \in [1..n -> S]
    BY <1>0
  <2> QED
    BY <2>1, SeqDef, LenProperties
<1>2. y \in Seq(S) /\ Len(y) = n + 1
  <2>1. y \in [1..(n + 1) -> S] /\ n + 1 \in Nat
    BY <1>0
  <2> QED
    BY <2>1, SeqDef, LenProperties
<1>3. /\ \A i \in 1..n : q[i] = f[i]
      /\ \A i \in 1..(n + 1) : y[i] = f[i]
  OBVIOUS
<1> HIDE DEF q, y
<1>4. /\ x \in Seq(S) /\ Len(x) = n + 1
      /\ \A i \in 1..n : x[i] = q[i]
      /\ x[n + 1] = f[n + 1]
  BY <1>0, <1>1, AppendProperties
<1> HIDE DEF x
<1>5. ASSUME NEW i \in 1..Len(x)
      PROVE  x[i] = y[i]
  <2>1. i \in 1..(n + 1) /\ (i \in 1..n \/ i = n + 1)
    BY <1>4
  <2> QED
    BY <1>3, <1>4, <2>1
<1>6. x = y
  BY <1>2, <1>4, <1>5, SameList
<1> QED
  BY <1>6 DEF q, x, y

LEMMA LeftTables ==
  ASSUME NEW p \in TableType, NEW s \in Names,
         NEW q \in Seq(Workers), NEW r \in Seq(Request)
  PROVE  /\ Left(p, s, q, r) \in TableType
         /\ Left(p, s, q, r).queue = [p.queue EXCEPT ![s] = q]
         /\ Left(p, s, q, r).requests = [p.requests EXCEPT ![s] = r]
         /\ Left(p, s, q, r).known = p.known
         /\ Left(p, s, q, r).service = p.service
         /\ Left(p, s, q, r).expiry = p.expiry
         /\ Left(p, s, q, r).waiting = p.waiting
         /\ Left(p, s, q, r).count = p.count
         /\ Left(p, s, q, r).blacklist = p.blacklist
<1> DEFINE Q == [p.queue EXCEPT ![s] = q]
           R == [p.requests EXCEPT ![s] = r]
           a == Left(p, s, q, r)
<1>1. Q \in [Names -> Seq(Workers)] /\ R \in [Names -> Seq(Request)]
  BY TableFacts
<1>2. a = [p EXCEPT !.queue = Q, !.requests = R]
  BY DEF Left, TableType
<1> HIDE DEF Q, R, a
<1>3. /\ a \in TableType
      /\ a.queue = Q /\ a.requests = R
      /\ a.known = p.known /\ a.service = p.service /\ a.expiry = p.expiry
      /\ a.waiting = p.waiting /\ a.count = p.count /\ a.blacklist = p.blacklist
  BY <1>1, <1>2 DEF TableType
<1> QED
  BY <1>3 DEF a, Q, R

LEMMA LeftAgain ==
  ASSUME NEW p \in TableType, NEW s \in Names,
         NEW q \in Seq(Workers), NEW r \in Seq(Request),
         NEW q2 \in Seq(Workers), NEW r2 \in Seq(Request)
  PROVE  Left(Left(p, s, q, r), s, q2, r2) = Left(p, s, q2, r2)
<1> DEFINE a == Left(p, s, q, r)
           c == Left(a, s, q2, r2)
           d == Left(p, s, q2, r2)
<1>1. /\ a \in TableType
      /\ a.queue = [p.queue EXCEPT ![s] = q] /\ a.requests = [p.requests EXCEPT ![s] = r]
      /\ a.known = p.known /\ a.service = p.service /\ a.expiry = p.expiry
      /\ a.waiting = p.waiting /\ a.count = p.count /\ a.blacklist = p.blacklist
  BY LeftTables
<1>2. /\ d \in TableType
      /\ d.queue = [p.queue EXCEPT ![s] = q2] /\ d.requests = [p.requests EXCEPT ![s] = r2]
      /\ d.known = p.known /\ d.service = p.service /\ d.expiry = p.expiry
      /\ d.waiting = p.waiting /\ d.count = p.count /\ d.blacklist = p.blacklist
  BY LeftTables
<1> HIDE DEF a, d
<1>3. /\ c \in TableType
      /\ c.queue = [a.queue EXCEPT ![s] = q2] /\ c.requests = [a.requests EXCEPT ![s] = r2]
      /\ c.known = a.known /\ c.service = a.service /\ c.expiry = a.expiry
      /\ c.waiting = a.waiting /\ c.count = a.count /\ c.blacklist = a.blacklist
  BY <1>1, LeftTables
<1> HIDE DEF c
<1>4. p.queue \in [Names -> Seq(Workers)] /\ p.requests \in [Names -> Seq(Request)]
  BY TableFacts
<1>5. [[p.queue EXCEPT ![s] = q] EXCEPT ![s] = q2] = [p.queue EXCEPT ![s] = q2]
  BY <1>4
<1>6. [[p.requests EXCEPT ![s] = r] EXCEPT ![s] = r2] = [p.requests EXCEPT ![s] = r2]
  BY <1>4
<1>7. c.queue = d.queue /\ c.requests = d.requests
  <2>1. c.queue = d.queue
    BY <1>1, <1>2, <1>3, <1>5, Zenon
  <2>2. c.requests = d.requests
    BY <1>1, <1>2, <1>3, <1>6, Zenon
  <2> QED
    BY <2>1, <2>2
<1>8. c = d
  BY <1>1, <1>2, <1>3, <1>7, SameTables
<1> QED
  BY <1>8 DEF a, c, d

\* The purge leaves tables, and no worker twice in a list.
LEMMA PurgedTables ==
  ASSUME NEW t, WellFormed(t)
  PROVE  /\ Purge(t) \in TableType
         /\ \A s \in Names : IsInjective(Purge(t).queue[s])
<1> DEFINE q == t.waiting
           D == ExpiredHead(t)
           d == DeleteWorkers(t, D)
<1>1. t \in TableType /\ \A s \in Names : IsInjective(t.queue[s])
  BY DEF WellFormed
<1>2. t.waiting \in Seq(Workers) /\ t.queue \in [Names -> Seq(Workers)]
  BY <1>1, TableFacts
<1>3. \A i \in DOMAIN q : q[i] \in Workers
  BY <1>2, LenProperties, ElementOfSeq
<1>4. D \in SUBSET Workers
  BY <1>3 DEF ExpiredHead
<1> HIDE DEF D, q
<1>5. /\ d \in TableType
      /\ d.known = t.known \ D
      /\ d.service = [w \in Workers |-> IF w \in D THEN NoService ELSE t.service[w]]
      /\ d.expiry = [w \in Workers |-> IF w \in D THEN 0 ELSE t.expiry[w]]
      /\ d.waiting = Without(t.waiting, D)
      /\ d.queue = [s \in Names |-> Without(t.queue[s], Serving(t, D, s))]
      /\ d.count = [s \in Names |-> t.count[s] - Cardinality(Serving(t, D, s))]
      /\ d.requests = t.requests /\ d.blacklist = t.blacklist
  BY <1>4, DeletedTables
<1> HIDE DEF d
<1>6. ASSUME NEW s \in Names
      PROVE  IsInjective(d.queue[s])
  <2>1. d.queue[s] = Without(t.queue[s], Serving(t, D, s))
    BY <1>5
  <2>2. t.queue[s] \in Seq(Workers) /\ IsInjective(t.queue[s])
    BY <1>1, <1>2
  <2>3. IsInjective(Without(t.queue[s], Serving(t, D, s)))
    BY <2>2, WithoutInjective
  <2> QED
    BY <2>1, <2>3
<1>7. Purge(t) = d
  BY DEF Purge, d, D
<1> QED
  BY <1>5, <1>6, <1>7

\* The state of the loop of s_service_dispatch after n rounds, field by field.
LEMMA WhatIsSent ==
  ASSUME WellFormed(was), self \in Names, Purge(was).queue[self] # <<>>,
         NEW n \in 0..Len(Purge(was).requests[self]),
         Sent(Purge(was), Purge(was).queue[self], Purge(was).requests[self], n)
  PROVE  LET p == Purge(was)
             q == p.queue[self]
             r == p.requests[self]
         IN  /\ p \in TableType /\ q \in Seq(Workers) /\ r \in Seq(Request)
             /\ IsInjective(q) /\ n \in Nat
             /\ Rotate(q, n) \in Seq(Workers) /\ SubSeq(r, n + 1, Len(r)) \in Seq(Request)
             /\ b.queue[self] = Rotate(q, n)
             /\ b.requests[self] = SubSeq(r, n + 1, Len(r))
<1> DEFINE p == Purge(was)
           q == p.queue[self]
           r == p.requests[self]
<1>1. p \in TableType /\ IsInjective(q)
  BY PurgedTables
<1>2. p.queue \in [Names -> Seq(Workers)] /\ p.requests \in [Names -> Seq(Request)]
  BY <1>1, TableFacts
<1>3. q \in Seq(Workers) /\ r \in Seq(Request)
  BY <1>2
<1>4. n \in Nat
  BY <1>3, LenProperties
<1> DEFINE x == Rotate(q, n)
           y == SubSeq(r, n + 1, Len(r))
<1>5. x \in Seq(Workers)
  BY <1>3, <1>4, RotatedItems
<1>6. y \in Seq(Request)
  BY <1>3, RestOfList
<1>7. b = Left(p, self, x, y)
  BY DEF Sent
<1> HIDE DEF x, y
<1> HIDE DEF p, q, r
<1>8. b.queue = [p.queue EXCEPT ![self] = x] /\ b.requests = [p.requests EXCEPT ![self] = y]
  BY <1>1, <1>5, <1>6, <1>7, LeftTables
<1>9. b.queue[self] = x /\ b.requests[self] = y
  BY <1>2, <1>8
<1> QED
  BY <1>1, <1>3, <1>4, <1>5, <1>6, <1>9 DEF p, q, r, x, y

\* A round of the loop of s_service_dispatch.
LEMMA SendRound ==
  ASSUME LoopsInv, SendFirst
  PROVE  LoopsInv'
<1> DEFINE p == Purge(was)
           q == p.queue[self]
           r == p.requests[self]
<1>1. /\ WellFormed(was) /\ self \in Names /\ pc = "dispatch" /\ Sending
      /\ was' = was /\ self' = self /\ pc' = pc
  BY DEF LoopsInv, SendFirst
<1>2. q # <<>> /\ \E n \in 0..Len(r) : Sent(p, q, r, n)
  BY <1>1 DEF Sending
<1>3. PICK n \in 0..Len(r) : Sent(p, q, r, n)
  BY <1>2
<1>4. p' = p /\ q' = q /\ r' = r
  BY <1>1
<1> DEFINE x == Rotate(q, n)
           y == SubSeq(r, n + 1, Len(r))
           w == Head(x)
<1>6. /\ p \in TableType /\ q \in Seq(Workers) /\ r \in Seq(Request)
      /\ IsInjective(q) /\ n \in Nat
      /\ x \in Seq(Workers) /\ y \in Seq(Request)
      /\ b.queue[self] = x /\ b.requests[self] = y
  BY <1>1, <1>2, <1>3, WhatIsSent
<1> HIDE DEF p, q, r
<1>7. b = Left(p, self, x, y)
  BY <1>3 DEF Sent
<1>8. work = [i \in 1..n |-> [to |-> Popped(q, i), kind |-> "REQUEST", request |-> r[i]]]
  BY <1>3 DEF Sent
<1> DEFINE x2 == Rotate(q, n + 1)
           y2 == SubSeq(r, n + 2, Len(r))
<1>9. w = Popped(q, n + 1) /\ Append(RemoveFirst(Tail(x), w), w) = x2
  BY <1>2, <1>6, OneMoreRound
<1>10. y # <<>>
  BY <1>6 DEF SendFirst
<1>11. n + 1 \in 0..Len(r) /\ Head(y) = r[n + 1] /\ Tail(y) = y2
  BY <1>6, <1>10, RestOfList
<1>12. x2 \in Seq(Workers) /\ y2 \in Seq(Request)
  <2>1. n + 1 \in Nat /\ n + 1 + 1 = n + 2
    BY <1>6
  <2>2. x2 \in Seq(Workers)
    BY <1>2, <1>6, <2>1, RotatedItems
  <2>3. SubSeq(r, n + 1 + 1, Len(r)) \in Seq(Request)
    BY <1>6, <1>11, RestOfList
  <2> QED
    BY <2>1, <2>2, <2>3
<1>13. b' = Left(b, self, x2, y2)
  <2>1. b' = Left(b, self, Append(RemoveFirst(Tail(b.queue[self]), Head(b.queue[self])), Head(b.queue[self])),
                  Tail(b.requests[self]))
    BY DEF SendFirst, Left
  <2> HIDE DEF x, x2, y, y2
  <2> QED
    BY <1>6, <1>9, <1>11, <2>1
<1>14. b' = Left(p, self, x2, y2)
  <2> HIDE DEF x, x2, y, y2
  <2>1. Left(Left(p, self, x, y), self, x2, y2) = Left(p, self, x2, y2)
    BY <1>1, <1>6, <1>12, LeftAgain
  <2> QED
    BY <1>7, <1>13, <2>1
<1> DEFINE f == [i \in 1..Len(r) |-> [to |-> Popped(q, i), kind |-> "REQUEST", request |-> r[i]]]
           S == {f[i] : i \in 1..Len(r)}
<1>15. work' = [i \in 1..(n + 1) |->
                  [to |-> Popped(q, i), kind |-> "REQUEST", request |-> r[i]]]
  <2>1. Len(r) \in Nat
    BY <1>6, LenProperties
  <2>2. f \in [1..Len(r) -> S]
    OBVIOUS
  <2>3. n + 1 <= Len(r) /\ n + 1 \in 1..Len(r) /\ \A i \in 1..(n + 1) : i \in 1..Len(r)
    BY <1>6, <1>11, <2>1
  <2>4. f[n + 1] = [to |-> Popped(q, n + 1), kind |-> "REQUEST", request |-> r[n + 1]]
    BY <2>3
  <2>5. [i \in 1..n |-> f[i]]
          = [i \in 1..n |-> [to |-> Popped(q, i), kind |-> "REQUEST", request |-> r[i]]]
    <3>1. \A i \in 1..n : i \in 1..Len(r)
      BY <1>6, <2>1, <2>3
    <3> QED
      BY <3>1
  <2>6. [i \in 1..(n + 1) |-> f[i]]
          = [i \in 1..(n + 1) |-> [to |-> Popped(q, i), kind |-> "REQUEST", request |-> r[i]]]
    BY <2>3
  <2>7. work' = Append(work, [to |-> Head(b.queue[self]), kind |-> "REQUEST",
                              request |-> Head(b.requests[self])])
    BY DEF SendFirst
  <2> HIDE DEF f, S, x, y
  <2>8. Append([i \in 1..n |-> f[i]], f[n + 1]) = [i \in 1..(n + 1) |-> f[i]]
    BY <1>6, <2>1, <2>2, <2>3, OneMoreItem
  <2>9. work' = Append(work, f[n + 1])
    BY <1>6, <1>9, <1>11, <2>4, <2>7
  <2> QED
    BY <1>8, <2>5, <2>6, <2>8, <2>9
<1>16. Sending'
  <2>1. n + 1 + 1 = n + 2
    BY <1>6
  <2>2. Sent(p, q, r, n + 1)'
    BY <1>1, <1>4, <1>14, <1>15, <2>1 DEF Sent
  <2>3. \E m \in 0..Len(r) : Sent(p, q, r, m)'
    BY <1>11, <2>2
  <2> QED
    BY <1>2, <1>4, <2>3 DEF Sending, p, q, r
<1> QED
  BY <1>1, <1>16 DEF LoopsInv, LoopsComputeDispatch

\* The loop is over: every request has been sent.
LEMMA SendEnds ==
  ASSUME LoopsInv, DispatchDone
  PROVE  LoopsInv'
<1> DEFINE p == Purge(was)
           q == p.queue[self]
           r == p.requests[self]
<1>1. /\ WellFormed(was) /\ self \in Names /\ pc = "dispatch" /\ Sending
      /\ b.requests[self] = <<>>
      /\ was' = was /\ self' = self /\ b' = b /\ work' = work /\ pc' = "done"
  BY DEF LoopsInv, DispatchDone
<1>2. q # <<>> /\ \E n \in 0..Len(r) : Sent(p, q, r, n)
  BY <1>1 DEF Sending
<1>3. PICK n \in 0..Len(r) : Sent(p, q, r, n)
  BY <1>2
<1>6. /\ r \in Seq(Request)
      /\ b.requests[self] = SubSeq(r, n + 1, Len(r))
  BY <1>1, <1>2, <1>3, WhatIsSent
<1> HIDE DEF p, q, r
<1>7. n = Len(r)
  BY <1>1, <1>6, RestOfList
<1>8. /\ b = Left(p, self, Rotate(q, Len(r)), <<>>)
      /\ work = [i \in 1..Len(r) |-> [to |-> Popped(q, i), kind |-> "REQUEST", request |-> r[i]]]
  BY <1>1, <1>3, <1>6, <1>7 DEF Sent
<1>9. Dispatch(was, self)
        = [broker |-> Left(p, self, Rotate(q, Len(r)), <<>>),
           work |-> [i \in 1..Len(r) |->
                       [to |-> Popped(q, i), kind |-> "REQUEST", request |-> r[i]]]]
  BY <1>2 DEF Dispatch, Left, p, q, r
<1>10. [broker |-> b, work |-> work] = Dispatch(was, self)
  BY <1>8, <1>9
<1> QED
  BY <1>1, <1>10 DEF LoopsInv, LoopsComputeDispatch

-----------------------------------------------------------------------------
(* The whole computation *)

\* Deleting nobody changes nothing.
LEMMA NoneDeleted ==
  ASSUME NEW t, WellFormed(t)
  PROVE  DeleteWorkers(t, {}) = t
<1> DEFINE d == DeleteWorkers(t, {})
<1>0. {} \in SUBSET Workers
  OBVIOUS
<1>1. /\ d \in TableType
      /\ d.known = t.known \ {}
      /\ d.service = [w \in Workers |-> IF w \in {} THEN NoService ELSE t.service[w]]
      /\ d.expiry = [w \in Workers |-> IF w \in {} THEN 0 ELSE t.expiry[w]]
      /\ d.waiting = Without(t.waiting, {})
      /\ d.queue = [s \in Names |-> Without(t.queue[s], Serving(t, {}, s))]
      /\ d.count = [s \in Names |-> t.count[s] - Cardinality(Serving(t, {}, s))]
      /\ d.requests = t.requests /\ d.blacklist = t.blacklist
  BY <1>0, DeletedTables
<1> HIDE DEF d
<1>2. /\ t \in TableType
      /\ t.service \in [Workers -> Names \cup {NoService}] /\ t.expiry \in [Workers -> Nat]
      /\ t.waiting \in Seq(Workers) /\ t.queue \in [Names -> Seq(Workers)]
      /\ t.count \in [Names -> Int]
  BY TableFacts DEF WellFormed
<1>3. \A s \in Names : Serving(t, {}, s) = {}
  BY DEF Serving
<1>4. Cardinality({}) = 0
  BY FS_EmptySet
<1>5. d.known = t.known /\ d.service = t.service /\ d.expiry = t.expiry
  BY <1>1, <1>2
<1>6. d.waiting = t.waiting
  BY <1>1, <1>2, WithoutNone
<1>7. d.queue = t.queue
  <2>1. \A s \in Names : Without(t.queue[s], Serving(t, {}, s)) = t.queue[s]
    BY <1>2, <1>3, WithoutNone
  <2> QED
    BY <1>1, <1>2, <2>1
<1>8. d.count = t.count
  <2>1. ASSUME NEW s \in Names
        PROVE  t.count[s] - Cardinality(Serving(t, {}, s)) = t.count[s]
    <3>1. t.count[s] \in Int
      BY <1>2
    <3>2. Cardinality(Serving(t, {}, s)) = 0
      BY <1>3, <1>4
    <3> QED
      BY <3>1, <3>2
  <2> QED
    BY <1>1, <1>2, <2>1
<1>9. d = t
  BY <1>1, <1>2, <1>5, <1>6, <1>7, <1>8, SameTables
<1> QED
  BY <1>9 DEF d

\* What an order of the workers of S is.
LEMMA OrdersAreLists ==
  ASSUME NEW S \in SUBSET Workers, NEW q \in Orders(S)
  PROVE  q \in Seq(Workers) /\ IsInjective(q)
<1>1. Cardinality(S) \in Nat
  BY FiniteAssumption, FS_Subset, FS_CardinalityType
<1>2. q \in [1..Cardinality(S) -> S] /\ IsInjective(q)
  BY DEF Orders
<1>3. q \in Seq(Workers)
  BY <1>1, <1>2, SeqDef
<1> QED
  BY <1>2, <1>3

\* The tables from which the loops start are well formed.
LEMMA WellFormedTables ==
  ASSUME NEW t \in Tables, NEW s \in Names, NEW r \in BoundedSeq(Request, MaxRequests)
  PROVE  WellFormed([t EXCEPT !.requests[s] = r])
<1>1. PICK service \in [Workers -> Names \cup {NoService}], known \in SUBSET Workers :
        t \in TablesOf(service, known)
  BY DEF Tables
<1>2. PICK expiry \in Expiries(known), waiting \in Lists(service, known),
           queue \in Queues(service) : t = Table(service, known, expiry, waiting, queue)
  BY <1>1 DEF TablesOf
<1> DEFINE in == InService(service)
<1>3. expiry \in [Workers -> Nat] /\ in \in SUBSET Workers
  BY DEF Expiries, InService
<1>4. waiting \in Seq(Workers) /\ IsInjective(waiting)
  <2>1. PICK S \in SUBSET known : waiting \in Orders(S)
    BY DEF Lists
  <2> QED
    BY <2>1, OrdersAreLists
<1>5. \A n \in Names : queue[n] \in Seq(Workers) /\ IsInjective(queue[n])
  <2> TAKE n \in Names
  <2>1. queue[n] \in Orders({w \in in : service[w] = n})
    BY DEF Queues
  <2>2. {w \in in : service[w] = n} \in SUBSET Workers
    BY <1>3
  <2> QED
    BY <2>1, <2>2, OrdersAreLists
<1>6. r \in Seq(Request)
  <2>1. PICK m \in 0..MaxRequests : r \in [1..m -> Request]
    BY DEF BoundedSeq, SeqOf
  <2>2. m \in Nat
    BY NumbersAssumption
  <2> QED
    BY <2>1, <2>2, SeqDef
<1> DEFINE Q == [n \in Names |-> queue[n]]
           C == [n \in Names |-> Len(queue[n])]
           none == [n \in Names |-> <<>>]
           black == [n \in Names |-> {}]
           x == [t EXCEPT !.requests[s] = r]
<1>7. /\ Q \in [Names -> Seq(Workers)] /\ C \in [Names -> Int]
      /\ \A n \in Names : Q[n] = queue[n]
  BY <1>5, LenProperties
<1>8. none \in [Names -> Seq(Request)] /\ black \in [Names -> SUBSET Commands]
  <2>1. <<>> \in Seq(Request)
    BY EmptySeq
  <2> QED
    BY <2>1
<1>9. t = [known |-> known, service |-> service, expiry |-> expiry, waiting |-> waiting,
           queue |-> Q, count |-> C, requests |-> none, blacklist |-> black]
  BY <1>2 DEF Table, NewBroker
<1> HIDE DEF Q, C, none, black, in
<1>10. t \in TableType
  BY <1>3, <1>4, <1>7, <1>8, <1>9 DEF TableType
<1>11. /\ t.waiting = waiting /\ t.queue = Q
       /\ t.requests \in [Names -> Seq(Request)]
  BY <1>8, <1>9
<1> DEFINE R == [t.requests EXCEPT ![s] = r]
<1>12. R \in [Names -> Seq(Request)]
  BY <1>6, <1>11
<1>13. x = [t EXCEPT !.requests = R]
  BY <1>10 DEF TableType
<1> HIDE DEF R, x
<1>14. x \in TableType /\ x.waiting = waiting /\ x.queue = Q
  BY <1>10, <1>11, <1>12, <1>13 DEF TableType
<1>16. WellFormed(x)
  BY <1>4, <1>5, <1>7, <1>14 DEF WellFormed
<1> QED
  BY <1>16 DEF x

LEMMA LoopsStart == InitLoops => LoopsInv
<1> SUFFICES ASSUME InitLoops
             PROVE  LoopsInv
  OBVIOUS
<1>1. self \in Names /\ b = was /\ work = <<>> /\ pc = "purge"
  BY DEF InitLoops
<1>2. WellFormed(was)
  <2>1. PICK t \in Tables, r \in BoundedSeq(Request, MaxRequests) :
          was = [t EXCEPT !.requests[self] = r]
    BY DEF InitLoops
  <2> QED
    BY <1>1, <2>1, WellFormedTables
<1>3. was.waiting \in Seq(Workers)
  BY <1>2, TableFacts DEF WellFormed
<1>4. 0 \in 0..Len(was.waiting) /\ 0 + 1 = 1
  BY <1>3, LenProperties
<1>5. Gone(0) = {}
  BY DEF Gone
<1>6. b = DeleteWorkers(was, Gone(0))
  BY <1>1, <1>2, <1>5, NoneDeleted
<1>7. b.waiting = SubSeq(was.waiting, 0 + 1, Len(was.waiting))
  BY <1>1, <1>3, <1>4, WholeList
<1>8. \A i \in 1..0 : was.expiry[was.waiting[i]] = 0
  OBVIOUS
<1>9. Purging
  BY <1>4, <1>6, <1>7, <1>8 DEF Purging
<1> QED
  BY <1>1, <1>2, <1>9 DEF LoopsInv, LoopsComputeDispatch

\* The loops of s_broker_purge and s_service_dispatch, run one list operation at a
\* time, leave the tables and send the REQUESTs that Purge and Dispatch of MDPBroker
\* state in closed form.
THEOREM LoopsCorrect == SpecLoops => []LoopsComputeDispatch
<1>1. InitLoops => LoopsInv
  BY LoopsStart
<1>2. LoopsInv /\ [NextLoops]_<<loopVars, vars>> => LoopsInv'
  <2> SUFFICES ASSUME LoopsInv, [NextLoops]_<<loopVars, vars>>
               PROVE  LoopsInv'
    OBVIOUS
  <2>1. CASE DeleteFirst
    BY <2>1, DeleteRound
  <2>2. CASE PurgeDone
    BY <2>2, PurgeEnds
  <2>3. CASE SendFirst
    BY <2>3, SendRound
  <2>4. CASE DispatchDone
    BY <2>4, SendEnds
  <2>5. CASE UNCHANGED <<loopVars, vars>>
    <3>1. /\ was' = was /\ self' = self /\ b' = b /\ work' = work /\ pc' = pc
      BY <2>5 DEF loopVars
    <3>2. Purging => Purging'
      BY <3>1 DEF Purging, Gone
    <3>3. Sending => Sending'
      BY <3>1 DEF Sending, Sent
    <3> QED
      BY <3>1, <3>2, <3>3 DEF LoopsInv, LoopsComputeDispatch
  <2> QED
    BY <2>1, <2>2, <2>3, <2>4, <2>5 DEF NextLoops
<1>3. LoopsInv => LoopsComputeDispatch
  BY DEF LoopsInv
<1> QED
  BY <1>1, <1>2, <1>3, PTL DEF SpecLoops

=============================================================================
