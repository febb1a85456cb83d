-------------------------- MODULE MDPBrokerProofs ---------------------------
(***************************************************************************)
(* The safety of MDPBroker, proved for every set of workers, clients,      *)
(* services and commands, and every interval and liveness.                 *)
(*                                                                         *)
(* Base(b) is what every operation on the tables preserves, Good(b) what   *)
(* the tables satisfy between two iterations of the main loop.  What they  *)
(* need of the list operators (Without, Rotate) comes first.               *)
(***************************************************************************)
EXTENDS MDPBroker, FunctionTheorems, FiniteSetTheorems, SequenceTheorems, TLAPS

-----------------------------------------------------------------------------
(* Lists *)

\* Nth(K, i) is the i-th smallest member of K.
Rank(K, k) == Cardinality({j \in K : j <= k})

\* A set of positions of a list is a finite set of integers.
LEMMA PositionsFinite ==
  ASSUME NEW n \in Nat, NEW K \in SUBSET (1..n)
  PROVE  /\ IsFiniteSet(K)
         /\ Cardinality(K) \in Nat
         /\ \A k \in K : k \in Int
<1>1. IsFiniteSet(1..n)
  BY FS_Interval
<1>2. IsFiniteSet(K)
  BY <1>1, FS_Subset
<1>3. \A k \in K : k \in Int
  OBVIOUS
<1> QED
  BY <1>2, <1>3, FS_CardinalityType

\* A later position has a greater rank.
LEMMA RankIncreases ==
  ASSUME NEW n \in Nat, NEW K \in SUBSET (1..n), NEW k \in K, NEW m \in K, k < m
  PROVE  Rank(K, k) < Rank(K, m)
<1>1. IsFiniteSet(K)
  BY PositionsFinite
<1> DEFINE A == {j \in K : j <= k}
           B == {j \in K : j <= m}
<1>2. IsFiniteSet(A) /\ IsFiniteSet(B)
  BY <1>1, FS_Subset
<1>3. A \subseteq B /\ A # B
  <2>1. k \in Int /\ m \in Int /\ \A j \in K : j \in Int
    BY PositionsFinite
  <2>2. m \in B /\ m \notin A
    BY <2>1
  <2>3. \A j \in K : j <= k => j <= m
    BY <2>1
  <2> QED
    BY <2>2, <2>3
<1>4. Cardinality(A) \in Nat /\ Cardinality(B) \in Nat
  BY <1>2, FS_CardinalityType
<1>5. Cardinality(A) <= Cardinality(B) /\ Cardinality(A) # Cardinality(B)
  <2> HIDE DEF A, B
  <2> QED BY <1>2, <1>3, FS_Subset
<1> QED
  BY <1>4, <1>5 DEF Rank

\* The rank of one of K positions is at most the number of them.
LEMMA RankBounds ==
  ASSUME NEW n \in Nat, NEW K \in SUBSET (1..n), NEW k \in K
  PROVE  Rank(K, k) \in 1..Cardinality(K)
<1>1. IsFiniteSet(K)
  BY PositionsFinite
<1> DEFINE A == {j \in K : j <= k}
<1>2. A \subseteq K /\ k \in A
  OBVIOUS
<1>3. /\ IsFiniteSet(A)
      /\ Cardinality(A) <= Cardinality(K)
      /\ Cardinality(A) \in Nat
      /\ Cardinality(K) \in Nat
  BY <1>1, <1>2, FS_Subset, FS_CardinalityType
<1>4. Cardinality(A) # 0
  <2> HIDE DEF A
  <2> QED BY <1>2, <1>3, FS_EmptySet
<1> QED
  BY <1>3, <1>4 DEF Rank

\* The i-th of the positions K is one of them, and has rank i.
LEMMA NthHasRank ==
  ASSUME NEW n \in Nat, NEW K \in SUBSET (1..n), NEW i \in 1..Cardinality(K)
  PROVE  Nth(K, i) \in K /\ Rank(K, Nth(K, i)) = i
<1>1. IsFiniteSet(K) /\ Cardinality(K) \in Nat
  BY PositionsFinite
<1> DEFINE f == [k \in K |-> Rank(K, k)]
<1>2. f \in [K -> 1..Cardinality(K)]
  BY RankBounds
<1>3. \A k, m \in K : f[k] = f[m] => k = m
  <2> SUFFICES ASSUME NEW k \in K, NEW m \in K, k # m
               PROVE  Rank(K, k) # Rank(K, m)
    OBVIOUS
  <2>1. Rank(K, k) \in 1..Cardinality(K) /\ Rank(K, m) \in 1..Cardinality(K)
    BY RankBounds
  <2>2. Rank(K, k) \in Int /\ Rank(K, m) \in Int
    BY <1>1, <2>1
  <2>3. k < m \/ m < k
    BY PositionsFinite
  <2>4. Rank(K, k) < Rank(K, m) \/ Rank(K, m) < Rank(K, k)
    BY <2>3, RankIncreases
  <2> QED
    BY <2>2, <2>4
<1>4. f \in Injection(K, 1..Cardinality(K))
  BY <1>2, <1>3 DEF Injection, IsInjective
<1>5. /\ IsFiniteSet(1..Cardinality(K))
      /\ Cardinality(1..Cardinality(K)) = Cardinality(K)
  BY <1>1, FS_Interval
<1>6. f \in Surjection(K, 1..Cardinality(K))
  <2> HIDE DEF f
  <2> QED BY <1>4, <1>5, FS_Injection
<1>7. PICK k \in K : f[k] = i
  BY <1>6 DEF Surjection
<1>8. \E m \in K : Cardinality({j \in K : j <= m}) = i
  BY <1>7 DEF Rank
<1> QED
  BY <1>8 DEF Nth, Rank

\* Nth lists the positions in their order.
LEMMA NthIncreases ==
  ASSUME NEW n \in Nat, NEW K \in SUBSET (1..n),
         NEW i \in 1..Cardinality(K), NEW j \in 1..Cardinality(K), i < j
  PROVE  Nth(K, i) < Nth(K, j)
<1>1. /\ Nth(K, i) \in K /\ Rank(K, Nth(K, i)) = i
      /\ Nth(K, j) \in K /\ Rank(K, Nth(K, j)) = j
  BY NthHasRank
<1>2. Cardinality(K) \in Nat
  BY PositionsFinite
<1>3. CASE Nth(K, j) < Nth(K, i)
  <2>1. Rank(K, Nth(K, j)) < Rank(K, Nth(K, i))
    BY <1>1, <1>3, RankIncreases
  <2> QED BY <1>1, <1>2, <2>1
<1>4. CASE Nth(K, j) = Nth(K, i)
  BY <1>1, <1>2, <1>4
<1>5. Nth(K, i) \in Int /\ Nth(K, j) \in Int
  BY <1>1, PositionsFinite
<1> QED
  BY <1>3, <1>4, <1>5

\* Nth is the inverse of the rank: it leaves no position out.
LEMMA NthOfRank ==
  ASSUME NEW n \in Nat, NEW K \in SUBSET (1..n), NEW k \in K
  PROVE  Nth(K, Rank(K, k)) = k
<1>1. Rank(K, k) \in 1..Cardinality(K)
  BY RankBounds
<1>2. /\ Nth(K, Rank(K, k)) \in K
      /\ Rank(K, Nth(K, Rank(K, k))) = Rank(K, k)
  BY <1>1, NthHasRank
<1>3. Cardinality(K) \in Nat
  BY PositionsFinite
<1>4. Nth(K, Rank(K, k)) \in Int /\ k \in Int /\ Rank(K, k) \in Int
  BY <1>1, <1>2, <1>3, PositionsFinite
<1>5. CASE Nth(K, Rank(K, k)) < k
  <2>1. Rank(K, Nth(K, Rank(K, k))) < Rank(K, k)
    BY <1>2, <1>5, RankIncreases
  <2> QED BY <1>2, <1>4, <2>1
<1>6. CASE k < Nth(K, Rank(K, k))
  <2>1. Rank(K, k) < Rank(K, Nth(K, Rank(K, k)))
    BY <1>2, <1>6, RankIncreases
  <2> QED BY <1>2, <1>4, <2>1
<1> QED
  BY <1>4, <1>5, <1>6
-----------------------------------------------------------------------------
(* zlist_remove of a set of workers *)

\* Without(q, D) has the members of q that are not in D, in their order, each at
\* the place that Nth gives its position.
LEMMA WithoutProperties ==
  ASSUME NEW S, NEW q \in Seq(S), NEW D
  PROVE  LET r == Without(q, D)
             e == [i \in 1..Len(r) |-> Nth(Kept(q, D), i)]
         IN  /\ r \in Seq(S)
             /\ Len(r) = Cardinality(Kept(q, D))
             /\ Len(r) \in Nat
             /\ e \in [1..Len(r) -> Kept(q, D)]
             /\ \A i \in 1..Len(r) : r[i] = q[e[i]]
             /\ \A i, j \in 1..Len(r) : i < j => e[i] < e[j]
             /\ Range(r) = Range(q) \ D
<1> DEFINE r == Without(q, D)
           K == Kept(q, D)
           e == [i \in 1..Len(r) |-> Nth(K, i)]
<1>1. Len(q) \in Nat /\ DOMAIN q = 1..Len(q) /\ \A i \in 1..Len(q) : q[i] \in S
  BY LenProperties, ElementOfSeq
<1>2. K \in SUBSET (1..Len(q)) /\ K = {i \in 1..Len(q) : q[i] \notin D}
  BY <1>1 DEF Kept
<1> HIDE DEF K
<1>3. Cardinality(K) \in Nat
  BY <1>1, <1>2, PositionsFinite
<1>4. \A i \in 1..Cardinality(K) : Nth(K, i) \in K
  BY <1>1, <1>2, NthHasRank
<1>5. r = [i \in 1..Cardinality(K) |-> q[Nth(K, i)]]
  BY DEF Without, K
<1>6. r \in [1..Cardinality(K) -> S]
  BY <1>1, <1>2, <1>4, <1>5
<1>7. r \in Seq(S) /\ Len(r) = Cardinality(K)
  BY <1>3, <1>6
<1> HIDE DEF r
<1>8. e \in [1..Len(r) -> K]
  BY <1>4, <1>7
<1>9. \A i \in 1..Len(r) : r[i] = q[e[i]]
  BY <1>5, <1>7
<1>10. \A i, j \in 1..Len(r) : i < j => e[i] < e[j]
  BY <1>1, <1>2, <1>7, NthIncreases
<1>11. Range(r) = {r[i] : i \in 1..Len(r)} /\ Range(q) = {q[i] : i \in 1..Len(q)}
  BY <1>7, RangeEquality
<1>12. Range(r) \subseteq Range(q) \ D
  <2> SUFFICES ASSUME NEW i \in 1..Len(r)
               PROVE  r[i] \in Range(q) \ D
    BY <1>11
  <2>1. e[i] \in K /\ r[i] = q[e[i]]
    BY <1>8, <1>9
  <2> QED
    BY <1>2, <1>11, <2>1
<1>13. Range(q) \ D \subseteq Range(r)
  <2> SUFFICES ASSUME NEW k \in 1..Len(q), q[k] \notin D
               PROVE  q[k] \in Range(r)
    BY <1>11
  <2>1. k \in K
    BY <1>2
  <2>2. Rank(K, k) \in 1..Len(r) /\ Nth(K, Rank(K, k)) = k
    BY <1>1, <1>2, <1>7, <2>1, RankBounds, NthOfRank
  <2>3. r[Rank(K, k)] = q[k]
    BY <1>5, <1>7, <2>2
  <2> QED
    BY <1>11, <2>2, <2>3
<1> QED
  BY <1>3, <1>7, <1>8, <1>9, <1>10, <1>12, <1>13 DEF r, K

\* Removing workers from a list adds no duplicates.
LEMMA WithoutInjective ==
  ASSUME NEW S, NEW q \in Seq(S), NEW D, IsInjective(q)
  PROVE  IsInjective(Without(q, D))
<1> DEFINE r == Without(q, D)
           K == Kept(q, D)
           e == [i \in 1..Len(r) |-> Nth(K, i)]
<1>1. /\ r \in Seq(S) /\ Len(r) \in Nat
      /\ e \in [1..Len(r) -> K]
      /\ \A i \in 1..Len(r) : r[i] = q[e[i]]
      /\ \A i, j \in 1..Len(r) : i < j => e[i] < e[j]
  BY WithoutProperties
<1>2. K \subseteq DOMAIN q /\ DOMAIN q = 1..Len(q) /\ Len(q) \in Nat
  BY LenProperties DEF Kept
<1>3. DOMAIN r = 1..Len(r)
  BY <1>1, LenProperties
<1> HIDE DEF r, K, e
<1>4. ASSUME NEW i \in 1..Len(r), NEW j \in 1..Len(r), r[i] = r[j], i < j
      PROVE  FALSE
  <2>1. q[e[i]] = q[e[j]] /\ e[i] \in DOMAIN q /\ e[j] \in DOMAIN q
    BY <1>1, <1>2, <1>4
  <2>2. e[i] = e[j]
    BY <2>1 DEF IsInjective
  <2>3. e[i] < e[j] /\ e[i] \in Int
    BY <1>1, <1>2, <1>4, <2>1
  <2> QED
    BY <2>2, <2>3
<1>5. \A i, j \in 1..Len(r) : r[i] = r[j] => i = j
  <2> SUFFICES ASSUME NEW i \in 1..Len(r), NEW j \in 1..Len(r), r[i] = r[j], i # j
               PROVE  FALSE
    OBVIOUS
  <2>1. i < j \/ j < i
    BY <1>1
  <2> QED
    BY <1>4, <2>1
<1>6. IsInjective(r)
  BY <1>3, <1>5 DEF IsInjective
<1> QED
  BY <1>6 DEF r

\* Without shortens a list of distinct members by as many as it removes.
LEMMA WithoutLength ==
  ASSUME NEW S, NEW q \in Seq(S), IsInjective(q), NEW D, D \subseteq Range(q)
  PROVE  /\ Cardinality(D) \in Nat
         /\ Len(Without(q, D)) = Len(q) - Cardinality(D)
<1> DEFINE P == {i \in 1..Len(q) : q[i] \in D}
           f == [i \in P |-> q[i]]
<1>1. Len(q) \in Nat /\ DOMAIN q = 1..Len(q)
  BY LenProperties
<1>2. P \in SUBSET (1..Len(q)) /\ Kept(q, D) = (1..Len(q)) \ P
  BY <1>1 DEF Kept
<1>3. f \in Bijection(P, D)
  <2>1. f \in [P -> D]
    OBVIOUS
  <2>2. \A a, b \in P : f[a] = f[b] => a = b
    BY <1>1 DEF IsInjective
  <2>3. \A d \in D : \E i \in P : f[i] = d
    BY <1>1 DEF Range
  <2> QED
    BY <2>1, <2>2, <2>3 DEF Bijection, Injection, Surjection, IsInjective
<1>4. IsFiniteSet(P) /\ Cardinality(P) \in Nat
  BY <1>1, <1>2, PositionsFinite
<1>5. IsFiniteSet(D) /\ Cardinality(D) = Cardinality(P)
  <2>1. ExistsBijection(P, D)
    BY <1>3 DEF ExistsBijection
  <2> HIDE DEF P
  <2> QED BY <1>4, <2>1, FS_Bijection
<1>6. IsFiniteSet(1..Len(q)) /\ Cardinality(1..Len(q)) = Len(q)
  BY <1>1, FS_Interval
<1>7. Cardinality((1..Len(q)) \ P) = Len(q) - Cardinality(P)
  <2> HIDE DEF P
  <2>1. Cardinality((1..Len(q)) \ P)
          = Cardinality(1..Len(q)) - Cardinality((1..Len(q)) \cap P)
    BY <1>4, <1>6, FS_Difference
  <2>2. (1..Len(q)) \cap P = P
    BY <1>2
  <2> QED BY <1>6, <2>1, <2>2
<1>8. Len(Without(q, D)) = Cardinality(Kept(q, D))
  BY WithoutProperties
<1> QED
  BY <1>2, <1>4, <1>5, <1>7, <1>8

\* Without keeps a list sorted, whatever it is sorted by.
LEMMA WithoutSorted ==
  ASSUME NEW S, NEW q \in Seq(S), NEW D, NEW f, \A x \in S \ D : f[x] \in Int,
         \A i, j \in DOMAIN q :
           q[i] \notin D /\ q[j] \notin D /\ i <= j => f[q[i]] <= f[q[j]]
  PROVE  \A i, j \in DOMAIN Without(q, D) :
           i <= j => f[Without(q, D)[i]] <= f[Without(q, D)[j]]
<1> DEFINE r == Without(q, D)
           K == Kept(q, D)
           e == [i \in 1..Len(r) |-> Nth(K, i)]
<1>1. r \in Seq(S) /\ Len(r) \in Nat
  BY WithoutProperties
<1>2. e \in [1..Len(r) -> K]
  BY WithoutProperties
<1>3. \A i \in 1..Len(r) : r[i] = q[e[i]]
  BY WithoutProperties
<1>4. \A i, j \in 1..Len(r) : i < j => e[i] < e[j]
  BY WithoutProperties
<1>5. DOMAIN r = 1..Len(r) /\ DOMAIN q = 1..Len(q) /\ Len(q) \in Nat
  BY <1>1, LenProperties
<1>6. \A k \in K : k \in DOMAIN q /\ k \in Int /\ q[k] \notin D /\ q[k] \in S
  BY <1>5, ElementOfSeq DEF Kept
<1> HIDE DEF r, K, e
<1> SUFFICES ASSUME NEW i \in 1..Len(r), NEW j \in 1..Len(r), i <= j
             PROVE  f[r[i]] <= f[r[j]]
  BY <1>5 DEF r
<1>7. e[i] \in K /\ e[j] \in K /\ r[i] = q[e[i]] /\ r[j] = q[e[j]]
  BY <1>2, <1>3
<1>8. CASE i = j
  <2>1. f[q[e[i]]] \in Int
    BY <1>6, <1>7
  <2> QED BY <1>7, <1>8, <2>1
<1>9. CASE i < j
  <2>1. e[i] <= e[j]
    BY <1>4, <1>6, <1>7, <1>9
  <2> QED BY <1>6, <1>7, <2>1
<1> QED
  BY <1>1, <1>8, <1>9

\* Only the empty list has no members.
LEMMA EmptyRange ==
  ASSUME NEW S, NEW q \in Seq(S)
  PROVE  q = <<>> <=> Range(q) = {}
<1>1. Range(q) = {q[i] : i \in 1..Len(q)} /\ Len(q) \in Nat
  BY RangeEquality, LenProperties
<1>2. ASSUME q # <<>>
      PROVE  Range(q) # {}
  <2>1. Len(q) \in Nat \ {0}
    BY <1>2, EmptySeq
  <2>2. q[1] \in Range(q)
    BY <1>1, <2>1
  <2> QED
    BY <2>2
<1>3. Range(<<>>) = {}
  BY DEF Range
<1> QED
  BY <1>2, <1>3

-----------------------------------------------------------------------------
(* zlist_append, and the rotation of a list *)

\* Append adds one member, and no duplicate when the member is new.
LEMMA AppendRange ==
  ASSUME NEW S, NEW q \in Seq(S), NEW w \in S
  PROVE  /\ Append(q, w) \in Seq(S)
         /\ Range(Append(q, w)) = Range(q) \cup {w}
         /\ w \notin Range(q) /\ IsInjective(q) => IsInjective(Append(q, w))
<1> DEFINE r == Append(q, w)
<1>1. /\ r \in Seq(S) /\ Len(r) = Len(q) + 1 /\ Len(q) \in Nat
      /\ \A i \in 1..Len(q) : r[i] = q[i]
      /\ r[Len(q) + 1] = w
  BY AppendProperties, LenProperties
<1> HIDE DEF r
<1>2. /\ DOMAIN r = 1..(Len(q) + 1) /\ DOMAIN q = 1..Len(q)
      /\ Range(r) = {r[i] : i \in 1..(Len(q) + 1)}
      /\ Range(q) = {q[i] : i \in 1..Len(q)}
  BY <1>1, LenProperties, RangeEquality
<1>3. 1..(Len(q) + 1) = (1..Len(q)) \cup {Len(q) + 1}
  BY <1>1
<1>4. Range(r) = Range(q) \cup {w}
  BY <1>1, <1>2, <1>3
<1>5. ASSUME w \notin Range(q), IsInjective(q)
      PROVE  IsInjective(r)
  <2>1. \A i, j \in 1..(Len(q) + 1) : r[i] = r[j] => i = j
    BY <1>1, <1>2, <1>3, <1>5 DEF IsInjective
  <2> QED
    BY <1>2, <2>1 DEF IsInjective
<1> QED
  BY <1>1, <1>4, <1>5 DEF r

\* Where the items of a rotated list come from.
LEMMA RotatedItems ==
  ASSUME NEW S, NEW q \in Seq(S), q # <<>>, NEW n \in Nat
  PROVE  LET l == Len(q)
             k == n % l
         IN  /\ l \in Nat \ {0} /\ k \in 0..(l - 1)
             /\ Rotate(q, n) \in Seq(S) /\ Len(Rotate(q, n)) = l
             /\ \A i \in 1..l :
                  Rotate(q, n)[i] = IF i <= l - k THEN q[k + i] ELSE q[i - (l - k)]
<1> DEFINE l == Len(q)
           k == n % l
           r == Rotate(q, n)
<1>1. l \in Nat \ {0} /\ DOMAIN q = 1..l /\ \A i \in 1..l : q[i] \in S
  BY EmptySeq, LenProperties, ElementOfSeq
<1>2. k \in 0..(l - 1)
  BY <1>1
<1> HIDE DEF k, l
<1> DEFINE a == SubSeq(q, k + 1, l)
           b == SubSeq(q, 1, k)
<1>3. /\ a \in Seq(S) /\ Len(a) = l - k
      /\ \A i \in 1..(l - k) : a[i] = q[k + i]
  BY <1>1, <1>2, SubSeqProperties
<1>4. /\ b \in Seq(S) /\ Len(b) = k
      /\ \A i \in 1..k : b[i] = q[i]
  BY <1>1, <1>2, SubSeqProperties
<1>5. r = a \o b
  BY DEF Rotate, k, l
<1> HIDE DEF a, b, r
<1>6. /\ r \in Seq(S) /\ Len(r) = l
      /\ \A i \in 1..l : r[i] = IF i <= l - k THEN q[k + i] ELSE q[i - (l - k)]
  <2>1. /\ r \in Seq(S) /\ Len(r) = Len(a) + Len(b)
        /\ \A i \in 1..(Len(a) + Len(b)) :
              r[i] = IF i <= Len(a) THEN a[i] ELSE b[i - Len(a)]
    BY <1>3, <1>4, <1>5, ConcatProperties
  <2>2. Len(a) + Len(b) = l
    BY <1>1, <1>2, <1>3, <1>4
  <2>3. ASSUME NEW i \in 1..l, i <= l - k
        PROVE  r[i] = q[k + i]
    <3>1. i \in 1..(l - k) /\ i <= Len(a) /\ i \in 1..(Len(a) + Len(b))
      BY <1>1, <1>2, <1>3, <2>2, <2>3
    <3> QED BY <1>3, <2>1, <3>1
  <2>4. ASSUME NEW i \in 1..l, ~(i <= l - k)
        PROVE  r[i] = q[i - (l - k)]
    <3>1. i - (l - k) \in 1..k /\ ~(i <= Len(a)) /\ i \in 1..(Len(a) + Len(b))
      BY <1>1, <1>2, <1>3, <2>2, <2>4
    <3>2. r[i] = b[i - (l - k)]
      BY <1>3, <2>1, <3>1
    <3> QED BY <1>4, <3>1, <3>2
  <2> QED
    BY <2>1, <2>2, <2>3, <2>4
<1> QED
  BY <1>1, <1>2, <1>6 DEF r, l, k

\* A rotation of a list has the same length and members, and no new duplicates.
LEMMA RotateProperties ==
  ASSUME NEW S, NEW q \in Seq(S), q # <<>>, NEW n \in Nat
  PROVE  /\ Rotate(q, n) \in Seq(S)
         /\ Len(Rotate(q, n)) = Len(q)
         /\ Rotate(q, n) # <<>>
         /\ Range(Rotate(q, n)) = Range(q)
         /\ IsInjective(q) => IsInjective(Rotate(q, n))
<1> DEFINE l == Len(q)
           k == n % l
           r == Rotate(q, n)
<1>1. l \in Nat \ {0} /\ DOMAIN q = 1..l /\ \A i \in 1..l : q[i] \in S
  BY EmptySeq, LenProperties, ElementOfSeq
<1>2. k \in 0..(l - 1)
  BY RotatedItems
<1>3. /\ r \in Seq(S) /\ Len(r) = l
      /\ \A i \in 1..l : r[i] = IF i <= l - k THEN q[k + i] ELSE q[i - (l - k)]
  BY RotatedItems
<1> HIDE DEF k, l, r
<1>4. DOMAIN r = 1..l /\ Range(r) = {r[i] : i \in 1..l} /\ Range(q) = {q[i] : i \in 1..l}
  BY <1>3, LenProperties, RangeEquality DEF l
<1>5. Range(r) \subseteq Range(q)
  BY <1>1, <1>2, <1>3, <1>4
<1>6. Range(q) \subseteq Range(r)
  <2> SUFFICES ASSUME NEW i \in 1..l
               PROVE  \E j \in 1..l : r[j] = q[i]
    BY <1>4
  <2>1. CASE i > k
    <3>1. i - k \in 1..l /\ r[i - k] = q[i]
      BY <1>1, <1>2, <1>3, <2>1
    <3> QED BY <3>1
  <2>2. CASE i <= k
    <3>1. i + (l - k) \in 1..l /\ ~(i + (l - k) <= l - k)
      BY <1>1, <1>2, <2>2
    <3>2. (i + (l - k)) - (l - k) = i
      BY <1>1, <1>2
    <3>3. r[i + (l - k)] = q[i]
      BY <1>3, <3>1, <3>2
    <3> QED BY <3>1, <3>3
  <2> QED
    BY <1>1, <1>2, <2>1, <2>2
<1>7. ASSUME IsInjective(q)
       PROVE  IsInjective(r)
  <2>1. \A i, j \in 1..l : q[i] = q[j] => i = j
    BY <1>1, <1>7 DEF IsInjective
  <2> SUFFICES ASSUME NEW i \in 1..l, NEW j \in 1..l, r[i] = r[j]
               PROVE  i = j
    BY <1>4 DEF IsInjective
  <2> DEFINE at(x) == IF x <= l - k THEN k + x ELSE x - (l - k)
  <2>2. at(i) \in 1..l /\ at(j) \in 1..l /\ r[i] = q[at(i)] /\ r[j] = q[at(j)]
    BY <1>1, <1>2, <1>3
  <2>3. at(i) = at(j)
    <3> HIDE DEF at
    <3> QED BY <2>1, <2>2
  <2> QED
    BY <1>1, <1>2, <2>3
<1>8. r # <<>>
  BY <1>1, <1>3
<1> QED
  BY <1>3, <1>5, <1>6, <1>7, <1>8 DEF r, l

-----------------------------------------------------------------------------
(* The order of a list *)

\* Two items of q that are still in r have kept their order.
KeepsOrder(q, r) == \A v, w \in Range(r) : Before(q, v, w) => Before(r, v, w)

\* zlist_remove leaves the others in order.
LEMMA WithoutKeepsOrder ==
  ASSUME NEW S, NEW q \in Seq(S), NEW D
  PROVE  KeepsOrder(q, Without(q, D))
<1> DEFINE r == Without(q, D)
           K == Kept(q, D)
<1>1. DOMAIN q = 1..Len(q) /\ Len(q) \in Nat
  BY LenProperties
<1>2. K \in SUBSET (1..Len(q))
  BY <1>1 DEF Kept
<1>3. /\ r \in Seq(S) /\ Len(r) = Cardinality(K) /\ Range(r) = Range(q) \ D
      /\ \A i \in 1..Cardinality(K) : r[i] = q[Nth(K, i)]
  <2>1. r \in Seq(S) /\ Len(r) = Cardinality(K) /\ Range(r) = Range(q) \ D
    BY WithoutProperties
  <2> QED
    BY <2>1 DEF Without
<1>4. DOMAIN r = 1..Cardinality(K)
  BY <1>3, LenProperties
<1> SUFFICES ASSUME NEW v \in Range(r), NEW w \in Range(r), Before(q, v, w)
             PROVE  Before(r, v, w)
  BY DEF KeepsOrder
<1>5. PICK i \in DOMAIN q : \E j \in DOMAIN q : i < j /\ q[i] = v /\ q[j] = w
  BY DEF Before
<1>6. PICK j \in DOMAIN q : i < j /\ q[i] = v /\ q[j] = w
  BY <1>5
<1>7. i \in K /\ j \in K
  BY <1>3, <1>6 DEF Kept
<1> HIDE DEF K, r
<1>8. /\ Rank(K, i) \in 1..Cardinality(K) /\ Rank(K, j) \in 1..Cardinality(K)
      /\ Nth(K, Rank(K, i)) = i /\ Nth(K, Rank(K, j)) = j
  BY <1>1, <1>2, <1>7, RankBounds, NthOfRank
<1>9. Rank(K, i) < Rank(K, j)
  BY <1>1, <1>2, <1>6, <1>7, RankIncreases
<1>10. r[Rank(K, i)] = v /\ r[Rank(K, j)] = w
  BY <1>3, <1>6, <1>8
<1> QED
  BY <1>4, <1>8, <1>9, <1>10 DEF Before

\* So does zlist_append.
LEMMA AppendKeepsOrder ==
  ASSUME NEW S, NEW q \in Seq(S), NEW x \in S
  PROVE  KeepsOrder(q, Append(q, x))
<1>1. /\ DOMAIN q = 1..Len(q) /\ Len(q) \in Nat
      /\ DOMAIN Append(q, x) = 1..(Len(q) + 1)
      /\ \A i \in 1..Len(q) : Append(q, x)[i] = q[i]
  BY AppendProperties, LenProperties
<1>2. \A i \in DOMAIN q : i \in DOMAIN Append(q, x) /\ Append(q, x)[i] = q[i]
  BY <1>1
<1> QED
  BY <1>2 DEF KeepsOrder, Before

\* One after the other, they leave them in order too.
LEMMA OrderIsPassedOn ==
  ASSUME NEW q, NEW r, NEW t, Range(t) \subseteq Range(r), KeepsOrder(q, r), KeepsOrder(r, t)
  PROVE  KeepsOrder(q, t)
BY DEF KeepsOrder

\* Of two items of a list without duplicates one stands before the other.
LEMMA OneStandsFirst ==
  ASSUME NEW S, NEW q \in Seq(S), IsInjective(q),
         NEW v \in Range(q), NEW w \in Range(q), v # w
  PROVE  Before(q, v, w) <=> ~Before(q, w, v)
<1>1. DOMAIN q = 1..Len(q) /\ Len(q) \in Nat /\ \A i, j \in DOMAIN q : q[i] = q[j] => i = j
  BY LenProperties DEF IsInjective
<1>2. PICK i \in DOMAIN q : q[i] = v
  BY DEF Range
<1>3. PICK j \in DOMAIN q : q[j] = w
  BY DEF Range
<1>4. i \in Nat /\ j \in Nat /\ i # j
  BY <1>1, <1>2, <1>3
<1>5. Before(q, v, w) <=> i < j
  BY <1>1, <1>2, <1>3 DEF Before
<1>6. Before(q, w, v) <=> j < i
  BY <1>1, <1>2, <1>3 DEF Before
<1> QED
  BY <1>4, <1>5, <1>6

\* A list that keeps the order of another has no order of its own.
LEMMA OrderIsOld ==
  ASSUME NEW S, NEW q \in Seq(S), IsInjective(q), NEW r \in Seq(S), IsInjective(r),
         KeepsOrder(q, r), NEW v \in Range(q) \cap Range(r), NEW w \in Range(q) \cap Range(r),
         v # w, Before(r, v, w)
  PROVE  Before(q, v, w)
<1>1. ~Before(r, w, v)
  BY OneStandsFirst
<1>2. ~Before(q, w, v)
  BY <1>1 DEF KeepsOrder
<1> QED
  BY <1>2, OneStandsFirst

\* n rounds of zlist_pop and zlist_append: an item that was not popped stood behind
\* all that were, stands before them now, and has kept its order with the others.
LEMMA RotateOrder ==
  ASSUME NEW S, NEW q \in Seq(S), q # <<>>, NEW n \in Nat,
         NEW v \in Range(q), NEW w \in Range(q),
         v \notin {Popped(q, i) : i \in 1..n}
  PROVE  IF w \in {Popped(q, i) : i \in 1..n}
         THEN Before(q, w, v) /\ Before(Rotate(q, n), v, w)
         ELSE Before(q, v, w) => Before(Rotate(q, n), v, w)
<1> DEFINE l == Len(q)
           r == Rotate(q, n)
<1>1. l \in Nat \ {0} /\ DOMAIN q = 1..l
  BY EmptySeq, LenProperties
<1>2. \A i \in 1..l : Popped(q, i) = q[i]
  <2> TAKE i \in 1..l
  <2>1. (i - 1) % l = i - 1
    BY <1>1
  <2>2. ((i - 1) % l) + 1 = i
    BY <1>1, <2>1
  <2> QED
    BY <2>2 DEF Popped
<1>3. n < l
  <2>1. PICK j \in 1..l : q[j] = v
    BY <1>1 DEF Range
  <2>2. Popped(q, j) = v
    BY <1>2, <2>1
  <2>3. j \notin 1..n
    BY <2>2
  <2> QED
    BY <1>1, <2>3
<1>4. n % l = n
  BY <1>1, <1>3
<1>5. /\ DOMAIN r = 1..l
      /\ \A i \in 1..l : r[i] = IF i <= l - n THEN q[n + i] ELSE q[i - (l - n)]
  <2>1. /\ r \in Seq(S) /\ Len(r) = l
        /\ \A i \in 1..l : r[i] = IF i <= l - (n % l) THEN q[(n % l) + i] ELSE q[i - (l - (n % l))]
    BY RotatedItems
  <2> QED
    BY <1>4, <2>1, LenProperties
<1> HIDE DEF r, l
<1>6. ASSUME NEW i \in 1..l, i <= n
      PROVE  i + (l - n) \in 1..l /\ r[i + (l - n)] = q[i]
  <2>1. /\ i + (l - n) \in 1..l /\ ~(i + (l - n) <= l - n)
        /\ (i + (l - n)) - (l - n) = i
    BY <1>1, <1>3, <1>6
  <2>2. r[i + (l - n)] = q[(i + (l - n)) - (l - n)]
    BY <1>5, <2>1
  <2> QED
    BY <2>1, <2>2
<1>7. ASSUME NEW j \in 1..l, n < j
      PROVE  j - n \in 1..l /\ r[j - n] = q[j]
  <2>1. j - n \in 1..l /\ j - n <= l - n /\ n + (j - n) = j
    BY <1>1, <1>3, <1>7
  <2>2. r[j - n] = q[n + (j - n)]
    BY <1>5, <2>1
  <2> QED
    BY <2>1, <2>2
<1>8. \A j \in 1..l : q[j] = v => n < j
  <2> SUFFICES ASSUME NEW j \in 1..l, q[j] = v, ~(n < j)
               PROVE  FALSE
    OBVIOUS
  <2>1. j \in 1..n
    BY <1>1, <1>3
  <2>2. Popped(q, j) = v
    BY <1>2
  <2> QED
    BY <2>1, <2>2
<1>9. CASE w \in {Popped(q, i) : i \in 1..n}
  <2>1. PICK i \in 1..n : Popped(q, i) = w
    BY <1>9
  <2>2. i \in 1..l /\ i <= n
    BY <1>1, <1>3
  <2>3. q[i] = w
    BY <1>2, <2>1, <2>2
  <2>4. PICK j \in 1..l : q[j] = v
    BY <1>1 DEF Range
  <2>5. n < j
    BY <1>8, <2>4
  <2>6. i < j
    BY <1>1, <1>3, <2>2, <2>5
  <2>7. Before(q, w, v)
    BY <1>1, <2>2, <2>3, <2>4, <2>6 DEF Before
  <2>8. i + (l - n) \in 1..l /\ r[i + (l - n)] = w
    BY <1>6, <2>2, <2>3
  <2>9. j - n \in 1..l /\ r[j - n] = v
    BY <1>7, <2>4, <2>5
  <2>10. j - n < i + (l - n)
    BY <1>1, <1>3, <2>2, <2>5
  <2>11. Before(r, v, w)
    BY <1>5, <2>8, <2>9, <2>10 DEF Before
  <2> QED
    BY <1>9, <2>7, <2>11 DEF r
<1>10. CASE w \notin {Popped(q, i) : i \in 1..n}
  <2> SUFFICES ASSUME Before(q, v, w)
               PROVE  Before(r, v, w)
    BY <1>10 DEF r
  <2>1. PICK i \in 1..l : \E j \in 1..l : i < j /\ q[i] = v /\ q[j] = w
    BY <1>1 DEF Before
  <2>2. PICK j \in 1..l : i < j /\ q[i] = v /\ q[j] = w
    BY <2>1
  <2>3. n < i
    BY <1>8, <2>2
  <2>4. n < j
    BY <1>1, <1>3, <2>2, <2>3
  <2>5. /\ i - n \in 1..l /\ r[i - n] = v
        /\ j - n \in 1..l /\ r[j - n] = w
    BY <1>7, <2>2, <2>3, <2>4
  <2>6. i - n < j - n
    BY <1>1, <1>3, <2>2
  <2> QED
    BY <1>5, <2>5, <2>6 DEF Before
<1> QED
  BY <1>9, <1>10

\* The workers that s_service_dispatch pops are members of the list it rotates.
LEMMA PoppedInRange ==
  ASSUME NEW S, NEW q \in Seq(S), q # <<>>, NEW i \in Nat \ {0}
  PROVE  Popped(q, i) \in Range(q)
<1>1. Len(q) \in Nat \ {0} /\ DOMAIN q = 1..Len(q)
  BY EmptySeq, LenProperties
<1>2. (i - 1) % Len(q) \in 0..(Len(q) - 1)
  BY <1>1
<1>3. ((i - 1) % Len(q)) + 1 \in DOMAIN q
  BY <1>1, <1>2
<1> QED
  BY <1>3 DEF Popped, Range

-----------------------------------------------------------------------------
(* The inductive invariant *)

ServiceKnown(b) == ~ForeignPeers => Attached(b) = b.known

Base(b) ==
  /\ b \in BrokerType
  /\ Consistent(b)
  /\ Sorted(b)
  /\ ServiceKnown(b)

Good(b) == Base(b) /\ Stranded(b) = {}

IInv ==
  /\ Good(broker)
  /\ TypeOK
  /\ SendsMatchRegistry

-----------------------------------------------------------------------------
(* s_worker_delete *)

\* A worker that was just heard of has some time to live.
LEMMA NumbersFacts == EXPIRY \in Nat /\ EXPIRY > 0
<1>1. INTERVAL \in Nat /\ LIVENESS \in Nat /\ INTERVAL > 0 /\ LIVENESS > 0
  BY NumbersAssumption
<1>2. \A i, j \in Nat : i > 0 /\ j > 0 => i * j \in Nat /\ i * j > 0
  OBVIOUS
<1> QED
  BY <1>1, <1>2 DEF EXPIRY

\* New values for the fields that s_worker_delete and the other operations write.
LEMMA UpdateType ==
  ASSUME NEW b \in BrokerType,
         NEW known \in SUBSET Workers,
         NEW service \in [Workers -> Names \cup {NoService}],
         NEW expiry \in [Workers -> 0..EXPIRY],
         NEW waiting \in Seq(Workers),
         NEW queue \in [Names -> Seq(Workers)],
         NEW count \in [Names -> Nat]
  PROVE  [b EXCEPT !.known = known, !.service = service, !.expiry = expiry,
                   !.waiting = waiting, !.queue = queue, !.count = count] \in BrokerType
<1>1. /\ [b EXCEPT !.known = known] \in BrokerType
  BY DEF BrokerType
<1>2. ASSUME NEW c \in BrokerType PROVE [c EXCEPT !.service = service] \in BrokerType
  BY DEF BrokerType
<1>3. ASSUME NEW c \in BrokerType PROVE [c EXCEPT !.expiry = expiry] \in BrokerType
  BY DEF BrokerType
<1>4. ASSUME NEW c \in BrokerType PROVE [c EXCEPT !.waiting = waiting] \in BrokerType
  BY DEF BrokerType
<1>5. ASSUME NEW c \in BrokerType PROVE [c EXCEPT !.queue = queue] \in BrokerType
  BY DEF BrokerType
<1>6. ASSUME NEW c \in BrokerType PROVE [c EXCEPT !.count = count] \in BrokerType
  BY DEF BrokerType
<1> QED
  BY <1>1, <1>2, <1>3, <1>4, <1>5, <1>6

\* The types of the tables of a well-formed broker, field by field.
LEMMA BaseFacts ==
  ASSUME NEW b, Base(b)
  PROVE  /\ b \in BrokerType
         /\ b.known \in SUBSET Workers
         /\ b.service \in [Workers -> Names \cup {NoService}]
         /\ b.expiry \in [Workers -> 0..EXPIRY]
         /\ b.waiting \in Seq(Workers)
         /\ b.queue \in [Names -> Seq(Workers)]
         /\ b.count \in [Names -> Nat]
         /\ b.requests \in [Names -> Seq(Request)]
         /\ b.blacklist \in [Names -> SUBSET Commands]
         /\ ListsMatchRegistry(b) /\ NoDuplicates(b)
         /\ CountsMatchQueues(b) /\ StrangersAreBlank(b)
         /\ Sorted(b) /\ ServiceKnown(b)
  BY DEF Base, BrokerType, Consistent

\* s_worker_delete on well-formed tables, field by field.
LEMMA DeleteFields ==
  ASSUME NEW b, Base(b), NEW D \in SUBSET b.known
  PROVE  /\ DeleteWorkers(b, D) \in BrokerType
         /\ DeleteWorkers(b, D).known = b.known \ D
         /\ \A w \in Workers : DeleteWorkers(b, D).service[w] =
              IF w \in D THEN NoService ELSE b.service[w]
         /\ \A w \in Workers : DeleteWorkers(b, D).expiry[w] =
              IF w \in D THEN 0 ELSE b.expiry[w]
         /\ DeleteWorkers(b, D).waiting = Without(b.waiting, D)
         /\ \A s \in Names : DeleteWorkers(b, D).queue[s] =
              Without(b.queue[s], Serving(b, D, s))
         /\ DeleteWorkers(b, D).requests = b.requests
         /\ CountsMatchQueues(DeleteWorkers(b, D))
<1> DEFINE service == [w \in Workers |-> IF w \in D THEN NoService ELSE b.service[w]]
           expiry  == [w \in Workers |-> IF w \in D THEN 0 ELSE b.expiry[w]]
           queue   == [s \in Names |-> Without(b.queue[s], Serving(b, D, s))]
           count   == [s \in Names |-> b.count[s] - Cardinality(Serving(b, D, s))]
           d       == DeleteWorkers(b, D)
<1>1. /\ b \in BrokerType
      /\ b.known \in SUBSET Workers
      /\ b.service \in [Workers -> Names \cup {NoService}]
      /\ b.expiry \in [Workers -> 0..EXPIRY]
      /\ b.queue \in [Names -> Seq(Workers)]
      /\ b.waiting \in Seq(Workers)
      /\ b.count \in [Names -> Nat]
      /\ ListsMatchRegistry(b) /\ NoDuplicates(b) /\ CountsMatchQueues(b)
  BY BaseFacts
<1>2. ASSUME NEW s \in Names
      PROVE  /\ Without(b.queue[s], Serving(b, D, s)) \in Seq(Workers)
             /\ b.count[s] - Cardinality(Serving(b, D, s))
                  = Len(Without(b.queue[s], Serving(b, D, s)))
             /\ Len(Without(b.queue[s], Serving(b, D, s))) \in Nat
  <2>1. b.queue[s] \in Seq(Workers) /\ IsInjective(b.queue[s])
    BY <1>1 DEF NoDuplicates
  <2>2. Serving(b, D, s) \subseteq Range(b.queue[s])
    <3>1. NoService # s
      BY NamesAssumption
    <3>2. Serving(b, D, s) \subseteq {w \in Attached(b) : b.service[w] = s}
      BY <3>1 DEF Attached, Serving
    <3> QED
      BY <1>1, <3>2 DEF ListsMatchRegistry
  <2>3. b.count[s] = Len(b.queue[s])
    BY <1>1 DEF CountsMatchQueues
  <2>4. Without(b.queue[s], Serving(b, D, s)) \in Seq(Workers)
        /\ Len(Without(b.queue[s], Serving(b, D, s))) \in Nat
    BY <2>1, WithoutProperties
  <2>5. Len(Without(b.queue[s], Serving(b, D, s)))
          = Len(b.queue[s]) - Cardinality(Serving(b, D, s))
    BY <2>1, <2>2, WithoutLength
  <2> QED
    BY <2>3, <2>4, <2>5
<1>3. /\ b.known \ D \in SUBSET Workers
      /\ service \in [Workers -> Names \cup {NoService}]
      /\ expiry \in [Workers -> 0..EXPIRY]
  BY <1>1, NumbersFacts
<1>4. Without(b.waiting, D) \in Seq(Workers)
  BY <1>1, WithoutProperties
<1>5. queue \in [Names -> Seq(Workers)] /\ count \in [Names -> Nat]
  BY <1>2
<1>6. d = [b EXCEPT !.known = b.known \ D, !.service = service, !.expiry = expiry,
                    !.waiting = Without(b.waiting, D), !.queue = queue, !.count = count]
  BY DEF DeleteWorkers
<1>7. /\ \A w \in Workers : service[w] = IF w \in D THEN NoService ELSE b.service[w]
      /\ \A w \in Workers : expiry[w] = IF w \in D THEN 0 ELSE b.expiry[w]
      /\ \A s \in Names : queue[s] = Without(b.queue[s], Serving(b, D, s))
      /\ \A s \in Names : count[s] = Len(queue[s])
  BY <1>2
<1> HIDE DEF service, expiry, queue, count, d
<1>8. d \in BrokerType
  BY <1>1, <1>3, <1>4, <1>5, <1>6, UpdateType
<1>9. /\ d.known = b.known \ D /\ d.service = service /\ d.expiry = expiry
      /\ d.waiting = Without(b.waiting, D) /\ d.queue = queue /\ d.count = count
      /\ d.requests = b.requests
  BY <1>1, <1>6 DEF BrokerType
<1>10. CountsMatchQueues(d)
  BY <1>7, <1>9 DEF CountsMatchQueues
<1> QED
  BY <1>7, <1>8, <1>9, <1>10 DEF d

\* s_worker_delete of a set of workers leaves the tables well formed: every list
\* loses them, and no request becomes stranded that was not.
LEMMA DeleteBase ==
  ASSUME NEW b, Base(b), NEW D \in SUBSET b.known
  PROVE  /\ Base(DeleteWorkers(b, D))
         /\ Range(DeleteWorkers(b, D).waiting) = Range(b.waiting) \ D
         /\ \A s \in Names : Range(DeleteWorkers(b, D).queue[s]) = Range(b.queue[s]) \ D
         /\ Stranded(DeleteWorkers(b, D)) \subseteq Stranded(b)
<1> DEFINE d == DeleteWorkers(b, D)
<1>1. /\ b.known \in SUBSET Workers
      /\ b.service \in [Workers -> Names \cup {NoService}]
      /\ b.expiry \in [Workers -> 0..EXPIRY]
      /\ b.queue \in [Names -> Seq(Workers)]
      /\ b.waiting \in Seq(Workers)
      /\ ListsMatchRegistry(b) /\ NoDuplicates(b) /\ StrangersAreBlank(b)
      /\ Sorted(b) /\ ServiceKnown(b)
  BY BaseFacts
<1>2. /\ d \in BrokerType
      /\ d.known = b.known \ D
      /\ \A w \in Workers : d.service[w] = IF w \in D THEN NoService ELSE b.service[w]
      /\ \A w \in Workers : d.expiry[w] = IF w \in D THEN 0 ELSE b.expiry[w]
      /\ d.waiting = Without(b.waiting, D)
      /\ \A s \in Names : d.queue[s] = Without(b.queue[s], Serving(b, D, s))
      /\ d.requests = b.requests
      /\ CountsMatchQueues(d)
  BY DeleteFields
<1> HIDE DEF d
<1>3. Attached(d) = Attached(b) \ D
  BY <1>1, <1>2 DEF Attached
<1>4. Range(d.waiting) = Range(b.waiting) \ D
  BY <1>1, <1>2, WithoutProperties
<1>5. ASSUME NEW s \in Names
      PROVE  /\ Range(d.queue[s]) = Range(b.queue[s]) \ D
             /\ Range(d.queue[s]) = {w \in Attached(d) : d.service[w] = s}
  <2>1. Range(d.queue[s]) = Range(b.queue[s]) \ Serving(b, D, s)
    BY <1>1, <1>2, WithoutProperties
  <2>2. Range(b.queue[s]) = {w \in Attached(b) : b.service[w] = s}
    BY <1>1 DEF ListsMatchRegistry
  <2>3. Range(d.queue[s]) = Range(b.queue[s]) \ D
    BY <2>1, <2>2 DEF Serving
  <2>4. \A w \in Attached(d) : d.service[w] = b.service[w]
    BY <1>1, <1>2, <1>3 DEF Attached
  <2> QED
    BY <1>3, <2>2, <2>3, <2>4
<1>6. ListsMatchRegistry(d)
  BY <1>1, <1>2, <1>3, <1>4, <1>5 DEF ListsMatchRegistry
<1>7. NoDuplicates(d)
  BY <1>1, <1>2, WithoutInjective DEF NoDuplicates
<1>8. StrangersAreBlank(d)
  BY <1>1, <1>2 DEF StrangersAreBlank
<1>9. Sorted(d)
  <2>1. \A v \in Workers \ D : d.expiry[v] = b.expiry[v] /\ d.expiry[v] \in Int
    BY <1>1, <1>2, NumbersFacts
  <2>2. \A i \in DOMAIN b.waiting : b.waiting[i] \in Workers
    BY <1>1, LenProperties, ElementOfSeq
  <2>3. \A i, j \in DOMAIN b.waiting :
          b.waiting[i] \notin D /\ b.waiting[j] \notin D /\ i <= j
            => d.expiry[b.waiting[i]] <= d.expiry[b.waiting[j]]
    BY <1>1, <2>1, <2>2 DEF Sorted
  <2> DEFINE r == Without(b.waiting, D)
             f == d.expiry
  <2>4. \A x \in Workers \ D : f[x] \in Int
    BY <2>1
  <2>5. \A i, j \in DOMAIN b.waiting :
          b.waiting[i] \notin D /\ b.waiting[j] \notin D /\ i <= j
            => f[b.waiting[i]] <= f[b.waiting[j]]
    BY <2>3
  <2> HIDE DEF f
  <2>6. \A i, j \in DOMAIN r : i <= j => f[r[i]] <= f[r[j]]
    BY <1>1, <2>4, <2>5, WithoutSorted
  <2>7. r = d.waiting
    BY <1>2
  <2> HIDE DEF r
  <2> QED
    BY <2>6, <2>7 DEF Sorted, f
<1>10. ServiceKnown(d)
  BY <1>1, <1>2, <1>3 DEF ServiceKnown
<1>11. Base(d)
  BY <1>2, <1>6, <1>7, <1>8, <1>9, <1>10 DEF Base, Consistent
<1>12. Stranded(d) \subseteq Stranded(b)
  <2> SUFFICES ASSUME NEW s \in Names, d.requests[s] # <<>>, d.queue[s] # <<>>
               PROVE  b.queue[s] # <<>>
    BY <1>2 DEF Stranded
  <2>1. d.queue[s] \in Seq(Workers) /\ b.queue[s] \in Seq(Workers)
    BY <1>1, <1>2, WithoutProperties
  <2>2. Range(d.queue[s]) # {}
    BY <2>1, EmptyRange
  <2>3. Range(b.queue[s]) # {}
    BY <1>5, <2>2
  <2> QED
    BY <2>1, <2>3, EmptyRange
<1> QED
  BY <1>4, <1>5, <1>11, <1>12 DEF d

-----------------------------------------------------------------------------
(* s_broker_purge *)

\* Because waiting is sorted, deleting its expired head deletes every expired
\* worker in it: those that are left are alive.
LEMMA PurgeBase ==
  ASSUME NEW b, Base(b)
  PROVE  /\ Base(Purge(b))
         /\ Stranded(Purge(b)) \subseteq Stranded(b)
         /\ Purge(b).requests = b.requests
         /\ Purge(b).known \subseteq b.known
         /\ \A w \in b.known : b.expiry[w] > 0 => w \in Purge(b).known
         /\ \A w \in Purge(b).known : /\ Purge(b).expiry[w] = b.expiry[w]
                                      /\ Purge(b).service[w] = b.service[w]
         /\ \A w \in Range(Purge(b).waiting) : Purge(b).expiry[w] > 0
<1> DEFINE D == ExpiredHead(b)
           d == DeleteWorkers(b, D)
<1>1. /\ b.known \in SUBSET Workers
      /\ b.expiry \in [Workers -> 0..EXPIRY]
      /\ b.waiting \in Seq(Workers)
      /\ ListsMatchRegistry(b) /\ Sorted(b)
  BY BaseFacts
<1>2. DOMAIN b.waiting = 1..Len(b.waiting) /\ Len(b.waiting) \in Nat
      /\ Range(b.waiting) = {b.waiting[i] : i \in 1..Len(b.waiting)}
  BY <1>1, LenProperties, RangeEquality
<1>3. D \subseteq b.known /\ \A w \in D : b.expiry[w] = 0
  <2> SUFFICES ASSUME NEW j \in 1..Len(b.waiting),
                      \A k \in 1..j : b.expiry[b.waiting[k]] = 0
               PROVE  b.waiting[j] \in b.known /\ b.expiry[b.waiting[j]] = 0
    BY <1>2 DEF ExpiredHead
  <2>1. j \in 1..j
    BY <1>2
  <2> QED
    BY <1>1, <1>2, <2>1 DEF ListsMatchRegistry
<1>4. \A w \in Range(b.waiting) : w \notin D => b.expiry[w] > 0
  <2> SUFFICES ASSUME NEW j \in 1..Len(b.waiting), b.waiting[j] \notin D
               PROVE  b.expiry[b.waiting[j]] > 0
    BY <1>2
  <2>1. PICK k \in 1..j : b.expiry[b.waiting[k]] # 0
    BY <1>2 DEF ExpiredHead
  <2>2. k \in 1..Len(b.waiting) /\ k <= j
    BY <1>2
  <2>3. b.waiting[k] \in Workers /\ b.waiting[j] \in Workers
    BY <1>1, <2>2, ElementOfSeq
  <2>4. b.expiry[b.waiting[k]] \in 0..EXPIRY /\ b.expiry[b.waiting[j]] \in 0..EXPIRY
    BY <1>1, <2>3
  <2>5. b.expiry[b.waiting[k]] <= b.expiry[b.waiting[j]]
    BY <1>1, <1>2, <2>2 DEF Sorted
  <2> QED
    BY <2>1, <2>4, <2>5, NumbersFacts
<1> HIDE DEF D
<1>5. /\ Base(d)
      /\ Range(d.waiting) = Range(b.waiting) \ D
      /\ Stranded(d) \subseteq Stranded(b)
  BY <1>3, DeleteBase
<1>6. /\ d.known = b.known \ D
      /\ \A w \in Workers : d.service[w] = IF w \in D THEN NoService ELSE b.service[w]
      /\ \A w \in Workers : d.expiry[w] = IF w \in D THEN 0 ELSE b.expiry[w]
      /\ d.requests = b.requests
  BY <1>3, DeleteFields
<1> HIDE DEF d
<1>7. /\ \A w \in d.known : d.expiry[w] = b.expiry[w] /\ d.service[w] = b.service[w]
      /\ \A w \in b.known : b.expiry[w] > 0 => w \in d.known
  BY <1>1, <1>3, <1>6
<1>8. \A w \in Range(d.waiting) : d.expiry[w] > 0
  <2> SUFFICES ASSUME NEW w \in Range(b.waiting), w \notin D
               PROVE  d.expiry[w] > 0
    BY <1>5
  <2>1. w \in Workers
    BY <1>1 DEF ListsMatchRegistry
  <2> QED
    BY <1>4, <1>6, <2>1
<1>9. Purge(b) = d
  BY DEF Purge, D, d
<1> QED
  BY <1>5, <1>6, <1>7, <1>8, <1>9

-----------------------------------------------------------------------------
(* READY and HEARTBEAT *)

\* A worker that was just heard of goes to the end of waiting, where no other
\* worker has longer to live.
LEMMA AppendSorted ==
  ASSUME NEW expiry \in [Workers -> 0..EXPIRY], NEW q \in Seq(Workers), NEW w \in Workers,
         expiry[w] = EXPIRY,
         \A i, j \in DOMAIN q : i <= j => expiry[q[i]] <= expiry[q[j]]
  PROVE  \A i, j \in DOMAIN Append(q, w) :
           i <= j => expiry[Append(q, w)[i]] <= expiry[Append(q, w)[j]]
<1> DEFINE r == Append(q, w)
<1>1. /\ r \in Seq(Workers) /\ Len(r) = Len(q) + 1 /\ Len(q) \in Nat
      /\ \A i \in 1..Len(q) : r[i] = q[i]
      /\ r[Len(q) + 1] = w
  BY AppendProperties, LenProperties
<1> HIDE DEF r
<1>2. DOMAIN r = 1..(Len(q) + 1) /\ DOMAIN q = 1..Len(q)
  BY <1>1, LenProperties
<1>3. \A i \in DOMAIN r : expiry[r[i]] \in 0..EXPIRY
  BY <1>1, <1>2, ElementOfSeq
<1> SUFFICES ASSUME NEW i \in DOMAIN r, NEW j \in DOMAIN r, i <= j
             PROVE  expiry[r[i]] <= expiry[r[j]]
  BY DEF r
<1>4. CASE j = Len(q) + 1
  BY <1>1, <1>3, <1>4, NumbersFacts
<1>5. CASE j \in 1..Len(q)
  <2>1. i \in 1..Len(q)
    BY <1>1, <1>2, <1>5
  <2> QED BY <1>1, <1>2, <1>5, <2>1
<1> QED
  BY <1>1, <1>2, <1>4, <1>5

\* A READY worker joins its service and broker->waiting; only the requests of
\* that service can now wait for a dispatch.
LEMMA AttachBase ==
  ASSUME NEW b, Base(b), NEW w \in Workers \ b.known, NEW s \in Names
  PROVE  /\ Base(Attach(b, w, s))
         /\ Stranded(Attach(b, w, s)) \subseteq Stranded(b) \cup {s}
<1> DEFINE a == Attach(b, w, s)
<1>1. /\ b \in BrokerType
      /\ b.known \in SUBSET Workers
      /\ b.service \in [Workers -> Names \cup {NoService}]
      /\ b.expiry \in [Workers -> 0..EXPIRY]
      /\ b.queue \in [Names -> Seq(Workers)]
      /\ b.waiting \in Seq(Workers)
      /\ b.count \in [Names -> Nat]
      /\ ListsMatchRegistry(b) /\ NoDuplicates(b) /\ CountsMatchQueues(b)
      /\ StrangersAreBlank(b) /\ Sorted(b) /\ ServiceKnown(b)
  BY BaseFacts
<1>2. s # NoService
  BY NamesAssumption
<1> DEFINE service == [b.service EXCEPT ![w] = s]
           expiry  == [b.expiry EXCEPT ![w] = EXPIRY]
           waiting == Append(b.waiting, w)
           queue   == [b.queue EXCEPT ![s] = Append(@, w)]
           count   == [b.count EXCEPT ![s] = @ + 1]
<1>3. /\ b.known \cup {w} \in SUBSET Workers
      /\ service \in [Workers -> Names \cup {NoService}]
      /\ expiry \in [Workers -> 0..EXPIRY]
      /\ count \in [Names -> Nat]
  BY <1>1, NumbersFacts
<1>4. /\ waiting \in Seq(Workers)
      /\ Range(waiting) = Range(b.waiting) \cup {w}
      /\ IsInjective(waiting)
  <2>1. w \notin Range(b.waiting) /\ IsInjective(b.waiting)
    BY <1>1 DEF ListsMatchRegistry, NoDuplicates
  <2> QED
    BY <1>1, <2>1, AppendRange
<1>5. /\ Append(b.queue[s], w) \in Seq(Workers)
      /\ Range(Append(b.queue[s], w)) = Range(b.queue[s]) \cup {w}
      /\ IsInjective(Append(b.queue[s], w))
      /\ Len(Append(b.queue[s], w)) = Len(b.queue[s]) + 1
  <2>1. w \notin Range(b.queue[s]) /\ IsInjective(b.queue[s])
    BY <1>1 DEF ListsMatchRegistry, NoDuplicates, Attached
  <2>2. b.queue[s] \in Seq(Workers)
    BY <1>1
  <2> QED
    BY <2>1, <2>2, AppendRange, AppendProperties
<1>6. queue \in [Names -> Seq(Workers)]
  BY <1>1, <1>5
<1>7. a = [b EXCEPT !.known = b.known \cup {w}, !.service = service, !.expiry = expiry,
                    !.waiting = waiting, !.queue = queue, !.count = count]
  BY <1>1 DEF Attach, BrokerType
<1>8. /\ \A v \in Workers : service[v] = IF v = w THEN s ELSE b.service[v]
      /\ \A v \in Workers : expiry[v] = IF v = w THEN EXPIRY ELSE b.expiry[v]
      /\ \A n \in Names : queue[n] = IF n = s THEN Append(b.queue[s], w) ELSE b.queue[n]
      /\ \A n \in Names : count[n] = IF n = s THEN b.count[s] + 1 ELSE b.count[n]
  BY <1>1
<1>9. \A i, j \in DOMAIN waiting : i <= j => expiry[waiting[i]] <= expiry[waiting[j]]
  <2>1. \A i \in DOMAIN b.waiting : b.waiting[i] # w /\ b.waiting[i] \in Workers
    BY <1>1 DEF ListsMatchRegistry, Range
  <2>2. \A i, j \in DOMAIN b.waiting :
          i <= j => expiry[b.waiting[i]] <= expiry[b.waiting[j]]
    BY <1>1, <1>8, <2>1 DEF Sorted
  <2>3. expiry[w] = EXPIRY
    BY <1>8
  <2> HIDE DEF expiry
  <2> QED
    BY <1>1, <1>3, <2>2, <2>3, AppendSorted
<1> HIDE DEF service, expiry, queue, count, waiting, a
<1>10. a \in BrokerType
  BY <1>1, <1>3, <1>4, <1>6, <1>7, UpdateType
<1>11. /\ a.known = b.known \cup {w} /\ a.service = service /\ a.expiry = expiry
       /\ a.waiting = waiting /\ a.queue = queue /\ a.count = count
       /\ a.requests = b.requests
  BY <1>1, <1>7 DEF BrokerType
<1>12. Attached(a) = Attached(b) \cup {w}
  BY <1>1, <1>2, <1>8, <1>11 DEF Attached
<1>13. ListsMatchRegistry(a)
  <2>1. Attached(a) \subseteq Range(a.waiting) /\ Range(a.waiting) \subseteq a.known
    BY <1>1, <1>4, <1>11, <1>12 DEF ListsMatchRegistry
  <2>2. ASSUME NEW n \in Names
        PROVE  Range(a.queue[n]) = {v \in Attached(a) : a.service[v] = n}
    <3>1. Range(b.queue[n]) = {v \in Attached(b) : b.service[v] = n}
      BY <1>1 DEF ListsMatchRegistry
    <3>2. Attached(b) \subseteq Workers /\ w \notin Attached(b)
      BY <1>1 DEF Attached
    <3>3. \A v \in Attached(b) : a.service[v] = b.service[v]
      BY <1>8, <1>11, <3>2
    <3>4. a.service[w] = s
      BY <1>8, <1>11
    <3>5. CASE n = s
      BY <1>5, <1>8, <1>11, <1>12, <3>1, <3>3, <3>4, <3>5
    <3>6. CASE n # s
      BY <1>8, <1>11, <1>12, <3>1, <3>3, <3>4, <3>6
    <3> QED
      BY <3>5, <3>6
  <2> QED
    BY <2>1, <2>2 DEF ListsMatchRegistry
<1>14. NoDuplicates(a) /\ CountsMatchQueues(a)
  BY <1>1, <1>4, <1>5, <1>8, <1>11 DEF NoDuplicates, CountsMatchQueues
<1>15. StrangersAreBlank(a)
  BY <1>1, <1>8, <1>11 DEF StrangersAreBlank
<1>16. Sorted(a)
  BY <1>9, <1>11 DEF Sorted
<1>17. ServiceKnown(a)
  BY <1>1, <1>11, <1>12 DEF ServiceKnown
<1>18. Stranded(a) \subseteq Stranded(b) \cup {s}
  BY <1>8, <1>11 DEF Stranded
<1> QED
  BY <1>10, <1>13, <1>14, <1>15, <1>16, <1>17, <1>18 DEF Base, Consistent, a

\* A heartbeat moves the worker to the end of broker->waiting and keeps the
\* tables well formed, also when it is the only one there and is not moved.
LEMMA RefreshBase ==
  ASSUME NEW b, Base(b), NEW w \in b.known
  PROVE  /\ Base(Refresh(b, w))
         /\ Stranded(Refresh(b, w)) = Stranded(b)
<1> DEFINE a == Refresh(b, w)
           expiry  == [b.expiry EXCEPT ![w] = EXPIRY]
           waiting == IF Len(b.waiting) > 1 THEN Append(Without(b.waiting, {w}), w)
                      ELSE b.waiting
<1>1. /\ b \in BrokerType
      /\ b.known \in SUBSET Workers
      /\ b.service \in [Workers -> Names \cup {NoService}]
      /\ b.expiry \in [Workers -> 0..EXPIRY]
      /\ b.queue \in [Names -> Seq(Workers)]
      /\ b.waiting \in Seq(Workers)
      /\ b.count \in [Names -> Nat]
      /\ ListsMatchRegistry(b) /\ NoDuplicates(b) /\ CountsMatchQueues(b)
      /\ StrangersAreBlank(b) /\ Sorted(b) /\ ServiceKnown(b)
  BY BaseFacts
<1>2. w \in Workers
  BY <1>1
<1>3. expiry \in [Workers -> 0..EXPIRY]
      /\ \A v \in Workers : expiry[v] = IF v = w THEN EXPIRY ELSE b.expiry[v]
  BY <1>1, NumbersFacts
<1>4. a = [b EXCEPT !.known = b.known, !.service = b.service, !.expiry = expiry,
                    !.waiting = waiting, !.queue = b.queue, !.count = b.count]
  BY <1>1 DEF Refresh, BrokerType
<1> HIDE DEF expiry
<1>5. /\ waiting \in Seq(Workers) /\ IsInjective(waiting)
      /\ Range(b.waiting) \subseteq Range(waiting)
      /\ Range(waiting) \subseteq Range(b.waiting) \cup {w}
      /\ \A i, j \in DOMAIN waiting : i <= j => expiry[waiting[i]] <= expiry[waiting[j]]
  <2>1. /\ \A v \in Workers \ {w} : expiry[v] = b.expiry[v]
        /\ \A v \in Workers : expiry[v] \in Int
        /\ expiry[w] = EXPIRY
    BY <1>1, <1>2, <1>3, NumbersFacts
  <2>2. \A i \in DOMAIN b.waiting : b.waiting[i] \in Workers
    BY <1>1, LenProperties, ElementOfSeq
  <2>3. CASE Len(b.waiting) > 1
    <3> DEFINE rest == Without(b.waiting, {w})
    <3>1. rest \in Seq(Workers) /\ Range(rest) = Range(b.waiting) \ {w}
      BY <1>1, WithoutProperties
    <3>2. IsInjective(rest)
      BY <1>1, WithoutInjective DEF NoDuplicates
    <3>3. \A i, j \in DOMAIN b.waiting :
            b.waiting[i] \notin {w} /\ b.waiting[j] \notin {w} /\ i <= j
              => expiry[b.waiting[i]] <= expiry[b.waiting[j]]
      BY <1>1, <2>1, <2>2 DEF Sorted
    <3>4. \A i, j \in DOMAIN rest : i <= j => expiry[rest[i]] <= expiry[rest[j]]
      BY <1>1, <2>1, <3>3, WithoutSorted
    <3>5. waiting = Append(rest, w)
      BY <2>3
    <3> HIDE DEF rest, waiting
    <3>6. /\ waiting \in Seq(Workers) /\ IsInjective(waiting)
          /\ Range(waiting) = Range(b.waiting) \cup {w}
      BY <1>2, <3>1, <3>2, <3>5, AppendRange
    <3>7. \A i, j \in DOMAIN waiting : i <= j => expiry[waiting[i]] <= expiry[waiting[j]]
      BY <1>2, <1>3, <2>1, <3>1, <3>4, <3>5, AppendSorted
    <3> QED
      BY <3>6, <3>7
  <2>4. CASE ~(Len(b.waiting) > 1)
    <3>1. waiting = b.waiting
      BY <2>4
    <3>2. Len(b.waiting) \in Nat /\ DOMAIN b.waiting = 1..Len(b.waiting)
      BY <1>1, LenProperties
    <3>3. \A i, j \in DOMAIN b.waiting : i = j
      BY <2>4, <3>2
    <3>4. \A i, j \in DOMAIN b.waiting : expiry[b.waiting[i]] <= expiry[b.waiting[j]]
      BY <2>1, <2>2, <3>3
    <3> QED
      BY <1>1, <3>1, <3>4 DEF NoDuplicates
  <2> QED
    BY <2>3, <2>4
<1> HIDE DEF waiting, a
<1>8. a \in BrokerType
  BY <1>1, <1>3, <1>4, <1>5, UpdateType
<1>9. /\ a.known = b.known /\ a.service = b.service /\ a.expiry = expiry
      /\ a.waiting = waiting /\ a.queue = b.queue /\ a.count = b.count
      /\ a.requests = b.requests
  BY <1>1, <1>4 DEF BrokerType
<1>10. Attached(a) = Attached(b)
  BY <1>9 DEF Attached
<1>11. ListsMatchRegistry(a)
  BY <1>1, <1>5, <1>9, <1>10 DEF ListsMatchRegistry
<1>12. NoDuplicates(a) /\ CountsMatchQueues(a)
  BY <1>1, <1>5, <1>9 DEF NoDuplicates, CountsMatchQueues
<1>13. StrangersAreBlank(a)
  BY <1>1, <1>3, <1>9 DEF StrangersAreBlank
<1>14. Sorted(a) /\ ServiceKnown(a)
  BY <1>1, <1>5, <1>9, <1>10 DEF Sorted, ServiceKnown
<1>15. Stranded(a) = Stranded(b)
  BY <1>9 DEF Stranded
<1> QED
  BY <1>8, <1>11, <1>12, <1>13, <1>14, <1>15 DEF Base, Consistent, a

-----------------------------------------------------------------------------
(* Operations that touch no list of workers *)

\* An operation that writes only requests and blacklists keeps the lists right.
LEMMA SameListsBase ==
  ASSUME NEW b, Base(b), NEW a \in BrokerType,
         a.service = b.service, a.expiry = b.expiry, a.waiting = b.waiting,
         a.queue = b.queue, a.count = b.count, a.known = b.known
  PROVE  Base(a)
<1>1. /\ ListsMatchRegistry(b) /\ NoDuplicates(b) /\ CountsMatchQueues(b)
      /\ StrangersAreBlank(b) /\ Sorted(b) /\ ServiceKnown(b)
  BY BaseFacts
<1>2. Attached(a) = Attached(b)
  BY DEF Attached
<1>3. ListsMatchRegistry(a) /\ ServiceKnown(a)
  BY <1>1, <1>2 DEF ListsMatchRegistry, ServiceKnown
<1>4. NoDuplicates(a) /\ CountsMatchQueues(a) /\ StrangersAreBlank(a) /\ Sorted(a)
  BY <1>1 DEF NoDuplicates, CountsMatchQueues, StrangersAreBlank, Sorted
<1> QED
  BY <1>3, <1>4 DEF Base, Consistent

\* mmi.enable and mmi.disable change no list.
LEMMA BlacklistGood ==
  ASSUME NEW b, Good(b), NEW s \in Names, NEW list \in SUBSET Commands
  PROVE  Good([b EXCEPT !.blacklist[s] = list])
<1> DEFINE a == [b EXCEPT !.blacklist[s] = list]
<1>1. b \in BrokerType /\ Base(b) /\ Stranded(b) = {}
  BY BaseFacts DEF Good
<1>2. /\ a.service = b.service /\ a.expiry = b.expiry /\ a.waiting = b.waiting
      /\ a.queue = b.queue /\ a.count = b.count /\ a.known = b.known
      /\ a.requests = b.requests
  BY <1>1 DEF BrokerType
<1>3. a \in BrokerType
  BY <1>1 DEF BrokerType
<1> HIDE DEF a
<1>4. Base(a) /\ Stranded(a) = Stranded(b)
  BY <1>1, <1>2, <1>3, SameListsBase DEF Stranded
<1> QED
  BY <1>1, <1>4 DEF Good, a

\* A request added to a service can only strand requests of that service.
LEMMA EnqueueBase ==
  ASSUME NEW b, Base(b), NEW s \in Names, NEW r \in Request
  PROVE  /\ Base([b EXCEPT !.requests[s] = Append(@, r)])
         /\ Stranded([b EXCEPT !.requests[s] = Append(@, r)]) \subseteq Stranded(b) \cup {s}
<1> DEFINE a == [b EXCEPT !.requests[s] = Append(@, r)]
<1>1. b \in BrokerType
  BY BaseFacts
<1>2. /\ a.service = b.service /\ a.expiry = b.expiry /\ a.waiting = b.waiting
      /\ a.queue = b.queue /\ a.count = b.count /\ a.known = b.known
      /\ \A n \in Names \ {s} : a.requests[n] = b.requests[n]
  BY <1>1 DEF BrokerType
<1>3. a \in BrokerType
  <2>1. b.requests \in [Names -> Seq(Request)]
    BY BaseFacts
  <2>2. Append(b.requests[s], r) \in Seq(Request)
    BY <2>1, AppendProperties
  <2> QED
    BY <1>1, <2>2 DEF BrokerType
<1> HIDE DEF a
<1>4. Base(a)
  BY <1>2, <1>3, SameListsBase
<1>5. Stranded(a) \subseteq Stranded(b) \cup {s}
  BY <1>2 DEF Stranded
<1> QED
  BY <1>4, <1>5 DEF a

\* An unknown command registers its sender.
LEMMA RegisterGood ==
  ASSUME NEW b, Good(b), NEW w \in Workers, ForeignPeers
  PROVE  Good([b EXCEPT !.known = @ \cup {w}])
<1> DEFINE a == [b EXCEPT !.known = @ \cup {w}]
<1>1. Base(b) /\ b \in BrokerType /\ Stranded(b) = {}
  BY BaseFacts DEF Good
<1>2. /\ a.service = b.service /\ a.expiry = b.expiry /\ a.waiting = b.waiting
      /\ a.queue = b.queue /\ a.count = b.count /\ a.known = b.known \cup {w}
      /\ a.requests = b.requests
  BY <1>1 DEF BrokerType
<1>3. a \in BrokerType
  BY <1>1 DEF BrokerType
<1> HIDE DEF a
<1>4. /\ ListsMatchRegistry(b) /\ NoDuplicates(b) /\ CountsMatchQueues(b)
      /\ StrangersAreBlank(b) /\ Sorted(b)
  BY <1>1, BaseFacts
<1>5. Attached(a) = Attached(b)
  BY <1>2, <1>4 DEF Attached, StrangersAreBlank
<1>6. ListsMatchRegistry(a)
  BY <1>2, <1>4, <1>5 DEF ListsMatchRegistry
<1>7. NoDuplicates(a) /\ CountsMatchQueues(a) /\ StrangersAreBlank(a) /\ Sorted(a)
  BY <1>2, <1>4 DEF NoDuplicates, CountsMatchQueues, StrangersAreBlank, Sorted
<1>8. ServiceKnown(a)
  BY DEF ServiceKnown
<1>9. Stranded(a) = {}
  BY <1>1, <1>2 DEF Stranded
<1> QED
  BY <1>3, <1>6, <1>7, <1>8, <1>9 DEF Good, Base, Consistent, a

-----------------------------------------------------------------------------
(* s_service_dispatch *)

\* One round robin turn of the workers of s: the queue is rotated, the requests
\* are gone.
LEMMA RotateGood ==
  ASSUME NEW b, Base(b), NEW s \in Names, Stranded(b) \subseteq {s},
         b.queue[s] # <<>>, NEW n \in Nat
  PROVE  Good([b EXCEPT !.queue[s] = Rotate(b.queue[s], n), !.requests[s] = <<>>])
<1> DEFINE a == [b EXCEPT !.queue[s] = Rotate(b.queue[s], n), !.requests[s] = <<>>]
           queue == [b.queue EXCEPT ![s] = Rotate(b.queue[s], n)]
           requests == [b.requests EXCEPT ![s] = <<>>]
<1>1. /\ b \in BrokerType
      /\ b.queue \in [Names -> Seq(Workers)]
      /\ b.requests \in [Names -> Seq(Request)]
      /\ ListsMatchRegistry(b) /\ NoDuplicates(b) /\ CountsMatchQueues(b)
      /\ StrangersAreBlank(b) /\ Sorted(b) /\ ServiceKnown(b)
  BY BaseFacts
<1>2. b.queue[s] \in Seq(Workers) /\ IsInjective(b.queue[s])
  BY <1>1 DEF NoDuplicates
<1>3. /\ Rotate(b.queue[s], n) \in Seq(Workers)
      /\ Len(Rotate(b.queue[s], n)) = Len(b.queue[s])
      /\ Range(Rotate(b.queue[s], n)) = Range(b.queue[s])
      /\ IsInjective(Rotate(b.queue[s], n))
  BY <1>2, RotateProperties
<1>4. /\ queue \in [Names -> Seq(Workers)]
      /\ requests \in [Names -> Seq(Request)]
      /\ \A m \in Names : queue[m] = IF m = s THEN Rotate(b.queue[s], n) ELSE b.queue[m]
      /\ \A m \in Names : requests[m] = IF m = s THEN <<>> ELSE b.requests[m]
  BY <1>1, <1>3, EmptySeq
<1>5. a = [b EXCEPT !.queue = queue, !.requests = requests]
  BY <1>1 DEF BrokerType
<1> HIDE DEF queue, requests, a
<1>6. a \in BrokerType
  BY <1>1, <1>4, <1>5 DEF BrokerType
<1>7. /\ a.service = b.service /\ a.expiry = b.expiry /\ a.waiting = b.waiting
      /\ a.count = b.count /\ a.known = b.known
      /\ a.queue = queue /\ a.requests = requests
  BY <1>1, <1>5 DEF BrokerType
<1>8. Attached(a) = Attached(b)
  BY <1>7 DEF Attached
<1>9. \A m \in Names : /\ Range(a.queue[m]) = Range(b.queue[m])
                       /\ Len(a.queue[m]) = Len(b.queue[m])
                       /\ IsInjective(a.queue[m])
  BY <1>1, <1>3, <1>4, <1>7 DEF NoDuplicates
<1>10. ListsMatchRegistry(a) /\ ServiceKnown(a)
  BY <1>1, <1>7, <1>8, <1>9 DEF ListsMatchRegistry, ServiceKnown
<1>11. NoDuplicates(a) /\ CountsMatchQueues(a) /\ StrangersAreBlank(a) /\ Sorted(a)
  BY <1>1, <1>7, <1>9 DEF NoDuplicates, CountsMatchQueues, StrangersAreBlank, Sorted
<1>12. Stranded(a) = {}
  <2> SUFFICES ASSUME NEW m \in Names, a.requests[m] # <<>>
               PROVE  a.queue[m] = <<>>
    BY DEF Stranded
  <2>1. m # s /\ b.requests[m] # <<>> /\ a.queue[m] = b.queue[m]
    BY <1>4, <1>7
  <2> QED
    BY <2>1 DEF Stranded
<1> QED
  BY <1>6, <1>10, <1>11, <1>12 DEF Good, Base, Consistent, a

\* s_service_dispatch leaves no request stranded, and every REQUEST it sends goes
\* to a worker that is registered and not expired.
LEMMA DispatchGood ==
  ASSUME NEW b, Base(b), NEW s \in Names, Stranded(b) \subseteq {s}
  PROVE  /\ Good(Dispatch(b, s).broker)
         /\ Dispatch(b, s).work \in Seq(RequestMsg)
         /\ \A m \in Range(Dispatch(b, s).work) :
              /\ m.to \in Dispatch(b, s).broker.known
              /\ Dispatch(b, s).broker.expiry[m.to] > 0
<1> DEFINE p == Purge(b)
           q == p.queue[s]
           r == p.requests[s]
           a == [p EXCEPT !.queue[s] = Rotate(q, Len(r)), !.requests[s] = <<>>]
           work == [i \in 1..Len(r) |-> [to |-> Popped(q, i), kind |-> "REQUEST",
                                         request |-> r[i]]]
<1>1. /\ Base(p)
      /\ Stranded(p) \subseteq {s}
      /\ \A w \in Range(p.waiting) : p.expiry[w] > 0
  BY PurgeBase
<1> HIDE DEF p
<1>2. /\ p \in BrokerType
      /\ p.known \in SUBSET Workers
      /\ p.queue \in [Names -> Seq(Workers)]
      /\ p.requests \in [Names -> Seq(Request)]
      /\ ListsMatchRegistry(p)
  BY <1>1, BaseFacts
<1>3. CASE q = <<>>
  <2>1. Dispatch(b, s) = [broker |-> p, work |-> <<>>]
    BY <1>3 DEF Dispatch, p
  <2>2. Stranded(p) = {}
    BY <1>1, <1>3 DEF Stranded
  <2>3. <<>> \in Seq(RequestMsg) /\ Range(<<>>) = {}
    BY EmptySeq DEF Range
  <2> QED
    BY <1>1, <2>1, <2>2, <2>3 DEF Good
<1>4. CASE q # <<>>
  <2>1. Dispatch(b, s) = [broker |-> a, work |-> work]
    BY <1>4 DEF Dispatch, p
  <2>2. q \in Seq(Workers) /\ r \in Seq(Request) /\ Len(r) \in Nat
    BY <1>2, LenProperties
  <2>3. Good(a)
    BY <1>1, <1>4, <2>2, RotateGood
  <2>4. \A w \in Range(q) : w \in p.known /\ p.expiry[w] > 0 /\ w \in Workers
    BY <1>1, <1>2 DEF ListsMatchRegistry, Attached
  <2>5. a.known = p.known /\ a.expiry = p.expiry
    BY <1>2 DEF BrokerType
  <2> HIDE DEF a, q, r
  <2>6. ASSUME NEW i \in 1..Len(r)
        PROVE  Popped(q, i) \in Range(q) /\ work[i] \in RequestMsg
               /\ work[i].to = Popped(q, i)
    <3>1. i \in Nat \ {0}
      BY <2>2
    <3>2. Popped(q, i) \in Range(q)
      BY <1>4, <2>2, <3>1, PoppedInRange
    <3>3. r[i] \in Request
      BY <2>2, ElementOfSeq
    <3> QED
      BY <2>4, <3>2, <3>3 DEF RequestMsg
  <2>7. work \in [1..Len(r) -> RequestMsg]
    BY <2>6
  <2>8. work \in Seq(RequestMsg) /\ DOMAIN work = 1..Len(r)
    BY <2>2, <2>7
  <2>9. \A m \in Range(work) : m.to \in p.known /\ p.expiry[m.to] > 0
    BY <2>4, <2>6, <2>8 DEF Range
  <2> HIDE DEF work
  <2> QED
    BY <2>1, <2>3, <2>5, <2>8, <2>9
<1> QED
  BY <1>3, <1>4

-----------------------------------------------------------------------------
(* The start of the process and the clock *)

\* The tables of a process that has just started are well formed.
LEMMA NewGood == Good(NewBroker)
<1> DEFINE b == NewBroker
<1>1. \A S : <<>> \in Seq(S) /\ Len(<<>>) = 0 /\ DOMAIN <<>> = {}
  BY EmptySeq
<1>2. /\ b.known = {} /\ b.waiting = <<>>
      /\ b.service \in [Workers -> Names \cup {NoService}]
      /\ \A w \in Workers : b.service[w] = NoService
      /\ b.expiry \in [Workers -> 0..EXPIRY]
      /\ \A w \in Workers : b.expiry[w] = 0
      /\ b.queue \in [Names -> Seq(Workers)]
      /\ \A s \in Names : b.queue[s] = <<>>
      /\ b.count \in [Names -> Nat]
      /\ \A s \in Names : b.count[s] = 0
      /\ b.requests \in [Names -> Seq(Request)]
      /\ \A s \in Names : b.requests[s] = <<>>
  BY <1>1, NumbersFacts DEF NewBroker
<1>3. b \in BrokerType
  BY <1>1, NumbersFacts DEF NewBroker, BrokerType
<1> HIDE DEF b
<1>4. Range(<<>>) = {} /\ IsInjective(<<>>)
  BY <1>1 DEF Range, IsInjective
<1>5. Attached(b) = {}
  BY <1>2 DEF Attached
<1>6. ListsMatchRegistry(b) /\ ServiceKnown(b)
  BY <1>2, <1>4, <1>5 DEF ListsMatchRegistry, ServiceKnown
<1>7. NoDuplicates(b) /\ CountsMatchQueues(b) /\ StrangersAreBlank(b)
  BY <1>1, <1>2, <1>4 DEF NoDuplicates, CountsMatchQueues, StrangersAreBlank
<1>8. Sorted(b)
  BY <1>1, <1>2 DEF Sorted
<1>9. Stranded(b) = {}
  BY <1>2 DEF Stranded
<1> QED
  BY <1>3, <1>6, <1>7, <1>8, <1>9 DEF Good, Base, Consistent, b

\* Counting every time left down by one keeps the order of waiting, also among
\* the workers whose time is up.
LEMMA TickGood ==
  ASSUME NEW b, Good(b)
  PROVE  Good([b EXCEPT !.expiry =
                 [w \in Workers |-> IF @[w] > 0 THEN @[w] - 1 ELSE 0]])
<1> DEFINE expiry == [w \in Workers |-> IF b.expiry[w] > 0 THEN b.expiry[w] - 1 ELSE 0]
           a == [b EXCEPT !.expiry = expiry]
<1>1. /\ b \in BrokerType
      /\ b.known \in SUBSET Workers
      /\ b.expiry \in [Workers -> 0..EXPIRY]
      /\ b.waiting \in Seq(Workers)
      /\ ListsMatchRegistry(b) /\ NoDuplicates(b) /\ CountsMatchQueues(b)
      /\ StrangersAreBlank(b) /\ Sorted(b) /\ ServiceKnown(b)
      /\ Stranded(b) = {}
  BY BaseFacts DEF Good
<1>2. \A w \in Workers : /\ b.expiry[w] \in 0..EXPIRY
                         /\ expiry[w] = IF b.expiry[w] > 0 THEN b.expiry[w] - 1 ELSE 0
                         /\ expiry[w] \in 0..EXPIRY
  BY <1>1, NumbersFacts
<1>3. expiry \in [Workers -> 0..EXPIRY]
  BY <1>2
<1> HIDE DEF expiry
<1>4. a \in BrokerType
  BY <1>1, <1>3 DEF BrokerType
<1>5. /\ a.known = b.known /\ a.service = b.service /\ a.expiry = expiry
      /\ a.waiting = b.waiting /\ a.queue = b.queue /\ a.count = b.count
      /\ a.requests = b.requests
  BY <1>1 DEF BrokerType
<1> HIDE DEF a
<1>6. Attached(a) = Attached(b)
  BY <1>5 DEF Attached
<1>7. ListsMatchRegistry(a) /\ ServiceKnown(a)
  BY <1>1, <1>5, <1>6 DEF ListsMatchRegistry, ServiceKnown
<1>8. NoDuplicates(a) /\ CountsMatchQueues(a)
  BY <1>1, <1>5 DEF NoDuplicates, CountsMatchQueues
<1>9. StrangersAreBlank(a)
  BY <1>1, <1>2, <1>5 DEF StrangersAreBlank
<1>10. Sorted(a)
  <2> SUFFICES ASSUME NEW i \in DOMAIN b.waiting, NEW j \in DOMAIN b.waiting, i <= j
               PROVE  expiry[b.waiting[i]] <= expiry[b.waiting[j]]
    BY <1>5 DEF Sorted
  <2>1. b.waiting[i] \in Workers /\ b.waiting[j] \in Workers
    BY <1>1, LenProperties, ElementOfSeq
  <2>2. b.expiry[b.waiting[i]] <= b.expiry[b.waiting[j]]
    BY <1>1 DEF Sorted
  <2> QED
    BY <1>2, <2>1, <2>2, NumbersFacts
<1>11. Stranded(a) = {}
  BY <1>1, <1>5 DEF Stranded
<1> QED
  BY <1>4, <1>7, <1>8, <1>9, <1>10, <1>11 DEF Good, Base, Consistent, a, expiry

-----------------------------------------------------------------------------
(* The end of an iteration *)

\* What a handler leaves to the end of the loop's body.
Deliverable(b, work, other) ==
  /\ work \in Seq(RequestMsg)
  /\ \A m \in Range(work) : m.to \in b.known /\ b.expiry[m.to] > 0
  /\ other \in Seq(WorkerMsg \cup ClientMsg)
  /\ \A m \in Range(other) :
       m.kind # "HEARTBEAT" /\ (m.kind = "DISCONNECT" => m.to \notin b.known)

\* The end of an iteration: the heartbeats, when they are due, purge the expired
\* workers and go to workers that are left.
LEMMA FinishGood ==
  ASSUME IInv, NEW b, Good(b), NEW work, NEW other,
         Deliverable(b, work, other), Finish(b, work, other)
  PROVE  IInv'
<1> DEFINE due == heartbeatIn < 0
           p   == IF due THEN Purge(b) ELSE b
           all == [i \in DOMAIN p.waiting |-> Notice(p.waiting[i], "HEARTBEAT")]
           out == IF due THEN other \o all ELSE other
<1>1. /\ broker' = p
      /\ heartbeatIn' = IF due THEN INTERVAL ELSE heartbeatIn
      /\ sent' = [work |-> work, other |-> out]
      /\ status' = status
  BY DEF Finish
<1>2. heartbeatIn' \in -1..INTERVAL /\ status' \in {"up", "down", "aborted"}
  BY <1>1, NumbersAssumption DEF IInv, TypeOK
<1>3. /\ Good(p)
      /\ p.known \subseteq b.known
      /\ \A w \in b.known : b.expiry[w] > 0 => w \in p.known /\ p.expiry[w] > 0
      /\ due => \A w \in Range(p.waiting) : p.expiry[w] > 0
  <2>1. Base(b) /\ Stranded(b) = {}
    BY DEF Good
  <2>2. CASE due
    <3>1. /\ Base(Purge(b)) /\ Stranded(Purge(b)) \subseteq Stranded(b)
          /\ Purge(b).known \subseteq b.known
          /\ \A w \in b.known : b.expiry[w] > 0 => w \in Purge(b).known
          /\ \A w \in Purge(b).known : Purge(b).expiry[w] = b.expiry[w]
          /\ \A w \in Range(Purge(b).waiting) : Purge(b).expiry[w] > 0
      BY <2>1, PurgeBase
    <3> QED
      BY <2>1, <2>2, <3>1 DEF Good
  <2>3. CASE ~due
    BY <2>3
  <2> QED
    BY <2>2, <2>3
<1> HIDE DEF p, due
<1>4. /\ p \in BrokerType
      /\ p.waiting \in Seq(Workers)
      /\ Range(p.waiting) \subseteq p.known
  BY <1>3, BaseFacts DEF Good, ListsMatchRegistry
<1>5. /\ all \in Seq(WorkerMsg \cup ClientMsg)
      /\ \A m \in Range(all) : m.kind = "HEARTBEAT" /\ m.to \in Range(p.waiting)
  <2>1. DOMAIN p.waiting = 1..Len(p.waiting) /\ Len(p.waiting) \in Nat
    BY <1>4, LenProperties
  <2>2. ASSUME NEW i \in DOMAIN p.waiting
        PROVE  /\ all[i] \in WorkerMsg
               /\ all[i].kind = "HEARTBEAT" /\ all[i].to \in Range(p.waiting)
    <3>1. p.waiting[i] \in Workers /\ p.waiting[i] \in Range(p.waiting)
      BY <1>4, <2>1, ElementOfSeq DEF Range
    <3> QED
      BY <3>1 DEF Notice, WorkerMsg
  <2>3. all \in [1..Len(p.waiting) -> WorkerMsg \cup ClientMsg]
    BY <2>1, <2>2
  <2>4. all \in Seq(WorkerMsg \cup ClientMsg)
    BY <2>1, <2>3
  <2>5. DOMAIN all = DOMAIN p.waiting
    OBVIOUS
  <2>6. \A m \in Range(all) : m.kind = "HEARTBEAT" /\ m.to \in Range(p.waiting)
    <3> HIDE DEF all
    <3> QED BY <2>2, <2>5 DEF Range
  <2> QED
    BY <2>4, <2>6
<1> HIDE DEF all
<1>6. /\ other \in Seq(WorkerMsg \cup ClientMsg)
      /\ out \in Seq(WorkerMsg \cup ClientMsg)
      /\ Range(out) \subseteq Range(other) \cup (IF due THEN Range(all) ELSE {})
  <2>1. other \in Seq(WorkerMsg \cup ClientMsg)
    BY DEF Deliverable
  <2>2. CASE due
    BY <1>5, <2>1, <2>2, ConcatProperties, RangeConcatenation
  <2>3. CASE ~due
    BY <2>1, <2>3
  <2> QED
    BY <2>1, <2>2, <2>3
<1> HIDE DEF out
<1>7. TypeOK'
  BY <1>1, <1>2, <1>4, <1>6 DEF TypeOK, Output, Deliverable
<1>8. SendsMatchRegistry'
  <2>1. \A m \in Range(work) : m.to \in p.known /\ p.expiry[m.to] > 0
    BY <1>3 DEF Deliverable
  <2>2. \A m \in Range(out) : m.kind = "HEARTBEAT" =>
          m.to \in p.known /\ p.expiry[m.to] > 0
    BY <1>3, <1>4, <1>5, <1>6 DEF Deliverable
  <2>3. \A m \in Range(out) : m.kind = "DISCONNECT" => m.to \notin p.known
    BY <1>3, <1>5, <1>6 DEF Deliverable
  <2>4. sent'.work = work /\ sent'.other = out
    BY <1>1
  <2> QED
    BY <1>1, <2>1, <2>2, <2>3, <2>4 DEF SendsMatchRegistry, Receivers
<1> QED
  BY <1>1, <1>3, <1>7, <1>8 DEF IInv

\* Handlers that write nothing or one message that is no REQUEST.
LEMMA NoOutput == \A b : Deliverable(b, <<>>, <<>>)
<1>1. \A S : <<>> \in Seq(S)
  BY EmptySeq
<1>2. Range(<<>>) = {}
  BY DEF Range
<1> QED
  BY <1>1, <1>2 DEF Deliverable

\* A single answer may be sent unless it is a DISCONNECT to a registered worker.
LEMMA OneMessage ==
  ASSUME NEW b, NEW msg \in WorkerMsg \cup ClientMsg, msg.kind # "HEARTBEAT",
         msg.kind = "DISCONNECT" => msg.to \notin b.known
  PROVE  Deliverable(b, <<>>, <<msg>>)
<1>1. <<>> \in Seq(RequestMsg) /\ Range(<<>>) = {}
  BY EmptySeq DEF Range
<1>2. <<msg>> \in Seq(WorkerMsg \cup ClientMsg)
  OBVIOUS
<1>3. \A m \in Range(<<msg>>) : m = msg
  BY DEF Range
<1> QED
  BY <1>1, <1>2, <1>3 DEF Deliverable

\* Handlers that change no table and answer with one message.
LEMMA AnswerGood ==
  ASSUME IInv, NEW msg \in WorkerMsg \cup ClientMsg, msg.kind # "HEARTBEAT",
         msg.kind = "DISCONNECT" => msg.to \notin broker.known, Answer(msg)
  PROVE  IInv'
<1>1. Finish(broker, <<>>, <<msg>>)
  BY DEF Answer
<1>2. Deliverable(broker, <<>>, <<msg>>)
  BY OneMessage
<1>3. Good(broker)
  BY DEF IInv
<1> QED
  BY <1>1, <1>2, <1>3, FinishGood

\* Handlers that end in s_service_dispatch.
LEMMA DispatchFromGood ==
  ASSUME IInv, NEW b, Base(b), NEW s \in Names, Stranded(b) \subseteq {s},
         DispatchFrom(b, s)
  PROVE  IInv'
<1> DEFINE d == Dispatch(b, s)
<1>1. Finish(d.broker, d.work, <<>>)
  BY DEF DispatchFrom
<1>2. /\ Good(d.broker)
      /\ d.work \in Seq(RequestMsg)
      /\ \A m \in Range(d.work) : m.to \in d.broker.known /\ d.broker.expiry[m.to] > 0
  BY DispatchGood
<1> HIDE DEF d
<1>3. Deliverable(d.broker, d.work, <<>>)
  BY <1>2, NoOutput DEF Deliverable
<1> QED
  BY <1>1, <1>2, <1>3, FinishGood

\* The end of the process, by a signal or by a fault, and its start.
LEMMA RestartGood ==
  ASSUME broker' = NewBroker, heartbeatIn' = INTERVAL, sent' = Silence,
         status' \in {"up", "down", "aborted"}
  PROVE  IInv'
<1>1. Good(NewBroker) /\ NewBroker \in BrokerType
  BY NewGood, BaseFacts DEF Good
<1>2. /\ Range(<<>>) = {}
      /\ \A S : <<>> \in Seq(S)
  BY EmptySeq DEF Range
<1>3. TypeOK'
  BY <1>1, <1>2, NumbersAssumption DEF TypeOK, Silence, Output
<1>4. SendsMatchRegistry'
  BY <1>2 DEF SendsMatchRegistry, Receivers, Silence
<1> QED
  BY <1>1, <1>3, <1>4 DEF IInv

-----------------------------------------------------------------------------
(* Worker commands *)

\* s_broker_worker_msg preserves the invariant, command by command.
LEMMA WorkerStep ==
  ASSUME IInv, NEW w \in Workers, FromWorker(w)
  PROVE  IInv'
<1>1. /\ Good(broker) /\ Base(broker) /\ Stranded(broker) = {}
      /\ broker.known \in SUBSET Workers
      /\ broker.service \in [Workers -> Names \cup {NoService}]
      /\ ListsMatchRegistry(broker) /\ ServiceKnown(broker)
  BY BaseFacts DEF IInv, Good
<1>2. ASSUME NEW D \in SUBSET broker.known
      PROVE  Good(DeleteWorkers(broker, D)) /\ DeleteWorkers(broker, D).known = broker.known \ D
  BY <1>1, DeleteBase, DeleteFields DEF Good
<1>3. /\ Notice(w, "DISCONNECT") \in WorkerMsg \cup ClientMsg
      /\ Notice(w, "DISCONNECT").kind = "DISCONNECT"
      /\ Notice(w, "DISCONNECT").to = w
  BY DEF Notice, WorkerMsg
<1>4. CASE ReadyAgain(w)
  <2> DEFINE d == DeleteWorkers(broker, {w})
  <2>1. w \in broker.known /\ Finish(d, <<>>, <<Notice(w, "DISCONNECT")>>)
    BY <1>4 DEF ReadyAgain
  <2>2. Good(d) /\ w \notin d.known
    BY <1>2, <2>1
  <2> HIDE DEF d
  <2>3. Deliverable(d, <<>>, <<Notice(w, "DISCONNECT")>>)
    BY <1>3, <2>2, OneMessage
  <2> QED
    BY <2>1, <2>2, <2>3, FinishGood
<1>5. CASE ReadyReserved(w)
  BY <1>3, <1>5, AnswerGood DEF ReadyReserved
<1>6. ASSUME NEW s \in Offered, ReadyNew(w, s) PROVE IInv'
  <2>1. s \in Names /\ w \in Workers \ broker.known
    BY <1>6, NamesAssumption DEF ReadyNew
  <2>2. DispatchFrom(Attach(broker, w, s), s)
    BY <1>6 DEF ReadyNew
  <2>3. Base(Attach(broker, w, s)) /\ Stranded(Attach(broker, w, s)) \subseteq {s}
    BY <1>1, <2>1, AttachBase
  <2> QED
    BY <2>1, <2>2, <2>3, DispatchFromGood
<1>7. ASSUME NEW c \in Clients, Report(w, c) PROVE IInv'
  <2> DEFINE msg == Reply(c, "REPORT", broker.service[w], "answer")
  <2>1. broker.service[w] \in Names /\ Answer(msg)
    BY <1>1, <1>7 DEF Report
  <2>2. msg \in ClientMsg /\ msg.kind = "REPORT"
    BY <2>1 DEF Reply, ClientMsg
  <2> HIDE DEF msg
  <2> QED
    BY <2>1, <2>2, AnswerGood
<1>8. CASE ReportWithoutService(w)
  BY <1>8, RestartGood DEF ReportWithoutService
<1>9. CASE Heartbeat(w)
  <2>1. w \in broker.known /\ Finish(Refresh(broker, w), <<>>, <<>>)
    BY <1>9 DEF Heartbeat
  <2>2. Good(Refresh(broker, w))
    BY <1>1, <2>1, RefreshBase DEF Good
  <2> QED
    BY <2>1, <2>2, NoOutput, FinishGood
<1>10. CASE Unknown(w)
  BY <1>3, <1>10, AnswerGood DEF Unknown
<1>11. CASE Disconnect(w)
  <2>1. Good(DeleteWorkers(broker, {w} \cap broker.known))
    BY <1>2
  <2>2. Finish(DeleteWorkers(broker, {w} \cap broker.known), <<>>, <<>>)
    BY <1>11 DEF Disconnect
  <2> QED
    BY <2>1, <2>2, NoOutput, FinishGood
<1>12. CASE InvalidCommand(w)
  <2>1. ForeignPeers /\ Finish([broker EXCEPT !.known = @ \cup {w}], <<>>, <<>>)
    BY <1>12 DEF InvalidCommand
  <2>2. Good([broker EXCEPT !.known = @ \cup {w}])
    BY <1>1, <2>1, RegisterGood
  <2> QED
    BY <2>1, <2>2, NoOutput, FinishGood
<1> QED
  BY <1>4, <1>5, <1>6, <1>7, <1>8, <1>9, <1>10, <1>11, <1>12 DEF FromWorker

-----------------------------------------------------------------------------
(* Client requests *)

\* s_broker_client_msg preserves the invariant, request by request.
LEMMA ClientStep ==
  ASSUME IInv, NEW c \in Clients, FromClient(c)
  PROVE  IInv'
<1>1. /\ Good(broker) /\ Base(broker) /\ Stranded(broker) = {}
      /\ broker.blacklist \in [Names -> SUBSET Commands]
      /\ broker \in BrokerType
  BY BaseFacts DEF IInv, Good
<1>2. ASSUME NEW kind \in {"REPORT", "NAK"}, NEW s \in Names,
             NEW body \in {"200", "400", "404", "501", "refused", "answer"}
      PROVE  /\ Reply(c, kind, s, body) \in WorkerMsg \cup ClientMsg
             /\ Reply(c, kind, s, body).kind \notin {"HEARTBEAT", "DISCONNECT"}
  BY DEF Reply, ClientMsg
<1>3. ASSUME NEW kind \in {"REPORT", "NAK"}, NEW s \in Names,
             NEW body \in {"200", "400", "404", "501", "refused", "answer"},
             Answer(Reply(c, kind, s, body))
      PROVE  IInv'
  BY <1>2, <1>3, AnswerGood
<1>4. MMI \subseteq Names /\ Services \subseteq Names
  BY DEF Names
<1>5. ASSUME NEW s \in Services, NEW cmd \in Commands, Submit(c, s, cmd) PROVE IInv'
  <2> DEFINE r == [client |-> c, command |-> cmd]
             b == [broker EXCEPT !.requests[s] = Append(@, r)]
  <2>1. DispatchFrom(b, s)
    BY <1>5 DEF Submit
  <2>2. r \in Request /\ s \in Names
    BY <1>4 DEF Request
  <2> HIDE DEF r
  <2>3. Base(b) /\ Stranded(b) \subseteq {s}
    BY <1>1, <2>2, EnqueueBase
  <2> HIDE DEF b
  <2> QED
    BY <2>1, <2>2, <2>3, DispatchFromGood
<1>6. ASSUME NEW s \in Services, NEW cmd \in Commands, Refuse(c, s, cmd) PROVE IInv'
  BY <1>3, <1>4, <1>6 DEF Refuse
<1>7. ASSUME NEW s \in Services, NEW list \in SUBSET Commands, "mmi.filter" \in MMI,
             Finish([broker EXCEPT !.blacklist[s] = list], <<>>,
                    <<Reply(c, "REPORT", "mmi.filter", "200")>>)
      PROVE  IInv'
  <2> DEFINE b == [broker EXCEPT !.blacklist[s] = list]
             msg == Reply(c, "REPORT", "mmi.filter", "200")
  <2>1. Good(b)
    BY <1>1, <1>4, BlacklistGood
  <2>2. msg \in WorkerMsg \cup ClientMsg /\ msg.kind \notin {"HEARTBEAT", "DISCONNECT"}
    BY <1>2, <1>4, <1>7
  <2>3. Finish(b, <<>>, <<msg>>)
    BY <1>7
  <2> HIDE DEF b, msg
  <2>4. Deliverable(b, <<>>, <<msg>>)
    BY <2>2, OneMessage
  <2> QED
    BY <2>1, <2>3, <2>4, FinishGood
<1>8. ASSUME NEW s \in Services, NEW cmd \in Commands, Enable(c, s, cmd) PROVE IInv'
  <2>1. broker.blacklist[s] \ {cmd} \in SUBSET Commands
    BY <1>1, <1>4
  <2>2. "mmi.filter" \in MMI
        /\ Finish([broker EXCEPT !.blacklist[s] = broker.blacklist[s] \ {cmd}], <<>>,
                  <<Reply(c, "REPORT", "mmi.filter", "200")>>)
    BY <1>8 DEF Enable
  <2> QED
    BY <1>7, <2>1, <2>2
<1>9. ASSUME NEW s \in Services, NEW cmd \in Commands, Disable(c, s, cmd) PROVE IInv'
  <2>1. broker.blacklist[s] \cup {cmd} \in SUBSET Commands
    BY <1>1, <1>4
  <2>2. "mmi.filter" \in MMI
        /\ Finish([broker EXCEPT !.blacklist[s] = broker.blacklist[s] \cup {cmd}], <<>>,
                  <<Reply(c, "REPORT", "mmi.filter", "200")>>)
    BY <1>9 DEF Disable
  <2> QED
    BY <1>7, <2>1, <2>2
<1>10. ASSUME NEW s \in Names, LookUp(c, s) PROVE IInv'
  <2>1. CASE broker.count[s] # 0
    BY <1>3, <1>4, <1>10, <2>1 DEF LookUp
  <2>2. CASE ~(broker.count[s] # 0)
    BY <1>3, <1>4, <1>10, <2>2 DEF LookUp
  <2> QED
    BY <2>1, <2>2
<1>11. ASSUME NEW s \in Names, NotImplemented(c, s) PROVE IInv'
  BY <1>3, <1>11 DEF NotImplemented
<1>12. CASE BadFilter(c)
  BY <1>3, <1>4, <1>12 DEF BadFilter
<1> QED
  BY <1>5, <1>6, <1>8, <1>9, <1>10, <1>11, <1>12 DEF FromClient

-----------------------------------------------------------------------------
(* The invariant and what follows from it *)

\* IInv holds initially and every step of the process preserves it.
LEMMA Inductive ==
  /\ Init => IInv
  /\ IInv /\ [Next]_vars => IInv'
<1>1. Init => IInv
  <2> SUFFICES ASSUME Init PROVE IInv
    OBVIOUS
  <2>1. Good(NewBroker) /\ NewBroker \in BrokerType
    BY NewGood, BaseFacts DEF Good
  <2>2. /\ Range(<<>>) = {}
        /\ \A S : <<>> \in Seq(S)
    BY EmptySeq DEF Range
  <2>3. TypeOK
    BY <2>1, <2>2, NumbersAssumption DEF Init, TypeOK, Silence, Output
  <2>4. SendsMatchRegistry
    BY <2>2 DEF Init, SendsMatchRegistry, Receivers, Silence
  <2> QED
    BY <2>1, <2>3, <2>4 DEF IInv, Init
<1>2. ASSUME IInv, [Next]_vars PROVE IInv'
  <2>1. ASSUME NEW w \in Workers, FromWorker(w) PROVE IInv'
    BY <1>2, <2>1, WorkerStep
  <2>2. ASSUME NEW c \in Clients, FromClient(c) PROVE IInv'
    BY <1>2, <2>2, ClientStep
  <2>3. CASE NoMessage
    BY <1>2, <2>3, NoOutput, FinishGood DEF NoMessage, IInv
  <2>4. CASE Tick
    <3>1. Good(broker) /\ TypeOK
      BY <1>2 DEF IInv
    <3>2. /\ broker' = [broker EXCEPT !.expiry =
                 [w \in Workers |-> IF @[w] > 0 THEN @[w] - 1 ELSE 0]]
          /\ sent' = Silence /\ status' = status
      BY <2>4 DEF Tick
    <3>3. Good(broker')
      BY <3>1, <3>2, TickGood
    <3>4. /\ Range(<<>>) = {}
          /\ \A S : <<>> \in Seq(S)
      BY EmptySeq DEF Range
    <3>5. broker' \in BrokerType
      BY <3>3, BaseFacts DEF Good
    <3>6. heartbeatIn' \in -1..INTERVAL
      BY <2>4, <3>1, NumbersAssumption DEF Tick, TypeOK
    <3>7. TypeOK'
      BY <3>1, <3>2, <3>4, <3>5, <3>6 DEF TypeOK, Output, Silence
    <3>8. SendsMatchRegistry'
      BY <3>2, <3>4 DEF SendsMatchRegistry, Receivers, Silence
    <3> QED
      BY <3>3, <3>7, <3>8 DEF IInv
  <2>5. CASE Shutdown
    BY <2>5, RestartGood DEF Shutdown
  <2>6. CASE Start
    BY <1>2, <2>6 DEF Start, IInv, TypeOK, SendsMatchRegistry, Receivers
  <2>7. CASE UNCHANGED vars
    BY <1>2, <2>7 DEF vars, IInv, TypeOK, SendsMatchRegistry, Receivers
  <2> QED
    BY <1>2, <2>1, <2>2, <2>3, <2>4, <2>5, <2>6, <2>7 DEF Next, Iteration
<1> QED
  BY <1>1, <1>2

\* Between two iterations of the main loop the tables are well formed, sorted and
\* without a stranded request, and what the last iteration sent was right.
THEOREM Safety == Spec => []IInv
  BY Inductive, PTL DEF Spec

\* Every variable of the broker has its type: no count of workers underflows.
THEOREM TypeCorrect == Spec => []TypeOK
<1>1. IInv => TypeOK
  BY DEF IInv
<1> QED
  BY <1>1, Safety, PTL

\* The lists of workers and the registry describe the same workers, so that no
\* list holds a worker that was freed, whatever the order of messages and ticks.
THEOREM RegistryCorrect == Spec => []Registry
<1>1. IInv => Registry
  BY DEF IInv, Good, Base, Registry
<1> QED
  BY <1>1, Safety, PTL

\* broker->waiting stays sorted by expiry, so that a purge is complete.
THEOREM WaitingIsSorted == Spec => []OldestFirst
<1>1. IInv => OldestFirst
  BY DEF IInv, Good, Base, OldestFirst
<1> QED
  BY <1>1, Safety, PTL

\* No request waits at a service that has a worker.
THEOREM NothingStranded == Spec => []NoStrandedRequest
<1>1. IInv => NoStrandedRequest
  BY DEF IInv, Good, NoStrandedRequest
<1> QED
  BY <1>1, Safety, PTL

\* Requests and heartbeats go to live workers, disconnects to forgotten ones.
THEOREM SendsCorrect == Spec => []SendsMatchRegistry
<1>1. IInv => SendsMatchRegistry
  BY DEF IInv
<1> QED
  BY <1>1, Safety, PTL

\* Peers that keep to the four commands never make the broker hold a worker
\* without a service.
THEOREM ServiceOfKnown == Spec => []KnownHaveService
<1>1. IInv => KnownHaveService
  BY DEF IInv, Good, Base, ServiceKnown, KnownHaveService
<1> QED
  BY <1>1, Safety, PTL
=============================================================================
