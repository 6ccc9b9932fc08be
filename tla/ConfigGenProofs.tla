---------------------------- MODULE ConfigGenProofs ----------------------------
(***************************************************************************)
(* Proofs about ConfigGen, for addresses of any width and any requests:    *)
(* the ranges of cidrToRange, the order and the completeness of the files, *)
(* and what Traffic Server makes of them.                                  *)
(***************************************************************************)
EXTENDS ConfigGen, FiniteSetTheorems, FunctionTheorems, SequenceTheorems,
        WellFoundedInduction, TLAPS

-----------------------------------------------------------------------------
(* Least elements *)

\* Numbers are well ordered: what an induction would be needed for rests on the
\* first place where two things differ.
LEMMA Least ==
  ASSUME NEW I \in SUBSET Nat, I # {}
  PROVE  \E i \in I : \A j \in I : i <= j
<1> DEFINE R == {ss \in Nat \X Nat : ss[1] < ss[2]}
<1>1. IsWellFoundedOn(R, Nat)
  BY NatLessThanWellFounded DEF OpToRel
<1>2. PICK i \in I : \A j \in I : ~(<<j, i>> \in R)
  <2> HIDE DEF R
  <2> QED
    BY <1>1, WFMin
<1>3. \A j \in I : i <= j
  <2> TAKE j \in I
  <2>1. i \in Nat /\ j \in Nat /\ (<<j, i>> \in R <=> j < i)
    OBVIOUS
  <2>2. ~(j < i)
    BY <1>2, <2>1
  <2> QED
    BY <2>1, <2>2
<1> QED
  BY <1>3

LEMMA MinIsLeast ==
  ASSUME NEW I \in SUBSET Nat, I # {}
  PROVE  Min(I) \in I /\ \A j \in I : Min(I) <= j
BY Least DEF Min

LEMMA MinUnique ==
  ASSUME NEW I \in SUBSET Nat, NEW i \in I, \A j \in I : i <= j
  PROVE  Min(I) = i
<1>1. Min(I) \in I /\ \A j \in I : Min(I) <= j
  BY MinIsLeast
<1>2. Min(I) <= i /\ i <= Min(I) /\ i \in Nat /\ Min(I) \in Nat
  BY <1>1
<1> HIDE DEF Min
<1> QED
  BY <1>2

-----------------------------------------------------------------------------
(* Addresses *)

\* cidrToRange gives the range of the prefix: in the order of the addresses, what
\* lies between its two ends is what shares the first bits.
THEOREM RangeIsPrefix ==
  ASSUME NEW c \in [ip : Addrs, len : {Bare} \cup 0..Width], NEW a \in Addrs
  PROVE  InRange(a, CidrToRange(c)) <=> InPrefix(a, c)
<1> USE WidthAssumption DEF Addrs, Bare, Mask
<1>1. CASE c.len = Bare
  <2>1. CidrToRange(c) = <<c.ip, c.ip>>
    BY <1>1 DEF CidrToRange
  <2>2. UpTo(c.ip, a) /\ UpTo(a, c.ip) => a = c.ip
    <3> SUFFICES ASSUME NEW i \in a \ c.ip, c.ip \cap 1..(i - 1) = a \cap 1..(i - 1),
                        NEW j \in c.ip \ a, a \cap 1..(j - 1) = c.ip \cap 1..(j - 1)
                 PROVE  FALSE
      BY DEF UpTo
    <3>1. i \in 1..Width /\ j \in 1..Width /\ i # j
      OBVIOUS
    <3>2. i \in 1..(j - 1) \/ j \in 1..(i - 1)
      BY <3>1
    <3> QED
      BY <3>2
  <2> QED
    BY <1>1, <2>1, <2>2 DEF InRange, UpTo, InPrefix
<1>2. CASE c.len # Bare
  <2> DEFINE lo == Network(c)
             hi == Network(c) \cup (1..Width \ Mask(c.len))
  <2>1. CidrToRange(c) = <<lo, hi>> /\ lo \in Addrs /\ hi \in Addrs /\ c.len \in 0..Width
    BY <1>2 DEF CidrToRange, Network
  <2>2. InPrefix(a, c) <=> \A i \in 1..c.len : i \in a <=> i \in lo
    BY <1>2, <2>1 DEF InPrefix, Network
  <2>3. ASSUME UpTo(lo, a), UpTo(a, hi), NEW n \in 1..c.len, ~(n \in a <=> n \in lo)
        PROVE  FALSE
    <3>1. n \in lo <=> n \in hi
      BY <2>1 DEF Network
    <3>2. PICK i \in a \ lo : lo \cap 1..(i - 1) = a \cap 1..(i - 1)
      BY <2>3 DEF UpTo
    <3>3. PICK j \in hi \ a : a \cap 1..(j - 1) = hi \cap 1..(j - 1)
      BY <2>3, <3>1 DEF UpTo
    <3>4. i \in 1..Width /\ j \in 1..Width /\ i <= n /\ j <= n
      <4>1. i \in 1..Width /\ j \in 1..Width
        BY <2>1
      <4>2. ~(n \in 1..(i - 1)) /\ ~(n \in 1..(j - 1))
        BY <2>3, <3>1, <3>2, <3>3
      <4> QED
        BY <4>1, <4>2
    <3>5. i \notin hi /\ j \in lo /\ i # j
      BY <2>1, <3>2, <3>3, <3>4 DEF Network
    <3>6. i \in 1..(j - 1) \/ j \in 1..(i - 1)
      BY <3>4, <3>5
    <3> QED
      BY <3>2, <3>3, <3>5, <3>6
  <2>4. ASSUME \A i \in 1..c.len : i \in a <=> i \in lo
        PROVE  UpTo(lo, a) /\ UpTo(a, hi)
    <3>1. lo \subseteq a /\ a \subseteq hi
      BY <2>1, <2>4 DEF Network
    <3>2. ASSUME NEW x \in Addrs, NEW y \in Addrs, x \subseteq y
          PROVE  UpTo(x, y)
      <4>1. CASE x = y
        BY <4>1 DEF UpTo
      <4>2. CASE x # y
        <5>1. PICK i \in y \ x : \A j \in y \ x : i <= j
          <6>1. y \ x \in SUBSET Nat
            BY <3>2
          <6>2. PICK i \in y : i \notin x
            BY <3>2, <4>2
          <6> QED
            BY <6>1, <6>2, Least
        <5>2. x \cap 1..(i - 1) = y \cap 1..(i - 1)
          BY <3>2, <5>1
        <5> QED
          BY <5>2 DEF UpTo
      <4> QED
        BY <4>1, <4>2
    <3> QED
      BY <2>1, <3>1, <3>2
  <2> QED
    BY <2>1, <2>2, <2>3, <2>4 DEF InRange
<1> QED
  BY <1>1, <1>2

-----------------------------------------------------------------------------
(* Rows in the order of their priorities *)

\* A row order lists every row once, by priority.
LEMMA SortedFacts ==
  ASSUME NEW S, IsFiniteSet(S), NEW s \in Sorted(S)
  PROVE  /\ Cardinality(S) \in Nat
         /\ s \in [1..Cardinality(S) -> S]
         /\ \A r \in S : \E i \in 1..Cardinality(S) : s[i] = r
         /\ \A i, j \in 1..Cardinality(S) :
               /\ s[i] = s[j] => i = j
               /\ i < j => s[i].priority <= s[j].priority
         /\ Len(s) = Cardinality(S) /\ DOMAIN s = 1..Cardinality(S)
<1> DEFINE n == Cardinality(S)
<1>1. n \in Nat
  BY FS_CardinalityType
<1>2. s \in [1..n -> S] /\ \A i, j \in 1..n : i # j => s[i] # s[j]
  BY DEF Sorted, SetToSeqs
<1>3. s \in Seq(S) /\ Len(s) = n
  BY <1>1, <1>2
<1>4. s \in Injection(1..n, S)
  BY <1>2, Fun_IsInj
<1>5. IsFiniteSet(1..n) /\ Cardinality(1..n) = n
  BY <1>1, FS_Interval
<1>6. s \in Surjection(1..n, S)
  BY <1>4, <1>5, FS_Injection
<1>7. \A r \in S : \E i \in 1..n : s[i] = r
  <2> HIDE DEF n
  <2> QED
    BY <1>6 DEF Surjection
<1>8. \A i, j \in 1..n : i < j => s[i].priority <= s[j].priority
  BY <1>3 DEF Sorted
<1> QED
  BY <1>1, <1>2, <1>3, <1>7, <1>8

\* The converse.
LEMMA SortedIntro ==
  ASSUME NEW S, NEW n \in Nat, NEW s \in [1..n -> S],
         \A r \in S : \E i \in 1..n : s[i] = r,
         \A i, j \in 1..n : s[i] = s[j] => i = j,
         \A i, j \in 1..n : i < j => s[i].priority <= s[j].priority
  PROVE  s \in Sorted(S)
<1>1. s \in Bijection(1..n, S)
  BY Fun_IsBij
<1>2. ExistsBijection(1..n, S)
  BY <1>1, Fun_ExistsBij
<1>3. Cardinality(S) = n
  BY <1>2, FS_CountingElements
<1>4. s \in Seq(S) /\ Len(s) = n
  OBVIOUS
<1> QED
  BY <1>3, <1>4 DEF Sorted, SetToSeqs

\* Rows with distinct priorities have one order, whichever read it is from.
THEOREM OneOrder ==
  ASSUME NEW S, IsFiniteSet(S), \A r \in S : r.priority \in Int, Distinct(S),
         NEW s \in Sorted(S), NEW t \in Sorted(S)
  PROVE  s = t
<1> DEFINE n == Cardinality(S)
           differ == {i \in 1..n : s[i] # t[i]}
<1>1. /\ n \in Nat
      /\ s \in [1..n -> S] /\ t \in [1..n -> S]
      /\ \A r \in S : \E i \in 1..n : s[i] = r
      /\ \A r \in S : \E i \in 1..n : t[i] = r
      /\ \A i, j \in 1..n : s[i] = s[j] => i = j
      /\ \A i, j \in 1..n : t[i] = t[j] => i = j
      /\ \A i, j \in 1..n : i < j => s[i].priority <= s[j].priority
      /\ \A i, j \in 1..n : i < j => t[i].priority <= t[j].priority
  BY SortedFacts
<1> HIDE DEF n
<1>2. differ = {}
  <2> SUFFICES ASSUME differ # {}
               PROVE  FALSE
    OBVIOUS
  <2>1. differ \in SUBSET Nat
    BY <1>1
  <2>2. PICK i \in differ : \A j \in differ : i <= j
    BY <2>1, Least
  <2>3. \A j \in 1..n : j < i => s[j] = t[j]
    BY <1>1, <2>2
  <2>4. PICK j \in 1..n : t[j] = s[i]
    BY <1>1, <2>2
  <2>5. PICK k \in 1..n : s[k] = t[i]
    BY <1>1, <2>2
  <2>6. i < j
    <3>1. i # j /\ i \in Int /\ j \in Int
      BY <1>1, <2>2, <2>4
    <3>2. ~(j < i)
      BY <1>1, <2>2, <2>3, <2>4
    <3> QED
      BY <3>1, <3>2
  <2>7. i < k
    <3>1. i # k /\ i \in Int /\ k \in Int
      BY <1>1, <2>2, <2>5
    <3>2. ~(k < i)
      BY <1>1, <2>2, <2>3, <2>5
    <3> QED
      BY <3>1, <3>2
  <2>8. t[i].priority <= s[i].priority /\ s[i].priority <= t[i].priority
    BY <1>1, <2>2, <2>4, <2>5, <2>6, <2>7
  <2>9. s[i].priority = t[i].priority
    BY <1>1, <2>2, <2>8
  <2> QED
    BY <1>1, <2>2, <2>9 DEF Distinct
<1>3. \A i \in 1..n : s[i] = t[i]
  BY <1>2
<1> QED
  BY <1>1, <1>3

-----------------------------------------------------------------------------
(* Lines left out *)

\* At numbers the positions in I from the lowest to the highest.
LEMMA AtFacts ==
  ASSUME NEW n \in Nat, NEW I \in SUBSET (1..n)
  PROVE  /\ Cardinality(I) \in Nat
         /\ \A k \in 1..Cardinality(I) : At(I, k) \in I
         /\ \A i \in I : \E k \in 1..Cardinality(I) : At(I, k) = i
         /\ \A k, l \in 1..Cardinality(I) :
               /\ At(I, k) = At(I, l) => k = l
               /\ k < l => At(I, k) < At(I, l)
<1> DEFINE m == Cardinality(I)
           upto(i) == {j \in I : j <= i}
           rank == [i \in I |-> Cardinality(upto(i))]
<1>0. \A i \in I : i \in Int
  OBVIOUS
<1>1. IsFiniteSet(I) /\ m \in Nat
  <2>1. IsFiniteSet(1..n)
    BY FS_Interval
  <2>2. IsFiniteSet(I)
    BY <2>1, FS_Subset
  <2> QED
    BY <2>2, FS_CardinalityType
<1>2. \A i \in I : IsFiniteSet(upto(i)) /\ upto(i) # {} /\ rank[i] \in 1..m
  <2> TAKE i \in I
  <2>1. upto(i) \in SUBSET I /\ i \in upto(i)
    OBVIOUS
  <2>2. IsFiniteSet(upto(i)) /\ Cardinality(upto(i)) <= m
    BY <1>1, <2>1, FS_Subset
  <2>3. Cardinality(upto(i)) \in Nat /\ Cardinality(upto(i)) # 0
    BY <2>1, <2>2, FS_CardinalityType, FS_EmptySet
  <2> QED
    BY <1>1, <2>1, <2>2, <2>3
<1>3. \A i, j \in I : i < j => rank[i] < rank[j]
  <2> SUFFICES ASSUME NEW i \in I, NEW j \in I, i < j
               PROVE  rank[i] < rank[j]
    OBVIOUS
  <2>1. upto(i) \in SUBSET upto(j) /\ j \in upto(j) /\ j \notin upto(i)
    <3>1. i \in Int /\ j \in Int /\ j <= j /\ ~(j <= i)
      BY <1>0
    <3>2. \A x \in I : x <= i => x <= j
      BY <1>0, <3>1
    <3> QED
      BY <3>1, <3>2
  <2>2. Cardinality(upto(i)) <= Cardinality(upto(j))
        /\ Cardinality(upto(i)) # Cardinality(upto(j))
    <3> HIDE DEF upto
    <3> QED
      BY <1>2, <2>1, FS_Subset
  <2> QED
    BY <1>1, <1>2, <2>2
<1>4. rank \in Injection(I, 1..m)
  <2>1. rank \in [I -> 1..m]
    BY <1>2
  <2>2. \A i, j \in I : rank[i] = rank[j] => i = j
    BY <1>1, <1>2, <1>3
  <2> HIDE DEF rank
  <2> QED
    BY <2>1, <2>2, Fun_IsInj
<1>5. IsFiniteSet(1..m) /\ Cardinality(1..m) = m
  BY <1>1, FS_Interval
<1>6. \A k \in 1..m : \E i \in I : rank[i] = k
  <2> HIDE DEF rank, m
  <2>1. rank \in Surjection(I, 1..m)
    BY <1>1, <1>4, <1>5, FS_Injection DEF m
  <2> QED
    BY <2>1, Fun_SurjectionProperties
<1>7. \A k \in 1..m : At(I, k) \in I /\ rank[At(I, k)] = k
  BY <1>6 DEF At
<1>8. \A i \in I : At(I, rank[i]) = i
  <2> TAKE i \in I
  <2>1. rank[i] \in 1..m
    BY <1>2
  <2>2. At(I, rank[i]) \in I /\ rank[At(I, rank[i])] = rank[i]
    BY <1>7, <2>1
  <2> HIDE DEF rank
  <2> QED
    BY <1>4, <2>2, Fun_InjectionProperties
<1>9. \A k, l \in 1..m : k < l => At(I, k) < At(I, l)
  <2> SUFFICES ASSUME NEW k \in 1..m, NEW l \in 1..m, k < l
               PROVE  At(I, k) < At(I, l)
    OBVIOUS
  <2> HIDE DEF rank
  <2>1. At(I, k) \in I /\ rank[At(I, k)] = k /\ At(I, l) \in I /\ rank[At(I, l)] = l
    BY <1>7
  <2>2. At(I, k) # At(I, l) /\ ~(At(I, l) < At(I, k))
    <3>1. k \in Int /\ l \in Int
      BY <1>1
    <3>2. At(I, l) < At(I, k) => l < k
      BY <1>3, <2>1
    <3> QED
      BY <2>1, <3>1, <3>2
  <2>3. At(I, k) \in Int /\ At(I, l) \in Int
    BY <1>0, <2>1
  <2> QED
    BY <2>2, <2>3
<1> HIDE DEF rank
<1> QED
  BY <1>1, <1>2, <1>7, <1>8, <1>9

\* Leaving out lines keeps the order of the rest: what is rendered of an order of
\* the rows is an order of the rows rendered.
LEMMA KeptSorted ==
  ASSUME NEW S, IsFiniteSet(S), \A r \in S : r.priority \in Int,
         NEW s \in Sorted(S), NEW I \in SUBSET DOMAIN s
  PROVE  Kept(s, I) \in Sorted({s[i] : i \in I})
<1> DEFINE n == Cardinality(S)
           m == Cardinality(I)
           T == {s[i] : i \in I}
           kept == Kept(s, I)
<1>1. /\ n \in Nat /\ DOMAIN s = 1..n /\ s \in [1..n -> S]
      /\ \A i, j \in 1..n : s[i] = s[j] => i = j
      /\ \A i, j \in 1..n : i < j => s[i].priority <= s[j].priority
  BY SortedFacts
<1> HIDE DEF n
<1>2. /\ m \in Nat
      /\ \A k \in 1..m : At(I, k) \in I
      /\ \A i \in I : \E k \in 1..m : At(I, k) = i
      /\ \A k, l \in 1..m :
            /\ At(I, k) = At(I, l) => k = l
            /\ k < l => At(I, k) < At(I, l)
  BY <1>1, AtFacts
<1> HIDE DEF m
<1>3. kept = [k \in 1..m |-> s[At(I, k)]]
  BY DEF Kept, m
<1> HIDE DEF kept
<1>4. kept \in [1..m -> T] /\ \A r \in T : \E k \in 1..m : kept[k] = r
  BY <1>2, <1>3
<1>5. \A k, l \in 1..m :
         /\ kept[k] = kept[l] => k = l
         /\ k < l => kept[k].priority <= kept[l].priority
  BY <1>1, <1>2, <1>3
<1> HIDE DEF T
<1>6. kept \in Sorted(T)
  BY <1>2, <1>4, <1>5, SortedIntro
<1> QED
  BY <1>6 DEF kept, T


-----------------------------------------------------------------------------
(* The first line that matches *)

\* Some line is in M.
Hits(lines, M) == \E k \in DOMAIN lines : lines[k] \in M

\* The deciding line is one of those that match.
LEMMA DecidingMatches ==
  ASSUME NEW V, NEW s \in Seq(V), NEW M, Hits(s, M)
  PROVE  \E k \in DOMAIN s :
            /\ Deciding(s, M) = s[k]
            /\ s[k] \in M
            /\ \A j \in DOMAIN s : j < k => s[j] \notin M
<1> DEFINE K == {k \in DOMAIN s : s[k] \in M}
<1>1. K \in SUBSET Nat /\ K # {}
  BY LenProperties DEF Hits
<1>2. Min(K) \in K /\ \A j \in K : Min(K) <= j
  BY <1>1, MinIsLeast
<1>3. \A j \in DOMAIN s : j < Min(K) => s[j] \notin M
  <2> SUFFICES ASSUME NEW j \in DOMAIN s, j < Min(K), j \in K
               PROVE  FALSE
    OBVIOUS
  <2>1. Min(K) <= j /\ j \in Nat /\ Min(K) \in Nat
    BY <1>1, <1>2
  <2> HIDE DEF K
  <2> QED
    BY <2>1
<1> HIDE DEF K
<1>4. Deciding(s, M) = s[Min(K)]
  BY DEF Deciding, K
<1>5. Min(K) \in DOMAIN s /\ s[Min(K)] \in M
  BY <1>2 DEF K
<1> QED
  BY <1>3, <1>4, <1>5

\* It is the first that matches.
LEMMA DecidingFirst ==
  ASSUME NEW V, NEW s \in Seq(V), NEW M, NEW i \in DOMAIN s, s[i] \in M,
         \A j \in DOMAIN s : j < i => s[j] \notin M
  PROVE  Deciding(s, M) = s[i]
<1> DEFINE K == {k \in DOMAIN s : s[k] \in M}
<1>1. K \in SUBSET Nat /\ i \in K
  BY LenProperties
<1>2. \A j \in K : i <= j
  BY <1>1
<1>3. Min(K) = i
  <2> HIDE DEF K
  <2> QED
    BY <1>1, <1>2, MinUnique
<1> HIDE DEF K
<1> QED
  BY <1>3 DEF Deciding, K

\* A later part of a file decides only when no line before it matches.
LEMMA DecidingConcat ==
  ASSUME NEW V, NEW s \in Seq(V), NEW t \in Seq(V), NEW M
  PROVE  /\ s \o t \in Seq(V)
         /\ Hits(s \o t, M) <=> Hits(s, M) \/ Hits(t, M)
         /\ Hits(s, M) => Deciding(s \o t, M) = Deciding(s, M)
         /\ ~Hits(s, M) /\ Hits(t, M) => Deciding(s \o t, M) = Deciding(t, M)
<1> DEFINE st == s \o t
           m == Len(s)
           n == Len(t)
<1>1. /\ m \in Nat /\ n \in Nat
      /\ DOMAIN s = 1..m /\ DOMAIN t = 1..n
      /\ st \in Seq(V) /\ DOMAIN st = 1..(m + n)
  BY LenProperties, ConcatProperties
<1>2. /\ \A i \in 1..m : st[i] = s[i]
      /\ \A i \in 1..n : st[m + i] = t[i]
  <2>1. \A i \in 1..(m + n) : st[i] = IF i <= m THEN s[i] ELSE t[i - m]
    BY ConcatProperties
  <2> HIDE DEF st, m, n
  <2>2. \A i \in 1..n : m + i \in 1..(m + n) /\ ~(m + i <= m) /\ (m + i) - m = i
    BY <1>1
  <2> QED
    BY <1>1, <2>1, <2>2
<1> HIDE DEF st, m, n
<1>3. \A i \in 1..(m + n) : i \in 1..m \/ \E j \in 1..n : i = m + j
  <2> TAKE i \in 1..(m + n)
  <2>1. i \in 1..m \/ (i - m \in 1..n /\ i = m + (i - m))
    BY <1>1
  <2> QED
    BY <2>1
<1>4. 1..m \subseteq 1..(m + n) /\ \A j \in 1..n : m + j \in 1..(m + n)
  BY <1>1
<1>5. Hits(st, M) <=> Hits(s, M) \/ Hits(t, M)
  <2>1. ASSUME NEW i \in 1..(m + n), st[i] \in M
        PROVE  Hits(s, M) \/ Hits(t, M)
    <3>1. CASE i \in 1..m
      BY <1>1, <1>2, <2>1, <3>1 DEF Hits
    <3>2. CASE \E j \in 1..n : i = m + j
      BY <1>1, <1>2, <2>1, <3>2 DEF Hits
    <3> QED
      BY <1>3, <3>1, <3>2
  <2>2. Hits(s, M) => Hits(st, M)
    BY <1>1, <1>2, <1>4 DEF Hits
  <2>3. Hits(t, M) => Hits(st, M)
    BY <1>1, <1>2, <1>4 DEF Hits
  <2>4. Hits(st, M) => Hits(s, M) \/ Hits(t, M)
    BY <1>1, <2>1 DEF Hits
  <2> QED
    BY <2>2, <2>3, <2>4
<1>6. ASSUME Hits(s, M)
      PROVE  Deciding(st, M) = Deciding(s, M)
  <2>1. PICK k \in 1..m : /\ Deciding(s, M) = s[k] /\ s[k] \in M
                          /\ \A j \in 1..m : j < k => s[j] \notin M
    BY <1>1, <1>6, DecidingMatches
  <2>2. \A j \in 1..(m + n) : j < k => st[j] \notin M
    <3> SUFFICES ASSUME NEW j \in 1..(m + n), j < k
                 PROVE  st[j] \notin M
      OBVIOUS
    <3>1. j \in 1..m
      BY <1>1
    <3> QED
      BY <1>2, <2>1, <3>1
  <2>3. k \in DOMAIN st /\ st[k] = s[k]
    BY <1>1, <1>2, <1>4
  <2> QED
    BY <1>1, <2>1, <2>2, <2>3, DecidingFirst
<1>7. ASSUME ~Hits(s, M), Hits(t, M)
      PROVE  Deciding(st, M) = Deciding(t, M)
  <2>1. PICK k \in 1..n : /\ Deciding(t, M) = t[k] /\ t[k] \in M
                          /\ \A j \in 1..n : j < k => t[j] \notin M
    BY <1>1, <1>7, DecidingMatches
  <2>2. \A j \in 1..(m + n) : j < m + k => st[j] \notin M
    <3> SUFFICES ASSUME NEW j \in 1..(m + n), j < m + k
                 PROVE  st[j] \notin M
      OBVIOUS
    <3>1. CASE j \in 1..m
      BY <1>1, <1>2, <1>7, <3>1 DEF Hits
    <3>2. CASE \E i \in 1..n : j = m + i
      <4>1. PICK i \in 1..n : j = m + i
        BY <3>2
      <4>2. i < k
        BY <1>1, <4>1
      <4> QED
        BY <1>2, <2>1, <4>1, <4>2
    <3> QED
      BY <1>3, <3>1, <3>2
  <2>3. m + k \in DOMAIN st /\ st[m + k] = t[k]
    BY <1>1, <1>2, <1>4
  <2> QED
    BY <1>1, <2>1, <2>2, <2>3, DecidingFirst
<1>8. st \in Seq(V)
  BY <1>1
<1> QED
  BY <1>5, <1>6, <1>7, <1>8 DEF st

\* The first row of an order that is in R comes first in priority among R.
LEMMA FirstOfSorted ==
  ASSUME NEW S, IsFiniteSet(S), \A r \in S : r.priority \in Int,
         NEW s \in Sorted(S), NEW R \in SUBSET S, NEW i \in DOMAIN s, s[i] \in R,
         \A j \in DOMAIN s : j < i => s[j] \notin R
  PROVE  s[i] \in First(R)
<1> DEFINE n == Cardinality(S)
<1>1. /\ n \in Nat /\ DOMAIN s = 1..n
      /\ \A r \in S : \E k \in 1..n : s[k] = r
      /\ \A k, l \in 1..n : k < l => s[k].priority <= s[l].priority
  BY SortedFacts
<1> HIDE DEF n
<1>2. \A r \in R : s[i].priority <= r.priority
  <2> TAKE r \in R
  <2>1. PICK k \in 1..n : s[k] = r
    BY <1>1
  <2>2. i \in 1..n /\ ~(k < i)
    BY <1>1, <2>1
  <2>3. i = k \/ i < k
    BY <1>1, <2>2
  <2>4. r.priority \in Int
    OBVIOUS
  <2> QED
    BY <1>1, <2>1, <2>2, <2>3, <2>4
<1> QED
  BY <1>2 DEF First

\* Which of the lines match is all that counts.
LEMMA DecidingSame ==
  ASSUME NEW s, NEW M, NEW N, \A k \in DOMAIN s : s[k] \in M <=> s[k] \in N
  PROVE  Deciding(s, M) = Deciding(s, N)
<1>1. {k \in DOMAIN s : s[k] \in M} = {k \in DOMAIN s : s[k] \in N}
  OBVIOUS
<1> QED
  BY <1>1 DEF Deciding

\* Rows that can be put in the order of their priorities.
Ranked(S) == IsFiniteSet(S) /\ \A r \in S : r.priority \in Int

\* Line by line, lines match in M what the rows of s match in R.
Renders(lines, s, M, R) ==
  DOMAIN lines = DOMAIN s /\ \A k \in DOMAIN s : lines[k] \in M <=> s[k] \in R

\* Of the lines rendered from an order of rules, one of a rule that comes first among
\* those that match decides, whatever the order of rules with one priority.
LEMMA RuleDecides ==
  ASSUME NEW S, Ranked(S), NEW s \in Sorted(S), NEW R \in SUBSET S, NEW M,
         NEW V, NEW lines \in Seq(V), Renders(lines, s, M, R)
  PROVE  /\ Hits(lines, M) <=> R # {}
         /\ R # {} => \E k \in DOMAIN s : Deciding(lines, M) = lines[k] /\ s[k] \in First(R)
<1> USE DEF Ranked, Renders
<1>1. \A r \in S : \E k \in DOMAIN s : s[k] = r
  BY SortedFacts
<1>2. Hits(lines, M) <=> R # {}
  BY <1>1 DEF Hits
<1>3. ASSUME R # {}
      PROVE  \E k \in DOMAIN s : Deciding(lines, M) = lines[k] /\ s[k] \in First(R)
  <2>1. Hits(lines, M)
    BY <1>2, <1>3
  <2>2. PICK k \in DOMAIN s : /\ Deciding(lines, M) = lines[k] /\ lines[k] \in M
                              /\ \A j \in DOMAIN s : j < k => lines[j] \notin M
    BY <2>1, DecidingMatches
  <2>3. s[k] \in R /\ \A j \in DOMAIN s : j < k => s[j] \notin R
    BY <2>2
  <2>4. s[k] \in First(R)
    BY <2>3, FirstOfSorted
  <2> QED
    BY <2>2, <2>4
<1> QED
  BY <1>2, <1>3

-----------------------------------------------------------------------------
(* The parts of the files *)

\* Rows rendered are the rows of the table that give a line, in their order.
LEMMA RenderedRows ==
  ASSUME NEW S, IsFiniteSet(S), \A r \in S : r.priority \in Int,
         NEW s \in Sorted(S), NEW up
  PROVE  /\ IsFiniteSet({r \in S : r.action = "direct" \/ up # <<>>})
         /\ Rendered(s, up) \in Sorted({r \in S : r.action = "direct" \/ up # <<>>})
<1> DEFINE I == {k \in DOMAIN s : s[k].action = "direct" \/ up # <<>>}
<1>1. Kept(s, I) \in Sorted({s[i] : i \in I})
  <2>1. I \in SUBSET DOMAIN s
    OBVIOUS
  <2> HIDE DEF I
  <2> QED
    BY <2>1, KeptSorted
<1>2. \A r \in S : \E k \in DOMAIN s : s[k] = r
  BY SortedFacts
<1>3. \A k \in DOMAIN s : s[k] \in S
  BY SortedFacts
<1>4. {s[i] : i \in I} = {r \in S : r.action = "direct" \/ up # <<>>}
  BY <1>2, <1>3
<1>5. IsFiniteSet({r \in S : r.action = "direct" \/ up # <<>>})
  BY FS_Subset
<1> QED
  BY <1>1, <1>4, <1>5 DEF Rendered

\* The parents a line names are the enabled ones.
LEMMA ParentsNamed ==
  ASSUME NEW S, IsFiniteSet(S), \A r \in S : r.priority \in Int,
         NEW s \in Sorted(S)
  PROVE  ToSet(ParentList(s)) = {<<p.address, p.port>> : p \in {q \in S : q.enabled}}
<1> DEFINE I == {k \in DOMAIN s : s[k].enabled}
           Q == {q \in S : q.enabled}
           kept == Kept(s, I)
<1>1. kept \in Sorted({s[i] : i \in I})
  <2>1. I \in SUBSET DOMAIN s
    OBVIOUS
  <2> HIDE DEF I
  <2> QED
    BY <2>1, KeptSorted
<1>2. \A r \in S : \E k \in DOMAIN s : s[k] = r
  BY SortedFacts
<1>3. \A k \in DOMAIN s : s[k] \in S
  BY SortedFacts
<1>4. {s[i] : i \in I} = Q /\ IsFiniteSet(Q)
  <2>1. IsFiniteSet(Q)
    BY FS_Subset
  <2> QED
    BY <1>2, <1>3, <2>1
<1>5. kept \in Sorted(Q)
  BY <1>1, <1>4
<1>6. ParentList(s) = [k \in DOMAIN kept |-> <<kept[k].address, kept[k].port>>]
  BY DEF ParentList
<1> HIDE DEF kept
<1>7. /\ \A k \in DOMAIN kept : kept[k] \in Q
      /\ \A q \in Q : \E k \in DOMAIN kept : kept[k] = q
  <2> HIDE DEF Q
  <2> QED
    BY <1>4, <1>5, SortedFacts
<1> QED
  BY <1>6, <1>7 DEF ToSet

\* The default line matches every name.
LEMMA RootMatches ==
  ASSUME NEW h \in Hosts
  PROVE  InDomain(h, Root)
<1>1. h \in Seq(STRING) /\ h # <<>>
  BY HostsAssumption
<1>2. Reverse(<<>>) = <<>>
  BY DEF Reverse
<1>3. Len(Reverse(h)) \in Nat
  BY <1>1, LenProperties DEF Reverse
<1>4. IsPrefix(<<>>, Reverse(h))
  BY <1>3 DEF IsPrefix
<1> QED
  BY <1>1, <1>2, <1>4 DEF InDomain, Root, IsStrictSuffix, IsSuffix

\* What a line of parent.config is about, and where it sends.
LEMMA LineFacts ==
  ASSUME NEW h, NEW a, NEW to, NEW go
  PROVE  /\ Matches(IpLine(to, go), h, a) <=> InRange(a, to)
         /\ Matches(DomainLine(to, go), h, a) <=> InDomain(h, to)
         /\ IpLine(to, go).go = go /\ DomainLine(to, go).go = go
BY DEF Matches, IpLine, DomainLine

\* The lines of V that match.
Matching(V, h, a) == {l \in V : Matches(l, h, a)}

\* The infrastructure lines decide for what is local, and send it direct.
LEMMA LocalDecides ==
  ASSUME NEW h, NEW a, NEW V,
         \A k \in DOMAIN LocalRanges : IpLine(LocalRanges[k], Direct) \in V,
         \A k \in DOMAIN LocalDomains : DomainLine(LocalDomains[k], Direct) \in V
  PROVE  LET M == Matching(V, h, a)
         IN  /\ Infrastructure \in Seq(V)
             /\ Hits(Infrastructure, M) <=> IsLocal(h, a)
             /\ IsLocal(h, a) => Deciding(Infrastructure, M).go = Direct
<1> DEFINE M == Matching(V, h, a)
           R == [k \in DOMAIN LocalRanges |-> IpLine(LocalRanges[k], Direct)]
           D == [k \in DOMAIN LocalDomains |-> DomainLine(LocalDomains[k], Direct)]
<1>1. R \in Seq(V) /\ D \in Seq(V)
  <2>1. PICK m \in Nat : DOMAIN LocalRanges = 1..m
    BY LocalAssumption, LenProperties
  <2>2. PICK n \in Nat : DOMAIN LocalDomains = 1..n
    BY LocalAssumption, LenProperties
  <2>3. R \in [1..m -> V] /\ D \in [1..n -> V]
    BY <2>1, <2>2
  <2> HIDE DEF R, D
  <2> QED
    BY <2>3
<1>2. /\ Hits(R, M) <=> \E k \in DOMAIN LocalRanges : InRange(a, LocalRanges[k])
      /\ Hits(D, M) <=> \E k \in DOMAIN LocalDomains : InDomain(h, LocalDomains[k])
  BY LineFacts DEF Hits, Matching
<1>3. \A k \in DOMAIN R : R[k].go = Direct
  BY LineFacts
<1>4. \A k \in DOMAIN D : D[k].go = Direct
  BY LineFacts
<1>5. Infrastructure = R \o D
  BY DEF Infrastructure
<1> HIDE DEF R, D, M
<1>6. /\ R \o D \in Seq(V)
      /\ Hits(R \o D, M) <=> Hits(R, M) \/ Hits(D, M)
      /\ Hits(R, M) => Deciding(R \o D, M) = Deciding(R, M)
      /\ ~Hits(R, M) /\ Hits(D, M) => Deciding(R \o D, M) = Deciding(D, M)
  BY <1>1, DecidingConcat
<1>7. Hits(R, M) => Deciding(R, M).go = Direct
  BY <1>1, <1>3, DecidingMatches
<1>8. Hits(D, M) => Deciding(D, M).go = Direct
  BY <1>1, <1>4, DecidingMatches
<1> QED
  BY <1>2, <1>5, <1>6, <1>7, <1>8 DEF IsLocal, M

\* The rows of validated rules.
IpRules == [cidr : [ip : Addrs, len : {Bare} \cup 0..Width],
            action : {"direct", "parent"}, priority : Int]

DomainRules == [domain : Names, action : {"direct", "parent"}, priority : Int]

\* The rules that cover an address, and those that cover a name.
Covering(S, a) == {r \in S : InPrefix(a, r.cidr)}

Naming(S, h) == {r \in S : InDomain(h, r.domain)}

\* The lines of the IP rules decide as the first of the rules that cover the address,
\* read as prefixes.
LEMMA IpRulesDecide ==
  ASSUME NEW S, Ranked(S), S \subseteq IpRules, NEW s \in Sorted(S), NEW up,
         NEW h, NEW a \in Addrs, NEW V, ToSet(IpLines(s, up)) \subseteq V
  PROVE  LET M == Matching(V, h, a)
             R == Covering(S, a)
         IN  /\ IpLines(s, up) \in Seq(V)
             /\ Hits(IpLines(s, up), M) <=> R # {}
             /\ R # {} => \E r \in First(R) :
                             Deciding(IpLines(s, up), M).go = Go(r.action, up)
<1> DEFINE lines == IpLines(s, up)
           M == Matching(V, h, a)
           R == Covering(S, a)
<1>1. /\ Cardinality(S) \in Nat /\ DOMAIN s = 1..Cardinality(S)
      /\ \A k \in DOMAIN s : s[k] \in S
  BY SortedFacts DEF Ranked
<1>2. /\ DOMAIN lines = DOMAIN s
      /\ \A k \in DOMAIN s : lines[k] = IpLine(CidrToRange(s[k].cidr), Go(s[k].action, up))
      /\ lines = [k \in DOMAIN s |-> lines[k]]
  BY DEF IpLines
<1> HIDE DEF lines
<1>3. \A k \in DOMAIN s : lines[k] \in V
  BY <1>2 DEF lines, ToSet
<1>4. lines \in Seq(V)
  <2>1. lines \in [1..Cardinality(S) -> V]
    BY <1>1, <1>2, <1>3
  <2> QED
    BY <1>1, <2>1
<1>5. \A k \in DOMAIN s : lines[k] \in M <=> s[k] \in R
  <2> TAKE k \in DOMAIN s
  <2>1. s[k] \in S /\ s[k].cidr \in [ip : Addrs, len : {Bare} \cup 0..Width]
    BY <1>1 DEF IpRules
  <2>2. Matches(lines[k], h, a) <=> InRange(a, CidrToRange(s[k].cidr))
    BY <1>2, LineFacts
  <2>3. InRange(a, CidrToRange(s[k].cidr)) <=> InPrefix(a, s[k].cidr)
    BY <2>1, RangeIsPrefix
  <2> QED
    BY <1>3, <2>1, <2>2, <2>3 DEF Matching, Covering
<1>6. R \in SUBSET S
  BY DEF Covering
<1> HIDE DEF M, R
<1>7. Renders(lines, s, M, R)
  BY <1>2, <1>5 DEF Renders
<1>8. /\ Hits(lines, M) <=> R # {}
      /\ R # {} => \E k \in DOMAIN s : Deciding(lines, M) = lines[k] /\ s[k] \in First(R)
  BY <1>4, <1>6, <1>7, RuleDecides, ZenonT(60)
<1>9. \A k \in DOMAIN s : lines[k].go = Go(s[k].action, up)
  <2> TAKE k \in DOMAIN s
  <2>1. lines[k] = IpLine(CidrToRange(s[k].cidr), Go(s[k].action, up))
    BY <1>2
  <2> QED
    BY <2>1, LineFacts
<1> QED
  BY <1>4, <1>8, <1>9 DEF lines, M, R

\* The lines of the domain rules decide as the first of the rules that cover the name.
LEMMA DomainRulesDecide ==
  ASSUME NEW S, Ranked(S), NEW s \in Sorted(S), NEW up,
         NEW h, NEW a, NEW V, ToSet(DomainLines(s, up)) \subseteq V
  PROVE  LET M == Matching(V, h, a)
             R == Naming(S, h)
         IN  /\ DomainLines(s, up) \in Seq(V)
             /\ Hits(DomainLines(s, up), M) <=> R # {}
             /\ R # {} => \E r \in First(R) :
                             Deciding(DomainLines(s, up), M).go = Go(r.action, up)
<1> DEFINE lines == DomainLines(s, up)
           M == Matching(V, h, a)
           R == Naming(S, h)
<1>1. /\ Cardinality(S) \in Nat /\ DOMAIN s = 1..Cardinality(S)
      /\ \A k \in DOMAIN s : s[k] \in S
  BY SortedFacts DEF Ranked
<1>2. /\ DOMAIN lines = DOMAIN s
      /\ \A k \in DOMAIN s : lines[k] = DomainLine(s[k].domain, Go(s[k].action, up))
      /\ lines = [k \in DOMAIN s |-> lines[k]]
  BY DEF DomainLines
<1> HIDE DEF lines
<1>3. \A k \in DOMAIN s : lines[k] \in V
  BY <1>2 DEF lines, ToSet
<1>4. lines \in Seq(V)
  <2>1. lines \in [1..Cardinality(S) -> V]
    BY <1>1, <1>2, <1>3
  <2> QED
    BY <1>1, <2>1
<1>5. \A k \in DOMAIN s : lines[k] \in M <=> s[k] \in R
  <2> TAKE k \in DOMAIN s
  <2>1. Matches(lines[k], h, a) <=> InDomain(h, s[k].domain)
    BY <1>2, LineFacts
  <2> QED
    BY <1>1, <1>3, <2>1 DEF Matching, Naming
<1>6. R \in SUBSET S
  BY DEF Naming
<1> HIDE DEF M, R
<1>7. Renders(lines, s, M, R)
  BY <1>2, <1>5 DEF Renders
<1>8. /\ Hits(lines, M) <=> R # {}
      /\ R # {} => \E k \in DOMAIN s : Deciding(lines, M) = lines[k] /\ s[k] \in First(R)
  BY <1>4, <1>6, <1>7, RuleDecides, ZenonT(60)
<1>9. \A k \in DOMAIN s : lines[k].go = Go(s[k].action, up)
  <2> TAKE k \in DOMAIN s
  <2>1. lines[k] = DomainLine(s[k].domain, Go(s[k].action, up))
    BY <1>2
  <2> QED
    BY <2>1, LineFacts
<1> QED
  BY <1>4, <1>8, <1>9 DEF lines, M, R

\* The lines of V that cover a client.
Admitting(V, a) == {l \in V : InPrefix(a, l.cidr)}

\* The lines of ip_allow.yaml before the two that deny the rest.
AclLines(s) == [k \in DOMAIN s |-> AclLine(s[k].cidr, s[k].action)]

\* The lines of the ACL decide as the first of the rules that cover the client.
LEMMA AclRulesDecide ==
  ASSUME NEW S, Ranked(S), NEW s \in Sorted(S), NEW a,
         NEW V, ToSet(AclLines(s)) \subseteq V
  PROVE  LET M == Admitting(V, a)
             R == Covering(S, a)
         IN  /\ AclLines(s) \in Seq(V)
             /\ Hits(AclLines(s), M) <=> R # {}
             /\ R # {} => \E r \in First(R) : Deciding(AclLines(s), M).action = r.action
<1> DEFINE lines == AclLines(s)
           M == Admitting(V, a)
           R == Covering(S, a)
<1>1. /\ Cardinality(S) \in Nat /\ DOMAIN s = 1..Cardinality(S)
      /\ \A k \in DOMAIN s : s[k] \in S
  BY SortedFacts DEF Ranked
<1>2. /\ DOMAIN lines = DOMAIN s
      /\ \A k \in DOMAIN s : lines[k].cidr = s[k].cidr /\ lines[k].action = s[k].action
      /\ lines = [k \in DOMAIN s |-> lines[k]]
  BY DEF AclLines, AclLine
<1>3. \A k \in DOMAIN s : lines[k] \in V
  BY <1>2 DEF ToSet
<1> HIDE DEF lines
<1>4. lines \in Seq(V)
  <2>1. lines \in [1..Cardinality(S) -> V]
    BY <1>1, <1>2, <1>3
  <2> QED
    BY <1>1, <2>1
<1>5. \A k \in DOMAIN s : lines[k] \in M <=> s[k] \in R
  BY <1>1, <1>2, <1>3 DEF Covering, Admitting
<1>6. R \in SUBSET S
  BY DEF Covering
<1> HIDE DEF M, R
<1>7. Renders(lines, s, M, R)
  BY <1>2, <1>5 DEF Renders
<1>8. /\ Hits(lines, M) <=> R # {}
      /\ R # {} => \E k \in DOMAIN s : Deciding(lines, M) = lines[k] /\ s[k] \in First(R)
  BY <1>4, <1>6, <1>7, RuleDecides, ZenonT(60)
<1> QED
  BY <1>2, <1>4, <1>8 DEF lines, M, R

\* Some row comes first.
LEMMA FirstExists ==
  ASSUME NEW S, Ranked(S), NEW s \in Sorted(S), NEW R \in SUBSET S, R # {}
  PROVE  First(R) # {}
<1>1. s \in Seq(S)
  BY SortedFacts DEF Ranked
<1>2. Renders(s, s, R, R)
  BY DEF Renders
<1> QED
  BY <1>1, <1>2, RuleDecides

-----------------------------------------------------------------------------
(* Where requests and clients go *)

\* generateParentConfig: the lines it renders from any order of the rows send each
\* request where the rules that were asked for say.
LEMMA RouteDecided ==
  ASSUME asked \in Bodies({"direct", "parent"}, {"direct", "parent"}, {"allow", "deny"}),
         NEW ips \in Sorted(asked.ips), NEW domains \in Sorted(asked.domains),
         NEW parents \in Sorted(asked.parents),
         NEW f, f.parent = ParentConfig(ips, domains, parents, asked.default),
         NEW h \in Hosts, NEW a \in Addrs
  PROVE  \E action \in WantedActions(h, a) :
            ToSet(Route(f, h, a)) = IF action = "direct" THEN {} ELSE EnabledParents
<1> DEFINE up == ParentList(parents)
           SI == {r \in asked.ips : r.action = "direct" \/ up # <<>>}
           SD == {r \in asked.domains : r.action = "direct" \/ up # <<>>}
           RI == Covering(SI, a)
           RD == Naming(SD, h)
           ri == Rendered(ips, up)
           rd == Rendered(domains, up)
           I == IpLines(ri, up)
           D == DomainLines(rd, up)
           root == DomainLine(Root, Go(asked.default, up))
           E == <<root>>
           V == {IpLine(LocalRanges[k], Direct) : k \in DOMAIN LocalRanges}
                \cup {DomainLine(LocalDomains[k], Direct) : k \in DOMAIN LocalDomains}
                \cup ToSet(I) \cup ToSet(D) \cup {root}
           M == Matching(V, h, a)
           WI == Covering(asked.ips, a)
           WD == Naming(asked.domains, h)
<1>1. /\ asked.ips \subseteq IpRules /\ Ranked(asked.ips)
      /\ asked.domains \subseteq DomainRules /\ Ranked(asked.domains)
      /\ Ranked(asked.parents)
  BY DEF Bodies, IpRules, DomainRules, Ranked
<1>2. ToSet(up) = EnabledParents
  BY <1>1, ParentsNamed DEF EnabledParents, Ranked
<1>3. f.parent = ((Infrastructure \o I) \o D) \o E
  BY DEF ParentConfig
<1> HIDE DEF up
<1>4. Ranked(SI) /\ ri \in Sorted(SI)
  BY <1>1, RenderedRows DEF Ranked
<1>5. Ranked(SD) /\ rd \in Sorted(SD)
  BY <1>1, RenderedRows DEF Ranked
<1>6. ToSet(I) \subseteq V
  OBVIOUS
<1>7. ToSet(D) \subseteq V
  OBVIOUS
<1>8. /\ \A k \in DOMAIN LocalRanges : IpLine(LocalRanges[k], Direct) \in V
      /\ \A k \in DOMAIN LocalDomains : DomainLine(LocalDomains[k], Direct) \in V
  OBVIOUS
<1>9. SI \subseteq IpRules
  BY <1>1
<1>10. root \in V
  OBVIOUS
<1> HIDE DEF V, SI, SD, ri, rd
<1>11. /\ Infrastructure \in Seq(V)
       /\ Hits(Infrastructure, M) <=> IsLocal(h, a)
       /\ IsLocal(h, a) => Deciding(Infrastructure, M).go = Direct
  BY <1>8, LocalDecides
<1>12. /\ I \in Seq(V)
       /\ Hits(I, M) <=> RI # {}
       /\ RI # {} => \E r \in First(RI) : Deciding(I, M).go = Go(r.action, up)
  BY <1>4, <1>6, <1>9, IpRulesDecide
<1>13. /\ D \in Seq(V)
       /\ Hits(D, M) <=> RD # {}
       /\ RD # {} => \E r \in First(RD) : Deciding(D, M).go = Go(r.action, up)
  BY <1>5, <1>7, DomainRulesDecide
<1>14. E \in Seq(V) /\ Hits(E, M) /\ Deciding(E, M).go = Go(asked.default, up)
  <2>1. E \in Seq(V) /\ DOMAIN E = {1} /\ E[1] = root
    BY <1>10
  <2>2. root \in M /\ root.go = Go(asked.default, up)
    BY <1>10, RootMatches, LineFacts DEF Matching
  <2> HIDE DEF root, E
  <2>3. Hits(E, M)
    BY <1>10, <2>1, <2>2 DEF Hits
  <2>4. Deciding(E, M) = root
    BY <2>1, <2>3, DecidingMatches
  <2> QED
    BY <2>1, <2>2, <2>3, <2>4
<1> DEFINE go == Route(f, h, a)
<1> HIDE DEF I, D, E, RI, RD
<1>15. /\ IsLocal(h, a) => go = Direct
       /\ ~IsLocal(h, a) /\ RI # {} => \E r \in First(RI) : go = Go(r.action, up)
       /\ ~IsLocal(h, a) /\ RI = {} /\ RD # {} =>
             \E r \in First(RD) : go = Go(r.action, up)
       /\ ~IsLocal(h, a) /\ RI = {} /\ RD = {} => go = Go(asked.default, up)
  <2> DEFINE A == Infrastructure \o I
             B == A \o D
             C == B \o E
  <2>1. /\ A \in Seq(V)
        /\ Hits(A, M) <=> Hits(Infrastructure, M) \/ Hits(I, M)
        /\ Hits(Infrastructure, M) => Deciding(A, M) = Deciding(Infrastructure, M)
        /\ ~Hits(Infrastructure, M) /\ Hits(I, M) => Deciding(A, M) = Deciding(I, M)
    BY <1>11, <1>12, DecidingConcat
  <2> HIDE DEF A
  <2>2. /\ B \in Seq(V)
        /\ Hits(B, M) <=> Hits(A, M) \/ Hits(D, M)
        /\ Hits(A, M) => Deciding(B, M) = Deciding(A, M)
        /\ ~Hits(A, M) /\ Hits(D, M) => Deciding(B, M) = Deciding(D, M)
    BY <1>13, <2>1, DecidingConcat
  <2> HIDE DEF B
  <2>3. /\ C \in Seq(V)
        /\ Hits(B, M) => Deciding(C, M) = Deciding(B, M)
        /\ ~Hits(B, M) /\ Hits(E, M) => Deciding(C, M) = Deciding(E, M)
    BY <1>14, <2>2, DecidingConcat
  <2>4. f.parent = C
    BY <1>3 DEF A, B
  <2> HIDE DEF C
  <2>5. go = Deciding(C, M).go
    <3> DEFINE N == {l \in ToSet(C) : Matches(l, h, a)}
    <3>1. \A k \in DOMAIN C : C[k] \in N <=> C[k] \in M
      BY <2>3 DEF ToSet, Matching
    <3> HIDE DEF N, M
    <3>2. Deciding(C, N) = Deciding(C, M)
      BY <3>1, DecidingSame
    <3> QED
      BY <2>4, <3>2 DEF Route, N
  <2> HIDE DEF M, go
  <2> QED
    BY <1>11, <1>12, <1>13, <1>14, <2>1, <2>2, <2>3, <2>5
<1> HIDE DEF go
<1>16. \A action : ToSet(Go(action, up)) = IF action = "direct" THEN {} ELSE EnabledParents
  BY <1>2 DEF Go, Direct, ToSet
<1>17. WI # {} => First(WI) # {}
  BY <1>1, FirstExists DEF Covering
<1>18. WD # {} => First(WD) # {}
  BY <1>1, FirstExists DEF Naming
<1>19. WantedActions(h, a) =
          IF IsLocal(h, a) THEN {"direct"}
          ELSE IF WI # {} THEN {r.action : r \in First(WI)}
          ELSE IF WD # {} THEN {r.action : r \in First(WD)}
          ELSE {asked.default}
  BY DEF WantedActions, Covering, Naming
<1>20. CASE up = <<>>
  <2>1. EnabledParents = {}
    BY <1>2, <1>20 DEF ToSet
  <2>2. go = <<>>
    BY <1>15, <1>20 DEF Go, Direct
  <2>3. ToSet(go) = {}
    BY <2>2 DEF ToSet
  <2>4. WantedActions(h, a) # {}
    <3> HIDE DEF WI, WD
    <3> QED
      BY <1>17, <1>18, <1>19
  <2> QED
    BY <2>1, <2>3, <2>4 DEF go
<1>21. CASE up # <<>>
  <2>1. RI = WI /\ RD = WD
    BY <1>21 DEF RI, RD, SI, SD
  <2> HIDE DEF WI, WD
  <2>2. \E action \in WantedActions(h, a) : go = Go(action, up)
    <3>1. Direct = Go("direct", up)
      BY DEF Go
    <3> QED
      BY <1>15, <1>19, <2>1, <3>1
  <2> QED
    BY <1>16, <2>2 DEF go
<1> QED
  BY <1>20, <1>21

\* generateIPAllowYaml: the lines it renders from any order of the ACL rules allow
\* and deny as the first rule that covers the client, and deny the rest.
LEMMA VerdictDecided ==
  ASSUME asked \in Bodies({"direct", "parent"}, {"direct", "parent"}, {"allow", "deny"}),
         NEW acl \in Sorted(asked.acl), NEW f, f.allow = IPAllowYaml(acl),
         NEW a \in Addrs \cup {Loopback6}
  PROVE  LET rules == {r \in asked.acl : InPrefix(a, r.cidr)}
         IN  Verdict(f, a) \in
                IF rules = {} THEN {"deny"} ELSE {r.action : r \in First(rules)}
<1> DEFINE R == Covering(asked.acl, a)
           A == AclLines(acl)
           all4 == AclLine([ip |-> Zero, len |-> 0], "deny")
           all6 == AclLine([ip |-> Loopback6, len |-> 0], "deny")
           B == <<all4, all6>>
           V == ToSet(A) \cup {all4, all6}
           M == Admitting(V, a)
<1>1. Ranked(asked.acl)
  BY DEF Bodies, Ranked
<1>2. ToSet(A) \subseteq V
  OBVIOUS
<1>3. /\ A \in Seq(V)
      /\ Hits(A, M) <=> R # {}
      /\ R # {} => \E r \in First(R) : Deciding(A, M).action = r.action
  <2> HIDE DEF V
  <2> QED
    BY <1>1, <1>2, AclRulesDecide
<1>4. B \in Seq(V) /\ Hits(B, M) /\ Deciding(B, M).action = "deny"
  <2>1. B \in Seq(V) /\ DOMAIN B = {1, 2} /\ B[1] = all4 /\ B[2] = all6
    OBVIOUS
  <2>2. /\ all4.action = "deny" /\ all4.cidr = [ip |-> Zero, len |-> 0]
        /\ all6.action = "deny" /\ all6.cidr = [ip |-> Loopback6, len |-> 0]
    BY DEF AclLine
  <2>3. InPrefix(a, all4.cidr) \/ InPrefix(a, all6.cidr)
    <3>1. 0 # Bare /\ Zero \in Addrs /\ Mask(0) = {} /\ Loopback6 \notin Addrs
      BY LocalAssumption DEF Bare, Zero, Addrs, Mask
    <3>2. /\ all4.cidr.ip = Zero /\ all4.cidr.len = 0
          /\ all6.cidr.ip = Loopback6 /\ all6.cidr.len = 0
      BY <2>2
    <3> HIDE DEF all4, all6
    <3>3. CASE a \in Addrs
      BY <3>1, <3>2, <3>3 DEF InPrefix
    <3>4. CASE a = Loopback6
      BY <3>1, <3>2, <3>4 DEF InPrefix
    <3> QED
      BY <3>3, <3>4
  <2>4. all4 \in V /\ all6 \in V
    OBVIOUS
  <2>5. Hits(B, M)
    <3> HIDE DEF V, B, all4, all6
    <3> QED
      BY <2>1, <2>3, <2>4 DEF Hits, Admitting
  <2>6. \A k \in DOMAIN B : B[k].action = "deny"
    BY <2>1, <2>2
  <2> HIDE DEF B, M, V
  <2>7. Deciding(B, M).action = "deny"
    BY <2>1, <2>5, <2>6, DecidingMatches
  <2> QED
    BY <2>1, <2>5, <2>7
<1> DEFINE C == A \o B
<1>5. f.allow = C
  BY DEF IPAllowYaml, AclLines
<1> HIDE DEF A, B, V, R
<1>6. /\ C \in Seq(V)
      /\ Hits(A, M) => Deciding(C, M) = Deciding(A, M)
      /\ ~Hits(A, M) /\ Hits(B, M) => Deciding(C, M) = Deciding(B, M)
  <2> HIDE DEF M
  <2> QED
    BY <1>3, <1>4, DecidingConcat
<1> HIDE DEF C
<1>7. Verdict(f, a) = Deciding(C, M).action
  <2> DEFINE N == {l \in ToSet(C) : InPrefix(a, l.cidr)}
  <2>1. \A k \in DOMAIN C : C[k] \in N <=> C[k] \in M
    BY <1>6 DEF ToSet, Admitting
  <2> HIDE DEF N, M
  <2>2. Deciding(C, N) = Deciding(C, M)
    BY <2>1, DecidingSame
  <2> QED
    BY <1>5, <2>2 DEF Verdict, N
<1> HIDE DEF M
<1>8. Verdict(f, a) \in IF R = {} THEN {"deny"} ELSE {r.action : r \in First(R)}
  BY <1>3, <1>4, <1>6, <1>7
<1> QED
  BY <1>8 DEF R, Covering

-----------------------------------------------------------------------------
(* What validateRules lets through *)

\* validateCIDR: no accepted CIDR, whatever way it is typed, holds 0.0.0.0.
LEMMA CidrNotTotal ==
  ASSUME NEW c \in Cidrs, ValidCIDR(c)
  PROVE  ~InPrefix(Zero, c)
<1>1. Zero \in Addrs
  BY DEF Zero, Addrs
<1>2. CASE c.ip \in Addrs /\ c.len = Bare
  BY <1>2 DEF ValidCIDR, InPrefix
<1>3. CASE c.ip \in Addrs /\ c.len # Bare
  <2>1. Network(c) # {}
    BY <1>3 DEF ValidCIDR, Zero
  <2>2. PICK i \in Mask(c.len) : i \in c.ip
    BY <2>1 DEF Network
  <2> QED
    BY <1>1, <1>3, <2>2 DEF InPrefix, Zero
<1>4. CASE c.ip \notin Addrs
  BY <1>1, <1>4 DEF InPrefix
<1> QED
  BY <1>2, <1>3, <1>4

\* validateDomain: a name of one label is below no accepted domain.
LEMMA DomainNotTotal ==
  ASSUME NEW d \in Names, ValidDomain(d)
  PROVE  \E h \in Hosts : ~InDomain(h, d)
<1>1. PICK h \in Hosts : h \in Seq(STRING) /\ Len(h) = 1
  BY HostsAssumption
<1>2. d.labels \in Seq(STRING) /\ Len(d.labels) >= 2 /\ Len(d.labels) \in Nat
  BY LenProperties DEF Names, ValidDomain
<1>3. h # d.labels
  <2> SUFFICES ASSUME h = d.labels
               PROVE  FALSE
    OBVIOUS
  <2>1. Len(d.labels) = 1
    BY <1>1
  <2> QED
    BY <1>2, <2>1
<1>4. ~IsSuffix(d.labels, h)
  <2>1. Len(Reverse(d.labels)) = Len(d.labels) /\ Len(Reverse(h)) = Len(h)
    BY <1>1, <1>2 DEF Reverse
  <2>2. ~(Len(Reverse(d.labels)) <= Len(Reverse(h)))
    BY <1>1, <1>2, <2>1
  <2> QED
    BY <2>2 DEF IsSuffix, IsPrefix
<1> QED
  BY <1>3, <1>4 DEF InDomain, IsStrictSuffix

\* The bodies validateRules lets through, and rules none of which is total.
Accepted == Bodies({"direct", "parent"}, {"direct", "parent"}, {"allow", "deny"})

Partial(b) ==
  /\ \A r \in b.ips \cup b.acl : ~InPrefix(Zero, r.cidr)
  /\ \A r \in b.domains : \E h \in Hosts : ~InDomain(h, r.domain)

\* The rules of an accepted request name actions the files know, and none is total.
LEMMA ValidAccepted ==
  ASSUME NEW q \in Requests, NEW r, r = Defaulted(q), ValidateRules(r)
  PROVE  r \in Accepted /\ Partial(r)
<1>1. q \in Bodies(STRING, STRING, STRING)
  BY RequestsAssumption
<1>2. /\ r = [default |-> r.default, domains |-> r.domains, ips |-> r.ips,
              acl |-> r.acl, parents |-> r.parents]
      /\ r.domains \subseteq [domain : Names, action : STRING, priority : Int]
      /\ r.ips \subseteq [cidr : [ip : Addrs, len : {Bare} \cup 0..Width],
                          action : STRING, priority : Int]
      /\ r.acl \subseteq [cidr : Cidrs, action : STRING, priority : Int]
      /\ r.parents \subseteq [address : Addrs, port : Int, priority : Int,
                              enabled : BOOLEAN]
      /\ IsFiniteSet(r.domains) /\ IsFiniteSet(r.ips)
      /\ IsFiniteSet(r.acl) /\ IsFiniteSet(r.parents)
  BY <1>1 DEF Bodies, Defaulted
<1>3. /\ r.default \in {"direct", "parent"}
      /\ \A d \in r.domains : d.action \in {"direct", "parent"} /\ ValidDomain(d.domain)
      /\ \A i \in r.ips : i.action \in {"direct", "parent"} /\ ValidCIDR(i.cidr)
      /\ \A a \in r.acl : a.action \in {"allow", "deny"} /\ ValidCIDR(a.cidr)
  <2>1. r.default \in {"direct", "parent"}
    BY DEF ValidateRules, ValidAction
  <2>2. \A d \in r.domains : d.action \in {"direct", "parent"} /\ ValidDomain(d.domain)
    BY DEF ValidateRules, ValidAction
  <2>3. \A i \in r.ips : i.action \in {"direct", "parent"} /\ ValidCIDR(i.cidr)
    BY DEF ValidateRules, ValidAction
  <2>4. \A a \in r.acl : a.action \in {"allow", "deny"} /\ ValidCIDR(a.cidr)
    BY DEF ValidateRules
  <2> QED
    BY <2>1, <2>2, <2>3, <2>4
<1>4. r \in Accepted
  <2>1. r.domains \subseteq [domain : Names, action : {"direct", "parent"}, priority : Int]
    BY <1>2, <1>3
  <2>2. r.ips \subseteq [cidr : [ip : Addrs, len : {Bare} \cup 0..Width],
                         action : {"direct", "parent"}, priority : Int]
    BY <1>2, <1>3
  <2>3. r.acl \subseteq [cidr : Cidrs, action : {"allow", "deny"}, priority : Int]
    BY <1>2, <1>3
  <2> QED
    BY <1>2, <1>3, <2>1, <2>2, <2>3 DEF Accepted, Bodies
<1>5. \A i \in r.ips : i.cidr \in Cidrs
  BY <1>2 DEF Cidrs
<1>6. \A i \in r.ips \cup r.acl : i.cidr \in Cidrs /\ ValidCIDR(i.cidr)
  BY <1>2, <1>3, <1>5
<1>7. \A d \in r.domains : d.domain \in Names /\ ValidDomain(d.domain)
  BY <1>2, <1>3
<1>8. Partial(r)
  BY <1>6, <1>7, CidrNotTotal, DomainNotTotal DEF Partial
<1> QED
  BY <1>4, <1>8

\* So are the rules Create adds to a request that has none for the clients.
LEMMA DefaultAccepted ==
  /\ DefaultACL \subseteq [cidr : Cidrs, action : {"allow", "deny"}, priority : Int]
  /\ IsFiniteSet(DefaultACL)
  /\ \A r \in DefaultACL : ~InPrefix(Zero, r.cidr)
<1> DEFINE c4 == [ip |-> Loopback, len |-> Bare]
           c6 == [ip |-> Loopback6, len |-> Bare]
<1>1. c4 \in Cidrs /\ c6 \in Cidrs /\ Private \in Cidrs
  BY LocalAssumption DEF Cidrs
<1>2. ValidCIDR(c4) /\ ValidCIDR(c6) /\ ValidCIDR(Private)
  <2>1. 0..Width \subseteq Int /\ ~(Bare \in 0..Width)
    BY WidthAssumption DEF Bare
  <2> QED
    BY <2>1, LocalAssumption DEF ValidCIDR
<1>3. \A r \in DefaultACL : r.cidr \in {c4, c6, Private}
  BY DEF DefaultACL
<1>4. DefaultACL \subseteq [cidr : Cidrs, action : {"allow", "deny"}, priority : Int]
  BY <1>1 DEF DefaultACL
<1>5. IsFiniteSet(DefaultACL)
  <2> DEFINE r1 == [cidr |-> c4, action |-> "allow", priority |-> 10]
             r2 == [cidr |-> c6, action |-> "allow", priority |-> 20]
             r3 == [cidr |-> Private, action |-> "allow", priority |-> 30]
  <2>1. DefaultACL = (({} \cup {r1}) \cup {r2}) \cup {r3}
    BY DEF DefaultACL
  <2> HIDE DEF r1, r2, r3
  <2>2. IsFiniteSet({} \cup {r1})
    BY FS_EmptySet, FS_AddElement
  <2>3. IsFiniteSet(({} \cup {r1}) \cup {r2})
    BY <2>2, FS_AddElement
  <2> QED
    BY <2>1, <2>3, FS_AddElement
<1> HIDE DEF c4, c6
<1>6. \A r \in DefaultACL : ~InPrefix(Zero, r.cidr)
  BY <1>1, <1>2, <1>3, CidrNotTotal
<1> QED
  BY <1>4, <1>5, <1>6

-----------------------------------------------------------------------------
(* The invariant *)

\* What the tables hold is what the last Create or Update answered with, of the
\* shape validateRules accepts, and the files come from it.
GenInv == TypeOK /\ cfg = asked /\ NoTotalRule

\* A new configuration has accepted rules, its ACL never empty.
LEMMA CreateKeeps ==
  ASSUME NEW q \in Requests, NEW r, r = Defaulted(q), GenInv, Create(r)
  PROVE  GenInv'
<1> DEFINE body == [r EXCEPT !.acl = IF @ = {} THEN DefaultACL ELSE @]
<1>1. r \in Accepted /\ Partial(r)
  BY ValidAccepted DEF Create
<1>2. body \in Accepted /\ Partial(body)
  <2>1. CASE r.acl = {}
    <3>1. body = [r EXCEPT !.acl = DefaultACL]
      BY <2>1
    <3>2. /\ body.ips = r.ips /\ body.domains = r.domains
          /\ body.acl = DefaultACL
      BY <1>1, <3>1 DEF Accepted, Bodies
    <3>3. body \in Accepted
      BY <1>1, <3>1, DefaultAccepted DEF Accepted, Bodies
    <3> QED
      BY <1>1, <3>2, <3>3, DefaultAccepted DEF Partial
  <2>2. CASE r.acl # {}
    <3>1. body = r
      BY <1>1, <2>2 DEF Accepted, Bodies
    <3> QED
      BY <1>1, <3>1
  <2> QED
    BY <2>1, <2>2
<1>3. /\ cfg' = body /\ asked' = body /\ status' = "draft"
      /\ status = "none" /\ hashed' = hashed /\ served' = served
  BY DEF Create
<1> HIDE DEF body
<1>4. TypeOK'
  BY <1>2, <1>3 DEF GenInv, TypeOK, Accepted
<1>5. NoTotalRule'
  BY <1>2, <1>3 DEF NoTotalRule, Partial
<1> QED
  BY <1>3, <1>4, <1>5 DEF GenInv

\* An update replaces every table by accepted rules.
LEMMA UpdateKeeps ==
  ASSUME NEW q \in Requests, NEW r, r = Defaulted(q), GenInv, Update(r)
  PROVE  GenInv'
<1>1. r \in Accepted /\ Partial(r)
  BY ValidAccepted DEF Update
<1>2. r = [default |-> r.default, domains |-> r.domains, ips |-> r.ips,
           parents |-> r.parents, acl |-> r.acl]
  BY <1>1 DEF Accepted, Bodies
<1>3. /\ cfg' = r /\ asked' = r /\ status' = "draft"
      /\ status = "draft" /\ hashed' = hashed /\ served' = served
  BY <1>2 DEF Update, Replaced
<1>4. TypeOK'
  BY <1>1, <1>3 DEF GenInv, TypeOK, Accepted
<1>5. NoTotalRule'
  BY <1>1, <1>3 DEF NoTotalRule, Partial
<1> QED
  BY <1>3, <1>4, <1>5 DEF GenInv

\* The files are a matter of the tables alone.
LEMMA FilesSame ==
  ASSUME cfg' = cfg
  PROVE  Files' = Files
BY DEF Files

\* The tables are not written any more when a configuration is approved or served.
LEMMA NextKeeps ==
  ASSUME GenInv, [Next]_vars
  PROVE  GenInv'
<1>1. ASSUME NEW q \in Requests, Create(Defaulted(q))
      PROVE  GenInv'
  BY <1>1, CreateKeeps
<1>2. ASSUME NEW q \in Requests, Update(Defaulted(q))
      PROVE  GenInv'
  BY <1>2, UpdateKeeps
<1>3. CASE Approve
  <2>1. /\ status' = "active" /\ hashed' \in Files /\ served' = served
        /\ cfg' = cfg /\ asked' = asked /\ status = "draft"
    BY <1>3 DEF Approve
  <2>2. Files' = Files
    BY <2>1, FilesSame
  <2> QED
    BY <2>1, <2>2 DEF GenInv, TypeOK, NoTotalRule
<1>4. CASE GetConfig
  <2>1. /\ status' = status /\ hashed' = hashed /\ served' \in Files
        /\ cfg' = cfg /\ asked' = asked /\ status = "active"
    BY <1>4 DEF GetConfig
  <2>2. Files' = Files
    BY <2>1, FilesSame
  <2> QED
    BY <2>1, <2>2 DEF GenInv, TypeOK, NoTotalRule
<1>5. CASE UNCHANGED vars
  <2>1. /\ status' = status /\ hashed' = hashed /\ served' = served
        /\ cfg' = cfg /\ asked' = asked
    BY <1>5 DEF vars
  <2>2. Files' = Files
    BY <2>1, FilesSame
  <2> QED
    BY <2>1, <2>2 DEF GenInv, TypeOK, NoTotalRule
<1> QED
  BY <1>1, <1>2, <1>3, <1>4, <1>5 DEF Next

\* No rules yet: nothing to serve.
LEMMA InitHolds == Init => GenInv
<1> SUFFICES ASSUME Init
             PROVE  GenInv
  OBVIOUS
<1>1. EmptyBody \in Bodies({"direct", "parent"}, {"direct", "parent"}, {"allow", "deny"})
  BY FS_EmptySet DEF EmptyBody, Bodies
<1>2. TypeOK
  BY <1>1 DEF Init, TypeOK
<1>3. NoTotalRule
  BY DEF Init, NoTotalRule, EmptyBody
<1> QED
  BY <1>2, <1>3 DEF GenInv, Init

\* The invariant holds in every reachable state.
THEOREM InvHolds == Spec => []GenInv
BY InitHolds, NextKeeps, PTL DEF Spec

-----------------------------------------------------------------------------
(* What the runs check, for every width and every request *)

\* TypeOK: the tables hold what validateRules accepts, and the files come from them.
THEOREM TypeCorrect == Spec => []TypeOK
BY InvHolds, PTL DEF GenInv

\* NoTotalRule: no set of accepted rules decides for every address or name.
THEOREM TotalCorrect == Spec => []NoTotalRule
BY InvHolds, PTL DEF GenInv

\* An answer has files of the rules that were asked for, each in some order.
LEMMA ServedRendered ==
  ASSUME GenInv, served # None
  PROVE  /\ status = "active"
         /\ asked \in Bodies({"direct", "parent"}, {"direct", "parent"}, {"allow", "deny"})
         /\ \E ips \in Sorted(asked.ips), domains \in Sorted(asked.domains),
               parents \in Sorted(asked.parents), acl \in Sorted(asked.acl) :
               /\ served.parent = ParentConfig(ips, domains, parents, asked.default)
               /\ served.allow = IPAllowYaml(acl)
<1>1. status = "active" /\ served \in Files /\ cfg = asked
  BY DEF GenInv, TypeOK
<1>2. asked \in Bodies({"direct", "parent"}, {"direct", "parent"}, {"allow", "deny"})
  BY DEF GenInv, TypeOK
<1> QED
  BY <1>1, <1>2 DEF Files

\* RoutesAsAsked: every request goes where the rules asked for say.
THEOREM RoutesCorrect == Spec => []RoutesAsAsked
<1>1. GenInv => RoutesAsAsked
  <2> SUFFICES ASSUME GenInv, served # None, NEW h \in Hosts, NEW a \in Addrs
               PROVE  \E action \in WantedActions(h, a) :
                         ToSet(Route(served, h, a)) =
                            IF action = "direct" THEN {} ELSE EnabledParents
    BY DEF RoutesAsAsked
  <2> QED
    BY ServedRendered, RouteDecided
<1> QED
  BY <1>1, InvHolds, PTL

\* ClientsAsAsked: a client is allowed or denied as the ACL asked for says.
THEOREM ClientsCorrect == Spec => []ClientsAsAsked
<1>1. GenInv => ClientsAsAsked
  BY ServedRendered, VerdictDecided DEF ClientsAsAsked
<1> QED
  BY <1>1, InvHolds, PTL

\* ServedIsHashed: files rendered again are the files hashed, when no two rows of a
\* table have one priority.
THEOREM HashedCorrect == Spec => []ServedIsHashed
<1>1. GenInv => ServedIsHashed
  <2> SUFFICES ASSUME GenInv, served # None,
                      Distinct(cfg.ips), Distinct(cfg.domains),
                      Distinct(cfg.parents), Distinct(cfg.acl)
               PROVE  served = hashed
    BY DEF ServedIsHashed
  <2>1. served \in Files /\ hashed \in Files
    BY DEF GenInv, TypeOK
  <2>2. /\ Ranked(cfg.ips) /\ Ranked(cfg.domains)
        /\ Ranked(cfg.parents) /\ Ranked(cfg.acl)
    BY DEF GenInv, TypeOK, Bodies, Ranked
  <2>3. PICK ips \in Sorted(cfg.ips), domains \in Sorted(cfg.domains),
             parents \in Sorted(cfg.parents), acl \in Sorted(cfg.acl) :
             served = [parent |-> ParentConfig(ips, domains, parents, cfg.default),
                       sni    |-> SNIYaml(domains),
                       allow  |-> IPAllowYaml(acl)]
    BY <2>1 DEF Files
  <2>4. PICK ips2 \in Sorted(cfg.ips), domains2 \in Sorted(cfg.domains),
             parents2 \in Sorted(cfg.parents), acl2 \in Sorted(cfg.acl) :
             hashed = [parent |-> ParentConfig(ips2, domains2, parents2, cfg.default),
                       sni    |-> SNIYaml(domains2),
                       allow  |-> IPAllowYaml(acl2)]
    BY <2>1 DEF Files
  <2>5. ips = ips2
    BY <2>2, OneOrder DEF Ranked
  <2>6. domains = domains2
    BY <2>2, OneOrder DEF Ranked
  <2>7. parents = parents2
    BY <2>2, OneOrder DEF Ranked
  <2>8. acl = acl2
    BY <2>2, OneOrder DEF Ranked
  <2> QED
    BY <2>3, <2>4, <2>5, <2>6, <2>7, <2>8
<1> QED
  BY <1>1, InvHolds, PTL

=============================================================================
