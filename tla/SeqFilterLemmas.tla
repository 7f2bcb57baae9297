--------------------------- MODULE SeqFilterLemmas ---------------------------
(***************************************************************************)
(* Facts about Rank and Keep (SeqFilter) that the refinement proof of the *)
(* retriever needs: the type and length of Keep, how it extends when the  *)
(* sequence is appended to, and what it keeps from one block of indices.  *)
(***************************************************************************)
EXTENDS SeqFilter, NatLemmas, FiniteSetTheorems, SequenceTheorems, TLAPS

\* Among the first i indices at most i are in I.
LEMMA RankType ==
    ASSUME NEW I, NEW i \in Nat
    PROVE  /\ IsFiniteSet(I \cap 1..i)
           /\ Rank(I, i) \in 0..i
<1>1. IsFiniteSet(1..i) /\ Cardinality(1..i) = i
    BY FS_Interval
<1>2. QED
    BY <1>1, FS_Subset, FS_CardinalityType DEF Rank

\* Each index adds one to the rank when it is in I, and nothing otherwise.
LEMMA RankStep ==
    ASSUME NEW I, NEW i \in Nat \ {0}
    PROVE  Rank(I, i) = Rank(I, i - 1) + (IF i \in I THEN 1 ELSE 0)
<1>1. IsFiniteSet(I \cap 1..i - 1) /\ i \notin I \cap 1..i - 1
    BY RankType
<1>2. CASE i \in I
    <2>1. I \cap 1..i = (I \cap 1..i - 1) \cup {i}
        BY <1>2
    <2>2. QED
        BY <1>1, <1>2, <2>1, FS_AddElement DEF Rank
<1>3. CASE i \notin I
    <2>1. I \cap 1..i = I \cap 1..i - 1
        BY <1>3
    <2>2. Rank(I, i) = Rank(I, i - 1)
        BY <2>1 DEF Rank
    <2>3. Rank(I, i - 1) \in Nat
        <3>1. i - 1 \in Nat
            OBVIOUS
        <3>2. Rank(I, i - 1) \in 0..i - 1
            BY <3>1, RankType
        <3>3. QED
            BY <3>1, <3>2
    <2>4. QED
        BY <1>3, <2>2, <2>3
<1>4. QED
    BY <1>2, <1>3

\* The rank does not decrease.
LEMMA RankMono ==
    ASSUME NEW I, NEW i \in Nat, NEW m \in Nat, i <= m
    PROVE  Rank(I, i) <= Rank(I, m)
<1>1. IsFiniteSet(I \cap 1..m) /\ I \cap 1..i \subseteq I \cap 1..m
    BY RankType
<1>2. QED
    BY <1>1, FS_Subset DEF Rank

\* Within I the rank is strictly increasing: no two indices share one.
LEMMA RankInjective ==
    ASSUME NEW I, NEW i \in I \cap Nat, NEW j \in I \cap Nat, i < j
    PROVE  Rank(I, i) < Rank(I, j)
<1>1. Rank(I, i) <= Rank(I, j - 1)
    BY RankMono
<1>2. Rank(I, j) = Rank(I, j - 1) + 1
    BY RankStep
<1>3. Rank(I, i) \in Nat /\ Rank(I, j - 1) \in Nat
    <2>1. j - 1 \in Nat
        OBVIOUS
    <2>2. Rank(I, i) \in 0..i
        BY RankType
    <2>3. Rank(I, j - 1) \in 0..j - 1
        BY <2>1, RankType
    <2>4. QED
        BY <2>2, <2>3
<1>4. QED
    BY <1>1, <1>2, <1>3

\* A set of indices up to N is finite, and its size is the rank of N.
LEMMA IndexSetSize ==
    ASSUME NEW N \in Nat, NEW I \in SUBSET (1..N)
    PROVE  /\ IsFiniteSet(I)
           /\ Cardinality(I) = Rank(I, N)
           /\ Cardinality(I) \in 0..N
<1>1. I \cap 1..N = I
    OBVIOUS
<1>2. QED
    BY <1>1, RankType DEF Rank

\* Every rank from 1 to the size of I is the rank of an index of I: the
\* rank climbs by at most one per index.
LEMMA KeptAtSpec ==
    ASSUME NEW N \in Nat, NEW I \in SUBSET (1..N),
           NEW k \in 1..Cardinality(I)
    PROVE  KeptAt(I, k) \in I /\ Rank(I, KeptAt(I, k)) = k
<1> DEFINE Late == {i \in 0..N : Rank(I, i) >= k}
<1>1. SUFFICES \E i \in I : Rank(I, i) = k
    BY DEF KeptAt
<1>2. N \in Late /\ Late \in SUBSET Nat
    BY IndexSetSize
<1>3. PICK m \in Late : \A j \in Late : m <= j
    BY <1>2, LeastNat
<1>4. Rank(I, 0) = 0
    BY FS_EmptySet DEF Rank
<1>5. m # 0
    BY <1>3, <1>4
<1>6. m - 1 \in 0..N /\ m - 1 \notin Late
    BY <1>3, <1>5
<1>7. Rank(I, m - 1) \in Nat /\ Rank(I, m - 1) < k
    <2>0. m - 1 \in Nat
        BY <1>6
    <2>1. Rank(I, m - 1) \in 0..m - 1
        BY <2>0, RankType
    <2>2. QED
        BY <1>6, <2>1
<1>8. Rank(I, m) = Rank(I, m - 1) + (IF m \in I THEN 1 ELSE 0)
    BY <1>3, <1>5, RankStep
<1>9. m \in I /\ Rank(I, m) = k
    BY <1>3, <1>7, <1>8 DEF Late
<1>10. QED
    BY <1>9

\* An index of I with rank k is the one KeptAt picks.
LEMMA KeptAtUnique ==
    ASSUME NEW N \in Nat, NEW I \in SUBSET (1..N),
           NEW p \in I, NEW k \in Nat, Rank(I, p) = k
    PROVE  KeptAt(I, k) = p
<1>1. k \in 1..Cardinality(I)
    <2>1. Rank(I, p) = Rank(I, p - 1) + 1
        BY RankStep
    <2>2. Rank(I, p - 1) \in Nat
        <3>1. p - 1 \in Nat
            OBVIOUS
        <3>2. Rank(I, p - 1) \in 0..p - 1
            BY <3>1, RankType
        <3>3. QED
            BY <3>1, <3>2
    <2>3. Rank(I, p) <= Rank(I, N)
        BY RankMono
    <2>4. QED
        BY <2>1, <2>2, <2>3, IndexSetSize
<1>2. KeptAt(I, k) \in I /\ Rank(I, KeptAt(I, k)) = k
    BY <1>1, KeptAtSpec
<1>3. KeptAt(I, k) \in Nat /\ p \in Nat
    <2>1. KeptAt(I, k) \in 1..N /\ p \in 1..N
        BY <1>2
    <2>2. QED
        BY <2>1
<1>4. ~(KeptAt(I, k) < p)
    BY <1>2, <1>3, RankInjective
<1>5. ~(p < KeptAt(I, k))
    BY <1>2, <1>3, RankInjective
<1>6. QED
    BY <1>3, <1>4, <1>5

-----------------------------------------------------------------------------
\* Keep of a set of indices of s is a sequence of elements of s, one per
\* index.
LEMMA KeepType ==
    ASSUME NEW S, NEW s \in Seq(S), NEW I \in SUBSET (1..Len(s))
    PROVE  /\ Keep(s, I) \in Seq(S)
           /\ Len(Keep(s, I)) = Cardinality(I)
           /\ \A k \in 1..Cardinality(I) : Keep(s, I)[k] = s[KeptAt(I, k)]
<1>1. Cardinality(I) \in Nat
    BY IndexSetSize
<1>2. ASSUME NEW k \in 1..Cardinality(I)
      PROVE  KeptAt(I, k) \in 1..Len(s)
    <2>1. Len(s) \in Nat
        OBVIOUS
    <2>2. QED
        BY <2>1, KeptAtSpec
<1>3. QED
    BY <1>1, <1>2 DEF Keep

\* Appending an element that is not kept leaves Keep alone; appending one
\* that is kept appends it to Keep.
LEMMA KeepAppend ==
    ASSUME NEW S, NEW s \in Seq(S), NEW x \in S, NEW I \in SUBSET (1..Len(s))
    PROVE  /\ Keep(Append(s, x), I) = Keep(s, I)
           /\ Keep(Append(s, x), I \cup {Len(s) + 1}) = Append(Keep(s, I), x)
<1>1. PICK L \in Nat : L = Len(s)
    OBVIOUS
<1>2. PICK t \in Seq(S) : t = Append(s, x)
    BY AppendProperties
<1>3. PICK J : J = I \cup {L + 1}
    OBVIOUS
<1>4. /\ Len(t) = L + 1 /\ t[L + 1] = x
      /\ \A i \in 1..L : t[i] = s[i]
    BY <1>1, <1>2, AppendProperties
<1>5. /\ L + 1 \in Nat
      /\ I \in SUBSET (1..L)
      /\ J \in SUBSET (1..(L + 1))
      /\ L + 1 \in J /\ L + 1 \notin I
    <2>1. L + 1 \in Nat /\ L + 1 \in 1..(L + 1) /\ I \subseteq 1..(L + 1)
        BY <1>1
    <2>2. L + 1 \notin I
        BY <1>1
    <2>3. J \in SUBSET (1..(L + 1))
        BY <1>3, <2>1, Zenon
    <2>4. QED
        BY <1>1, <1>3, <2>1, <2>2, <2>3
<1>6. ASSUME NEW k \in 1..Cardinality(I)
      PROVE  KeptAt(I, k) \in I /\ KeptAt(I, k) \in 1..L /\ Rank(I, KeptAt(I, k)) = k
    BY <1>5, KeptAtSpec
<1>7. Keep(t, I) = Keep(s, I)
    BY <1>4, <1>6 DEF Keep
<1>8. Cardinality(I) \in Nat /\ Cardinality(J) = Cardinality(I) + 1
    <2>1. IsFiniteSet(I) /\ Cardinality(I) \in Nat
        BY <1>5, IndexSetSize
    <2>2. QED
        BY <1>3, <1>5, <2>1, FS_AddElement
<1>9. ASSUME NEW k \in 1..Cardinality(I)
      PROVE  KeptAt(J, k) = KeptAt(I, k)
    <2>1. PICK p \in I : p = KeptAt(I, k) /\ p \in 1..L /\ Rank(I, p) = k
        BY <1>6
    <2>2. J \cap 1..p = I \cap 1..p
        BY <1>3, <2>1
    <2>3. Rank(J, p) = k
        BY <2>1, <2>2 DEF Rank
    <2>4. p \in J /\ k \in Nat
        BY <1>3, <2>1
    <2>5. KeptAt(J, k) = p
        BY <1>5, <2>3, <2>4, KeptAtUnique
    <2>6. QED
        BY <2>1, <2>5
<1>10. KeptAt(J, Cardinality(I) + 1) = L + 1
    <2>1. Rank(J, L + 1) = Cardinality(J)
        BY <1>5, IndexSetSize
    <2>2. PICK c \in Nat : c = Cardinality(I) + 1 /\ Rank(J, L + 1) = c
        BY <1>8, <2>1
    <2>3. KeptAt(J, c) = L + 1
        BY <1>5, <2>2, KeptAtUnique
    <2>4. QED
        BY <2>2, <2>3
<1>11. Keep(t, J) = Append(Keep(s, I), x)
    <2>1. /\ Keep(s, I) \in Seq(S)
          /\ Len(Keep(s, I)) = Cardinality(I)
          /\ \A k \in 1..Cardinality(I) : Keep(s, I)[k] = s[KeptAt(I, k)]
        BY KeepType
    <2>2. /\ Keep(t, J) \in Seq(S)
          /\ Len(Keep(t, J)) = Cardinality(J)
          /\ \A k \in 1..Cardinality(J) : Keep(t, J)[k] = t[KeptAt(J, k)]
        BY <1>4, <1>5, KeepType
    <2>3. /\ Append(Keep(s, I), x) \in Seq(S)
          /\ Len(Append(Keep(s, I), x)) = Cardinality(I) + 1
          /\ \A k \in 1..Cardinality(I) : Append(Keep(s, I), x)[k] = Keep(s, I)[k]
          /\ Append(Keep(s, I), x)[Cardinality(I) + 1] = x
        BY <2>1, AppendProperties
    <2>4. ASSUME NEW k \in 1..Cardinality(I)
          PROVE  Keep(t, J)[k] = Append(Keep(s, I), x)[k]
        <3>1. k \in 1..Cardinality(J)
            BY <1>8
        <3>2. Keep(t, J)[k] = t[KeptAt(I, k)]
            BY <1>9, <2>2, <3>1
        <3>3. t[KeptAt(I, k)] = s[KeptAt(I, k)]
            BY <1>4, <1>6
        <3>4. QED
            BY <2>1, <2>3, <3>2, <3>3
    <2>5. Keep(t, J)[Cardinality(I) + 1] = x
        <3>1. Cardinality(I) + 1 \in 1..Cardinality(J)
            BY <1>8
        <3>2. QED
            BY <1>4, <1>10, <2>2, <3>1
    <2>6. QED
        BY <1>8, <2>2, <2>3, <2>4, <2>5, SeqEqual
<1>12. QED
    BY <1>1, <1>2, <1>3, <1>7, <1>11

\* Keep of a block a..b of indices is the subsequence from a to b.
LEMMA KeepInterval ==
    ASSUME NEW S, NEW s \in Seq(S), NEW a \in 1..Len(s) + 1,
           NEW b \in a - 1..Len(s)
    PROVE  Keep(s, a..b) = SubSeq(s, a, b)
<1>0. Len(s) \in Nat /\ a \in Int /\ b \in Int /\ b >= a - 1
    OBVIOUS
<1>1. Cardinality(a..b) = b - a + 1
    <2>1. Cardinality(a..b) = IF a > b THEN 0 ELSE b - a + 1
        BY <1>0, FS_Interval
    <2>2. QED
        BY <1>0, <2>1
<1>2. ASSUME NEW k \in 1..b - a + 1
      PROVE  KeptAt(a..b, k) = a + k - 1
    <2>1. (a..b) \cap 1..(a + k - 1) = a..(a + k - 1)
        BY <1>0
    <2>2. Cardinality(a..(a + k - 1)) = k
        <3>1. Cardinality(a..(a + k - 1)) = IF a > a + k - 1 THEN 0 ELSE (a + k - 1) - a + 1
            BY <1>0, FS_Interval
        <3>2. QED
            BY <1>0, <3>1
    <2>3. Rank(a..b, a + k - 1) = k
        BY <2>1, <2>2 DEF Rank
    <2>4. /\ a..b \in SUBSET (1..Len(s))
          /\ a + k - 1 \in a..b
          /\ k \in Nat
        BY <1>0
    <2>5. QED
        BY <1>0, <2>3, <2>4, KeptAtUnique
<1>3. QED
    BY <1>0, <1>1, <1>2 DEF Keep

\* Keep of no index is the empty sequence.
LEMMA KeepEmpty ==
    ASSUME NEW s
    PROVE  Keep(s, {}) = << >>
<1>1. Cardinality({}) = 0
    BY FS_EmptySet
<1>2. QED
    BY <1>1 DEF Keep

=============================================================================
