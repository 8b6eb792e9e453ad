----------------------------- MODULE HeapOpsProofs -----------------------------
(* What the operators of HeapOps do to any heap and frame manager that go    *)
(* together (HeapFine), for every page and header size and every request:    *)
(* the lemmas on which the proofs about the heap and its users rest.         *)
EXTENDS HeapOps, SequenceTheorems, FiniteSetTheorems, WellFoundedInduction, TLAPS

-----------------------------------------------------------------------------
(* Arithmetic.                                                               *)

\* Multiples of Word: what RoundUp and the sizes of pages and headers are.
LEMMA WholeSum ==
    ASSUME NEW x \in Nat, NEW y \in Nat, x % Word = 0, y % Word = 0
    PROVE  /\ (x + y) % Word = 0
           /\ x >= y => (x - y) % Word = 0
<1> DEFINE q == x \div Word
           r == y \div Word
<1>1. Word \in Nat \ {0}
    BY HeapAssumption
<1>2. q \in Nat /\ r \in Nat /\ x = Word * q /\ y = Word * r
    BY <1>1
<1> HIDE DEF q, r
<1>3. x + y = Word * (q + r) /\ x - y = Word * (q - r)
    BY <1>1, <1>2
<1>4. \A k \in Int : (Word * k) % Word = 0
    BY <1>1
<1>5. QED
    BY <1>2, <1>3, <1>4

\* Rounding up gives whole words, and no less unless it wraps.
LEMMA RoundUpCovers ==
    ASSUME NEW size \in 0 .. SizeMod - 1
    PROVE  /\ RoundUp(size) \in Nat
           /\ RoundUp(size) % Word = 0
           /\ size <= SizeMod - Word => size <= RoundUp(size)
<1> DEFINE t == (size + Word - 1) % SizeMod
           q == t \div Word
<1>1. Word \in Nat \ {0} /\ SizeMod \in Nat \ {0}
    BY HeapAssumption
<1>2. t \in Nat /\ (size <= SizeMod - Word => t = size + Word - 1)
    BY <1>1
<1> HIDE DEF t
<1>3. q \in Nat /\ Word * q <= t /\ t < Word * q + Word
    BY <1>1, <1>2
<1>4. RoundUp(size) = Word * q
    BY <1>1, <1>3 DEF RoundUp, t
<1> HIDE DEF q
<1>5. \A k \in Int : (Word * k) % Word = 0
    BY <1>1
<1>6. (Word * q) % Word = 0
    BY <1>3, <1>5
<1>7. Word * q \in Nat
    BY <1>1, <1>3
<1>8. size <= SizeMod - Word => size <= Word * q
    BY <1>1, <1>2, <1>3, <1>7
<1>9. QED
    BY <1>4, <1>6, <1>7, <1>8

\* The counters: what lies below CounterMod is kept, and one more may wrap to 0.
LEMMA CounterStays ==
    ASSUME NEW n \in Nat
    PROVE  /\ n % CounterMod \in Nat
           /\ n < CounterMod => n % CounterMod = n
           /\ ((n % CounterMod) + 1) % CounterMod = (n + 1) % CounterMod
<1> DEFINE m == CounterMod
           q == n \div m
           r == n % m
<1>1. m \in Nat \ {0}
    BY HeapAssumption
<1> HIDE DEF m
<1>2. q \in Nat /\ r \in 0 .. m - 1 /\ n = m * q + r
    BY <1>1
<1>3. n < m => r = n
    BY <1>1
<1> HIDE DEF q, r
<1>4. (r + 1) % m = (n + 1) % m
  <2>1. CASE r + 1 = m
    <3>1. n + 1 = m * (q + 1) /\ q + 1 \in Int
      BY <1>1, <1>2, <2>1
    <3>2. \A k \in Int : (m * k) % m = 0
      BY <1>1
    <3>3. m = m * 1
      BY <1>1
    <3>4. QED
      BY <2>1, <3>1, <3>2, <3>3
  <2>2. CASE r + 1 < m
    <3>1. n + 1 = m * q + (r + 1) /\ r + 1 \in 0 .. m - 1
      BY <1>1, <1>2, <2>2
    <3>2. \A k \in Nat, s \in 0 .. m - 1 : (m * k + s) % m = s /\ s % m = s
      BY <1>1
    <3>3. QED
      BY <1>2, <3>1, <3>2
  <2>3. QED
    BY <1>1, <1>2, <2>1, <2>2
<1>5. QED
    BY <1>1, <1>2, <1>3, <1>4 DEF m, r

\* Every non-empty set of naturals has a least element.
LEMMA LeastNatural ==
    ASSUME NEW S \in SUBSET Nat, S # {}
    PROVE  \E n \in S : \A m \in S : n <= m
<1> DEFINE Less == {ss \in Nat \X Nat : ss[1] < ss[2]}
<1>1. IsWellFoundedOn(Less, Nat)
    BY NatLessThanWellFounded, Zenon DEF OpToRel
<1>2. \E n \in S : \A m \in S : ~ (<<m, n>> \in Less)
  <2> HIDE DEF Less
  <2>1. QED
    BY <1>1, WFMin
<1>3. \A m, n \in Nat : ~ (<<m, n>> \in Less) <=> n <= m
    OBVIOUS
<1>4. QED
  <2> HIDE DEF Less
  <2>1. QED
    BY <1>2, <1>3

-----------------------------------------------------------------------------
(* Sums.                                                                     *)

\* Induction, for sets: what holds of 0 and passes on to the next holds up to n.
LEMMA UpTo ==
    ASSUME NEW n \in Nat, NEW S, 0 \in S, \A k \in 0 .. n - 1 : k \in S => k + 1 \in S
    PROVE  \A k \in 0 .. n : k \in S
<1> DEFINE X == {k \in 0 .. n : k \notin S}
<1>1. SUFFICES ASSUME X # {} PROVE FALSE
    OBVIOUS
<1>2. X \in SUBSET Nat
    OBVIOUS
<1>3. PICK m \in X : \A k \in X : m <= k
  <2> HIDE DEF X
  <2>1. QED
    BY <1>1, <1>2, LeastNatural
<1>4. m \in 0 .. n /\ m \notin S /\ m # 0
    OBVIOUS
<1>5. m - 1 \in 0 .. n - 1 /\ m - 1 \in 0 .. n /\ ~(m <= m - 1) /\ (m - 1) + 1 = m
    BY <1>4
<1>6. m - 1 \in S
    BY <1>3, <1>5
<1>7. QED
    BY <1>4, <1>5, <1>6

\* F lists the sums of f[1] .. f[k], for k up to n.
SumsUpTo(F, f, n) == F = [k \in 0 .. n |-> IF k = 0 THEN 0 ELSE F[k - 1] + f[k]]

\* The recursion of a sum has a solution.
LEMMA SumsExist ==
    ASSUME NEW f, NEW n \in Nat
    PROVE  \E F : SumsUpTo(F, f, n)
<1> DEFINE S == {k \in 0 .. n : \E F : SumsUpTo(F, f, k)}
<1>1. 0 \in S
  <2> DEFINE F == [k \in 0 .. 0 |-> 0]
  <2>1. F = [k \in 0 .. 0 |-> IF k = 0 THEN 0 ELSE F[k - 1] + f[k]]
    OBVIOUS
  <2>2. SumsUpTo(F, f, 0)
    BY <2>1 DEF SumsUpTo
  <2>3. QED
    BY <2>2
<1>2. ASSUME NEW m \in 0 .. n - 1, m \in S PROVE m + 1 \in S
  <2>1. PICK G : SumsUpTo(G, f, m)
    BY <1>2
  <2> DEFINE next == G[m] + f[m + 1]
             F == [k \in 0 .. m + 1 |-> IF k = m + 1 THEN next ELSE G[k]]
  <2>2. \A k \in 0 .. m : G[k] = IF k = 0 THEN 0 ELSE G[k - 1] + f[k]
    BY <2>1 DEF SumsUpTo
  <2>3. ASSUME NEW k \in 0 .. m + 1
        PROVE  F[k] = IF k = 0 THEN 0 ELSE F[k - 1] + f[k]
    <3>1. CASE k = m + 1
      <4>1. k # 0 /\ k - 1 \in 0 .. m + 1 /\ k - 1 # m + 1 /\ k - 1 = m
        BY <3>1
      <4>2. QED
        BY <3>1, <4>1
    <3>2. CASE k # m + 1
      <4>1. k \in 0 .. m /\ (k # 0 => k - 1 \in 0 .. m + 1 /\ k - 1 # m + 1)
        BY <3>2
      <4>2. F[k] = G[k] /\ (k # 0 => F[k - 1] = G[k - 1])
        BY <3>2, <4>1
      <4> HIDE DEF F
      <4>3. QED
        BY <2>2, <4>1, <4>2
    <3>3. QED
      BY <3>1, <3>2
  <2>4. SumsUpTo(F, f, m + 1)
    <3> DEFINE H(x) == [k \in 0 .. m + 1 |-> IF k = 0 THEN 0 ELSE x[k - 1] + f[k]]
    <3>1. F = H(F)
      BY <2>3
    <3>2. QED
      BY <3>1 DEF SumsUpTo
  <2>5. QED
    BY <2>4
<1> HIDE DEF S
<1>3. \A k \in 0 .. n : k \in S
    BY <1>1, <1>2, UpTo
<1>4. QED
    BY <1>3 DEF S

\* A sum one term longer.
LEMMA TotalStep ==
    ASSUME NEW f, NEW n \in Nat
    PROVE  Total(f, 0) = 0 /\ Total(f, n + 1) = Total(f, n) + f[n + 1]
<1>1. ASSUME NEW m \in Nat
      PROVE  \E F : /\ Total(f, m) = F[m]
                    /\ \A k \in 0 .. m : F[k] = IF k = 0 THEN 0 ELSE F[k - 1] + f[k]
  <2> DEFINE F == CHOOSE G : SumsUpTo(G, f, m)
  <2>1. Total(f, m) = F[m]
    BY DEF Total, SumsUpTo
  <2>2. SumsUpTo(F, f, m)
    BY SumsExist
  <2> HIDE DEF F
  <2>3. \A k \in 0 .. m : F[k] = IF k = 0 THEN 0 ELSE F[k - 1] + f[k]
    BY <2>2 DEF SumsUpTo
  <2>4. QED
    BY <2>1, <2>3
<1>2. Total(f, 0) = 0
  <2>1. PICK F : Total(f, 0) = F[0]
                 /\ \A k \in 0 .. 0 : F[k] = IF k = 0 THEN 0 ELSE F[k - 1] + f[k]
    BY <1>1
  <2>2. QED
    BY <2>1
<1>3. PICK F : /\ Total(f, n) = F[n]
               /\ \A k \in 0 .. n : F[k] = IF k = 0 THEN 0 ELSE F[k - 1] + f[k]
    BY <1>1
<1>4. PICK G : /\ Total(f, n + 1) = G[n + 1]
               /\ \A k \in 0 .. n + 1 : G[k] = IF k = 0 THEN 0 ELSE G[k - 1] + f[k]
    BY <1>1
<1> DEFINE S == {k \in 0 .. n : F[k] = G[k]}
<1>5. 0 \in S
    BY <1>3, <1>4
<1>6. ASSUME NEW k \in 0 .. n - 1, k \in S PROVE k + 1 \in S
  <2>1. k + 1 \in 0 .. n /\ k + 1 \in 0 .. n + 1 /\ k + 1 # 0 /\ (k + 1) - 1 = k
    OBVIOUS
  <2>2. F[k + 1] = F[k] + f[k + 1] /\ G[k + 1] = G[k] + f[k + 1]
    BY <1>3, <1>4, <2>1
  <2>3. QED
    BY <1>6, <2>1, <2>2
<1>7. F[n] = G[n]
  <2> HIDE DEF S
  <2>1. n \in S
    BY <1>5, <1>6, UpTo
  <2>2. QED
    BY <2>1 DEF S
<1>8. G[n + 1] = G[n] + f[n + 1]
  <2>1. n + 1 \in 0 .. n + 1 /\ n + 1 # 0 /\ (n + 1) - 1 = n
    OBVIOUS
  <2>2. QED
    BY <1>4, <2>1
<1>9. QED
    BY <1>2, <1>3, <1>4, <1>7, <1>8

\* Sums of naturals are naturals.
LEMMA TotalNatural ==
    ASSUME NEW f, NEW n \in Nat, \A k \in 1 .. n : f[k] \in Nat
    PROVE  \A k \in 0 .. n : Total(f, k) \in Nat
<1> DEFINE S == {k \in 0 .. n : Total(f, k) \in Nat}
<1>1. 0 \in S
    BY TotalStep
<1>2. ASSUME NEW k \in 0 .. n - 1, k \in S PROVE k + 1 \in S
  <2>1. k + 1 \in 1 .. n /\ k + 1 \in 0 .. n /\ k \in Nat
    OBVIOUS
  <2>2. Total(f, k + 1) = Total(f, k) + f[k + 1]
    BY <2>1, TotalStep
  <2>3. QED
    BY <1>2, <2>1, <2>2
<1> HIDE DEF S
<1>3. \A k \in 0 .. n : k \in S
    BY <1>1, <1>2, UpTo
<1>4. QED
    BY <1>3 DEF S

\* r terms of f after n and of g after m are the same.
SameTerms(f, n, g, m, r) ==
    /\ \A k \in 1 .. n + r : f[k] \in Nat
    /\ \A k \in 1 .. m + r : g[k] \in Nat
    /\ \A k \in 1 .. r : g[m + k] = f[n + k]

\* The same terms further along add the same.
LEMMA TotalShifted ==
    ASSUME NEW f, NEW g, NEW n \in Nat, NEW m \in Nat, NEW r \in Nat,
           SameTerms(f, n, g, m, r)
    PROVE  Total(g, m + r) - Total(g, m) = Total(f, n + r) - Total(f, n)
<1> DEFINE S == {k \in 0 .. r : Total(g, m + k) - Total(g, m) = Total(f, n + k) - Total(f, n)}
<1>1. /\ \A k \in 0 .. n + r : Total(f, k) \in Nat
      /\ \A k \in 0 .. m + r : Total(g, k) \in Nat
    BY TotalNatural DEF SameTerms
<1>2. 0 \in S
  <2>1. m + 0 = m /\ n + 0 = n /\ m \in 0 .. m + r /\ n \in 0 .. n + r
    OBVIOUS
  <2>2. QED
    BY <1>1, <2>1
<1>3. ASSUME NEW k \in 0 .. r - 1, k \in S PROVE k + 1 \in S
  <2>1. /\ k + 1 \in 1 .. r /\ k + 1 \in 0 .. r
        /\ m + k \in 0 .. m + r /\ n + k \in 0 .. n + r
        /\ m \in 0 .. m + r /\ n \in 0 .. n + r
        /\ (m + k) + 1 = m + (k + 1) /\ (n + k) + 1 = n + (k + 1)
        /\ n + (k + 1) \in 1 .. n + r
    OBVIOUS
  <2>2. /\ Total(g, m + (k + 1)) = Total(g, m + k) + g[m + (k + 1)]
        /\ Total(f, n + (k + 1)) = Total(f, n + k) + f[n + (k + 1)]
    BY <2>1, TotalStep
  <2>3. g[m + (k + 1)] = f[n + (k + 1)] /\ f[n + (k + 1)] \in Nat
    BY <2>1 DEF SameTerms
  <2>4. /\ Total(g, m + k) \in Nat /\ Total(f, n + k) \in Nat
        /\ Total(g, m) \in Nat /\ Total(f, n) \in Nat
    BY <1>1, <2>1
  <2>5. QED
    BY <1>3, <2>1, <2>2, <2>3, <2>4
<1> HIDE DEF S
<1>4. \A k \in 0 .. r : k \in S
    BY <1>2, <1>3, UpTo
<1>5. r \in 0 .. r
    OBVIOUS
<1>6. QED
    BY <1>4, <1>5 DEF S

\* The sum of the sums is the sum of both.
LEMMA TotalOfSums ==
    ASSUME NEW f, NEW g, NEW h, NEW n \in Nat,
           \A k \in 1 .. n : f[k] \in Nat /\ g[k] \in Nat /\ h[k] = f[k] + g[k]
    PROVE  Total(h, n) = Total(f, n) + Total(g, n)
<1> DEFINE S == {k \in 0 .. n : Total(h, k) = Total(f, k) + Total(g, k)}
<1>1. \A k \in 0 .. n : Total(f, k) \in Nat /\ Total(g, k) \in Nat
    BY TotalNatural
<1>2. 0 \in S
    BY TotalStep
<1>3. ASSUME NEW k \in 0 .. n - 1, k \in S PROVE k + 1 \in S
  <2>1. k + 1 \in 1 .. n /\ k + 1 \in 0 .. n /\ k \in Nat /\ k \in 0 .. n
    OBVIOUS
  <2>2. /\ Total(f, k + 1) = Total(f, k) + f[k + 1]
        /\ Total(g, k + 1) = Total(g, k) + g[k + 1]
        /\ Total(h, k + 1) = Total(h, k) + h[k + 1]
    BY <2>1, TotalStep
  <2>3. Total(h, k) = Total(f, k) + Total(g, k)
    BY <1>3
  <2>4. h[k + 1] = f[k + 1] + g[k + 1] /\ f[k + 1] \in Nat /\ g[k + 1] \in Nat
    BY <2>1
  <2>5. Total(f, k) \in Nat /\ Total(g, k) \in Nat
    BY <1>1, <2>1
  <2>6. QED
    BY <2>1, <2>2, <2>3, <2>4, <2>5
<1> HIDE DEF S
<1>4. \A k \in 0 .. n : k \in S
    BY <1>2, <1>3, UpTo
<1>5. n \in 0 .. n
    OBVIOUS
<1>6. QED
    BY <1>4, <1>5 DEF S

\* A sum of n times c.
LEMMA TotalConstant ==
    ASSUME NEW f, NEW c \in Nat, NEW n \in Nat, \A k \in 1 .. n : f[k] = c
    PROVE  Total(f, n) = c * n
<1> DEFINE S == {k \in 0 .. n : Total(f, k) = c * k}
<1>1. 0 \in S
    BY TotalStep
<1>2. ASSUME NEW k \in 0 .. n - 1, k \in S PROVE k + 1 \in S
  <2>1. k + 1 \in 1 .. n /\ k + 1 \in 0 .. n /\ k \in Nat
    OBVIOUS
  <2>2. Total(f, k + 1) = c * k + c
    BY <1>2, <2>1, TotalStep
  <2>3. c * (k + 1) = c * k + c
    BY <2>1
  <2>4. QED
    BY <2>1, <2>2, <2>3
<1> HIDE DEF S
<1>3. n \in S
    BY <1>1, <1>2, UpTo
<1>4. QED
    BY <1>3 DEF S

\* Ones and zeroes add up to the number of ones.
LEMMA TotalCounts ==
    ASSUME NEW f, NEW n \in Nat, \A k \in 1 .. n : f[k] \in {0, 1}
    PROVE  Cardinality({k \in 1 .. n : f[k] = 1}) = Total(f, n)
<1> DEFINE Ones(m) == {k \in 1 .. m : f[k] = 1}
           S == {m \in 0 .. n : /\ IsFiniteSet(Ones(m))
                               /\ Cardinality(Ones(m)) = Total(f, m)}
<1>1. 0 \in S
  <2>1. Ones(0) = {}
    OBVIOUS
  <2> HIDE DEF Ones
  <2>2. QED
    BY <2>1, FS_EmptySet, TotalStep
<1>2. ASSUME NEW m \in 0 .. n - 1, m \in S PROVE m + 1 \in S
  <2>1. m + 1 \in 1 .. n /\ m + 1 \in 0 .. n /\ m \in Nat
    OBVIOUS
  <2>2. Total(f, m + 1) = Total(f, m) + f[m + 1]
    BY <2>1, TotalStep
  <2>3. Ones(m + 1) = IF f[m + 1] = 1 THEN Ones(m) \cup {m + 1} ELSE Ones(m)
    <3>1. 1 .. m + 1 = (1 .. m) \cup {m + 1}
      BY <2>1
    <3>2. QED
      BY <3>1
  <2>4. m + 1 \notin Ones(m)
    BY <2>1
  <2>5. IsFiniteSet(Ones(m)) /\ Cardinality(Ones(m)) = Total(f, m)
    BY <1>2
  <2>6. f[m + 1] = 0 \/ f[m + 1] = 1
    BY <2>1
  <2> HIDE DEF Ones
  <2>7. Cardinality(Ones(m)) \in Nat
    BY <2>5, FS_CardinalityType
  <2>8. CASE f[m + 1] = 1
    <3>1. /\ IsFiniteSet(Ones(m) \cup {m + 1})
          /\ Cardinality(Ones(m) \cup {m + 1}) = Cardinality(Ones(m)) + 1
      BY <2>4, <2>5, FS_AddElement
    <3>2. QED
      BY <2>1, <2>2, <2>3, <2>5, <2>8, <3>1
  <2>9. CASE f[m + 1] = 0
    <3>1. Ones(m + 1) = Ones(m)
      BY <2>3, <2>9
    <3>2. Total(f, m + 1) = Total(f, m)
      BY <2>2, <2>5, <2>7, <2>9
    <3>3. QED
      BY <2>1, <2>5, <3>1, <3>2
  <2>10. QED
    BY <2>6, <2>8, <2>9
<1>3. n \in S
  <2> HIDE DEF S
  <2>1. QED
    BY <1>1, <1>2, UpTo
<1>4. QED
    BY <1>3

-----------------------------------------------------------------------------
(* The block list.                                                           *)

\* c is b with positions i..j replaced by s, element by element.
Spliced(c, b, i, j, s) ==
    /\ Len(c) = Len(b) - (j - i + 1) + Len(s)
    /\ \A k \in 1 .. Len(c) :
          c[k] = IF k < i THEN b[k]
                 ELSE IF k < i + Len(s) THEN s[k - i + 1]
                 ELSE b[k - Len(s) + (j - i + 1)]

\* A run of a list replaced by another list.
LEMMA SpliceIs ==
    ASSUME NEW S, NEW b \in Seq(S), NEW s \in Seq(S),
           NEW i \in 1 .. Len(b), NEW j \in i .. Len(b)
    PROVE  Splice(b, i, j, s) \in Seq(S) /\ Spliced(Splice(b, i, j, s), b, i, j, s)
<1> DEFINE l == SubSeq(b, 1, i - 1)
           r == SubSeq(b, j + 1, Len(b))
<1>1. Len(b) \in Nat /\ Len(s) \in Nat /\ \A k \in 1 .. Len(b) : b[k] \in S
    BY LenProperties, ElementOfSeq
<1>2. l \in Seq(S) /\ Len(l) = i - 1 /\ \A k \in 1 .. i - 1 : l[k] = b[k]
  <2>1. \A k \in 1 .. i - 1 : b[k] \in S
    BY <1>1
  <2>2. QED
    BY <1>1, <2>1, SubSeqProperties
<1>3. r \in Seq(S) /\ Len(r) = Len(b) - j /\ \A k \in 1 .. Len(b) - j : r[k] = b[j + k]
  <2>1. \A k \in j + 1 .. Len(b) : b[k] \in S
    BY <1>1
  <2>2. /\ r \in Seq(S)
        /\ Len(r) = IF j + 1 <= Len(b) THEN Len(b) - (j + 1) + 1 ELSE 0
        /\ \A k \in 1 .. Len(b) - (j + 1) + 1 : r[k] = b[j + 1 + k - 1]
    BY <1>1, <2>1, SubSeqProperties
  <2>3. QED
    BY <1>1, <2>2
<1> HIDE DEF l, r
<1>4. /\ l \o s \in Seq(S)
      /\ Len(l \o s) = i - 1 + Len(s)
      /\ \A k \in 1 .. i - 1 + Len(s) :
            (l \o s)[k] = IF k <= i - 1 THEN l[k] ELSE s[k - (i - 1)]
  <2>1. /\ l \o s \in Seq(S)
        /\ Len(l \o s) = Len(l) + Len(s)
        /\ \A k \in 1 .. Len(l) + Len(s) :
              (l \o s)[k] = IF k <= Len(l) THEN l[k] ELSE s[k - Len(l)]
    BY <1>2, ConcatProperties
  <2>2. QED
    BY <1>2, <2>1
<1>5. /\ (l \o s) \o r \in Seq(S)
      /\ Len((l \o s) \o r) = (i - 1 + Len(s)) + (Len(b) - j)
      /\ \A k \in 1 .. (i - 1 + Len(s)) + (Len(b) - j) :
            ((l \o s) \o r)[k] = IF k <= i - 1 + Len(s) THEN (l \o s)[k]
                                 ELSE r[k - (i - 1 + Len(s))]
  <2> DEFINE m == l \o s
  <2>1. m \in Seq(S) /\ Len(m) = i - 1 + Len(s)
    BY <1>4
  <2>2. r \in Seq(S) /\ m \in Seq(S)
    BY <1>3, <2>1
  <2> HIDE DEF m
  <2>3. /\ m \o r \in Seq(S)
        /\ Len(m \o r) = Len(m) + Len(r)
        /\ \A k \in 1 .. Len(m) + Len(r) :
              (m \o r)[k] = IF k <= Len(m) THEN m[k] ELSE r[k - Len(m)]
    BY <2>2, ConcatProperties
  <2>4. /\ m \o r \in Seq(S)
        /\ Len(m \o r) = (i - 1 + Len(s)) + (Len(b) - j)
        /\ \A k \in 1 .. (i - 1 + Len(s)) + (Len(b) - j) :
              (m \o r)[k] = IF k <= i - 1 + Len(s) THEN m[k] ELSE r[k - (i - 1 + Len(s))]
    BY <1>3, <2>1, <2>3
  <2>5. QED
    BY <2>4 DEF m
<1> DEFINE c == (l \o s) \o r
<1>6. Splice(b, i, j, s) = c
    BY DEF Splice, l, r
<1>7. ASSUME NEW k \in 1 .. Len(c)
      PROVE  c[k] = IF k < i THEN b[k]
                    ELSE IF k < i + Len(s) THEN s[k - i + 1]
                    ELSE b[k - Len(s) + (j - i + 1)]
  <2>1. CASE k < i
    BY <1>1, <1>2, <1>4, <1>5, <2>1, SMTT(30)
  <2>2. CASE k >= i /\ k < i + Len(s)
    BY <1>1, <1>4, <1>5, <2>2
  <2>3. CASE k >= i + Len(s)
    <3>1. c[k] = r[k - (i - 1 + Len(s))]
      <4>1. k \in 1 .. (i - 1 + Len(s)) + (Len(b) - j) /\ ~ (k <= i - 1 + Len(s))
        BY <1>1, <1>5, <2>3
      <4>2. QED
        BY <1>5, <4>1
    <3>2. k - (i - 1 + Len(s)) \in 1 .. Len(b) - j
      BY <1>1, <1>5, <2>3
    <3>3. c[k] = b[j + (k - (i - 1 + Len(s)))]
      BY <1>3, <3>1, <3>2
    <3>4. j + (k - (i - 1 + Len(s))) = k - Len(s) + (j - i + 1)
      BY <1>1, <1>5
    <3>5. QED
      BY <1>1, <2>3, <3>3, <3>4
  <2>4. QED
    BY <1>1, <2>1, <2>2, <2>3
<1>8. c \in Seq(S) /\ Len(c) = Len(b) - (j - i + 1) + Len(s)
    BY <1>1, <1>5
<1> HIDE DEF c
<1>9. QED
    BY <1>6, <1>7, <1>8 DEF Spliced
-----------------------------------------------------------------------------
(* What a block list is like between two calls.                              *)

End(block) == block.addr + Hdr + block.size

\* The list is in the order of memory, and no two blocks overlap.
Ordered(b) == \A i, j \in DOMAIN b : i < j => End(b[i]) <= b[j].addr

Settled(b) == \A i \in DOMAIN b : i > 1 => b[i - 1].used \/ b[i].used

Whole(b) == \A i \in DOMAIN b : b[i].size % Word = 0

ListFine(b) == b \in Seq(Block) /\ Whole(b) /\ Ordered(b) /\ Settled(b)

\* The regions in the callers' hands.
Regions(b) == {[start |-> PtrOf(b[i]), size |-> b[i].size] : i \in UsedIn(b)}

\* Every block of t lies between the start of a block of b and the end of one.
Within(t, b) ==
    \A k \in DOMAIN t : \E i, j \in DOMAIN b :
        b[i].addr <= t[k].addr /\ End(t[k]) <= End(b[j])

\* The fields of a block of the list, and its bounds.
LEMMA BlockTyped ==
    ASSUME NEW b \in Seq(Block), NEW i \in DOMAIN b
    PROVE  /\ b[i] \in Block /\ b[i].addr \in Nat /\ b[i].size \in Nat
           /\ b[i].used \in BOOLEAN
           /\ b[i] = [addr |-> b[i].addr, size |-> b[i].size, used |-> b[i].used]
           /\ End(b[i]) \in Nat /\ b[i].addr < End(b[i]) /\ PtrOf(b[i]) \in Nat \ {0}
           /\ Len(b) \in Nat /\ DOMAIN b = 1 .. Len(b) /\ i \in 1 .. Len(b)
<1>1. Len(b) \in Nat /\ DOMAIN b = 1 .. Len(b) /\ i \in 1 .. Len(b)
    BY LenProperties
<1>2. b[i] \in Block
    BY <1>1, ElementOfSeq
<1>3. b[i].addr \in Nat /\ b[i].size \in Nat /\ b[i].used \in BOOLEAN
    BY <1>2 DEF Block
<1>4. b[i] = [addr |-> b[i].addr, size |-> b[i].size, used |-> b[i].used]
    BY <1>2 DEF Block
<1>5. QED
    BY <1>1, <1>2, <1>3, <1>4, HeapAssumption DEF End, PtrOf

\* Blocks with the same fields are the same.
LEMMA BlockEqual ==
    ASSUME NEW x \in Block, NEW y \in Block,
           x.addr = y.addr, x.size = y.size, x.used = y.used
    PROVE  x = y
BY DEF Block

\* A block with another size, or another state.
LEMMA BlockExcept ==
    ASSUME NEW x \in Block, NEW size \in Nat, NEW used \in BOOLEAN
    PROVE  /\ [x EXCEPT !.size = size] = [addr |-> x.addr, size |-> size, used |-> x.used]
           /\ [x EXCEPT !.used = used] = [addr |-> x.addr, size |-> x.size, used |-> used]
<1>1. /\ [x EXCEPT !.size = size] \in Block /\ [x EXCEPT !.size = size].addr = x.addr
      /\ [x EXCEPT !.size = size].size = size /\ [x EXCEPT !.size = size].used = x.used
    BY DEF Block
<1>2. /\ [x EXCEPT !.used = used] \in Block /\ [x EXCEPT !.used = used].addr = x.addr
      /\ [x EXCEPT !.used = used].size = x.size /\ [x EXCEPT !.used = used].used = used
    BY DEF Block
<1>3. /\ [addr |-> x.addr, size |-> size, used |-> x.used] \in Block
      /\ [addr |-> x.addr, size |-> x.size, used |-> used] \in Block
    BY DEF Block
<1>4. QED
    BY <1>1, <1>2, <1>3, BlockEqual

\* Used blocks are told apart by their pointers.
LEMMA PointersDiffer ==
    ASSUME NEW b \in Seq(Block), Ordered(b), NEW i \in DOMAIN b, NEW j \in DOMAIN b,
           PtrOf(b[i]) = PtrOf(b[j])
    PROVE  i = j
<1>1. /\ b[i].addr \in Nat /\ b[i].size \in Nat /\ b[j].addr \in Nat /\ b[j].size \in Nat
      /\ Len(b) \in Nat /\ i \in 1 .. Len(b) /\ j \in 1 .. Len(b)
    BY BlockTyped
<1>2. b[i].addr = b[j].addr
    BY <1>1, HeapAssumption DEF PtrOf
<1>3. (i < j => End(b[i]) <= b[j].addr) /\ (j < i => End(b[j]) <= b[i].addr)
    BY DEF Ordered
<1>4. QED
    BY <1>1, <1>2, <1>3, HeapAssumption, SMTT(30) DEF End

\* In an ordered list two blocks have no byte in common.
LEMMA ExtentsApart ==
    ASSUME NEW b \in Seq(Block), Ordered(b), NEW i \in DOMAIN b, NEW j \in DOMAIN b, i # j
    PROVE  Extent(b[i]) \cap Extent(b[j]) = {}
<1>1. /\ b[i].addr \in Nat /\ b[i].size \in Nat /\ b[j].addr \in Nat /\ b[j].size \in Nat
      /\ Len(b) \in Nat /\ i \in 1 .. Len(b) /\ j \in 1 .. Len(b)
    BY BlockTyped
<1>2. End(b[i]) <= b[j].addr \/ End(b[j]) <= b[i].addr
    BY <1>1 DEF Ordered
<1>3. Hdr \in Nat
    BY HeapAssumption
<1>4. \A x \in Extent(b[i]) : x \in Int /\ b[i].addr <= x /\ x < End(b[i])
    BY <1>1, <1>3 DEF Extent, End
<1>5. \A x \in Extent(b[j]) : x \in Int /\ b[j].addr <= x /\ x < End(b[j])
    BY <1>1, <1>3 DEF Extent, End
<1>6. End(b[i]) \in Nat /\ End(b[j]) \in Nat
    BY BlockTyped
<1>7. QED
    BY <1>1, <1>2, <1>4, <1>5, <1>6

RegionBytes(g) == g.start .. (g.start + g.size - 1)

\* The bytes of a region are bytes of its block, so regions are apart too.
LEMMA RegionInBlock ==
    ASSUME NEW b \in Seq(Block), NEW g \in Regions(b)
    PROVE  \E k \in UsedIn(b) : /\ g = [start |-> PtrOf(b[k]), size |-> b[k].size]
                               /\ k \in DOMAIN b
                               /\ RegionBytes(g) \subseteq Extent(b[k])
<1>1. PICK k \in UsedIn(b) : g = [start |-> PtrOf(b[k]), size |-> b[k].size]
    BY DEF Regions
<1>2. k \in DOMAIN b
    BY DEF UsedIn
<1>3. b[k].addr \in Nat /\ b[k].size \in Nat /\ Hdr \in Nat
    BY <1>2, BlockTyped, HeapAssumption
<1>4. g.start = b[k].addr + Hdr /\ g.size = b[k].size
    BY <1>1 DEF PtrOf
<1>5. RegionBytes(g) \subseteq Extent(b[k])
    BY <1>3, <1>4 DEF RegionBytes, Extent
<1>6. QED
    BY <1>1, <1>2, <1>5

\* Nor have two regions that callers hold.
LEMMA RegionsApart ==
    ASSUME NEW b, ListFine(b), NEW x \in Regions(b), NEW y \in Regions(b), x # y
    PROVE  RegionBytes(x) \cap RegionBytes(y) = {}
<1>1. b \in Seq(Block) /\ Ordered(b)
    BY DEF ListFine
<1>2. PICK k \in UsedIn(b) : /\ x = [start |-> PtrOf(b[k]), size |-> b[k].size]
                             /\ k \in DOMAIN b /\ RegionBytes(x) \subseteq Extent(b[k])
    BY <1>1, RegionInBlock
<1>3. PICK l \in UsedIn(b) : /\ y = [start |-> PtrOf(b[l]), size |-> b[l].size]
                             /\ l \in DOMAIN b /\ RegionBytes(y) \subseteq Extent(b[l])
    BY <1>1, RegionInBlock
<1>4. Extent(b[k]) \cap Extent(b[l]) = {}
    BY <1>1, <1>2, <1>3, ExtentsApart
<1>5. QED
    BY <1>2, <1>3, <1>4

\* No region starts at the null pointer.
LEMMA StartsNotNull ==
    ASSUME NEW b \in Seq(Block), NEW g \in Regions(b)
    PROVE  g.start \in Nat /\ g.start # NULL /\ g.size \in Nat
<1>1. PICK k \in UsedIn(b) : g = [start |-> PtrOf(b[k]), size |-> b[k].size]
    BY DEF Regions
<1>2. k \in DOMAIN b
    BY DEF UsedIn
<1>3. PtrOf(b[k]) \in Nat \ {0} /\ b[k].size \in Nat
    BY <1>2, BlockTyped
<1>4. QED
    BY <1>1, <1>3 DEF NULL

-----------------------------------------------------------------------------
(* heap_split, and the block that is taken.                                  *)

\* The list once block i was cut after size bytes and taken.
Taken(b, i, size) == [Split(b, i, size) EXCEPT ![i].used = TRUE]

\* A block taken, and the rest split off when a header and a word are left
\* over.
LEMMA TakenIs ==
    ASSUME NEW b, ListFine(b), NEW i \in DOMAIN b, ~b[i].used,
           NEW size \in Nat, size % Word = 0, size <= b[i].size
    PROVE  LET c == Taken(b, i, size)
               n == Len(c) - Len(b)
           IN  /\ c \in Seq(Block)
               /\ n \in {0, 1}
               /\ \A k \in 1 .. i - 1 : c[k] = b[k]
               /\ \A k \in i + 1 + n .. Len(c) : c[k] = b[k - n]
               /\ c[i].addr = b[i].addr /\ c[i].used /\ c[i].size >= size
               /\ c[i].size % Word = 0
               /\ n = 0 => c[i].size = b[i].size
               /\ n = 1 => /\ ~c[i + 1].used /\ c[i + 1].size % Word = 0
                          /\ c[i + 1].addr = End(c[i])
                          /\ End(c[i + 1]) = End(b[i])
               /\ Split(b, i, size)[i].size = c[i].size
               /\ PtrOf(Split(b, i, size)[i]) = PtrOf(b[i])
<1>1. /\ b \in Seq(Block) /\ b[i] \in Block /\ b[i].addr \in Nat /\ b[i].size \in Nat
      /\ b[i].used = FALSE /\ b[i].size % Word = 0
      /\ Len(b) \in Nat /\ DOMAIN b = 1 .. Len(b) /\ i \in 1 .. Len(b)
    BY BlockTyped DEF ListFine, Whole
<1>2. Hdr \in Nat \ {0} /\ Word \in Nat \ {0} /\ Hdr % Word = 0
    BY HeapAssumption
<1>3. CASE b[i].size < size + MinSplit
  <2>1. Split(b, i, size) = b
    BY <1>3 DEF Split
  <2>2. Taken(b, i, size) = [b EXCEPT ![i] = [@ EXCEPT !.used = TRUE]]
    BY <2>1 DEF Taken
  <2>3. [b[i] EXCEPT !.used = TRUE] = [addr |-> b[i].addr, size |-> b[i].size, used |-> TRUE]
    BY <1>1, BlockExcept
  <2>4. [addr |-> b[i].addr, size |-> b[i].size, used |-> TRUE] \in Block
    BY <1>1 DEF Block
  <2> DEFINE e == [addr |-> b[i].addr, size |-> b[i].size, used |-> TRUE]
             c == [b EXCEPT ![i] = e]
  <2>5. Taken(b, i, size) = c
    BY <1>1, <2>2, <2>3
  <2> HIDE DEF e
  <2>6. c \in Seq(Block) /\ Len(c) = Len(b)
        /\ \A j \in 1 .. Len(b) : c[j] = IF j = i THEN e ELSE b[j]
    BY <1>1, <2>4, ExceptSeq DEF e
  <2> HIDE DEF c
  <2>7. c[i].addr = b[i].addr /\ c[i].used /\ c[i].size = b[i].size
    BY <1>1, <2>6 DEF e
  <2>8. QED
    BY <1>1, <2>1, <2>5, <2>6, <2>7
<1>4. CASE ~(b[i].size < size + MinSplit)
  <2> DEFINE first == [addr |-> b[i].addr, size |-> size, used |-> FALSE]
             rest == [addr |-> b[i].addr + Hdr + size, size |-> b[i].size - size - Hdr,
                      used |-> FALSE]
             d == Splice(b, i, i, <<first, rest>>)
             e == [addr |-> b[i].addr, size |-> size, used |-> TRUE]
             c == [d EXCEPT ![i] = e]
  <2>1. b[i].size >= size + Hdr + Word
    BY <1>1, <1>2, <1>4 DEF MinSplit
  <2>2. [b[i] EXCEPT !.size = size] = first
    <3>1. [b[i] EXCEPT !.size = size] = [addr |-> b[i].addr, size |-> size, used |-> b[i].used]
      BY <1>1, BlockExcept
    <3>2. QED
      BY <1>1, <3>1
  <2>3. Split(b, i, size) = d
    BY <1>4, <2>2 DEF Split
  <2>4. first \in Block /\ rest \in Block /\ e \in Block
    BY <1>1, <1>2, <2>1, SMTT(30) DEF Block
  <2>5. <<first, rest>> \in Seq(Block) /\ Len(<<first, rest>>) = 2
        /\ <<first, rest>>[1] = first /\ <<first, rest>>[2] = rest
    BY <2>4
  <2>6. rest.size % Word = 0
    <3>1. (b[i].size - size) % Word = 0 /\ b[i].size - size \in Nat
      BY <1>1, <2>1, <1>2, WholeSum, SMTT(30)
    <3>2. (b[i].size - size - Hdr) % Word = 0
      BY <1>2, <2>1, <3>1, <1>1, WholeSum, SMTT(30)
    <3>3. QED
      BY <3>2
  <2>7. /\ rest.used = FALSE /\ rest.addr = b[i].addr + Hdr + size
        /\ rest.addr + Hdr + rest.size = b[i].addr + Hdr + b[i].size
        /\ first.addr = b[i].addr /\ first.size = size /\ first.used = FALSE
        /\ e.addr = b[i].addr /\ e.size = size /\ e.used = TRUE
    BY <1>1, <1>2
  <2>8. [first EXCEPT !.used = TRUE] = e
    <3>1. [first EXCEPT !.used = TRUE] = [addr |-> first.addr, size |-> first.size, used |-> TRUE]
      <4> HIDE DEF first
      <4>1. QED
        BY <2>4, BlockExcept
    <3>2. QED
      BY <3>1
  <2> DEFINE s == <<first, rest>>
  <2> HIDE DEF first, rest, e
  <2>9. s \in Seq(Block) /\ Len(s) = 2 /\ s[1] = first /\ s[2] = rest
    BY <2>5
  <2>10. s \in Seq(Block)
    BY <2>9
  <2> HIDE DEF s
  <2>11. Splice(b, i, i, s) \in Seq(Block) /\ Spliced(Splice(b, i, i, s), b, i, i, s)
    <3>1. i \in 1 .. Len(b) /\ i \in i .. Len(b)
      BY <1>1
    <3>2. QED
      BY <1>1, <2>10, <3>1, SpliceIs
  <2>12. /\ d \in Seq(Block)
         /\ Len(d) = Len(b) + 1
         /\ \A k \in 1 .. Len(b) + 1 :
              d[k] = IF k < i THEN b[k]
                     ELSE IF k = i THEN first
                     ELSE IF k = i + 1 THEN rest
                     ELSE b[k - 1]
    <3>1. d = Splice(b, i, i, s)
      BY DEF s
    <3> HIDE DEF d
    <3>2. d \in Seq(Block) /\ Len(d) = Len(b) + 1
      BY <1>1, <2>9, <2>11, <3>1 DEF Spliced
    <3>3. ASSUME NEW k \in 1 .. Len(b) + 1
          PROVE  d[k] = IF k < i THEN b[k] ELSE IF k < i + 2 THEN s[k - i + 1]
                        ELSE b[k - 2 + (i - i + 1)]
      BY <1>1, <2>9, <2>11, <3>1, <3>2 DEF Spliced
    <3>4. ASSUME NEW k \in 1 .. Len(b) + 1
          PROVE  d[k] = IF k < i THEN b[k] ELSE IF k = i THEN first
                        ELSE IF k = i + 1 THEN rest ELSE b[k - 1]
      <4>1. k = i => k - i + 1 = 1
        BY <1>1
      <4>2. k = i + 1 => k - i + 1 = 2
        BY <1>1
      <4>3. k - 2 + (i - i + 1) = k - 1
        BY <1>1
      <4>4. QED
        BY <1>1, <2>9, <3>3, <4>1, <4>2, <4>3, SMTT(30)
    <3>5. QED
      BY <3>2, <3>4
  <2> HIDE DEF d
  <2>13. d[i] = first
    BY <1>1, <2>12
  <2>14. Taken(b, i, size) = c
    BY <2>3, <2>8, <2>13 DEF Taken
  <2>15. /\ c \in Seq(Block) /\ Len(c) = Len(d)
         /\ \A j \in 1 .. Len(d) : c[j] = IF j = i THEN e ELSE d[j]
    BY <1>1, <2>4, <2>12, ExceptSeq
  <2> HIDE DEF c
  <2>16. c[i] = e /\ c[i + 1] = rest
    BY <1>1, <2>12, <2>15
  <2>17. \A k \in 1 .. i - 1 : c[k] = b[k]
    BY <1>1, <2>12, <2>15
  <2>18. \A k \in i + 2 .. Len(c) : c[k] = b[k - 1]
    BY <1>1, <2>12, <2>15
  <2>19. End(c[i]) = c[i + 1].addr /\ End(c[i + 1]) = End(b[i])
    BY <2>7, <2>16 DEF End
  <2>20. PtrOf(d[i]) = PtrOf(b[i])
    BY <2>7, <2>13 DEF PtrOf
  <2>21. Len(c) - Len(b) = 1
    BY <1>1, <2>12, <2>15
  <2>22. QED
    BY <1>1, <2>3, <2>6, <2>7, <2>13, <2>14, <2>15, <2>16, <2>17, <2>18, <2>19, <2>20, <2>21, SMTT(30)
<1>5. QED
    BY <1>3, <1>4

\* Taking a block leaves a fine list with one region more.
LEMMA TakenFine ==
    ASSUME NEW b, ListFine(b), NEW i \in DOMAIN b, ~b[i].used,
           NEW size \in Nat, size % Word = 0, size <= b[i].size
    PROVE  LET c == Taken(b, i, size)
           IN  /\ ListFine(c)
               /\ Within(c, b)
               /\ i \in UsedIn(c)
               /\ Regions(c) = Regions(b) \cup {[start |-> PtrOf(b[i]), size |-> c[i].size]}
               /\ \A g \in Regions(b) : g.start # PtrOf(b[i])
<1> DEFINE c == Taken(b, i, size)
           n == Len(c) - Len(b)
<1>1. /\ b \in Seq(Block) /\ Len(b) \in Nat /\ DOMAIN b = 1 .. Len(b) /\ i \in 1 .. Len(b)
      /\ Whole(b) /\ Ordered(b) /\ Settled(b) /\ b[i].used = FALSE
    BY BlockTyped DEF ListFine
<1>2. /\ c \in Seq(Block)
      /\ n \in {0, 1}
      /\ \A k \in 1 .. i - 1 : c[k] = b[k]
      /\ \A k \in i + 1 + n .. Len(c) : c[k] = b[k - n]
      /\ c[i].addr = b[i].addr /\ c[i].used /\ c[i].size >= size
      /\ c[i].size % Word = 0
      /\ n = 0 => c[i].size = b[i].size
      /\ n = 1 => /\ ~c[i + 1].used /\ c[i + 1].size % Word = 0
                 /\ c[i + 1].addr = End(c[i])
                 /\ End(c[i + 1]) = End(b[i])
    BY TakenIs
<1> HIDE DEF c
<1>3. /\ Len(c) \in Nat /\ DOMAIN c = 1 .. Len(c) /\ Len(c) = Len(b) + n /\ i \in 1 .. Len(c)
    BY <1>1, <1>2, LenProperties
<1>4. \A k \in DOMAIN b : b[k].addr \in Nat /\ b[k].size \in Nat /\ b[k].used \in BOOLEAN
                           /\ End(b[k]) \in Nat /\ b[k].addr <= End(b[k])
    BY <1>1, BlockTyped
<1>5. \A k \in DOMAIN c : c[k].addr \in Nat /\ c[k].size \in Nat /\ c[k].used \in BOOLEAN
                           /\ End(c[k]) \in Nat /\ c[k].addr <= End(c[k])
    BY <1>2, BlockTyped
<1> DEFINE orig(k) == IF k <= i THEN k ELSE k - n
<1>6. n \in {0, 1}
    BY <1>2
<1>7. \A k \in i + 1 + n .. Len(c) : c[k] = b[k - n]
    BY <1>2
<1> HIDE DEF n
<1>8. \A k \in i + 1 + n .. Len(c) : c[k] = b[k - n] /\ k - n \in DOMAIN b
  <2> SUFFICES ASSUME NEW k \in i + 1 + n .. Len(c) PROVE k - n \in DOMAIN b
      BY <1>7
  <2>1. QED
    BY <1>1, <1>3, <1>6
<1>9. \A k \in DOMAIN c :
         /\ orig(k) \in DOMAIN b
         /\ b[orig(k)].addr <= c[k].addr
         /\ End(c[k]) <= End(b[orig(k)])
  <2> SUFFICES ASSUME NEW k \in DOMAIN c
               PROVE  /\ orig(k) \in DOMAIN b
                      /\ b[orig(k)].addr <= c[k].addr
                      /\ End(c[k]) <= End(b[orig(k)])
      OBVIOUS
  <2>1. CASE k < i
    <3>1. orig(k) = k /\ c[k] = b[k] /\ k \in DOMAIN b
      BY <1>1, <1>2, <1>3, <2>1
    <3>2. QED
      BY <1>4, <3>1
  <2>2. CASE k = i
    <3>1. orig(k) = i
      BY <1>1, <2>2
    <3>2. n = 0 => End(c[i]) = End(b[i])
      BY <1>2 DEF End
    <3>3. n = 1 => i + 1 \in DOMAIN c
      BY <1>1, <1>3
    <3>4. n = 1 => End(c[i]) <= End(b[i])
      BY <1>2, <1>5, <3>3
    <3>5. End(c[i]) <= End(b[i])
      BY <1>1, <1>4, <1>6, <3>2, <3>4
    <3>6. QED
      BY <1>1, <1>2, <1>4, <2>2, <3>1, <3>5
  <2>3. CASE k > i /\ k < i + 1 + n
    <3>1. n = 1 /\ k = i + 1 /\ orig(k) = i
      BY <1>1, <1>3, <1>6, <2>3
    <3>2. b[i].addr <= End(c[i])
      BY <1>2, <1>3, <1>5
    <3>3. QED
      BY <1>1, <1>2, <1>4, <3>1, <3>2
  <2>4. CASE k >= i + 1 + n
    <3>1. orig(k) = k - n /\ k \in i + 1 + n .. Len(c)
      BY <1>1, <1>3, <1>6, <2>4
    <3>2. c[k] = b[k - n] /\ k - n \in DOMAIN b
      BY <1>8, <3>1
    <3>3. QED
      BY <1>4, <3>1, <3>2
  <2>5. QED
    BY <1>1, <1>3, <1>6, <2>1, <2>2, <2>3, <2>4
<1>10. Ordered(c)
  <2> SUFFICES ASSUME NEW k \in DOMAIN c, NEW l \in DOMAIN c, k < l
               PROVE  End(c[k]) <= c[l].addr
      BY DEF Ordered
  <2>1. CASE orig(k) < orig(l)
    <3>1. End(b[orig(k)]) <= b[orig(l)].addr
      BY <1>1, <1>9, <2>1 DEF Ordered
    <3>2. /\ End(c[k]) <= End(b[orig(k)]) /\ b[orig(l)].addr <= c[l].addr
          /\ End(b[orig(k)]) \in Nat /\ b[orig(l)].addr \in Nat
      BY <1>4, <1>9
    <3> HIDE DEF orig
    <3>3. QED
      BY <1>5, <3>1, <3>2
  <2>2. CASE ~ (orig(k) < orig(l))
    <3>1. k = i /\ l = i + 1 /\ n = 1
      BY <1>1, <1>3, <1>6, <2>2
    <3>2. QED
      BY <1>2, <1>5, <3>1
  <2>3. QED
    BY <2>1, <2>2
<1>11. Whole(c)
  <2> SUFFICES ASSUME NEW k \in DOMAIN c PROVE c[k].size % Word = 0
      BY DEF Whole
  <2>1. k < i \/ k = i \/ (k = i + 1 /\ n = 1) \/ k \in i + 1 + n .. Len(c)
    BY <1>1, <1>3, <1>6
  <2>2. k \in i + 1 + n .. Len(c) => k - n \in DOMAIN b
    BY <1>1, <1>3, <1>6
  <2>3. k < i => k \in 1 .. i - 1 /\ k \in DOMAIN b
    BY <1>1, <1>3
  <2>4. QED
    BY <1>1, <1>2, <2>1, <2>2, <2>3 DEF Whole
<1>12. Settled(c)
  <2> SUFFICES ASSUME NEW k \in DOMAIN c, k > 1 PROVE c[k - 1].used \/ c[k].used
      BY DEF Settled
  <2>1. CASE k < i
    <3>1. c[k] = b[k] /\ c[k - 1] = b[k - 1] /\ k \in DOMAIN b
      BY <1>1, <1>2, <1>3, <2>1, SMTT(30)
    <3>2. QED
      BY <1>1, <3>1 DEF Settled
  <2>2. CASE k = i \/ k = i + 1
    BY <1>1, <1>2, <2>2
  <2>3. CASE k > i + 1
    <3>1. k \in i + 1 + n .. Len(c)
      BY <1>1, <1>3, <1>6, <2>3
    <3>2. c[k] = b[k - n] /\ k - n \in DOMAIN b
      BY <1>8, <3>1
    <3>3. k - n > 1
      BY <1>1, <1>3, <1>6, <2>3
    <3>4. c[k] = b[k - n] /\ k - n \in DOMAIN b /\ k - n > 1
      BY <3>2, <3>3
    <3>5. CASE k - 1 >= i + 1 + n
      <4>1. k - 1 \in i + 1 + n .. Len(c)
        BY <1>1, <1>3, <1>6, <3>5
      <4>2. c[k - 1] = b[(k - 1) - n]
        BY <1>8, <4>1
      <4>3. (k - 1) - n = (k - n) - 1
        BY <1>3, <1>6
      <4>4. QED
        BY <1>1, <3>4, <4>2, <4>3 DEF Settled
    <3>6. CASE k - 1 < i + 1 + n
      <4>1. k - n = i + 1
        BY <1>1, <1>3, <1>6, <2>3, <3>6
      <4>2. b[(i + 1) - 1].used \/ b[i + 1].used
        BY <1>1, <3>4, <4>1 DEF Settled
      <4>3. (i + 1) - 1 = i
        BY <1>1
      <4>4. QED
        BY <1>1, <3>4, <4>1, <4>2, <4>3
    <3>7. QED
      BY <1>1, <1>3, <1>6, <3>5, <3>6
  <2>4. QED
    BY <1>1, <1>3, <2>1, <2>2, <2>3
<1>13. Within(c, b)
  <2> HIDE DEF orig
  <2>1. QED
    BY <1>9 DEF Within
<1>14. Regions(c) = Regions(b) \cup {[start |-> PtrOf(b[i]), size |-> c[i].size]}
  <2> DEFINE reg(x) == [start |-> PtrOf(x), size |-> x.size]
  <2>1. PtrOf(c[i]) = PtrOf(b[i])
    BY <1>2 DEF PtrOf
  <2>2. \A k \in UsedIn(b) : \E l \in UsedIn(c) : c[l] = b[k]
    <3> SUFFICES ASSUME NEW k \in UsedIn(b) PROVE \E l \in UsedIn(c) : c[l] = b[k]
        OBVIOUS
    <3>1. k \in 1 .. Len(b) /\ b[k].used /\ k # i
      BY <1>1 DEF UsedIn
    <3>2. CASE k < i
      BY <1>1, <1>2, <1>3, <3>1, <3>2 DEF UsedIn
    <3>3. CASE k > i
      <4>1. k + n \in i + 1 + n .. Len(c) /\ (k + n) - n = k /\ k + n \in DOMAIN c
        BY <1>1, <1>3, <1>6, <3>1, <3>3
      <4>2. c[k + n] = b[k]
        BY <1>2, <4>1
      <4>3. QED
        BY <3>1, <4>1, <4>2 DEF UsedIn
    <3>4. QED
      BY <1>1, <3>1, <3>2, <3>3
  <2>3. \A l \in UsedIn(c) : l = i \/ \E k \in UsedIn(b) : c[l] = b[k]
    <3> SUFFICES ASSUME NEW l \in UsedIn(c), l # i PROVE \E k \in UsedIn(b) : c[l] = b[k]
        OBVIOUS
    <3>1. l \in 1 .. Len(c) /\ c[l].used
      BY <1>3 DEF UsedIn
    <3>2. l < i \/ l \in i + 1 + n .. Len(c)
      BY <1>1, <1>2, <1>3, <1>6, <3>1
    <3>3. CASE l < i
      BY <1>1, <1>2, <3>1, <3>3 DEF UsedIn
    <3>4. CASE l \in i + 1 + n .. Len(c)
      <4>1. c[l] = b[l - n] /\ l - n \in DOMAIN b
        BY <1>1, <1>2, <1>3, <1>6, <3>4
      <4>2. QED
        BY <3>1, <4>1 DEF UsedIn
    <3>5. QED
      BY <3>2, <3>3, <3>4
  <2>4. i \in UsedIn(c) /\ reg(c[i]) = [start |-> PtrOf(b[i]), size |-> c[i].size]
    BY <1>2, <1>3, <2>1 DEF UsedIn
  <2>5. Regions(b) = {reg(b[k]) : k \in UsedIn(b)} /\ Regions(c) = {reg(c[l]) : l \in UsedIn(c)}
    BY DEF Regions
  <2> HIDE DEF reg
  <2>6. QED
    BY <2>2, <2>3, <2>4, <2>5
<1>15. \A g \in Regions(b) : g.start # PtrOf(b[i])
  <2> SUFFICES ASSUME NEW k \in UsedIn(b) PROVE PtrOf(b[k]) # PtrOf(b[i])
      BY DEF Regions
  <2>1. k \in DOMAIN b /\ k # i
    BY <1>1 DEF UsedIn
  <2>2. QED
    BY <1>1, <2>1, PointersDiffer
<1>16. i \in UsedIn(c)
    BY <1>2, <1>3 DEF UsedIn
<1>17. QED
    BY <1>2, <1>10, <1>11, <1>12, <1>13, <1>14, <1>15, <1>16 DEF ListFine, c

-----------------------------------------------------------------------------
(* heap_coalesce.                                                            *)

\* A run has at most three blocks when no two neighbours were free before one
\* block was freed or added.
LEMMA MergedSizeIs ==
    ASSUME NEW b, NEW first \in Nat, NEW last \in first .. first + 2
    PROVE  /\ last = first => MergedSize(b, first, last) = b[first].size
           /\ last = first + 1 => MergedSize(b, first, last)
                                    = b[first].size + Hdr + b[first + 1].size
           /\ last = first + 2 => MergedSize(b, first, last)
                                    = b[first].size + Hdr + b[first + 1].size
                                        + Hdr + b[first + 2].size
<1> DEFINE Def(f) == f = [k \in first .. last |->
                            IF k = first THEN b[first].size ELSE f[k - 1] + Hdr + b[k].size]
           g == [k \in first .. last |->
                   IF k = first THEN b[first].size
                   ELSE IF k = first + 1 THEN b[first].size + Hdr + b[first + 1].size
                   ELSE b[first].size + Hdr + b[first + 1].size + Hdr + b[first + 2].size]
           F == CHOOSE f : Def(f)
<1>1. Def(g)
  <2>1. ASSUME NEW k \in first .. last
        PROVE  g[k] = IF k = first THEN b[first].size ELSE g[k - 1] + Hdr + b[k].size
    <3>1. k = first \/ k = first + 1 \/ k = first + 2
      OBVIOUS
    <3>2. k # first => k - 1 \in first .. last
      OBVIOUS
    <3>3. CASE k = first
      BY <3>3
    <3>4. CASE k = first + 1
      BY <3>2, <3>4
    <3>5. CASE k = first + 2
      BY <3>2, <3>5
    <3>6. QED
      BY <3>1, <3>3, <3>4, <3>5
  <2>2. QED
    BY <2>1
<1> HIDE DEF g
<1>2. \E f : Def(f)
    BY <1>1
<1>3. Def(F)
  <2> HIDE DEF Def
  <2>1. QED
    BY <1>2
<1>4. MergedSize(b, first, last) = F[last]
    BY DEF MergedSize
<1> HIDE DEF F
<1>5. F[first] = b[first].size
    BY <1>3
<1>6. last >= first + 1 => F[first + 1] = b[first].size + Hdr + b[first + 1].size
  <2>1. last >= first + 1 => /\ first + 1 \in first .. last /\ first + 1 # first
                             /\ (first + 1) - 1 = first
    OBVIOUS
  <2>2. QED
    BY <1>3, <1>5, <2>1
<1>7. last = first + 2 => F[first + 2] = b[first].size + Hdr + b[first + 1].size
                                          + Hdr + b[first + 2].size
  <2>1. last = first + 2 => /\ first + 2 \in first .. last /\ first + 2 # first
                            /\ (first + 2) - 1 = first + 1
    OBVIOUS
  <2>2. QED
    BY <1>3, <1>6, <2>1
<1> HIDE DEF Def
<1>8. QED
    BY <1>4, <1>5, <1>6, <1>7

\* Two blocks in order, joined.
LEMMA Joined ==
    ASSUME NEW a \in Nat, NEW x \in Nat, NEW d \in Nat, NEW y \in Nat,
           x % Word = 0, y % Word = 0, a + Hdr + x <= d
    PROVE  /\ x + Hdr + y \in Nat
           /\ (x + Hdr + y) % Word = 0
           /\ a + Hdr + (x + Hdr + y) <= d + Hdr + y
           /\ x + Hdr + y >= x /\ x + Hdr + y >= y
<1>1. Hdr \in Nat /\ Hdr % Word = 0
    BY HeapAssumption
<1> DEFINE z == x + Hdr
<1>2. z \in Nat /\ z % Word = 0
    BY <1>1, WholeSum
<1>3. (z + y) % Word = 0
  <2> HIDE DEF z
  <2>1. QED
    BY <1>2, WholeSum
<1>4. QED
    BY <1>1, <1>3

\* The size of three blocks merged, which stays before their next neighbour.
LEMMA JoinedThree ==
    ASSUME NEW a \in Nat, NEW x \in Nat, NEW d \in Nat, NEW y \in Nat,
           NEW e \in Nat, NEW z \in Nat,
           x % Word = 0, y % Word = 0, z % Word = 0, a + Hdr + x <= d, d + Hdr + y <= e
    PROVE  /\ x + Hdr + y + Hdr + z \in Nat
           /\ (x + Hdr + y + Hdr + z) % Word = 0
           /\ a + Hdr + (x + Hdr + y + Hdr + z) <= e + Hdr + z
           /\ x + Hdr + y + Hdr + z >= x
           /\ x + Hdr + y + Hdr + z >= y
           /\ x + Hdr + y + Hdr + z >= z
<1>1. Hdr \in Nat
    BY HeapAssumption
<1> DEFINE v == x + Hdr + y
<1>2. v \in Nat /\ v % Word = 0 /\ a + Hdr + v <= d + Hdr + y /\ v >= x /\ v >= y
    BY Joined
<1> HIDE DEF v
<1>3. a + Hdr + v <= e
    BY <1>1, <1>2
<1>4. /\ v + Hdr + z \in Nat /\ (v + Hdr + z) % Word = 0
      /\ a + Hdr + (v + Hdr + z) <= e + Hdr + z
      /\ v + Hdr + z >= v /\ v + Hdr + z >= z
    BY <1>2, <1>3, Joined
<1>5. v + Hdr + z >= x /\ v + Hdr + z >= y
    BY <1>1, <1>2
<1>6. QED
    BY <1>4, <1>5 DEF v

\* No two neighbours are free, but for those of block i.
SettledBut(b, i) ==
    \A k \in DOMAIN b : k > 1 /\ k # i /\ k # i + 1 => b[k - 1].used \/ b[k].used

\* c is b with the free blocks first..last merged into one.
MergedRun(c, b, first, last) ==
    /\ Len(c) = Len(b) - (last - first)
    /\ \A k \in 1 .. first - 1 : c[k] = b[k]
    /\ \A k \in first + 1 .. Len(c) : c[k] = b[k + (last - first)]
    /\ last \in first .. first + 2
    /\ c[first].addr = b[first].addr /\ ~c[first].used
    /\ c[first].size = MergedSize(b, first, last)
    /\ c[first].size % Word = 0
    /\ End(c[first]) <= End(b[last])
    /\ \A k \in first .. last : ~b[k].used /\ c[first].size >= b[k].size
    /\ first > 1 => b[first - 1].used
    /\ last < Len(b) => b[last + 1].used

\* heap_coalesce merges the block with the free neighbours it has.
LEMMA CoalesceIs ==
    ASSUME NEW b \in Seq(Block), Ordered(b), Whole(b), NEW i \in DOMAIN b, ~b[i].used,
           SettledBut(b, i)
    PROVE  /\ Coalesce(b, i) \in Seq(Block)
           /\ \E first \in 1 .. i, last \in i .. Len(b) :
                 MergedRun(Coalesce(b, i), b, first, last)
<1>1. Len(b) \in Nat /\ DOMAIN b = 1 .. Len(b) /\ i \in 1 .. Len(b)
    BY BlockTyped
<1>2. \A k \in DOMAIN b : /\ b[k] \in Block /\ b[k].addr \in Nat /\ b[k].size \in Nat
                          /\ b[k].used \in BOOLEAN /\ b[k].size % Word = 0
    BY BlockTyped DEF Whole
<1>3. Hdr \in Nat \ {0} /\ Hdr % Word = 0
    BY HeapAssumption
<1> DEFINE first == IF i > 1 /\ ~b[i - 1].used THEN i - 1 ELSE i
           stop == IF i < Len(b) /\ ~b[i + 1].used THEN i + 1 ELSE i
           last == RunEnd(b, i)
<1>4. /\ first \in 1 .. i /\ i - first \in {0, 1} /\ (first < i => ~b[first].used)
      /\ (first > 1 => b[first - 1].used)
  <2>1. CASE i > 1 /\ ~b[i - 1].used
    <3>1. i - 1 \in DOMAIN b /\ i - 1 # i /\ i - 1 # i + 1
      BY <1>1, <2>1
    <3>2. i - 1 > 1 => b[(i - 1) - 1].used
      BY <2>1, <3>1 DEF SettledBut
    <3>3. QED
      BY <1>1, <2>1, <3>2
  <2>2. CASE ~(i > 1 /\ ~b[i - 1].used)
    BY <1>1, <2>2
  <2>3. QED
    BY <2>1, <2>2
<1>5. /\ last \in i .. Len(b) /\ last - i \in {0, 1}
      /\ \A k \in i + 1 .. last : ~b[k].used
      /\ last < Len(b) => b[last + 1].used
  <2> DEFINE P(j) == (\A k \in i + 1 .. j : ~b[k].used) /\ (j = Len(b) \/ b[j + 1].used)
  <2>1. stop \in i .. Len(b) /\ P(stop)
    <3>1. CASE i < Len(b) /\ ~b[i + 1].used
      <4>1. i + 2 <= Len(b) => i + 2 \in DOMAIN b /\ i + 2 > 1 /\ i + 2 # i /\ i + 2 # i + 1
        BY <1>1
      <4>2. i + 2 <= Len(b) => b[(i + 2) - 1].used \/ b[i + 2].used
        BY <4>1 DEF SettledBut
      <4>3. i + 2 <= Len(b) => b[i + 2].used
        BY <1>1, <3>1, <4>2
      <4>4. \A k \in i + 1 .. i + 1 : ~b[k].used
        BY <1>1, <3>1
      <4>5. (i + 1) + 1 = i + 2
        BY <1>1
      <4>6. QED
        BY <1>1, <3>1, <4>3, <4>4, <4>5
    <3>2. CASE ~(i < Len(b) /\ ~b[i + 1].used)
      BY <1>1, <3>2
    <3>3. QED
      BY <3>1, <3>2
  <2>2. last = CHOOSE j \in i .. Len(b) : P(j)
    BY DEF RunEnd
  <2> HIDE DEF last
  <2>3. last \in i .. Len(b) /\ P(last)
    <3> HIDE DEF P, stop
    <3>1. QED
      BY <2>1, <2>2
  <2> HIDE DEF P, stop
  <2>4. last \in i .. Len(b) /\ last \in Nat /\ i \in Nat
    BY <1>1, <2>3
  <2>5. \A k \in i + 1 .. last : ~b[k].used
    BY <2>3 DEF P
  <2>6. last = Len(b) \/ b[last + 1].used
    BY <2>3 DEF P
  <2>7. last < Len(b) => b[last + 1].used
    BY <2>4, <2>6
  <2>8. last > i => i + 1 \in i + 1 .. last /\ i < Len(b)
    BY <1>1, <2>4
  <2>9. last > i + 1 => i + 2 \in DOMAIN b /\ i + 2 \in i + 1 .. last
    BY <1>1, <2>4
  <2>10. last > i + 1 => b[(i + 2) - 1].used \/ b[i + 2].used
    BY <1>1, <2>9 DEF SettledBut
  <2>11. (i + 2) - 1 = i + 1
    BY <1>1
  <2>12. ~(last > i + 1)
    BY <2>4, <2>5, <2>8, <2>9, <2>10, <2>11
  <2>13. last - i \in {0, 1}
    BY <2>4, <2>12
  <2>14. QED
    BY <2>4, <2>5, <2>7, <2>13
<1> DEFINE size == MergedSize(b, first, last)
           e == [addr |-> b[first].addr, size |-> size, used |-> FALSE]
           c == Splice(b, first, last, <<e>>)
<1>6. Coalesce(b, i) = Splice(b, first, last, <<[b[first] EXCEPT !.size = size]>>)
    BY DEF Coalesce
<1> HIDE DEF first, last
<1>7. first \in 1 .. Len(b) /\ last \in first .. first + 2 /\ last <= Len(b) /\ first \in Nat
    BY <1>1, <1>4, <1>5
<1>8. \A k \in first .. last : k \in DOMAIN b /\ b[k].used = FALSE
  <2> SUFFICES ASSUME NEW k \in first .. last PROVE k \in DOMAIN b /\ b[k].used = FALSE
      OBVIOUS
  <2>1. k \in DOMAIN b
    BY <1>1, <1>7
  <2>2. (k = first /\ first < i) \/ k = i \/ k \in i + 1 .. last
    BY <1>1, <1>4, <1>5
  <2>3. QED
    BY <1>2, <1>4, <1>5, <2>1, <2>2
<1>9. /\ size \in Nat /\ size % Word = 0
      /\ b[first].addr + Hdr + size <= End(b[last])
      /\ \A k \in first .. last : size >= b[k].size
  <2>1. CASE last = first
    <3>1. size = b[first].size
      BY <1>7, <2>1, MergedSizeIs
    <3>2. first \in DOMAIN b
      BY <1>1, <1>7
    <3>3. QED
      BY <1>2, <1>3, <1>7, <2>1, <3>1, <3>2 DEF End
  <2>2. CASE last = first + 1
    <3>1. size = b[first].size + Hdr + b[last].size
      BY <1>7, <2>2, MergedSizeIs
    <3>2. first \in DOMAIN b /\ last \in DOMAIN b /\ first < last
      BY <1>1, <1>7, <2>2
    <3>3. b[first].addr + Hdr + b[first].size <= b[last].addr
      BY <3>2 DEF Ordered, End
    <3> HIDE DEF size
    <3>4. /\ size \in Nat /\ size % Word = 0
          /\ b[first].addr + Hdr + size <= End(b[last])
          /\ size >= b[first].size /\ size >= b[last].size
      BY <1>2, <3>1, <3>2, <3>3, Joined, SMTT(30) DEF End
    <3>5. \A k \in first .. last : k = first \/ k = last
      BY <1>7, <2>2
    <3>6. QED
      BY <3>4, <3>5
  <2>3. CASE last = first + 2
    <3> DEFINE mid == first + 1
    <3>1. size = b[first].size + Hdr + b[mid].size + Hdr + b[last].size
      BY <1>7, <2>3, MergedSizeIs
    <3>2. first \in DOMAIN b /\ mid \in DOMAIN b /\ last \in DOMAIN b /\ first < mid /\ mid < last
      BY <1>1, <1>7, <2>3
    <3>3. /\ b[first].addr + Hdr + b[first].size <= b[mid].addr
          /\ b[mid].addr + Hdr + b[mid].size <= b[last].addr
      BY <3>2 DEF Ordered, End
    <3>4. \A k \in first .. last : k = first \/ k = mid \/ k = last
      BY <1>7, <2>3
    <3>5. /\ b[first].addr \in Nat /\ b[first].size \in Nat /\ b[first].size % Word = 0
          /\ b[mid].addr \in Nat /\ b[mid].size \in Nat /\ b[mid].size % Word = 0
          /\ b[last].addr \in Nat /\ b[last].size \in Nat /\ b[last].size % Word = 0
      BY <1>2, <3>2
    <3> DEFINE A == b[first].addr   X == b[first].size
               D == b[mid].addr     Y == b[mid].size
               E == b[last].addr    Z == b[last].size
    <3>6. /\ A \in Nat /\ X \in Nat /\ X % Word = 0 /\ A + Hdr + X <= D
          /\ D \in Nat /\ Y \in Nat /\ Y % Word = 0 /\ D + Hdr + Y <= E
          /\ E \in Nat /\ Z \in Nat /\ Z % Word = 0
      BY <3>3, <3>5
    <3> HIDE DEF size, mid, A, X, D, Y, E, Z
    <3>7. /\ X + Hdr + Y + Hdr + Z \in Nat
          /\ (X + Hdr + Y + Hdr + Z) % Word = 0
          /\ A + Hdr + (X + Hdr + Y + Hdr + Z) <= E + Hdr + Z
          /\ X + Hdr + Y + Hdr + Z >= X
          /\ X + Hdr + Y + Hdr + Z >= Y
          /\ X + Hdr + Y + Hdr + Z >= Z
      BY <3>6, JoinedThree
    <3>8. size = X + Hdr + Y + Hdr + Z
      BY <3>1 DEF X, Y, Z
    <3>9. /\ size \in Nat /\ size % Word = 0 /\ A + Hdr + size <= E + Hdr + Z
          /\ size >= X /\ size >= Y /\ size >= Z
      BY <3>7, <3>8
    <3>10. QED
      BY <3>4, <3>9 DEF End, A, X, Y, Z, E
  <2>4. QED
    BY <1>7, <2>1, <2>2, <2>3
<1> HIDE DEF size
<1>10. first \in DOMAIN b /\ b[first].used = FALSE /\ b[first] \in Block
    BY <1>1, <1>2, <1>7, <1>8
<1>11. [b[first] EXCEPT !.size = size] = e
  <2>1. [b[first] EXCEPT !.size = size]
          = [addr |-> b[first].addr, size |-> size, used |-> b[first].used]
    BY <1>9, <1>10, BlockExcept
  <2>2. QED
    BY <1>10, <2>1
<1>12. e \in Block
    BY <1>2, <1>9, <1>10 DEF Block
<1>13. e.addr = b[first].addr /\ e.size = size /\ e.used = FALSE
    OBVIOUS
<1> DEFINE s == <<e>>
<1> HIDE DEF e
<1>14. s \in Seq(Block) /\ Len(s) = 1 /\ s[1] = e
    BY <1>12
<1>15. Coalesce(b, i) = c
    BY <1>6, <1>11
<1>16. c \in Seq(Block) /\ Spliced(c, b, first, last, s)
  <2>1. c = Splice(b, first, last, s)
    OBVIOUS
  <2>2. last \in first .. Len(b) /\ s \in Seq(Block)
    BY <1>7, <1>14
  <2> HIDE DEF s, c
  <2>3. Splice(b, first, last, s) \in Seq(Block) /\ Spliced(Splice(b, first, last, s), b, first, last, s)
    BY <1>7, <2>2, SpliceIs
  <2>4. QED
    BY <2>1, <2>3
<1> HIDE DEF c, s
<1>17. Len(c) = Len(b) - (last - first) /\ Len(c) \in Nat /\ first <= Len(c)
    BY <1>1, <1>7, <1>14, <1>16 DEF Spliced
<1>18. ASSUME NEW k \in 1 .. Len(c)
       PROVE  c[k] = IF k < first THEN b[k] ELSE IF k < first + 1 THEN s[k - first + 1]
                     ELSE b[k - 1 + (last - first + 1)]
    BY <1>14, <1>16 DEF Spliced
<1>19. \A k \in 1 .. first - 1 : c[k] = b[k]
    BY <1>7, <1>17, <1>18
<1>20. \A k \in first + 1 .. Len(c) : c[k] = b[k + (last - first)]
  <2> SUFFICES ASSUME NEW k \in first + 1 .. Len(c) PROVE c[k] = b[k + (last - first)]
      OBVIOUS
  <2>1. k \in 1 .. Len(c) /\ ~(k < first + 1) /\ ~(k < first)
    BY <1>7, <1>17
  <2>2. k - 1 + (last - first + 1) = k + (last - first)
    BY <1>7, <1>17
  <2>3. QED
    BY <1>18, <2>1, <2>2
<1>21. c[first] = e
  <2>1. first \in 1 .. Len(c) /\ ~(first < first) /\ first < first + 1 /\ first - first + 1 = 1
    BY <1>7, <1>17
  <2>2. QED
    BY <1>14, <1>18, <2>1
<1>22. End(c[first]) <= End(b[last])
    BY <1>9, <1>13, <1>21 DEF End
<1>23. \A k \in first .. last : ~b[k].used /\ c[first].size >= b[k].size
    BY <1>8, <1>9, <1>13, <1>21
<1>24. c[first].size = MergedSize(b, first, last)
    BY <1>13, <1>21 DEF size
<1>25. MergedRun(c, b, first, last)
    BY <1>4, <1>5, <1>7, <1>9, <1>13, <1>17, <1>19, <1>20, <1>21, <1>22, <1>23, <1>24
       DEF MergedRun
<1>26. QED
    BY <1>4, <1>5, <1>15, <1>16, <1>25

\* heap_coalesce leaves a fine list, changes no region, and has room for what
\* fitted the block before.
LEMMA CoalesceFine ==
    ASSUME NEW b \in Seq(Block), Ordered(b), Whole(b), NEW i \in DOMAIN b, ~b[i].used,
           SettledBut(b, i)
    PROVE  LET c == Coalesce(b, i)
           IN  /\ ListFine(c)
               /\ Within(c, b)
               /\ Regions(c) = Regions(b)
               /\ c # <<>>
               /\ \E k \in DOMAIN c : ~c[k].used /\ c[k].size >= b[i].size
<1> DEFINE c == Coalesce(b, i)
<1>1. /\ Len(b) \in Nat /\ DOMAIN b = 1 .. Len(b) /\ i \in 1 .. Len(b)
      /\ \A k \in DOMAIN b : /\ b[k].addr \in Nat /\ b[k].size \in Nat /\ b[k].used \in BOOLEAN
                             /\ End(b[k]) \in Nat /\ b[k].addr <= End(b[k])
    BY BlockTyped
<1>2. c \in Seq(Block)
    BY CoalesceIs
<1>3. PICK first \in 1 .. i, last \in i .. Len(b) : MergedRun(c, b, first, last)
    BY CoalesceIs
<1> HIDE DEF c
<1> DEFINE n == last - first
<1>4. /\ n \in Nat /\ first \in DOMAIN b /\ last \in DOMAIN b /\ first <= last
      /\ first \in Nat /\ last \in Nat
    BY <1>1
<1>5. /\ Len(c) \in Nat /\ DOMAIN c = 1 .. Len(c) /\ Len(c) = Len(b) - n /\ first \in DOMAIN c
      /\ \A k \in DOMAIN c : /\ c[k].addr \in Nat /\ c[k].size \in Nat /\ c[k].used \in BOOLEAN
                             /\ End(c[k]) \in Nat /\ c[k].addr <= End(c[k])
  <2>1. Len(c) \in Nat /\ DOMAIN c = 1 .. Len(c)
    BY <1>2, LenProperties
  <2>2. Len(c) = Len(b) - n
    BY <1>3 DEF MergedRun
  <2>3. first \in DOMAIN c
    BY <1>1, <1>4, <2>1, <2>2
  <2>4. QED
    BY <1>2, <2>1, <2>2, <2>3, BlockTyped, SMTT(30)
<1>6. /\ \A k \in 1 .. first - 1 : c[k] = b[k]
      /\ \A k \in first + 1 .. Len(c) : c[k] = b[k + n]
      /\ c[first].addr = b[first].addr /\ ~c[first].used
      /\ c[first].size % Word = 0
      /\ End(c[first]) <= End(b[last])
      /\ \A k \in first .. last : ~b[k].used /\ c[first].size >= b[k].size
      /\ first > 1 => b[first - 1].used
      /\ last < Len(b) => b[last + 1].used
    BY <1>3 DEF MergedRun
<1> HIDE DEF n
<1>7. n = last - first
    BY DEF n
<1>8. ASSUME NEW k \in DOMAIN c, k > first
      PROVE  c[k] = b[k + n] /\ k + n \in DOMAIN b /\ k + n > last
  <2>1. k \in first + 1 .. Len(c)
    BY <1>4, <1>5, <1>8
  <2>2. k + n \in DOMAIN b /\ k + n > last
    BY <1>1, <1>4, <1>5, <1>7, <1>8
  <2>3. QED
    BY <1>6, <2>1, <2>2
<1>9. ASSUME NEW k \in DOMAIN c, k < first
      PROVE  c[k] = b[k] /\ k \in DOMAIN b
  <2>1. k \in 1 .. first - 1 /\ k \in DOMAIN b
    BY <1>1, <1>4, <1>5, <1>9
  <2>2. QED
    BY <1>6, <2>1
<1>10. /\ Len(b) \in Nat /\ DOMAIN b = 1 .. Len(b) /\ i \in 1 .. Len(b)
       /\ first \in 1 .. i /\ last \in i .. Len(b) /\ n = last - first
       /\ Len(c) \in Nat /\ Len(c) = Len(b) - n /\ DOMAIN c = 1 .. Len(c)
    BY <1>1, <1>5, <1>7
<1> DEFINE from(k) == IF k <= first THEN k ELSE k + n
           upto(k) == IF k < first THEN k ELSE IF k = first THEN last ELSE k + n
<1>11. \A k \in DOMAIN c :
          /\ from(k) \in DOMAIN b /\ upto(k) \in DOMAIN b
          /\ b[from(k)].addr <= c[k].addr
          /\ End(c[k]) <= End(b[upto(k)])
  <2> SUFFICES ASSUME NEW k \in DOMAIN c
               PROVE  /\ from(k) \in DOMAIN b /\ upto(k) \in DOMAIN b
                      /\ b[from(k)].addr <= c[k].addr
                      /\ End(c[k]) <= End(b[upto(k)])
      OBVIOUS
  <2>1. CASE k < first
    <3>1. from(k) = k /\ upto(k) = k
      BY <1>4, <1>5, <2>1
    <3>2. QED
      BY <1>1, <1>9, <2>1, <3>1
  <2>2. CASE k = first
    <3>1. from(k) = first /\ upto(k) = last
      BY <1>4, <2>2
    <3>2. QED
      BY <1>1, <1>4, <1>6, <2>2, <3>1
  <2>3. CASE k > first
    <3>1. from(k) = k + n /\ upto(k) = k + n
      BY <1>4, <1>5, <2>3
    <3>2. QED
      BY <1>1, <1>8, <2>3, <3>1
  <2>4. QED
    BY <1>4, <1>5, <2>1, <2>2, <2>3
<1>12. Ordered(c)
  <2> SUFFICES ASSUME NEW k \in DOMAIN c, NEW l \in DOMAIN c, k < l
               PROVE  End(c[k]) <= c[l].addr
      BY DEF Ordered
  <2>1. upto(k) < from(l)
    BY <1>10
  <2>2. /\ upto(k) \in DOMAIN b /\ from(l) \in DOMAIN b
        /\ b[from(l)].addr <= c[l].addr /\ End(c[k]) <= End(b[upto(k)])
    BY <1>11
  <2> HIDE DEF upto, from
  <2>3. End(b[upto(k)]) <= b[from(l)].addr
    BY <2>1, <2>2 DEF Ordered
  <2>4. /\ b[from(l)].addr \in Nat /\ End(b[upto(k)]) \in Nat
        /\ c[l].addr \in Nat /\ End(c[k]) \in Nat
    BY <1>1, <1>5, <2>2
  <2>5. QED
    BY <2>2, <2>3, <2>4
<1>13. Whole(c)
  <2> SUFFICES ASSUME NEW k \in DOMAIN c PROVE c[k].size % Word = 0
      BY DEF Whole
  <2>1. k < first \/ k = first \/ k > first
    BY <1>4, <1>5
  <2>2. QED
    BY <1>6, <1>8, <1>9, <2>1 DEF Whole
<1>14. Settled(c)
  <2> SUFFICES ASSUME NEW k \in DOMAIN c, k > 1 PROVE c[k - 1].used \/ c[k].used
      BY DEF Settled
  <2>1. k - 1 \in DOMAIN c /\ k - 1 < k
    BY <1>5
  <2>2. CASE k < first
    <3>1. c[k] = b[k] /\ c[k - 1] = b[k - 1] /\ k \in DOMAIN b
      BY <1>4, <1>5, <1>9, <2>1, <2>2
    <3>2. k # i /\ k # i + 1
      BY <1>1, <1>4, <1>5, <2>2
    <3>3. QED
      BY <3>1, <3>2 DEF SettledBut
  <2>3. CASE k = first
    BY <1>4, <1>6, <1>9, <2>1, <2>3
  <2>4. CASE k = first + 1
    <3>1. k + n = last + 1 /\ k > first
      BY <1>4, <1>7, <2>4
    <3>2. c[k] = b[last + 1] /\ last + 1 \in DOMAIN b
      BY <1>8, <3>1
    <3>3. last < Len(b)
      BY <1>1, <1>4, <3>2
    <3>4. QED
      BY <1>6, <3>2, <3>3
  <2>5. CASE k > first + 1
    <3>1. c[k] = b[k + n] /\ k + n \in DOMAIN b /\ k + n > last
      BY <1>4, <1>5, <1>8, <2>5
    <3>2. c[k - 1] = b[(k - 1) + n] /\ (k - 1) + n > last
      BY <1>4, <1>5, <1>8, <2>1, <2>5
    <3>3. (k - 1) + n = (k + n) - 1 /\ k + n > 1 /\ k + n # i /\ k + n # i + 1
      BY <1>10, <3>1, <3>2
    <3>4. QED
      BY <3>1, <3>2, <3>3 DEF SettledBut
  <2>6. QED
    BY <1>4, <1>5, <2>2, <2>3, <2>4, <2>5
<1>15. Within(c, b)
  <2> HIDE DEF from, upto
  <2>1. QED
    BY <1>11 DEF Within
<1>16. Regions(c) = Regions(b)
  <2> DEFINE reg(x) == [start |-> PtrOf(x), size |-> x.size]
  <2>1. \A k \in UsedIn(b) : \E l \in UsedIn(c) : c[l] = b[k]
    <3> SUFFICES ASSUME NEW k \in UsedIn(b) PROVE \E l \in UsedIn(c) : c[l] = b[k]
        OBVIOUS
    <3>1. k \in 1 .. Len(b) /\ b[k].used
      BY <1>1 DEF UsedIn
    <3>2. k < first \/ k > last
      BY <1>4, <1>6, <3>1
    <3>3. CASE k < first
      <4>1. k \in DOMAIN c
        BY <1>4, <1>5, <3>1, <3>3
      <4>2. QED
        BY <1>9, <3>1, <3>3, <4>1 DEF UsedIn
    <3>4. CASE k > last
      <4>1. k - n \in DOMAIN c /\ k - n > first /\ (k - n) + n = k
        BY <1>10, <3>1, <3>4
      <4>2. c[k - n] = b[k]
        BY <1>8, <4>1
      <4>3. QED
        BY <3>1, <4>1, <4>2 DEF UsedIn
    <3>5. QED
      BY <3>2, <3>3, <3>4
  <2>2. \A l \in UsedIn(c) : \E k \in UsedIn(b) : c[l] = b[k]
    <3> SUFFICES ASSUME NEW l \in UsedIn(c) PROVE \E k \in UsedIn(b) : c[l] = b[k]
        OBVIOUS
    <3>1. l \in DOMAIN c /\ c[l].used
      BY DEF UsedIn
    <3>2. l < first \/ l > first
      BY <1>4, <1>5, <1>6, <3>1
    <3>3. QED
      BY <1>8, <1>9, <3>1, <3>2 DEF UsedIn
  <2>3. Regions(b) = {reg(b[k]) : k \in UsedIn(b)} /\ Regions(c) = {reg(c[l]) : l \in UsedIn(c)}
    BY DEF Regions
  <2> HIDE DEF reg
  <2>4. QED
    BY <2>1, <2>2, <2>3
<1>17. ~c[first].used /\ c[first].size >= b[i].size
    BY <1>1, <1>4, <1>6
<1>18. c # <<>>
    BY <1>5
<1>19. QED
    BY <1>2, <1>5, <1>12, <1>13, <1>14, <1>15, <1>16, <1>17, <1>18 DEF ListFine, c

-----------------------------------------------------------------------------
(* What the counters count, when each block is given a weight.               *)

Headed == [x \in Block |-> Hdr + x.size]
UsedSize == [x \in Block |-> IF x.used THEN x.size ELSE 0]
UsedOne == [x \in Block |-> IF x.used THEN 1 ELSE 0]

Weights(w, b) == [k \in DOMAIN b |-> w[b[k]]]

Weight(w, b) == Total(Weights(w, b), Len(b))

\* The weight of the blocks of b after lo, up to hi.
Part(w, b, lo, hi) == Total(Weights(w, b), hi) - Total(Weights(w, b), lo)

\* The weights of the blocks and their sum are naturals.
LEMMA WeightNatural ==
    ASSUME NEW w \in [Block -> Nat], NEW b \in Seq(Block)
    PROVE  /\ \A k \in 1 .. Len(b) : Weights(w, b)[k] = w[b[k]] /\ w[b[k]] \in Nat
           /\ \A k \in 0 .. Len(b) : Total(Weights(w, b), k) \in Nat
           /\ Weight(w, b) \in Nat
<1>1. Len(b) \in Nat /\ DOMAIN b = 1 .. Len(b) /\ \A k \in 1 .. Len(b) : b[k] \in Block
    BY BlockTyped
<1>2. \A k \in 1 .. Len(b) : Weights(w, b)[k] = w[b[k]] /\ w[b[k]] \in Nat
    BY <1>1 DEF Weights
<1>3. \A k \in 0 .. Len(b) : Total(Weights(w, b), k) \in Nat
  <2> DEFINE f == Weights(w, b)   n == Len(b)
  <2>1. n \in Nat /\ \A k \in 1 .. n : f[k] \in Nat
    BY <1>1, <1>2
  <2> HIDE DEF f, n
  <2>2. \A k \in 0 .. n : Total(f, k) \in Nat
    BY <2>1, TotalNatural
  <2>3. QED
    BY <2>2 DEF f, n
<1>4. Len(b) \in 0 .. Len(b)
    BY <1>1
<1>5. QED
    BY <1>2, <1>3, <1>4 DEF Weight

\* The part of a sum that one, two or three blocks have.
LEMMA PartIs ==
    ASSUME NEW w \in [Block -> Nat], NEW b \in Seq(Block),
           NEW first \in 1 .. Len(b), NEW last \in first .. Len(b)
    PROVE  LET part == Part(w, b, first - 1, last)
           IN  /\ last = first => part = w[b[first]]
               /\ last = first + 1 => part = w[b[first]] + w[b[first + 1]]
               /\ last = first + 2 => part = w[b[first]] + w[b[first + 1]] + w[b[first + 2]]
<1> DEFINE f == Weights(w, b)
           n == Len(b)
<1>1. /\ n \in Nat
      /\ \A k \in 1 .. n : f[k] = w[b[k]] /\ w[b[k]] \in Nat
      /\ \A k \in 0 .. n : Total(f, k) \in Nat
    BY WeightNatural, LenProperties
<1> HIDE DEF f
<1>2. first \in 1 .. n /\ last \in first .. n
    OBVIOUS
<1> HIDE DEF n
<1>3. /\ first - 1 \in 0 .. n /\ first \in 0 .. n /\ first \in Nat /\ first - 1 \in Nat
      /\ first + 1 \in Nat /\ (first - 1) + 1 = first /\ (first + 1) + 1 = first + 2
    BY <1>1, <1>2
<1>4. last = first + 1 => first + 1 \in 1 .. n /\ first + 1 \in 0 .. n
    BY <1>1, <1>2
<1>5. last = first + 2 => /\ first + 1 \in 1 .. n /\ first + 1 \in 0 .. n
                        /\ first + 2 \in 1 .. n /\ first + 2 \in 0 .. n
    BY <1>1, <1>2
<1>6. /\ Total(f, first) = Total(f, first - 1) + f[first]
      /\ Total(f, first + 1) = Total(f, first) + f[first + 1]
      /\ Total(f, first + 2) = Total(f, first + 1) + f[first + 2]
  <2>1. \A k \in Nat : Total(f, k + 1) = Total(f, k) + f[k + 1]
    BY TotalStep
  <2>2. Total(f, (first - 1) + 1) = Total(f, first - 1) + f[(first - 1) + 1]
    BY <1>3, <2>1
  <2>3. Total(f, (first + 1) + 1) = Total(f, first + 1) + f[(first + 1) + 1]
    BY <1>3, <2>1
  <2>4. QED
    BY <1>3, <2>1, <2>2, <2>3
<1>7. Part(w, b, first - 1, last) = Total(f, last) - Total(f, first - 1)
    BY DEF Part, f
<1>8. Total(f, first - 1) \in Nat /\ Total(f, first) \in Nat
      /\ f[first] = w[b[first]] /\ w[b[first]] \in Nat
    BY <1>1, <1>2, <1>3
<1>9. CASE last = first
    BY <1>6, <1>7, <1>8, <1>9
<1>10. CASE last = first + 1
  <2>1. f[first + 1] = w[b[first + 1]] /\ w[b[first + 1]] \in Nat
    BY <1>1, <1>4, <1>10
  <2>2. QED
    BY <1>3, <1>6, <1>7, <1>8, <1>10, <2>1, SMTT(30)
<1>11. CASE last = first + 2
  <2>1. /\ f[first + 1] = w[b[first + 1]] /\ w[b[first + 1]] \in Nat
        /\ f[first + 2] = w[b[first + 2]] /\ w[b[first + 2]] \in Nat
    BY <1>1, <1>5, <1>11
  <2> DEFINE T0 == Total(f, first - 1)   T1 == Total(f, first)
             T2 == Total(f, first + 1)   T3 == Total(f, first + 2)
             x == w[b[first]]   y == w[b[first + 1]]   z == w[b[first + 2]]
  <2>2. /\ T0 \in Nat /\ x \in Nat /\ y \in Nat /\ z \in Nat
        /\ T1 = T0 + x /\ T2 = T1 + y /\ T3 = T2 + z
    BY <1>6, <1>8, <2>1
  <2>3. Part(w, b, first - 1, last) = T3 - T0
    BY <1>7, <1>11
  <2> HIDE DEF T0, T1, T2, T3, x, y, z
  <2>4. T3 - T0 = x + y + z
    BY <2>2
  <2>5. Part(w, b, first - 1, last) = x + y + z
    BY <2>3, <2>4
  <2>6. last # first /\ last # first + 1
    BY <1>3, <1>11
  <2>7. QED
    BY <2>5, <2>6 DEF x, y, z
<1>12. QED
    BY <1>9, <1>10, <1>11

\* An edit changes the weight of the list by what it changes in its place.
LEMMA WeightEdited ==
    ASSUME NEW w \in [Block -> Nat], NEW b \in Seq(Block), NEW c \in Seq(Block),
           NEW lo \in Nat, NEW hb \in lo .. Len(b), NEW hc \in lo .. Len(c),
           Len(c) - hc = Len(b) - hb,
           \A k \in 1 .. lo : c[k] = b[k],
           \A k \in 1 .. Len(b) - hb : c[hc + k] = b[hb + k]
    PROVE  Weight(w, c) - Weight(w, b) = Part(w, c, lo, hc) - Part(w, b, lo, hb)
<1> DEFINE f == Weights(w, b)
           g == Weights(w, c)
           n == Len(b)
           m == Len(c)
           r == n - hb
<1>1. /\ n \in Nat /\ m \in Nat
      /\ \A k \in 1 .. n : f[k] = w[b[k]] /\ f[k] \in Nat
      /\ \A k \in 1 .. m : g[k] = w[c[k]] /\ g[k] \in Nat
      /\ \A k \in 0 .. n : Total(f, k) \in Nat
      /\ \A k \in 0 .. m : Total(g, k) \in Nat
  <2>1. n \in Nat /\ m \in Nat
    BY LenProperties
  <2>2. /\ \A k \in 1 .. n : f[k] = w[b[k]] /\ w[b[k]] \in Nat
        /\ \A k \in 0 .. n : Total(f, k) \in Nat
    BY WeightNatural
  <2>3. /\ \A k \in 1 .. m : g[k] = w[c[k]] /\ w[c[k]] \in Nat
        /\ \A k \in 0 .. m : Total(g, k) \in Nat
    BY WeightNatural
  <2> HIDE DEF f, g, n, m
  <2>4. QED
    BY <2>1, <2>2, <2>3
<1>2. /\ hb \in Nat /\ hc \in Nat /\ r \in Nat /\ hb + r = n /\ hc + r = m
      /\ lo <= n /\ lo <= m
    BY <1>1
<1>3. \A k \in 1 .. lo : f[k] = g[k] /\ f[k] \in Nat /\ g[k] \in Nat
  <2> SUFFICES ASSUME NEW k \in 1 .. lo PROVE f[k] = g[k] /\ f[k] \in Nat /\ g[k] \in Nat
      OBVIOUS
  <2>1. c[k] = b[k] /\ k \in 1 .. n /\ k \in 1 .. m
    BY <1>1, <1>2, SMTT(30)
  <2> HIDE DEF f, g, n, m, r
  <2>2. QED
    BY <1>1, <2>1
<1>4. \A k \in 1 .. r : g[hc + k] = f[hb + k]
  <2> SUFFICES ASSUME NEW k \in 1 .. r PROVE g[hc + k] = f[hb + k]
      OBVIOUS
  <2>1. hc + k \in 1 .. m /\ hb + k \in 1 .. n /\ c[hc + k] = b[hb + k]
    BY <1>1, <1>2
  <2> HIDE DEF f, g, n, m, r
  <2>2. g[hc + k] = w[c[hc + k]]
    BY <1>1, <2>1
  <2>3. f[hb + k] = w[b[hb + k]]
    BY <1>1, <2>1
  <2>4. QED
    BY <2>1, <2>2, <2>3
<1> HIDE DEF f, g, n, m, r
<1>5. Total(g, lo) - Total(g, 0) = Total(f, lo) - Total(f, 0)
  <2> DEFINE z == 0
  <2>1. /\ z + lo = lo /\ z \in Nat
        /\ \A k \in 1 .. z + lo : f[k] \in Nat
        /\ \A k \in 1 .. z + lo : g[k] \in Nat
        /\ \A k \in 1 .. lo : g[z + k] = f[z + k]
    <3>1. z + lo = lo /\ z \in Nat /\ \A k \in 1 .. lo : z + k = k
      OBVIOUS
    <3> HIDE DEF z
    <3>2. \A k \in 1 .. lo : f[k] \in Nat /\ g[k] \in Nat /\ g[z + k] = f[z + k]
      BY <1>3, <3>1
    <3>3. QED
      BY <3>1, <3>2
  <2>2. SameTerms(f, z, g, z, lo)
    BY <2>1 DEF SameTerms
  <2> HIDE DEF z
  <2>3. Total(g, z + lo) - Total(g, z) = Total(f, z + lo) - Total(f, z)
    BY <2>1, <2>2, TotalShifted
  <2>4. QED
    BY <2>1, <2>3 DEF z
<1>6. Total(g, m) - Total(g, hc) = Total(f, n) - Total(f, hb)
  <2>1. Total(g, hc + r) - Total(g, hc) = Total(f, hb + r) - Total(f, hb)
    <3>1. SameTerms(f, hb, g, hc, r)
      BY <1>1, <1>2, <1>4 DEF SameTerms
    <3>2. hb \in Nat /\ hc \in Nat /\ r \in Nat
      BY <1>2
    <3>3. QED
      BY <3>1, <3>2, TotalShifted
  <2>2. QED
    BY <1>2, <2>1
<1>7. Total(f, 0) = 0 /\ Total(g, 0) = 0
    BY TotalStep
<1>8. /\ Total(f, lo) \in Nat /\ Total(g, lo) \in Nat /\ Total(f, hb) \in Nat
      /\ Total(g, hc) \in Nat /\ Total(f, n) \in Nat /\ Total(g, m) \in Nat
  <2>1. lo \in 0 .. n /\ hb \in 0 .. n /\ n \in 0 .. n /\ lo \in 0 .. m /\ hc \in 0 .. m /\ m \in 0 .. m
    BY <1>1, <1>2
  <2>2. /\ \A k \in 0 .. n : Total(f, k) \in Nat
        /\ \A k \in 0 .. m : Total(g, k) \in Nat
    BY <1>1
  <2>3. QED
    BY <2>1, <2>2
<1>9. Weight(w, c) = Total(g, m) /\ Weight(w, b) = Total(f, n)
    BY DEF Weight, f, g, n, m
<1>10. Part(w, c, lo, hc) = Total(g, hc) - Total(g, lo) /\ Part(w, b, lo, hb) = Total(f, hb) - Total(f, lo)
    BY DEF Part, f, g
<1> DEFINE F0 == Total(f, lo)   Fb == Total(f, hb)   Fn == Total(f, n)
           G0 == Total(g, lo)   Gc == Total(g, hc)   Gm == Total(g, m)
<1>11. /\ F0 \in Nat /\ Fb \in Nat /\ Fn \in Nat /\ G0 \in Nat /\ Gc \in Nat /\ Gm \in Nat
       /\ G0 - 0 = F0 - 0 /\ Gm - Gc = Fn - Fb
    BY <1>5, <1>6, <1>7, <1>8
<1>12. /\ Weight(w, c) - Weight(w, b) = Gm - Fn
       /\ Part(w, c, lo, hc) - Part(w, b, lo, hb) = (Gc - G0) - (Fb - F0)
    BY <1>9, <1>10
<1> HIDE DEF F0, Fb, Fn, G0, Gc, Gm
<1>13. Gm - Fn = (Gc - G0) - (Fb - F0)
    BY <1>11
<1>14. QED
    BY <1>12, <1>13

\* The three weights: bytes with header, bytes in use, blocks in use.
LEMMA WeightsTyped ==
    /\ Headed \in [Block -> Nat] /\ UsedSize \in [Block -> Nat] /\ UsedOne \in [Block -> Nat]
    /\ \A x \in Block : /\ Headed[x] = Hdr + x.size
                        /\ UsedSize[x] = IF x.used THEN x.size ELSE 0
                        /\ UsedOne[x] = IF x.used THEN 1 ELSE 0
<1>1. Hdr \in Nat
    BY HeapAssumption
<1>2. \A x \in Block : x.size \in Nat
    BY DEF Block
<1>3. QED
    BY <1>1, <1>2 DEF Headed, UsedSize, UsedOne

\* The used bytes and the used blocks are no more than the bytes of all blocks.
LEMMA UsedWeighLess ==
    ASSUME NEW b \in Seq(Block)
    PROVE  /\ Weight(UsedSize, b) \in Nat /\ Weight(UsedSize, b) <= Weight(Headed, b)
           /\ Weight(UsedOne, b) \in Nat /\ Weight(UsedOne, b) <= Weight(Headed, b)
<1>1. ASSUME NEW w \in [Block -> Nat], \A x \in Block : w[x] <= Headed[x]
      PROVE  Weight(w, b) \in Nat /\ Weight(w, b) <= Weight(Headed, b)
  <2> DEFINE rest == [x \in Block |-> Headed[x] - w[x]]
  <2>1. \A x \in Block : Headed[x] \in Nat /\ w[x] \in Nat /\ Headed[x] - w[x] \in Nat
    <3>1. \A x \in Block : Headed[x] \in Nat /\ w[x] \in Nat
      BY WeightsTyped
    <3>2. QED
      BY <1>1, <3>1
  <2>2. rest \in [Block -> Nat]
    BY <2>1
  <2>3. \A x \in Block : Headed[x] = w[x] + rest[x]
    BY <2>1
  <2> HIDE DEF rest
  <2>4. /\ Weight(w, b) \in Nat /\ Weight(rest, b) \in Nat /\ Weight(Headed, b) \in Nat
        /\ Len(b) \in Nat
        /\ \A k \in 1 .. Len(b) : /\ b[k] \in Block
                                   /\ Weights(w, b)[k] = w[b[k]] /\ w[b[k]] \in Nat
                                   /\ Weights(rest, b)[k] = rest[b[k]] /\ rest[b[k]] \in Nat
                                   /\ Weights(Headed, b)[k] = Headed[b[k]]
    <3>1. Len(b) \in Nat /\ \A k \in 1 .. Len(b) : b[k] \in Block
      BY BlockTyped
    <3>2. Headed \in [Block -> Nat]
      BY WeightsTyped
    <3>3. \A v \in [Block -> Nat] :
             /\ Weight(v, b) \in Nat
             /\ \A k \in 1 .. Len(b) : Weights(v, b)[k] = v[b[k]] /\ v[b[k]] \in Nat
      BY WeightNatural
    <3>4. QED
      BY <2>2, <3>1, <3>2, <3>3
  <2> DEFINE f == Weights(w, b)
             g == Weights(rest, b)
             h == Weights(Headed, b)
             n == Len(b)
  <2>5. n \in Nat /\ \A k \in 1 .. n : f[k] \in Nat /\ g[k] \in Nat /\ h[k] = f[k] + g[k]
    BY <2>3, <2>4
  <2> HIDE DEF f, g, h, n
  <2>6. Total(h, n) = Total(f, n) + Total(g, n)
    BY <2>5, TotalOfSums
  <2>7. Weight(Headed, b) = Weight(w, b) + Weight(rest, b)
    BY <2>6 DEF Weight, f, g, h, n
  <2>8. QED
    BY <2>4, <2>7
<1>2. \A x \in Block : UsedSize[x] <= Headed[x] /\ UsedOne[x] <= Headed[x]
  <2>1. ASSUME NEW x \in Block PROVE UsedSize[x] <= Headed[x] /\ UsedOne[x] <= Headed[x]
    <3>1. x.size \in Nat /\ Hdr \in Nat /\ Hdr >= 1 /\ x.used \in BOOLEAN
      BY HeapAssumption DEF Block
    <3>2. /\ Headed[x] = Hdr + x.size
          /\ UsedSize[x] = IF x.used THEN x.size ELSE 0
          /\ UsedOne[x] = IF x.used THEN 1 ELSE 0
      BY WeightsTyped
    <3> DEFINE s == x.size
    <3>3. UsedSize[x] \in {s, 0} /\ UsedOne[x] \in {1, 0} /\ Headed[x] = Hdr + s /\ s \in Nat
      BY <3>1, <3>2
    <3> HIDE DEF s
    <3>4. QED
      BY <3>1, <3>3
  <2>2. QED
    BY <2>1
<1>3. QED
    BY <1>1, <1>2, WeightsTyped

\* The place of the edit, for one that leaves blocks first..hc of c where
\* blocks first..hb of b were.
Edited(c, b, first, hb, hc) ==
    /\ first \in 1 .. Len(b) /\ hb \in first .. Len(b)
    /\ first \in 1 .. Len(c) /\ hc \in first .. Len(c)
    /\ Len(c) - hc = Len(b) - hb
    /\ \A k \in 1 .. first - 1 : c[k] = b[k]
    /\ \A k \in 1 .. Len(b) - hb : c[hc + k] = b[hb + k]

\* An edited list weighs more by what the run replaced does.
LEMMA EditedWeighs ==
    ASSUME NEW w \in [Block -> Nat], NEW b \in Seq(Block), NEW c \in Seq(Block),
           NEW first, NEW hb, NEW hc, Edited(c, b, first, hb, hc)
    PROVE  Weight(w, c) - Weight(w, b) = Part(w, c, first - 1, hc) - Part(w, b, first - 1, hb)
<1>1. Len(b) \in Nat /\ Len(c) \in Nat
    BY LenProperties
<1>2. /\ first - 1 \in Nat /\ hb \in first - 1 .. Len(b) /\ hc \in first - 1 .. Len(c)
    BY <1>1 DEF Edited
<1>3. /\ Len(c) - hc = Len(b) - hb
      /\ \A k \in 1 .. first - 1 : c[k] = b[k]
      /\ \A k \in 1 .. Len(b) - hb : c[hc + k] = b[hb + k]
    BY DEF Edited
<1> DEFINE lo == first - 1
<1> HIDE DEF lo
<1>4. Weight(w, c) - Weight(w, b) = Part(w, c, lo, hc) - Part(w, b, lo, hb)
    BY <1>2, <1>3, WeightEdited DEF lo
<1>5. QED
    BY <1>4 DEF lo

\* Taking a block moves its data from the free bytes to the used ones; what is
\* cut off it stays free, less the header it gets.
LEMMA TakenWeighs ==
    ASSUME NEW b, ListFine(b), NEW i \in DOMAIN b, ~b[i].used,
           NEW size \in Nat, size % Word = 0, size <= b[i].size
    PROVE  LET c == Taken(b, i, size)
           IN  /\ Weight(Headed, c) = Weight(Headed, b)
               /\ Weight(UsedSize, c) = Weight(UsedSize, b) + c[i].size
               /\ Weight(UsedOne, c) = Weight(UsedOne, b) + 1
<1> DEFINE c == Taken(b, i, size)
           n == Len(c) - Len(b)
           rest == c[i + 1]
           old == b[i]
           new == c[i]
<1>1. /\ b \in Seq(Block) /\ Len(b) \in Nat /\ i \in 1 .. Len(b)
      /\ old \in Block /\ old.size \in Nat /\ old.addr \in Nat /\ ~old.used
    BY BlockTyped DEF ListFine
<1>2. /\ c \in Seq(Block)
      /\ n \in {0, 1}
      /\ \A k \in 1 .. i - 1 : c[k] = b[k]
      /\ \A k \in i + 1 + n .. Len(c) : c[k] = b[k - n]
      /\ new.addr = old.addr /\ new.used
      /\ n = 0 => new.size = old.size
      /\ n = 1 => /\ ~rest.used
                 /\ rest.addr = End(new)
                 /\ End(rest) = End(old)
    BY TakenIs
<1> HIDE DEF c
<1>3. Len(c) \in Nat /\ \A k \in 1 .. Len(c) : c[k] \in Block /\ c[k].size \in Nat
    BY <1>2, BlockTyped, SMTT(30)
<1> DEFINE lb == Len(b)
           lc == Len(c)
           hc == i + n
<1>4. lc = lb + n /\ lb \in Nat /\ lc \in Nat /\ i \in 1 .. lb
    BY <1>1, <1>2, <1>3
<1> HIDE DEF n, lb, lc
<1>5. /\ i \in 1 .. lc /\ (n = 1 => i + 1 \in 1 .. lc)
      /\ hc \in i .. lc /\ lc - hc = lb - i
      /\ n = 0 => hc = i
      /\ n = 1 => hc = i + 1
    BY <1>2, <1>4
<1>6. \A k \in 1 .. lb - i : hc + k \in i + 1 + n .. lc /\ (hc + k) - n = i + k
  <2>1. n \in Nat
    BY <1>2
  <2>2. QED
    BY <1>4, <2>1
<1>7. Edited(c, b, i, i, hc)
  <2>1. \A k \in 1 .. lb - i : c[hc + k] = b[i + k]
    <3> SUFFICES ASSUME NEW k \in 1 .. lb - i PROVE c[hc + k] = b[i + k]
        OBVIOUS
    <3> HIDE DEF hc
    <3>1. QED
      BY <1>2, <1>6 DEF lc
  <2>2. i \in i .. lb
    BY <1>4
  <2> HIDE DEF hc
  <2>3. QED
    BY <1>2, <1>4, <1>5, <2>1, <2>2 DEF Edited, lb, lc
<1>8. ASSUME NEW w \in [Block -> Nat]
      PROVE  /\ n = 0 => Weight(w, c) - Weight(w, b) = w[new] - w[old]
             /\ n = 1 => Weight(w, c) - Weight(w, b) = (w[new] + w[rest]) - w[old]
  <2> HIDE DEF hc
  <2>1. Weight(w, c) - Weight(w, b) = Part(w, c, i - 1, hc) - Part(w, b, i - 1, i)
    <3>1. b \in Seq(Block) /\ c \in Seq(Block)
      BY <1>1, <1>2
    <3>2. QED
      BY <1>7, <3>1, EditedWeighs
  <2>2. Part(w, b, i - 1, i) = w[b[i]]
    <3>1. i \in i .. Len(b)
      BY <1>1
    <3>2. QED
      BY <1>1, <3>1, PartIs
  <2>3. i \in 1 .. Len(c) /\ hc \in i .. Len(c)
    BY <1>5 DEF lc
  <2>4. n = 0 => Part(w, c, i - 1, hc) = w[c[i]]
    BY <1>2, <1>5, <2>3, PartIs
  <2>5. n = 1 => Part(w, c, i - 1, hc) = w[c[i]] + w[c[i + 1]]
    BY <1>2, <1>5, <2>3, PartIs
  <2> DEFINE d == Weight(w, c) - Weight(w, b)
             got == Part(w, c, i - 1, hc)
  <2>6. d = got - w[old] /\ (n = 0 => got = w[new]) /\ (n = 1 => got = w[new] + w[rest])
    BY <2>1, <2>2, <2>4, <2>5
  <2> HIDE DEF d, got, new, rest, old
  <2>7. (n = 0 => d = w[new] - w[old]) /\ (n = 1 => d = (w[new] + w[rest]) - w[old])
    BY <2>6
  <2>8. QED
    BY <2>7 DEF d
<1>9. new \in Block /\ new.size \in Nat /\ (n = 1 => rest \in Block /\ rest.size \in Nat)
    BY <1>3, <1>5 DEF lc
<1>10. Hdr \in Nat
    BY HeapAssumption
<1> HIDE DEF new, rest, old
<1>11. n = 1 => new.size + (Hdr + rest.size) = old.size
  <2> SUFFICES ASSUME n = 1 PROVE new.size + (Hdr + rest.size) = old.size
      OBVIOUS
  <2> DEFINE a == old.addr   x == new.size   y == rest.size   z == old.size
  <2>1. a + Hdr + x + Hdr + y = a + Hdr + z
    BY <1>2 DEF End
  <2>2. a \in Nat /\ x \in Nat /\ y \in Nat /\ z \in Nat
    BY <1>1, <1>9
  <2> HIDE DEF a, x, y, z
  <2>3. x + (Hdr + y) = z
    BY <1>10, <2>1, <2>2
  <2>4. QED
    BY <2>3 DEF x, y, z
<1>12. n = 0 \/ n = 1
    BY <1>2
<1> DEFINE H == Weight(Headed, b)     H2 == Weight(Headed, c)
           S == Weight(UsedSize, b)   S2 == Weight(UsedSize, c)
           O == Weight(UsedOne, b)    O2 == Weight(UsedOne, c)
<1>13. H \in Nat /\ H2 \in Nat /\ S \in Nat /\ S2 \in Nat /\ O \in Nat /\ O2 \in Nat
    BY <1>1, <1>2, WeightNatural, WeightsTyped
<1>14. /\ n = 0 => H2 - H = Headed[new] - Headed[old]
       /\ n = 1 => H2 - H = (Headed[new] + Headed[rest]) - Headed[old]
    BY <1>8, WeightsTyped
<1>15. /\ n = 0 => S2 - S = UsedSize[new] - UsedSize[old]
       /\ n = 1 => S2 - S = (UsedSize[new] + UsedSize[rest]) - UsedSize[old]
    BY <1>8, WeightsTyped
<1>16. /\ n = 0 => O2 - O = UsedOne[new] - UsedOne[old]
       /\ n = 1 => O2 - O = (UsedOne[new] + UsedOne[rest]) - UsedOne[old]
    BY <1>8, WeightsTyped
<1> HIDE DEF H, H2, S, S2, O, O2
<1>17. /\ Headed[new] = Hdr + new.size /\ Headed[old] = Hdr + old.size
       /\ UsedSize[new] = new.size /\ UsedSize[old] = 0
       /\ UsedOne[new] = 1 /\ UsedOne[old] = 0
       /\ n = 1 => /\ Headed[rest] = Hdr + rest.size
                  /\ UsedSize[rest] = 0 /\ UsedOne[rest] = 0
    BY <1>1, <1>2, <1>9, WeightsTyped
<1>18. H2 = H
  <2> DEFINE x == new.size   y == rest.size   z == old.size
  <2>1. /\ x \in Nat /\ z \in Nat
        /\ n = 0 => x = z
        /\ n = 1 => y \in Nat /\ x + (Hdr + y) = z
    BY <1>1, <1>2, <1>9, <1>11
  <2>2. /\ n = 0 => H2 - H = (Hdr + x) - (Hdr + z)
        /\ n = 1 => H2 - H = ((Hdr + x) + (Hdr + y)) - (Hdr + z)
    BY <1>14, <1>17
  <2> HIDE DEF x, y, z
  <2>3. QED
    BY <1>10, <1>12, <1>13, <2>1, <2>2
<1>19. S2 = S + new.size
    BY <1>9, <1>12, <1>13, <1>15, <1>17
<1>20. O2 = O + 1
    BY <1>12, <1>13, <1>16, <1>17
<1>21. QED
    BY <1>18, <1>19, <1>20 DEF c, new, H, H2, S, S2, O, O2

\* Merging free blocks changes neither the bytes, headers included, nor what
\* is used.
LEMMA CoalesceWeighs ==
    ASSUME NEW b \in Seq(Block), Ordered(b), Whole(b), NEW i \in DOMAIN b, ~b[i].used,
           SettledBut(b, i)
    PROVE  LET c == Coalesce(b, i)
           IN  /\ Weight(Headed, c) = Weight(Headed, b)
               /\ Weight(UsedSize, c) = Weight(UsedSize, b)
               /\ Weight(UsedOne, c) = Weight(UsedOne, b)
<1> DEFINE c == Coalesce(b, i)
           lb == Len(b)
           lc == Len(c)
<1>1. c \in Seq(Block)
    BY CoalesceIs
<1>2. PICK first \in 1 .. i, last \in i .. Len(b) : MergedRun(c, b, first, last)
    BY CoalesceIs
<1> HIDE DEF c
<1> DEFINE n == last - first
           one == b[first]
           two == b[first + 1]
           three == b[first + 2]
           new == c[first]
<1>3. /\ lc = lb - n
      /\ \A k \in 1 .. first - 1 : c[k] = b[k]
      /\ \A k \in first + 1 .. lc : c[k] = b[k + n]
      /\ last \in first .. first + 2
      /\ ~new.used /\ new.size = MergedSize(b, first, last)
      /\ \A k \in first .. last : ~b[k].used
    BY <1>2 DEF MergedRun
<1>4. lb \in Nat /\ lc \in Nat /\ i \in 1 .. lb /\ last \in i .. lb
      /\ \A k \in 1 .. lb : b[k] \in Block /\ b[k].size \in Nat
    BY <1>1, BlockTyped, LenProperties
<1> HIDE DEF lb, lc
<1>5. /\ n \in {0, 1, 2} /\ last = first + n /\ first \in Nat
      /\ first \in 1 .. lb /\ last \in first .. lb /\ first \in 1 .. lc /\ first \in first .. lc
      /\ lc - first = lb - last
      /\ n > 0 => first + 1 \in 1 .. lb /\ first + 1 \in first .. last
      /\ n > 1 => first + 2 \in 1 .. lb /\ first + 2 \in first .. last
      /\ first \in first .. last
    BY <1>3, <1>4
<1>6. \A k \in 1 .. lb - last : first + k \in first + 1 .. lc /\ (first + k) + n = last + k
    BY <1>3, <1>4
<1> HIDE DEF n
<1>7. Edited(c, b, first, last, first)
  <2>1. \A k \in 1 .. lb - last : c[first + k] = b[last + k]
    BY <1>3, <1>6
  <2>2. QED
    BY <1>3, <1>5, <2>1 DEF Edited, lb, lc
<1>8. /\ one \in Block /\ one.size \in Nat /\ ~one.used
      /\ n > 0 => two \in Block /\ two.size \in Nat /\ ~two.used
      /\ n > 1 => three \in Block /\ three.size \in Nat /\ ~three.used
    BY <1>3, <1>4, <1>5
<1>9. new \in Block /\ new.size \in Nat
  <2>1. first \in DOMAIN c
    BY <1>1, <1>5, LenProperties DEF lc
  <2>2. QED
    BY <1>1, <2>1, BlockTyped
<1>10. /\ n = 0 => new.size = one.size
       /\ n = 1 => new.size = one.size + Hdr + two.size
       /\ n = 2 => new.size = one.size + Hdr + two.size + Hdr + three.size
    BY <1>3, <1>5, MergedSizeIs
<1>11. ASSUME NEW w \in [Block -> Nat]
       PROVE  /\ n = 0 => Weight(w, c) - Weight(w, b) = w[new] - w[one]
              /\ n = 1 => Weight(w, c) - Weight(w, b) = w[new] - (w[one] + w[two])
              /\ n = 2 => Weight(w, c) - Weight(w, b) = w[new] - (w[one] + w[two] + w[three])
  <2>1. Weight(w, c) - Weight(w, b) = Part(w, c, first - 1, first) - Part(w, b, first - 1, last)
    BY <1>1, <1>7, EditedWeighs
  <2>2. /\ first \in 1 .. Len(b) /\ last \in first .. Len(b)
        /\ first \in 1 .. Len(c) /\ first \in first .. Len(c)
    BY <1>5 DEF lb, lc
  <2>3. Part(w, c, first - 1, first) = w[new]
    BY <1>1, <2>2, PartIs
  <2>4. n = 0 => Part(w, b, first - 1, last) = w[one]
    BY <1>5, <2>2, PartIs
  <2>5. n = 1 => Part(w, b, first - 1, last) = w[one] + w[two]
    BY <1>5, <2>2, PartIs
  <2>6. n = 2 => Part(w, b, first - 1, last) = w[one] + w[two] + w[three]
    BY <1>5, <2>2, PartIs
  <2>7. QED
    BY <2>1, <2>3, <2>4, <2>5, <2>6
<1>12. ~new.used /\ Hdr \in Nat
    BY <1>3, HeapAssumption
<1>13. n = 0 \/ n = 1 \/ n = 2
    BY <1>5
<1> HIDE DEF one, two, three, new
<1> DEFINE H == Weight(Headed, b)     H2 == Weight(Headed, c)
<1>14. H2 = H
  <2>1. H \in Nat /\ H2 \in Nat
    BY <1>1, WeightNatural, WeightsTyped
  <2>2. /\ n = 0 => H2 - H = Headed[new] - Headed[one]
        /\ n = 1 => H2 - H = Headed[new] - (Headed[one] + Headed[two])
        /\ n = 2 => H2 - H = Headed[new] - (Headed[one] + Headed[two] + Headed[three])
    BY <1>11, WeightsTyped
  <2>3. /\ Headed[new] = Hdr + new.size /\ Headed[one] = Hdr + one.size
        /\ n > 0 => Headed[two] = Hdr + two.size
        /\ n > 1 => Headed[three] = Hdr + three.size
    BY <1>8, <1>9, WeightsTyped
  <2> HIDE DEF H, H2
  <2> DEFINE x == new.size   u == one.size   v == two.size   z == three.size
  <2>4. /\ x \in Nat /\ u \in Nat /\ (n > 0 => v \in Nat) /\ (n > 1 => z \in Nat)
        /\ n = 0 => x = u
        /\ n = 1 => x = u + Hdr + v
        /\ n = 2 => x = u + Hdr + v + Hdr + z
    BY <1>8, <1>9, <1>10
  <2>5. /\ n = 0 => H2 - H = (Hdr + x) - (Hdr + u)
        /\ n = 1 => H2 - H = (Hdr + x) - ((Hdr + u) + (Hdr + v))
        /\ n = 2 => H2 - H = (Hdr + x) - ((Hdr + u) + (Hdr + v) + (Hdr + z))
    BY <2>2, <2>3
  <2> HIDE DEF x, u, v, z
  <2>6. CASE n = 0
    BY <1>12, <2>1, <2>4, <2>5, <2>6
  <2>7. CASE n = 1
    BY <1>12, <2>1, <2>4, <2>5, <2>7
  <2>8. CASE n = 2
    <3>1. /\ x = u + Hdr + v + Hdr + z /\ x \in Nat /\ u \in Nat /\ v \in Nat /\ z \in Nat
          /\ H2 - H = (Hdr + x) - ((Hdr + u) + (Hdr + v) + (Hdr + z))
      BY <2>4, <2>5, <2>8
    <3>2. QED
      BY <1>12, <2>1, <3>1
  <2>9. QED
    BY <1>13, <2>6, <2>7, <2>8
<1>15. ASSUME NEW w \in [Block -> Nat], \A x \in Block : ~x.used => w[x] = 0
       PROVE  Weight(w, c) = Weight(w, b)
  <2> DEFINE W == Weight(w, b)   W2 == Weight(w, c)
  <2>1. W \in Nat /\ W2 \in Nat
    BY <1>1, WeightNatural
  <2>2. /\ n = 0 => W2 - W = w[new] - w[one]
        /\ n = 1 => W2 - W = w[new] - (w[one] + w[two])
        /\ n = 2 => W2 - W = w[new] - (w[one] + w[two] + w[three])
    BY <1>11
  <2>3. /\ w[new] = 0 /\ w[one] = 0
        /\ n > 0 => w[two] = 0
        /\ n > 1 => w[three] = 0
    BY <1>8, <1>9, <1>12, <1>15
  <2> HIDE DEF W, W2
  <2>4. W2 = W
    BY <1>13, <2>1, <2>2, <2>3
  <2>5. QED
    BY <2>4 DEF W, W2
<1>16. Weight(UsedSize, c) = Weight(UsedSize, b) /\ Weight(UsedOne, c) = Weight(UsedOne, b)
    BY <1>15, WeightsTyped
<1>17. QED
    BY <1>14, <1>16 DEF c, H, H2

\* An empty list weighs nothing.
LEMMA EmptyWeighs ==
    ASSUME NEW w, NEW b, b = <<>>
    PROVE  Weight(w, b) = 0
BY TotalStep DEF Weight

\* A block appended adds its weight.
LEMMA AppendWeighs ==
    ASSUME NEW w \in [Block -> Nat], NEW b \in Seq(Block), NEW x \in Block
    PROVE  Weight(w, Append(b, x)) = Weight(w, b) + w[x]
<1> DEFINE c == Append(b, x)
           n == Len(b)
           f == Weights(w, b)
           g == Weights(w, c)
<1>1. /\ c \in Seq(Block) /\ Len(c) = n + 1 /\ c[n + 1] = x /\ n \in Nat
      /\ \A k \in 1 .. n : c[k] = b[k]
    BY AppendProperties, LenProperties
<1> HIDE DEF c
<1>2. /\ \A k \in 1 .. n : f[k] = w[b[k]] /\ w[b[k]] \in Nat
      /\ \A k \in 0 .. n : Total(f, k) \in Nat
    BY WeightNatural
<1>3. /\ \A k \in 1 .. n + 1 : g[k] = w[c[k]] /\ w[c[k]] \in Nat
      /\ \A k \in 0 .. n + 1 : Total(g, k) \in Nat
    BY <1>1, WeightNatural
<1> HIDE DEF f, g
<1>4. Weight(w, c) = Total(g, n + 1) /\ Weight(w, b) = Total(f, n)
    BY <1>1 DEF Weight, f, g
<1> HIDE DEF n
<1>5. Total(g, n + 1) = Total(g, n) + w[x]
  <2>1. n + 1 \in 1 .. n + 1
    BY <1>1
  <2>2. g[n + 1] = w[x]
    BY <1>1, <1>3, <2>1
  <2>3. n \in Nat
    BY <1>1
  <2>4. Total(g, n + 1) = Total(g, n) + g[n + 1]
    BY <2>3, TotalStep
  <2>5. QED
    BY <2>2, <2>4
<1>6. Total(g, n) = Total(f, n)
  <2> DEFINE z == 0
  <2>1. /\ z + n = n /\ z \in Nat
        /\ \A k \in 1 .. z + n : f[k] \in Nat
        /\ \A k \in 1 .. z + n : g[k] \in Nat
        /\ \A k \in 1 .. n : g[z + k] = f[z + k]
    <3>1. z + n = n /\ z \in Nat /\ \A k \in 1 .. n : z + k = k /\ k \in 1 .. n + 1
      BY <1>1
    <3>2. ASSUME NEW k \in 1 .. n PROVE f[k] \in Nat /\ g[k] \in Nat /\ g[k] = f[k]
      <4>1. k \in 1 .. n + 1 /\ c[k] = b[k]
        BY <1>1, <3>1
      <4>2. f[k] = w[b[k]] /\ w[b[k]] \in Nat /\ g[k] = w[c[k]]
        BY <1>2, <1>3, <4>1
      <4>3. QED
        BY <4>1, <4>2
    <3>3. QED
      BY <3>1, <3>2
  <2>2. SameTerms(f, z, g, z, n)
    BY <2>1 DEF SameTerms
  <2> HIDE DEF z
  <2>3. Total(g, z + n) - Total(g, z) = Total(f, z + n) - Total(f, z)
    BY <1>1, <2>1, <2>2, TotalShifted
  <2>4. Total(g, n) - 0 = Total(f, n) - 0
    BY <2>1, <2>3, TotalStep DEF z
  <2>5. Total(g, n) \in Nat /\ Total(f, n) \in Nat
    BY <1>1, <1>2, <1>3
  <2>6. QED
    BY <2>4, <2>5
<1>7. QED
    BY <1>4, <1>5, <1>6 DEF c

\* A released block takes its weight as a used one away from the used.
LEMMA ReleasedWeighs ==
    ASSUME NEW b, ListFine(b), NEW i \in DOMAIN b, b[i].used
    PROVE  LET c == [b EXCEPT ![i].used = FALSE]
           IN  /\ Weight(Headed, c) = Weight(Headed, b)
               /\ Weight(UsedSize, b) = Weight(UsedSize, c) + b[i].size
               /\ Weight(UsedOne, b) = Weight(UsedOne, c) + 1
               /\ Weight(UsedSize, c) \in Nat /\ Weight(UsedOne, c) \in Nat
<1> DEFINE old == b[i]
           new == [addr |-> old.addr, size |-> old.size, used |-> FALSE]
           c == [b EXCEPT ![i] = new]
<1>1. /\ b \in Seq(Block) /\ Len(b) \in Nat /\ DOMAIN b = 1 .. Len(b) /\ i \in 1 .. Len(b)
      /\ old \in Block /\ old.size \in Nat /\ old.used
    BY BlockTyped DEF ListFine
<1>2. [old EXCEPT !.used = FALSE] = new
    BY <1>1, BlockExcept
<1>3. [b EXCEPT ![i].used = FALSE] = c
    BY <1>2
<1>4. new \in Block /\ new.size = old.size /\ ~new.used
    BY <1>1 DEF Block
<1> HIDE DEF new
<1>5. /\ c \in Seq(Block) /\ Len(c) = Len(b)
      /\ \A k \in 1 .. Len(b) : c[k] = IF k = i THEN new ELSE b[k]
    BY <1>1, <1>4, ExceptSeq
<1> HIDE DEF c
<1>6. Edited(c, b, i, i, i)
  <2>1. \A k \in 1 .. i - 1 : k \in 1 .. Len(b) /\ k # i
    BY <1>1
  <2>2. \A k \in 1 .. Len(b) - i : i + k \in 1 .. Len(b) /\ i + k # i
    BY <1>1
  <2>3. i \in i .. Len(b)
    BY <1>1
  <2>4. QED
    BY <1>1, <1>5, <2>1, <2>2, <2>3 DEF Edited
<1>7. ASSUME NEW w \in [Block -> Nat]
      PROVE  Weight(w, c) - Weight(w, b) = w[new] - w[old]
  <2>1. Weight(w, c) - Weight(w, b) = Part(w, c, i - 1, i) - Part(w, b, i - 1, i)
    BY <1>1, <1>5, <1>6, EditedWeighs
  <2>2. i \in i .. Len(b) /\ i \in i .. Len(c) /\ i \in 1 .. Len(c)
    BY <1>1, <1>5
  <2>3. Part(w, b, i - 1, i) = w[b[i]]
    BY <1>1, <2>2, PartIs
  <2>4. Part(w, c, i - 1, i) = w[c[i]]
    BY <1>5, <2>2, PartIs
  <2>5. c[i] = new
    BY <1>1, <1>5
  <2>6. QED
    BY <2>1, <2>3, <2>4, <2>5
<1> DEFINE H == Weight(Headed, b)     H2 == Weight(Headed, c)
           S == Weight(UsedSize, b)   S2 == Weight(UsedSize, c)
           O == Weight(UsedOne, b)    O2 == Weight(UsedOne, c)
<1>8. H \in Nat /\ H2 \in Nat /\ S \in Nat /\ S2 \in Nat /\ O \in Nat /\ O2 \in Nat
    BY <1>1, <1>5, WeightNatural, WeightsTyped
<1>9. /\ H2 - H = Headed[new] - Headed[old]
      /\ S2 - S = UsedSize[new] - UsedSize[old]
      /\ O2 - O = UsedOne[new] - UsedOne[old]
    BY <1>7, WeightsTyped
<1> HIDE DEF H, H2, S, S2, O, O2, old
<1>10. /\ Headed[new] = Hdr + old.size /\ Headed[old] = Hdr + old.size
       /\ UsedSize[new] = 0 /\ UsedSize[old] = old.size
       /\ UsedOne[new] = 0 /\ UsedOne[old] = 1
    BY <1>1, <1>4, WeightsTyped, SMTT(30)
<1>11. Hdr \in Nat
    BY HeapAssumption
<1>12. H2 = H /\ S = S2 + old.size /\ O = O2 + 1
    BY <1>1, <1>8, <1>9, <1>10, <1>11
<1>13. QED
    BY <1>3, <1>8, <1>12 DEF H, H2, S, S2, O, O2, old

-----------------------------------------------------------------------------
(* The frame manager, as far as the heap depends on it.                      *)

IsPmm(p) ==
    /\ p \in [total : Nat, used : {p.used}, free : {p.free}, mapped : {p.mapped}]
    /\ p.total * PageSize <= MaxPhys

\* A frame manager with another bitmap and another count.
Marked(p, used, free) == [p EXCEPT !.used = used, !.free = free]

\* The frame manager after a change of its set of used frames.
LEMMA MarkedIs ==
    ASSUME NEW p, IsPmm(p), NEW used, NEW free
    PROVE  LET q == Marked(p, used, free)
           IN  IsPmm(q) /\ q.total = p.total /\ q.used = used
<1> DEFINE q == Marked(p, used, free)
           R == [total : Nat, used : {p.used, used}, free : {p.free, free},
                 mapped : {p.mapped}]
<1>1. p \in R
    BY DEF IsPmm
<1>2. /\ q \in R /\ q.total = p.total /\ q.used = used /\ q.free = free
      /\ q.mapped = p.mapped
    BY <1>1 DEF Marked
<1> HIDE DEF q
<1>3. q \in [total : Nat, used : {q.used}, free : {q.free}, mapped : {q.mapped}]
    BY <1>2
<1>4. QED
    BY <1>2, <1>3 DEF IsPmm, q

\* Frame 0 is below the first one given out.
LEMMA FirstFramePositive == FirstFrame \in Nat \ {0}
BY PageAssumption DEF FirstFrame

\* pmm_alloc_page takes the lowest allocatable frame, or there is none and
\* nothing changes.
LEMMA AllocIs ==
    ASSUME NEW p, IsPmm(p)
    PROVE  LET r == PmmAlloc(p)
           IN  /\ IsPmm(r.pmm) /\ r.pmm.total = p.total
               /\ r.frame = NULL => Allocatable(p) = {} /\ r.pmm = p
               /\ r.frame # NULL =>
                    /\ r.frame \in Allocatable(p)
                    /\ r.frame \in FirstFrame .. p.total - 1 /\ r.frame \in Nat \ {0}
                    /\ \A f \in Allocatable(p) : r.frame <= f
                    /\ r.pmm.used = p.used \cup {r.frame}
                    /\ r.pmm.used \ p.used = {r.frame}
                    /\ Allocatable(r.pmm) = Allocatable(p) \ {r.frame}
<1>1. CASE Allocatable(p) = {}
    BY <1>1 DEF PmmAlloc
<1>2. CASE Allocatable(p) # {}
  <2> DEFINE f == LowestFrame(Allocatable(p))
             q == Marked(p, p.used \cup {f}, p.free - 1)
  <2>1. p.total \in Nat
    BY DEF IsPmm
  <2>2. Allocatable(p) \in SUBSET Nat
    BY <2>1, FirstFramePositive DEF Allocatable
  <2>3. f \in Allocatable(p) /\ \A g \in Allocatable(p) : f <= g
    BY <1>2, <2>2, LeastNatural DEF LowestFrame
  <2>4. PmmAlloc(p) = [pmm |-> q, frame |-> f]
    BY <1>2 DEF PmmAlloc, Marked
  <2> HIDE DEF f
  <2>5. f \in FirstFrame .. p.total - 1 /\ f \notin p.used /\ f \in Nat \ {0} /\ f # NULL
    BY <2>1, <2>3, FirstFramePositive DEF Allocatable, NULL
  <2>6. IsPmm(q) /\ q.total = p.total /\ q.used = p.used \cup {f}
    BY MarkedIs
  <2>7. PmmAlloc(p).pmm = q /\ PmmAlloc(p).frame = f
    BY <2>4
  <2> HIDE DEF q
  <2>8. Allocatable(q) = Allocatable(p) \ {f} /\ q.used \ p.used = {f}
    BY <2>5, <2>6 DEF Allocatable
  <2>9. QED
    BY <2>3, <2>5, <2>6, <2>7, <2>8
<1>3. QED
    BY <1>1, <1>2

\* What calls to pmm_alloc_page may do to the frame manager.
Grew(p, q) ==
    /\ IsPmm(q) /\ q.total = p.total
    /\ q.used \ p.used \subseteq Allocatable(p)
    /\ Allocatable(q) = Allocatable(p) \ (q.used \ p.used)
    /\ p.used \subseteq q.used

\* The heap's frames are those below all that can still be had.
OwnLow(own, p) ==
    /\ own \subseteq FirstFrame .. p.total - 1
    /\ \A f \in own, g \in Allocatable(p) : f < g

\* Every block lies between the start of a frame of the heap and the end of one.
Bracketed(b, own) ==
    \A k \in DOMAIN b : \E f, g \in own :
        f * PageSize <= b[k].addr /\ End(b[k]) <= g * PageSize + PageSize

HeapRecord == [blocks : Seq(Block), pages : Nat, usedBytes : Nat, usedBlocks : Nat]

\* The bytes of the frames, and whether 32 bits count them.
Bytes(own) == Cardinality(own) * PageSize
Countable(own) == Bytes(own) < CounterMod

\* The blocks with their headers make up every byte of every frame the heap took,
\* and the counters agree with the list as long as they can count these bytes.
Counted(h, own) ==
    /\ IsFiniteSet(own)
    /\ Weight(Headed, h.blocks) = Bytes(own)
    /\ h.pages = Cardinality(own) % CounterMod
    /\ Countable(own) => /\ h.usedBytes = Weight(UsedSize, h.blocks)
                         /\ h.usedBlocks = Weight(UsedOne, h.blocks)

\* A heap, the frame manager it runs on and the frames it took.
HeapFine(h, p, own) ==
    /\ h \in HeapRecord
    /\ ListFine(h.blocks)
    /\ IsPmm(p)
    /\ OwnLow(own, p)
    /\ Bracketed(h.blocks, own)
    /\ Counted(h, own)

\* The heap before its first page is fine and owns no frame.
LEMMA HeapOffFine ==
    ASSUME NEW p, IsPmm(p)
    PROVE  HeapFine(HeapOff, p, {}) /\ Regions(HeapOff.blocks) = {}
<1> DEFINE h == HeapOff
<1>1. h \in HeapRecord /\ h.blocks = <<>> /\ h.pages = 0 /\ h.usedBytes = 0 /\ h.usedBlocks = 0
    BY DEF HeapOff, HeapRecord
<1> HIDE DEF h
<1>2. DOMAIN h.blocks = {}
    BY <1>1
<1>3. ListFine(h.blocks) /\ Bracketed(h.blocks, {})
    BY <1>1, <1>2 DEF ListFine, Whole, Ordered, Settled, Bracketed
<1>4. OwnLow({}, p)
    BY DEF OwnLow
<1>5. Counted(h, {})
  <2>1. 0 * PageSize = 0
    BY PageAssumption
  <2>2. 0 < CounterMod /\ 0 \in Nat
    BY HeapAssumption
  <2>3. 0 % CounterMod = 0
    BY <2>2, CounterStays
  <2>4. IsFiniteSet({}) /\ Cardinality({}) = 0
    BY FS_EmptySet
  <2>5. QED
    BY <1>1, <2>1, <2>3, <2>4, EmptyWeighs DEF Counted, Bytes
<1>6. Regions(h.blocks) = {}
    BY <1>2 DEF Regions, UsedIn
<1>7. QED
    BY <1>1, <1>3, <1>4, <1>5, <1>6 DEF HeapFine, h

\* Frames of the heap are naturals.
LEMMA OwnNatural ==
    ASSUME NEW h, NEW p, NEW own, HeapFine(h, p, own)
    PROVE  own \subseteq Nat
BY FirstFramePositive DEF HeapFine, OwnLow

\* A list within a bracketed one is bracketed.
LEMMA BracketedWithin ==
    ASSUME NEW b \in Seq(Block), NEW c \in Seq(Block), NEW own, own \subseteq Nat,
           Bracketed(b, own), Within(c, b)
    PROVE  Bracketed(c, own)
<1> SUFFICES ASSUME NEW k \in DOMAIN c
             PROVE  \E f, g \in own : f * PageSize <= c[k].addr
                                      /\ End(c[k]) <= g * PageSize + PageSize
    BY DEF Bracketed
<1>1. PICK i \in DOMAIN b, j \in DOMAIN b : b[i].addr <= c[k].addr /\ End(c[k]) <= End(b[j])
    BY DEF Within
<1>2. PICK f \in own : f * PageSize <= b[i].addr
    BY DEF Bracketed
<1>3. PICK g \in own : End(b[j]) <= g * PageSize + PageSize
    BY DEF Bracketed
<1>4. /\ b[i].addr \in Nat /\ c[k].addr \in Nat /\ End(c[k]) \in Nat /\ End(b[j]) \in Nat
      /\ f * PageSize \in Nat /\ g * PageSize \in Nat /\ PageSize \in Nat
  <2>1. PageSize \in Nat /\ f \in Nat /\ g \in Nat
    BY PageAssumption
  <2>2. f * PageSize \in Nat /\ g * PageSize \in Nat
    BY <2>1
  <2>3. QED
    BY <2>1, <2>2, BlockTyped
<1>5. f * PageSize <= c[k].addr /\ End(c[k]) <= g * PageSize + PageSize
  <2> DEFINE x == f * PageSize   y == g * PageSize
  <2>1. x <= b[i].addr /\ End(b[j]) <= y + PageSize /\ x \in Nat /\ y \in Nat
    BY <1>2, <1>3, <1>4
  <2> HIDE DEF x, y
  <2>2. x <= c[k].addr /\ End(c[k]) <= y + PageSize
    BY <1>1, <1>4, <2>1
  <2>3. QED
    BY <2>2 DEF x, y
<1>6. QED
    BY <1>5

\* A frame ends before the next begins.
LEMMA FrameOrder ==
    ASSUME NEW f \in Nat, NEW g \in Nat, f < g
    PROVE  f * PageSize + PageSize <= g * PageSize
<1>1. PageSize \in Nat
    BY PageAssumption
<1>2. (f + 1) * PageSize = f * PageSize + PageSize
    BY <1>1
<1>3. \A d \in Nat : (f + 1) * PageSize <= (f + 1 + d) * PageSize
  <2> SUFFICES ASSUME NEW d \in Nat
               PROVE  (f + 1) * PageSize <= (f + 1 + d) * PageSize
      OBVIOUS
  <2>1. (f + 1 + d) * PageSize = (f + 1) * PageSize + d * PageSize /\ d * PageSize \in Nat
        /\ (f + 1) * PageSize \in Nat
    BY <1>1
  <2>2. QED
    BY <2>1
<1>4. g - (f + 1) \in Nat /\ g = f + 1 + (g - (f + 1))
    OBVIOUS
<1>5. QED
    BY <1>2, <1>3, <1>4

-----------------------------------------------------------------------------
(* kmalloc.                                                                  *)

\* What a call that served a request did to the regions in the callers' hands.
Given(c, b, ptr, size) ==
    /\ ptr \in Nat \ {0}
    /\ \E s \in Nat : /\ s >= size
                      /\ Regions(c) = Regions(b) \cup {[start |-> ptr, size |-> s]}
    /\ \A g \in Regions(b) : g.start # ptr

\* The first block that fits is given, and the heap stays fine.
LEMMA TakeFirstFine ==
    ASSUME NEW h, NEW p, NEW own, HeapFine(h, p, own),
           NEW size \in Nat, size % Word = 0, Fits(h.blocks, size) # {}
    PROVE  LET r == TakeFirst(h, p, size)
           IN  /\ HeapFine(r.heap, p, own)
               /\ r.pmm = p
               /\ Given(r.heap.blocks, h.blocks, r.ptr, size)
<1> DEFINE b == h.blocks
           F == Fits(b, size)
           i == CHOOSE k \in F : \A j \in F : k <= j
           cut == Split(b, i, size)
           c == Taken(b, i, size)
           g == [h EXCEPT !.blocks = c,
                          !.usedBytes = (h.usedBytes + cut[i].size) % CounterMod,
                          !.usedBlocks = (h.usedBlocks + 1) % CounterMod]
<1>1. /\ h \in HeapRecord /\ ListFine(b) /\ b \in Seq(Block)
      /\ h.usedBytes \in Nat /\ h.usedBlocks \in Nat
    BY DEF HeapFine, HeapRecord, ListFine
<1>2. F \in SUBSET Nat /\ F # {} /\ F \subseteq DOMAIN b
  <2>1. DOMAIN b \subseteq Nat
    BY <1>1, LenProperties
  <2>2. QED
    BY <2>1 DEF Fits
<1>3. i \in F
  <2> HIDE DEF F
  <2>1. QED
    BY <1>2, LeastNatural
<1>4. TakeFirst(h, p, size) = Answer(g, p, PtrOf(cut[i]))
    BY DEF TakeFirst, Taken
<1> HIDE DEF i
<1>5. i \in DOMAIN b /\ ~b[i].used /\ b[i].size >= size /\ b[i].size \in Nat
    BY <1>1, <1>3, BlockTyped DEF Fits
<1> HIDE DEF b, F
<1>6. /\ c[i].size >= size
      /\ cut[i].size = c[i].size
      /\ PtrOf(cut[i]) = PtrOf(b[i])
  <2>1. size <= b[i].size
    BY <1>5
  <2>2. QED
    BY <1>1, <1>5, <2>1, TakenIs
<1>7. /\ ListFine(c)
      /\ Within(c, b)
      /\ i \in UsedIn(c)
      /\ Regions(c) = Regions(b) \cup {[start |-> PtrOf(b[i]), size |-> c[i].size]}
      /\ \A q \in Regions(b) : q.start # PtrOf(b[i])
  <2>1. size <= b[i].size
    BY <1>5
  <2>2. QED
    BY <1>1, <1>5, <2>1, TakenFine
<1>8. /\ Weight(Headed, c) = Weight(Headed, b)
      /\ Weight(UsedSize, c) = Weight(UsedSize, b) + c[i].size
      /\ Weight(UsedOne, c) = Weight(UsedOne, b) + 1
  <2>1. size <= b[i].size
    BY <1>5
  <2>2. QED
    BY <1>1, <1>5, <2>1, TakenWeighs
<1> HIDE DEF c, cut
<1>9. c \in Seq(Block) /\ c[i].size \in Nat
    BY <1>7, BlockTyped DEF ListFine, UsedIn
<1>10. g \in HeapRecord /\ g.blocks = c /\ g.pages = h.pages
       /\ g.usedBytes = (h.usedBytes + c[i].size) % CounterMod
       /\ g.usedBlocks = (h.usedBlocks + 1) % CounterMod
  <2>1. h.usedBytes + cut[i].size \in Nat /\ h.usedBlocks + 1 \in Nat
    BY <1>1, <1>6, <1>9
  <2>2. /\ (h.usedBytes + cut[i].size) % CounterMod \in Nat
        /\ (h.usedBlocks + 1) % CounterMod \in Nat
    BY <2>1, CounterStays
  <2>3. QED
    BY <1>1, <1>6, <1>9, <2>2 DEF HeapRecord
<1> HIDE DEF g
<1>11. HeapFine(g, p, own)
  <2>1. Bracketed(c, own)
    BY <1>1, <1>7, <1>9, BracketedWithin, OwnNatural DEF HeapFine, b
  <2>2. Counted(g, own)
    <3>1. /\ IsFiniteSet(own) /\ Weight(Headed, b) = Bytes(own)
          /\ h.pages = Cardinality(own) % CounterMod
          /\ Countable(own) => h.usedBytes = Weight(UsedSize, b) /\ h.usedBlocks = Weight(UsedOne, b)
      BY DEF Counted, HeapFine, b
    <3>2. Weight(Headed, c) = Bytes(own)
      BY <1>8, <3>1
    <3>3. ASSUME Countable(own)
          PROVE  g.usedBytes = Weight(UsedSize, c) /\ g.usedBlocks = Weight(UsedOne, c)
      <4> DEFINE x == Weight(UsedSize, c)
                 y == Weight(UsedOne, c)
                 z == Weight(Headed, c)
      <4>1. x \in Nat /\ y \in Nat /\ x <= z /\ y <= z /\ z \in Nat
        BY <1>9, UsedWeighLess, WeightNatural, WeightsTyped
      <4>2. z < CounterMod
        BY <3>2, <3>3 DEF Countable
      <4>3. g.usedBytes = x % CounterMod /\ g.usedBlocks = y % CounterMod
        BY <1>8, <1>10, <3>1, <3>3
      <4> HIDE DEF x, y, z
      <4>4. x < CounterMod /\ y < CounterMod
        BY <4>1, <4>2, HeapAssumption
      <4>5. QED
        BY <4>1, <4>3, <4>4, CounterStays DEF x, y
    <3>4. QED
      BY <1>10, <3>1, <3>2, <3>3 DEF Counted
  <2>3. QED
    BY <1>7, <1>10, <2>1, <2>2 DEF HeapFine
<1>12. Given(c, b, PtrOf(b[i]), size)
    BY <1>1, <1>5, <1>6, <1>7, <1>9, BlockTyped DEF Given
<1>13. QED
    BY <1>4, <1>6, <1>10, <1>11, <1>12 DEF Answer, b

\* The one block of a new page.
LEMMA FreshBlockIs ==
    ASSUME NEW f \in Nat
    PROVE  LET x == FreshBlock(f)
           IN  /\ x \in Block /\ ~x.used /\ x.size % Word = 0
               /\ x.addr = f * PageSize /\ x.size = PageSize - Hdr /\ x.size \in Nat
               /\ End(x) = f * PageSize + PageSize
<1>1. /\ PageSize \in Nat /\ Hdr \in Nat /\ Hdr <= PageSize
      /\ PageSize % Word = 0 /\ Hdr % Word = 0
    BY PageAssumption, HeapAssumption
<1>2. (PageSize - Hdr) % Word = 0
    BY <1>1, WholeSum
<1>3. f * PageSize \in Nat /\ PageSize - Hdr \in Nat
    BY <1>1
<1> DEFINE a == f * PageSize
<1>4. FreshBlock(f) = [addr |-> a, size |-> PageSize - Hdr, used |-> FALSE]
    BY DEF FreshBlock
<1>5. a \in Nat
    BY <1>3
<1> HIDE DEF a
<1>6. /\ FreshBlock(f) \in Block /\ FreshBlock(f).addr = a
      /\ FreshBlock(f).size = PageSize - Hdr /\ ~FreshBlock(f).used
    BY <1>3, <1>4, <1>5 DEF Block
<1>7. End(FreshBlock(f)) = a + PageSize
    BY <1>1, <1>5, <1>6 DEF End
<1>8. QED
    BY <1>2, <1>3, <1>6, <1>7 DEF a

\* The list with the block of a page above all it has, before any merge.
LEMMA LongerIs ==
    ASSUME NEW b, ListFine(b), NEW own \in SUBSET Nat, Bracketed(b, own),
           NEW f \in Nat, \A g \in own : g < f
    PROVE  LET c == Append(b, FreshBlock(f))
           IN  /\ c \in Seq(Block) /\ Len(c) \in DOMAIN c
               /\ c[Len(c)] = FreshBlock(f)
               /\ Ordered(c) /\ Whole(c) /\ SettledBut(c, Len(c))
               /\ Regions(c) = Regions(b)
               /\ Bracketed(c, own \cup {f})
<1> DEFINE x == FreshBlock(f)
           c == Append(b, x)
           n == Len(b)
<1>1. /\ x \in Block /\ ~x.used /\ x.size % Word = 0 /\ x.addr = f * PageSize
      /\ End(x) = f * PageSize + PageSize
    BY FreshBlockIs
<1> HIDE DEF x
<1>2. /\ b \in Seq(Block) /\ n \in Nat /\ DOMAIN b = 1 .. n
      /\ Whole(b) /\ Ordered(b) /\ Settled(b)
    BY LenProperties DEF ListFine
<1>3. /\ c \in Seq(Block) /\ Len(c) = n + 1 /\ c[n + 1] = x
      /\ \A k \in 1 .. n : c[k] = b[k]
    BY <1>1, <1>2, AppendProperties
<1> HIDE DEF c
<1>4. DOMAIN c = 1 .. n + 1
    BY <1>3, LenProperties
<1>5. \A k \in DOMAIN c : k \in DOMAIN b \/ k = n + 1
    BY <1>2, <1>4
<1>6. ASSUME NEW k \in DOMAIN b
      PROVE  End(b[k]) <= x.addr
  <2>1. PICK g \in own : End(b[k]) <= g * PageSize + PageSize
    BY DEF Bracketed
  <2>2. g * PageSize + PageSize <= f * PageSize
    BY FrameOrder
  <2>3. End(b[k]) \in Nat
    BY <1>2, BlockTyped
  <2>4. g * PageSize + PageSize \in Nat /\ f * PageSize \in Nat
    BY PageAssumption
  <2> DEFINE u == g * PageSize + PageSize   v == f * PageSize
  <2>5. End(b[k]) <= u /\ u <= v /\ u \in Nat /\ v \in Nat
    BY <2>1, <2>2, <2>4
  <2> HIDE DEF u, v
  <2>6. End(b[k]) <= v
    BY <2>3, <2>5
  <2>7. QED
    BY <1>1, <2>6 DEF v
<1>7. Ordered(c)
  <2> SUFFICES ASSUME NEW k \in DOMAIN c, NEW l \in DOMAIN c, k < l
               PROVE  End(c[k]) <= c[l].addr
      BY DEF Ordered
  <2>1. k \in 1 .. n
    BY <1>2, <1>4
  <2>2. c[k] = b[k] /\ k \in DOMAIN b
    BY <1>2, <1>3, <2>1
  <2>3. CASE l = n + 1
    BY <1>3, <1>6, <2>2, <2>3
  <2>4. CASE l \in 1 .. n
    BY <1>2, <1>3, <2>2, <2>4 DEF Ordered
  <2>5. QED
    BY <1>4, <2>3, <2>4
<1>8. Whole(c)
    BY <1>1, <1>2, <1>3, <1>5 DEF Whole
<1>9. SettledBut(c, n + 1)
  <2> SUFFICES ASSUME NEW k \in DOMAIN c, k > 1, k # n + 1
               PROVE  c[k - 1].used \/ c[k].used
      BY DEF SettledBut
  <2>1. k \in 1 .. n /\ k - 1 \in 1 .. n
    BY <1>2, <1>4
  <2>2. c[k] = b[k] /\ c[k - 1] = b[k - 1]
    BY <1>3, <2>1
  <2>3. QED
    BY <1>2, <2>1, <2>2 DEF Settled
<1>10. Regions(c) = Regions(b)
  <2>1. UsedIn(c) = UsedIn(b)
    <3>1. \A k \in DOMAIN b : k \in DOMAIN c /\ c[k] = b[k]
      BY <1>2, <1>3, <1>4
    <3>2. QED
      BY <1>1, <1>3, <1>5, <3>1 DEF UsedIn
  <2>2. \A k \in UsedIn(b) : c[k] = b[k]
    BY <1>2, <1>3 DEF UsedIn
  <2> DEFINE reg(y) == [start |-> PtrOf(y), size |-> y.size]
  <2>3. Regions(b) = {reg(b[k]) : k \in UsedIn(b)} /\ Regions(c) = {reg(c[l]) : l \in UsedIn(c)}
    BY DEF Regions
  <2> HIDE DEF reg
  <2>4. QED
    BY <2>1, <2>2, <2>3
<1>11. Bracketed(c, own \cup {f})
  <2> SUFFICES ASSUME NEW k \in DOMAIN c
               PROVE  \E g, e \in own \cup {f} : g * PageSize <= c[k].addr
                                                /\ End(c[k]) <= e * PageSize + PageSize
      BY DEF Bracketed
  <2>1. CASE k \in DOMAIN b
    BY <1>2, <1>3, <2>1 DEF Bracketed
  <2>2. CASE k = n + 1
    <3>1. f * PageSize <= c[k].addr /\ End(c[k]) <= f * PageSize + PageSize
      <4>1. f * PageSize \in Nat /\ f * PageSize + PageSize \in Nat
        BY PageAssumption
      <4>2. QED
        BY <1>1, <1>3, <2>2, <4>1
    <3>2. QED
      BY <3>1
  <2>3. QED
    BY <1>5, <2>1, <2>2
<1>12. n + 1 \in DOMAIN c
    BY <1>2, <1>4
<1>13. QED
    BY <1>3, <1>7, <1>8, <1>9, <1>10, <1>11, <1>12 DEF c, x

\* The heap takes the lowest frame there is, so its frames stay the lowest.
LEMMA TookFrame ==
    ASSUME NEW p, IsPmm(p), NEW own, OwnLow(own, p), PmmAlloc(p).frame # NULL
    PROVE  LET r == PmmAlloc(p)
           IN  /\ IsPmm(r.pmm) /\ OwnLow(own \cup {r.frame}, r.pmm)
               /\ \A g \in own : g < r.frame
               /\ r.frame \in Nat
               /\ r.pmm.used \ p.used = {r.frame}
               /\ Grew(p, r.pmm)
<1> DEFINE q == PmmAlloc(p).pmm
           f == PmmAlloc(p).frame
<1>1. /\ IsPmm(q) /\ q.total = p.total
      /\ f \in Allocatable(p) /\ f \in FirstFrame .. p.total - 1 /\ f \in Nat \ {0}
      /\ \A g \in Allocatable(p) : f <= g
      /\ q.used = p.used \cup {f} /\ q.used \ p.used = {f}
      /\ Allocatable(q) = Allocatable(p) \ {f}
    BY AllocIs
<1> HIDE DEF q, f
<1>2. \A g \in own : g < f
    BY <1>1 DEF OwnLow
<1>3. OwnLow(own \cup {f}, q)
  <2>1. own \cup {f} \subseteq FirstFrame .. q.total - 1
    BY <1>1 DEF OwnLow
  <2>2. \A g \in Allocatable(q) : f < g
    <3> SUFFICES ASSUME NEW g \in Allocatable(q) PROVE f < g
        OBVIOUS
    <3>1. g \in Allocatable(p) /\ g # f /\ f <= g
      BY <1>1
    <3>2. f \in Int /\ g \in Int
      BY <1>1, <3>1 DEF Allocatable
    <3>3. QED
      BY <3>1, <3>2
  <2>3. \A e \in own, g \in Allocatable(q) : e < g
    BY <1>1 DEF OwnLow
  <2>4. QED
    BY <2>1, <2>2, <2>3 DEF OwnLow
<1>4. Grew(p, q)
    BY <1>1 DEF Grew
<1>5. QED
    BY <1>1, <1>2, <1>3, <1>4 DEF q, f

\* One frame more, and one page more to account for.
LEMMA PageCounted ==
    ASSUME NEW own, IsFiniteSet(own), NEW f, f \notin own
    PROVE  /\ IsFiniteSet(own \cup {f})
           /\ Bytes(own) \in Nat
           /\ Bytes(own \cup {f}) = Bytes(own) + PageSize
           /\ Cardinality(own \cup {f}) % CounterMod
                 = ((Cardinality(own) % CounterMod) + 1) % CounterMod
           /\ Countable(own \cup {f}) => Countable(own)
<1> DEFINE n == Cardinality(own)
<1>1. n \in Nat /\ PageSize \in Nat
    BY FS_CardinalityType, PageAssumption
<1>2. IsFiniteSet(own \cup {f}) /\ Cardinality(own \cup {f}) = n + 1
    BY FS_AddElement
<1> HIDE DEF n
<1>3. (n + 1) * PageSize = n * PageSize + PageSize /\ n * PageSize \in Nat
    BY <1>1
<1>4. ((n % CounterMod) + 1) % CounterMod = (n + 1) % CounterMod
    BY <1>1, CounterStays
<1>5. Bytes(own) = n * PageSize /\ Bytes(own \cup {f}) = n * PageSize + PageSize
    BY <1>2, <1>3 DEF Bytes, n
<1>6. Countable(own \cup {f}) => Countable(own)
  <2> DEFINE x == n * PageSize
  <2>1. x \in Nat /\ PageSize \in Nat /\ CounterMod \in Nat
    BY <1>1, <1>3, HeapAssumption
  <2> HIDE DEF x
  <2>2. x + PageSize < CounterMod => x < CounterMod
    BY <2>1
  <2>3. QED
    BY <1>5, <2>2 DEF Countable, x
<1>7. QED
    BY <1>2, <1>3, <1>4, <1>5, <1>6 DEF n

\* A page appended leaves a fine heap with a free block as large as a page
\* allows.
LEMMA AppendPageFine ==
    ASSUME NEW h, NEW p, NEW own, HeapFine(h, p, own), PmmAlloc(p).frame # NULL
    PROVE  LET r == PmmAlloc(p)
               g == AppendPage(h, r.frame)
           IN  /\ HeapFine(g, r.pmm, own \cup {r.frame})
               /\ Regions(g.blocks) = Regions(h.blocks)
               /\ \E k \in DOMAIN g.blocks :
                     ~g.blocks[k].used /\ g.blocks[k].size >= PageSize - Hdr
<1> DEFINE q == PmmAlloc(p).pmm
           f == PmmAlloc(p).frame
           b == h.blocks
           longer == Append(b, FreshBlock(f))
           c == Coalesce(longer, Len(longer))
           g == [h EXCEPT !.blocks = c, !.pages = (h.pages + 1) % CounterMod]
<1>1. /\ h \in HeapRecord /\ ListFine(b) /\ Bracketed(b, own) /\ h.pages \in Nat
      /\ IsPmm(p) /\ OwnLow(own, p) /\ own \in SUBSET Nat
    BY OwnNatural DEF HeapFine, HeapRecord
<1>2. IsPmm(q) /\ OwnLow(own \cup {f}, q) /\ (\A e \in own : e < f) /\ f \in Nat
    BY <1>1, TookFrame
<1>3. AppendPage(h, f) = g
    BY DEF AppendPage
<1> HIDE DEF f, q, b
<1>4. /\ longer \in Seq(Block) /\ Len(longer) \in DOMAIN longer
      /\ longer[Len(longer)] = FreshBlock(f)
      /\ Ordered(longer) /\ Whole(longer) /\ SettledBut(longer, Len(longer))
      /\ Regions(longer) = Regions(b)
      /\ Bracketed(longer, own \cup {f})
    BY <1>1, <1>2, LongerIs
<1>5. /\ ~FreshBlock(f).used /\ FreshBlock(f).size = PageSize - Hdr
      /\ FreshBlock(f) \in Block
    BY <1>2, FreshBlockIs
<1>6. /\ Weight(Headed, longer) = Weight(Headed, b) + Headed[FreshBlock(f)]
      /\ Weight(UsedSize, longer) = Weight(UsedSize, b) + UsedSize[FreshBlock(f)]
      /\ Weight(UsedOne, longer) = Weight(UsedOne, b) + UsedOne[FreshBlock(f)]
    BY <1>1, <1>5, AppendWeighs, WeightsTyped DEF ListFine
<1> HIDE DEF longer
<1>7. /\ ListFine(c) /\ Within(c, longer) /\ Regions(c) = Regions(longer)
      /\ \E k \in DOMAIN c : ~c[k].used /\ c[k].size >= longer[Len(longer)].size
    BY <1>4, <1>5, CoalesceFine
<1>8. /\ Weight(Headed, c) = Weight(Headed, longer)
      /\ Weight(UsedSize, c) = Weight(UsedSize, longer)
      /\ Weight(UsedOne, c) = Weight(UsedOne, longer)
    BY <1>4, <1>5, CoalesceWeighs
<1> HIDE DEF c
<1>9. c \in Seq(Block)
    BY <1>7 DEF ListFine
<1>10. Bracketed(c, own \cup {f})
    BY <1>1, <1>2, <1>4, <1>7, <1>9, BracketedWithin
<1>11. g \in HeapRecord /\ g.blocks = c /\ g.pages = (h.pages + 1) % CounterMod
       /\ g.usedBytes = h.usedBytes /\ g.usedBlocks = h.usedBlocks
  <2>1. (h.pages + 1) % CounterMod \in Nat
    BY <1>1, CounterStays
  <2>2. QED
    BY <1>1, <1>9, <2>1 DEF HeapRecord
<1> HIDE DEF g
<1>12. HeapFine(g, q, own \cup {f})
  <2>1. /\ UsedSize[FreshBlock(f)] = 0 /\ UsedOne[FreshBlock(f)] = 0
        /\ Headed[FreshBlock(f)] = Hdr + (PageSize - Hdr)
    BY <1>5, WeightsTyped
  <2>2. Hdr + (PageSize - Hdr) = PageSize
    BY HeapAssumption, PageAssumption
  <2>3. Weight(Headed, c) = Weight(Headed, b) + PageSize
    BY <1>6, <1>8, <2>1, <2>2
  <2>4. Weight(UsedSize, c) = Weight(UsedSize, b) /\ Weight(UsedOne, c) = Weight(UsedOne, b)
    <3>1. Weight(UsedSize, b) \in Nat /\ Weight(UsedOne, b) \in Nat
      BY <1>1, WeightNatural, WeightsTyped DEF ListFine
    <3>2. QED
      BY <1>6, <1>8, <2>1, <3>1
  <2>5. /\ IsFiniteSet(own) /\ Weight(Headed, b) = Bytes(own)
        /\ h.pages = Cardinality(own) % CounterMod
        /\ Countable(own) => h.usedBytes = Weight(UsedSize, b) /\ h.usedBlocks = Weight(UsedOne, b)
    BY DEF HeapFine, Counted, b
  <2>6. f \notin own
    BY <1>1, <1>2
  <2>7. /\ IsFiniteSet(own \cup {f}) /\ Bytes(own \cup {f}) = Bytes(own) + PageSize
        /\ Cardinality(own \cup {f}) % CounterMod = (h.pages + 1) % CounterMod
        /\ Countable(own \cup {f}) => Countable(own)
    BY <2>5, <2>6, PageCounted
  <2>8. Counted(g, own \cup {f})
    BY <1>11, <2>3, <2>4, <2>5, <2>7 DEF Counted
  <2>9. QED
    BY <1>2, <1>7, <1>10, <1>11, <2>8 DEF HeapFine
<1>13. \E k \in DOMAIN c : ~c[k].used /\ c[k].size >= PageSize - Hdr
    BY <1>4, <1>5, <1>7
<1>14. QED
    BY <1>3, <1>4, <1>7, <1>11, <1>12, <1>13 DEF q, f, b

\* The first page, unless there is one already or no frame.
LEMMA FirstPageFine ==
    ASSUME NEW h, NEW p, NEW own, HeapFine(h, p, own)
    PROVE  LET r == FirstPage(h, p)
           IN  /\ HeapFine(r.heap, r.pmm, own \cup (r.pmm.used \ p.used))
               /\ Grew(p, r.pmm)
               /\ Regions(r.heap.blocks) = Regions(h.blocks)
               /\ r.heap.blocks = <<>> => Allocatable(p) = {}
               /\ \/ r.pmm = p
                  \/ \E k \in DOMAIN r.heap.blocks :
                        ~r.heap.blocks[k].used /\ r.heap.blocks[k].size >= PageSize - Hdr
<1> DEFINE q == PmmAlloc(p).pmm
           f == PmmAlloc(p).frame
           x == FreshBlock(f)
           c == <<x>>
           g == [h EXCEPT !.blocks = c, !.pages = (h.pages + 1) % CounterMod]
<1>1. /\ h \in HeapRecord /\ h.pages \in Nat /\ IsPmm(p) /\ OwnLow(own, p)
    BY DEF HeapFine, HeapRecord
<1>2. CASE h.blocks # <<>> \/ f = NULL
  <2>1. FirstPage(h, p).heap = h /\ FirstPage(h, p).pmm = p
    BY <1>2 DEF FirstPage, Answer
  <2>2. own \cup (p.used \ p.used) = own
    OBVIOUS
  <2>3. Grew(p, p)
    BY <1>1 DEF Grew
  <2>4. h.blocks = <<>> => Allocatable(p) = {}
    BY <1>1, <1>2, AllocIs
  <2>5. QED
    BY <2>1, <2>2, <2>3, <2>4
<1>3. CASE h.blocks = <<>> /\ f # NULL
  <2>1. FirstPage(h, p).heap = g /\ FirstPage(h, p).pmm = q
    BY <1>3 DEF FirstPage, Answer
  <2>2. /\ IsPmm(q) /\ OwnLow(own \cup {f}, q) /\ f \in Nat
        /\ q.used \ p.used = {f} /\ Grew(p, q)
    BY <1>1, <1>3, TookFrame
  <2> HIDE DEF f, q
  <2>3. /\ x \in Block /\ ~x.used /\ x.size % Word = 0 /\ x.addr = f * PageSize
        /\ End(x) = f * PageSize + PageSize
        /\ x.size = PageSize - Hdr /\ x.size \in Nat
    BY <2>2, FreshBlockIs
  <2> HIDE DEF x
  <2>4. c \in Seq(Block) /\ Len(c) = 1 /\ DOMAIN c = {1} /\ c[1] = x /\ c # <<>>
    BY <2>3
  <2> HIDE DEF c
  <2>5. ListFine(c)
    BY <2>3, <2>4 DEF ListFine, Whole, Ordered, Settled
  <2>6. Bracketed(c, own \cup {f})
    <3>1. f * PageSize \in Nat /\ f * PageSize + PageSize \in Nat
      BY <2>2, PageAssumption
    <3> DEFINE v == f * PageSize
    <3>2. v <= x.addr /\ End(x) <= v + PageSize
      BY <2>3, <3>1
    <3> HIDE DEF v
    <3>3. \A k \in DOMAIN c : v <= c[k].addr /\ End(c[k]) <= v + PageSize
      BY <2>4, <3>2
    <3>4. QED
      BY <3>3 DEF Bracketed, v
  <2>7. Regions(c) = {} /\ Regions(h.blocks) = {}
    BY <1>3, <2>3, <2>4 DEF Regions, UsedIn
  <2>8. g \in HeapRecord /\ g.blocks = c /\ g.pages = (h.pages + 1) % CounterMod
        /\ g.usedBytes = h.usedBytes /\ g.usedBlocks = h.usedBlocks
    <3>1. (h.pages + 1) % CounterMod \in Nat
      BY <1>1, CounterStays
    <3>2. QED
      BY <1>1, <2>4, <3>1 DEF HeapRecord
  <2> HIDE DEF g
  <2>9. Counted(g, own \cup {f})
    <3>1. /\ Weight(Headed, h.blocks) = 0 /\ Weight(UsedSize, h.blocks) = 0
          /\ Weight(UsedOne, h.blocks) = 0
      BY <1>3, EmptyWeighs
    <3>2. /\ IsFiniteSet(own) /\ Bytes(own) = 0
          /\ h.pages = Cardinality(own) % CounterMod
          /\ Countable(own) => h.usedBytes = 0 /\ h.usedBlocks = 0
      BY <3>1 DEF HeapFine, Counted
    <3>3. f \notin own
      <4>1. \A e \in own : e < PmmAlloc(p).frame
        BY <1>1, <1>3, TookFrame DEF f
      <4>2. own \subseteq Nat
        BY OwnNatural
      <4>3. QED
        BY <2>2, <4>1, <4>2 DEF f
    <3>4. /\ IsFiniteSet(own \cup {f}) /\ Bytes(own \cup {f}) = 0 + PageSize
          /\ Cardinality(own \cup {f}) % CounterMod = (h.pages + 1) % CounterMod
          /\ Countable(own \cup {f}) => Countable(own)
      BY <3>2, <3>3, PageCounted
    <3>5. /\ UsedSize[x] = 0 /\ UsedOne[x] = 0 /\ Headed[x] = Hdr + (PageSize - Hdr)
      BY <2>3, WeightsTyped
    <3>6. Hdr + (PageSize - Hdr) = PageSize /\ 0 + PageSize = PageSize
      BY HeapAssumption, PageAssumption
    <3>7. \A w \in [Block -> Nat] : Weight(w, c) = 0 + w[x]
      <4>1. c = Append(<<>>, x) /\ <<>> \in Seq(Block)
        BY DEF c
      <4>2. QED
        BY <2>3, <4>1, AppendWeighs, EmptyWeighs
    <3>8. Weight(Headed, c) = PageSize /\ Weight(UsedSize, c) = 0 /\ Weight(UsedOne, c) = 0
      BY <3>5, <3>6, <3>7, WeightsTyped
    <3>9. QED
      BY <2>8, <3>2, <3>4, <3>6, <3>8 DEF Counted
  <2>10. HeapFine(g, q, own \cup {f})
    BY <2>2, <2>5, <2>6, <2>8, <2>9 DEF HeapFine
  <2>11. \E k \in DOMAIN c : ~c[k].used /\ c[k].size >= PageSize - Hdr
    BY <2>3, <2>4
  <2>12. QED
    BY <2>1, <2>2, <2>4, <2>7, <2>8, <2>10, <2>11
<1>4. QED
    BY <1>2, <1>3

\* Growing twice is growing.
LEMMA GrewOn ==
    ASSUME NEW p, NEW q, NEW s, NEW own, Grew(p, q), Grew(q, s)
    PROVE  /\ Grew(p, s)
           /\ (own \cup (q.used \ p.used)) \cup (s.used \ q.used) = own \cup (s.used \ p.used)
<1>1. s.used \ p.used = (q.used \ p.used) \cup (s.used \ q.used)
    BY DEF Grew
<1>2. QED
    BY <1>1 DEF Grew

\* The least that a call of kmalloc does.
Served(h, p, own, r, size) ==
    /\ HeapFine(r.heap, r.pmm, own \cup (r.pmm.used \ p.used))
    /\ Grew(p, r.pmm)
    /\ r.ptr = NULL => Regions(r.heap.blocks) = Regions(h.blocks)
    /\ r.ptr # NULL => Given(r.heap.blocks, h.blocks, r.ptr, size)

\* A request that fits a page fits the free block of a page.
LEMMA FitsWhen ==
    ASSUME NEW b \in Seq(Block), NEW size \in Nat, size <= PageSize - Hdr,
           \E k \in DOMAIN b : ~b[k].used /\ b[k].size >= PageSize - Hdr
    PROVE  Fits(b, size) # {}
<1>1. PICK k \in DOMAIN b : ~b[k].used /\ b[k].size >= PageSize - Hdr
    OBVIOUS
<1>2. b[k].size \in Nat /\ PageSize \in Nat /\ Hdr \in Nat
    BY BlockTyped, PageAssumption, HeapAssumption
<1>3. b[k].size >= size
    BY <1>1, <1>2
<1>4. QED
    BY <1>1, <1>3 DEF Fits

\* A request served with one page more, or refused; one that fits a page is
\* refused only without frames.
LEMMA GrowFine ==
    ASSUME NEW h, NEW p, NEW own, HeapFine(h, p, own), NEW size \in Nat, size % Word = 0
    PROVE  LET r == Grow(h, p, size)
           IN  /\ Served(h, p, own, r, size)
               /\ r.ptr = NULL /\ size <= PageSize - Hdr => Allocatable(p) = {}
<1> DEFINE q == PmmAlloc(p).pmm
           f == PmmAlloc(p).frame
           g == AppendPage(h, f)
           r == Grow(h, p, size)
<1>1. IsPmm(p) /\ OwnLow(own, p)
    BY DEF HeapFine
<1>2. CASE f = NULL
  <2>1. r.heap = h /\ r.pmm = p /\ r.ptr = NULL
    BY <1>2 DEF Grow, Answer
  <2>2. own \cup (p.used \ p.used) = own /\ Grew(p, p)
    BY <1>1 DEF Grew
  <2>3. Allocatable(p) = {}
    BY <1>1, <1>2, AllocIs
  <2> HIDE DEF r
  <2>4. Served(h, p, own, r, size)
    BY <2>1, <2>2 DEF Served
  <2>5. QED
    BY <2>3, <2>4 DEF r
<1>3. CASE f # NULL
  <2>1. q.used \ p.used = {f} /\ Grew(p, q)
    BY <1>1, <1>3, TookFrame
  <2>2. /\ HeapFine(g, q, own \cup {f})
        /\ Regions(g.blocks) = Regions(h.blocks)
        /\ \E k \in DOMAIN g.blocks : ~g.blocks[k].used /\ g.blocks[k].size >= PageSize - Hdr
    BY <1>3, AppendPageFine
  <2>3. r = IF Fits(g.blocks, size) # {} THEN TakeFirst(g, q, size) ELSE Answer(g, q, NULL)
    BY <1>3 DEF Grow
  <2> HIDE DEF f, q, g, r
  <2>4. g.blocks \in Seq(Block)
    BY <2>2 DEF HeapFine, ListFine
  <2>5. CASE Fits(g.blocks, size) # {}
    <3> DEFINE t == TakeFirst(g, q, size)
    <3>1. HeapFine(t.heap, q, own \cup {f}) /\ t.pmm = q /\ Given(t.heap.blocks, g.blocks, t.ptr, size)
      BY <2>2, <2>5, TakeFirstFine
    <3> HIDE DEF t
    <3>2. r = t
      BY <2>3, <2>5 DEF t
    <3>3. Given(t.heap.blocks, h.blocks, t.ptr, size) /\ t.ptr # NULL
      BY <2>2, <3>1 DEF Given, NULL
    <3>4. Served(h, p, own, r, size)
      BY <2>1, <3>1, <3>2, <3>3 DEF Served
    <3>5. QED
      BY <3>2, <3>3, <3>4 DEF r
  <2>6. CASE Fits(g.blocks, size) = {}
    <3>1. r.heap = g /\ r.pmm = q /\ r.ptr = NULL
      BY <2>3, <2>6 DEF Answer
    <3>2. ~(size <= PageSize - Hdr)
      BY <2>2, <2>4, <2>6, FitsWhen
    <3>3. Served(h, p, own, r, size)
      BY <2>1, <2>2, <3>1 DEF Served
    <3>4. QED
      BY <3>2, <3>3 DEF r
  <2>7. QED
    BY <2>5, <2>6
<1>4. QED
    BY <1>2, <1>3

\* kmalloc from any fine heap: served or refused, and the heap fine again.
LEMMA KmallocFine ==
    ASSUME NEW h, NEW p, NEW own, HeapFine(h, p, own), NEW request \in 0 .. SizeMod - 1
    PROVE  LET r == Kmalloc(h, p, request)
           IN  /\ Served(h, p, own, r, RoundUp(request))
               /\ r.ptr # NULL => request # 0
               /\ r.ptr = NULL /\ request # 0 /\ RoundUp(request) <= PageSize - Hdr
                    => Allocatable(p) = {}
<1> DEFINE size == RoundUp(request)
           ready == FirstPage(h, p)
           r == Kmalloc(h, p, request)
           mid == own \cup (ready.pmm.used \ p.used)
<1>1. IsPmm(p) /\ size \in Nat /\ size % Word = 0
    BY RoundUpCovers DEF HeapFine
<1>2. /\ HeapFine(ready.heap, ready.pmm, mid)
      /\ Grew(p, ready.pmm)
      /\ Regions(ready.heap.blocks) = Regions(h.blocks)
      /\ ready.heap.blocks = <<>> => Allocatable(p) = {}
      /\ \/ ready.pmm = p
         \/ \E k \in DOMAIN ready.heap.blocks :
               ~ready.heap.blocks[k].used /\ ready.heap.blocks[k].size >= PageSize - Hdr
    BY FirstPageFine
<1>3. r = IF request = 0 \/ ready.heap.blocks = <<>> THEN Answer(h, p, NULL)
          ELSE IF Fits(ready.heap.blocks, size) # {} THEN TakeFirst(ready.heap, ready.pmm, size)
          ELSE Grow(ready.heap, ready.pmm, size)
    BY DEF Kmalloc
<1> HIDE DEF size, ready, r
<1>4. CASE request = 0 \/ ready.heap.blocks = <<>>
  <2>1. r.heap = h /\ r.pmm = p /\ r.ptr = NULL
    BY <1>3, <1>4 DEF Answer
  <2>2. own \cup (p.used \ p.used) = own /\ Grew(p, p)
    BY <1>1 DEF Grew
  <2>3. Served(h, p, own, r, size)
    BY <2>1, <2>2 DEF Served
  <2>4. QED
    BY <1>2, <1>4, <2>1, <2>3 DEF r, size
<1>5. CASE /\ ~(request = 0 \/ ready.heap.blocks = <<>>)
           /\ Fits(ready.heap.blocks, size) # {}
  <2> DEFINE t == TakeFirst(ready.heap, ready.pmm, size)
  <2>1. r = t
    BY <1>3, <1>5
  <2>2. /\ HeapFine(t.heap, ready.pmm, mid) /\ t.pmm = ready.pmm
        /\ Given(t.heap.blocks, ready.heap.blocks, t.ptr, size)
    BY <1>1, <1>2, <1>5, TakeFirstFine
  <2> HIDE DEF t
  <2>3. Given(t.heap.blocks, h.blocks, t.ptr, size) /\ t.ptr # NULL
    BY <1>2, <2>2 DEF Given, NULL
  <2>4. Served(h, p, own, r, size)
    BY <1>2, <2>1, <2>2, <2>3 DEF Served
  <2>5. QED
    BY <1>5, <2>1, <2>3, <2>4 DEF r, size
<1>6. CASE /\ ~(request = 0 \/ ready.heap.blocks = <<>>)
           /\ Fits(ready.heap.blocks, size) = {}
  <2> DEFINE t == Grow(ready.heap, ready.pmm, size)
  <2>1. r = t
    BY <1>3, <1>6
  <2>2. /\ Served(ready.heap, ready.pmm, mid, t, size)
        /\ t.ptr = NULL /\ size <= PageSize - Hdr => Allocatable(ready.pmm) = {}
    BY <1>1, <1>2, GrowFine
  <2> HIDE DEF t
  <2>3. Grew(p, t.pmm) /\ mid \cup (t.pmm.used \ ready.pmm.used) = own \cup (t.pmm.used \ p.used)
    BY <1>2, <2>2, GrewOn DEF Served
  <2>4. Given(t.heap.blocks, ready.heap.blocks, t.ptr, size)
          => Given(t.heap.blocks, h.blocks, t.ptr, size)
    BY <1>2 DEF Given
  <2>5. HeapFine(t.heap, t.pmm, own \cup (t.pmm.used \ p.used))
    <3> HIDE DEF mid
    <3>1. HeapFine(t.heap, t.pmm, mid \cup (t.pmm.used \ ready.pmm.used))
      BY <2>2 DEF Served
    <3>2. QED
      BY <2>3, <3>1
  <2>6. Served(h, p, own, r, size)
    BY <1>2, <2>1, <2>2, <2>3, <2>4, <2>5 DEF Served
  <2>7. size <= PageSize - Hdr => ready.pmm = p
    <3>1. ready.heap.blocks \in Seq(Block)
      BY <1>2 DEF HeapFine, ListFine
    <3>2. QED
      BY <1>1, <1>2, <1>6, <3>1, FitsWhen
  <2>8. r.ptr = NULL /\ size <= PageSize - Hdr => Allocatable(p) = {}
    BY <2>1, <2>2, <2>7
  <2>9. QED
    BY <1>6, <2>6, <2>8 DEF r, size
<1>7. QED
    BY <1>4, <1>5, <1>6

-----------------------------------------------------------------------------
(* kfree, krealloc and kcalloc.                                              *)

\* The block of a pointer, when its header is in the list.
LEMMA BlockAtIs ==
    ASSUME NEW b \in Seq(Block), NEW ptr
    PROVE  LET i == BlockAt(b, ptr)
           IN  \/ i = 0 /\ \A k \in DOMAIN b : PtrOf(b[k]) # ptr
               \/ i # 0 /\ i \in DOMAIN b /\ PtrOf(b[i]) = ptr
<1>1. DOMAIN b = 1 .. Len(b) /\ Len(b) \in Nat
    BY LenProperties
<1>2. CASE \E k \in DOMAIN b : PtrOf(b[k]) = ptr
  <2> DEFINE i == CHOOSE k \in DOMAIN b : PtrOf(b[k]) = ptr
  <2>1. BlockAt(b, ptr) = i
    BY <1>2 DEF BlockAt
  <2>2. i \in DOMAIN b /\ PtrOf(b[i]) = ptr
    BY <1>2
  <2> HIDE DEF i
  <2>3. i # 0
    BY <1>1, <2>2
  <2>4. QED
    BY <2>1, <2>2, <2>3
<1>3. CASE ~ \E k \in DOMAIN b : PtrOf(b[k]) = ptr
    BY <1>3 DEF BlockAt
<1>4. QED
    BY <1>2, <1>3

\* The list with a used block marked free, before any merge.
LEMMA ReleasedIs ==
    ASSUME NEW b, ListFine(b), NEW i \in DOMAIN b, b[i].used
    PROVE  LET c == [b EXCEPT ![i].used = FALSE]
           IN  /\ c \in Seq(Block) /\ i \in DOMAIN c /\ ~c[i].used
               /\ Ordered(c) /\ Whole(c) /\ SettledBut(c, i)
               /\ Within(c, b)
               /\ Regions(c) = {g \in Regions(b) : g.start # PtrOf(b[i])}
<1> DEFINE e == [addr |-> b[i].addr, size |-> b[i].size, used |-> FALSE]
           c == [b EXCEPT ![i] = e]
<1>1. /\ b \in Seq(Block) /\ Len(b) \in Nat /\ DOMAIN b = 1 .. Len(b) /\ i \in 1 .. Len(b)
      /\ Whole(b) /\ Ordered(b) /\ Settled(b)
      /\ \A k \in DOMAIN b : /\ b[k] \in Block /\ b[k].addr \in Nat /\ b[k].size \in Nat
                             /\ End(b[k]) \in Nat
    BY BlockTyped DEF ListFine
<1>2. [b[i] EXCEPT !.used = FALSE] = e
    BY <1>1, BlockExcept
<1>3. [b EXCEPT ![i].used = FALSE] = c
    BY <1>2
<1>4. e \in Block /\ e.addr = b[i].addr /\ e.size = b[i].size /\ ~e.used
    BY <1>1 DEF Block
<1> HIDE DEF e
<1>5. /\ c \in Seq(Block) /\ Len(c) = Len(b)
      /\ \A k \in 1 .. Len(b) : c[k] = IF k = i THEN e ELSE b[k]
    BY <1>1, <1>4, ExceptSeq
<1> HIDE DEF c
<1>6. DOMAIN c = DOMAIN b
    BY <1>1, <1>5, LenProperties
<1>7. \A k \in DOMAIN b : /\ c[k].addr = b[k].addr /\ c[k].size = b[k].size
                          /\ End(c[k]) = End(b[k]) /\ PtrOf(c[k]) = PtrOf(b[k])
    BY <1>1, <1>4, <1>5 DEF End, PtrOf
<1>8. c[i] = e /\ \A k \in DOMAIN b : k # i => c[k] = b[k]
    BY <1>1, <1>5
<1>9. Ordered(c) /\ Whole(c)
    BY <1>1, <1>6, <1>7 DEF Ordered, Whole
<1>10. SettledBut(c, i)
  <2> SUFFICES ASSUME NEW k \in DOMAIN c, k > 1, k # i, k # i + 1
               PROVE  c[k - 1].used \/ c[k].used
      BY DEF SettledBut
  <2>1. k \in DOMAIN b /\ k - 1 \in DOMAIN b /\ k - 1 # i
    BY <1>1, <1>6
  <2>2. c[k] = b[k] /\ c[k - 1] = b[k - 1]
    BY <1>8, <2>1
  <2>3. QED
    BY <1>1, <2>1, <2>2 DEF Settled
<1>11. Within(c, b)
  <2> SUFFICES ASSUME NEW k \in DOMAIN c
               PROVE  \E l, j \in DOMAIN b : b[l].addr <= c[k].addr /\ End(c[k]) <= End(b[j])
      BY DEF Within
  <2>1. k \in DOMAIN b /\ b[k].addr <= c[k].addr /\ End(c[k]) <= End(b[k])
    BY <1>1, <1>6, <1>7
  <2>2. QED
    BY <2>1
<1>12. Regions(c) = {g \in Regions(b) : g.start # PtrOf(b[i])}
  <2> DEFINE reg(x) == [start |-> PtrOf(x), size |-> x.size]
  <2>1. UsedIn(c) = UsedIn(b) \ {i}
    BY <1>4, <1>6, <1>8 DEF UsedIn
  <2>2. \A k \in UsedIn(c) : c[k] = b[k]
    BY <1>8, <2>1 DEF UsedIn
  <2>3. \A k \in UsedIn(b) : PtrOf(b[k]) = PtrOf(b[i]) => k = i
    BY <1>1, PointersDiffer DEF UsedIn
  <2>4. Regions(b) = {reg(b[k]) : k \in UsedIn(b)} /\ Regions(c) = {reg(c[l]) : l \in UsedIn(c)}
    BY DEF Regions
  <2>5. \A x : reg(x).start = PtrOf(x)
    OBVIOUS
  <2> HIDE DEF reg
  <2>6. QED
    BY <2>1, <2>2, <2>3, <2>4, <2>5
<1>13. QED
    BY <1>3, <1>4, <1>5, <1>6, <1>8, <1>9, <1>10, <1>11, <1>12, <1>1

\* kfree takes away the region that starts at the pointer, if there is one.
LEMMA KfreeFine ==
    ASSUME NEW h, NEW p, NEW own, HeapFine(h, p, own), NEW ptr
    PROVE  LET g == Kfree(h, ptr)
           IN  /\ HeapFine(g, p, own)
               /\ Regions(g.blocks) = {x \in Regions(h.blocks) : x.start # ptr}
<1> DEFINE b == h.blocks
           i == BlockAt(b, ptr)
<1>1. /\ h \in HeapRecord /\ ListFine(b) /\ b \in Seq(Block)
      /\ h.usedBytes \in Nat /\ h.usedBlocks \in Nat
    BY DEF HeapFine, HeapRecord, ListFine
<1>2. \/ i = 0 /\ \A k \in DOMAIN b : PtrOf(b[k]) # ptr
      \/ i # 0 /\ i \in DOMAIN b /\ PtrOf(b[i]) = ptr
    BY <1>1, BlockAtIs
<1>3. CASE ptr = NULL \/ i = 0 \/ (i # 0 /\ ~b[i].used)
  <2>1. Kfree(h, ptr) = h
    BY <1>3 DEF Kfree
  <2> HIDE DEF i
  <2>2. \A k \in UsedIn(b) : PtrOf(b[k]) # ptr
    <3> SUFFICES ASSUME NEW k \in UsedIn(b), PtrOf(b[k]) = ptr PROVE FALSE
        OBVIOUS
    <3>1. k \in DOMAIN b /\ b[k].used /\ PtrOf(b[k]) # 0
      BY <1>1, BlockTyped DEF UsedIn
    <3>2. i # 0 /\ i \in DOMAIN b /\ PtrOf(b[i]) = ptr
      BY <1>2, <3>1
    <3>3. i = k
      BY <1>1, <3>1, <3>2, PointersDiffer DEF ListFine
    <3>4. QED
      BY <1>3, <3>1, <3>2, <3>3 DEF NULL
  <2>3. \A x \in Regions(b) : x.start # ptr
    BY <2>2 DEF Regions
  <2>4. QED
    BY <2>1, <2>3
<1>4. CASE ~(ptr = NULL \/ i = 0 \/ (i # 0 /\ ~b[i].used))
  <2> DEFINE d == [b EXCEPT ![i].used = FALSE]
             c == Coalesce(d, i)
             u == IF h.usedBytes >= b[i].size THEN h.usedBytes - b[i].size ELSE h.usedBytes
             n == IF h.usedBlocks > 0 THEN h.usedBlocks - 1 ELSE h.usedBlocks
             g == [h EXCEPT !.blocks = c, !.usedBytes = u, !.usedBlocks = n]
  <2>1. Kfree(h, ptr) = g
    BY <1>4 DEF Kfree
  <2> HIDE DEF i
  <2>2. i \in DOMAIN b /\ PtrOf(b[i]) = ptr /\ b[i].used
    BY <1>2, <1>4
  <2>3. u \in Nat /\ n \in Nat
    BY <1>1, <2>2, BlockTyped, SMTT(30)
  <2>4. /\ d \in Seq(Block) /\ i \in DOMAIN d /\ ~d[i].used
        /\ Ordered(d) /\ Whole(d) /\ SettledBut(d, i)
        /\ Within(d, b)
        /\ Regions(d) = {x \in Regions(b) : x.start # PtrOf(b[i])}
    <3> HIDE DEF b
    <3>1. QED
      BY <1>1, <2>2, ReleasedIs
  <2>5. /\ Weight(Headed, d) = Weight(Headed, b)
        /\ Weight(UsedSize, b) = Weight(UsedSize, d) + b[i].size
        /\ Weight(UsedOne, b) = Weight(UsedOne, d) + 1
        /\ Weight(UsedSize, d) \in Nat /\ Weight(UsedOne, d) \in Nat
    <3> HIDE DEF b
    <3>1. QED
      BY <1>1, <2>2, ReleasedWeighs
  <2>6. ASSUME Countable(own) PROVE u = Weight(UsedSize, d) /\ n = Weight(UsedOne, d)
    <3>1. h.usedBytes = Weight(UsedSize, b) /\ h.usedBlocks = Weight(UsedOne, b)
      BY <2>6 DEF HeapFine, Counted
    <3>2. b[i].size \in Nat
      BY <1>1, <2>2, BlockTyped
    <3> DEFINE x == b[i].size   y == Weight(UsedSize, d)   z == Weight(UsedOne, d)
    <3>3. /\ u = IF y + x >= x THEN (y + x) - x ELSE y + x
          /\ n = IF z + 1 > 0 THEN (z + 1) - 1 ELSE z + 1
      BY <2>5, <3>1
    <3>4. x \in Nat /\ y \in Nat /\ z \in Nat
      BY <2>5, <3>2
    <3> HIDE DEF x, y, z, u, n
    <3>5. u = y /\ n = z
      BY <3>3, <3>4
    <3>6. QED
      BY <3>5 DEF y, z
  <2> HIDE DEF d, u, n
  <2>7. /\ Weight(Headed, c) = Weight(Headed, d)
        /\ Weight(UsedSize, c) = Weight(UsedSize, d)
        /\ Weight(UsedOne, c) = Weight(UsedOne, d)
    BY <2>4, CoalesceWeighs
  <2>8. /\ ListFine(c) /\ Within(c, d) /\ Regions(c) = Regions(d)
    BY <2>4, CoalesceFine
  <2> HIDE DEF c
  <2>9. c \in Seq(Block)
    BY <2>8 DEF ListFine
  <2>10. Bracketed(c, own)
    <3>1. Bracketed(b, own) /\ own \subseteq Nat
      BY OwnNatural DEF HeapFine
    <3> HIDE DEF b
    <3>2. Bracketed(d, own)
      BY <1>1, <2>4, <3>1, BracketedWithin
    <3>3. QED
      BY <2>4, <2>8, <2>9, <3>1, <3>2, BracketedWithin
  <2>11. g \in HeapRecord /\ g.blocks = c /\ g.pages = h.pages
         /\ g.usedBytes = u /\ g.usedBlocks = n
    BY <1>1, <2>3, <2>9 DEF HeapRecord
  <2> HIDE DEF g
  <2>12. Counted(g, own)
    BY <2>11, <2>5, <2>6, <2>7 DEF Counted, HeapFine
  <2>13. HeapFine(g, p, own)
    BY <2>8, <2>10, <2>11, <2>12 DEF HeapFine
  <2>14. QED
    BY <2>1, <2>2, <2>4, <2>8, <2>11, <2>13
<1>5. QED
    BY <1>3, <1>4

\* Regions are told apart by their starts.
LEMMA RegionsDiffer ==
    ASSUME NEW b, ListFine(b), NEW x \in Regions(b), NEW y \in Regions(b), x.start = y.start
    PROVE  x = y
<1>1. PICK k \in UsedIn(b) : x = [start |-> PtrOf(b[k]), size |-> b[k].size]
    BY DEF Regions
<1>2. PICK l \in UsedIn(b) : y = [start |-> PtrOf(b[l]), size |-> b[l].size]
    BY DEF Regions
<1>3. PtrOf(b[k]) = PtrOf(b[l])
    BY <1>1, <1>2
<1>4. k = l
    BY <1>3, PointersDiffer DEF ListFine, UsedIn
<1>5. QED
    BY <1>1, <1>2, <1>4

\* The position BlockAt finds for a pointer a caller holds.
LEMMA BlockOfRegion ==
    ASSUME NEW b, ListFine(b), NEW old \in Regions(b)
    PROVE  LET i == BlockAt(b, old.start)
           IN  i # 0 /\ i \in DOMAIN b /\ b[i].used /\ b[i].size = old.size
<1> DEFINE i == BlockAt(b, old.start)
<1>1. b \in Seq(Block) /\ Ordered(b)
    BY DEF ListFine
<1>2. PICK k \in UsedIn(b) : old = [start |-> PtrOf(b[k]), size |-> b[k].size]
    BY DEF Regions
<1>3. k \in DOMAIN b /\ b[k].used /\ PtrOf(b[k]) = old.start /\ b[k].size = old.size
    BY <1>2 DEF UsedIn
<1>4. i # 0 /\ i \in DOMAIN b /\ PtrOf(b[i]) = old.start
    BY <1>1, <1>3, BlockAtIs
<1> HIDE DEF i
<1>5. i = k
    BY <1>1, <1>3, <1>4, PointersDiffer
<1>6. QED
    BY <1>3, <1>4, <1>5 DEF i

\* A region was given at ptr, at least as large as asked, and the smaller one
\* at lost taken back.
MovedRegion(c, b, lost, ptr, request) ==
    /\ ptr \in Nat \ {0} /\ ptr # lost
    /\ \A g \in Regions(b) : g.start # ptr
    /\ \E s \in Nat, old \in Regions(b) :
          /\ s >= request /\ old.start = lost /\ old.size < request
          /\ Regions(c) = (Regions(b) \cup {[start |-> ptr, size |-> s]}) \ {old}
          /\ \A g \in Regions(b) :
                RegionBytes([start |-> ptr, size |-> s]) \cap RegionBytes(g) = {}

\* krealloc from any fine heap: freed, refused, in place or moved, and the heap
\* fine again.
LEMMA KreallocFine ==
    ASSUME NEW h, NEW p, NEW own, HeapFine(h, p, own), NEW request \in 0 .. SizeMod - 1,
           RoundUp(request) >= request, NEW old \in Regions(h.blocks)
    PROVE  LET r == Krealloc(h, p, old.start, request)
               b == h.blocks
               c == r.heap.blocks
           IN  /\ HeapFine(r.heap, r.pmm, own \cup (r.pmm.used \ p.used))
               /\ Grew(p, r.pmm)
               /\ \/ request = 0 /\ r.ptr = NULL /\ Regions(c) = Regions(b) \ {old}
                  \/ request # 0 /\ r.ptr = NULL /\ Regions(c) = Regions(b)
                  \/ /\ request # 0 /\ r.ptr = old.start /\ old.size >= request
                     /\ Regions(c) = Regions(b)
                  \/ request # 0 /\ MovedRegion(c, b, old.start, r.ptr, request)
<1> DEFINE b == h.blocks
           ptr == old.start
           i == BlockAt(b, ptr)
           m == Kmalloc(h, p, request)
           r == Krealloc(h, p, ptr, request)
           k == Kfree(h, ptr)
<1>1. ListFine(b) /\ b \in Seq(Block) /\ IsPmm(p)
    BY DEF HeapFine, ListFine
<1>2. i # 0 /\ i \in DOMAIN b /\ b[i].size = old.size
    BY <1>1, BlockOfRegion
<1>3. ptr # NULL /\ ptr \in Nat /\ old.size \in Nat
  <2>1. PICK l \in UsedIn(b) : old = [start |-> PtrOf(b[l]), size |-> b[l].size]
    BY DEF Regions
  <2>2. PtrOf(b[l]) \in Nat \ {0} /\ b[l].size \in Nat
    BY <1>1, BlockTyped DEF UsedIn
  <2>3. QED
    BY <2>1, <2>2 DEF NULL
<1>4. \A x \in Regions(b) : x.start = ptr <=> x = old
    BY <1>1, RegionsDiffer
<1>5. HeapFine(k, p, own) /\ Regions(k.blocks) = {x \in Regions(b) : x.start # ptr}
    BY KfreeFine
<1>6. own \cup (p.used \ p.used) = own /\ Grew(p, p)
    BY <1>1 DEF Grew
<1>7. Served(h, p, own, m, RoundUp(request))
    BY KmallocFine
<1>8. r = IF request = 0 THEN Answer(k, p, NULL)
          ELSE IF old.size >= request THEN Answer(h, p, ptr)
          ELSE IF m.ptr = NULL THEN m
          ELSE Answer(Kfree(m.heap, ptr), m.pmm, m.ptr)
    BY <1>2, <1>3 DEF Krealloc
<1> DEFINE Fine == HeapFine(r.heap, r.pmm, own \cup (r.pmm.used \ p.used)) /\ Grew(p, r.pmm)
           c == r.heap.blocks
<1> HIDE DEF i, m, k, r
<1>9. CASE request = 0
  <2>1. r.heap = k /\ r.pmm = p /\ r.ptr = NULL
    BY <1>8, <1>9 DEF Answer
  <2>2. Regions(c) = Regions(b) \ {old}
    BY <1>4, <1>5, <2>1
  <2>3. Fine
    BY <1>5, <1>6, <2>1
  <2>4. QED
    BY <1>9, <2>1, <2>2, <2>3 DEF r
<1>10. CASE request # 0 /\ old.size >= request
  <2>1. r.heap = h /\ r.pmm = p /\ r.ptr = ptr
    BY <1>8, <1>10 DEF Answer
  <2>2. Fine
    BY <1>6, <2>1
  <2>3. QED
    BY <1>10, <2>1, <2>2 DEF r
<1>11. CASE request # 0 /\ ~(old.size >= request) /\ m.ptr = NULL
  <2>1. r = m
    BY <1>8, <1>11
  <2>2. Fine /\ Regions(c) = Regions(b) /\ r.ptr = NULL
    BY <1>7, <1>11, <2>1 DEF Served
  <2>3. QED
    BY <1>11, <2>2 DEF r
<1>12. CASE request # 0 /\ ~(old.size >= request) /\ m.ptr # NULL
  <2> DEFINE n == Kfree(m.heap, ptr)
             mown == own \cup (m.pmm.used \ p.used)
  <2>1. r.heap = n /\ r.pmm = m.pmm /\ r.ptr = m.ptr
    BY <1>8, <1>12 DEF Answer
  <2>2. HeapFine(m.heap, m.pmm, mown) /\ Grew(p, m.pmm)
        /\ Given(m.heap.blocks, b, m.ptr, RoundUp(request))
    BY <1>7, <1>12 DEF Served
  <2>3. /\ HeapFine(n, m.pmm, mown)
        /\ Regions(n.blocks) = {x \in Regions(m.heap.blocks) : x.start # ptr}
    <3> HIDE DEF mown
    <3>1. QED
      BY <2>2, KfreeFine
  <2> HIDE DEF n
  <2>4. Fine
    BY <2>1, <2>2, <2>3
  <2>5. PICK s \in Nat : /\ s >= RoundUp(request)
                         /\ Regions(m.heap.blocks)
                              = Regions(b) \cup {[start |-> m.ptr, size |-> s]}
    BY <2>2 DEF Given
  <2>6. m.ptr \in Nat \ {0} /\ (\A g \in Regions(b) : g.start # m.ptr) /\ m.ptr # ptr
    BY <2>2 DEF Given
  <2>7. s >= request /\ old.size < request
    BY <1>3, <1>12, <2>5, RoundUpCovers
  <2> DEFINE new == [start |-> m.ptr, size |-> s]
  <2>8. new.start # ptr /\ new # old
    BY <2>6
  <2>9. Regions(n.blocks) = (Regions(b) \cup {new}) \ {old}
    <3>1. Regions(m.heap.blocks) = Regions(b) \cup {new}
      BY <2>5
    <3> HIDE DEF new
    <3>2. QED
      BY <1>4, <2>3, <2>8, <3>1
  <2>10. \A g \in Regions(b) : RegionBytes(new) \cap RegionBytes(g) = {}
    <3> SUFFICES ASSUME NEW g \in Regions(b) PROVE RegionBytes(new) \cap RegionBytes(g) = {}
        OBVIOUS
    <3>1. new.start = m.ptr
      OBVIOUS
    <3>2. Regions(m.heap.blocks) = Regions(b) \cup {new} /\ ListFine(m.heap.blocks)
      BY <2>2, <2>5 DEF HeapFine
    <3> HIDE DEF new
    <3>3. new # g
      BY <2>6, <3>1
    <3>4. QED
      BY <3>2, <3>3, RegionsApart
  <2>11. MovedRegion(c, b, ptr, r.ptr, request)
    BY <2>1, <2>6, <2>7, <2>9, <2>10 DEF MovedRegion
  <2>12. QED
    BY <1>12, <2>4, <2>11 DEF r
<1>13. QED
    BY <1>9, <1>10, <1>11, <1>12

\* kcalloc from any fine heap; it never serves a product that wrapped.
LEMMA KcallocFine ==
    ASSUME NEW h, NEW p, NEW own, HeapFine(h, p, own),
           NEW num \in 0 .. SizeMod - 1, NEW size \in 0 .. SizeMod - 1
    PROVE  LET r == Kcalloc(h, p, num, size)
           IN  /\ Served(h, p, own, r, RoundUp((num * size) % SizeMod))
               /\ r.ptr # NULL => num * size \in 0 .. SizeMod - 1
<1> DEFINE prod == num * size
           total == prod % SizeMod
           r == Kcalloc(h, p, num, size)
<1>1. IsPmm(p) /\ SizeMod \in Nat \ {0}
    BY HeapAssumption DEF HeapFine
<1>2. num \in Nat /\ size \in Nat /\ prod \in Nat
    BY <1>1
<1>3. total \in 0 .. SizeMod - 1 /\ total <= prod
  <2> HIDE DEF prod
  <2>1. QED
    BY <1>1, <1>2
<1>4. CASE num # 0 /\ total \div num # size
  <2>1. r.heap = h /\ r.pmm = p /\ r.ptr = NULL
    BY <1>4 DEF Kcalloc, Answer
  <2>2. own \cup (p.used \ p.used) = own /\ Grew(p, p)
    BY <1>1 DEF Grew
  <2> HIDE DEF r
  <2>3. Served(h, p, own, r, RoundUp(total))
    BY <2>1, <2>2 DEF Served
  <2>4. QED
    BY <2>1, <2>3 DEF r
<1>5. CASE ~(num # 0 /\ total \div num # size)
  <2>1. r = Kmalloc(h, p, total)
    BY <1>5 DEF Kcalloc
  <2> HIDE DEF r
  <2>2. Served(h, p, own, r, RoundUp(total)) /\ (r.ptr # NULL => total # 0)
    <3> HIDE DEF total
    <3>1. QED
      BY <1>3, <2>1, KmallocFine
  <2>3. total # 0 => num # 0
    BY <1>1, <1>2
  <2>4. num # 0 => prod = total
    <3> SUFFICES ASSUME num # 0 PROVE prod = total
        OBVIOUS
    <3>1. total \div num = size
      BY <1>5
    <3> HIDE DEF total, prod
    <3>2. total \in Nat /\ num \in Nat \ {0}
      BY <1>2, <1>3
    <3>3. num * (total \div num) <= total
      BY <3>2
    <3>4. prod <= total
      BY <3>1, <3>3 DEF prod
    <3>5. QED
      BY <1>2, <1>3, <3>2, <3>4
  <2>5. QED
    BY <1>3, <2>2, <2>3, <2>4 DEF r
<1>6. QED
    BY <1>4, <1>5

-----------------------------------------------------------------------------
(* The machine at the moment the heap is first asked.                        *)

\* pmm_init leaves a frame manager.
LEMMA BootedIs ==
    ASSUME NEW mm, WellFormedMemmap(mm)
    PROVE  IsPmm(PmmInit(mm))
<1> DEFINE S == {a \in 0 .. MaxPhys : BoundsUsable(mm, a)}
           t == TotalPages(mm)
<1>1. MaxPhys \in Nat /\ PageSize \in Nat \ {0}
    BY PageAssumption
<1>2. S \in SUBSET Nat /\ S # {}
  <2>1. MaxPhys \in S
    BY <1>1 DEF WellFormedMemmap, BoundsUsable
  <2>2. QED
    BY <2>1
<1>3. PICK a \in S : \A b \in S : a <= b
  <2> HIDE DEF S
  <2>1. QED
    BY <1>2, LeastNatural
<1>4. Highest(mm) \in 0 .. MaxPhys
    BY <1>3 DEF Highest
<1>5. t \in Nat /\ t * PageSize <= MaxPhys
  <2> DEFINE high == Highest(mm)
  <2>1. high \in Nat /\ high <= MaxPhys /\ t = high \div PageSize
    BY <1>1, <1>4 DEF TotalPages
  <2> HIDE DEF high, t
  <2>2. high \div PageSize \in Nat /\ PageSize * (high \div PageSize) <= high
    BY <1>1, <2>1
  <2>3. PageSize * t = t * PageSize /\ t \in Nat /\ PageSize * t <= high
    BY <1>1, <2>1, <2>2
  <2>4. QED
    BY <1>1, <2>1, <2>3
<1> HIDE DEF t
<1>6. PmmInit(mm).total = t
    BY DEF PmmInit, t
<1> DEFINE p == PmmInit(mm)
<1>7. p \in [total : Nat, used : {p.used}, free : {p.free}, mapped : {p.mapped}]
    BY <1>5 DEF PmmInit, t
<1> HIDE DEF p
<1>8. IsPmm(p)
    BY <1>5, <1>6, <1>7 DEF IsPmm, p
<1>9. QED
    BY <1>8 DEF p

\* f lists the states of the frame manager after 0..n pages were taken at boot.
TakenAtBoot(f, mm, n) ==
    f = [k \in 0 .. n |-> IF k = 0 THEN PmmInit(mm) ELSE PmmAlloc(f[k - 1]).pmm]

\* Such a list exists for every n: the shortest missing one would be one longer
\* than one that exists.
LEMMA BootListExists ==
    ASSUME NEW mm, NEW n \in Nat
    PROVE  \E f : TakenAtBoot(f, mm, n)
<1> DEFINE S == {k \in Nat : ~ \E f : TakenAtBoot(f, mm, k)}
<1>1. SUFFICES ASSUME S # {} PROVE FALSE
    OBVIOUS
<1>2. PICK m \in S : \A k \in S : m <= k
  <2>1. S \in SUBSET Nat
    OBVIOUS
  <2> HIDE DEF S
  <2>2. QED
    BY <1>1, <2>1, LeastNatural
<1>3. m \in Nat /\ ~ \E f : TakenAtBoot(f, mm, m)
    BY <1>2
<1>4. CASE m = 0
  <2> DEFINE f == [k \in 0 .. 0 |-> PmmInit(mm)]
  <2>1. f = [k \in 0 .. 0 |-> IF k = 0 THEN PmmInit(mm) ELSE PmmAlloc(f[k - 1]).pmm]
    OBVIOUS
  <2>2. TakenAtBoot(f, mm, 0)
    BY <2>1 DEF TakenAtBoot
  <2>3. QED
    BY <1>3, <1>4, <2>2
<1>5. CASE m # 0
  <2>1. m - 1 \in Nat /\ ~(m <= m - 1)
    BY <1>3, <1>5
  <2>2. PICK g : TakenAtBoot(g, mm, m - 1)
    BY <1>2, <2>1
  <2> DEFINE next == PmmAlloc(g[m - 1]).pmm
             f == [k \in 0 .. m |-> IF k = m THEN next ELSE g[k]]
  <2>3. \A k \in 0 .. m - 1 : g[k] = IF k = 0 THEN PmmInit(mm) ELSE PmmAlloc(g[k - 1]).pmm
    BY <2>2 DEF TakenAtBoot
  <2>4. ASSUME NEW k \in 0 .. m
        PROVE  f[k] = IF k = 0 THEN PmmInit(mm) ELSE PmmAlloc(f[k - 1]).pmm
    <3>1. CASE k = m
      <4>1. k # 0 /\ k - 1 \in 0 .. m /\ k - 1 # m /\ k - 1 = m - 1
        BY <1>3, <1>5, <3>1
      <4>2. f[k] = next /\ f[k - 1] = g[m - 1]
        BY <3>1, <4>1
      <4>3. QED
        BY <4>1, <4>2
    <3>2. CASE k # m
      <4>1. k \in 0 .. m - 1 /\ (k # 0 => k - 1 \in 0 .. m /\ k - 1 # m)
        BY <1>3, <3>2
      <4>2. f[k] = g[k] /\ (k # 0 => f[k - 1] = g[k - 1])
        BY <3>2, <4>1
      <4> HIDE DEF f
      <4>3. QED
        BY <2>3, <4>1, <4>2
    <3>3. QED
      BY <3>1, <3>2
  <2>5. TakenAtBoot(f, mm, m)
    <3> DEFINE F(x) == [k \in 0 .. m |-> IF k = 0 THEN PmmInit(mm) ELSE PmmAlloc(x[k - 1]).pmm]
    <3>1. f = F(f)
      BY <2>4
    <3>2. QED
      BY <3>1 DEF TakenAtBoot
  <2>6. QED
    BY <1>3, <2>5
<1>6. QED
    BY <1>4, <1>5

\* So does what takes n frames after it.
LEMMA AfterBootIs ==
    ASSUME NEW mm, WellFormedMemmap(mm), NEW n \in Nat
    PROVE  IsPmm(PmmAfter(mm, n))
<1> DEFINE F == CHOOSE f : TakenAtBoot(f, mm, n)
           S == {k \in 0 .. n : ~IsPmm(F[k])}
<1>1. PmmAfter(mm, n) = F[n]
    BY DEF PmmAfter, TakenAtBoot
<1>2. TakenAtBoot(F, mm, n)
    BY BootListExists
<1> HIDE DEF F
<1>3. \A k \in 0 .. n : F[k] = IF k = 0 THEN PmmInit(mm) ELSE PmmAlloc(F[k - 1]).pmm
    BY <1>2 DEF TakenAtBoot
<1>4. ASSUME S # {} PROVE FALSE
  <2>1. PICK m \in S : \A k \in S : m <= k
    <3>1. S \in SUBSET Nat
      OBVIOUS
    <3> HIDE DEF S
    <3>2. QED
      BY <1>4, <3>1, LeastNatural
  <2>2. m \in 0 .. n /\ ~IsPmm(F[m])
    BY <2>1
  <2>3. m # 0
    BY <1>3, <2>2, BootedIs
  <2>4. m - 1 \in 0 .. n /\ ~(m <= m - 1)
    BY <2>2, <2>3
  <2>5. IsPmm(F[m - 1])
    BY <2>1, <2>4
  <2>6. IsPmm(PmmAlloc(F[m - 1]).pmm)
    BY <2>5, AllocIs
  <2>7. QED
    BY <1>3, <2>2, <2>3, <2>6
<1>5. n \in 0 .. n
    OBVIOUS
<1>6. QED
    BY <1>1, <1>4, <1>5

-----------------------------------------------------------------------------
(* Where the blocks lie.                                                     *)

\* The frames in S have no gap between them.
Contiguous(S) == \A f, g \in S : \A e \in Int : f <= e /\ e <= g => e \in S

\* The byte at x is one of frame x \div PageSize.
LEMMA FrameOf ==
    ASSUME NEW x \in Nat
    PROVE  LET e == x \div PageSize
           IN  e \in Nat /\ e * PageSize <= x /\ x < e * PageSize + PageSize
                /\ x \in FrameBytes(e)
<1> DEFINE e == x \div PageSize
<1>1. PageSize \in Nat \ {0}
    BY PageAssumption
<1>2. e \in Nat /\ PageSize * e <= x /\ x < PageSize * e + PageSize
    BY <1>1
<1> HIDE DEF e
<1>3. PageSize * e = e * PageSize /\ e * PageSize \in Nat
    BY <1>1, <1>2
<1> DEFINE v == e * PageSize
<1>4. v \in Nat /\ v <= x /\ x < v + PageSize
    BY <1>2, <1>3
<1> HIDE DEF v
<1>5. x \in v .. v + PageSize - 1
    BY <1>1, <1>4
<1>6. QED
    BY <1>2, <1>4, <1>5 DEF FrameBytes, e, v

\* A byte between the start of frame f and the end of frame g.
LEMMA FrameBetween ==
    ASSUME NEW f \in Nat, NEW g \in Nat, NEW x \in Nat,
           f * PageSize <= x, x < g * PageSize + PageSize
    PROVE  f <= x \div PageSize /\ x \div PageSize <= g
<1> DEFINE e == x \div PageSize
           a == f * PageSize
           b == g * PageSize
           c == e * PageSize
<1>1. e \in Nat /\ c <= x /\ x < c + PageSize /\ PageSize \in Nat
    BY FrameOf, PageAssumption
<1> HIDE DEF e
<1>2. (e < f => c + PageSize <= a) /\ (g < e => b + PageSize <= c)
    BY <1>1, FrameOrder
<1>3. a \in Nat /\ b \in Nat /\ c \in Nat
    BY <1>1
<1>4. a <= x /\ x < b + PageSize
    OBVIOUS
<1> HIDE DEF a, b, c
<1>5. ~(e < f) /\ ~(g < e)
    BY <1>1, <1>2, <1>3, <1>4
<1>6. QED
    BY <1>1, <1>5 DEF e

AllBytes == UNION {FrameBytes(f) : f \in 0 .. MaxPhys \div PageSize}

\* A region is in the memory of the machine.
LEMMA RegionInSpace ==
    ASSUME NEW h, NEW p, NEW own, HeapFine(h, p, own), NEW g \in Regions(h.blocks)
    PROVE  RegionBytes(g) \subseteq AllBytes
<1> DEFINE b == h.blocks
           m == MaxPhys \div PageSize
<1>1. /\ b \in Seq(Block) /\ Bracketed(b, own) /\ own \subseteq Nat
      /\ own \subseteq FirstFrame .. p.total - 1 /\ p.total \in Nat
      /\ p.total * PageSize <= MaxPhys
    BY OwnNatural DEF HeapFine, ListFine, OwnLow, IsPmm
<1>2. PICK k \in UsedIn(b) : k \in DOMAIN b /\ RegionBytes(g) \subseteq Extent(b[k])
    BY <1>1, RegionInBlock
<1>3. PICK f \in own : End(b[k]) <= f * PageSize + PageSize
    BY <1>1, <1>2 DEF Bracketed
<1>4. f \in Nat /\ f < p.total
    BY <1>1, FirstFramePositive
<1>5. End(b[k]) <= MaxPhys
  <2> DEFINE v == f * PageSize + PageSize   w == p.total * PageSize
  <2>1. v <= w
    BY <1>1, <1>4, FrameOrder
  <2>2. v \in Nat /\ w \in Nat /\ MaxPhys \in Nat /\ End(b[k]) \in Nat
    BY <1>1, <1>2, <1>4, PageAssumption, BlockTyped, SMTT(30)
  <2>3. End(b[k]) <= v /\ w <= MaxPhys
    BY <1>1, <1>3
  <2> HIDE DEF v, w
  <2>4. QED
    BY <2>1, <2>2, <2>3
<1>6. ASSUME NEW x \in RegionBytes(g)
      PROVE  x \in AllBytes
  <2>1. b[k].addr \in Nat /\ b[k].size \in Nat /\ Hdr \in Nat /\ MaxPhys \in Nat
    BY <1>1, <1>2, BlockTyped, HeapAssumption, PageAssumption
  <2>2. x \in Nat /\ x < End(b[k]) /\ x < MaxPhys
    BY <1>2, <1>5, <2>1 DEF Extent, End
  <2>3. m \in Nat /\ MaxPhys < m * PageSize + PageSize
    BY <2>1, FrameOf
  <2>4. x < m * PageSize + PageSize /\ 0 * PageSize <= x
    <3> DEFINE v == m * PageSize + PageSize
    <3>1. v \in Nat /\ MaxPhys < v /\ 0 * PageSize = 0
      BY <2>3, PageAssumption
    <3> HIDE DEF v
    <3>2. x < v /\ 0 * PageSize <= x
      BY <2>1, <2>2, <3>1
    <3>3. QED
      BY <3>2 DEF v
  <2> DEFINE e == x \div PageSize
  <2> HIDE DEF m
  <2>5. e <= m /\ e \in Nat /\ x \in FrameBytes(e)
    BY <2>2, <2>3, <2>4, FrameBetween, FrameOf
  <2> HIDE DEF e
  <2>6. e \in 0 .. m
    BY <2>3, <2>5
  <2>7. QED
    BY <2>5, <2>6 DEF AllBytes, m
<1>7. QED
    BY <1>6

=============================================================================
