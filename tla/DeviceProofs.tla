---------------------------- MODULE DeviceProofs ----------------------------
(* The kernel log and the devices, for every size of theirs: dmesg_foreach   *)
(* prints the last characters logged since the last clear, in order; a name  *)
(* leads to the same device however many nodes are registered; and ram0 is a *)
(* block device of its size when vfs_init found storage for it, and an empty *)
(* one otherwise.                                                            *)
EXTENDS Dmesg, Vfs, HeapOpsProofs

\* Positions are at most one turn ahead of the ring.
LEMMA OneTurn ==
    ASSUME NEW n \in Nat \ {0}, NEW x \in 0 .. 2 * n - 1
    PROVE  x % n = IF x < n THEN x ELSE x - n
<1>1. CASE x < n
    BY <1>1
<1>2. CASE x >= n
  <2> DEFINE q == x \div n
             r == x % n
  <2>1. q \in Int /\ r \in 0 .. n - 1 /\ x = n * q + r
      OBVIOUS
  <2> HIDE DEF q, r
  <2>2. q > 0
      BY <1>2, <2>1
  <2>3. q < 2
      BY <1>2, <2>1
  <2>4. q = 1
      BY <2>1, <2>2, <2>3
  <2>5. r = x - n
      BY <2>1, <2>4
  <2>6. QED
      BY <1>2, <2>5 DEF r
<1>3. QED
    BY <1>1, <1>2

\* The write position moves on by one and stays in the ring.
LEMMA HeadMoves ==
    ASSUME IInv
    PROVE  (head + 1) % DMESG_BUF_SIZE
              = IF head + 1 < DMESG_BUF_SIZE THEN head + 1 ELSE 0
<1> DEFINE n == DMESG_BUF_SIZE
           x == head + 1
<1>1. n \in Nat \ {0} /\ x \in 0 .. 2 * n - 1 /\ x <= n
    BY DmesgAssumption DEF IInv, TypeOK
<1>2. x % n = IF x < n THEN x ELSE x - n
  <2> HIDE DEF n, x
  <2>1. QED
      BY <1>1, OneTurn
<1>3. QED
    BY <1>1, <1>2

-----------------------------------------------------------------------------
(* The recursions over digits have a solution, and only one.                 *)

\* F lists what the first i of the digits d amount to, for i up to n.
ValuesUpTo(F, d, base, n) ==
    F = [i \in 0 .. n |-> IF i = 0 THEN 0 ELSE base * F[i - 1] + d[i]]

\* There is such a list.
LEMMA ValuesExist ==
    ASSUME NEW d, NEW base, NEW n \in Nat
    PROVE  \E F : ValuesUpTo(F, d, base, n)
<1> DEFINE S == {i \in 0 .. n : \E F : ValuesUpTo(F, d, base, i)}
<1>1. 0 \in S
  <2> DEFINE F == [i \in 0 .. 0 |-> 0]
  <2>1. F = [i \in 0 .. 0 |-> IF i = 0 THEN 0 ELSE base * F[i - 1] + d[i]]
      OBVIOUS
  <2>2. ValuesUpTo(F, d, base, 0)
      BY <2>1 DEF ValuesUpTo
  <2>3. QED
      BY <2>2
<1>2. ASSUME NEW m \in 0 .. n - 1, m \in S PROVE m + 1 \in S
  <2>1. PICK G : ValuesUpTo(G, d, base, m)
      BY <1>2
  <2> DEFINE last == base * G[m] + d[m + 1]
             F == [i \in 0 .. m + 1 |-> IF i = m + 1 THEN last ELSE G[i]]
  <2>2. \A i \in 0 .. m : G[i] = IF i = 0 THEN 0 ELSE base * G[i - 1] + d[i]
      BY <2>1 DEF ValuesUpTo
  <2>3. ASSUME NEW i \in 0 .. m + 1
        PROVE  F[i] = IF i = 0 THEN 0 ELSE base * F[i - 1] + d[i]
    <3>1. CASE i = m + 1
      <4>1. i # 0 /\ i - 1 \in 0 .. m + 1 /\ i - 1 # m + 1 /\ i - 1 = m
          BY <3>1
      <4>2. QED
          BY <3>1, <4>1
    <3>2. CASE i # m + 1
      <4>1. i \in 0 .. m /\ (i # 0 => i - 1 \in 0 .. m + 1 /\ i - 1 # m + 1)
          BY <3>2
      <4>2. F[i] = G[i] /\ (i # 0 => F[i - 1] = G[i - 1])
          BY <3>2, <4>1
      <4> HIDE DEF F
      <4>3. QED
          BY <2>2, <4>1, <4>2
    <3>3. QED
        BY <3>1, <3>2
  <2>4. ValuesUpTo(F, d, base, m + 1)
    <3> DEFINE H(x) == [i \in 0 .. m + 1 |-> IF i = 0 THEN 0 ELSE base * x[i - 1] + d[i]]
    <3>1. F = H(F)
        BY <2>3
    <3>2. QED
        BY <3>1 DEF ValuesUpTo
  <2>5. QED
      BY <2>4
<1> HIDE DEF S
<1>3. \A i \in 0 .. n : i \in S
    BY <1>1, <1>2, UpTo
<1>4. QED
    BY <1>3 DEF S

\* The value of digits, from the list of the values of their beginnings.
LEMMA ValueOfIs ==
    ASSUME NEW d, NEW base, Len(d) \in Nat,
           NEW G, G[0] = 0, \A i \in 1 .. Len(d) : G[i] = base * G[i - 1] + d[i]
    PROVE  ValueOf(d, base) = G[Len(d)]
<1> DEFINE n == Len(d)
           F == CHOOSE f : ValuesUpTo(f, d, base, n)
<1>1. ValueOf(d, base) = F[n]
    BY DEF ValueOf, ValuesUpTo
<1>2. ValuesUpTo(F, d, base, n)
    BY ValuesExist
<1> HIDE DEF F, n
<1>3. \A i \in 0 .. n : F[i] = IF i = 0 THEN 0 ELSE base * F[i - 1] + d[i]
    BY <1>2 DEF ValuesUpTo
<1> DEFINE S == {i \in 0 .. n : F[i] = G[i]}
<1>4. n \in Nat
    BY DEF n
<1>5. 0 \in S
    BY <1>3, <1>4
<1>6. \A i \in 0 .. n - 1 : i \in S => i + 1 \in S
  <2> SUFFICES ASSUME NEW i \in 0 .. n - 1, i \in S PROVE i + 1 \in S
      OBVIOUS
  <2>1. i + 1 \in 0 .. n /\ i + 1 \in 1 .. n /\ i + 1 # 0 /\ (i + 1) - 1 = i
      BY <1>4
  <2>2. F[i + 1] = base * F[i] + d[i + 1] /\ G[i + 1] = base * G[i] + d[i + 1]
      BY <1>3, <2>1 DEF n
  <2>3. QED
      BY <2>1, <2>2
<1>7. n \in S
  <2> HIDE DEF S
  <2>1. \A i \in 0 .. n : i \in S
      BY <1>4, <1>5, <1>6, UpTo
  <2>2. QED
      BY <1>4, <2>1
<1>8. QED
    BY <1>1, <1>7 DEF n

\* No digits amount to 0; one more makes base times as much and the digit.
LEMMA ValueOfAppend ==
    ASSUME NEW base, NEW d \in Seq(Nat), NEW x \in Nat
    PROVE  /\ ValueOf(<<>>, base) = 0
           /\ ValueOf(Append(d, x), base) = base * ValueOf(d, base) + x
<1>1. ValueOf(<<>>, base) = 0
  <2> DEFINE G == [i \in 0 .. 0 |-> 0]
  <2>1. ValueOf(<<>>, base) = G[Len(<<>>)]
    <3>1. G[0] = 0 /\ Len(<<>>) = 0
        OBVIOUS
    <3>2. \A i \in 1 .. Len(<<>>) : G[i] = base * G[i - 1] + <<>>[i]
        OBVIOUS
    <3> HIDE DEF G
    <3>3. QED
        BY <3>1, <3>2, ValueOfIs
  <2>2. QED
      BY <2>1
<1>2. ValueOf(Append(d, x), base) = base * ValueOf(d, base) + x
  <2> DEFINE e == Append(d, x)
             n == Len(d)
  <2>1. n + 1 \in Nat
      OBVIOUS
  <2>2. PICK F : ValuesUpTo(F, e, base, n + 1)
      BY <2>1, ValuesExist
  <2>3. n \in Nat /\ Len(e) = n + 1 /\ e[n + 1] = x /\ \A i \in 1 .. n : e[i] = d[i]
      OBVIOUS
  <2> HIDE DEF e
  <2>4. \A i \in 0 .. n + 1 : F[i] = IF i = 0 THEN 0 ELSE base * F[i - 1] + e[i]
      BY <2>2 DEF ValuesUpTo
  <2>5. F[0] = 0 /\ \A i \in 1 .. n + 1 : F[i] = base * F[i - 1] + e[i]
      BY <2>3, <2>4
  <2>6. \A i \in 1 .. n : F[i] = base * F[i - 1] + d[i]
      BY <2>3, <2>5
  <2>7. F[n + 1] = base * F[n] + x
    <3>1. n + 1 \in 1 .. n + 1 /\ (n + 1) - 1 = n
        BY <2>3
    <3>2. QED
        BY <2>3, <2>5, <3>1
  <2>8. ValueOf(d, base) = F[n]
      BY <2>3, <2>5, <2>6, ValueOfIs
  <2>9. ValueOf(e, base) = F[n + 1]
      BY <2>3, <2>5, ValueOfIs
  <2>10. QED
      BY <2>7, <2>8, <2>9 DEF e
<1>3. QED
    BY <1>1, <1>2

-----------------------------------------------------------------------------
(* dmesg_int and dmesg_hex write what they are given.                        *)

\* F lists the digits of k, for k up to n.
DigitsUpTo(F, n) ==
    F = [k \in 0 .. n |-> IF k = 0 THEN <<>> ELSE Append(F[k \div Base], k % Base)]

\* A number without its last digit is smaller.
LEMMA DigitSplits ==
    ASSUME NEW b \in Nat \ {0, 1}, NEW k \in Nat
    PROVE  /\ k \div b \in 0 .. k /\ k % b \in 0 .. b - 1
           /\ k = b * (k \div b) + (k % b)
           /\ k # 0 => k \div b < k
<1> DEFINE q == k \div b
           r == k % b
<1>1. q \in Nat /\ r \in 0 .. b - 1 /\ k = b * q + r
    OBVIOUS
<1> HIDE DEF q, r
<1>2. b * q >= 2 * q
    BY <1>1
<1>3. b * q \in Nat
    BY <1>1
<1> DEFINE p == b * q
<1> HIDE DEF p
<1>4. q \in 0 .. k /\ (k # 0 => q < k)
    BY <1>1, <1>2, <1>3 DEF p
<1>5. QED
    BY <1>1, <1>4 DEF q, r

\* There is such a list.
LEMMA DigitsExist ==
    ASSUME NEW n \in Nat
    PROVE  \E F : DigitsUpTo(F, n)
<1> DEFINE S == {m \in 0 .. n : \E F : DigitsUpTo(F, m)}
<1>1. Base \in Nat \ {0, 1}
    BY NumbersAssumption
<1>2. 0 \in S
  <2> DEFINE F == [k \in 0 .. 0 |-> <<>>]
  <2>1. F = [k \in 0 .. 0 |-> IF k = 0 THEN <<>> ELSE Append(F[k \div Base], k % Base)]
      OBVIOUS
  <2>2. DigitsUpTo(F, 0)
      BY <2>1 DEF DigitsUpTo
  <2>3. QED
      BY <2>2
<1>3. ASSUME NEW m \in 0 .. n - 1, m \in S PROVE m + 1 \in S
  <2>1. PICK G : DigitsUpTo(G, m)
      BY <1>3
  <2> DEFINE last == Append(G[(m + 1) \div Base], (m + 1) % Base)
             F == [k \in 0 .. m + 1 |-> IF k = m + 1 THEN last ELSE G[k]]
  <2>2. \A k \in 0 .. m : G[k] = IF k = 0 THEN <<>> ELSE Append(G[k \div Base], k % Base)
      BY <2>1 DEF DigitsUpTo
  <2>3. ASSUME NEW k \in 0 .. m + 1
        PROVE  F[k] = IF k = 0 THEN <<>> ELSE Append(F[k \div Base], k % Base)
    <3>1. k \div Base \in 0 .. k /\ (k # 0 => k \div Base < k)
        BY <1>1, DigitSplits
    <3>2. k # 0 => k \div Base \in 0 .. m
        BY <3>1
    <3>3. k # 0 => F[k \div Base] = G[k \div Base]
        BY <3>2
    <3>4. CASE k = m + 1
      <4>1. F[k] = last /\ k # 0
          BY <3>4
      <4> HIDE DEF F
      <4>2. QED
          BY <3>3, <3>4, <4>1
    <3>5. CASE k # m + 1
      <4>1. k \in 0 .. m /\ F[k] = G[k]
          BY <3>5
      <4> HIDE DEF F
      <4>2. QED
          BY <2>2, <3>3, <4>1
    <3>6. QED
        BY <3>4, <3>5
  <2>4. DigitsUpTo(F, m + 1)
    <3> DEFINE H(x) == [k \in 0 .. m + 1 |->
                          IF k = 0 THEN <<>> ELSE Append(x[k \div Base], k % Base)]
    <3>1. F = H(F)
        BY <2>3
    <3>2. QED
        BY <3>1 DEF DigitsUpTo
  <2>5. m + 1 \in 0 .. n
      OBVIOUS
  <2>6. QED
      BY <2>4, <2>5
<1> HIDE DEF S
<1>4. \A m \in 0 .. n : m \in S
    BY <1>2, <1>3, UpTo
<1>5. QED
    BY <1>4 DEF S

\* Digits of a number: they amount to it, and the first of them is not 0.
Writes(d, k) ==
    /\ d \in Seq(Nat)
    /\ ValueOf(d, Base) = k
    /\ k # 0 => Len(d) > 0 /\ d[1] # 0

\* One more digit.
LEMMA WritesAppend ==
    ASSUME NEW k \in Nat \ {0}, NEW d, Writes(d, k \div Base), k \div Base = 0 => d = <<>>
    PROVE  Writes(Append(d, k % Base), k)
<1>1. Base \in Nat \ {0, 1}
    BY NumbersAssumption
<1> DEFINE q == k \div Base
           r == k % Base
<1>2. q \in Nat /\ r \in Nat /\ k = Base * q + r
    BY <1>1, DigitSplits
<1>3. q = 0 => r # 0
    BY <1>1, <1>2
<1> HIDE DEF q, r
<1>4. d \in Seq(Nat) /\ ValueOf(d, Base) = q /\ (q # 0 => Len(d) > 0 /\ d[1] # 0)
    BY DEF Writes, q
<1>5. ValueOf(Append(d, r), Base) = k
    BY <1>1, <1>2, <1>4, ValueOfAppend
<1>6. Append(d, r) \in Seq(Nat) /\ Len(Append(d, r)) > 0
    BY <1>2, <1>4
<1>7. Append(d, r)[1] # 0
  <2>1. CASE q = 0
    <3>1. d = <<>>
        BY <2>1 DEF q
    <3>2. QED
        BY <1>2, <1>3, <2>1, <3>1
  <2>2. CASE q # 0
      BY <1>2, <1>4, <2>2
  <2>3. QED
      BY <2>1, <2>2
<1>8. QED
    BY <1>5, <1>6, <1>7 DEF Writes, r

\* The digits dmesg_int writes amount to the number; only 0 begins with a 0.
LEMMA DecimalWrites ==
    ASSUME NEW n \in Nat
    PROVE  /\ Decimal(n) \in Seq(Nat) /\ Len(Decimal(n)) > 0
           /\ ValueOf(Decimal(n), Base) = n
           /\ Decimal(n)[1] = 0 => n = 0
<1>1. Base \in Nat \ {0, 1}
    BY NumbersAssumption
<1>2. CASE n = 0
  <2>1. Decimal(n) = <<0>> /\ <<0>> = Append(<<>>, 0)
      BY <1>2 DEF Decimal
  <2>2. <<>> \in Seq(Nat)
      OBVIOUS
  <2>3. ValueOf(Append(<<>>, 0), Base) = Base * 0 + 0
    <3>1. 0 \in Nat
        OBVIOUS
    <3>2. ValueOf(<<>>, Base) = 0
        BY <2>2, <3>1, ValueOfAppend
    <3>3. ValueOf(Append(<<>>, 0), Base) = Base * ValueOf(<<>>, Base) + 0
        BY <2>2, <3>1, ValueOfAppend
    <3>4. QED
        BY <3>2, <3>3
  <2>4. Base * 0 + 0 = 0
      BY <1>1
  <2>5. ValueOf(Decimal(n), Base) = n
      BY <1>2, <2>1, <2>3, <2>4
  <2>6. <<0>> \in Seq(Nat) /\ Len(<<0>>) > 0
      OBVIOUS
  <2>7. QED
      BY <1>2, <2>1, <2>5, <2>6
<1>3. CASE n # 0
  <2> DEFINE F == CHOOSE f : DigitsUpTo(f, n)
  <2>1. Decimal(n) = F[n]
      BY <1>3 DEF Decimal, DigitsUpTo
  <2>2. DigitsUpTo(F, n)
      BY DigitsExist
  <2> HIDE DEF F
  <2>3. \A k \in 0 .. n : F[k] = IF k = 0 THEN <<>> ELSE Append(F[k \div Base], k % Base)
      BY <2>2 DEF DigitsUpTo
  <2> DEFINE S == {m \in 0 .. n : \A k \in 0 .. m : Writes(F[k], k)}
  <2>4. F[0] = <<>>
      BY <2>3
  <2>5. Writes(F[0], 0)
    <3>1. <<>> \in Seq(Nat) /\ 0 \in Nat
        OBVIOUS
    <3>2. ValueOf(<<>>, Base) = 0
        BY <3>1, ValueOfAppend
    <3>3. QED
        BY <2>4, <3>1, <3>2 DEF Writes
  <2>6. 0 \in S
      BY <2>5
  <2>7. ASSUME NEW m \in 0 .. n - 1, m \in S PROVE m + 1 \in S
    <3>1. m + 1 \in Nat \ {0} /\ m + 1 \in 0 .. n
        OBVIOUS
    <3>2. (m + 1) \div Base \in 0 .. m
        BY <1>1, <3>1, DigitSplits
    <3>3. Writes(F[(m + 1) \div Base], (m + 1) \div Base)
        BY <2>7, <3>2
    <3>4. (m + 1) \div Base = 0 => F[(m + 1) \div Base] = <<>>
        BY <2>4
    <3>5. F[m + 1] = Append(F[(m + 1) \div Base], (m + 1) % Base)
        BY <2>3, <3>1
    <3>6. Writes(F[m + 1], m + 1)
        BY <3>1, <3>3, <3>4, <3>5, WritesAppend
    <3>7. \A k \in 0 .. m + 1 : k \in 0 .. m \/ k = m + 1
        OBVIOUS
    <3>8. QED
        BY <2>7, <3>1, <3>6, <3>7
  <2> HIDE DEF S
  <2>8. \A m \in 0 .. n : m \in S
      BY <2>6, <2>7, UpTo
  <2>9. n \in 0 .. n
      OBVIOUS
  <2>10. Writes(F[n], n)
      BY <2>8, <2>9 DEF S
  <2>11. QED
      BY <1>3, <2>1, <2>10 DEF Writes
<1>4. QED
    BY <1>2, <1>3

\* F lists n without its last k places, for k up to m.
RestsUpTo(F, n, m) ==
    F = [k \in 0 .. m |-> IF k = 0 THEN n ELSE F[k - 1] \div HexBase]

\* There is such a list.
LEMMA RestsExist ==
    ASSUME NEW n, NEW m \in Nat
    PROVE  \E F : RestsUpTo(F, n, m)
<1> DEFINE S == {i \in 0 .. m : \E F : RestsUpTo(F, n, i)}
<1>1. 0 \in S
  <2> DEFINE F == [k \in 0 .. 0 |-> n]
  <2>1. F = [k \in 0 .. 0 |-> IF k = 0 THEN n ELSE F[k - 1] \div HexBase]
      OBVIOUS
  <2>2. RestsUpTo(F, n, 0)
      BY <2>1 DEF RestsUpTo
  <2>3. QED
      BY <2>2
<1>2. ASSUME NEW i \in 0 .. m - 1, i \in S PROVE i + 1 \in S
  <2>1. PICK G : RestsUpTo(G, n, i)
      BY <1>2
  <2> DEFINE last == G[i] \div HexBase
             F == [k \in 0 .. i + 1 |-> IF k = i + 1 THEN last ELSE G[k]]
  <2>2. \A k \in 0 .. i : G[k] = IF k = 0 THEN n ELSE G[k - 1] \div HexBase
      BY <2>1 DEF RestsUpTo
  <2>3. ASSUME NEW k \in 0 .. i + 1
        PROVE  F[k] = IF k = 0 THEN n ELSE F[k - 1] \div HexBase
    <3>1. CASE k = i + 1
      <4>1. k # 0 /\ k - 1 \in 0 .. i + 1 /\ k - 1 # i + 1 /\ k - 1 = i
          BY <3>1
      <4>2. QED
          BY <3>1, <4>1
    <3>2. CASE k # i + 1
      <4>1. k \in 0 .. i /\ (k # 0 => k - 1 \in 0 .. i + 1 /\ k - 1 # i + 1)
          BY <3>2
      <4>2. F[k] = G[k] /\ (k # 0 => F[k - 1] = G[k - 1])
          BY <3>2, <4>1
      <4> HIDE DEF F
      <4>3. QED
          BY <2>2, <4>1, <4>2
    <3>3. QED
        BY <3>1, <3>2
  <2>4. RestsUpTo(F, n, i + 1)
    <3> DEFINE H(x) == [k \in 0 .. i + 1 |-> IF k = 0 THEN n ELSE x[k - 1] \div HexBase]
    <3>1. F = H(F)
        BY <2>3
    <3>2. QED
        BY <3>1 DEF RestsUpTo
  <2>5. QED
      BY <2>4
<1> HIDE DEF S
<1>3. \A i \in 0 .. m : i \in S
    BY <1>1, <1>2, UpTo
<1>4. QED
    BY <1>3 DEF S

\* One place more is one division more.
LEMMA ShiftedIs ==
    ASSUME NEW n \in Nat
    PROVE  /\ \A k \in 0 .. HexWidth : Shifted(n, k) \in Nat
           /\ Shifted(n, 0) = n
           /\ \A k \in 1 .. HexWidth : Shifted(n, k) = Shifted(n, k - 1) \div HexBase
<1> DEFINE F == CHOOSE f : RestsUpTo(f, n, HexWidth)
<1>1. \A k : Shifted(n, k) = F[k]
    BY DEF Shifted, RestsUpTo
<1>2. HexBase \in Nat \ {0, 1} /\ HexWidth \in Nat
    BY NumbersAssumption
<1>3. RestsUpTo(F, n, HexWidth)
    BY <1>2, RestsExist
<1> HIDE DEF F
<1>4. \A k \in 0 .. HexWidth : F[k] = IF k = 0 THEN n ELSE F[k - 1] \div HexBase
    BY <1>3 DEF RestsUpTo
<1>5. F[0] = n /\ \A k \in 1 .. HexWidth : F[k] = F[k - 1] \div HexBase
    BY <1>2, <1>4
<1> DEFINE S == {k \in 0 .. HexWidth : F[k] \in Nat}
<1>6. 0 \in S
    BY <1>2, <1>5
<1>7. ASSUME NEW k \in 0 .. HexWidth - 1, k \in S PROVE k + 1 \in S
  <2>1. k + 1 \in 1 .. HexWidth /\ k + 1 \in 0 .. HexWidth /\ (k + 1) - 1 = k
      BY <1>2
  <2>2. F[k + 1] = F[k] \div HexBase
      BY <1>5, <2>1
  <2>3. F[k] \div HexBase \in Nat
      BY <1>2, <1>7
  <2>4. QED
      BY <2>1, <2>2, <2>3
<1> HIDE DEF S
<1>8. \A k \in 0 .. HexWidth : k \in S
    BY <1>2, <1>6, <1>7, UpTo
<1>9. QED
    BY <1>1, <1>5, <1>8 DEF S

\* The digits dmesg_hex writes after 0x.
HexDigits(n) == [i \in 1 .. HexWidth |-> Shifted(n, HexWidth - i) % HexBase]

\* They amount to the number.
LEMMA HexWrites ==
    ASSUME NEW n \in Words
    PROVE  /\ HexDigits(n) \in Seq(Nat) /\ Len(HexDigits(n)) = HexWidth
           /\ ValueOf(HexDigits(n), HexBase) = n
<1> DEFINE d == HexDigits(n)
           G == [i \in 0 .. HexWidth |-> Shifted(n, HexWidth - i)]
<1>1. /\ HexBase \in Nat \ {0, 1} /\ HexWidth \in Nat /\ n \in Nat
      /\ Shifted(n, HexWidth) = 0
    BY NumbersAssumption
<1>2. /\ \A k \in 0 .. HexWidth : Shifted(n, k) \in Nat
      /\ Shifted(n, 0) = n
      /\ \A k \in 1 .. HexWidth : Shifted(n, k) = Shifted(n, k - 1) \div HexBase
    BY <1>1, ShiftedIs
<1>3. \A i \in 1 .. HexWidth : d[i] = Shifted(n, HexWidth - i) % HexBase /\ d[i] \in Nat
    BY <1>1, <1>2 DEF HexDigits
<1>4. d \in Seq(Nat) /\ Len(d) = HexWidth
    BY <1>1, <1>3 DEF HexDigits
<1>5. G[0] = 0 /\ G[HexWidth] = n
    BY <1>1, <1>2
<1>6. ASSUME NEW i \in 1 .. HexWidth
      PROVE  G[i] = HexBase * G[i - 1] + d[i]
  <2> DEFINE s == Shifted(n, HexWidth - i)
  <2>1. HexWidth - i \in 0 .. HexWidth /\ HexWidth - i + 1 \in 1 .. HexWidth
        /\ HexWidth - (i - 1) = HexWidth - i + 1 /\ (HexWidth - i + 1) - 1 = HexWidth - i
        /\ i - 1 \in 0 .. HexWidth /\ i \in 0 .. HexWidth
      BY <1>1
  <2>2. G[i] = s /\ G[i - 1] = Shifted(n, HexWidth - i + 1)
      BY <2>1
  <2>3. Shifted(n, HexWidth - i + 1) = s \div HexBase /\ s \in Nat
      BY <1>2, <2>1
  <2>4. d[i] = s % HexBase
      BY <1>3
  <2> HIDE DEF s, d, G
  <2>5. s = HexBase * (s \div HexBase) + (s % HexBase)
      BY <1>1, <2>3, DigitSplits
  <2>6. QED
      BY <2>2, <2>3, <2>4, <2>5
<1> HIDE DEF d, G
<1>7. ValueOf(d, HexBase) = G[Len(d)]
  <2>1. G[0] = 0 /\ Len(d) \in Nat
      BY <1>1, <1>4, <1>5
  <2>2. \A i \in 1 .. Len(d) : G[i] = HexBase * G[i - 1] + d[i]
      BY <1>4, <1>6
  <2>3. QED
      BY <2>1, <2>2, ValueOfIs
<1>8. QED
    BY <1>4, <1>5, <1>7 DEF d

-----------------------------------------------------------------------------
(* The invariant.                                                            *)

\* The log starts empty.
LEMMA InitIInv == Init => IInv
BY DmesgAssumption DEF Init, IInv, TypeOK, RingFilled, NoCall

\* A call to print keeps the invariant.
LEMMA BeginIInv ==
    ASSUME IInv, NEW kind, NEW arg, NEW text \in Seq(Char), Begin(kind, arg, text)
    PROVE  IInv'
BY DEF IInv, TypeOK, RingFilled, Begin

\* A character put into the ring keeps it.
LEMMA PutcIInv ==
    ASSUME IInv, Putc
    PROVE  IInv'
<1>1. Head(todo) \in Char /\ Tail(todo) \in Seq(Char)
    BY DEF IInv, TypeOK, Putc
<1>2. TypeOK'
  <2>1. (buf \in [0 .. DMESG_BUF_SIZE - 1 -> Char])'
      BY <1>1 DEF IInv, TypeOK, Putc
  <2>2. (head \in 0 .. DMESG_BUF_SIZE - 1)'
      BY HeadMoves, DmesgAssumption DEF IInv, TypeOK, Putc
  <2>3. QED
      BY <1>1, <2>1, <2>2, DmesgAssumption DEF IInv, TypeOK, Putc
<1>3. RingFilled'
    BY HeadMoves, DmesgAssumption DEF IInv, TypeOK, RingFilled, Putc
<1>4. QED
    BY <1>2, <1>3 DEF IInv

\* The end of a call keeps it.
LEMMA ReturnIInv ==
    ASSUME IInv, Return
    PROVE  IInv'
<1>1. (seq + 1) % SeqMod \in 0 .. SeqMod - 1
    BY DmesgAssumption DEF IInv, TypeOK
<1>2. QED
    BY <1>1 DEF IInv, TypeOK, RingFilled, Return

\* dmesg_clear keeps it.
LEMMA ClearIInv ==
    ASSUME IInv, Clear
    PROVE  IInv'
BY DmesgAssumption DEF IInv, TypeOK, RingFilled, Clear, NoCall

\* Every step keeps it.
LEMMA NextIInv == IInv /\ [Next]_vars => IInv'
<1> SUFFICES ASSUME IInv, [Next]_vars PROVE IInv'
    OBVIOUS
<1>1. ASSUME NEW msg \in Messages, Log(msg) PROVE IInv'
    BY <1>1, BeginIInv, DmesgAssumption DEF Log
<1>2. ASSUME NEW n \in Numbers, LogInt(n) PROVE IInv'
    BY <1>2, BeginIInv, DmesgAssumption DEF LogInt
<1>3. ASSUME NEW n \in Words, LogHex(n) PROVE IInv'
    BY <1>3, BeginIInv, DmesgAssumption DEF LogHex
<1>4. CASE UNCHANGED vars
    BY <1>4 DEF IInv, TypeOK, RingFilled, vars
<1>5. QED
    BY <1>1, <1>2, <1>3, <1>4, PutcIInv, ReturnIInv, ClearIInv DEF Next

\* The ring, its write position and its count keep their ranges, and a ring
\* that is not full is filled from 0 to the write position.
THEOREM DmesgInvariant == Spec => []IInv
BY InitIInv, NextIInv, PTL DEF Spec

\* The statics of dmesg.c keep their ranges.
THEOREM DmesgTypeCorrect == Spec => []TypeOK
<1>1. IInv => TypeOK
    BY DEF IInv
<1>2. QED
    BY <1>1, DmesgInvariant, PTL

\* dmesg_foreach may start at 0 unless the ring is full.
THEOREM DmesgRingFilled == Spec => []RingFilled
<1>1. IInv => RingFilled
    BY DEF IInv
<1>2. QED
    BY <1>1, DmesgInvariant, PTL

-----------------------------------------------------------------------------
(* dmesg_foreach shows the tail of the log.                                  *)

\* The characters shown, with the wrap worked out.
LEMMA ShownIs ==
    IInv => Shown = [i \in 1 .. count |->
                      IF count < DMESG_BUF_SIZE
                      THEN buf[i - 1]
                      ELSE IF head + i - 1 < DMESG_BUF_SIZE
                           THEN buf[head + i - 1]
                           ELSE buf[head + i - 1 - DMESG_BUF_SIZE]]
<1>1. ASSUME NEW i \in 1 .. DMESG_BUF_SIZE, NEW s \in 0 .. DMESG_BUF_SIZE - 1
      PROVE  (s + i - 1) % DMESG_BUF_SIZE
                = IF s + i - 1 < DMESG_BUF_SIZE
                  THEN s + i - 1 ELSE s + i - 1 - DMESG_BUF_SIZE
  <2> DEFINE n == DMESG_BUF_SIZE
             x == s + i - 1
  <2>1. n \in Nat \ {0} /\ x \in 0 .. 2 * n - 1
      BY <1>1, DmesgAssumption
  <2>2. x % n = IF x < n THEN x ELSE x - n
    <3> HIDE DEF n, x
    <3>1. QED
        BY <2>1, OneTurn
  <2>3. QED
      BY <1>1, <2>1, <2>2, DmesgAssumption
<1>2. QED
    BY <1>1, DmesgAssumption DEF IInv, TypeOK, Shown

\* dmesg_foreach shows as many characters as the ring counts.
LEMMA ShownIsSeq == IInv => Shown \in Seq(Char) /\ Len(Shown) = count
<1> SUFFICES ASSUME IInv PROVE Shown \in Seq(Char) /\ Len(Shown) = count
    OBVIOUS
<1>1. \A i \in 1 .. count :
        (IF count < DMESG_BUF_SIZE
         THEN buf[i - 1]
         ELSE IF head + i - 1 < DMESG_BUF_SIZE
              THEN buf[head + i - 1]
              ELSE buf[head + i - 1 - DMESG_BUF_SIZE]) \in Char
    BY DmesgAssumption DEF IInv, TypeOK
<1>2. Shown \in [1 .. count -> Char] /\ count \in Nat
    BY <1>1, ShownIs, DmesgAssumption DEF IInv, TypeOK
<1>3. QED
    BY <1>2

\* A character put into the ring is put at the end of what is shown.
LEMMA PutcPuts ==
    ASSUME IInv, Putc
    PROVE  Abstract!Put(Head(todo))
<1> DEFINE c == Head(todo)
           N == DMESG_BUF_SIZE
<1>1. N \in Nat \ {0} /\ c \in Char /\ IInv'
    BY PutcIInv, DmesgAssumption DEF IInv, TypeOK, Putc
<1>2. /\ Shown \in Seq(Char) /\ Len(Shown) = count
      /\ Shown' \in Seq(Char) /\ Len(Shown') = count'
  <2>1. (IInv => Shown \in Seq(Char) /\ Len(Shown) = count)'
      BY ShownIsSeq, PTL
  <2>2. QED
      BY <1>1, <2>1, ShownIsSeq
<1>3. Shown' = [i \in 1 .. count' |->
                  IF count' < N THEN buf'[i - 1]
                  ELSE IF head' + i - 1 < N
                       THEN buf'[head' + i - 1]
                       ELSE buf'[head' + i - 1 - N]]
  <2>1. (IInv => Shown = [i \in 1 .. count |->
                          IF count < N THEN buf[i - 1]
                          ELSE IF head + i - 1 < N
                               THEN buf[head + i - 1]
                               ELSE buf[head + i - 1 - N]])'
      BY ShownIs, PTL
  <2>2. QED
      BY <1>1, <2>1
<1>4. CASE count < N
  <2>1. /\ head = count /\ count' = count + 1 /\ count \in Nat
        /\ head' = IF count + 1 < N THEN count + 1 ELSE 0
        /\ \A k \in 0 .. N - 1 : buf'[k] = IF k = count THEN c ELSE buf[k]
      BY <1>1, <1>4, HeadMoves DEF IInv, TypeOK, RingFilled, Putc
  <2>2. \A i \in 1 .. count + 1 : Shown'[i] = IF i = count + 1 THEN c ELSE buf[i - 1]
      BY <1>1, <1>3, <1>4, <2>1
  <2>3. \A i \in 1 .. count : Shown[i] = buf[i - 1]
      BY <1>4, ShownIs DEF IInv, TypeOK
  <2>4. Shown' = Append(Shown, c)
    <3> HIDE DEF c
    <3>1. QED
      BY <1>1, <1>2, <2>1, <2>2, <2>3
  <2>5. QED
      BY <1>2, <1>4, <2>4 DEF Abstract!Put
<1>5. CASE count = N
  <2>1. /\ count' = N /\ head \in 0 .. N - 1
        /\ head' = IF head + 1 < N THEN head + 1 ELSE 0
        /\ \A k \in 0 .. N - 1 : buf'[k] = IF k = head THEN c ELSE buf[k]
      BY <1>1, <1>5, HeadMoves DEF IInv, TypeOK, Putc
  <2>2. \A i \in 1 .. N :
           Shown[i] = IF head + i - 1 < N THEN buf[head + i - 1] ELSE buf[head + i - 1 - N]
      BY <1>1, <1>5, ShownIs
  <2>3. ASSUME NEW i \in 1 .. N
        PROVE  Shown'[i] = IF i = N THEN c ELSE Shown[i + 1]
    <3> HIDE DEF c
    <3>1. Shown'[i] = IF head' + i - 1 < N THEN buf'[head' + i - 1]
                                           ELSE buf'[head' + i - 1 - N]
        BY <1>1, <1>3, <2>1
    <3>2. CASE i = N
        BY <1>1, <2>1, <3>1, <3>2
    <3>3. CASE i # N
      <4>1. i + 1 \in 1 .. N
          BY <1>1, <3>3
      <4>2. Shown[i + 1] = IF head + i < N THEN buf[head + i] ELSE buf[head + i - N]
          BY <1>1, <2>1, <2>2, <4>1
      <4>3. CASE head + 1 < N
          BY <1>1, <2>1, <3>1, <3>3, <4>2, <4>3
      <4>4. CASE head + 1 = N
          BY <1>1, <2>1, <3>1, <3>3, <4>2, <4>4
      <4>5. QED
          BY <1>1, <2>1, <4>3, <4>4
    <3>4. QED
        BY <3>2, <3>3
  <2>4. Shown' = Append(SubSeq(Shown, 2, Len(Shown)), c)
    <3> HIDE DEF c
    <3>1. SubSeq(Shown, 2, N) \in Seq(Char) /\ Len(SubSeq(Shown, 2, N)) = N - 1
        BY <1>1, <1>2, <1>5
    <3>2. \A i \in 1 .. N - 1 : SubSeq(Shown, 2, N)[i] = Shown[i + 1]
        BY <1>1, <1>2, <1>5
    <3> DEFINE t == SubSeq(Shown, 2, N)
               w == Append(t, c)
               v == Shown'
    <3>3. /\ N \in Nat \ {0} /\ c \in Char /\ Len(Shown) = N /\ v \in Seq(Char) /\ Len(v) = N
          /\ \A i \in 1 .. N : v[i] = IF i = N THEN c ELSE Shown[i + 1]
        BY <1>1, <1>2, <1>5, <2>1, <2>3
    <3>4. t \in Seq(Char) /\ Len(t) = N - 1 /\ \A i \in 1 .. N - 1 : t[i] = Shown[i + 1]
        BY <3>1, <3>2
    <3> HIDE DEF t, v, N
    <3>5. /\ w \in Seq(Char) /\ Len(w) = Len(t) + 1
          /\ \A i \in 1 .. Len(t) : w[i] = t[i]
          /\ w[Len(t) + 1] = c
        BY <3>3, <3>4, AppendProperties
    <3> HIDE DEF w
    <3>6. Len(w) = N /\ \A i \in 1 .. N : w[i] = v[i]
        BY <3>3, <3>4, <3>5
    <3>7. w = v
        BY <3>3, <3>5, <3>6, SeqEqual
    <3>8. QED
        BY <3>3, <3>7 DEF t, w, v
  <2>5. QED
      BY <1>2, <1>5, <2>4 DEF Abstract!Put
<1>6. QED
    BY <1>1, <1>4, <1>5 DEF IInv, TypeOK

\* What dmesg prints is the log, for a ring of any size: every character put
\* is shown after those before it, and only the oldest is ever lost.
THEOREM DmesgRefinesLogTail == Spec => ImplementsLogTail
<1>1. Init => Abstract!Init
    BY DmesgAssumption DEF Init, Abstract!Init, Shown
<1>2. IInv /\ [Next]_vars => [Abstract!Next]_Shown
  <2> SUFFICES ASSUME IInv, [Next]_vars PROVE [Abstract!Next]_Shown
      OBVIOUS
  <2>1. CASE Putc
    <3>1. Head(todo) \in Char
        BY <2>1 DEF IInv, TypeOK, Putc
    <3>2. QED
        BY <2>1, <3>1, PutcPuts DEF Abstract!Next
  <2>2. CASE Clear
    <3>1. Shown' = <<>>
        BY <2>2, DmesgAssumption DEF Clear, Shown
    <3>2. QED
        BY <3>1 DEF Abstract!Next, Abstract!Clear
  <2>3. CASE UNCHANGED <<buf, head, count>>
      BY <2>3 DEF Shown
  <2>4. QED
      BY <2>1, <2>2, <2>3 DEF Next, Log, LogInt, LogHex, Begin, Return, vars
<1>3. QED
    BY <1>1, <1>2, DmesgInvariant, PTL DEF Spec, ImplementsLogTail, Abstract!Spec

-----------------------------------------------------------------------------
(* A number that was logged reads back.                                      *)

\* What a call for a number writes.
Text == IF call.kind = "int" THEN Decimal(call.arg) ELSE Hex(call.arg)

\* Of the text of a number the end is still to be put, and the beginning is the
\* end of what is shown.
TextFollowed ==
    LET put == Len(Text) - Len(todo)
    IN  /\ Text \in Seq(Char) /\ Len(Text) <= DMESG_BUF_SIZE
        /\ put \in Nat /\ put <= Len(Shown)
        /\ \A j \in 1 .. Len(todo) : todo[j] = Text[put + j]
        /\ \A j \in 1 .. put : Shown[Len(Shown) - put + j] = Text[j]

NumberLogged ==
    /\ call.kind = "int" => call.arg \in Numbers
    /\ call.kind = "hex" => call.arg \in Words
    /\ call.kind \in {"int", "hex"} => TextFollowed

\* A call for a number has all of its text to put.
LEMMA NumberBegins ==
    ASSUME IInv, NEW kind \in {"int", "hex"}, NEW arg, NEW text \in Seq(Char),
           Len(text) <= DMESG_BUF_SIZE,
           text = IF kind = "int" THEN Decimal(arg) ELSE Hex(arg),
           Begin(kind, arg, text)
    PROVE  TextFollowed'
<1>1. todo' = text /\ Text' = text /\ Shown' = Shown
    BY DEF Begin, Text, Shown
<1>2. Len(Shown) \in Nat
    BY ShownIsSeq
<1>3. Len(text) - Len(text) = 0 /\ \A j \in 1 .. Len(text) : text[j] = text[0 + j]
    OBVIOUS
<1>4. QED
    BY <1>1, <1>2, <1>3 DEF TextFollowed

\* A character put moves from the one to the other.
LEMMA NumberPut ==
    ASSUME IInv, Putc, TextFollowed
    PROVE  TextFollowed'
<1> DEFINE put == Len(Text) - Len(todo)
           c == Head(todo)
           m == Len(Shown)
           N == DMESG_BUF_SIZE
<1>1. /\ todo \in Seq(Char) /\ todo # <<>> /\ todo' = Tail(todo) /\ Text' = Text
      /\ N \in Nat \ {0} /\ IInv'
    BY PutcIInv, DmesgAssumption DEF IInv, TypeOK, Putc, Text
<1>2. /\ Text \in Seq(Char) /\ Len(Text) <= N
      /\ put \in Nat /\ put <= m
      /\ \A j \in 1 .. Len(todo) : todo[j] = Text[put + j]
      /\ \A j \in 1 .. put : Shown[m - put + j] = Text[j]
    BY DEF TextFollowed
<1>3. /\ Len(todo') = Len(todo) - 1 /\ Len(todo) \in Nat \ {0} /\ Len(Text) \in Nat
      /\ \A j \in 1 .. Len(todo') : todo'[j] = todo[j + 1]
      /\ c = todo[1] /\ c \in Char
    BY <1>1, <1>2
<1>4. Len(Text) - Len(todo') = put + 1 /\ put + 1 <= N
  <2> DEFINE a == Len(Text)   b == Len(todo)   e == Len(todo')
  <2>1. a \in Nat /\ b \in Nat \ {0} /\ e = b - 1 /\ a <= N /\ N \in Nat
      BY <1>1, <1>2, <1>3
  <2> HIDE DEF a, b, e, N
  <2>2. a - e = (a - b) + 1 /\ (a - b) + 1 <= N
      BY <2>1
  <2>3. QED
      BY <2>2 DEF a, b, e
<1>5. \A j \in 1 .. Len(todo') : todo'[j] = Text[(put + 1) + j]
  <2> SUFFICES ASSUME NEW j \in 1 .. Len(todo') PROVE todo'[j] = Text[(put + 1) + j]
      OBVIOUS
  <2>1. j + 1 \in 1 .. Len(todo) /\ put + (j + 1) = (put + 1) + j
      BY <1>2, <1>3
  <2>2. QED
      BY <1>2, <1>3, <2>1
<1>6. c = Text[put + 1]
    BY <1>2, <1>3
<1>7. Shown \in Seq(Char) /\ m \in Nat /\ m <= N
    BY ShownIsSeq DEF IInv, TypeOK
<1>8. Shown' = IF m < N THEN Append(Shown, c) ELSE Append(SubSeq(Shown, 2, m), c)
    BY PutcPuts DEF Abstract!Put
<1> DEFINE k == Len(Shown')
<1> HIDE DEF c
<1>9. /\ k \in Nat /\ put + 1 <= k /\ Shown'[k] = c
      /\ \A j \in 1 .. put : Shown'[k - (put + 1) + j] = Shown[m - put + j]
  <2> HIDE DEF put
  <2>1. CASE m < N
    <3>1. k = m + 1 /\ Shown'[m + 1] = c /\ \A i \in 1 .. m : Shown'[i] = Shown[i]
        BY <1>3, <1>7, <1>8, <2>1
    <3> HIDE DEF k
    <3>2. ASSUME NEW j \in 1 .. put
          PROVE  Shown'[k - (put + 1) + j] = Shown[m - put + j]
      <4>1. m - put + j \in 1 .. m /\ k - (put + 1) + j = m - put + j
          BY <1>2, <1>7, <3>1
      <4>2. QED
          BY <3>1, <4>1
    <3>3. k \in Nat /\ put + 1 <= k /\ Shown'[k] = c
        BY <1>2, <1>7, <3>1
    <3>4. QED
        BY <3>2, <3>3
  <2>2. CASE ~(m < N)
    <3>1. m = N
        BY <1>1, <1>7, <2>2
    <3> DEFINE s == SubSeq(Shown, 2, m)
    <3>2. s \in Seq(Char) /\ Len(s) = m - 1 /\ \A i \in 1 .. m - 1 : s[i] = Shown[i + 1]
        BY <1>1, <1>7, <3>1
    <3>3. Shown' = Append(s, c)
        BY <1>8, <2>2
    <3> HIDE DEF s
    <3>4. k = m /\ Shown'[m] = c /\ \A i \in 1 .. m - 1 : Shown'[i] = s[i]
        BY <1>1, <1>3, <3>1, <3>2, <3>3
    <3> HIDE DEF k
    <3>5. ASSUME NEW j \in 1 .. put
          PROVE  Shown'[k - (put + 1) + j] = Shown[m - put + j]
      <4>1. /\ m - put + j - 1 \in 1 .. m - 1
            /\ k - (put + 1) + j = m - put + j - 1
            /\ (m - put + j - 1) + 1 = m - put + j
          BY <1>2, <1>4, <1>7, <3>1, <3>4
      <4>2. QED
          BY <3>2, <3>4, <4>1
    <3>6. QED
        BY <1>4, <1>7, <3>1, <3>4, <3>5
  <2>3. QED
      BY <2>1, <2>2
<1>10. \A j \in 1 .. put + 1 : Shown'[k - (put + 1) + j] = Text[j]
  <2> SUFFICES ASSUME NEW j \in 1 .. put + 1 PROVE Shown'[k - (put + 1) + j] = Text[j]
      OBVIOUS
  <2>1. CASE j = put + 1
    <3>1. k - (put + 1) + j = k
        BY <1>2, <1>9, <2>1
    <3>2. QED
        BY <1>6, <1>9, <2>1, <3>1
  <2>2. CASE j # put + 1
    <3>1. j \in 1 .. put
        BY <1>2, <2>2
    <3>2. QED
        BY <1>2, <1>9, <3>1
  <2>3. QED
      BY <2>1, <2>2
<1>11. (Len(Text) - Len(todo))' = put + 1
    BY <1>1, <1>4
<1>12. put \in Nat
    BY <1>2
<1> HIDE DEF put, k
<1>13. put + 1 \in Nat /\ put + 1 <= Len(Shown')
    BY <1>9, <1>12 DEF k
<1>14. \A j \in 1 .. put + 1 : Shown'[Len(Shown') - (put + 1) + j] = Text[j]
    BY <1>10 DEF k
<1>15. QED
    BY <1>1, <1>2, <1>5, <1>11, <1>13, <1>14 DEF TextFollowed

\* Where the second of two sequences is in the both of them.
LEMMA Behind ==
    ASSUME NEW A, NEW s \in Seq(A), NEW t \in Seq(A)
    PROVE  /\ Len(s \o t) = Len(s) + Len(t)
           /\ \A j \in 1 .. Len(t) : (s \o t)[Len(s) + j] = t[j]
OBVIOUS

\* Every step keeps it.
LEMMA NumberStep ==
    ASSUME IInv, NumberLogged, [Next]_vars
    PROVE  NumberLogged'
<1>1. ASSUME NEW msg \in Messages, Log(msg) PROVE NumberLogged'
    BY <1>1 DEF Log, Begin, NumberLogged
<1>2. ASSUME NEW n \in Numbers, LogInt(n) PROVE NumberLogged'
  <2>1. Begin("int", n, Decimal(n)) /\ call'.kind = "int" /\ call'.arg = n
      BY <1>2 DEF LogInt, Begin
  <2>2. Decimal(n) \in Seq(Char) /\ Len(Decimal(n)) <= DMESG_BUF_SIZE
      BY DmesgAssumption, NumbersAssumption
  <2>3. TextFollowed'
      BY <2>1, <2>2, NumberBegins
  <2>4. QED
      BY <2>1, <2>3 DEF NumberLogged
<1>3. ASSUME NEW n \in Words, LogHex(n) PROVE NumberLogged'
  <2>1. Begin("hex", n, Hex(n)) /\ call'.kind = "hex" /\ call'.arg = n
      BY <1>3 DEF LogHex, Begin
  <2>2. Hex(n) \in Seq(Char) /\ Len(Hex(n)) <= DMESG_BUF_SIZE
    <3>1. Hex(n) = <<0, Ex>> \o HexDigits(n)
        BY DEF Hex, HexDigits
    <3>2. HexDigits(n) \in Seq(Nat) /\ Len(HexDigits(n)) = HexWidth
        BY HexWrites
    <3> DEFINE d == HexDigits(n)
               x == <<0, Ex>>
    <3> DEFINE A == Nat \cup {Ex}
    <3>3. x \in Seq(A) /\ Len(x) = 2
        OBVIOUS
    <3>4. d \in Seq(A)
        BY <3>2
    <3> HIDE DEF d, x, A
    <3>5. Len(x \o d) = 2 + Len(d)
      <4>1. Len(x \o d) = Len(x) + Len(d)
          BY <3>3, <3>4, Behind, Zenon
      <4>2. QED
          BY <3>3, <4>1
    <3>6. Len(Hex(n)) = HexWidth + 2
        BY <3>1, <3>2, <3>5, NumbersAssumption DEF d, x
    <3>7. QED
        BY <3>6, DmesgAssumption, NumbersAssumption
  <2>3. TextFollowed'
      BY <2>1, <2>2, NumberBegins
  <2>4. QED
      BY <2>1, <2>3 DEF NumberLogged
<1>4. CASE Putc
  <2>1. call' = call
      BY <1>4 DEF Putc
  <2>2. QED
      BY <1>4, <2>1, NumberPut DEF NumberLogged
<1>5. CASE Return
  <2>1. /\ call'.kind = call.kind /\ call'.arg = call.arg /\ todo' = todo
        /\ Shown' = Shown /\ Text' = Text
      BY <1>5 DEF Return, Shown, Text
  <2>2. QED
      BY <2>1 DEF NumberLogged, TextFollowed
<1>6. CASE Clear
    BY <1>6 DEF Clear, NoCall, NumberLogged
<1>7. CASE UNCHANGED vars
  <2>1. call' = call /\ todo' = todo /\ Shown' = Shown /\ Text' = Text
      BY <1>7 DEF vars, Shown, Text
  <2>2. QED
      BY <2>1 DEF NumberLogged, TextFollowed
<1>8. QED
    BY <1>1, <1>2, <1>3, <1>4, <1>5, <1>6, <1>7 DEF Next

\* The last characters of a sequence that ends with d are d.
LEMMA LastOfIs ==
    ASSUME NEW s, NEW A, s \in Seq(A), NEW d, NEW B, d \in Seq(B), Len(d) <= Len(s),
           \A j \in 1 .. Len(d) : s[Len(s) - Len(d) + j] = d[j]
    PROVE  LastOf(s, Len(d)) = d
<1>1. Len(s) \in Nat /\ Len(d) \in Nat
    OBVIOUS
<1>2. CASE Len(s) <= Len(d)
  <2>1. LastOf(s, Len(d)) = s /\ Len(s) = Len(d)
      BY <1>1, <1>2 DEF LastOf
  <2>2. \A j \in 1 .. Len(d) : s[j] = d[j]
      BY <1>1, <2>1
  <2>3. QED
      BY <2>1, <2>2
<1>3. CASE ~(Len(s) <= Len(d))
  <2> DEFINE t == SubSeq(s, Len(s) - Len(d) + 1, Len(s))
  <2>1. LastOf(s, Len(d)) = t
      BY <1>3 DEF LastOf
  <2>2. t \in Seq(A) /\ Len(t) = Len(d)
      BY <1>1, <1>3
  <2>3. \A j \in 1 .. Len(d) : t[j] = s[Len(s) - Len(d) + j]
      BY <1>1, <1>3
  <2> HIDE DEF t
  <2>4. QED
      BY <2>1, <2>2, <2>3
<1>4. QED
    BY <1>2, <1>3

\* At the end of a call the number is what the last digits amount to.
LEMMA NumberReads ==
    ASSUME IInv, NumberLogged
    PROVE  NumbersReadBack
<1> SUFFICES ASSUME call.done
             PROVE  /\ call.kind = "int" =>
                          \E k \in 1 .. Len(Shown) :
                              /\ ValueOf(LastOf(Shown, k), Base) = call.arg
                              /\ LastOf(Shown, k)[1] = 0 => call.arg = 0
                    /\ call.kind = "hex" =>
                          ValueOf(LastOf(Shown, HexWidth), HexBase) = call.arg
    BY DEF NumbersReadBack
<1>1. todo = <<>> /\ Shown \in Seq(Char)
    BY ShownIsSeq DEF IInv, TypeOK
<1>2. ASSUME TextFollowed
      PROVE  /\ Text \in Seq(Char) /\ Len(Text) <= Len(Shown)
             /\ \A j \in 1 .. Len(Text) : Shown[Len(Shown) - Len(Text) + j] = Text[j]
  <2>1. Len(todo) = 0
      BY <1>1
  <2>2. Text \in Seq(Char) /\ Len(Text) - Len(todo) = Len(Text)
      BY <1>2, <2>1 DEF TextFollowed
  <2>3. QED
      BY <1>2, <2>2 DEF TextFollowed
<1>3. ASSUME call.kind = "int"
      PROVE  \E k \in 1 .. Len(Shown) :
                 /\ ValueOf(LastOf(Shown, k), Base) = call.arg
                 /\ LastOf(Shown, k)[1] = 0 => call.arg = 0
  <2> DEFINE d == Decimal(call.arg)
  <2>1. call.arg \in Nat /\ TextFollowed /\ Text = d
      BY <1>3, NumbersAssumption DEF NumberLogged, Text
  <2>2. d \in Seq(Nat) /\ Len(d) > 0 /\ ValueOf(d, Base) = call.arg /\ (d[1] = 0 => call.arg = 0)
      BY <2>1, DecimalWrites
  <2> HIDE DEF d
  <2>3. Len(d) <= Len(Shown) /\ \A j \in 1 .. Len(d) : Shown[Len(Shown) - Len(d) + j] = d[j]
      BY <1>2, <2>1
  <2>4. LastOf(Shown, Len(d)) = d
      BY <1>1, <2>2, <2>3, LastOfIs
  <2>5. Len(d) \in 1 .. Len(Shown)
      BY <1>1, <2>2, <2>3
  <2>6. QED
      BY <2>2, <2>4, <2>5
<1>4. ASSUME call.kind = "hex"
      PROVE  ValueOf(LastOf(Shown, HexWidth), HexBase) = call.arg
  <2> DEFINE d == HexDigits(call.arg)
             x == <<0, Ex>>
             m == Len(Shown)
  <2>1. call.arg \in Words /\ TextFollowed /\ Text = x \o d
      BY <1>4 DEF NumberLogged, Text, Hex, HexDigits
  <2>2. d \in Seq(Nat) /\ Len(d) = HexWidth /\ ValueOf(d, HexBase) = call.arg
      BY <2>1, HexWrites
  <2> DEFINE A == Nat \cup {Ex}
  <2>3. x \in Seq(A) /\ Len(x) = 2 /\ d \in Seq(A)
      BY <2>2
  <2> HIDE DEF d, x, A
  <2>4. Len(x \o d) = 2 + Len(d) /\ \A j \in 1 .. Len(d) : (x \o d)[2 + j] = d[j]
    <3>1. x \in Seq(A) /\ d \in Seq(A)
        BY <2>3
    <3>2. Len(x \o d) = Len(x) + Len(d)
        BY <3>1, Behind, Zenon
    <3>3. \A j \in 1 .. Len(d) : (x \o d)[Len(x) + j] = d[j]
        BY <3>1, Behind, ZenonT(30)
    <3>4. QED
        BY <2>3, <3>2, <3>3
  <2>5. Len(d) \in Nat /\ m \in Nat
      BY <1>1, <2>2
  <2>6. 2 + Len(d) <= m /\ \A j \in 1 .. 2 + Len(d) : Shown[m - (2 + Len(d)) + j] = Text[j]
      BY <1>2, <2>1, <2>4
  <2>7. ASSUME NEW j \in 1 .. Len(d) PROVE Shown[m - Len(d) + j] = d[j]
    <3>1. 2 + j \in 1 .. 2 + Len(d) /\ m - (2 + Len(d)) + (2 + j) = m - Len(d) + j
        BY <2>5
    <3>2. Shown[m - (2 + Len(d)) + (2 + j)] = Text[2 + j]
        BY <2>6, <3>1
    <3>3. QED
        BY <2>1, <2>4, <3>1, <3>2
  <2>8. Len(d) <= m
      BY <2>5, <2>6
  <2>9. LastOf(Shown, Len(d)) = d
      BY <1>1, <2>2, <2>7, <2>8, LastOfIs
  <2>10. QED
      BY <2>2, <2>9
<1>5. QED
    BY <1>3, <1>4

\* For every ring, base and width: a number logged reads back as that number from
\* the end of the log, whatever the ring held before.
THEOREM DmesgNumbersReadBack == Spec => []NumbersReadBack
<1>1. Init => NumberLogged
    BY DEF Init, NoCall, NumberLogged
<1>2. IInv /\ NumberLogged /\ [Next]_vars => NumberLogged'
    BY NumberStep
<1>3. IInv /\ NumberLogged => NumbersReadBack
    BY NumberReads
<1>4. QED
    BY <1>1, <1>2, <1>3, DmesgInvariant, PTL DEF Spec

-----------------------------------------------------------------------------
(* The device table and its devices (Vfs).                                   *)

\* A name leads to the first node that bears it.
LEMMA FindIs ==
    ASSUME nodes \in Seq([name : Names, dev : Devices]), NEW name, Found(name) # {}
    PROVE  \E i \in 1 .. Len(nodes) :
              /\ nodes[i].name = name /\ Find(name) = nodes[i].dev
              /\ \A j \in Found(name) : i <= j
<1>1. Found(name) \in SUBSET Nat /\ DOMAIN nodes = 1 .. Len(nodes)
  BY DEF Found
<1>2. \E n \in Found(name) : \A m \in Found(name) : n <= m
  BY <1>1, LeastNatural
<1> DEFINE i == CHOOSE k \in Found(name) : \A j \in Found(name) : k <= j
<1>3. i \in Found(name) /\ \A j \in Found(name) : i <= j
  BY <1>2
<1>4. Find(name) = nodes[i].dev
  BY DEF Find
<1> HIDE DEF i
<1> QED
  BY <1>1, <1>3, <1>4 DEF Found

\* What a name in use leads to is a device, and no other name leads to one.
LEMMA DeviceFound ==
    ASSUME VfsTypeOK, NEW name
    PROVE  Find(name) \in Devices \cup {"none"} /\ (Found(name) = {} <=> Find(name) = "none")
<1>1. nodes \in Seq([name : Names, dev : Devices])
  BY DEF VfsTypeOK
<1>2. "none" \notin Devices
  BY DEF Devices
<1>3. CASE Found(name) = {}
  BY <1>3 DEF Find
<1>4. CASE Found(name) # {}
  <2>1. PICK i \in 1 .. Len(nodes) : Find(name) = nodes[i].dev
    BY <1>1, <1>4, FindIs
  <2>2. nodes[i] \in [name : Names, dev : Devices]
    BY <1>1, <2>1, ElementOfSeq
  <2> QED
    BY <1>2, <1>4, <2>1, <2>2
<1> QED
  BY <1>3, <1>4

\* A node at the end of the table leads no name in use elsewhere.
LEMMA FindAppended ==
    ASSUME VfsTypeOK, NEW node \in [name : Names, dev : Devices], nodes' = Append(nodes, node),
           NEW name, Found(name) # {}
    PROVE  Find(name)' = Find(name)
<1> DEFINE N == [name : Names, dev : Devices]
           m == Len(nodes)
<1>1. nodes \in Seq(N) /\ m \in Nat /\ DOMAIN nodes = 1 .. m
  BY DEF VfsTypeOK
<1>2. /\ nodes' \in Seq(N) /\ Len(nodes') = m + 1 /\ DOMAIN nodes' = 1 .. m + 1
      /\ \A i \in 1 .. m : nodes'[i] = nodes[i]
  <2>1. nodes \in Seq(N) /\ node \in N
    BY <1>1
  <2> HIDE DEF N
  <2>2. /\ Append(nodes, node) \in Seq(N)
        /\ Len(Append(nodes, node)) = Len(nodes) + 1
        /\ \A i \in 1 .. Len(nodes) : Append(nodes, node)[i] = nodes[i]
    BY <2>1, AppendProperties
  <2> QED
    BY <1>1, <2>2
<1>3. Found(name) \subseteq 1 .. m /\ Found(name)' \subseteq 1 .. m + 1
  BY <1>1, <1>2 DEF Found
<1>4. Found(name) \subseteq Found(name)' /\ Found(name)' \subseteq Found(name) \cup {m + 1}
  <2>1. ASSUME NEW i \in Found(name) PROVE i \in Found(name)'
    BY <1>1, <1>2, <2>1 DEF Found
  <2>2. ASSUME NEW i \in Found(name)', i # m + 1 PROVE i \in Found(name)
    <3>1. i \in 1 .. m /\ nodes'[i].name = name
      BY <1>1, <1>2, <2>2 DEF Found
    <3> QED
      BY <1>1, <1>2, <3>1 DEF Found
  <2> QED
    BY <2>1, <2>2
<1>5. PICK n \in Found(name) : \A j \in Found(name) : n <= j
  <2>1. Found(name) \in SUBSET Nat
    BY <1>1, <1>3
  <2> QED
    BY <2>1, LeastNatural
<1>6. n \in 1 .. m /\ n \in Found(name)' /\ \A j \in Found(name)' : n <= j
  BY <1>1, <1>3, <1>4, <1>5
<1>7. (CHOOSE i \in Found(name) : \A j \in Found(name) : i <= j) = n
  <2>1. ASSUME NEW i \in Found(name), \A j \in Found(name) : i <= j PROVE i = n
    <3>1. i <= n /\ n <= i /\ i \in Nat /\ n \in Nat
      BY <1>3, <1>5, <1>6, <2>1
    <3> QED
      BY <3>1
  <2> QED
    BY <1>5, <2>1
<1>8. (CHOOSE i \in Found(name)' : \A j \in Found(name)' : i <= j) = n
  <2> DEFINE G == Found(name)'
  <2>1. n \in G /\ (\A j \in G : n <= j) /\ G \subseteq 1 .. m + 1 /\ m \in Nat /\ n \in Nat
    BY <1>1, <1>3, <1>6
  <2> HIDE DEF G
  <2>2. ASSUME NEW i \in G, \A j \in G : i <= j PROVE i = n
    <3>1. i <= n /\ n <= i /\ i \in Nat
      BY <2>1, <2>2
    <3> QED
      BY <2>1, <3>1
  <2>3. (CHOOSE i \in G : \A j \in G : i <= j) = n
    BY <2>1, <2>2
  <2> QED
    BY <2>3 DEF G
<1>9. Find(name) = nodes[n].dev
  BY <1>7 DEF Find
<1>10. Find(name)' = nodes'[n].dev
  BY <1>4, <1>6, <1>8 DEF Find
<1> QED
  BY <1>2, <1>6, <1>9, <1>10

-----------------------------------------------------------------------------
(* Transfers.                                                                *)

\* Below the modulus nothing wraps.
LEMMA ModSmall ==
    ASSUME NEW x \in Nat, NEW m \in Nat \ {0}, x < m
    PROVE  x % m = x
  OBVIOUS

\* What the constants are: no offset and length of a transfer wraps in 32 bits.
LEMMA SizesAre ==
    /\ RAM0_SIZE \in Nat \ {0} /\ RAM0_SIZE < SizeMod
    /\ \A len \in Lengths : len \in Nat
    /\ \A bytes \in Contents : bytes \in Seq(Byte) /\ Len(bytes) \in Lengths
    /\ \A off \in Offsets, len \in Lengths : off \in Nat /\ (off + len) % UintMod = off + len
    /\ \A node \in Extra : node \in [name : Names, dev : Devices]
    /\ 0 \in Byte
<1>1. RAM0_SIZE \in Nat \ {0} /\ RAM0_SIZE < SizeMod
  BY VfsAssumption, HeapAssumption
<1>2. \A bytes \in Contents : bytes \in Seq(Byte) /\ Len(bytes) \in Lengths
  BY VfsAssumption DEF Lengths
<1>3. \A len \in Lengths : len \in Nat
  BY <1>2 DEF Lengths
<1>4. ASSUME NEW off \in Offsets, NEW len \in Lengths
      PROVE  off \in Nat /\ (off + len) % UintMod = off + len
  <2>1. off \in Nat /\ off + len < UintMod
    BY VfsAssumption
  <2>2. off + len \in Nat /\ UintMod \in Nat \ {0} /\ off + len < UintMod
    BY <1>3, <2>1, VfsAssumption
  <2>3. (off + len) % UintMod = off + len
    BY <2>2, ModSmall
  <2> QED
    BY <2>1, <2>3
<1>5. \A node \in Extra : node \in [name : Names, dev : Devices]
  <2>1. \A node \in Extra : node \in [name : {x.name : x \in Extra}, dev : Devices]
    BY VfsAssumption
  <2>2. {x.name : x \in Extra} \subseteq Names
    BY DEF Names
  <2> QED
    BY <2>1, <2>2
<1> QED
  BY <1>1, <1>2, <1>3, <1>4, <1>5, VfsAssumption

\* What ram0 moves of len bytes: all before its end, once it has storage.
LEMMA ClipIs ==
    ASSUME ram0_dev.size = RAM0_SIZE, NEW off \in Offsets, NEW len \in Lengths
    PROVE  /\ Clip(off, len) \in Nat
           /\ Clip(off, len) # 0 => off + Clip(off, len) <= RAM0_SIZE
           /\ ram0_dev.data = NULL => Clip(off, len) = 0
           /\ Clip(off, len) <= len
           /\ ram0_dev.data # NULL =>
                 Clip(off, len) = IF off >= RAM0_SIZE THEN 0
                                  ELSE IF off + len <= RAM0_SIZE THEN len ELSE RAM0_SIZE - off
<1>1. /\ off \in Nat /\ len \in Nat /\ (off + len) % UintMod = off + len
      /\ RAM0_SIZE \in Nat \ {0}
  BY SizesAre
<1> DEFINE c == Clip(off, len)
<1>2. c = IF ram0_dev.data = NULL \/ off >= RAM0_SIZE
          THEN 0
          ELSE IF off + len > RAM0_SIZE THEN RAM0_SIZE - off ELSE len
  BY <1>1 DEF Clip
<1> HIDE DEF c
<1>3. c \in Nat /\ c <= len /\ (c # 0 => off + c <= RAM0_SIZE)
  BY <1>1, <1>2
<1>4. ram0_dev.data # NULL =>
        c = IF off >= RAM0_SIZE THEN 0
            ELSE IF off + len <= RAM0_SIZE THEN len ELSE RAM0_SIZE - off
  BY <1>1, <1>2
<1>5. ram0_dev.data = NULL => c = 0
  BY <1>2
<1> QED
  BY <1>3, <1>4, <1>5 DEF c

\* The inductive invariant: the ranges, and ram0_dev never changes.
VfsInv ==
    /\ VfsTypeOK
    /\ ram0_dev = [data |-> BootHeap(Memmap, VmmFrames, RAM0_SIZE).ptr, size |-> RAM0_SIZE]

\* What is read are bytes, from whatever device.
LEMMA ReadingsAre ==
    ASSUME VfsInv, NEW dev \in Devices, NEW off \in Offsets, NEW len \in Lengths,
           NEW bytes \in Readings(dev, off, len)
    PROVE  /\ bytes \in Seq(Byte)
           /\ dev = "ram0" => /\ bytes = [i \in 1 .. Clip(off, len) |-> storage[off + i - 1]]
                              /\ Len(bytes) = Clip(off, len)
<1>1. len \in Nat /\ off \in Nat /\ 0 \in Byte /\ RAM0_SIZE \in Nat
  BY SizesAre
<1>2. CASE dev = "zero"
  <2>1. bytes = [i \in 1 .. len |-> 0]
    BY <1>2 DEF Readings
  <2>2. bytes \in [1 .. len -> Byte]
    BY <1>1, <2>1
  <2> QED
    BY <1>1, <1>2, <2>2
<1>3. CASE dev = "random"
  <2>1. bytes \in [1 .. len -> Byte]
    BY <1>3 DEF Readings
  <2> QED
    BY <1>1, <1>3, <2>1
<1>4. CASE dev = "ram0"
  <2> DEFINE c == Clip(off, len)
  <2>1. ram0_dev.size = RAM0_SIZE
    BY DEF VfsInv
  <2>2. c \in Nat /\ (c # 0 => off + c <= RAM0_SIZE)
    BY <2>1, ClipIs
  <2>3. bytes = [i \in 1 .. c |-> storage[off + i - 1]]
    BY <1>4 DEF Readings
  <2> HIDE DEF c
  <2>4. storage \in [0 .. RAM0_SIZE - 1 -> Byte]
    BY DEF VfsInv, VfsTypeOK
  <2>5. ASSUME NEW i \in 1 .. c PROVE storage[off + i - 1] \in Byte
    <3>1. off + i - 1 \in 0 .. RAM0_SIZE - 1
      BY <1>1, <2>2
    <3> QED
      BY <2>4, <3>1
  <2>6. bytes \in [1 .. c -> Byte]
    BY <2>3, <2>5
  <2>7. bytes \in Seq(Byte) /\ Len(bytes) = c
    BY <2>2, <2>6
  <2> QED
    BY <2>3, <2>7 DEF c
<1>5. CASE dev \notin {"zero", "random", "ram0"}
  <2>1. bytes = <<>>
    BY <1>5 DEF Readings
  <2> QED
    BY <1>5, <2>1
<1> QED
  BY <1>2, <1>3, <1>4, <1>5

\* A write to ram0 leaves bytes in every place of its storage.
LEMMA StoredTyped ==
    ASSUME VfsInv, NEW off \in Offsets, NEW bytes \in Contents
    PROVE  [k \in DOMAIN storage |->
               IF k \in off .. off + Clip(off, Len(bytes)) - 1 THEN bytes[k - off + 1] ELSE storage[k]]
             \in [0 .. RAM0_SIZE - 1 -> Byte]
<1> DEFINE c == Clip(off, Len(bytes))
<1>1. /\ storage \in [0 .. RAM0_SIZE - 1 -> Byte] /\ ram0_dev.size = RAM0_SIZE
      /\ DOMAIN storage = 0 .. RAM0_SIZE - 1
  BY DEF VfsInv, VfsTypeOK
<1>2. bytes \in Seq(Byte) /\ Len(bytes) \in Lengths /\ Len(bytes) \in Nat /\ off \in Nat
  BY SizesAre
<1>3. c \in Nat /\ c <= Len(bytes)
  BY <1>1, <1>2, ClipIs
<1> HIDE DEF c
<1>4. ASSUME NEW k \in off .. off + c - 1 PROVE bytes[k - off + 1] \in Byte
  <2>1. k - off + 1 \in 1 .. Len(bytes)
    BY <1>2, <1>3
  <2> QED
    BY <1>2, <2>1, ElementOfSeq
<1>5. ASSUME NEW k \in 0 .. RAM0_SIZE - 1
      PROVE  (IF k \in off .. off + c - 1 THEN bytes[k - off + 1] ELSE storage[k]) \in Byte
  BY <1>1, <1>4
<1> QED
  BY <1>1, <1>5 DEF c

\* A function on 1 .. n is a sequence of n elements.
LEMMA ListOfSix ==
    ASSUME NEW S, NEW n \in Nat, NEW f \in [1 .. n -> S]
    PROVE  f \in Seq(S) /\ Len(f) = n
  OBVIOUS

\* vfs_init registers six nodes, which the table has room for.
LEMMA VfsInitOK == VfsInit => VfsInv
<1> SUFFICES ASSUME VfsInit PROVE VfsInv
  OBVIOUS
<1>1. /\ ram0_dev = [data |-> BootHeap(Memmap, VmmFrames, RAM0_SIZE).ptr, size |-> RAM0_SIZE]
      /\ storage = [k \in 0 .. RAM0_SIZE - 1 |-> 0]
      /\ result = Idle
  BY DEF VfsInit
<1> DEFINE l == <<"null", "zero", "random", "tty", "dmesg", "ram0">>
<1>2. nodes = [i \in 1 .. 6 |-> [name |-> l[i], dev |-> l[i]]]
  BY DEF VfsInit
<1>3. \A i \in 1 .. 6 : l[i] \in Devices
  BY DEF Devices
<1> HIDE DEF l
<1>4. nodes \in Seq([name : Names, dev : Devices]) /\ Len(nodes) = 6
  <2>1. \A i \in 1 .. 6 : [name |-> l[i], dev |-> l[i]] \in [name : Names, dev : Devices]
    BY <1>3 DEF Names
  <2> DEFINE N == [name : Names, dev : Devices]
  <2>2. nodes \in [1 .. 6 -> N]
    BY <1>2, <2>1
  <2> HIDE DEF N
  <2>3. nodes \in Seq(N) /\ Len(nodes) = 6
    BY <2>2, ListOfSix
  <2> QED
    BY <2>3 DEF N
<1>5. 6 <= VFS_MAX_NODES
  <2>1. Cardinality(Devices) = 6
    <3> DEFINE A == {"null"}   B == A \cup {"zero"}   C == B \cup {"random"}
               D == C \cup {"tty"}   E == D \cup {"dmesg"}   F == E \cup {"ram0"}
    <3>1. IsFiniteSet(A) /\ Cardinality(A) = 1
      BY FS_Singleton
    <3>2. IsFiniteSet(B) /\ Cardinality(B) = 2
      BY <3>1, FS_AddElement
    <3>3. IsFiniteSet(C) /\ Cardinality(C) = 3
      BY <3>2, FS_AddElement
    <3>4. IsFiniteSet(D) /\ Cardinality(D) = 4
      BY <3>3, FS_AddElement
    <3>5. IsFiniteSet(E) /\ Cardinality(E) = 5
      BY <3>4, FS_AddElement
    <3>6. IsFiniteSet(F) /\ Cardinality(F) = 6
      BY <3>5, FS_AddElement
    <3>7. Devices = F
      BY DEF Devices
    <3> QED
      BY <3>6, <3>7
  <2> QED
    BY <2>1, VfsAssumption
<1>6. storage \in [0 .. RAM0_SIZE - 1 -> Byte]
  BY <1>1, SizesAre
<1>7. result.dev \in Devices \cup {"none"} /\ {result.bytes, result.out} \subseteq Seq(Byte)
  BY <1>1 DEF Idle
<1> QED
  BY <1>1, <1>4, <1>5, <1>6, <1>7 DEF VfsInv, VfsTypeOK

\* No call to the table or to a device disturbs the ranges, or where ram0 has its
\* storage.
LEMMA VfsNextOK == VfsInv /\ [VfsNext]_vfs_vars => VfsInv'
<1> SUFFICES ASSUME VfsInv, [VfsNext]_vfs_vars PROVE VfsInv'
  OBVIOUS
<1>0. VfsTypeOK
  BY DEF VfsInv
<1>1. ASSUME NEW node \in Extra, Register(node) PROVE VfsInv'
  <2>1. node \in [name : Names, dev : Devices]
    BY SizesAre
  <2>2. /\ nodes' = IF Len(nodes) >= VFS_MAX_NODES THEN nodes ELSE Append(nodes, node)
        /\ result' = Idle /\ storage' = storage /\ ram0_dev' = ram0_dev
    BY <1>1 DEF Register
  <2>3. /\ nodes' \in Seq([name : Names, dev : Devices]) /\ Len(nodes') <= VFS_MAX_NODES
    <3> DEFINE N == [name : Names, dev : Devices]
    <3>1. nodes \in Seq(N) /\ node \in N /\ Len(nodes) <= VFS_MAX_NODES /\ VFS_MAX_NODES \in Nat
      BY <2>1, VfsAssumption DEF VfsInv, VfsTypeOK
    <3> HIDE DEF N
    <3>2. Append(nodes, node) \in Seq(N) /\ Len(Append(nodes, node)) = Len(nodes) + 1 /\ Len(nodes) \in Nat
      BY <3>1
    <3>3. nodes' \in Seq(N) /\ Len(nodes') <= VFS_MAX_NODES
      BY <2>2, <3>1, <3>2
    <3> QED
      BY <3>3 DEF N
  <2>4. result'.dev \in Devices \cup {"none"} /\ {result'.bytes, result'.out} \subseteq Seq(Byte)
    BY <2>2 DEF Idle
  <2> QED
    BY <2>2, <2>3, <2>4 DEF VfsInv, VfsTypeOK
<1>2. ASSUME NEW name \in Names, NEW off \in Offsets, NEW len \in Lengths, Read(name, off, len)
      PROVE  VfsInv'
  <2>1. /\ Find(name) # "none" /\ nodes' = nodes /\ storage' = storage /\ ram0_dev' = ram0_dev
    BY <1>2 DEF Read
  <2>2. PICK bytes \in Readings(Find(name), off, len) :
           result' = [dev |-> Find(name), off |-> off, n |-> Len(bytes),
                      bytes |-> bytes, out |-> <<>>]
    BY <1>2 DEF Read
  <2>3. Find(name) \in Devices
    BY <1>0, <2>1, DeviceFound
  <2>4. bytes \in Seq(Byte)
    BY <2>3, ReadingsAre
  <2>5. result'.dev \in Devices \cup {"none"} /\ {result'.bytes, result'.out} \subseteq Seq(Byte)
    BY <2>2, <2>3, <2>4
  <2> QED
    BY <2>1, <2>5 DEF VfsInv, VfsTypeOK
<1>3. ASSUME NEW name \in Names, NEW off \in Offsets, NEW bytes \in Contents, Write(name, off, bytes)
      PROVE  VfsInv'
  <2>1. Find(name) # "none" /\ nodes' = nodes /\ ram0_dev' = ram0_dev
    BY <1>3 DEF Write
  <2>2. Find(name) \in Devices /\ bytes \in Seq(Byte)
    BY <1>0, <2>1, DeviceFound, SizesAre
  <2>3. storage' \in [0 .. RAM0_SIZE - 1 -> Byte]
    <3>1. CASE Find(name) = "ram0"
      BY <1>3, <3>1, StoredTyped DEF Write, Ram0Write
    <3>2. CASE Find(name) # "ram0"
      BY <1>3, <3>2 DEF Write, OtherWrite, VfsInv, VfsTypeOK
    <3> QED
      BY <3>1, <3>2
  <2>4. result'.dev \in Devices \cup {"none"} /\ {result'.bytes, result'.out} \subseteq Seq(Byte)
    <3>1. CASE Find(name) = "ram0"
      <4> DEFINE c == Clip(off, Len(bytes))
      <4>1. result' = [dev |-> "ram0", off |-> off, n |-> c, bytes |-> <<>>, out |-> <<>>]
        BY <1>3, <3>1 DEF Write, Ram0Write
      <4> HIDE DEF c
      <4>2. result'.dev = "ram0" /\ result'.bytes = <<>> /\ result'.out = <<>>
        BY <4>1
      <4> QED
        BY <4>2 DEF Devices
    <3>2. CASE Find(name) # "ram0"
      <4> DEFINE o == IF Find(name) \in {"tty", "dmesg"} THEN bytes ELSE <<>>
                 n == Len(bytes)
                 d == Find(name)
      <4>1. result' = [dev |-> d, off |-> off, n |-> n, bytes |-> <<>>, out |-> o]
        BY <1>3, <3>2 DEF Write, OtherWrite
      <4>2. o \in Seq(Byte) /\ d \in Devices
        BY <2>2
      <4> HIDE DEF o, n, d
      <4>3. result'.dev = d /\ result'.bytes = <<>> /\ result'.out = o
        BY <4>1
      <4> QED
        BY <4>2, <4>3
    <3> QED
      BY <3>1, <3>2
  <2> QED
    BY <2>1, <2>3, <2>4 DEF VfsInv, VfsTypeOK
<1>4. ASSUME NEW name \in Names, NotFound(name) PROVE VfsInv'
  BY <1>4 DEF NotFound, VfsInv, VfsTypeOK, Idle
<1>5. CASE UNCHANGED vfs_vars
  BY <1>5 DEF vfs_vars, VfsInv, VfsTypeOK
<1> QED
  BY <1>1, <1>2, <1>3, <1>4, <1>5 DEF VfsNext

\* The nodes are devices under names, at most as many as the table holds; every
\* device answers with bytes; and where the storage of ram0 is, or that it has
\* none, was settled by the kmalloc of vfs_init for good (vfs.c:156-201).
THEOREM VfsInvariant == VfsSpec => []VfsInv
  BY VfsInitOK, VfsNextOK, PTL DEF VfsSpec

\* The table of nodes, the storage of ram0 and what the devices answer keep their
\* ranges, for any number of registrations (vfs.c:176-183).
THEOREM VfsTypeCorrect == VfsSpec => []VfsTypeOK
<1>1. VfsInv => VfsTypeOK
  BY DEF VfsInv
<1> QED
  BY <1>1, VfsInvariant, PTL

\* No registration, not even one under a name already taken or into a full table,
\* changes the device a name in use leads to: vfs_find takes the first match and
\* vfs_register appends (vfs.c:176-191).
THEOREM VfsResolutionStable == VfsSpec => ResolutionStable
<1> DEFINE Stable == \A name \in Names : Find(name) # "none" => Find(name)' = Find(name)
<1>1. VfsInv /\ [VfsNext]_vfs_vars => [Stable]_vfs_vars
  <2> SUFFICES ASSUME VfsInv, VfsNext, NEW name \in Names, Find(name) # "none"
               PROVE  Find(name)' = Find(name)
    OBVIOUS
  <2>1. VfsTypeOK
    BY DEF VfsInv
  <2>2. Found(name) # {}
    BY <2>1, DeviceFound
  <2>3. ASSUME NEW node \in Extra, Register(node) PROVE Find(name)' = Find(name)
    <3>1. CASE Len(nodes) >= VFS_MAX_NODES
      BY <2>3, <3>1 DEF Register, Find, Found
    <3>2. CASE ~(Len(nodes) >= VFS_MAX_NODES)
      <4>1. nodes' = Append(nodes, node)
        BY <2>3, <3>2 DEF Register
      <4> QED
        BY <2>1, <2>2, <4>1, FindAppended, SizesAre
    <3> QED
      BY <3>1, <3>2
  <2>4. CASE nodes' = nodes
    BY <2>4 DEF Find, Found
  <2> QED
    BY <2>3, <2>4 DEF VfsNext, Read, Write, NotFound
<1> QED
  BY <1>1, VfsInvariant, PTL DEF VfsSpec, ResolutionStable

-----------------------------------------------------------------------------
(* ram0 as a block device.                                                   *)

\* What ram0 moves is what a device of its capacity has room for.
LEMMA RoomIs ==
    ASSUME VfsInv, NEW off \in Offsets, NEW len \in Lengths
    PROVE  /\ Capacity \in {0, RAM0_SIZE}
           /\ Clip(off, len) = Ram0!Room(off, len)
           /\ \A k \in off .. off + Clip(off, len) - 1 : k \in 0 .. Capacity - 1
<1> DEFINE c == Clip(off, len)
<1>1. /\ off \in Nat /\ len \in Nat /\ RAM0_SIZE \in Nat /\ ram0_dev.size = RAM0_SIZE
      /\ Capacity = IF ram0_dev.data = NULL THEN 0 ELSE RAM0_SIZE
  BY SizesAre DEF VfsInv, Capacity
<1>2. /\ c \in Nat /\ (c # 0 => off + c <= RAM0_SIZE)
      /\ ram0_dev.data = NULL => c = 0
      /\ ram0_dev.data # NULL => c = IF off >= RAM0_SIZE THEN 0
                                     ELSE IF off + len <= RAM0_SIZE THEN len ELSE RAM0_SIZE - off
  BY <1>1, ClipIs
<1> HIDE DEF c
<1>3. c = Ram0!Room(off, len)
  BY <1>1, <1>2 DEF Ram0!Room
<1>4. \A k \in off .. off + c - 1 : k \in 0 .. Capacity - 1
  BY <1>1, <1>2
<1> QED
  BY <1>1, <1>3, <1>4 DEF c

\* A read, of whatever node, is a read of the block device or leaves it alone.
LEMMA Ram0Reads ==
    ASSUME VfsInv, NEW name, NEW off \in Offsets, NEW bytes \in Contents,
           Read(name, off, Len(bytes))
    PROVE  Ram0!Read(off, Len(bytes)) \/ Ram0!Elsewhere
<1> DEFINE len == Len(bytes)
           dev == Find(name)
<1>1. dev # "none" /\ storage' = storage
  BY DEF Read
<1>2. PICK got \in Readings(dev, off, len) :
         result' = [dev |-> dev, off |-> off, n |-> Len(got), bytes |-> got, out |-> <<>>]
  BY DEF Read
<1>3. VfsTypeOK /\ ram0_dev.size = RAM0_SIZE
  BY DEF VfsInv
<1>4. dev \in Devices /\ len \in Lengths
  BY <1>1, <1>3, DeviceFound, SizesAre
<1> HIDE DEF dev, len
<1>5. CASE dev = "ram0"
  <2>1. Len(got) = Clip(off, len) /\ got = [i \in 1 .. Clip(off, len) |-> storage[off + i - 1]]
    BY <1>2, <1>4, <1>5, ReadingsAre
  <2>2. /\ Clip(off, len) = Ram0!Room(off, len) /\ Clip(off, len) \in Nat /\ off \in Nat
        /\ \A k \in off .. off + Clip(off, len) - 1 : k \in 0 .. Capacity - 1
    BY <1>3, <1>4, ClipIs, RoomIs, SizesAre
  <2> DEFINE r == Ram0!Room(off, len)
             n == Len(got)
             s == [k \in 0 .. Capacity - 1 |-> storage[k]]
  <2>3. n = r /\ got = [i \in 1 .. r |-> s[off + i - 1]]
    <3>1. n = r /\ got = [i \in 1 .. r |-> storage[off + i - 1]]
      BY <2>1, <2>2
    <3>2. ASSUME NEW i \in 1 .. r PROVE storage[off + i - 1] = s[off + i - 1]
      <4>1. r \in Nat /\ \A k \in off .. off + r - 1 : k \in 0 .. Capacity - 1
        BY <2>2
      <4> HIDE DEF r
      <4>2. off + i - 1 \in off .. off + r - 1
        BY <2>2, <4>1
      <4> QED
        BY <4>1, <4>2
    <3> HIDE DEF r, n, s
    <3> QED
      BY <3>1, <3>2
  <2>4. result' = [dev |-> dev, off |-> off, n |-> n, bytes |-> got, out |-> <<>>]
    BY <1>2
  <2> HIDE DEF r, n
  <2>5. /\ result'.dev = "ram0" /\ result'.off = off /\ result'.n = n /\ result'.bytes = got
    BY <1>5, <2>4
  <2>6. Ram0!Read(off, len)
    BY <1>1, <2>3, <2>5 DEF Ram0!Read, r, s
  <2> QED
    BY <2>6 DEF len
<1>6. CASE dev # "ram0"
  <2> DEFINE n == Len(got)
  <2>1. result' = [dev |-> dev, off |-> off, n |-> n, bytes |-> got, out |-> <<>>]
    BY <1>2
  <2> HIDE DEF n
  <2>2. result'.dev # "ram0"
    BY <1>6, <2>1
  <2>3. Ram0!Elsewhere
    BY <1>1, <2>2 DEF Ram0!Elsewhere
  <2> QED
    BY <2>3
<1> QED
  BY <1>5, <1>6

\* A write, to whatever node, is a write of the block device or leaves it alone.
LEMMA Ram0Writes ==
    ASSUME VfsInv, NEW name, NEW off \in Offsets, NEW bytes \in Contents,
           Write(name, off, bytes)
    PROVE  Ram0!Write(off, bytes) \/ Ram0!Elsewhere
<1>1. /\ ram0_dev.size = RAM0_SIZE /\ DOMAIN storage = 0 .. RAM0_SIZE - 1
      /\ Len(bytes) \in Lengths
  BY SizesAre DEF VfsInv, VfsTypeOK
<1>2. CASE Find(name) = "ram0"
  <2> DEFINE c == Clip(off, Len(bytes))
             r == Ram0!Room(off, Len(bytes))
  <2>1. c = r /\ Capacity \in {0, RAM0_SIZE} /\ RAM0_SIZE \in Nat
    BY <1>1, RoomIs, SizesAre
  <2>2. /\ storage' = [k \in 0 .. RAM0_SIZE - 1 |->
                          IF k \in off .. off + c - 1 THEN bytes[k - off + 1] ELSE storage[k]]
        /\ result' = [dev |-> "ram0", off |-> off, n |-> c, bytes |-> <<>>, out |-> <<>>]
    BY <1>1, <1>2 DEF Write, Ram0Write
  <2> HIDE DEF c, r
  <2>3. /\ result'.dev = "ram0" /\ result'.off = off /\ result'.n = r /\ result'.bytes = <<>>
    BY <2>1, <2>2
  <2> DEFINE s == [k \in 0 .. Capacity - 1 |-> storage[k]]
             put(k) == IF k \in off .. off + r - 1 THEN bytes[k - off + 1] ELSE s[k]
  <2>4. [k \in 0 .. Capacity - 1 |-> storage'[k]] = [k \in 0 .. Capacity - 1 |-> put(k)]
    <3>1. ASSUME NEW k \in 0 .. Capacity - 1 PROVE storage'[k] = put(k)
      <4>1. k \in 0 .. RAM0_SIZE - 1
        BY <2>1
      <4> QED
        BY <2>1, <2>2, <4>1
    <3> QED
      BY <3>1
  <2>5. Ram0!Write(off, bytes)
    BY <2>3, <2>4 DEF Ram0!Write, r, s
  <2> QED
    BY <2>5
<1>3. CASE Find(name) # "ram0"
  <2> DEFINE o == IF Find(name) \in {"tty", "dmesg"} THEN bytes ELSE <<>>
             n == Len(bytes)
             d == Find(name)
  <2>1. result' = [dev |-> d, off |-> off, n |-> n, bytes |-> <<>>, out |-> o]
    BY <1>3 DEF Write, OtherWrite
  <2>2. storage' = storage /\ d # "ram0"
    BY <1>3 DEF Write, OtherWrite
  <2> HIDE DEF o, n, d
  <2>3. result'.dev # "ram0"
    BY <2>1, <2>2
  <2> QED
    BY <2>2, <2>3 DEF Ram0!Elsewhere
<1> QED
  BY <1>2, <1>3

\* On every machine, whether or not kmalloc gave vfs_init the storage it asked for,
\* ram0 is a block device of what it got: its size or nothing (vfs.c:113).  For
\* every size and content, a transfer across the end is cut there, one beyond it
\* moves nothing, the answer is what was moved, and no other node disturbs what
\* is stored (vfs.c:122-138).
THEOREM VfsRefinesBlockDevice == VfsSpec => ImplementsBlockDevice
<1>1. VfsInit => Ram0!Init
  <2> SUFFICES ASSUME VfsInit PROVE Ram0!Init
    OBVIOUS
  <2>1. storage = [k \in 0 .. RAM0_SIZE - 1 |-> 0] /\ result.dev = "none"
    BY DEF VfsInit, Idle
  <2>2. Capacity \in {0, RAM0_SIZE} /\ RAM0_SIZE \in Nat
    BY SizesAre DEF Capacity
  <2>3. \A k \in 0 .. Capacity - 1 : storage[k] = 0
    BY <2>1, <2>2
  <2> QED
    BY <2>1, <2>3 DEF Ram0!Init
<1>2. VfsInv /\ [VfsNext]_vfs_vars => [Ram0!Next]_(Ram0!vars)
  <2> SUFFICES ASSUME VfsInv, [VfsNext]_vfs_vars PROVE [Ram0!Next]_(Ram0!vars)
    OBVIOUS
  <2>2. ASSUME NEW node \in Extra, Register(node) PROVE Ram0!Elsewhere
    BY <2>2 DEF Register, Idle, Ram0!Elsewhere
  <2>3. ASSUME NEW name \in Names, NotFound(name) PROVE Ram0!Elsewhere
    BY <2>3 DEF NotFound, Idle, Ram0!Elsewhere
  <2>4. ASSUME NEW name \in Names, NEW off \in Offsets, NEW len \in Lengths, Read(name, off, len)
        PROVE  Ram0!Next
    <3>1. PICK bytes \in Contents : len = Len(bytes)
      BY DEF Lengths
    <3>2. Ram0!Read(off, Len(bytes)) \/ Ram0!Elsewhere
      BY <2>4, <3>1, Ram0Reads
    <3> QED
      BY <3>2 DEF Ram0!Next
  <2>5. ASSUME NEW name \in Names, NEW off \in Offsets, NEW bytes \in Contents, Write(name, off, bytes)
        PROVE  Ram0!Next
    <3>1. Ram0!Write(off, bytes) \/ Ram0!Elsewhere
      BY <2>5, Ram0Writes
    <3> QED
      BY <3>1 DEF Ram0!Next
  <2>6. CASE UNCHANGED vfs_vars
    BY <2>6 DEF vfs_vars, Ram0!vars
  <2> QED
    BY <2>2, <2>3, <2>4, <2>5, <2>6 DEF VfsNext, Ram0!Next
<1> QED
  BY <1>1, <1>2, VfsInvariant, PTL DEF VfsSpec, ImplementsBlockDevice, Ram0!Spec

-----------------------------------------------------------------------------
(* Who gets storage.                                                         *)

\* The list of one element, made longer by another.
LEMMA Paired ==
    ASSUME NEW S, NEW x \in S, NEW y \in S
    PROVE  Append(<<x>>, y) = <<x, y>> /\ Len(<<x, y>>) = 2
<1> DEFINE b == <<x>>
           w == Append(b, y)
           l == <<x, y>>
<1>1. b \in Seq(S) /\ Len(b) = 1 /\ b[1] = x
  OBVIOUS
<1>2. l \in Seq(S) /\ Len(l) = 2 /\ l[1] = x /\ l[2] = y
  OBVIOUS
<1> HIDE DEF b, l
<1>3. w \in Seq(S) /\ Len(w) = 2 /\ w[1] = x /\ w[2] = y
  <2>1. b \in Seq(S)
    BY <1>1
  <2>2. /\ Append(b, y) \in Seq(S)
        /\ Len(Append(b, y)) = Len(b) + 1
        /\ \A i \in 1 .. Len(b) : Append(b, y)[i] = b[i]
        /\ Append(b, y)[Len(b) + 1] = y
    BY <2>1, AppendProperties
  <2>3. 1 \in 1 .. Len(b) /\ Len(b) + 1 = 2
    BY <1>1
  <2> QED
    BY <1>1, <2>2, <2>3
<1> HIDE DEF w
<1>4. \A i \in 1 .. 2 : w[i] = l[i]
  <2>1. \A i \in 1 .. 2 : i = 1 \/ i = 2
    OBVIOUS
  <2> QED
    BY <1>2, <1>3, <2>1
<1>5. w = l
  BY <1>2, <1>3, <1>4, SeqEqual
<1> QED
  BY <1>2, <1>5 DEF w, b, l

\* The free block two pages make once they are merged, the second above the first.
LEMMA TwoPages ==
    ASSUME NEW f \in Nat, NEW g \in Nat, f < g
    PROVE  LET c == Coalesce(<<FreshBlock(f), FreshBlock(g)>>, 2)
           IN  \A k \in DOMAIN c : c[k].size \in Nat /\ c[k].size <= 2 * PageSize - Hdr
<1> DEFINE x == FreshBlock(f)
           y == FreshBlock(g)
           b == <<x>>
           l == <<x, y>>
           c == Coalesce(l, 2)
<1>1. /\ PageSize \in Nat /\ Hdr \in Nat \ {0} /\ x.size = PageSize - Hdr /\ y.size = PageSize - Hdr
      /\ x \in Block /\ ~x.used /\ x.size % Word = 0 /\ x.addr = f * PageSize
      /\ End(x) = f * PageSize + PageSize
  BY FreshBlockIs, PageAssumption, HeapAssumption
<1>2. y.size \in Nat /\ ~y.used
  BY FreshBlockIs
<1> HIDE DEF x, y
<1>3. b \in Seq(Block) /\ Len(b) = 1 /\ b[1] = x /\ DOMAIN b = {1} /\ l = Append(b, y)
  BY <1>1
<1> HIDE DEF b, l
<1>4. ListFine(b)
  <2>1. Whole(b)
    BY <1>1, <1>3 DEF Whole
  <2>2. Ordered(b) /\ Settled(b)
    BY <1>3 DEF Ordered, Settled
  <2> QED
    BY <1>3, <2>1, <2>2 DEF ListFine
<1>5. Bracketed(b, {f})
  <2>1. f * PageSize <= b[1].addr /\ End(b[1]) <= f * PageSize + PageSize
    BY <1>1, <1>3
  <2> QED
    BY <1>3, <2>1 DEF Bracketed
<1>6. /\ l \in Seq(Block) /\ Len(l) \in DOMAIN l /\ l[Len(l)] = y
      /\ Ordered(l) /\ Whole(l) /\ SettledBut(l, Len(l))
  <2>1. {f} \in SUBSET Nat /\ \A e \in {f} : e < g
    OBVIOUS
  <2>2. l = Append(b, FreshBlock(g))
    BY <1>3 DEF y
  <2>3. LET w == Append(b, FreshBlock(g))
        IN  /\ w \in Seq(Block) /\ Len(w) \in DOMAIN w /\ w[Len(w)] = FreshBlock(g)
            /\ Ordered(w) /\ Whole(w) /\ SettledBut(w, Len(w))
    BY <1>4, <1>5, <2>1, LongerIs
  <2> QED
    BY <2>2, <2>3 DEF y
<1>7. Len(l) = 2 /\ l[1] = x /\ l[2] = y
  BY <1>3, <1>6 DEF l
<1>8. PICK first \in 1 .. 2, last \in 2 .. 2 : MergedRun(c, l, first, last)
  <2>1. 2 \in DOMAIN l /\ ~l[2].used /\ SettledBut(l, 2)
    BY <1>2, <1>6, <1>7
  <2>2. \E first \in 1 .. 2, last \in 2 .. Len(l) : MergedRun(Coalesce(l, 2), l, first, last)
    BY <1>6, <2>1, CoalesceIs
  <2> QED
    BY <1>7, <2>2
<1>9. c \in Seq(Block)
  <2>1. 2 \in DOMAIN l /\ ~l[2].used /\ SettledBut(l, 2)
    BY <1>2, <1>6, <1>7
  <2> QED
    BY <1>6, <2>1, CoalesceIs
<1> HIDE DEF c
<1>10. /\ Len(c) = 2 - (2 - first) /\ c[first].size = MergedSize(l, first, 2) /\ first \in 1 .. 2
       /\ \A k \in 1 .. first - 1 : c[k] = l[k]
  BY <1>7, <1>8 DEF MergedRun
<1>11. c[first].size <= 2 * PageSize - Hdr
  <2>1. CASE first = 2
    <3>1. MergedSize(l, 2, 2) = y.size
      BY <1>7, MergedSizeIs
    <3> QED
      BY <1>1, <1>10, <2>1, <3>1
  <2>2. CASE first = 1
    <3>1. MergedSize(l, 1, 1 + 1) = l[1].size + Hdr + l[1 + 1].size
      BY MergedSizeIs
    <3>2. c[first].size = x.size + Hdr + y.size
      BY <1>7, <1>10, <2>2, <3>1
    <3> QED
      BY <1>1, <3>2
  <2> QED
    BY <1>10, <2>1, <2>2
<1>12. ASSUME NEW k \in DOMAIN c PROVE c[k].size <= 2 * PageSize - Hdr
  <2>1. k \in 1 .. first
    BY <1>9, <1>10
  <2>2. CASE k = first
    BY <1>11, <2>2
  <2>3. CASE k # first
    <3>1. first = 2 /\ k = 1 /\ c[k] = x
      BY <1>7, <1>10, <2>1, <2>3
    <3> QED
      BY <1>1, <3>1
  <2> QED
    BY <2>2, <2>3
<1>13. c = Coalesce(<<FreshBlock(f), FreshBlock(g)>>, 2)
  BY DEF c, l, x, y
<1>14. \A k \in DOMAIN c : c[k].size \in Nat
  BY <1>9, BlockTyped
<1>15. \A k \in DOMAIN c : c[k].size \in Nat /\ c[k].size <= 2 * PageSize - Hdr
  BY <1>12, <1>14
<1> QED
  BY <1>13, <1>15

\* kmalloc takes two pages for its first call and no more: what does not fit
\* them is refused, on every machine.
LEMMA FirstCallRefused ==
    ASSUME NEW p, IsPmm(p), NEW request \in 1 .. SizeMod - 1, RoundUp(request) > 2 * PageSize - Hdr
    PROVE  Kmalloc(HeapOff, p, request).ptr = NULL
<1> DEFINE size == RoundUp(request)
           ready == FirstPage(HeapOff, p)
           r == PmmAlloc(p)
           q == r.pmm
           s == PmmAlloc(q)
<1>1. /\ size \in Nat /\ PageSize \in Nat /\ Hdr \in Nat \ {0} /\ Hdr < PageSize
      /\ size > 2 * PageSize - Hdr /\ request # 0
  BY RoundUpCovers, PageAssumption, HeapAssumption
<1>2. HeapOff.blocks = <<>>
  BY DEF HeapOff
<1>3. CASE r.frame = NULL
  <2>1. ready.heap.blocks = <<>>
    BY <1>2, <1>3 DEF FirstPage, Answer
  <2> QED
    BY <2>1 DEF Kmalloc, Answer
<1>4. CASE r.frame # NULL
  <2> DEFINE f == r.frame
             h == [HeapOff EXCEPT !.blocks = <<FreshBlock(f)>>, !.pages = (@ + 1) % CounterMod]
  <2>1. /\ IsPmm(q) /\ f \in Nat /\ \A e \in Allocatable(p) : f <= e
        /\ Allocatable(q) = Allocatable(p) \ {f}
    BY <1>4, AllocIs
  <2>2. ready = Answer(h, q, NULL)
    BY <1>2, <1>4 DEF FirstPage
  <2>3. h.blocks = <<FreshBlock(f)>>
    BY DEF HeapOff
  <2>4. ready.heap = h /\ ready.pmm = q
    BY <2>2 DEF Answer
  <2>5. FreshBlock(f).size = PageSize - Hdr
    BY DEF FreshBlock
  <2> HIDE DEF h, f, q, ready, size
  <2>6. Fits(h.blocks, size) = {} /\ h.blocks # <<>>
    <3>1. \A k \in DOMAIN h.blocks : h.blocks[k].size = PageSize - Hdr
      BY <2>3, <2>5
    <3>2. ~(PageSize - Hdr >= size)
      BY <1>1
    <3> QED
      BY <2>3, <3>1, <3>2 DEF Fits
  <2>7. Kmalloc(HeapOff, p, request) = Grow(h, q, size)
    BY <1>1, <2>4, <2>6 DEF Kmalloc, ready, size
  <2>8. CASE s.frame = NULL
    BY <2>7, <2>8 DEF Grow, Answer
  <2>9. CASE s.frame # NULL
    <3> DEFINE g == s.frame
               grown == AppendPage(h, g)
    <3>1. g \in Nat /\ g \in Allocatable(q)
      BY <2>1, <2>9, AllocIs
    <3>2. f < g
      <4>1. g # f /\ f <= g
        BY <2>1, <3>1
      <4> QED
        BY <2>1, <3>1, <4>1
    <3> DEFINE l == <<FreshBlock(f), FreshBlock(g)>>
    <3>3. Append(h.blocks, FreshBlock(g)) = l /\ Len(l) = 2
      <4> DEFINE x == FreshBlock(f)
                 y == FreshBlock(g)
      <4> HIDE DEF x, y
      <4>1. x \in Block /\ y \in Block
        BY <2>1, <3>1, FreshBlockIs DEF x, y
      <4>2. Append(<<x>>, y) = <<x, y>> /\ Len(<<x, y>>) = 2
        BY <4>1, Paired
      <4> QED
        BY <2>3, <4>2 DEF x, y
    <3>4. h = [h EXCEPT !.blocks = h.blocks] /\ "blocks" \in DOMAIN h
      BY DEF h, HeapOff
    <3>5. grown.blocks = Coalesce(l, 2)
      <4> DEFINE w == Append(h.blocks, FreshBlock(g))
      <4>1. w = l /\ Len(w) = 2
        BY <3>3
      <4>2. grown = [h EXCEPT !.blocks = Coalesce(w, Len(w)), !.pages = (@ + 1) % CounterMod]
        BY DEF AppendPage
      <4> HIDE DEF w, l
      <4>3. grown.blocks = Coalesce(w, Len(w))
        BY <3>4, <4>2
      <4> QED
        BY <4>1, <4>3
    <3>6. \A k \in DOMAIN grown.blocks :
             grown.blocks[k].size \in Nat /\ grown.blocks[k].size <= 2 * PageSize - Hdr
      BY <2>1, <3>1, <3>2, <3>5, TwoPages
    <3> HIDE DEF grown
    <3>7. Fits(grown.blocks, size) = {}
      <4>1. ASSUME NEW k \in Fits(grown.blocks, size) PROVE FALSE
        <5> DEFINE z == grown.blocks[k].size
        <5>1. z \in Nat /\ z <= 2 * PageSize - Hdr /\ z >= size
          BY <3>6, <4>1 DEF Fits
        <5> HIDE DEF z
        <5> QED
          BY <1>1, <5>1
      <4> QED
        BY <4>1
    <3>8. Grow(h, q, size) = Answer(grown, s.pmm, NULL)
      BY <2>9, <3>7 DEF Grow, grown
    <3> QED
      BY <2>7, <3>8 DEF Answer
  <2> QED
    BY <2>8, <2>9
<1> QED
  BY <1>3, <1>4

\* Without storage ram0 takes nothing and gives nothing.
NothingStored ==
    /\ ram0_dev.data = NULL
    /\ result.dev = "ram0" => result.n = 0 /\ result.bytes = <<>>

\* A ram0 that does not fit two pages never stores or delivers a byte, however
\* much memory there is, though vfs_list shows it with its size: kmalloc takes one
\* page to start the heap and one more, vfs_init registers the node all the same,
\* and ram0_read and ram0_write answer 0 (heap.c:80-121, vfs.c:122-171).
THEOREM VfsLargeRam0Empty ==
    ASSUME RoundUp(RAM0_SIZE) > 2 * PageSize - Hdr
    PROVE  VfsSpec => [](result.dev = "ram0" => result.n = 0 /\ result.bytes = <<>>)
<1>1. VfsInit => NothingStored
  <2> SUFFICES ASSUME VfsInit PROVE NothingStored
    OBVIOUS
  <2>1. IsPmm(PmmAfter(Memmap, VmmFrames))
    BY AfterBootIs, VfsAssumption
  <2>2. RAM0_SIZE \in 1 .. SizeMod - 1
    BY VfsAssumption
  <2>3. BootHeap(Memmap, VmmFrames, RAM0_SIZE).ptr = NULL
    BY <2>1, <2>2, FirstCallRefused DEF BootHeap
  <2>4. ram0_dev.data = NULL
    BY <2>3 DEF VfsInit
  <2>5. result.dev = "none"
    BY DEF VfsInit, Idle
  <2> QED
    BY <2>4, <2>5 DEF NothingStored
<1>2. VfsInv /\ NothingStored /\ [VfsNext]_vfs_vars => NothingStored'
  <2> SUFFICES ASSUME VfsInv, NothingStored, [VfsNext]_vfs_vars PROVE NothingStored'
    OBVIOUS
  <2>1. ram0_dev.data = NULL
    BY DEF NothingStored
  <2>2. \A off, len : Clip(off, len) = 0
    BY <2>1 DEF Clip
  <2>3. ram0_dev' = ram0_dev
    BY DEF VfsNext, Register, Read, Write, NotFound, vfs_vars
  <2>4. ASSUME NEW node \in Extra, Register(node) PROVE NothingStored'
    <3>1. result'.dev = "none"
      BY <2>4 DEF Register, Idle
    <3> QED
      BY <2>1, <2>3, <3>1 DEF NothingStored
  <2>5. ASSUME NEW name \in Names, NotFound(name) PROVE NothingStored'
    <3>1. result'.dev = "none"
      BY <2>5 DEF NotFound, Idle
    <3> QED
      BY <2>1, <2>3, <3>1 DEF NothingStored
  <2>6. ASSUME NEW name \in Names, NEW off \in Offsets, NEW bytes \in Contents,
               Read(name, off, Len(bytes))
        PROVE  NothingStored'
    <3> DEFINE dev == Find(name)
               len == Len(bytes)
    <3>1. PICK got \in Readings(dev, off, len) :
             result' = [dev |-> dev, off |-> off, n |-> Len(got), bytes |-> got, out |-> <<>>]
      BY <2>6 DEF Read
    <3>2. dev # "none" /\ VfsTypeOK
      BY <2>6 DEF Read, VfsInv
    <3>3. dev \in Devices /\ len \in Lengths
      BY <3>2, DeviceFound, SizesAre
    <3>4. ASSUME dev = "ram0" PROVE Len(got) = 0 /\ got = <<>>
      <4>1. Len(got) = Clip(off, len)
        BY <3>3, <3>4, ReadingsAre
      <4>2. got = [i \in 1 .. Clip(off, len) |-> storage[off + i - 1]]
        BY <3>3, <3>4, ReadingsAre
      <4>3. Clip(off, len) = 0
        BY <2>2
      <4>4. got = [i \in 1 .. 0 |-> storage[off + i - 1]]
        BY <4>2, <4>3
      <4>5. 1 .. 0 = {}
        OBVIOUS
      <4>6. got = <<>>
        BY <4>4, <4>5
      <4> QED
        BY <4>1, <4>3, <4>6
    <3> DEFINE n == Len(got)
    <3>5. result' = [dev |-> dev, off |-> off, n |-> n, bytes |-> got, out |-> <<>>]
      BY <3>1
    <3> HIDE DEF n, dev, len
    <3>6. result'.dev = dev /\ result'.n = n /\ result'.bytes = got
      BY <3>5
    <3>7. dev = "ram0" => n = 0 /\ got = <<>>
      BY <3>4 DEF n
    <3> QED
      BY <2>1, <2>3, <3>6, <3>7 DEF NothingStored
  <2>7. ASSUME NEW name \in Names, NEW off \in Offsets, NEW bytes \in Contents,
               Write(name, off, bytes)
        PROVE  NothingStored'
    <3>1. CASE Find(name) = "ram0"
      <4>1. Ram0Write(off, bytes)
        BY <2>7, <3>1 DEF Write
      <4>2. result' = [dev |-> "ram0", off |-> off, n |-> 0, bytes |-> <<>>, out |-> <<>>]
        BY <2>2, <4>1 DEF Ram0Write
      <4> QED
        BY <2>1, <2>3, <4>2 DEF NothingStored
    <3>2. CASE Find(name) # "ram0"
      <4> DEFINE dev == Find(name)
                 n == Len(bytes)
                 out == IF dev \in {"tty", "dmesg"} THEN bytes ELSE <<>>
      <4>1. result' = [dev |-> dev, off |-> off, n |-> n, bytes |-> <<>>, out |-> out]
        BY <2>7, <3>2 DEF Write, OtherWrite
      <4> HIDE DEF dev, n, out
      <4>2. result'.dev = dev
        BY <4>1
      <4>3. dev # "ram0"
        BY <3>2 DEF dev
      <4> QED
        BY <2>1, <2>3, <4>2, <4>3 DEF NothingStored
    <3> QED
      BY <3>1, <3>2
  <2>8. CASE UNCHANGED vfs_vars
    BY <2>8 DEF vfs_vars, NothingStored
  <2>9. ASSUME NEW name \in Names, NEW off \in Offsets, NEW len \in Lengths, Read(name, off, len)
        PROVE  NothingStored'
    <3>1. PICK bytes \in Contents : len = Len(bytes)
      BY DEF Lengths
    <3> QED
      BY <2>6, <2>9, <3>1
  <2> QED
    BY <2>4, <2>5, <2>7, <2>8, <2>9 DEF VfsNext
<1>3. NothingStored => (result.dev = "ram0" => result.n = 0 /\ result.bytes = <<>>)
  BY DEF NothingStored
<1> QED
  BY <1>1, <1>2, <1>3, VfsInvariant, PTL DEF VfsSpec

\* Who has storage: everyone whose ram0 fits one page of the heap, if boot leaves a
\* frame, and nobody whose ram0 does not fit two (heap.c:80-121).
LEMMA CapacityIs ==
    /\ RoundUp(RAM0_SIZE) > 2 * PageSize - Hdr => Capacity = 0
    /\ RoundUp(RAM0_SIZE) <= PageSize - Hdr /\ Allocatable(PmmAfter(Memmap, VmmFrames)) # {}
          => Capacity = RAM0_SIZE
<1> DEFINE p == PmmAfter(Memmap, VmmFrames)
<1>1. IsPmm(p)
  BY AfterBootIs, VfsAssumption
<1>2. RAM0_SIZE \in 0 .. SizeMod - 1 /\ RAM0_SIZE # 0 /\ RAM0_SIZE \in 1 .. SizeMod - 1
  BY VfsAssumption
<1> HIDE DEF p
<1>3. HeapFine(HeapOff, p, {})
  BY <1>1, HeapOffFine
<1>4. ASSUME RoundUp(RAM0_SIZE) <= PageSize - Hdr, Allocatable(p) # {}
      PROVE  Kmalloc(HeapOff, p, RAM0_SIZE).ptr # NULL
  BY <1>2, <1>3, <1>4, KmallocFine
<1>5. ASSUME RoundUp(RAM0_SIZE) > 2 * PageSize - Hdr
      PROVE  Kmalloc(HeapOff, p, RAM0_SIZE).ptr = NULL
  BY <1>1, <1>2, <1>5, FirstCallRefused
<1> QED
  BY <1>4, <1>5 DEF BootHeap, Capacity, p
=============================================================================
