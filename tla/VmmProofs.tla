------------------------------- MODULE VmmProofs -------------------------------
(* What holds of the page tables for every size of table and direct map, on  *)
(* every machine, whatever maps are made, filled and destroyed and whenever  *)
(* the frames run out: every frame taken hangs in exactly one map, all maps  *)
(* see the direct map, and each map is an address space of its own.          *)
EXTENDS Vmm, HeapOpsProofs

-----------------------------------------------------------------------------
(* The tables are trees.  t are the tables, k the kernel's top table, T the  *)
(* other top tables; home tells the top a table hangs under, lev its level,  *)
(* 3 for a top and 0 for a table of pages.                                   *)

TableEntry == [to : Nat, flags : {"absent", "table", "huge"} \cup Flags]

Homes(t, k, T, home, lev) ==
    /\ k \in DOMAIN t /\ T \subseteq DOMAIN t /\ k \notin T
    /\ DOMAIN home = DOMAIN t /\ DOMAIN lev = DOMAIN t
    /\ \A x \in DOMAIN t : /\ home[x] \in T \cup {k}
                           /\ lev[x] \in 0 .. 3
                           /\ lev[x] = 3 <=> x \in T \cup {k}
                           /\ home[x] = k => lev[x] > 0
    /\ \A x \in T \cup {k} : home[x] = x

\* Only the kernel's tables are reached from another map, through the upper half
\* of its top table; only they have large pages.
Leads(e, x, i, t, k, T, home, lev) ==
    /\ e \in TableEntry
    /\ e.flags = "absent" => e = NoEntry
    /\ e.flags = "table" => /\ e.to \in DOMAIN t
                            /\ lev[x] = lev[e.to] + 1
                            /\ home[e.to] = home[x] \/ (home[e.to] = k /\ x \in T /\ i >= Half)
    /\ e.flags = "huge" => lev[x] = 1 /\ home[x] = k
    /\ e.flags \in Flags => lev[x] = 0

Entries(t, k, T, home, lev) ==
    \A x \in DOMAIN t : /\ t[x] \in [Index -> TableEntry]
                        /\ \A i \in Index : Leads(t[x][i], x, i, t, k, T, home, lev)

\* A table that is no top hangs in its map.
Hanging(t, home) ==
    \A y \in DOMAIN t : home[y] # y =>
        \E x \in DOMAIN t, i \in Index : home[x] = home[y] /\ t[x][i] = Link(y)

\* No two entries of a map lead to the same table.
OneWay(t, home) ==
    \A x, z \in DOMAIN t : \A i, j \in Index :
        home[x] = home[z] /\ t[x][i].flags = "table" /\ t[x][i] = t[z][j] => x = z /\ i = j

\* All maps share the kernel's upper half.
UpperShared(t, k, T) == \A x \in T : \A i \in Index : i >= Half => t[x][i] = t[k][i]

Tree(t, k, T, home, lev) ==
    /\ Homes(t, k, T, home, lev)
    /\ Entries(t, k, T, home, lev)
    /\ Hanging(t, home)
    /\ OneWay(t, home)
    /\ UpperShared(t, k, T)

-----------------------------------------------------------------------------
(* Digits.                                                                   *)

\* A table has two halves of a page number's digits each.
LEMMA FanOutIs == FanOut \in Nat /\ FanOut >= 2 /\ Half \in Nat /\ FanOut = 2 * Half
BY VmmAssumption DEF Half

\* n is F times what is left of it when its last digit is dropped, and its
\* last digit.
LEMMA Divided ==
    ASSUME NEW n \in Nat
    PROVE  /\ n \div FanOut \in Nat /\ n % FanOut \in Index
           /\ n = FanOut * (n \div FanOut) + (n % FanOut)
<1>1. FanOut \in Nat \ {0}
    BY FanOutIs
<1>2. QED
    BY <1>1 DEF Index

\* Shifting by one digit more divides by the fan-out once more.
LEMMA ShiftedIs ==
    ASSUME NEW v \in Nat
    PROVE  /\ Shifted(v, 0) = v
           /\ Shifted(v, 1) = Shifted(v, 0) \div FanOut
           /\ Shifted(v, 2) = Shifted(v, 1) \div FanOut
           /\ Shifted(v, 3) = Shifted(v, 2) \div FanOut
           /\ \A l \in 0 .. 3 : Shifted(v, l) \in Nat /\ Digit(v, l) \in Index
<1>1. /\ Shifted(v, 0) = v
      /\ Shifted(v, 1) = Shifted(v, 0) \div FanOut
      /\ Shifted(v, 2) = Shifted(v, 1) \div FanOut
      /\ Shifted(v, 3) = Shifted(v, 2) \div FanOut
    BY DEF Shifted
<1>2. Shifted(v, 0) \in Nat
    BY <1>1
<1>3. Shifted(v, 1) \in Nat
    BY <1>1, <1>2, Divided
<1>4. Shifted(v, 2) \in Nat
    BY <1>1, <1>3, Divided
<1>5. Shifted(v, 3) \in Nat
    BY <1>1, <1>4, Divided
<1>6. ASSUME NEW l \in 0 .. 3 PROVE Shifted(v, l) \in Nat /\ Digit(v, l) \in Index
  <2>1. l = 0 \/ l = 1 \/ l = 2 \/ l = 3
    OBVIOUS
  <2>2. Shifted(v, l) \in Nat
    BY <1>2, <1>3, <1>4, <1>5, <2>1
  <2>3. QED
    BY <2>2, Divided DEF Digit
<1>7. QED
    BY <1>1, <1>6

\* Pages with the same digits at levels l and below are as far apart as what
\* is left of them above level l says.
LEMMA SameBelow ==
    ASSUME NEW u \in Nat, NEW v \in Nat, u % FanOut = v % FanOut
    PROVE  u - v = FanOut * ((u \div FanOut) - (v \div FanOut))
<1> DEFINE a == u \div FanOut   b == v \div FanOut   r == u % FanOut
<1>1. u = FanOut * a + r /\ v = FanOut * b + r /\ a \in Nat /\ b \in Nat /\ r \in Nat
  <2>1. u = FanOut * (u \div FanOut) + (u % FanOut) /\ a \in Nat /\ r \in Index
    BY Divided
  <2>2. v = FanOut * (v \div FanOut) + (v % FanOut) /\ b \in Nat
    BY Divided
  <2>3. QED
    BY <2>1, <2>2, FanOutIs DEF Index
<1> HIDE DEF a, b, r
<1>2. FanOut * (a - b) = FanOut * a - FanOut * b /\ FanOut * a \in Nat /\ FanOut * b \in Nat
    BY <1>1, FanOutIs
<1> DEFINE x == FanOut * a   y == FanOut * b
<1> HIDE DEF x, y
<1>3. x \in Nat /\ y \in Nat /\ u = x + r /\ v = y + r /\ FanOut * (a - b) = x - y
    BY <1>1, <1>2 DEF x, y
<1>4. u - v = x - y
    BY <1>1, <1>3
<1>5. QED
    BY <1>3, <1>4 DEF a, b

\* A page of the lower half has a digit of the lower half, and its digits tell
\* it from every other.
LEMMA LowerDigit ==
    ASSUME NEW v \in LowerPages
    PROVE  v \in Nat /\ Shifted(v, 3) < Half /\ Digit(v, 3) = Shifted(v, 3)
<1> DEFINE F == FanOut
           s == Shifted(v, 3)   s2 == Shifted(v, 2)   s1 == Shifted(v, 1)
<1>1. v \in Nat /\ v < Half * (F * (F * F)) /\ F \in Nat /\ F >= 2 /\ Half \in Nat /\ F = 2 * Half
    BY FanOutIs DEF LowerPages
<1>2. s \in Nat /\ s1 \in Nat /\ s2 \in Nat
    BY <1>1, ShiftedIs
<1>3. v >= F * s1 /\ s1 >= F * s2 /\ s2 >= F * s
  <2>1. s1 = v \div F /\ s2 = s1 \div F /\ s = s2 \div F
    BY <1>1, ShiftedIs
  <2> HIDE DEF s, s1, s2, F
  <2>2. \A n \in Nat : n >= F * (n \div F)
    BY <1>1
  <2>3. QED
    BY <1>1, <1>2, <2>1, <2>2
<1> HIDE DEF s, s1, s2, F
<1>4. v >= s * (F * (F * F))
  <2>1. F * s2 >= F * (F * s) /\ F * s1 >= F * (F * s2)
    BY <1>1, <1>2, <1>3
  <2>2. F * (F * s2) >= F * (F * (F * s))
    BY <1>1, <1>2, <1>3, <2>1
  <2>3. F * (F * (F * s)) = s * (F * (F * F))
    BY <1>1, <1>2
  <2> DEFINE a == F * s1   b == F * (F * s2)   c == F * (F * (F * s))
  <2>4. a \in Nat /\ b \in Nat /\ c \in Nat
    BY <1>1, <1>2
  <2> HIDE DEF a, b, c
  <2>5. v >= a /\ a >= b /\ b >= c
    BY <1>3, <2>1, <2>2 DEF a, b, c
  <2>6. v >= c
    BY <1>1, <2>4, <2>5
  <2>7. QED
    BY <2>3, <2>6 DEF c
<1>5. s < Half
  <2> DEFINE cube == F * (F * F)
  <2>1. cube \in Nat /\ v < Half * cube /\ v >= s * cube
    BY <1>1, <1>4
  <2> HIDE DEF cube
  <2>2. SUFFICES ASSUME s >= Half PROVE FALSE
    BY <1>1, <1>2
  <2>3. s * cube >= Half * cube
    BY <1>1, <1>2, <2>1, <2>2
  <2>4. s * cube \in Nat /\ Half * cube \in Nat
    BY <1>1, <1>2, <2>1
  <2> DEFINE a == s * cube   b == Half * cube
  <2> HIDE DEF a, b
  <2>5. v < b /\ v >= a /\ a >= b /\ a \in Nat /\ b \in Nat
    BY <2>1, <2>3, <2>4 DEF a, b
  <2>6. QED
    BY <1>1, <2>5
<1>6. s % F = s
    BY <1>1, <1>2, <1>5
<1>7. QED
    BY <1>1, <1>5, <1>6 DEF Digit, s, F

\* Pages of the lower half with the same four digits are the same.
LEMMA DigitsTell ==
    ASSUME NEW u \in LowerPages, NEW v \in LowerPages,
           \A l \in 0 .. 3 : Digit(u, l) = Digit(v, l)
    PROVE  u = v
<1>1. u \in Nat /\ v \in Nat /\ Shifted(u, 3) = Shifted(v, 3)
    BY LowerDigit
<1>2. \A x \in Nat, y \in Nat :
         x % FanOut = y % FanOut /\ x \div FanOut = y \div FanOut => x = y
  <2>1. ASSUME NEW x \in Nat, NEW y \in Nat,
               x % FanOut = y % FanOut, x \div FanOut = y \div FanOut
        PROVE  x = y
    <3>1. x = FanOut * (x \div FanOut) + (x % FanOut)
      BY Divided
    <3>2. y = FanOut * (y \div FanOut) + (y % FanOut)
      BY Divided
    <3>3. QED
      BY <2>1, <3>1, <3>2
  <2>2. QED
    BY <2>1
<1>3. Shifted(u, 2) = Shifted(v, 2)
    BY <1>1, <1>2, ShiftedIs DEF Digit
<1>4. Shifted(u, 1) = Shifted(v, 1)
    BY <1>1, <1>2, <1>3, ShiftedIs DEF Digit
<1>5. Shifted(u, 0) = Shifted(v, 0)
    BY <1>1, <1>2, <1>4, ShiftedIs DEF Digit
<1>6. QED
    BY <1>1, <1>5, ShiftedIs

\* No two large pages of the direct map have the same place.
LEMMA LargeApart ==
    ASSUME NEW i \in 0 .. HugePages - 1, NEW j \in 0 .. HugePages - 1,
           \A l \in 1 .. 3 : Digit(LargeAt(i), l) = Digit(LargeAt(j), l)
    PROVE  i = j
<1> DEFINE F == FanOut
           u == LargeAt(i)   v == LargeAt(j)
           d == (Shifted(u, 3) \div F) - (Shifted(v, 3) \div F)
<1>1. /\ F \in Nat /\ F >= 2 /\ i \in Nat /\ j \in Nat /\ Hhdm \in Nat
      /\ i - j < F * (F * F) /\ j - i < F * (F * F) /\ F * (F * F) \in Nat
  <2>1. F \in Nat /\ F >= 2 /\ Hhdm \in Nat /\ HugePages \in 1 .. F * (F * F)
    BY VmmAssumption
  <2> DEFINE cube == F * (F * F)
  <2>2. cube \in Nat
    BY <2>1
  <2> HIDE DEF cube
  <2>3. HugePages \in 1 .. cube
    BY <2>1 DEF cube
  <2>4. i - j < cube /\ j - i < cube
    BY <2>2, <2>3
  <2>5. QED
    BY <2>1, <2>2, <2>3, <2>4 DEF cube
<1>2. u \in Nat /\ v \in Nat
    BY <1>1 DEF LargeAt
<1>3. Shifted(u, 1) - Shifted(v, 1) = i - j
  <2> DEFINE q == Hhdm \div F   r == Hhdm % F
  <2>1. q \in Nat /\ r \in Nat /\ r < F /\ Hhdm = F * q + r
    BY <1>1, Divided DEF Index
  <2> HIDE DEF q, r
  <2>2. \A n \in Nat : (Hhdm + n * F) \div F = q + n
    <3>1. ASSUME NEW n \in Nat PROVE (Hhdm + n * F) \div F = q + n
      <4>1. Hhdm + n * F = F * (q + n) + r /\ q + n \in Nat
        BY <1>1, <2>1
      <4>2. QED
        BY <1>1, <2>1, <4>1
    <3>2. QED
      BY <3>1
  <2>3. Shifted(u, 1) = q + i /\ Shifted(v, 1) = q + j
    BY <1>1, <2>2 DEF LargeAt, Shifted
  <2>4. QED
    BY <1>1, <2>1, <2>3
<1>4. /\ Shifted(u, 1) - Shifted(v, 1) = F * (Shifted(u, 2) - Shifted(v, 2))
      /\ Shifted(u, 2) - Shifted(v, 2) = F * (Shifted(u, 3) - Shifted(v, 3))
      /\ Shifted(u, 3) - Shifted(v, 3) = F * d
  <2>1. \A l \in 1 .. 3 : /\ Shifted(u, l) % F = Shifted(v, l) % F
                          /\ Shifted(u, l) \in Nat /\ Shifted(v, l) \in Nat
    BY <1>2, ShiftedIs DEF Digit
  <2>2. \A l \in 1 .. 3 : Shifted(u, l) - Shifted(v, l)
                            = F * ((Shifted(u, l) \div F) - (Shifted(v, l) \div F))
    BY <2>1, SameBelow
  <2>3. /\ Shifted(u, 2) = Shifted(u, 1) \div F /\ Shifted(u, 3) = Shifted(u, 2) \div F
        /\ Shifted(v, 2) = Shifted(v, 1) \div F /\ Shifted(v, 3) = Shifted(v, 2) \div F
    BY <1>2, ShiftedIs
  <2>4. 1 \in 1 .. 3 /\ 2 \in 1 .. 3 /\ 3 \in 1 .. 3
    OBVIOUS
  <2> HIDE DEF u, v
  <2>5. QED
    BY <2>2, <2>3, <2>4
<1>5. d \in Int
    BY <1>1, <1>2, ShiftedIs
<1> HIDE DEF u, v, d, F
<1>6. i - j = (F * (F * F)) * d
    BY <1>1, <1>3, <1>4, <1>5
<1>7. d = 0
  <2> DEFINE cube == F * (F * F)
  <2> HIDE DEF cube
  <2>1. cube \in Nat /\ i - j = cube * d /\ i - j < cube /\ j - i < cube
    BY <1>1, <1>6 DEF cube
  <2>2. d >= 1 => cube * d >= cube
    BY <1>5, <2>1
  <2>3. d <= -1 => cube * d <= -cube
    BY <1>5, <2>1
  <2>4. cube * d \in Int
    BY <1>5, <2>1
  <2> DEFINE e == cube * d
  <2> HIDE DEF e
  <2>5. e \in Int /\ i - j = e /\ (d >= 1 => e >= cube) /\ (d <= -1 => e <= -cube)
    BY <2>1, <2>2, <2>3, <2>4 DEF e
  <2>6. QED
    BY <1>1, <1>5, <2>1, <2>5
<1>8. QED
    BY <1>1, <1>6, <1>7

-----------------------------------------------------------------------------
(* Entries and tables that come and go.                                      *)

\* No entry, a link to a table and a page are different entries, and links to
\* different tables differ.
LEMMA EntriesDiffer ==
    /\ NoEntry \in TableEntry /\ NoEntry.to = 0 /\ NoEntry.flags = "absent"
    /\ "absent" \notin Flags /\ "table" \notin Flags /\ "huge" \notin Flags
    /\ \A y \in Nat : Link(y) \in TableEntry /\ Link(y).to = y /\ Link(y).flags = "table"
    /\ \A y \in Nat : Link(y) # NoEntry
    /\ \A x \in Nat, y \in Nat : Link(x) = Link(y) => x = y
    /\ \A e \in TableEntry : e.flags = "table" => e = Link(e.to)
    /\ \A e \in TableEntry : e.to \in Nat
<1>1. Flags \subseteq {"KERNEL", "USER", "RODATA", "CODE"}
    BY VmmAssumption
<1>2. /\ NoEntry \in TableEntry /\ NoEntry.to = 0 /\ NoEntry.flags = "absent"
      /\ "absent" \notin Flags /\ "table" \notin Flags /\ "huge" \notin Flags
    BY <1>1 DEF NoEntry, TableEntry
<1>3. \A y \in Nat : Link(y) \in TableEntry /\ Link(y).to = y /\ Link(y).flags = "table"
    BY DEF Link, TableEntry
<1>4. \A e \in TableEntry : e.flags = "table" => e = Link(e.to)
    BY DEF Link, TableEntry
<1>5. \A e \in TableEntry : e.to \in Nat
    BY DEF TableEntry
<1>6. "absent" # "table"
    OBVIOUS
<1> HIDE DEF TableEntry
<1>7. \A y \in Nat : Link(y) # NoEntry
    BY <1>2, <1>3, <1>6
<1>8. \A x \in Nat, y \in Nat : Link(x) = Link(y) => x = y
    BY <1>3
<1>9. QED
    BY <1>2, <1>3, <1>4, <1>5, <1>7, <1>8

\* f, and v at y.
With(f, y, v) == [z \in DOMAIN f \cup {y} |-> IF z = y THEN v ELSE f[z]]

\* u is t with an empty table y, and entry i of table x leading to it.
Made(t, u, x, i, y) ==
    /\ DOMAIN u = DOMAIN t \cup {y}
    /\ u[y] = Empty
    /\ \A z \in DOMAIN t : u[z] = IF z = x THEN [t[x] EXCEPT ![i] = Link(y)] ELSE t[z]

\* The entries after y was made and hung at entry i of x.
LEMMA MadeEntries ==
    ASSUME NEW t, \A z \in DOMAIN t : t[z] \in [Index -> TableEntry],
           NEW x \in DOMAIN t, NEW i \in Index, NEW y \in Nat, y \notin DOMAIN t,
           NEW u, Made(t, u, x, i, y)
    PROVE  /\ \A z \in DOMAIN u : u[z] \in [Index -> TableEntry]
           /\ \A j \in Index : u[y][j] = NoEntry
           /\ u[x][i] = Link(y)
           /\ \A z \in DOMAIN t : \A j \in Index : z # x \/ j # i => u[z][j] = t[z][j]
<1>1. \A j \in Index : u[y][j] = NoEntry
    BY DEF Made, Empty
<1>2. u[y] \in [Index -> TableEntry]
    BY EntriesDiffer DEF Made, Empty
<1>3. t[x] \in [Index -> TableEntry] /\ u[x] = [t[x] EXCEPT ![i] = Link(y)]
    BY DEF Made
<1>4. Link(y) \in TableEntry
    BY EntriesDiffer
<1>5. u[x] \in [Index -> TableEntry] /\ u[x][i] = Link(y)
      /\ \A j \in Index : j # i => u[x][j] = t[x][j]
    BY <1>3, <1>4
<1>6. \A z \in DOMAIN t : z # x => u[z] = t[z]
    BY DEF Made
<1>7. DOMAIN u = DOMAIN t \cup {y}
    BY DEF Made
<1>8. QED
    BY <1>1, <1>2, <1>5, <1>6, <1>7

\* A new table hung in an empty entry leaves a tree: it belongs where x does,
\* one level down.
LEMMA LinkMade ==
    ASSUME NEW t, NEW k, NEW T, NEW home, NEW lev, Tree(t, k, T, home, lev),
           NEW x \in DOMAIN t, lev[x] > 0, home[x] = k => lev[x] > 1,
           NEW i \in Index, x \in T => i < Half, x = k => T = {}, t[x][i] = NoEntry,
           NEW y \in Nat, y \notin DOMAIN t,
           NEW u, Made(t, u, x, i, y)
    PROVE  Tree(u, k, T, With(home, y, home[x]), With(lev, y, lev[x] - 1))
<1> DEFINE home2 == With(home, y, home[x])
           lev2 == With(lev, y, lev[x] - 1)
<1>1. /\ k \in DOMAIN t /\ T \subseteq DOMAIN t /\ k \notin T
      /\ DOMAIN home = DOMAIN t /\ DOMAIN lev = DOMAIN t
      /\ \A z \in DOMAIN t : /\ home[z] \in T \cup {k}
                             /\ lev[z] \in 0 .. 3
                             /\ lev[z] = 3 <=> z \in T \cup {k}
                             /\ home[z] = k => lev[z] > 0
      /\ \A z \in T \cup {k} : home[z] = z
    BY DEF Tree, Homes
<1>2. /\ \A z \in DOMAIN t : t[z] \in [Index -> TableEntry]
      /\ \A z \in DOMAIN t : \A j \in Index : Leads(t[z][j], z, j, t, k, T, home, lev)
    BY DEF Tree, Entries
<1>3. /\ \A z \in DOMAIN u : u[z] \in [Index -> TableEntry]
      /\ \A j \in Index : u[y][j] = NoEntry
      /\ u[x][i] = Link(y)
      /\ \A z \in DOMAIN t : \A j \in Index : z # x \/ j # i => u[z][j] = t[z][j]
    BY <1>2, MadeEntries
<1>4. DOMAIN u = DOMAIN t \cup {y}
    BY DEF Made
<1>5. /\ DOMAIN home2 = DOMAIN u /\ DOMAIN lev2 = DOMAIN u
      /\ home2[y] = home[x] /\ lev2[y] = lev[x] - 1
      /\ \A z \in DOMAIN t : home2[z] = home[z] /\ lev2[z] = lev[z]
    BY <1>1, <1>4 DEF With
<1> HIDE DEF home2, lev2
<1>6. Homes(u, k, T, home2, lev2)
  <2>1. lev2[y] \in 0 .. 3 /\ lev2[y] # 3 /\ y \notin T \cup {k} /\ home2[y] \in T \cup {k}
    BY <1>1, <1>5
  <2>2. home2[y] = k => lev2[y] > 0
    BY <1>1, <1>5
  <2>3. QED
    BY <1>1, <1>4, <1>5, <2>1, <2>2 DEF Homes
<1>7. Entries(u, k, T, home2, lev2)
  <2>1. ASSUME NEW z \in DOMAIN u, NEW j \in Index
        PROVE  Leads(u[z][j], z, j, u, k, T, home2, lev2)
    <3>1. CASE z = y
      <4>1. u[z][j] = NoEntry
        BY <1>3, <3>1
      <4>2. QED
        BY <4>1, EntriesDiffer DEF Leads
    <3>2. CASE z = x /\ j = i
      <4>1. u[z][j] = Link(y) /\ y \in DOMAIN u /\ lev2[z] = lev2[y] + 1 /\ home2[y] = home2[z]
        BY <1>1, <1>3, <1>4, <1>5, <3>2
      <4>2. QED
        BY <4>1, EntriesDiffer DEF Leads
    <3>3. CASE z # y /\ ~(z = x /\ j = i)
      <4>1. z \in DOMAIN t /\ u[z][j] = t[z][j] /\ home2[z] = home[z] /\ lev2[z] = lev[z]
        BY <1>3, <1>4, <1>5, <3>3
      <4>2. Leads(t[z][j], z, j, t, k, T, home, lev)
        BY <1>2, <4>1
      <4>3. QED
        BY <1>4, <1>5, <4>1, <4>2 DEF Leads
    <3>4. QED
      BY <3>1, <3>2, <3>3
  <2>2. QED
    BY <1>3, <2>1 DEF Entries
<1>8. Hanging(u, home2)
  <2>1. ASSUME NEW w \in DOMAIN u, home2[w] # w
        PROVE  \E z \in DOMAIN u, j \in Index : home2[z] = home2[w] /\ u[z][j] = Link(w)
    <3>1. CASE w = y
      BY <1>3, <1>4, <1>5, <3>1
    <3>2. CASE w # y
      <4>1. w \in DOMAIN t /\ home[w] # w
        BY <1>4, <1>5, <2>1, <3>2
      <4>2. PICK z \in DOMAIN t, j \in Index : home[z] = home[w] /\ t[z][j] = Link(w)
        BY <4>1 DEF Tree, Hanging
      <4>3. ~(z = x /\ j = i)
        <5>1. t[z][j].flags = "table"
          BY <4>2 DEF Link
        <5>2. QED
          BY <5>1 DEF NoEntry
      <4>4. QED
        BY <1>3, <1>4, <1>5, <4>1, <4>2, <4>3
    <3>3. QED
      BY <3>1, <3>2
  <2>2. QED
    BY <2>1 DEF Hanging
<1>9. OneWay(u, home2)
  <2>1. \A z \in DOMAIN u : \A j \in Index :
           u[z][j].flags = "table" =>
               \/ z = x /\ j = i
               \/ z \in DOMAIN t /\ u[z][j] = t[z][j] /\ u[z][j] # Link(y)
    <3>1. \A z \in DOMAIN t : \A j \in Index : t[z][j].flags = "table" => t[z][j].to # y
      BY <1>2 DEF Leads
    <3>2. Link(y).to = y
      BY EntriesDiffer
    <3>3. NoEntry.flags # "table"
      BY EntriesDiffer
    <3>4. QED
      BY <1>3, <1>4, <3>1, <3>2, <3>3
  <2>2. ASSUME NEW a \in DOMAIN u, NEW z \in DOMAIN u, NEW b \in Index, NEW j \in Index,
               home2[a] = home2[z], u[a][b].flags = "table", u[a][b] = u[z][j]
        PROVE  a = z /\ b = j
    <3>1. CASE a = x /\ b = i
      BY <1>3, <2>1, <2>2, <3>1
    <3>2. CASE z = x /\ j = i
      BY <1>3, <2>1, <2>2, <3>2
    <3>3. CASE ~(a = x /\ b = i) /\ ~(z = x /\ j = i)
      <4>1. /\ a \in DOMAIN t /\ z \in DOMAIN t
            /\ t[a][b].flags = "table" /\ t[a][b] = t[z][j] /\ home[a] = home[z]
        BY <1>5, <2>1, <2>2, <3>3
      <4>2. QED
        BY <4>1 DEF Tree, OneWay
    <3>4. QED
      BY <3>1, <3>2, <3>3
  <2>3. QED
    BY <2>2 DEF OneWay
<1>10. UpperShared(u, k, T)
  <2>1. ASSUME NEW z \in T, NEW j \in Index, j >= Half
        PROVE  u[z][j] = u[k][j]
    <3>1. t[z][j] = t[k][j]
      BY <2>1 DEF Tree, UpperShared
    <3>2. ~(z = x /\ j = i)
      BY <2>1, FanOutIs DEF Index
    <3>3. k # x
      BY <2>1
    <3>4. QED
      BY <1>1, <1>3, <3>1, <3>2, <3>3
  <2>2. QED
    BY <2>1 DEF UpperShared
<1>11. QED
    BY <1>6, <1>7, <1>8, <1>9, <1>10 DEF Tree, home2, lev2

\* u is t with e in entry i of table x.
Changed(t, u, x, i, e) ==
    /\ DOMAIN u = DOMAIN t
    /\ \A z \in DOMAIN t : u[z] = IF z = x THEN [t[x] EXCEPT ![i] = e] ELSE t[z]

\* The entries after entry i of x became e.
LEMMA ChangedEntries ==
    ASSUME NEW t, \A z \in DOMAIN t : t[z] \in [Index -> TableEntry],
           NEW x \in DOMAIN t, NEW i \in Index, NEW e \in TableEntry,
           NEW u, Changed(t, u, x, i, e)
    PROVE  /\ \A z \in DOMAIN u : u[z] \in [Index -> TableEntry]
           /\ u[x][i] = e
           /\ \A z \in DOMAIN t : \A j \in Index : z # x \/ j # i => u[z][j] = t[z][j]
<1>1. t[x] \in [Index -> TableEntry] /\ u[x] = [t[x] EXCEPT ![i] = e]
    BY DEF Changed
<1>2. u[x] \in [Index -> TableEntry] /\ u[x][i] = e
      /\ \A j \in Index : j # i => u[x][j] = t[x][j]
    BY <1>1
<1>3. DOMAIN u = DOMAIN t /\ \A z \in DOMAIN t : z # x => u[z] = t[z]
    BY DEF Changed
<1>4. QED
    BY <1>2, <1>3

\* An entry that leads to no table, in place of one that led to none.
LEMMA EntryChanged ==
    ASSUME NEW t, NEW k, NEW T, NEW home, NEW lev, Tree(t, k, T, home, lev),
           NEW x \in DOMAIN t, lev[x] # 3, NEW i \in Index, t[x][i].flags # "table",
           NEW e \in TableEntry, e.flags # "table", Leads(e, x, i, t, k, T, home, lev),
           NEW u, Changed(t, u, x, i, e)
    PROVE  Tree(u, k, T, home, lev)
<1>1. DOMAIN u = DOMAIN t /\ k \in DOMAIN t /\ T \subseteq DOMAIN t
      /\ \A z \in T \cup {k} : z # x
    BY DEF Tree, Homes, Changed
<1>2. /\ \A z \in DOMAIN t : t[z] \in [Index -> TableEntry]
      /\ \A z \in DOMAIN t : \A j \in Index : Leads(t[z][j], z, j, t, k, T, home, lev)
    BY DEF Tree, Entries
<1>3. /\ \A z \in DOMAIN u : u[z] \in [Index -> TableEntry]
      /\ u[x][i] = e
      /\ \A z \in DOMAIN t : \A j \in Index : z # x \/ j # i => u[z][j] = t[z][j]
    BY <1>2, ChangedEntries
<1>4. Homes(u, k, T, home, lev)
    BY <1>1 DEF Tree, Homes
<1>5. Entries(u, k, T, home, lev)
  <2>1. ASSUME NEW z \in DOMAIN u, NEW j \in Index
        PROVE  Leads(u[z][j], z, j, u, k, T, home, lev)
    <3>1. Leads(u[z][j], z, j, t, k, T, home, lev)
      BY <1>1, <1>2, <1>3
    <3>2. QED
      BY <1>1, <3>1 DEF Leads
  <2>2. QED
    BY <1>3, <2>1 DEF Entries
<1>6. \A z \in DOMAIN t : \A j \in Index :
         /\ u[z][j].flags = "table" => u[z][j] = t[z][j]
         /\ t[z][j].flags = "table" => u[z][j] = t[z][j]
    BY <1>3
<1>7. Hanging(u, home)
  <2>1. ASSUME NEW w \in DOMAIN u, home[w] # w
        PROVE  \E z \in DOMAIN u, j \in Index : home[z] = home[w] /\ u[z][j] = Link(w)
    <3>1. PICK z \in DOMAIN t, j \in Index : home[z] = home[w] /\ t[z][j] = Link(w)
      BY <1>1, <2>1 DEF Tree, Hanging
    <3>2. t[z][j].flags = "table"
      BY <3>1 DEF Link
    <3>3. QED
      BY <1>1, <1>6, <3>1, <3>2
  <2>2. QED
    BY <2>1 DEF Hanging
<1>8. OneWay(u, home)
  <2>1. ASSUME NEW a \in DOMAIN u, NEW z \in DOMAIN u, NEW b \in Index, NEW j \in Index,
               home[a] = home[z], u[a][b].flags = "table", u[a][b] = u[z][j]
        PROVE  a = z /\ b = j
    <3>1. t[a][b].flags = "table" /\ t[a][b] = t[z][j]
      BY <1>1, <1>6, <2>1
    <3>2. QED
      BY <1>1, <2>1, <3>1 DEF Tree, OneWay
  <2>2. QED
    BY <2>1 DEF OneWay
<1>9. UpperShared(u, k, T)
  <2>1. ASSUME NEW z \in T, NEW j \in Index, j >= Half
        PROVE  u[z][j] = u[k][j]
    <3>1. t[z][j] = t[k][j]
      BY <2>1 DEF Tree, UpperShared
    <3>2. QED
      BY <1>1, <1>3, <3>1
  <2>2. QED
    BY <2>1 DEF UpperShared
<1>10. QED
    BY <1>4, <1>5, <1>7, <1>8, <1>9 DEF Tree

\* A table that shares the upper half of k.
Sharing(t, k) == [i \in Index |-> IF i < Half THEN NoEntry ELSE t[k][i]]

\* u is t with a new top table y that shares the upper half of k's.
Topped(t, u, k, y) ==
    /\ DOMAIN u = DOMAIN t \cup {y}
    /\ u[y] = Sharing(t, k)
    /\ \A z \in DOMAIN t : u[z] = t[z]

\* A new top table that copies the kernel's upper half leaves a tree.
LEMMA TopMade ==
    ASSUME NEW t, NEW k, NEW T, NEW home, NEW lev, Tree(t, k, T, home, lev),
           NEW y \in Nat, y \notin DOMAIN t, NEW u, Topped(t, u, k, y)
    PROVE  Tree(u, k, T \cup {y}, With(home, y, y), With(lev, y, 3))
<1> DEFINE home2 == With(home, y, y)
           lev2 == With(lev, y, 3)
           T2 == T \cup {y}
<1>1. /\ k \in DOMAIN t /\ T \subseteq DOMAIN t /\ k \notin T
      /\ DOMAIN home = DOMAIN t /\ DOMAIN lev = DOMAIN t
      /\ \A z \in DOMAIN t : /\ home[z] \in T \cup {k}
                             /\ lev[z] \in 0 .. 3
                             /\ lev[z] = 3 <=> z \in T \cup {k}
                             /\ home[z] = k => lev[z] > 0
      /\ \A z \in T \cup {k} : home[z] = z
    BY DEF Tree, Homes
<1>2. /\ \A z \in DOMAIN t : t[z] \in [Index -> TableEntry]
      /\ \A z \in DOMAIN t : \A j \in Index : Leads(t[z][j], z, j, t, k, T, home, lev)
    BY DEF Tree, Entries
<1>3. DOMAIN u = DOMAIN t \cup {y} /\ (\A z \in DOMAIN t : u[z] = t[z])
      /\ \A i \in Index : u[y][i] = IF i < Half THEN NoEntry ELSE t[k][i]
    BY DEF Topped, Sharing
<1>4. u[y] \in [Index -> TableEntry]
  <2>1. \A i \in Index : t[k][i] \in TableEntry
    BY <1>1, <1>2
  <2>2. u[y] = [i \in Index |-> IF i < Half THEN NoEntry ELSE t[k][i]]
    BY DEF Topped, Sharing
  <2>3. QED
    BY <2>1, <2>2, EntriesDiffer
<1>5. /\ DOMAIN home2 = DOMAIN u /\ DOMAIN lev2 = DOMAIN u
      /\ home2[y] = y /\ lev2[y] = 3
      /\ \A z \in DOMAIN t : home2[z] = home[z] /\ lev2[z] = lev[z]
    BY <1>1, <1>3 DEF With
<1> HIDE DEF home2, lev2
<1>6. Homes(u, k, T2, home2, lev2)
    BY <1>1, <1>3, <1>5 DEF Homes
<1>7. Entries(u, k, T2, home2, lev2)
  <2>1. ASSUME NEW z \in DOMAIN u, NEW j \in Index
        PROVE  Leads(u[z][j], z, j, u, k, T2, home2, lev2)
    <3>1. CASE z = y /\ j < Half
      <4>1. u[z][j] = NoEntry
        BY <1>3, <3>1
      <4>2. QED
        BY <4>1, EntriesDiffer DEF Leads
    <3>2. CASE z = y /\ ~(j < Half)
      <4>1. u[z][j] = t[k][j] /\ j >= Half /\ j \in Nat
        BY <1>3, <3>2, FanOutIs DEF Index
      <4>2. Leads(t[k][j], k, j, t, k, T, home, lev) /\ lev[k] = 3 /\ home[k] = k
        BY <1>1, <1>2
      <4>3. t[k][j].flags = "table" =>
               /\ t[k][j].to \in DOMAIN t /\ lev[t[k][j].to] + 1 = 3
               /\ home[t[k][j].to] = k
        BY <4>2 DEF Leads
      <4>4. t[k][j].flags # "huge" /\ t[k][j].flags \notin Flags
        BY <4>2 DEF Leads
      <4>5. t[k][j] \in TableEntry /\ (t[k][j].flags = "absent" => t[k][j] = NoEntry)
        BY <4>2 DEF Leads
      <4>6. QED
        BY <1>3, <1>5, <3>2, <4>1, <4>3, <4>4, <4>5 DEF Leads
    <3>3. CASE z # y
      <4>1. z \in DOMAIN t /\ u[z][j] = t[z][j] /\ home2[z] = home[z] /\ lev2[z] = lev[z]
        BY <1>3, <1>5, <3>3
      <4>2. Leads(t[z][j], z, j, t, k, T, home, lev)
        BY <1>2, <4>1
      <4>3. QED
        BY <1>3, <1>5, <4>1, <4>2 DEF Leads
    <3>4. QED
      BY <3>1, <3>2, <3>3
  <2>2. QED
    BY <1>2, <1>3, <1>4, <2>1 DEF Entries
<1>8. Hanging(u, home2)
  <2>1. ASSUME NEW w \in DOMAIN u, home2[w] # w
        PROVE  \E z \in DOMAIN u, j \in Index : home2[z] = home2[w] /\ u[z][j] = Link(w)
    <3>1. w \in DOMAIN t /\ home[w] # w
      BY <1>3, <1>5, <2>1
    <3>2. PICK z \in DOMAIN t, j \in Index : home[z] = home[w] /\ t[z][j] = Link(w)
      BY <3>1 DEF Tree, Hanging
    <3>3. QED
      BY <1>3, <1>5, <3>1, <3>2
  <2>2. QED
    BY <2>1 DEF Hanging
<1>9. OneWay(u, home2)
  <2>1. ASSUME NEW a \in DOMAIN u, NEW z \in DOMAIN u, NEW b \in Index, NEW j \in Index,
               home2[a] = home2[z], u[a][b].flags = "table", u[a][b] = u[z][j]
        PROVE  a = z /\ b = j
    <3>1. CASE a = y
      <4>1. z = y
        BY <1>1, <1>3, <1>5, <2>1, <3>1
      <4>2. u[y][b] = t[k][b] /\ u[y][j] = t[k][j]
        BY <1>3, <2>1, <3>1, <4>1, EntriesDiffer
      <4>3. t[k][b].flags = "table" /\ t[k][b] = t[k][j]
        BY <2>1, <3>1, <4>1, <4>2
      <4>4. QED
        BY <1>1, <3>1, <4>1, <4>3 DEF Tree, OneWay
    <3>2. CASE a # y
      <4>1. a \in DOMAIN t /\ z \in DOMAIN t
        BY <1>1, <1>3, <1>5, <2>1, <3>2
      <4>2. t[a][b].flags = "table" /\ t[a][b] = t[z][j] /\ home[a] = home[z]
        BY <1>3, <1>5, <2>1, <4>1
      <4>3. QED
        BY <4>1, <4>2 DEF Tree, OneWay
    <3>3. QED
      BY <3>1, <3>2
  <2>2. QED
    BY <2>1 DEF OneWay
<1>10. UpperShared(u, k, T2)
  <2>1. ASSUME NEW z \in T2, NEW j \in Index, j >= Half
        PROVE  u[z][j] = u[k][j]
    <3>1. u[k][j] = t[k][j]
      BY <1>1, <1>3
    <3>2. CASE z = y
      <4>1. ~(j < Half)
        BY <2>1, FanOutIs DEF Index
      <4>2. QED
        BY <1>3, <3>1, <3>2, <4>1
    <3>3. CASE z \in T
      <4>1. t[z][j] = t[k][j] /\ z \in DOMAIN t
        BY <1>1, <2>1, <3>3 DEF Tree, UpperShared
      <4>2. QED
        BY <1>3, <3>1, <4>1
    <3>4. QED
      BY <3>2, <3>3
  <2>2. QED
    BY <2>1 DEF UpperShared
<1>11. QED
    BY <1>6, <1>7, <1>8, <1>9, <1>10 DEF Tree, home2, lev2

\* The tables of a map, and all others when it is cut down.
Own(t, home, f) == {x \in DOMAIN t : home[x] = f}

Only(f, D) == [x \in D |-> f[x]]

\* What is left of a tree without one map's own tables is a tree.
LEMMA TreeCut ==
    ASSUME NEW t, NEW k, NEW T, NEW home, NEW lev, Tree(t, k, T, home, lev),
           NEW f \in T, NEW D, D = DOMAIN t \ Own(t, home, f),
           NEW u, u = Only(t, D)
    PROVE  Tree(u, k, T \ {f}, Only(home, D), Only(lev, D))
<1> DEFINE home2 == Only(home, D)
           lev2 == Only(lev, D)
           T2 == T \ {f}
<1>1. /\ k \in DOMAIN t /\ T \subseteq DOMAIN t /\ k \notin T
      /\ DOMAIN home = DOMAIN t /\ DOMAIN lev = DOMAIN t
      /\ \A z \in DOMAIN t : /\ home[z] \in T \cup {k}
                             /\ lev[z] \in 0 .. 3
                             /\ lev[z] = 3 <=> z \in T \cup {k}
                             /\ home[z] = k => lev[z] > 0
      /\ \A z \in T \cup {k} : home[z] = z
    BY DEF Tree, Homes
<1>2. /\ \A z \in DOMAIN t : t[z] \in [Index -> TableEntry]
      /\ \A z \in DOMAIN t : \A j \in Index : Leads(t[z][j], z, j, t, k, T, home, lev)
    BY DEF Tree, Entries
<1>3. /\ DOMAIN u = D /\ \A z \in D : u[z] = t[z] /\ z \in DOMAIN t /\ home[z] # f
      /\ \A z \in DOMAIN t : home[z] # f => z \in D
    BY DEF Own, Only
<1>4. /\ DOMAIN home2 = D /\ DOMAIN lev2 = D
      /\ \A z \in D : home2[z] = home[z] /\ lev2[z] = lev[z]
    BY DEF Only
<1> HIDE DEF home2, lev2
<1>5. f # k /\ T2 \subseteq D /\ k \in D
    BY <1>1, <1>3
<1>6. Homes(u, k, T2, home2, lev2)
    BY <1>1, <1>3, <1>4, <1>5 DEF Homes
<1>7. Entries(u, k, T2, home2, lev2)
  <2>1. ASSUME NEW z \in D, NEW j \in Index
        PROVE  Leads(t[z][j], z, j, u, k, T2, home2, lev2)
    <3>1. Leads(t[z][j], z, j, t, k, T, home, lev) /\ home2[z] = home[z] /\ lev2[z] = lev[z]
      BY <1>2, <1>3, <1>4
    <3>2. z \in T => z \in T2
      BY <1>1, <1>3
    <3>3. t[z][j].flags = "table" => t[z][j].to \in D
      BY <1>3, <1>5, <3>1 DEF Leads
    <3>4. QED
      BY <1>3, <1>4, <3>1, <3>2, <3>3 DEF Leads
  <2>2. QED
    BY <1>2, <1>3, <2>1 DEF Entries
<1>8. Hanging(u, home2)
  <2>1. ASSUME NEW w \in D, home2[w] # w
        PROVE  \E z \in D, j \in Index : home2[z] = home2[w] /\ u[z][j] = Link(w)
    <3>1. PICK z \in DOMAIN t, j \in Index : home[z] = home[w] /\ t[z][j] = Link(w)
      BY <1>3, <1>4, <2>1 DEF Tree, Hanging
    <3>2. z \in D
      BY <1>3, <3>1
    <3>3. QED
      BY <1>3, <1>4, <3>1, <3>2
  <2>2. QED
    BY <1>3, <2>1 DEF Hanging
<1>9. OneWay(u, home2)
  <2>1. ASSUME NEW a \in D, NEW z \in D, NEW b \in Index, NEW j \in Index,
               home2[a] = home2[z], u[a][b].flags = "table", u[a][b] = u[z][j]
        PROVE  a = z /\ b = j
    <3>1. t[a][b].flags = "table" /\ t[a][b] = t[z][j] /\ home[a] = home[z]
      BY <1>3, <1>4, <2>1
    <3>2. QED
      BY <1>3, <3>1 DEF Tree, OneWay
  <2>2. DOMAIN u = D
    BY <1>3
  <2>3. QED
    BY <2>1, <2>2 DEF OneWay
<1>10. UpperShared(u, k, T2)
  <2>1. ASSUME NEW z \in T2, NEW j \in Index, j >= Half
        PROVE  u[z][j] = u[k][j]
    <3>1. t[z][j] = t[k][j]
      BY <2>1 DEF Tree, UpperShared
    <3>2. QED
      BY <1>3, <1>5, <3>1
  <2>2. QED
    BY <2>1 DEF UpperShared
<1>11. QED
    BY <1>6, <1>7, <1>8, <1>9, <1>10 DEF Tree, home2, lev2

-----------------------------------------------------------------------------
(* Memory: the frames in use are boot's and the tables.                      *)

FramesFine(m) ==
    /\ m = Memory(m.pmm, m.tables)
    /\ IsPmm(m.pmm) /\ m.pmm.total = TotalPages(Memmap)
    /\ BootReserved \subseteq m.pmm.used
    /\ DOMAIN m.tables = m.pmm.used \ BootReserved
    /\ DOMAIN m.tables \subseteq FirstFrame .. m.pmm.total - 1

MemoryFine(m, k, T, home, lev) == FramesFine(m) /\ Tree(m.tables, k, T, home, lev)

\* A table is in a frame of memory, never at NULL.
LEMMA FramesAre ==
    ASSUME NEW m, FramesFine(m)
    PROVE  \A x \in DOMAIN m.tables : x \in Nat /\ x # NULL /\ x < Hhdm /\ x < m.pmm.total
<1>1. m.pmm.total \in Nat /\ m.pmm.total * PageSize <= MaxPhys
    BY DEF FramesFine, IsPmm
<1>2. PageSize \in Nat \ {0} /\ MaxPhys \in Nat /\ FirstFrame \in Nat \ {0} /\ Hhdm \in Nat
      /\ Hhdm > MaxPhys
    BY PageAssumption, VmmAssumption, FirstFramePositive
<1> DEFINE t == m.pmm.total
<1>3. t * PageSize >= t
  <2> HIDE DEF t
  <2>1. \A a \in Nat, b \in Nat \ {0} : a * b >= a
    OBVIOUS
  <2>2. QED
    BY <1>1, <1>2, <2>1 DEF t
<1>4. DOMAIN m.tables \subseteq FirstFrame .. t - 1
    BY DEF FramesFine
<1>5. t <= MaxPhys
  <2> DEFINE p == t * PageSize
  <2>1. p \in Nat /\ p >= t /\ p <= MaxPhys
    BY <1>1, <1>2, <1>3
  <2> HIDE DEF p, t
  <2>2. QED
    BY <1>1, <1>2, <2>1 DEF t
<1> HIDE DEF t
<1>6. QED
    BY <1>1, <1>2, <1>4, <1>5 DEF NULL, t

\* An entry written is changed, and nothing else.
LEMMA PutIs ==
    ASSUME NEW m, FramesFine(m), NEW f \in DOMAIN m.tables, NEW i, NEW e,
           NEW n, n = Put(m, f, i, e)
    PROVE  /\ FramesFine(n) /\ n.pmm = m.pmm
           /\ Changed(m.tables, n.tables, f, i, e)
<1>1. m = [pmm |-> m.pmm, tables |-> m.tables]
    BY DEF FramesFine, Memory
<1>2. n = [pmm |-> m.pmm, tables |-> [m.tables EXCEPT ![f][i] = e]]
    BY <1>1 DEF Put
<1>3. n.pmm = m.pmm /\ n.tables = [m.tables EXCEPT ![f][i] = e]
    BY <1>2
<1>4. DOMAIN n.tables = DOMAIN m.tables
    BY <1>3
<1>5. Changed(m.tables, n.tables, f, i, e)
    BY <1>3 DEF Changed
<1>6. n = [pmm |-> n.pmm, tables |-> n.tables]
    BY <1>2, <1>3
<1>7. QED
    BY <1>3, <1>4, <1>5, <1>6 DEF FramesFine, Memory

\* What alloc_table does to the memory.
TookTable(m, n, y) ==
    /\ FramesFine(n)
    /\ y \in Nat /\ y # NULL /\ y \notin DOMAIN m.tables
    /\ DOMAIN n.tables = DOMAIN m.tables \cup {y}
    /\ n.tables[y] = Empty
    /\ \A z \in DOMAIN m.tables : n.tables[z] = m.tables[z]

\* A table is taken from the allocatable frames, or there are none and nothing
\* changes.
LEMMA AllocTableIs ==
    ASSUME NEW m, FramesFine(m), NEW r, r = AllocTable(m)
    PROVE  /\ r.at = NULL => r.mem = m /\ Allocatable(m.pmm) = {}
           /\ r.at # NULL => TookTable(m, r.mem, r.at)
<1> DEFINE a == PmmAlloc(m.pmm)
           y == a.frame
           u == [g \in DOMAIN m.tables \cup {y} |-> IF g = y THEN Empty ELSE m.tables[g]]
<1>1. /\ IsPmm(a.pmm) /\ a.pmm.total = m.pmm.total
      /\ y = NULL => Allocatable(m.pmm) = {}
      /\ y # NULL => /\ y \in Allocatable(m.pmm)
                     /\ y \in FirstFrame .. m.pmm.total - 1 /\ y \in Nat \ {0}
                     /\ a.pmm.used = m.pmm.used \cup {y}
    BY AllocIs DEF FramesFine
<1>2. r.at = y /\ r.mem = IF y = NULL THEN m
                          ELSE WithTable([m EXCEPT !.pmm = a.pmm], y, Empty)
    BY DEF AllocTable
<1> HIDE DEF a, y
<1>3. ASSUME y # NULL PROVE TookTable(m, r.mem, y)
  <2>1. m = [pmm |-> m.pmm, tables |-> m.tables]
    BY DEF FramesFine, Memory
  <2>2. r.mem = [pmm |-> a.pmm, tables |-> u]
    BY <1>2, <1>3, <2>1 DEF WithTable
  <2>3. r.mem.pmm = a.pmm /\ r.mem.tables = u /\ r.mem = Memory(r.mem.pmm, r.mem.tables)
    BY <2>2 DEF Memory
  <2>4. y \notin m.pmm.used /\ y \notin BootReserved
    BY <1>1, <1>3 DEF Allocatable, FramesFine
  <2>5. /\ DOMAIN u = DOMAIN m.tables \cup {y} /\ u[y] = Empty
        /\ y \notin DOMAIN m.tables
        /\ \A z \in DOMAIN m.tables : u[z] = m.tables[z]
    BY <2>4 DEF FramesFine
  <2> HIDE DEF u
  <2>6. FramesFine(r.mem)
    BY <1>1, <1>3, <2>3, <2>4, <2>5 DEF FramesFine
  <2>7. QED
    BY <1>1, <1>3, <2>3, <2>5, <2>6 DEF TookTable
<1>4. QED
    BY <1>1, <1>2, <1>3

\* m has grown into n, of which home2 and lev2 tell: no table has moved, and
\* each still leads where it did.
Kept(m, n, home, lev, home2, lev2) ==
    /\ DOMAIN m.tables \subseteq DOMAIN n.tables
    /\ \A z \in DOMAIN m.tables : home2[z] = home[z] /\ lev2[z] = lev[z]
    /\ \A z \in DOMAIN m.tables : \A j \in Index :
          m.tables[z][j].flags \in {"table", "huge"} => n.tables[z][j] = m.tables[z][j]

\* What get_or_create returns for entry i of table x when there is a frame: a
\* table of the same map, one level down.
Got(m, r, k, T, home, lev, x, i, home2, lev2) ==
    /\ MemoryFine(r.mem, k, T, home2, lev2)
    /\ Kept(m, r.mem, home, lev, home2, lev2)
    /\ r.at \in DOMAIN r.mem.tables
    /\ lev2[r.at] = lev[x] - 1 /\ home2[r.at] = home[x]
    /\ r.mem.tables[x][i] = Link(r.at)
    /\ \/ r.mem = m
       \/ /\ m.tables[x][i] = NoEntry
          /\ r.at \notin DOMAIN m.tables
          /\ Made(m.tables, r.mem.tables, x, i, r.at)

\* Where the walks make tables: not in the kernel's map once there are others,
\* and not in the half they share with it.
MayGrow(T, k, home, lev, x, i) ==
    /\ lev[x] > 0 /\ (home[x] = k => lev[x] > 1)
    /\ i \in Index /\ (x \in T => i < Half)
    /\ x = k => T = {}

\* get_or_create finds a table, or makes one where the tree may grow, or
\* runs out of frames and changes nothing.
LEMMA GetOrCreateIs ==
    ASSUME NEW m, NEW k, NEW T, NEW home, NEW lev, MemoryFine(m, k, T, home, lev),
           NEW x \in DOMAIN m.tables, NEW i, MayGrow(T, k, home, lev, x, i),
           NEW r, r = GetOrCreate(m, x, i)
    PROVE  /\ r.at = NULL => r.mem = m
           /\ r.at # NULL => \E home2, lev2 : Got(m, r, k, T, home, lev, x, i, home2, lev2)
<1> DEFINE t == m.tables
           e == t[x][i]
           new == AllocTable(m)
<1>1. FramesFine(m) /\ Tree(t, k, T, home, lev) /\ i \in Index /\ lev[x] > 0
    BY DEF MemoryFine, MayGrow
<1>2. /\ Leads(e, x, i, t, k, T, home, lev)
      /\ \A z \in DOMAIN t : t[z] \in [Index -> TableEntry]
      /\ x \in T \cup {k} => home[x] = x
      /\ home[x] = k => lev[x] > 1
      /\ lev[x] \in 0 .. 3
    BY <1>1 DEF Tree, Entries, Homes, MayGrow
<1>3. CASE Present(e)
  <2>1. r = [mem |-> m, at |-> e.to]
    BY <1>3 DEF GetOrCreate
  <2>2. e.flags = "table"
    <3>1. e.flags \in {"absent", "table", "huge"} \cup Flags
      BY <1>2 DEF Leads, TableEntry
    <3>2. e.flags # "absent" /\ e.flags # "huge" /\ e.flags \notin Flags
      BY <1>1, <1>2, <1>3 DEF Leads, Present
    <3>3. QED
      BY <3>1, <3>2
  <2>3. /\ e.to \in DOMAIN t /\ lev[x] = lev[e.to] + 1
        /\ home[e.to] = home[x] \/ (home[e.to] = k /\ x \in T /\ i >= Half)
    BY <1>2, <2>2 DEF Leads
  <2>4. home[e.to] = home[x]
    BY <2>3, FanOutIs DEF MayGrow, Index
  <2>5. lev[e.to] \in 0 .. 3
    BY <1>1, <2>3 DEF Tree, Homes
  <2>6. e = Link(e.to) /\ e.to # NULL
    BY <1>1, <1>2, <2>2, <2>3, EntriesDiffer, FramesAre DEF Leads
  <2>7. lev[e.to] = lev[x] - 1
    BY <1>2, <2>3, <2>5
  <2>8. Kept(m, m, home, lev, home, lev)
    BY DEF Kept
  <2>9. r.mem = m /\ r.at = e.to
    BY <2>1
  <2> HIDE DEF e
  <2>10. r.mem.tables[x][i] = Link(r.at)
    BY <2>6, <2>9 DEF e
  <2>11. Got(m, r, k, T, home, lev, x, i, home, lev)
    BY <2>3, <2>4, <2>7, <2>8, <2>9, <2>10 DEF Got
  <2>12. QED
    BY <2>6, <2>9, <2>11
<1>4. CASE ~Present(e)
  <2>1. e = NoEntry
    BY <1>2, <1>4 DEF Leads, Present
  <2>2. r = IF new.at = NULL THEN new ELSE [new EXCEPT !.mem = Put(@, x, i, Link(new.at))]
    BY <1>4 DEF GetOrCreate
  <2>3. new = [mem |-> new.mem, at |-> new.at]
    BY DEF AllocTable
  <2>4. CASE new.at = NULL
    <3>1. r = new
      BY <2>2, <2>4
    <3>2. QED
      BY <1>1, <2>4, <3>1, AllocTableIs
  <2>5. CASE new.at # NULL
    <3> DEFINE y == new.at
               n == Put(new.mem, x, i, Link(y))
    <3>1. r.mem = n /\ r.at = y
      BY <2>2, <2>3, <2>5
    <3>2. TookTable(m, new.mem, y)
      BY <1>1, <2>5, AllocTableIs
    <3> HIDE DEF y, new, n
    <3>3. x \in DOMAIN new.mem.tables /\ FramesFine(new.mem)
      BY <3>2 DEF TookTable
    <3>4. FramesFine(n) /\ Changed(new.mem.tables, n.tables, x, i, Link(y))
      BY <3>3, PutIs DEF n
    <3>5. Made(t, n.tables, x, i, y) /\ y \in Nat /\ y # NULL /\ y \notin DOMAIN t
      BY <3>2, <3>4 DEF TookTable, Changed, Made
    <3>6. Tree(n.tables, k, T, With(home, y, home[x]), With(lev, y, lev[x] - 1))
      BY <1>1, <2>1, <3>5, LinkMade DEF MayGrow
    <3>7. n.tables[x][i] = Link(y)
      BY <1>1, <1>2, <3>5, MadeEntries
    <3> DEFINE home2 == With(home, y, home[x])   lev2 == With(lev, y, lev[x] - 1)
    <3>8. /\ home2[y] = home[x] /\ lev2[y] = lev[x] - 1
          /\ \A z \in DOMAIN t : home2[z] = home[z] /\ lev2[z] = lev[z]
      BY <1>1, <3>5 DEF With, Tree, Homes
    <3> HIDE DEF home2, lev2
    <3>9. Kept(m, n, home, lev, home2, lev2) /\ y \in DOMAIN n.tables
      <4>1. \A z \in DOMAIN t : \A j \in Index : z # x \/ j # i => n.tables[z][j] = t[z][j]
        BY <1>1, <1>2, <3>5, MadeEntries
      <4>2. t[x][i].flags \notin {"table", "huge"}
        BY <2>1, EntriesDiffer
      <4>3. DOMAIN t \subseteq DOMAIN n.tables /\ y \in DOMAIN n.tables
        BY <3>5 DEF Made
      <4>4. QED
        BY <3>8, <4>1, <4>2, <4>3 DEF Kept
    <3>10. MemoryFine(n, k, T, home2, lev2)
      BY <3>4, <3>6 DEF MemoryFine, home2, lev2
    <3>11. Got(m, r, k, T, home, lev, x, i, home2, lev2)
      BY <2>1, <3>1, <3>5, <3>7, <3>8, <3>9, <3>10 DEF Got
    <3>12. QED
      BY <3>1, <3>5, <3>11
  <2>6. QED
    BY <2>4, <2>5
<1>5. QED
    BY <1>3, <1>4

-----------------------------------------------------------------------------
(* Walks.                                                                    *)

\* The entry for page v in the map of top table f, absent when the walk ends
\* before it.
Leaf(m, f, v) ==
    LET pt == LastTable(m, f, v)
    IN  IF pt = NULL THEN NoEntry ELSE m.tables[pt][Digit(v, 0)]

\* A walk in map g may have come to x at level l.
OnWay(m, home, lev, g, l, x) ==
    x = NULL \/ (x \in DOMAIN m.tables /\ home[x] = g /\ lev[x] = l)

\* A step of a walk leads to a table of the same map one level down, or there
\* is none.
LEMMA BelowIs ==
    ASSUME NEW m, NEW k, NEW T, NEW home, NEW lev, MemoryFine(m, k, T, home, lev),
           NEW x \in DOMAIN m.tables, home[x] \in T, lev[x] > 0,
           NEW i \in Index, x \in T => i < Half,
           NEW b, b = Below(m, x, i)
    PROVE  \/ b = NULL /\ m.tables[x][i] = NoEntry
           \/ /\ b # NULL /\ b \in DOMAIN m.tables /\ m.tables[x][i] = Link(b)
              /\ home[b] = home[x] /\ lev[b] = lev[x] - 1
<1> DEFINE t == m.tables
           e == t[x][i]
<1>1. FramesFine(m) /\ Leads(e, x, i, t, k, T, home, lev) /\ home[x] # k
    BY DEF MemoryFine, Tree, Entries, Homes
<1>2. x # NULL
    BY <1>1, FramesAre
<1>3. b = IF Present(e) THEN e.to ELSE NULL
    BY <1>2 DEF Below
<1>4. CASE ~Present(e)
    BY <1>1, <1>3, <1>4 DEF Leads, Present
<1>5. CASE Present(e)
  <2>1. e.flags = "table" /\ e \in TableEntry
    BY <1>1, <1>5 DEF Leads, Present, TableEntry
  <2>2. e.to \in DOMAIN t /\ lev[x] = lev[e.to] + 1 /\ home[e.to] = home[x]
    BY <1>1, <2>1, FanOutIs DEF Leads, Index
  <2>3. lev[e.to] \in 0 .. 3 /\ lev[x] \in 0 .. 3
    BY <2>2 DEF MemoryFine, Tree, Homes
  <2>4. e = Link(e.to) /\ e.to # NULL
    BY <1>1, <2>1, <2>2, EntriesDiffer, FramesAre
  <2>5. QED
    BY <1>3, <1>5, <2>2, <2>3, <2>4
<1>6. QED
    BY <1>4, <1>5

\* A walk stays among the tables of its map.
LEMMA BelowOnWay ==
    ASSUME NEW m, NEW k, NEW T, NEW home, NEW lev, MemoryFine(m, k, T, home, lev),
           NEW g \in T, NEW l \in 1 .. 3, NEW x, OnWay(m, home, lev, g, l, x),
           NEW i \in Index, l = 3 => i < Half
    PROVE  OnWay(m, home, lev, g, l - 1, Below(m, x, i))
<1>1. CASE x = NULL
    BY <1>1 DEF Below, OnWay
<1>2. CASE x # NULL
  <2>1. x \in DOMAIN m.tables /\ home[x] = g /\ lev[x] = l /\ lev[x] > 0
    BY <1>2 DEF OnWay
  <2>2. x \in T => i < Half
    BY <2>1 DEF MemoryFine, Tree, Homes
  <2>3. QED
    BY <2>1, <2>2, BelowIs DEF OnWay
<1>3. QED
    BY <1>1, <1>2

\* The tables a walk passes.
Way(m, f, v, p2, p1, p0) ==
    /\ p2 = Below(m, f, Digit(v, 3))
    /\ p1 = Below(m, p2, Digit(v, 2))
    /\ p0 = Below(m, p1, Digit(v, 1))

\* The walk for v meets one table a level, all of its map.
LEMMA WayIs ==
    ASSUME NEW m, NEW k, NEW T, NEW home, NEW lev, MemoryFine(m, k, T, home, lev),
           NEW g \in T, NEW v \in LowerPages
    PROVE  \E p2, p1, p0 :
              /\ Way(m, g, v, p2, p1, p0) /\ p0 = LastTable(m, g, v)
              /\ OnWay(m, home, lev, g, 3, g) /\ OnWay(m, home, lev, g, 2, p2)
              /\ OnWay(m, home, lev, g, 1, p1) /\ OnWay(m, home, lev, g, 0, p0)
<1> DEFINE p2 == Below(m, g, Digit(v, 3))
           p1 == Below(m, p2, Digit(v, 2))
           p0 == Below(m, p1, Digit(v, 1))
<1>1. v \in Nat /\ Digit(v, 3) < Half /\ \A l \in 0 .. 3 : Digit(v, l) \in Index
    BY LowerDigit, ShiftedIs
<1>2. OnWay(m, home, lev, g, 3, g)
    BY DEF MemoryFine, Tree, Homes, OnWay
<1>3. OnWay(m, home, lev, g, 3 - 1, p2)
    BY <1>1, <1>2, BelowOnWay
<1> HIDE DEF p2
<1>4. OnWay(m, home, lev, g, 2 - 1, p1)
    BY <1>1, <1>3, BelowOnWay
<1> HIDE DEF p1
<1>5. OnWay(m, home, lev, g, 1 - 1, p0)
    BY <1>1, <1>4, BelowOnWay
<1> HIDE DEF p0
<1>6. Way(m, g, v, p2, p1, p0) /\ p0 = LastTable(m, g, v)
    BY DEF Way, LastTable, p2, p1, p0
<1>7. 3 - 1 = 2 /\ 2 - 1 = 1 /\ 1 - 1 = 0
    OBVIOUS
<1>8. QED
    BY <1>2, <1>3, <1>4, <1>5, <1>6, <1>7

\* What a walk finds is no entry or a page with flags that were mapped.
LEMMA LeafTyped ==
    ASSUME NEW m, NEW k, NEW T, NEW home, NEW lev, MemoryFine(m, k, T, home, lev),
           NEW g \in T, NEW v \in LowerPages
    PROVE  /\ Leaf(m, g, v) \in TableEntry
           /\ Leaf(m, g, v) = NoEntry \/ Leaf(m, g, v).flags \in Flags
<1>1. PICK p2, p1, p0 : p0 = LastTable(m, g, v) /\ OnWay(m, home, lev, g, 0, p0)
    BY WayIs
<1>2. Digit(v, 0) \in Index
    BY LowerDigit, ShiftedIs
<1>3. CASE p0 = NULL
    BY <1>1, <1>3, EntriesDiffer DEF Leaf
<1>4. CASE p0 # NULL
  <2> DEFINE e == m.tables[p0][Digit(v, 0)]
  <2>1. p0 \in DOMAIN m.tables /\ lev[p0] = 0
    BY <1>1, <1>4 DEF OnWay
  <2>2. Leads(e, p0, Digit(v, 0), m.tables, k, T, home, lev)
    BY <1>2, <2>1 DEF MemoryFine, Tree, Entries
  <2>3. e.flags = "table" => lev[e.to] \in 0 .. 3
    BY <2>2 DEF MemoryFine, Tree, Homes, Leads
  <2>4. e \in TableEntry /\ (e = NoEntry \/ e.flags \in Flags)
    BY <2>1, <2>2, <2>3 DEF Leads, TableEntry
  <2>5. QED
    BY <1>1, <1>4, <2>4 DEF Leaf
<1>5. QED
    BY <1>3, <1>4

\* A new table changes no walk but that some ends in it.
LEMMA LeavesMade ==
    ASSUME NEW m, NEW k, NEW T, NEW home, NEW lev, MemoryFine(m, k, T, home, lev),
           NEW n, NEW x \in DOMAIN m.tables, lev[x] > 0,
           NEW i \in Index, m.tables[x][i] = NoEntry,
           NEW y \in Nat, y # NULL, y \notin DOMAIN m.tables,
           Made(m.tables, n.tables, x, i, y),
           NEW g \in T, NEW v \in LowerPages
    PROVE  Leaf(n, g, v) = Leaf(m, g, v)
<1> DEFINE t == m.tables
           u == n.tables
           Beside(a, b) == b = a \/ (a = NULL /\ b = y)
<1>1. \A z \in DOMAIN t : t[z] \in [Index -> TableEntry]
    BY DEF MemoryFine, Tree, Entries
<1>2. /\ \A j \in Index : u[y][j] = NoEntry
      /\ u[x][i] = Link(y)
      /\ \A z \in DOMAIN t : \A j \in Index : z # x \/ j # i => u[z][j] = t[z][j]
    BY <1>1, MadeEntries
<1>3. ~Present(NoEntry) /\ Present(Link(y)) /\ Link(y).to = y
    BY EntriesDiffer DEF Present
<1>4. ASSUME NEW a, a = NULL \/ a \in DOMAIN t, NEW b, Beside(a, b), NEW j \in Index
      PROVE  Beside(Below(m, a, j), Below(n, b, j))
  <2>1. CASE a = NULL
    <3>1. Below(m, a, j) = NULL
      BY <2>1 DEF Below
    <3>2. Below(n, b, j) = NULL
      BY <1>2, <1>3, <1>4, <2>1 DEF Below
    <3>3. QED
      BY <3>1, <3>2
  <2>2. CASE a # NULL /\ ~(a = x /\ j = i)
    <3>1. b = a /\ u[a][j] = t[a][j]
      BY <1>2, <1>4, <2>2
    <3>2. QED
      BY <3>1 DEF Below
  <2>3. CASE a # NULL /\ a = x /\ j = i
    <3>1. b = a /\ Below(m, a, j) = NULL
      BY <1>3, <1>4, <2>3 DEF Below
    <3>2. Below(n, b, j) = y
      BY <1>2, <1>3, <2>3, <3>1 DEF Below
    <3>3. QED
      BY <3>1, <3>2
  <2>4. QED
    BY <2>1, <2>2, <2>3
<1>5. PICK p2, p1, p0 :
         /\ Way(m, g, v, p2, p1, p0) /\ p0 = LastTable(m, g, v)
         /\ OnWay(m, home, lev, g, 3, g) /\ OnWay(m, home, lev, g, 2, p2)
         /\ OnWay(m, home, lev, g, 1, p1) /\ OnWay(m, home, lev, g, 0, p0)
    BY WayIs
<1>6. \A l \in 0 .. 3 : Digit(v, l) \in Index
    BY LowerDigit, ShiftedIs
<1> DEFINE q2 == Below(n, g, Digit(v, 3))
           q1 == Below(n, q2, Digit(v, 2))
           q0 == Below(n, q1, Digit(v, 1))
<1>7. q0 = LastTable(n, g, v)
    BY DEF LastTable
<1>8. Beside(g, g)
    OBVIOUS
<1>9. Beside(p2, q2)
  <2>1. g = NULL \/ g \in DOMAIN t
    BY <1>5 DEF OnWay
  <2>2. Digit(v, 3) \in Index
    BY <1>6
  <2>3. p2 = Below(m, g, Digit(v, 3))
    BY <1>5 DEF Way
  <2> HIDE DEF Beside
  <2>4. QED
    BY <1>4, <1>8, <2>1, <2>2, <2>3
<1> HIDE DEF q2
<1>10. Beside(p1, q1)
  <2>1. p2 = NULL \/ p2 \in DOMAIN t
    BY <1>5 DEF OnWay
  <2>2. Digit(v, 2) \in Index
    BY <1>6
  <2>3. p1 = Below(m, p2, Digit(v, 2))
    BY <1>5 DEF Way
  <2> HIDE DEF Beside
  <2>4. QED
    BY <1>4, <1>9, <2>1, <2>2, <2>3
<1> HIDE DEF q1
<1>11. Beside(p0, q0)
  <2>1. p1 = NULL \/ p1 \in DOMAIN t
    BY <1>5 DEF OnWay
  <2>2. Digit(v, 1) \in Index
    BY <1>6
  <2>3. p0 = Below(m, p1, Digit(v, 1))
    BY <1>5 DEF Way
  <2> HIDE DEF Beside
  <2>4. QED
    BY <1>4, <1>10, <2>1, <2>2, <2>3
<1> HIDE DEF q0
<1>12. Digit(v, 0) \in Index /\ (p0 # NULL => p0 \in DOMAIN t /\ p0 # x)
    BY <1>5, <1>6 DEF OnWay
<1>13. CASE q0 = p0
    BY <1>2, <1>5, <1>7, <1>12, <1>13 DEF Leaf
<1>14. CASE p0 = NULL /\ q0 = y
    BY <1>2, <1>5, <1>7, <1>12, <1>14 DEF Leaf
<1>15. QED
    BY <1>11, <1>13, <1>14

\* An entry of a last table changes no walk, and shows where a walk ends in it.
LEMMA LeafChanged ==
    ASSUME NEW m, NEW k, NEW T, NEW home, NEW lev, MemoryFine(m, k, T, home, lev),
           NEW n, NEW x \in DOMAIN m.tables, lev[x] = 0,
           NEW i \in Index, NEW e \in TableEntry, Changed(m.tables, n.tables, x, i, e),
           NEW g \in T, NEW v \in LowerPages
    PROVE  /\ LastTable(n, g, v) = LastTable(m, g, v)
           /\ Leaf(n, g, v) = IF LastTable(m, g, v) = x /\ Digit(v, 0) = i
                              THEN e ELSE Leaf(m, g, v)
<1> DEFINE t == m.tables
           u == n.tables
<1>1. /\ u[x][i] = e
      /\ \A z \in DOMAIN t : \A j \in Index : z # x \/ j # i => u[z][j] = t[z][j]
    BY ChangedEntries DEF MemoryFine, Tree, Entries
<1>2. \A l \in 1 .. 3 : \A z : \A j \in Index :
         OnWay(m, home, lev, g, l, z) => Below(n, z, j) = Below(m, z, j)
  <2>1. ASSUME NEW l \in 1 .. 3, NEW z, NEW j \in Index, OnWay(m, home, lev, g, l, z)
        PROVE  Below(n, z, j) = Below(m, z, j)
    <3>1. CASE z = NULL
      BY <3>1 DEF Below
    <3>2. CASE z # NULL
      <4>1. z \in DOMAIN t /\ z # x
        BY <2>1, <3>2 DEF OnWay
      <4>2. u[z][j] = t[z][j]
        BY <1>1, <4>1
      <4>3. QED
        BY <4>2 DEF Below
    <3>3. QED
      BY <3>1, <3>2
  <2>2. QED
    BY <2>1
<1>3. PICK p2, p1, p0 :
         /\ Way(m, g, v, p2, p1, p0) /\ p0 = LastTable(m, g, v)
         /\ OnWay(m, home, lev, g, 3, g) /\ OnWay(m, home, lev, g, 2, p2)
         /\ OnWay(m, home, lev, g, 1, p1) /\ OnWay(m, home, lev, g, 0, p0)
    BY WayIs
<1>4. \A l \in 0 .. 3 : Digit(v, l) \in Index
    BY LowerDigit, ShiftedIs
<1>5. /\ 1 \in 1 .. 3 /\ 2 \in 1 .. 3 /\ 3 \in 1 .. 3
      /\ Digit(v, 0) \in Index /\ Digit(v, 1) \in Index /\ Digit(v, 2) \in Index
      /\ Digit(v, 3) \in Index
    BY <1>4
<1>6. Below(n, g, Digit(v, 3)) = p2
    BY <1>2, <1>3, <1>5 DEF Way
<1>7. Below(n, p2, Digit(v, 2)) = p1
    BY <1>2, <1>3, <1>5 DEF Way
<1>8. Below(n, p1, Digit(v, 1)) = p0
    BY <1>2, <1>3, <1>5 DEF Way
<1>9. LastTable(n, g, v) = p0
    BY <1>6, <1>7, <1>8 DEF LastTable
<1>10. CASE p0 = x /\ Digit(v, 0) = i
  <2>1. x # NULL
    BY FramesAre DEF MemoryFine
  <2>2. QED
    BY <1>1, <1>3, <1>9, <1>10, <2>1 DEF Leaf
<1>11. CASE ~(p0 = x /\ Digit(v, 0) = i)
  <2>1. p0 # NULL => p0 \in DOMAIN t /\ u[p0][Digit(v, 0)] = t[p0][Digit(v, 0)]
    BY <1>1, <1>3, <1>5, <1>11 DEF OnWay
  <2>2. Leaf(n, g, v) = Leaf(m, g, v)
    BY <1>3, <1>9, <2>1 DEF Leaf
  <2>3. QED
    BY <1>3, <1>9, <1>11, <2>2
<1>12. QED
    BY <1>10, <1>11

\* Two walks that end in one last table entry are one walk.
LEMMA OneWalk ==
    ASSUME NEW m, NEW k, NEW T, NEW home, NEW lev, MemoryFine(m, k, T, home, lev),
           NEW g \in T, NEW h \in T, NEW v \in LowerPages, NEW w \in LowerPages,
           LastTable(m, g, v) # NULL, LastTable(m, g, v) = LastTable(m, h, w),
           Digit(v, 0) = Digit(w, 0)
    PROVE  g = h /\ v = w
<1>1. ASSUME NEW l \in 1 .. 3, NEW a, NEW b, OnWay(m, home, lev, g, l, a),
             OnWay(m, home, lev, g, l, b), NEW i \in Index, NEW j \in Index,
             l = 3 => i < Half /\ j < Half,
             Below(m, a, i) = Below(m, b, j), Below(m, a, i) # NULL
      PROVE  a # NULL /\ a = b /\ i = j
  <2>1. a # NULL /\ b # NULL
    BY <1>1 DEF Below
  <2>2. a \in DOMAIN m.tables /\ b \in DOMAIN m.tables /\ home[a] = g /\ home[b] = g
        /\ lev[a] = l /\ lev[b] = l
    BY <1>1, <2>1 DEF OnWay
  <2>3. (a \in T => i < Half) /\ (b \in T => j < Half)
    BY <1>1, <2>2 DEF MemoryFine, Tree, Homes
  <2>4. m.tables[a][i] = Link(Below(m, a, i))
    BY <1>1, <2>2, <2>3, BelowIs
  <2>5. m.tables[b][j] = Link(Below(m, a, i))
    BY <1>1, <2>2, <2>3, BelowIs
  <2>6. m.tables[a][i].flags = "table"
    BY <2>4 DEF Link
  <2>7. QED
    BY <2>1, <2>2, <2>4, <2>5, <2>6 DEF MemoryFine, Tree, OneWay
<1>2. PICK p2, p1, p0 :
         /\ Way(m, g, v, p2, p1, p0) /\ p0 = LastTable(m, g, v)
         /\ OnWay(m, home, lev, g, 3, g) /\ OnWay(m, home, lev, g, 2, p2)
         /\ OnWay(m, home, lev, g, 1, p1) /\ OnWay(m, home, lev, g, 0, p0)
    BY WayIs
<1>3. PICK q2, q1, q0 :
         /\ Way(m, h, w, q2, q1, q0) /\ q0 = LastTable(m, h, w)
         /\ OnWay(m, home, lev, h, 3, h) /\ OnWay(m, home, lev, h, 2, q2)
         /\ OnWay(m, home, lev, h, 1, q1) /\ OnWay(m, home, lev, h, 0, q0)
    BY WayIs
<1>4. g = h
    BY <1>2, <1>3 DEF OnWay
<1>5. /\ 1 \in 1 .. 3 /\ 2 \in 1 .. 3 /\ 3 \in 1 .. 3
      /\ \A l \in 0 .. 3 : Digit(v, l) \in Index /\ Digit(w, l) \in Index
      /\ Digit(v, 3) < Half /\ Digit(w, 3) < Half
    BY LowerDigit, ShiftedIs
<1>6. /\ Digit(v, 1) \in Index /\ Digit(v, 2) \in Index /\ Digit(v, 3) \in Index
      /\ Digit(w, 1) \in Index /\ Digit(w, 2) \in Index /\ Digit(w, 3) \in Index
    BY <1>5
<1>7. p0 = Below(m, p1, Digit(v, 1)) /\ q0 = Below(m, q1, Digit(w, 1)) /\ p0 = q0 /\ p0 # NULL
    BY <1>2, <1>3 DEF Way
<1>8. p1 # NULL /\ p1 = q1 /\ Digit(v, 1) = Digit(w, 1)
    BY <1>1, <1>2, <1>3, <1>4, <1>5, <1>6, <1>7
<1>9. p1 = Below(m, p2, Digit(v, 2)) /\ q1 = Below(m, q2, Digit(w, 2))
    BY <1>2, <1>3 DEF Way
<1>10. p2 # NULL /\ p2 = q2 /\ Digit(v, 2) = Digit(w, 2)
  <2>1. OnWay(m, home, lev, g, 2, p2) /\ OnWay(m, home, lev, g, 2, q2)
    BY <1>2, <1>3, <1>4
  <2>2. Below(m, p2, Digit(v, 2)) = Below(m, q2, Digit(w, 2))
        /\ Below(m, p2, Digit(v, 2)) # NULL
    BY <1>8, <1>9
  <2>3. 2 \in 1 .. 3 /\ 2 # 3
    OBVIOUS
  <2>4. QED
    BY <1>1, <1>6, <2>1, <2>2, <2>3
<1>11. p2 = Below(m, g, Digit(v, 3)) /\ q2 = Below(m, h, Digit(w, 3))
    BY <1>2, <1>3 DEF Way
<1>12. Digit(v, 3) = Digit(w, 3)
  <2>1. OnWay(m, home, lev, g, 3, g) /\ OnWay(m, home, lev, g, 3, h)
    BY <1>2, <1>3, <1>4
  <2>2. Below(m, g, Digit(v, 3)) = Below(m, h, Digit(w, 3))
        /\ Below(m, g, Digit(v, 3)) # NULL
    BY <1>10, <1>11
  <2>3. QED
    BY <1>1, <1>5, <1>6, <2>1, <2>2
<1>13. \A l \in 0 .. 3 : Digit(v, l) = Digit(w, l)
  <2>1. \A l \in 0 .. 3 : l = 0 \/ l = 1 \/ l = 2 \/ l = 3
    OBVIOUS
  <2>2. QED
    BY <1>8, <1>10, <1>12, <2>1
<1>14. QED
    BY <1>4, <1>13, DigitsTell

-----------------------------------------------------------------------------
(* vmm_map.                                                                  *)

\* m may have become n by tables made in maps other than the kernel's: none is
\* lost, the kernel's are as they were, and no map shows it.
Steady(m, n, k, T, home, lev, home2, lev2) ==
    /\ MemoryFine(n, k, T, home2, lev2)
    /\ Kept(m, n, home, lev, home2, lev2)
    /\ \A z \in DOMAIN m.tables : home[z] = k => n.tables[z] = m.tables[z]
    /\ \A g \in T, v \in LowerPages : Leaf(n, g, v) = Leaf(m, g, v)

\* Nothing done changes nothing that is shown.
LEMMA SteadyStill ==
    ASSUME NEW m, NEW k, NEW T, NEW home, NEW lev, MemoryFine(m, k, T, home, lev)
    PROVE  Steady(m, m, k, T, home, lev, home, lev)
BY DEF Steady, Kept

\* Two steps that change nothing shown are one such step.
LEMMA SteadyOn ==
    ASSUME NEW m, NEW n, NEW o, NEW k, NEW T, NEW home, NEW lev, NEW home2, NEW lev2,
           NEW home3, NEW lev3,
           Steady(m, n, k, T, home, lev, home2, lev2),
           Steady(n, o, k, T, home2, lev2, home3, lev3)
    PROVE  Steady(m, o, k, T, home, lev, home3, lev3)
<1>1. Kept(m, o, home, lev, home3, lev3)
    BY DEF Steady, Kept
<1>2. \A z \in DOMAIN m.tables : home[z] = k => o.tables[z] = m.tables[z]
    BY DEF Steady, Kept
<1>3. \A g \in T, v \in LowerPages : Leaf(o, g, v) = Leaf(m, g, v)
    BY DEF Steady
<1>4. QED
    BY <1>1, <1>2, <1>3 DEF Steady

\* A table of map f at level l, with entry i of table x leading to it.
Reached(r, home, lev, f, l, x, i) ==
    /\ r.at \in DOMAIN r.mem.tables
    /\ home[r.at] = f /\ lev[r.at] = l
    /\ r.mem.tables[x][i] = Link(r.at)

\* Making a table on the way to a page changes nothing that is shown.
LEMMA GetOrCreateSteady ==
    ASSUME NEW m, NEW k, NEW T, NEW home, NEW lev, MemoryFine(m, k, T, home, lev),
           NEW x \in DOMAIN m.tables, NEW f \in T, home[x] = f,
           NEW l \in 1 .. 3, lev[x] = l, NEW i \in Index, l = 3 => i < Half,
           NEW r, r = GetOrCreate(m, x, i)
    PROVE  /\ r.at = NULL => r.mem = m
           /\ r.at # NULL => \E home2, lev2 :
                 /\ Steady(m, r.mem, k, T, home, lev, home2, lev2)
                 /\ Reached(r, home2, lev2, f, l - 1, x, i)
<1>1. f # k /\ x # k
    BY DEF MemoryFine, Tree, Homes
<1>2. MayGrow(T, k, home, lev, x, i)
    BY <1>1 DEF MayGrow, MemoryFine, Tree, Homes
<1>3. CASE r.at = NULL
    BY <1>2, <1>3, GetOrCreateIs
<1>4. CASE r.at # NULL
  <2>1. PICK home2, lev2 : Got(m, r, k, T, home, lev, x, i, home2, lev2)
    BY <1>2, <1>4, GetOrCreateIs
  <2>2. MemoryFine(r.mem, k, T, home2, lev2) /\ Kept(m, r.mem, home, lev, home2, lev2)
    BY <2>1 DEF Got
  <2>3. Reached(r, home2, lev2, f, l - 1, x, i)
    BY <2>1 DEF Got, Reached
  <2>4. CASE r.mem = m
    <3>1. Steady(m, r.mem, k, T, home, lev, home2, lev2)
      BY <2>2, <2>4 DEF Steady
    <3>2. QED
      BY <1>4, <2>3, <3>1
  <2>5. CASE r.mem # m
    <3>1. /\ m.tables[x][i] = NoEntry /\ r.at \notin DOMAIN m.tables
          /\ Made(m.tables, r.mem.tables, x, i, r.at)
      BY <2>1, <2>5 DEF Got
    <3>2. r.at \in Nat
      BY <2>1, FramesAre DEF Got, MemoryFine
    <3>3. \A g \in T, v \in LowerPages : Leaf(r.mem, g, v) = Leaf(m, g, v)
      <4>1. lev[x] > 0
        OBVIOUS
      <4>2. QED
        BY <1>4, <3>1, <3>2, <4>1, LeavesMade
    <3>4. \A z \in DOMAIN m.tables : home[z] = k => r.mem.tables[z] = m.tables[z]
      BY <1>1, <3>1 DEF Made
    <3>5. Steady(m, r.mem, k, T, home, lev, home2, lev2)
      BY <2>2, <3>3, <3>4 DEF Steady
    <3>6. QED
      BY <1>4, <2>3, <3>5
  <2>6. QED
    BY <2>4, <2>5
<1>5. QED
    BY <1>3, <1>4

\* The kernel's tables are in n as they were in m.
KernelStays(m, n, k, home, home2) ==
    \A z \in DOMAIN m.tables : home[z] = k =>
        z \in DOMAIN n.tables /\ home2[z] = k /\ n.tables[z] = m.tables[z]

\* n shows j pages from v on mapped in map f, and else what m shows.
Shows(m, n, T, f, v, target, flags, j) ==
    \A g \in T, w \in LowerPages :
        Leaf(n, g, w) = IF g = f /\ w \in v .. v + j - 1
                        THEN [to |-> target + (w - v), flags |-> flags]
                        ELSE Leaf(m, g, w)

\* One more table on the way down to page v, or none for lack of a frame.
LEMMA MapDown ==
    ASSUME NEW m, NEW n, NEW k, NEW T, NEW home, NEW lev, NEW home2, NEW lev2,
           Steady(m, n, k, T, home, lev, home2, lev2),
           NEW x \in DOMAIN n.tables, NEW f \in T, home2[x] = f,
           NEW l \in 1 .. 3, lev2[x] = l, NEW i \in Index, l = 3 => i < Half,
           NEW r, r = GetOrCreate(n, x, i)
    PROVE  \E home3, lev3 :
              /\ Steady(m, r.mem, k, T, home, lev, home3, lev3)
              /\ Kept(n, r.mem, home2, lev2, home3, lev3)
              /\ r.at # NULL => Reached(r, home3, lev3, f, l - 1, x, i)
<1>1. MemoryFine(n, k, T, home2, lev2)
    BY DEF Steady
<1>2. CASE r.at = NULL
  <2>1. r.mem = n
    BY <1>1, <1>2, GetOrCreateSteady
  <2>2. Kept(n, n, home2, lev2, home2, lev2)
    BY DEF Kept
  <2>3. QED
    BY <1>2, <2>1, <2>2
<1>3. CASE r.at # NULL
  <2>1. PICK home3, lev3 : /\ Steady(n, r.mem, k, T, home2, lev2, home3, lev3)
                           /\ Reached(r, home3, lev3, f, l - 1, x, i)
    BY <1>1, <1>3, GetOrCreateSteady
  <2>2. Steady(m, r.mem, k, T, home, lev, home3, lev3)
    BY <2>1, SteadyOn
  <2>3. Kept(n, r.mem, home2, lev2, home3, lev3)
    BY <2>1 DEF Steady
  <2>4. QED
    BY <2>1, <2>2, <2>3
<1>4. QED
    BY <1>2, <1>3

\* A step that changes nothing shown maps no page.
LEMMA SteadyShows ==
    ASSUME NEW m, NEW n, NEW k, NEW T, NEW home, NEW lev, NEW home2, NEW lev2,
           Steady(m, n, k, T, home, lev, home2, lev2), NEW f, NEW v \in Nat, NEW target, NEW flags
    PROVE  KernelStays(m, n, k, home, home2) /\ Shows(m, n, T, f, v, target, flags, 0)
<1>1. \A w : w \notin v .. v + 0 - 1
    OBVIOUS
<1>2. QED
    BY <1>1 DEF Steady, Kept, KernelStays, Shows

\* The last entry on the way to page v written, where a walk reaches it.
LEMMA PageWritten ==
    ASSUME NEW m, NEW n, NEW k, NEW T, NEW home, NEW lev, NEW home2, NEW lev2,
           Steady(m, n, k, T, home, lev, home2, lev2),
           NEW f \in T, NEW v \in LowerPages, NEW pt, pt # NULL, pt = LastTable(n, f, v),
           NEW target \in Nat, NEW flags \in Flags,
           NEW o, o = Put(n, pt, Digit(v, 0), [to |-> target, flags |-> flags])
    PROVE  /\ MemoryFine(o, k, T, home2, lev2)
           /\ KernelStays(m, o, k, home, home2)
           /\ Shows(m, o, T, f, v, target, flags, 1)
<1> DEFINE e == [to |-> target, flags |-> flags]
           i == Digit(v, 0)
<1>1. MemoryFine(n, k, T, home2, lev2) /\ FramesFine(n) /\ Tree(n.tables, k, T, home2, lev2)
    BY DEF Steady, MemoryFine
<1>2. OnWay(n, home2, lev2, f, 0, pt)
    BY <1>1, WayIs
<1>3. pt \in DOMAIN n.tables /\ home2[pt] = f /\ lev2[pt] = 0 /\ i \in Index /\ v \in Nat
    BY <1>2, LowerDigit, ShiftedIs DEF OnWay
<1>4. FramesFine(o) /\ Changed(n.tables, o.tables, pt, i, e)
    BY <1>1, <1>3, PutIs
<1>5. e \in TableEntry /\ e.to = target /\ e.flags = flags /\ e.flags \notin {"absent", "table", "huge"}
    BY EntriesDiffer DEF TableEntry
<1> HIDE DEF e, i
<1>6. Leads(e, pt, i, n.tables, k, T, home2, lev2)
    BY <1>3, <1>5 DEF Leads
<1>7. n.tables[pt][i].flags # "table"
  <2>1. Leads(n.tables[pt][i], pt, i, n.tables, k, T, home2, lev2)
    BY <1>1, <1>3 DEF Tree, Entries
  <2>2. \A y \in DOMAIN n.tables : lev2[y] \in 0 .. 3
    BY <1>1 DEF Tree, Homes
  <2>3. QED
    BY <1>3, <2>1, <2>2 DEF Leads
<1>8. MemoryFine(o, k, T, home2, lev2)
    BY <1>1, <1>3, <1>4, <1>5, <1>6, <1>7, EntryChanged DEF MemoryFine
<1>9. KernelStays(m, o, k, home, home2)
  <2>1. f # k
    BY <1>1 DEF Tree, Homes
  <2>2. \A z \in DOMAIN n.tables : home2[z] = k => o.tables[z] = n.tables[z] /\ z \in DOMAIN o.tables
    BY <1>3, <1>4, <2>1 DEF Changed
  <2>3. QED
    BY <2>2 DEF Steady, Kept, KernelStays
<1>10. ASSUME NEW g \in T, NEW w \in LowerPages
       PROVE  Leaf(o, g, w) = IF g = f /\ w \in v .. v + 1 - 1
                              THEN [to |-> target + (w - v), flags |-> flags]
                              ELSE Leaf(m, g, w)
  <2>1. Leaf(o, g, w) = IF LastTable(n, g, w) = pt /\ Digit(w, 0) = i
                        THEN e ELSE Leaf(n, g, w)
    BY <1>1, <1>3, <1>4, <1>5, LeafChanged
  <2>2. Leaf(n, g, w) = Leaf(m, g, w)
    BY DEF Steady
  <2>3. LastTable(n, g, w) = pt /\ Digit(w, 0) = i => g = f /\ w = v
    BY <1>1, OneWalk DEF i
  <2>4. g = f /\ w = v => LastTable(n, g, w) = pt /\ Digit(w, 0) = i
    BY DEF i
  <2>5. w \in v .. v + 1 - 1 <=> w = v
    BY <1>3, LowerDigit
  <2>6. w = v => [to |-> target + (w - v), flags |-> flags] = e
    BY <1>3 DEF e
  <2>7. QED
    BY <2>1, <2>2, <2>3, <2>4, <2>5, <2>6
<1>11. QED
    BY <1>8, <1>9, <1>10 DEF Shows

\* What becomes of m when n pages are mapped in f: the first j of them show,
\* and the answer says whether they are all.
MapsTo(m, r, k, T, home, f, v, target, flags, n, home2, lev2, j) ==
    /\ MemoryFine(r.mem, k, T, home2, lev2)
    /\ KernelStays(m, r.mem, k, home, home2)
    /\ j \in 0 .. n
    /\ Shows(m, r.mem, T, f, v, target, flags, j)
    /\ j = n => r.ok = TRUE
    /\ j # n => r.ok = FALSE

Maps(m, r, k, T, home, f, v, target, flags, n) ==
    \E home2, lev2, j : MapsTo(m, r, k, T, home, f, v, target, flags, n, home2, lev2, j)

\* vmm_map shows the page at its place and changes nothing else, or runs out of
\* frames and shows what was shown.
LEMMA MapPageIs ==
    ASSUME NEW m, NEW k, NEW T, NEW home, NEW lev, MemoryFine(m, k, T, home, lev),
           NEW f \in T, NEW v \in LowerPages, NEW target \in Nat, NEW flags \in Flags,
           NEW r, r = MapPage(m, f, v, target, flags)
    PROVE  Maps(m, r, k, T, home, f, v, target, flags, 1)
<1> DEFINE pdpt == GetOrCreate(m, f, Digit(v, 3))
           pd == IF pdpt.at = NULL THEN pdpt ELSE GetOrCreate(pdpt.mem, pdpt.at, Digit(v, 2))
           pt == IF pd.at = NULL THEN pd ELSE GetOrCreate(pd.mem, pd.at, Digit(v, 1))
<1>1. r = IF pt.at = NULL
          THEN [mem |-> pt.mem, ok |-> FALSE]
          ELSE [mem |-> Put(pt.mem, pt.at, Digit(v, 0), [to |-> target, flags |-> flags]),
                ok  |-> TRUE]
    BY DEF MapPage
<1>2. /\ v \in Nat /\ Digit(v, 3) < Half
      /\ Digit(v, 0) \in Index /\ Digit(v, 1) \in Index /\ Digit(v, 2) \in Index
      /\ Digit(v, 3) \in Index
  <2>1. \A l \in 0 .. 3 : Digit(v, l) \in Index
    BY LowerDigit, ShiftedIs
  <2>2. QED
    BY <2>1, LowerDigit
<1>3. 1 \in 1 .. 3 /\ 2 \in 1 .. 3 /\ 3 \in 1 .. 3 /\ 3 - 1 = 2 /\ 2 - 1 = 1 /\ 1 - 1 = 0
      /\ 2 # 3 /\ 1 # 3
    OBVIOUS
<1>4. Steady(m, m, k, T, home, lev, home, lev)
    BY SteadyStill
<1>5. f \in DOMAIN m.tables /\ home[f] = f /\ lev[f] = 3
    BY DEF MemoryFine, Tree, Homes
<1>6. ASSUME NEW n, NEW home2, NEW lev2, Steady(m, n, k, T, home, lev, home2, lev2),
             pt.mem = n, pt.at = NULL
      PROVE  Maps(m, r, k, T, home, f, v, target, flags, 1)
  <2>1. r.mem = n /\ r.ok = FALSE
    BY <1>1, <1>6
  <2>2. KernelStays(m, n, k, home, home2) /\ Shows(m, n, T, f, v, target, flags, 0)
    BY <1>2, <1>6, SteadyShows
  <2>3. MemoryFine(n, k, T, home2, lev2)
    BY <1>6 DEF Steady
  <2>4. 0 \in 0 .. 1 /\ 0 # 1 /\ r.ok = FALSE
    BY <2>1
  <2>5. QED
    BY <2>1, <2>2, <2>3, <2>4 DEF Maps, MapsTo
<1>7. PICK home2, lev2 :
         /\ Steady(m, pdpt.mem, k, T, home, lev, home2, lev2)
         /\ pdpt.at # NULL => Reached(pdpt, home2, lev2, f, 2, f, Digit(v, 3))
    BY <1>2, <1>3, <1>4, <1>5, MapDown
<1>8. CASE pdpt.at = NULL
  <2>1. pt = pdpt
    BY <1>8
  <2>2. QED
    BY <1>6, <1>7, <1>8, <2>1
<1>9. CASE pdpt.at # NULL
  <2>1. pd = GetOrCreate(pdpt.mem, pdpt.at, Digit(v, 2))
    BY <1>9
  <2>2. /\ pdpt.at \in DOMAIN pdpt.mem.tables /\ home2[pdpt.at] = f /\ lev2[pdpt.at] = 2
        /\ pdpt.mem.tables[f][Digit(v, 3)] = Link(pdpt.at)
    BY <1>7, <1>9 DEF Reached
  <2> HIDE DEF pdpt, pd
  <2>3. PICK home3, lev3 :
           /\ Steady(m, pd.mem, k, T, home, lev, home3, lev3)
           /\ Kept(pdpt.mem, pd.mem, home2, lev2, home3, lev3)
           /\ pd.at # NULL => Reached(pd, home3, lev3, f, 1, pdpt.at, Digit(v, 2))
    BY <1>2, <1>3, <1>7, <2>1, <2>2, MapDown
  <2>4. CASE pd.at = NULL
    <3>1. pt = pd
      BY <2>4
    <3>2. QED
      BY <1>6, <2>3, <2>4, <3>1
  <2>5. CASE pd.at # NULL
    <3>1. pt = GetOrCreate(pd.mem, pd.at, Digit(v, 1))
      BY <2>5
    <3>2. /\ pd.at \in DOMAIN pd.mem.tables /\ home3[pd.at] = f /\ lev3[pd.at] = 1
          /\ pd.mem.tables[pdpt.at][Digit(v, 2)] = Link(pd.at)
      BY <2>3, <2>5 DEF Reached
    <3> HIDE DEF pt
    <3>3. PICK home4, lev4 :
             /\ Steady(m, pt.mem, k, T, home, lev, home4, lev4)
             /\ Kept(pd.mem, pt.mem, home3, lev3, home4, lev4)
             /\ pt.at # NULL => Reached(pt, home4, lev4, f, 0, pd.at, Digit(v, 1))
      BY <1>2, <1>3, <2>3, <3>1, <3>2, MapDown
    <3>4. CASE pt.at = NULL
      BY <1>6, <3>3, <3>4
    <3>5. CASE pt.at # NULL
      <4>1. pt.mem.tables[pd.at][Digit(v, 1)] = Link(pt.at)
        BY <3>3, <3>5 DEF Reached
      <4>2. f \in DOMAIN pdpt.mem.tables
        BY <1>5, <1>7 DEF Steady, Kept
      <4>3. \A y : Link(y).flags = "table" /\ Link(y).to = y /\ Present(Link(y))
        BY DEF Link, Present
      <4>4. pd.mem.tables[f][Digit(v, 3)] = Link(pdpt.at) /\ f \in DOMAIN pd.mem.tables
        BY <1>2, <2>2, <2>3, <4>2, <4>3 DEF Kept
      <4>5. pt.mem.tables[f][Digit(v, 3)] = Link(pdpt.at)
        BY <1>2, <3>3, <4>3, <4>4 DEF Kept
      <4>6. pdpt.at \in DOMAIN pd.mem.tables
        BY <2>2, <2>3 DEF Kept
      <4>7. pt.mem.tables[pdpt.at][Digit(v, 2)] = Link(pd.at)
        BY <1>2, <3>2, <3>3, <4>3, <4>6 DEF Kept
      <4>8. f # NULL
        BY <1>5, FramesAre DEF MemoryFine
      <4>9. Below(pt.mem, f, Digit(v, 3)) = pdpt.at
        BY <4>3, <4>5, <4>8 DEF Below
      <4>10. Below(pt.mem, pdpt.at, Digit(v, 2)) = pd.at
        BY <1>9, <4>3, <4>7 DEF Below
      <4>11. Below(pt.mem, pd.at, Digit(v, 1)) = pt.at
        BY <2>5, <4>1, <4>3 DEF Below
      <4>12. LastTable(pt.mem, f, v) = pt.at
        BY <4>9, <4>10, <4>11 DEF LastTable
      <4>13. r.mem = Put(pt.mem, pt.at, Digit(v, 0), [to |-> target, flags |-> flags])
             /\ r.ok = TRUE
        BY <1>1, <3>5 DEF pt
      <4>14. /\ MemoryFine(r.mem, k, T, home4, lev4)
             /\ KernelStays(m, r.mem, k, home, home4)
             /\ Shows(m, r.mem, T, f, v, target, flags, 1)
        BY <3>3, <3>5, <4>12, <4>13, PageWritten
      <4>15. 1 \in 0 .. 1 /\ r.ok = TRUE
        BY <4>13
      <4>16. QED
        BY <4>14, <4>15 DEF Maps, MapsTo
    <3>6. QED
      BY <3>4, <3>5
  <2>6. QED
    BY <2>4, <2>5
<1>10. QED
    BY <1>8, <1>9

-----------------------------------------------------------------------------
(* vmm_map_range.                                                            *)

\* The result of the next page of a range, after those that gave r.
NextPage(r, f, v, target, flags, k) ==
    IF ~r.ok THEN r ELSE MapPage(r.mem, f, v + k - 1, target + k - 1, flags)

\* u lists the results of the first pages of a range, up to n of them.
RangeSteps(u, m, f, v, target, flags, n) ==
    u = [k \in 0 .. n |-> IF k = 0 THEN [mem |-> m, ok |-> TRUE]
                          ELSE NextPage(u[k - 1], f, v, target, flags, k)]

\* The recursion over the pages of a range has a solution.
LEMMA RangeStepsExist ==
    ASSUME NEW m, NEW f, NEW v, NEW target, NEW flags, NEW n \in Nat
    PROVE  \E u : RangeSteps(u, m, f, v, target, flags, n)
<1> DEFINE S == {k \in Nat : ~ \E u : RangeSteps(u, m, f, v, target, flags, k)}
<1>1. SUFFICES ASSUME S # {} PROVE FALSE
    OBVIOUS
<1>2. PICK j \in S : \A k \in S : j <= k
  <2>1. S \in SUBSET Nat
    OBVIOUS
  <2> HIDE DEF S
  <2>2. QED
    BY <1>1, <2>1, LeastNatural
<1>3. j \in Nat /\ ~ \E u : RangeSteps(u, m, f, v, target, flags, j)
    BY <1>2
<1>4. CASE j = 0
  <2> DEFINE u == [k \in 0 .. 0 |-> [mem |-> m, ok |-> TRUE]]
  <2>1. u = [k \in 0 .. 0 |-> IF k = 0 THEN [mem |-> m, ok |-> TRUE] ELSE NextPage(u[k - 1], f, v, target, flags, k)]
    OBVIOUS
  <2>2. RangeSteps(u, m, f, v, target, flags, 0)
    BY <2>1 DEF RangeSteps
  <2>3. QED
    BY <1>3, <1>4, <2>2
<1>5. CASE j # 0
  <2>1. j - 1 \in Nat /\ ~(j <= j - 1)
    BY <1>3, <1>5
  <2>2. PICK g : RangeSteps(g, m, f, v, target, flags, j - 1)
    BY <1>2, <2>1
  <2> DEFINE last == NextPage(g[j - 1], f, v, target, flags, j)
             u == [k \in 0 .. j |-> IF k = j THEN last ELSE g[k]]
  <2>3. \A k \in 0 .. j - 1 : g[k] = IF k = 0 THEN [mem |-> m, ok |-> TRUE] ELSE NextPage(g[k - 1], f, v, target, flags, k)
    BY <2>2 DEF RangeSteps
  <2>4. ASSUME NEW k \in 0 .. j
        PROVE  u[k] = IF k = 0 THEN [mem |-> m, ok |-> TRUE] ELSE NextPage(u[k - 1], f, v, target, flags, k)
    <3>1. CASE k = j
      <4>1. k # 0 /\ k - 1 \in 0 .. j /\ k - 1 # j /\ k - 1 = j - 1
        BY <1>3, <1>5, <3>1
      <4>2. u[k] = last /\ u[k - 1] = g[j - 1]
        BY <3>1, <4>1
      <4>3. QED
        BY <3>1, <4>1, <4>2
    <3>2. CASE k # j
      <4>1. k \in 0 .. j - 1 /\ (k # 0 => k - 1 \in 0 .. j /\ k - 1 # j)
        BY <1>3, <3>2
      <4>2. u[k] = g[k] /\ (k # 0 => u[k - 1] = g[k - 1])
        BY <3>2, <4>1
      <4> HIDE DEF u
      <4>3. QED
        BY <2>3, <4>1, <4>2
    <3>3. QED
      BY <3>1, <3>2
  <2>5. RangeSteps(u, m, f, v, target, flags, j)
    <3> DEFINE F(x) == [k \in 0 .. j |-> IF k = 0 THEN [mem |-> m, ok |-> TRUE] ELSE NextPage(x[k - 1], f, v, target, flags, k)]
    <3>1. u = F(u)
      BY <2>4
    <3>2. QED
      BY <3>1 DEF RangeSteps
  <2>6. QED
    BY <1>3, <2>5
<1>6. QED
    BY <1>4, <1>5

\* vmm_map_range maps a first part of the range, all of it unless frames run
\* out.
LEMMA MapPagesIs ==
    ASSUME NEW m, NEW k, NEW T, NEW home, NEW lev, MemoryFine(m, k, T, home, lev),
           NEW f \in T, NEW v \in Nat, NEW target \in Nat, NEW flags \in Flags,
           NEW n \in Nat, \A w \in v .. v + n - 1 : w \in LowerPages,
           NEW r, r = MapPages(m, f, v, target, n, flags)
    PROVE  Maps(m, r, k, T, home, f, v, target, flags, n)
<1> DEFINE u == CHOOSE x : RangeSteps(x, m, f, v, target, flags, n)
           S == {i \in 0 .. n : Maps(m, u[i], k, T, home, f, v, target, flags, i)}
<1>1. r = u[n]
    BY DEF MapPages, RangeSteps, NextPage
<1>2. RangeSteps(u, m, f, v, target, flags, n)
    BY RangeStepsExist
<1> HIDE DEF u
<1>3. \A i \in 0 .. n : u[i] = IF i = 0 THEN [mem |-> m, ok |-> TRUE]
                               ELSE NextPage(u[i - 1], f, v, target, flags, i)
    BY <1>2 DEF RangeSteps
<1>4. 0 \in S
  <2>1. u[0].mem = m /\ u[0].ok = TRUE
    BY <1>3
  <2>2. Steady(m, m, k, T, home, lev, home, lev)
    BY SteadyStill
  <2>3. KernelStays(m, m, k, home, home) /\ Shows(m, m, T, f, v, target, flags, 0)
    BY <2>2, SteadyShows
  <2>4. 0 \in 0 .. 0
    OBVIOUS
  <2>5. Maps(m, u[0], k, T, home, f, v, target, flags, 0)
    BY <2>1, <2>3, <2>4 DEF Maps, MapsTo
  <2>6. QED
    BY <2>5
<1>5. ASSUME NEW i \in 0 .. n - 1, i \in S PROVE i + 1 \in S
  <2> DEFINE a == u[i]   b == u[i + 1]
  <2>1. b = IF ~a.ok THEN a ELSE MapPage(a.mem, f, v + i, target + i, flags)
    <3>1. i + 1 \in 0 .. n /\ i + 1 # 0 /\ (i + 1) - 1 = i
      OBVIOUS
    <3>2. b = NextPage(a, f, v, target, flags, i + 1)
      BY <1>3, <3>1
    <3>3. v + (i + 1) - 1 = v + i /\ target + (i + 1) - 1 = target + i
      OBVIOUS
    <3>4. QED
      BY <3>2, <3>3 DEF NextPage
  <2>2. Maps(m, a, k, T, home, f, v, target, flags, i) /\ i + 1 \in 0 .. n
    BY <1>5
  <2> HIDE DEF a, b, S
  <2>3. PICK home2, lev2, j :
           MapsTo(m, a, k, T, home, f, v, target, flags, i, home2, lev2, j)
    BY <2>2 DEF Maps
  <2>4. CASE j # i
    <3>1. b = a /\ a.ok = FALSE /\ j \in 0 .. i + 1 /\ j # i + 1
      BY <2>1, <2>3, <2>4 DEF MapsTo
    <3>2. Maps(m, b, k, T, home, f, v, target, flags, i + 1)
      BY <2>3, <3>1 DEF Maps, MapsTo
    <3>3. QED
      BY <2>2, <3>2 DEF S, b
  <2>5. CASE j = i
    <3>1. b = MapPage(a.mem, f, v + i, target + i, flags)
      BY <2>1, <2>3, <2>5 DEF MapsTo
    <3>2. v + i \in LowerPages /\ target + i \in Nat /\ v + i \in Nat
      <4>1. v + i \in v .. v + n - 1
        OBVIOUS
      <4>2. QED
        BY <4>1
    <3>3. Maps(a.mem, b, k, T, home2, f, v + i, target + i, flags, 1)
      BY <2>3, <3>1, <3>2, MapPageIs DEF MapsTo
    <3>4. PICK home3, lev3, l :
             MapsTo(a.mem, b, k, T, home2, f, v + i, target + i, flags, 1, home3, lev3, l)
      BY <3>3 DEF Maps
    <3>5. KernelStays(m, b.mem, k, home, home3) /\ l \in 0 .. 1
      BY <2>3, <3>4 DEF KernelStays, MapsTo
    <3>6. Shows(m, b.mem, T, f, v, target, flags, i + l)
      <4>1. ASSUME NEW g \in T, NEW w \in LowerPages
            PROVE  Leaf(b.mem, g, w) = IF g = f /\ w \in v .. v + (i + l) - 1
                                       THEN [to |-> target + (w - v), flags |-> flags]
                                       ELSE Leaf(m, g, w)
        <5>1. Leaf(b.mem, g, w) = IF g = f /\ w \in v + i .. v + i + l - 1
                                  THEN [to |-> target + i + (w - (v + i)), flags |-> flags]
                                  ELSE Leaf(a.mem, g, w)
          BY <3>4 DEF Shows, MapsTo
        <5>2. Leaf(a.mem, g, w) = IF g = f /\ w \in v .. v + i - 1
                                  THEN [to |-> target + (w - v), flags |-> flags]
                                  ELSE Leaf(m, g, w)
          BY <2>3, <2>5 DEF Shows, MapsTo
        <5>3. w \in Nat
          BY LowerDigit
        <5>4. w \in v .. v + (i + l) - 1
                 <=> w \in v .. v + i - 1 \/ w \in v + i .. v + i + l - 1
          BY <3>5, <5>3
        <5>5. target + i + (w - (v + i)) = target + (w - v)
          BY <5>3
        <5>6. QED
          BY <5>1, <5>2, <5>4, <5>5
      <4>2. QED
        BY <4>1 DEF Shows
    <3>7. i + l \in 0 .. i + 1 /\ (i + l = i + 1 <=> l = 1)
      BY <3>5
    <3>8. Maps(m, b, k, T, home, f, v, target, flags, i + 1)
      BY <3>4, <3>5, <3>6, <3>7 DEF Maps, MapsTo
    <3>9. QED
      BY <2>2, <3>8 DEF S, b
  <2>6. QED
    BY <2>4, <2>5
<1>6. \A i \in 0 .. n : i \in S
  <2> HIDE DEF S
  <2>1. QED
    BY <1>4, <1>5, UpTo
<1>7. n \in 0 .. n
    OBVIOUS
<1>8. QED
    BY <1>1, <1>6, <1>7

-----------------------------------------------------------------------------
(* vmm_unmap and vmm_destroy_pagemap.                                        *)

\* vmm_unmap clears one page of one map.
LEMMA UnmapPageIs ==
    ASSUME NEW m, NEW k, NEW T, NEW home, NEW lev, MemoryFine(m, k, T, home, lev),
           NEW f \in T, NEW v \in LowerPages, NEW n, n = UnmapPage(m, f, v)
    PROVE  /\ MemoryFine(n, k, T, home, lev)
           /\ KernelStays(m, n, k, home, home)
           /\ \A g \in T, w \in LowerPages :
                 Leaf(n, g, w) = IF g = f /\ w = v THEN NoEntry ELSE Leaf(m, g, w)
<1> DEFINE pt == LastTable(m, f, v)
           i == Digit(v, 0)
<1>1. FramesFine(m) /\ Tree(m.tables, k, T, home, lev)
    BY DEF MemoryFine
<1>2. CASE pt = NULL
  <2>1. n = m /\ Leaf(m, f, v) = NoEntry
    BY <1>2 DEF UnmapPage, Leaf
  <2>2. QED
    BY <2>1 DEF KernelStays
<1>3. CASE pt # NULL
  <2>1. n = Put(m, pt, i, NoEntry)
    BY <1>3 DEF UnmapPage
  <2>2. OnWay(m, home, lev, f, 0, pt)
    BY <1>1, WayIs
  <2>3. pt \in DOMAIN m.tables /\ home[pt] = f /\ lev[pt] = 0 /\ i \in Index
    BY <1>3, <2>2, LowerDigit, ShiftedIs DEF OnWay
  <2> HIDE DEF pt, i
  <2>4. FramesFine(n) /\ Changed(m.tables, n.tables, pt, i, NoEntry)
    BY <1>1, <2>1, <2>3, PutIs
  <2>5. Leads(NoEntry, pt, i, m.tables, k, T, home, lev)
    BY EntriesDiffer DEF Leads
  <2>6. m.tables[pt][i].flags # "table"
    <3>1. Leads(m.tables[pt][i], pt, i, m.tables, k, T, home, lev)
      BY <1>1, <2>3 DEF Tree, Entries
    <3>2. \A y \in DOMAIN m.tables : lev[y] \in 0 .. 3
      BY <1>1 DEF Tree, Homes
    <3>3. QED
      BY <2>3, <3>1, <3>2 DEF Leads
  <2>7. MemoryFine(n, k, T, home, lev)
    BY <1>1, <2>3, <2>4, <2>5, <2>6, EntryChanged, EntriesDiffer DEF MemoryFine
  <2>8. KernelStays(m, n, k, home, home)
    <3>1. f # k
      BY <1>1 DEF Tree, Homes
    <3>2. QED
      BY <2>3, <2>4, <3>1 DEF Changed, KernelStays
  <2>9. ASSUME NEW g \in T, NEW w \in LowerPages
        PROVE  Leaf(n, g, w) = IF g = f /\ w = v THEN NoEntry ELSE Leaf(m, g, w)
    <3>1. Leaf(n, g, w) = IF LastTable(m, g, w) = pt /\ Digit(w, 0) = i
                          THEN NoEntry ELSE Leaf(m, g, w)
      <4>1. NoEntry \in TableEntry
        BY EntriesDiffer
      <4>2. pt \in DOMAIN m.tables /\ lev[pt] = 0 /\ i \in Index
            /\ Changed(m.tables, n.tables, pt, i, NoEntry)
        BY <2>3, <2>4
      <4>3. QED
        BY <4>1, <4>2, LeafChanged
    <3>2. LastTable(m, g, w) = pt /\ Digit(w, 0) = i => g = f /\ w = v
      BY <1>3, OneWalk DEF i, pt
    <3>3. g = f /\ w = v => LastTable(m, g, w) = pt /\ Digit(w, 0) = i
      BY DEF i, pt
    <3>4. QED
      BY <3>1, <3>2, <3>3
  <2>10. QED
    BY <2>7, <2>8, <2>9
<1>4. QED
    BY <1>2, <1>3

\* Freeing a frame of memory takes it out of the used ones.
LEMMA FreedIs ==
    ASSUME NEW p, IsPmm(p), NEW f \in Nat, f < p.total,
           NEW q, q = PmmFree(p, f * PageSize)
    PROVE  IsPmm(q) /\ q.total = p.total /\ q.used = p.used \ {f}
<1>1. (f * PageSize) \div PageSize = f
    BY PageAssumption
<1>2. CASE f \in p.used
  <2>1. q = Marked(p, p.used \ {f}, p.free + 1)
    BY <1>1, <1>2 DEF PmmFree, Marked
  <2>2. QED
    BY <2>1, MarkedIs
<1>3. CASE f \notin p.used
    BY <1>1, <1>3 DEF PmmFree
<1>4. QED
    BY <1>2, <1>3

\* The next frame freed, if it is one of S.
FreeNext(p, S, n) == IF n - 1 \in S THEN PmmFree(p, (n - 1) * PageSize) ELSE p

FreeSteps(u, p, S, n) ==
    u = [k \in 0 .. n |-> IF k = 0 THEN p ELSE FreeNext(u[k - 1], S, k)]

\* The recursion over the frames to free has a solution.
LEMMA FreeStepsExist ==
    ASSUME NEW p, NEW A, NEW n \in Nat
    PROVE  \E u : FreeSteps(u, p, A, n)
<1> DEFINE S == {k \in Nat : ~ \E u : FreeSteps(u, p, A, k)}
<1>1. SUFFICES ASSUME S # {} PROVE FALSE
    OBVIOUS
<1>2. PICK j \in S : \A k \in S : j <= k
  <2>1. S \in SUBSET Nat
    OBVIOUS
  <2> HIDE DEF S
  <2>2. QED
    BY <1>1, <2>1, LeastNatural
<1>3. j \in Nat /\ ~ \E u : FreeSteps(u, p, A, j)
    BY <1>2
<1>4. CASE j = 0
  <2> DEFINE u == [k \in 0 .. 0 |-> p]
  <2>1. u = [k \in 0 .. 0 |-> IF k = 0 THEN p ELSE FreeNext(u[k - 1], A, k)]
    OBVIOUS
  <2>2. FreeSteps(u, p, A, 0)
    BY <2>1 DEF FreeSteps
  <2>3. QED
    BY <1>3, <1>4, <2>2
<1>5. CASE j # 0
  <2>1. j - 1 \in Nat /\ ~(j <= j - 1)
    BY <1>3, <1>5
  <2>2. PICK g : FreeSteps(g, p, A, j - 1)
    BY <1>2, <2>1
  <2> DEFINE last == FreeNext(g[j - 1], A, j)
             u == [k \in 0 .. j |-> IF k = j THEN last ELSE g[k]]
  <2>3. \A k \in 0 .. j - 1 : g[k] = IF k = 0 THEN p ELSE FreeNext(g[k - 1], A, k)
    BY <2>2 DEF FreeSteps
  <2>4. ASSUME NEW k \in 0 .. j
        PROVE  u[k] = IF k = 0 THEN p ELSE FreeNext(u[k - 1], A, k)
    <3>1. CASE k = j
      <4>1. k # 0 /\ k - 1 \in 0 .. j /\ k - 1 # j /\ k - 1 = j - 1
        BY <1>3, <1>5, <3>1
      <4>2. u[k] = last /\ u[k - 1] = g[j - 1]
        BY <3>1, <4>1
      <4>3. QED
        BY <3>1, <4>1, <4>2
    <3>2. CASE k # j
      <4>1. k \in 0 .. j - 1 /\ (k # 0 => k - 1 \in 0 .. j /\ k - 1 # j)
        BY <1>3, <3>2
      <4>2. u[k] = g[k] /\ (k # 0 => u[k - 1] = g[k - 1])
        BY <3>2, <4>1
      <4> HIDE DEF u
      <4>3. QED
        BY <2>3, <4>1, <4>2
    <3>3. QED
      BY <3>1, <3>2
  <2>5. FreeSteps(u, p, A, j)
    <3> DEFINE F(x) == [k \in 0 .. j |-> IF k = 0 THEN p ELSE FreeNext(x[k - 1], A, k)]
    <3>1. u = F(u)
      BY <2>4
    <3>2. QED
      BY <3>1 DEF FreeSteps
  <2>6. QED
    BY <1>3, <2>5
<1>6. QED
    BY <1>4, <1>5

\* Frames freed one by one are frames freed together.
LEMMA FreeAllIs ==
    ASSUME NEW p, IsPmm(p), NEW A \in SUBSET (0 .. p.total - 1), NEW q, q = FreeAll(p, A)
    PROVE  IsPmm(q) /\ q.total = p.total /\ q.used = p.used \ A
<1> DEFINE u == CHOOSE x : FreeSteps(x, p, A, p.total)
           Freed(i) == IsPmm(u[i]) /\ u[i].total = p.total
                       /\ u[i].used = p.used \ {f \in A : f < i}
           S == {i \in 0 .. p.total : Freed(i)}
<1>1. q = u[p.total] /\ p.total \in Nat
    BY DEF FreeAll, FreeSteps, FreeNext, IsPmm
<1>2. \A f \in A : f \in Nat /\ f < p.total /\ ~(f < 0)
    BY <1>1
<1>3. FreeSteps(u, p, A, p.total)
    BY <1>1, FreeStepsExist
<1> HIDE DEF u
<1>4. \A i \in 0 .. p.total : u[i] = IF i = 0 THEN p ELSE FreeNext(u[i - 1], A, i)
    BY <1>3 DEF FreeSteps
<1>5. 0 \in S
  <2>1. 0 \in 0 .. p.total /\ u[0] = p
    BY <1>1, <1>4
  <2>2. {f \in A : f < 0} = {}
    BY <1>2
  <2>3. QED
    BY <2>1, <2>2
<1>6. ASSUME NEW i \in 0 .. p.total - 1, i \in S PROVE i + 1 \in S
  <2>1. u[i + 1] = IF i \in A THEN PmmFree(u[i], i * PageSize) ELSE u[i]
    <3>1. i + 1 \in 0 .. p.total /\ i + 1 # 0 /\ (i + 1) - 1 = i
      BY <1>1
    <3>2. QED
      BY <1>4, <3>1 DEF FreeNext
  <2>2. Freed(i) /\ i \in Nat /\ i < p.total /\ i + 1 \in 0 .. p.total
    BY <1>1, <1>6
  <2>3. {f \in A : f < i + 1} = {f \in A : f < i} \cup (A \cap {i})
    <3>1. \A f \in A : f < i + 1 <=> f < i \/ f = i
      BY <1>2, <2>2
    <3> HIDE DEF Freed
    <3>2. QED
      BY <3>1
  <2>4. CASE i \in A
    <3>1. IsPmm(u[i + 1]) /\ u[i + 1].total = p.total /\ u[i + 1].used = u[i].used \ {i}
      BY <2>1, <2>2, <2>4, FreedIs
    <3>2. QED
      BY <2>2, <2>3, <2>4, <3>1
  <2>5. CASE i \notin A
    <3>1. u[i + 1] = u[i]
      BY <2>1, <2>5
    <3>2. QED
      BY <2>2, <2>3, <2>5, <3>1
  <2>6. QED
    BY <2>4, <2>5
<1>7. \A i \in 0 .. p.total : i \in S
  <2> HIDE DEF S
  <2>1. QED
    BY <1>1, <1>5, <1>6, UpTo
<1>8. Freed(p.total) /\ {f \in A : f < p.total} = A
  <2>1. p.total \in 0 .. p.total
    BY <1>1
  <2>2. Freed(p.total)
    BY <1>7, <2>1
  <2>3. {f \in A : f < p.total} = A
    BY <1>2
  <2>4. QED
    BY <2>2, <2>3
<1>9. QED
    BY <1>1, <1>8

\* The tables of map f at level l.
Level(t, home, lev, f, l) == {x \in DOMAIN t : home[x] = f /\ lev[x] = l}

\* Where the entries J of the tables S lead.
LeadsTo(t, S, J) == {t[x][i].to : x \in S, i \in J} \ {NULL}

\* The entries of the tables of a level lead to the tables of the next.
LEMMA NextLevel ==
    ASSUME NEW m, NEW k, NEW T, NEW home, NEW lev, MemoryFine(m, k, T, home, lev),
           NEW f \in T, NEW l \in 1 .. 3, NEW n \in 0 .. 2, l = n + 1,
           NEW J, l = 3 => J = 0 .. Half - 1, l # 3 => J = Index
    PROVE  LeadsTo(m.tables, Level(m.tables, home, lev, f, l), J)
              = Level(m.tables, home, lev, f, n)
<1> DEFINE t == m.tables
           A == LeadsTo(t, Level(t, home, lev, f, l), J)
           B == Level(t, home, lev, f, n)
<1>1. /\ f # k /\ home[f] = f
      /\ \A x \in DOMAIN t : lev[x] \in 0 .. 3 /\ (lev[x] = 3 <=> x \in T \cup {k})
      /\ \A x \in T \cup {k} : home[x] = x
    BY DEF MemoryFine, Tree, Homes
<1>2. J \subseteq Index /\ \A i \in Index : i \in J <=> (l = 3 => i < Half)
    BY FanOutIs DEF Index
<1>3. ASSUME NEW y \in A PROVE y \in B
  <2>1. PICK x \in Level(t, home, lev, f, l), i \in J : y = t[x][i].to /\ y # NULL
    BY DEF LeadsTo
  <2>2. x \in DOMAIN t /\ home[x] = f /\ lev[x] = l /\ i \in Index /\ (x \in T => i < Half)
    BY <1>1, <1>2, <2>1 DEF Level
  <2>3. t[x][i] # NoEntry
    BY <2>1, EntriesDiffer DEF NULL
  <2>4. LET b == Below(m, x, i)
        IN  b \in DOMAIN t /\ t[x][i] = Link(b) /\ home[b] = f /\ lev[b] = n
    BY <2>2, <2>3, BelowIs
  <2>5. y = Below(m, x, i)
    BY <2>1, <2>4 DEF Link
  <2>6. QED
    BY <2>4, <2>5 DEF Level
<1>4. ASSUME NEW y \in B PROVE y \in A
  <2>1. y \in DOMAIN t /\ home[y] = f /\ lev[y] = n /\ y # f
    BY <1>1 DEF Level
  <2>2. PICK x \in DOMAIN t, i \in Index : home[x] = f /\ t[x][i] = Link(y)
    BY <2>1 DEF MemoryFine, Tree, Hanging
  <2>3. lev[x] = l
    <3>1. t[x][i].flags = "table" /\ t[x][i].to = y
      BY <2>2 DEF Link
    <3>2. lev[x] = lev[y] + 1
      BY <3>1 DEF MemoryFine, Tree, Entries, Leads
    <3>3. QED
      BY <2>1, <3>2
  <2>4. l = 3 => i < Half
    <3>1. SUFFICES ASSUME l = 3, ~(i < Half) PROVE FALSE
      OBVIOUS
    <3>2. x = f /\ i >= Half
      BY <1>1, <2>2, <2>3, <3>1, FanOutIs DEF Index
    <3>3. t[k][i] = Link(y)
      BY <2>2, <3>2 DEF MemoryFine, Tree, UpperShared
    <3>4. t[k][i].flags = "table" /\ t[k][i].to = y
      BY <3>3 DEF Link
    <3>5. home[y] = k
      BY <1>1, <3>4 DEF MemoryFine, Tree, Homes, Entries, Leads
    <3>6. QED
      BY <1>1, <2>1, <3>5
  <2>5. y # NULL /\ t[x][i].to = y
    BY <2>1, <2>2, FramesAre DEF MemoryFine, Link
  <2>6. QED
    BY <1>2, <2>2, <2>3, <2>4, <2>5 DEF Level, LeadsTo
<1>5. QED
    BY <1>3, <1>4

\* vmm_destroy_pagemap frees the tables of the map, all of them and no others.
LEMMA LowerTablesAre ==
    ASSUME NEW k, NEW T, NEW home, NEW lev, MemoryFine(Now, k, T, home, lev), NEW f \in T
    PROVE  LowerTables(f) \cup {f} = Own(tables, home, f)
<1> DEFINE L(l) == Level(tables, home, lev, f, l)
<1>1. Now.tables = tables
    BY DEF Now, Memory
<1>2. /\ f \in DOMAIN tables /\ f # k
      /\ \A x \in DOMAIN tables : lev[x] \in 0 .. 3 /\ (lev[x] = 3 <=> x \in T \cup {k})
      /\ \A x \in T \cup {k} : home[x] = x
    BY <1>1 DEF MemoryFine, Tree, Homes
<1>3. L(3) = {f}
    BY <1>2 DEF Level
<1>4. LinksBelow(f, Half) = L(2)
  <2> DEFINE J == 0 .. Half - 1
  <2>1. LeadsTo(tables, L(3), J) = L(2)
    <3>1. /\ 3 \in 1 .. 3 /\ 2 \in 0 .. 2 /\ 3 = 2 + 1
          /\ 3 = 3 => J = 0 .. Half - 1
          /\ 3 # 3 => J = Index
      OBVIOUS
    <3>2. QED
      BY <1>1, <3>1, NextLevel
  <2>2. {tables[x][i].to : x \in {f}, i \in J} = {tables[f][i].to : i \in J}
    OBVIOUS
  <2>3. QED
    BY <1>3, <2>1, <2>2 DEF LinksBelow, LeadsTo, NULL
<1>5. Links(L(2)) = L(1)
  <2>1. LeadsTo(tables, L(2), Index) = L(1)
    <3>1. /\ 2 \in 1 .. 3 /\ 1 \in 0 .. 2 /\ 2 = 1 + 1
          /\ 2 = 3 => Index = 0 .. Half - 1
          /\ 2 # 3 => Index = Index
      OBVIOUS
    <3>2. QED
      BY <1>1, <3>1, NextLevel
  <2>2. QED
    BY <2>1 DEF Links, LeadsTo, NULL
<1>6. Links(L(1)) = L(0)
  <2>1. LeadsTo(tables, L(1), Index) = L(0)
    <3>1. /\ 1 \in 1 .. 3 /\ 0 \in 0 .. 2 /\ 1 = 0 + 1
          /\ 1 = 3 => Index = 0 .. Half - 1
          /\ 1 # 3 => Index = Index
      OBVIOUS
    <3>2. QED
      BY <1>1, <3>1, NextLevel
  <2>2. QED
    BY <2>1 DEF Links, LeadsTo, NULL
<1> HIDE DEF L
<1>7. LowerTables(f) = L(2) \cup L(1) \cup L(0)
    BY <1>4, <1>5, <1>6 DEF LowerTables
<1>8. Own(tables, home, f) = L(3) \cup L(2) \cup L(1) \cup L(0)
  <2>1. \A n \in 0 .. 3 : n = 0 \/ n = 1 \/ n = 2 \/ n = 3
    OBVIOUS
  <2>2. QED
    BY <1>2, <2>1 DEF L, Level, Own
<1>9. QED
    BY <1>3, <1>7, <1>8

-----------------------------------------------------------------------------
(* vmm_create_pagemap and vmm_destroy_pagemap, on the memory.                *)

\* The tables of map g are in n as they were in m.
Untouched(m, n, home, g) ==
    \A z \in DOMAIN m.tables : home[z] = g => n.tables[z] = m.tables[z]

\* A walk in a map reads the map's own tables alone.
LEMMA LeafSame ==
    ASSUME NEW m, NEW k, NEW T, NEW home, NEW lev, MemoryFine(m, k, T, home, lev),
           NEW g \in T, NEW v \in LowerPages,
           NEW n, Untouched(m, n, home, g)
    PROVE  Leaf(n, g, v) = Leaf(m, g, v)
<1>1. PICK p2, p1, p0 :
         /\ Way(m, g, v, p2, p1, p0) /\ p0 = LastTable(m, g, v)
         /\ OnWay(m, home, lev, g, 3, g) /\ OnWay(m, home, lev, g, 2, p2)
         /\ OnWay(m, home, lev, g, 1, p1) /\ OnWay(m, home, lev, g, 0, p0)
    BY WayIs
<1>2. ASSUME NEW x, NEW l, OnWay(m, home, lev, g, l, x), NEW i
      PROVE  Below(n, x, i) = Below(m, x, i)
    BY <1>2 DEF OnWay, Below, Untouched
<1>3. Below(n, g, Digit(v, 3)) = p2 /\ Below(n, p2, Digit(v, 2)) = p1
      /\ Below(n, p1, Digit(v, 1)) = p0
    BY <1>1, <1>2 DEF Way
<1>4. LastTable(n, g, v) = p0
    BY <1>3 DEF LastTable
<1>5. p0 # NULL => n.tables[p0] = m.tables[p0]
    BY <1>1 DEF OnWay, Untouched
<1>6. QED
    BY <1>1, <1>4, <1>5 DEF Leaf

\* m with a top table y that shares the upper half of k in t.
SharedTop(m, y, t, k) == [m EXCEPT !.tables[y] = Sharing(t, k)]

\* m has become n by a top table y, that shows no page while the others show
\* what they did.
Added(m, n, k, T, home, lev, y) ==
    /\ MemoryFine(n, k, T \cup {y}, With(home, y, y), With(lev, y, 3))
    /\ KernelStays(m, n, k, home, With(home, y, y))
    /\ y \in FirstFrame .. n.pmm.total - 1 /\ y \notin T
    /\ \A v \in LowerPages : Leaf(n, y, v) = NoEntry
    /\ \A g \in T, v \in LowerPages : Leaf(n, g, v) = Leaf(m, g, v)

\* A new map shows no page, and the others show what they did.
LEMMA NewMap ==
    ASSUME NEW m, NEW k, NEW T, NEW home, NEW lev, MemoryFine(m, k, T, home, lev),
           NEW new, NEW y, TookTable(m, new, y),
           NEW n, n = SharedTop(new, y, m.tables, k)
    PROVE  Added(m, n, k, T, home, lev, y)
<1> DEFINE top == Sharing(m.tables, k)
           home2 == With(home, y, y)
<1>1. /\ FramesFine(m) /\ Tree(m.tables, k, T, home, lev)
      /\ T \subseteq DOMAIN m.tables /\ DOMAIN home = DOMAIN m.tables
    BY DEF MemoryFine, Tree, Homes
<1>2. /\ FramesFine(new) /\ y \in Nat /\ y # NULL /\ y \notin DOMAIN m.tables
      /\ DOMAIN new.tables = DOMAIN m.tables \cup {y}
      /\ \A z \in DOMAIN m.tables : new.tables[z] = m.tables[z]
    BY DEF TookTable
<1>3. new = [pmm |-> new.pmm, tables |-> new.tables]
    BY <1>2 DEF FramesFine, Memory
<1>4. n = [pmm |-> new.pmm, tables |-> [new.tables EXCEPT ![y] = top]]
    BY <1>3 DEF SharedTop
<1> HIDE DEF top
<1>5. /\ n.pmm = new.pmm /\ n.tables = [new.tables EXCEPT ![y] = top]
      /\ n = Memory(n.pmm, n.tables)
  <2>1. n.pmm = new.pmm /\ n.tables = [new.tables EXCEPT ![y] = top]
    BY <1>4
  <2>2. n = Memory(n.pmm, n.tables)
    BY <1>4, <2>1 DEF Memory
  <2>3. QED
    BY <2>1, <2>2
<1>6. DOMAIN n.tables = DOMAIN new.tables /\ n.tables[y] = top
      /\ \A z \in DOMAIN m.tables : n.tables[z] = m.tables[z]
    BY <1>2, <1>5
<1>7. FramesFine(n)
    BY <1>2, <1>5, <1>6 DEF FramesFine
<1>8. Topped(m.tables, n.tables, k, y)
    BY <1>2, <1>6 DEF Topped, top
<1>9. MemoryFine(n, k, T \cup {y}, home2, With(lev, y, 3))
    BY <1>1, <1>2, <1>7, <1>8, TopMade DEF MemoryFine
<1>10. KernelStays(m, n, k, home, home2)
    BY <1>1, <1>2, <1>6 DEF KernelStays, With
<1>11. y \in FirstFrame .. n.pmm.total - 1 /\ y \notin T
    BY <1>1, <1>2, <1>6, <1>7 DEF FramesFine
<1>12. ASSUME NEW v \in LowerPages PROVE Leaf(n, y, v) = NoEntry
  <2>1. Digit(v, 3) < Half /\ Digit(v, 3) \in Index
    BY LowerDigit, ShiftedIs
  <2>2. n.tables[y][Digit(v, 3)] = NoEntry
    BY <1>6, <2>1 DEF top, Sharing
  <2>3. Below(n, y, Digit(v, 3)) = NULL
    BY <2>2, EntriesDiffer DEF Below, Present
  <2>4. QED
    BY <2>3 DEF Leaf, LastTable, Below
<1>13. \A g \in T, v \in LowerPages : Leaf(n, g, v) = Leaf(m, g, v)
  <2>1. \A g : Untouched(m, n, home, g)
    BY <1>6 DEF Untouched
  <2>2. QED
    BY <2>1, LeafSame
<1>14. QED
    BY <1>9, <1>10, <1>11, <1>12, <1>13 DEF Added

\* Memory n is m without map f.
Gone(m, n, k, T, f, home, home2, lev2) ==
    /\ MemoryFine(n, k, T \ {f}, home2, lev2)
    /\ KernelStays(m, n, k, home, home2)
    /\ \A g \in T \ {f}, v \in LowerPages : Leaf(n, g, v) = Leaf(m, g, v)

\* A destroyed map takes its own tables with it; the others show what they did.
LEMMA MapGone ==
    ASSUME NEW m, NEW k, NEW T, NEW home, NEW lev, MemoryFine(m, k, T, home, lev),
           NEW f \in T, NEW D, D = DOMAIN m.tables \ Own(m.tables, home, f),
           NEW n, n = Memory(FreeAll(m.pmm, Own(m.tables, home, f)), Only(m.tables, D))
    PROVE  Gone(m, n, k, T, f, home, Only(home, D), Only(lev, D))
<1> DEFINE O == Own(m.tables, home, f)
           q == FreeAll(m.pmm, O)
           u == Only(m.tables, D)
           home2 == Only(home, D)
<1>1. /\ FramesFine(m) /\ Tree(m.tables, k, T, home, lev) /\ f # k
      /\ O \subseteq DOMAIN m.tables /\ DOMAIN home = DOMAIN m.tables
    BY DEF MemoryFine, Tree, Homes, Own
<1>2. n.pmm = q /\ n.tables = u /\ n = Memory(n.pmm, n.tables)
    BY DEF Memory
<1>3. IsPmm(q) /\ q.total = m.pmm.total /\ q.used = m.pmm.used \ O
  <2>1. O \in SUBSET (0 .. m.pmm.total - 1)
    <3>1. FirstFrame \in Nat
      BY FirstFramePositive
    <3>2. QED
      BY <1>1, <3>1 DEF FramesFine
  <2>2. IsPmm(m.pmm)
    BY <1>1 DEF FramesFine
  <2>3. q = FreeAll(m.pmm, O)
    OBVIOUS
  <2> HIDE DEF O, q
  <2>4. QED
    BY <2>1, <2>2, <2>3, FreeAllIs
<1>4. DOMAIN u = D /\ D = DOMAIN m.tables \ O /\ \A x \in D : u[x] = m.tables[x]
    BY DEF Only
<1>5. Tree(u, k, T \ {f}, home2, Only(lev, D))
    BY <1>1, TreeCut
<1> HIDE DEF q, u, O
<1>6. FramesFine(n)
    BY <1>1, <1>2, <1>3, <1>4 DEF FramesFine
<1>7. MemoryFine(n, k, T \ {f}, home2, Only(lev, D))
    BY <1>2, <1>5, <1>6 DEF MemoryFine
<1>8. ASSUME NEW z \in DOMAIN m.tables, home[z] # f
      PROVE  z \in D /\ home2[z] = home[z] /\ n.tables[z] = m.tables[z]
    BY <1>2, <1>4, <1>8 DEF O, Own, Only
<1>9. KernelStays(m, n, k, home, home2)
    BY <1>1, <1>2, <1>4, <1>8 DEF KernelStays
<1>10. \A g \in T \ {f}, v \in LowerPages : Leaf(n, g, v) = Leaf(m, g, v)
  <2>1. ASSUME NEW g \in T \ {f}, NEW v \in LowerPages
        PROVE  Leaf(n, g, v) = Leaf(m, g, v)
    <3>1. Untouched(m, n, home, g)
      BY <1>8 DEF Untouched
    <3>2. QED
      BY <3>1, LeafSame
  <2>2. QED
    BY <2>1
<1>11. QED
    BY <1>7, <1>9, <1>10 DEF Gone

-----------------------------------------------------------------------------
(* vmm_init.                                                                 *)

\* The direct map has at least one large page.
LEMMA HugePagesIs == HugePages \in Nat \ {0}
<1> DEFINE cube == FanOut * (FanOut * FanOut)
<1>1. FanOut \in Nat /\ HugePages \in 1 .. cube
    BY VmmAssumption
<1>2. cube \in Nat
    BY <1>1
<1> HIDE DEF cube
<1>3. QED
    BY <1>1, <1>2

HugeEntry(i) == [to |-> i * FanOut, flags |-> "huge"]

\* Large page i hangs under k, by way of tables p and q.
By(t, home, k, i, p, q) ==
    /\ p \in DOMAIN t /\ q \in DOMAIN t /\ home[p] = k /\ home[q] = k
    /\ t[k][Digit(LargeAt(i), 3)] = Link(p)
    /\ t[p][Digit(LargeAt(i), 2)] = Link(q)
    /\ t[q][Digit(LargeAt(i), 1)] = HugeEntry(i)

InPlace(t, home, k, i) == \E p, q : By(t, home, k, i, p, q)

\* The first n large pages hang in the kernel's map, unless frames ran out.
LargeUpTo(r, k, n, home, lev) ==
    /\ MemoryFine(r.mem, k, {}, home, lev)
    /\ r.at # NULL => \A i \in 0 .. n - 1 : InPlace(r.mem.tables, home, k, i)

Booted(r, k, n) == \E home, lev : LargeUpTo(r, k, n, home, lev)

\* A large page stays where it is while tables come.
LEMMA KeptInPlace ==
    ASSUME NEW m, NEW k, NEW T, NEW home, NEW lev, MemoryFine(m, k, T, home, lev),
           NEW n, NEW home2, NEW lev2, Kept(m, n, home, lev, home2, lev2),
           NEW i \in Nat, InPlace(m.tables, home, k, i)
    PROVE  InPlace(n.tables, home2, k, i)
<1>1. PICK p, q : By(m.tables, home, k, i, p, q)
    BY DEF InPlace
<1>2. LargeAt(i) \in Nat
    BY VmmAssumption DEF LargeAt
<1>3. \A l \in 0 .. 3 : Digit(LargeAt(i), l) \in Index
    BY <1>2, ShiftedIs
<1>4. k \in DOMAIN m.tables
    BY DEF MemoryFine, Tree, Homes
<1>5. By(n.tables, home2, k, i, p, q)
  <2>1. /\ Digit(LargeAt(i), 3) \in Index /\ Digit(LargeAt(i), 2) \in Index
        /\ Digit(LargeAt(i), 1) \in Index
    BY <1>3
  <2>2. Link(p).flags = "table" /\ Link(q).flags = "table" /\ HugeEntry(i).flags = "huge"
    BY DEF Link, HugeEntry
  <2>3. QED
    BY <1>1, <1>4, <2>1, <2>2 DEF By, Kept
<1>6. QED
    BY <1>5 DEF InPlace

\* The result of get_or_create has two fields.
LEMMA GotRecord ==
    ASSUME NEW m, NEW f, NEW i, NEW r, r = GetOrCreate(m, f, i)
    PROVE  r = [mem |-> r.mem, at |-> r.at]
<1> DEFINE new == AllocTable(m)
<1>1. new = [mem |-> new.mem, at |-> new.at]
    BY DEF AllocTable
<1>2. \/ r = [mem |-> m, at |-> m.tables[f][i].to]
      \/ r = new
      \/ r = [new EXCEPT !.mem = Put(@, f, i, Link(new.at))]
    BY DEF GetOrCreate
<1> HIDE DEF new
<1>3. QED
    BY <1>1, <1>2

\* The large page written where its tables are, and the others stay.
LEMMA LargeWritten ==
    ASSUME NEW m, NEW k, NEW home, NEW lev, MemoryFine(m, k, {}, home, lev),
           NEW n \in 0 .. HugePages - 1,
           \A i \in 0 .. n - 1 : InPlace(m.tables, home, k, i),
           NEW p \in DOMAIN m.tables, NEW q \in DOMAIN m.tables,
           home[p] = k, home[q] = k, lev[q] = 1,
           m.tables[k][Digit(LargeAt(n), 3)] = Link(p),
           m.tables[p][Digit(LargeAt(n), 2)] = Link(q),
           NEW o, o = Put(m, q, Digit(LargeAt(n), 1), HugeEntry(n))
    PROVE  /\ MemoryFine(o, k, {}, home, lev)
           /\ \A i \in 0 .. n : InPlace(o.tables, home, k, i)
<1> DEFINE t == m.tables
           e == HugeEntry(n)
           d(i, l) == Digit(LargeAt(i), l)
<1>1. /\ FramesFine(m) /\ Tree(t, k, {}, home, lev)
      /\ \A z \in DOMAIN t : t[z] \in [Index -> TableEntry]
      /\ k \in DOMAIN t /\ home[k] = k /\ \A z \in DOMAIN t : lev[z] \in 0 .. 3
    BY DEF MemoryFine, Tree, Entries, Homes
<1>2. \A i \in Nat : \A l \in 0 .. 3 : d(i, l) \in Index
  <2>1. \A i \in Nat : LargeAt(i) \in Nat
    BY VmmAssumption DEF LargeAt
  <2>2. QED
    BY <2>1, ShiftedIs
<1>3. n \in Nat /\ \A i \in Nat : d(i, 1) \in Index /\ d(i, 2) \in Index /\ d(i, 3) \in Index
    BY <1>2
<1>4. FramesFine(o) /\ Changed(t, o.tables, q, d(n, 1), e)
    BY <1>1, PutIs
<1>5. e \in TableEntry /\ e.flags = "huge" /\ n * FanOut \in Nat
    BY <1>3, FanOutIs DEF HugeEntry, TableEntry
<1>6. "huge" # "table" /\ "huge" # "absent" /\ "huge" \notin Flags
    BY EntriesDiffer
<1> HIDE DEF e, d
<1>7. Leads(e, q, d(n, 1), t, k, {}, home, lev)
    BY <1>5, <1>6 DEF Leads
<1>8. t[q][d(n, 1)].flags # "table"
  <2>1. Leads(t[q][d(n, 1)], q, d(n, 1), t, k, {}, home, lev)
    BY <1>1, <1>3 DEF Tree, Entries
  <2>2. \A y \in DOMAIN t : lev[y] \in 0 .. 3 /\ (home[y] = k => lev[y] > 0)
    BY <1>1 DEF Tree, Homes
  <2>3. QED
    BY <2>1, <2>2 DEF Leads
<1>9. Tree(o.tables, k, {}, home, lev)
    BY <1>1, <1>3, <1>4, <1>5, <1>6, <1>7, <1>8, EntryChanged
<1>10. MemoryFine(o, k, {}, home, lev)
    BY <1>4, <1>9 DEF MemoryFine
<1>11. /\ o.tables[q][d(n, 1)] = e /\ DOMAIN o.tables = DOMAIN t
       /\ \A z \in DOMAIN t : \A j \in Index : z # q \/ j # d(n, 1) => o.tables[z][j] = t[z][j]
  <2>1. DOMAIN o.tables = DOMAIN t
    BY <1>4 DEF Changed
  <2>2. d(n, 1) \in Index /\ Changed(t, o.tables, q, d(n, 1), e) /\ e \in TableEntry
    BY <1>3, <1>4, <1>5
  <2>3. \A z \in DOMAIN t : t[z] \in [Index -> TableEntry]
    BY <1>1
  <2> HIDE DEF t
  <2>4. q \in DOMAIN t
    BY DEF t
  <2>5. /\ o.tables[q][d(n, 1)] = e
        /\ \A z \in DOMAIN t : \A j \in Index : z # q \/ j # d(n, 1) => o.tables[z][j] = t[z][j]
    BY <2>2, <2>3, <2>4, ChangedEntries
  <2>6. QED
    BY <2>1, <2>5
<1>12. ASSUME NEW z \in DOMAIN t, NEW j \in Index, NEW y, t[z][j] = Link(y)
       PROVE  o.tables[z][j] = Link(y)
  <2>1. t[z][j].flags = "table"
    BY <1>12 DEF Link
  <2>2. z # q \/ j # d(n, 1)
    BY <1>8, <2>1
  <2>3. QED
    BY <1>11, <1>12, <2>2
<1>13. InPlace(o.tables, home, k, n)
  <2>1. t[k][d(n, 3)] = Link(p) /\ t[p][d(n, 2)] = Link(q)
    BY DEF d
  <2>2. o.tables[k][d(n, 3)] = Link(p) /\ o.tables[p][d(n, 2)] = Link(q)
    BY <1>1, <1>3, <1>12, <2>1
  <2>3. By(o.tables, home, k, n, p, q)
    BY <1>11, <2>2 DEF By, d, e
  <2>4. QED
    BY <2>3 DEF InPlace
<1>14. ASSUME NEW i \in 0 .. n - 1 PROVE InPlace(o.tables, home, k, i)
  <2>1. PICK a, b : By(t, home, k, i, a, b)
    BY DEF InPlace
  <2>2. /\ a \in DOMAIN t /\ b \in DOMAIN t /\ home[a] = k /\ home[b] = k
        /\ t[k][d(i, 3)] = Link(a) /\ t[a][d(i, 2)] = Link(b) /\ t[b][d(i, 1)] = HugeEntry(i)
    BY <2>1 DEF By, d
  <2>3. i \in Nat /\ i # n /\ i \in 0 .. HugePages - 1
    BY <1>3, HugePagesIs
  <2>4. o.tables[k][d(i, 3)] = Link(a) /\ o.tables[a][d(i, 2)] = Link(b)
    BY <1>1, <1>3, <1>12, <2>2, <2>3
  <2>5. ~(b = q /\ d(i, 1) = d(n, 1))
    <3>1. SUFFICES ASSUME b = q, d(i, 1) = d(n, 1) PROVE FALSE
      OBVIOUS
    <3>2. t[k][d(n, 3)] = Link(p) /\ t[p][d(n, 2)] = Link(q)
      BY DEF d
    <3>3. \A x, z \in DOMAIN t : \A g, h \in Index :
             home[x] = home[z] /\ t[x][g].flags = "table" /\ t[x][g] = t[z][h] => x = z /\ g = h
      BY <1>1 DEF Tree, OneWay
    <3>4. \A y : Link(y).flags = "table"
      BY DEF Link
    <3>5. t[a][d(i, 2)] = t[p][d(n, 2)] /\ t[a][d(i, 2)].flags = "table"
      BY <2>2, <3>1, <3>2, <3>4
    <3>6. a = p /\ d(i, 2) = d(n, 2)
      BY <1>3, <2>2, <2>3, <3>3, <3>5
    <3>7. t[k][d(i, 3)] = t[k][d(n, 3)] /\ t[k][d(i, 3)].flags = "table"
      BY <2>2, <3>2, <3>4, <3>6
    <3>8. d(i, 3) = d(n, 3)
      BY <1>1, <1>3, <2>3, <3>3, <3>7
    <3>9. \A l \in 1 .. 3 : d(i, l) = d(n, l)
      <4>1. \A l \in 1 .. 3 : l = 1 \/ l = 2 \/ l = 3
        OBVIOUS
      <4>2. QED
        BY <3>1, <3>6, <3>8, <4>1
    <3>10. i = n
      BY <2>3, <3>9, LargeApart DEF d
    <3>11. QED
      BY <2>3, <3>10
  <2>6. o.tables[b][d(i, 1)] = HugeEntry(i)
    BY <1>3, <1>11, <2>2, <2>3, <2>5
  <2>7. By(o.tables, home, k, i, a, b)
    BY <1>11, <2>2, <2>4, <2>6 DEF By, d
  <2>8. QED
    BY <2>7 DEF InPlace
<1>15. \A i \in 0 .. n : i = n \/ i \in 0 .. n - 1
    BY <1>3
<1>16. QED
    BY <1>10, <1>13, <1>14, <1>15

\* One large page more of the direct map is in place, or frames ran out at
\* boot.
LEMMA MapLargeIs ==
    ASSUME NEW r, NEW k, NEW n \in 0 .. HugePages - 1, Booted(r, k, n),
           NEW s, s = MapLarge(r, k, n)
    PROVE  Booted(s, k, n + 1)
<1> DEFINE v == LargeAt(n)
           pdpt == GetOrCreate(r.mem, k, Digit(v, 3))
           pd == IF pdpt.at = NULL THEN pdpt ELSE GetOrCreate(pdpt.mem, pdpt.at, Digit(v, 2))
<1>1. s = IF r.at = NULL THEN r
          ELSE IF pd.at = NULL THEN pd
          ELSE [pd EXCEPT !.mem = Put(@, pd.at, Digit(v, 1), HugeEntry(n))]
    BY DEF MapLarge, HugeEntry
<1>2. PICK home, lev : LargeUpTo(r, k, n, home, lev)
    BY DEF Booted
<1>3. MemoryFine(r.mem, k, {}, home, lev) /\ k \in DOMAIN r.mem.tables /\ home[k] = k /\ lev[k] = 3
    BY <1>2 DEF LargeUpTo, MemoryFine, Tree, Homes
<1>4. n \in Nat /\ Digit(v, 3) \in Index /\ Digit(v, 2) \in Index /\ Digit(v, 1) \in Index
  <2>1. LargeAt(n) \in Nat
    BY VmmAssumption DEF LargeAt
  <2>2. \A l \in 0 .. 3 : Digit(v, l) \in Index
    BY <2>1, ShiftedIs
  <2>3. QED
    BY <2>2
<1>5. MayGrow({}, k, home, lev, k, Digit(v, 3))
    BY <1>3, <1>4 DEF MayGrow
<1>6. CASE r.at = NULL
  <2>1. s = r
    BY <1>1, <1>6
  <2>2. LargeUpTo(s, k, n + 1, home, lev)
    BY <1>2, <1>6, <2>1 DEF LargeUpTo
  <2>3. QED
    BY <2>2 DEF Booted
<1>7. CASE r.at # NULL /\ pdpt.at = NULL
  <2>1. s = pdpt
    BY <1>1, <1>7
  <2>2. s.mem = r.mem /\ s.at = NULL
    BY <1>3, <1>5, <1>7, <2>1, GetOrCreateIs
  <2>3. LargeUpTo(s, k, n + 1, home, lev)
    BY <1>3, <2>2 DEF LargeUpTo
  <2>4. QED
    BY <2>3 DEF Booted
<1>8. CASE r.at # NULL /\ pdpt.at # NULL
  <2>1. PICK home2, lev2 : Got(r.mem, pdpt, k, {}, home, lev, k, Digit(v, 3), home2, lev2)
    BY <1>3, <1>5, <1>8, GetOrCreateIs
  <2> DEFINE p == pdpt.at   m2 == pdpt.mem
  <2>2. /\ MemoryFine(m2, k, {}, home2, lev2) /\ Kept(r.mem, m2, home, lev, home2, lev2)
        /\ p \in DOMAIN m2.tables /\ lev2[p] = 2 /\ home2[p] = k
        /\ m2.tables[k][Digit(v, 3)] = Link(p)
    BY <1>3, <2>1 DEF Got
  <2>3. pd = GetOrCreate(m2, p, Digit(v, 2))
    BY <1>8
  <2>4. k \in DOMAIN m2.tables /\ lev2[k] = 3
    BY <2>2 DEF MemoryFine, Tree, Homes
  <2>5. MayGrow({}, k, home2, lev2, p, Digit(v, 2))
    BY <1>4, <2>2 DEF MayGrow
  <2> HIDE DEF pd, p, m2, pdpt
  <2>6. CASE pd.at = NULL
    <3>1. s = pd
      BY <1>1, <1>8, <2>6
    <3>2. s.mem = m2 /\ s.at = NULL
      BY <2>2, <2>3, <2>5, <2>6, <3>1, GetOrCreateIs
    <3>3. LargeUpTo(s, k, n + 1, home2, lev2)
      BY <2>2, <3>2 DEF LargeUpTo
    <3>4. QED
      BY <3>3 DEF Booted
  <2>7. CASE pd.at # NULL
    <3>1. PICK home3, lev3 : Got(m2, pd, k, {}, home2, lev2, p, Digit(v, 2), home3, lev3)
      BY <2>2, <2>3, <2>5, <2>7, GetOrCreateIs
    <3> DEFINE q == pd.at   m3 == pd.mem
    <3>2. /\ MemoryFine(m3, k, {}, home3, lev3) /\ Kept(m2, m3, home2, lev2, home3, lev3)
          /\ q \in DOMAIN m3.tables /\ lev3[q] = lev2[p] - 1 /\ home3[q] = home2[p]
          /\ m3.tables[p][Digit(v, 2)] = Link(q)
      BY <3>1 DEF Got
    <3>3. pd = [mem |-> m3, at |-> q]
      BY <2>3, GotRecord
    <3>4. s.mem = Put(m3, q, Digit(v, 1), HugeEntry(n)) /\ s.at = q
      BY <1>1, <1>8, <2>7, <3>3
    <3> HIDE DEF q, m3
    <3>5. lev3[q] = 1 /\ home3[q] = k /\ p \in DOMAIN m3.tables /\ home3[p] = k
          /\ m3.tables[k][Digit(v, 3)] = Link(p)
      <4>1. Link(p).flags = "table"
        BY DEF Link
      <4>2. m2.tables[k][Digit(v, 3)].flags \in {"table", "huge"}
        BY <2>2, <4>1
      <4>3. QED
        BY <1>4, <2>2, <2>4, <3>2, <4>2 DEF Kept
    <3>6. \A i \in 0 .. n - 1 : InPlace(m3.tables, home3, k, i)
      <4>1. ASSUME NEW i \in 0 .. n - 1 PROVE InPlace(m3.tables, home3, k, i)
        <5>1. InPlace(r.mem.tables, home, k, i) /\ i \in Nat
          BY <1>2, <1>4, <1>8 DEF LargeUpTo
        <5>2. InPlace(m2.tables, home2, k, i)
          BY <1>3, <2>2, <5>1, KeptInPlace
        <5>3. QED
          BY <2>2, <3>2, <5>1, <5>2, KeptInPlace
      <4>2. QED
        BY <4>1
    <3>7. /\ MemoryFine(s.mem, k, {}, home3, lev3)
          /\ \A i \in 0 .. n : InPlace(s.mem.tables, home3, k, i)
      BY <3>2, <3>4, <3>5, <3>6, LargeWritten
    <3>8. n = (n + 1) - 1
      BY <1>4
    <3>9. LargeUpTo(s, k, n + 1, home3, lev3)
      BY <3>7, <3>8 DEF LargeUpTo
    <3>10. QED
      BY <3>9 DEF Booted
  <2>8. QED
    BY <2>6, <2>7
<1>9. QED
    BY <1>6, <1>7, <1>8

\* The result of the loop after its first n large pages.
DirectSteps(u, m, f, n) ==
    u = [k \in 0 .. n |-> IF k = 0 THEN [mem |-> m, at |-> f] ELSE MapLarge(u[k - 1], f, k - 1)]

\* The recursion over the direct map has a solution.
LEMMA DirectStepsExist ==
    ASSUME NEW m, NEW f, NEW n \in Nat
    PROVE  \E u : DirectSteps(u, m, f, n)
<1> DEFINE S == {k \in Nat : ~ \E u : DirectSteps(u, m, f, k)}
<1>1. SUFFICES ASSUME S # {} PROVE FALSE
    OBVIOUS
<1>2. PICK j \in S : \A k \in S : j <= k
  <2>1. S \in SUBSET Nat
    OBVIOUS
  <2> HIDE DEF S
  <2>2. QED
    BY <1>1, <2>1, LeastNatural
<1>3. j \in Nat /\ ~ \E u : DirectSteps(u, m, f, j)
    BY <1>2
<1>4. CASE j = 0
  <2> DEFINE u == [k \in 0 .. 0 |-> [mem |-> m, at |-> f]]
  <2>1. u = [k \in 0 .. 0 |-> IF k = 0 THEN [mem |-> m, at |-> f] ELSE MapLarge(u[k - 1], f, k - 1)]
    OBVIOUS
  <2>2. DirectSteps(u, m, f, 0)
    BY <2>1 DEF DirectSteps
  <2>3. QED
    BY <1>3, <1>4, <2>2
<1>5. CASE j # 0
  <2>1. j - 1 \in Nat /\ ~(j <= j - 1)
    BY <1>3, <1>5
  <2>2. PICK g : DirectSteps(g, m, f, j - 1)
    BY <1>2, <2>1
  <2> DEFINE last == MapLarge(g[j - 1], f, j - 1)
             u == [k \in 0 .. j |-> IF k = j THEN last ELSE g[k]]
  <2>3. \A k \in 0 .. j - 1 : g[k] = IF k = 0 THEN [mem |-> m, at |-> f] ELSE MapLarge(g[k - 1], f, k - 1)
    BY <2>2 DEF DirectSteps
  <2>4. ASSUME NEW k \in 0 .. j
        PROVE  u[k] = IF k = 0 THEN [mem |-> m, at |-> f] ELSE MapLarge(u[k - 1], f, k - 1)
    <3>1. CASE k = j
      <4>1. k # 0 /\ k - 1 \in 0 .. j /\ k - 1 # j /\ k - 1 = j - 1
        BY <1>3, <1>5, <3>1
      <4>2. u[k] = last /\ u[k - 1] = g[j - 1]
        BY <3>1, <4>1
      <4>3. QED
        BY <3>1, <4>1, <4>2
    <3>2. CASE k # j
      <4>1. k \in 0 .. j - 1 /\ (k # 0 => k - 1 \in 0 .. j /\ k - 1 # j)
        BY <1>3, <3>2
      <4>2. u[k] = g[k] /\ (k # 0 => u[k - 1] = g[k - 1])
        BY <3>2, <4>1
      <4> HIDE DEF u
      <4>3. QED
        BY <2>3, <4>1, <4>2
    <3>3. QED
      BY <3>1, <3>2
  <2>5. DirectSteps(u, m, f, j)
    <3> DEFINE F(x) == [k \in 0 .. j |-> IF k = 0 THEN [mem |-> m, at |-> f] ELSE MapLarge(x[k - 1], f, k - 1)]
    <3>1. u = F(u)
      BY <2>4
    <3>2. QED
      BY <3>1 DEF DirectSteps
  <2>6. QED
    BY <1>3, <2>5
<1>6. QED
    BY <1>4, <1>5

\* vmm_init puts every large page in place, unless frames run out.
LEMMA DirectMapIs ==
    ASSUME NEW m, NEW k, NEW home, NEW lev, MemoryFine(m, k, {}, home, lev),
           NEW r, r = DirectMap(m, k)
    PROVE  Booted(r, k, HugePages)
<1> DEFINE u == CHOOSE x : DirectSteps(x, m, k, HugePages)
           S == {i \in 0 .. HugePages : Booted(u[i], k, i)}
<1>1. r = u[HugePages]
    BY DEF DirectMap, DirectSteps
<1>2. HugePages \in Nat
    BY HugePagesIs
<1>3. DirectSteps(u, m, k, HugePages)
    BY <1>2, DirectStepsExist
<1> HIDE DEF u
<1>4. \A i \in 0 .. HugePages :
         u[i] = IF i = 0 THEN [mem |-> m, at |-> k] ELSE MapLarge(u[i - 1], k, i - 1)
    BY <1>3 DEF DirectSteps
<1>5. 0 \in S
  <2>1. u[0].mem = m /\ 0 \in 0 .. HugePages
    BY <1>2, <1>4
  <2>2. \A i : i \notin 0 .. 0 - 1
    OBVIOUS
  <2>3. LargeUpTo(u[0], k, 0, home, lev)
    BY <2>1, <2>2 DEF LargeUpTo
  <2>4. Booted(u[0], k, 0)
    BY <2>3 DEF Booted
  <2>5. QED
    BY <2>1, <2>4
<1>6. ASSUME NEW i \in 0 .. HugePages - 1, i \in S PROVE i + 1 \in S
  <2>1. i + 1 \in 0 .. HugePages /\ i + 1 # 0 /\ (i + 1) - 1 = i
    BY <1>2
  <2>2. u[i + 1] = MapLarge(u[i], k, i)
    BY <1>4, <2>1
  <2>3. Booted(u[i + 1], k, i + 1)
    BY <1>6, <2>2, MapLargeIs
  <2>4. QED
    BY <2>1, <2>3
<1>7. \A i \in 0 .. HugePages : i \in S
  <2> HIDE DEF S
  <2>1. QED
    BY <1>2, <1>5, <1>6, UpTo
<1>8. QED
    BY <1>1, <1>2, <1>7

\* The memory before the first table.
Bare == Memory(PmmInit(Memmap), <<>>)

\* Before vmm_init there is no table, and what pmm_init reserved is used.
LEMMA BareIs ==
    /\ FramesFine(Bare) /\ DOMAIN Bare.tables = {}
    /\ Bare.pmm.used = BootReserved
<1>1. Bare.pmm = PmmInit(Memmap) /\ Bare.tables = <<>>
    BY DEF Bare, Memory
<1>2. WellFormedMemmap(Memmap) /\ BitmapHosts(Memmap) # {}
    BY VmmAssumption
<1>3. IsPmm(Bare.pmm)
    BY <1>1, <1>2, BootedIs
<1>4. Bare.pmm.total = TotalPages(Memmap) /\ Bare.pmm.used = BootReserved
    BY <1>1, <1>2 DEF PmmInit, BootReserved
<1>5. DOMAIN Bare.tables = {}
    BY <1>1
<1>6. Bare = Memory(Bare.pmm, Bare.tables)
    BY <1>1 DEF Bare
<1>7. QED
    BY <1>3, <1>4, <1>5, <1>6 DEF FramesFine

\* One empty table is a tree.
LEMMA FirstTop ==
    ASSUME NEW t, NEW y \in Nat, DOMAIN t = {y}, t[y] = Empty
    PROVE  Tree(t, y, {}, [x \in {y} |-> y], [x \in {y} |-> 3])
<1> DEFINE home == [x \in {y} |-> y]   lev == [x \in {y} |-> 3]
<1>1. Homes(t, y, {}, home, lev)
    BY DEF Homes
<1>2. t[y] \in [Index -> TableEntry] /\ \A i \in Index : t[y][i] = NoEntry
    BY EntriesDiffer DEF Empty
<1>3. \A i \in Index : Leads(t[y][i], y, i, t, y, {}, home, lev)
    BY <1>2, EntriesDiffer DEF Leads
<1>4. Entries(t, y, {}, home, lev)
    BY <1>2, <1>3 DEF Entries
<1>5. Hanging(t, home)
    BY DEF Hanging
<1>6. OneWay(t, home)
    BY <1>2, EntriesDiffer DEF OneWay
<1>7. QED
    BY <1>1, <1>4, <1>5, <1>6 DEF Tree, UpperShared

\* Boot finds frames for all tables of the direct map.
BootFits ==
    LET top == AllocTable(Bare)
    IN  top.at # NULL /\ DirectMap(top.mem, top.at).at # NULL

-----------------------------------------------------------------------------
(* The inductive invariant.                                                  *)

\* The kernel's top table is k, the tops of the live maps are T, all tables
\* are their trees and all frames in use are boot's or tables; and the direct
\* map is whole if boot had frames for it.
FitsAt(kernel, handles, m, k, T, home, lev) ==
    /\ kernel = Hhdm + k
    /\ handles = {Hhdm + f : f \in T}
    /\ MemoryFine(m, k, T, home, lev)
    /\ BootFits => \A i \in 0 .. HugePages - 1 : InPlace(m.tables, home, k, i)

FitsNow(k, T, home, lev) == FitsAt(kernel_pagemap, maps, Now, k, T, home, lev)

\* The same of the state after a step.
WillFit(k, T, home, lev) == FitsAt(kernel_pagemap', maps', Now', k, T, home, lev)

\* Boot had not even the frame for the kernel's top table.
NoKernel ==
    /\ kernel_pagemap = NULL /\ maps = {}
    /\ FramesFine(Now) /\ DOMAIN tables = {}
    /\ Allocatable(pmm) = {}
    /\ ~BootFits

VmmInv == NoKernel \/ \E k, T, home, lev : FitsNow(k, T, home, lev)

\* The memory now and after the step.
LEMMA NowIs ==
    /\ Now.pmm = pmm /\ Now.tables = tables
    /\ Now'.pmm = pmm' /\ Now'.tables = tables' /\ Now' = Memory(pmm', tables')
BY DEF Now, Memory

\* vmm_init leaves the trees it should, or no kernel map at all.
LEMMA InitFits == Init => VmmInv
<1> SUFFICES ASSUME Init PROVE VmmInv
    OBVIOUS
<1> DEFINE top == AllocTable(Bare)
           m == IF top.at = NULL THEN top.mem ELSE DirectMap(top.mem, top.at).mem
<1>1. /\ pmm = m.pmm /\ tables = m.tables /\ maps = {}
      /\ kernel_pagemap = IF top.at = NULL THEN NULL ELSE Hhdm + top.at
    BY DEF Init, Bare
<1>2. /\ top.at = NULL => top.mem = Bare /\ Allocatable(Bare.pmm) = {}
      /\ top.at # NULL => TookTable(Bare, top.mem, top.at)
    BY BareIs, AllocTableIs
<1>3. FramesFine(m) => Now = m
    BY <1>1 DEF FramesFine, Now
<1>4. BootFits <=> top.at # NULL /\ DirectMap(top.mem, top.at).at # NULL
    BY DEF BootFits
<1> HIDE DEF top
<1>5. CASE top.at = NULL
  <2>1. m = Bare
    BY <1>2, <1>5
  <2>2. NoKernel
    BY <1>1, <1>2, <1>3, <1>4, <1>5, <2>1, BareIs DEF NoKernel
  <2>3. QED
    BY <2>2 DEF VmmInv
<1>6. CASE top.at # NULL
  <2> DEFINE k == top.at
             r == DirectMap(top.mem, k)
  <2>1. /\ FramesFine(top.mem) /\ k \in Nat /\ DOMAIN top.mem.tables = {k}
        /\ top.mem.tables[k] = Empty
    BY <1>2, <1>6, BareIs DEF TookTable
  <2>2. m = r.mem /\ kernel_pagemap = Hhdm + k
    BY <1>1, <1>6
  <2> HIDE DEF m, r, k
  <2>3. MemoryFine(top.mem, k, {}, [x \in {k} |-> k], [x \in {k} |-> 3])
    BY <2>1, FirstTop DEF MemoryFine
  <2>4. Booted(r, k, HugePages)
    BY <2>3, DirectMapIs DEF r
  <2>5. PICK home, lev : LargeUpTo(r, k, HugePages, home, lev)
    BY <2>4 DEF Booted
  <2>6. MemoryFine(m, k, {}, home, lev) /\ Now = m
    BY <1>3, <2>2, <2>5 DEF LargeUpTo, MemoryFine
  <2>7. BootFits => \A i \in 0 .. HugePages - 1 : InPlace(tables, home, k, i)
    BY <1>1, <1>4, <2>2, <2>5 DEF LargeUpTo, r, k
  <2>8. FitsNow(k, {}, home, lev)
    BY <1>1, <2>2, <2>6, <2>7 DEF FitsNow, FitsAt
  <2>9. QED
    BY <2>8 DEF VmmInv
<1>7. QED
    BY <1>5, <1>6

\* The direct map stays while the kernel's tables do.
LEMMA FitsOn ==
    ASSUME NEW k, NEW T, NEW home, NEW lev, FitsNow(k, T, home, lev),
           NEW T2, NEW home2, NEW lev2, MemoryFine(Now', k, T2, home2, lev2),
           KernelStays(Now, Now', k, home, home2),
           kernel_pagemap' = kernel_pagemap, maps' = {Hhdm + f : f \in T2}
    PROVE  WillFit(k, T2, home2, lev2)
<1>1. ASSUME NEW i \in 0 .. HugePages - 1, InPlace(Now.tables, home, k, i)
      PROVE  InPlace(Now'.tables, home2, k, i)
  <2>1. PICK p, q : By(tables, home, k, i, p, q)
    BY <1>1, NowIs DEF InPlace
  <2>2. k \in DOMAIN tables /\ home[k] = k
    BY NowIs DEF FitsNow, FitsAt, MemoryFine, Tree, Homes
  <2>3. \A z \in DOMAIN tables : home[z] = k =>
           z \in DOMAIN tables' /\ home2[z] = k /\ tables'[z] = tables[z]
    BY NowIs DEF KernelStays
  <2>4. By(tables', home2, k, i, p, q)
    BY <2>1, <2>2, <2>3 DEF By
  <2>5. QED
    BY <2>4, NowIs DEF InPlace
<1>2. BootFits => \A i \in 0 .. HugePages - 1 : InPlace(Now'.tables, home2, k, i)
    BY <1>1 DEF FitsNow, FitsAt
<1>3. QED
    BY <1>2 DEF FitsNow, FitsAt, WillFit

\* The table that a handle stands for.
LEMMA HandleIs ==
    ASSUME NEW k, NEW T, NEW home, NEW lev, FitsNow(k, T, home, lev), NEW handle \in maps
    PROVE  \E f \in T : /\ handle = Hhdm + f /\ handle - Hhdm = f
                        /\ handle \notin DOMAIN tables /\ handle # kernel_pagemap
<1>1. PICK f \in T : handle = Hhdm + f
    BY DEF FitsNow, FitsAt
<1>2. MemoryFine(Now, k, T, home, lev) /\ kernel_pagemap = Hhdm + k
    BY DEF FitsNow, FitsAt
<1>3. f \in DOMAIN tables /\ k \in DOMAIN tables /\ f # k
    BY <1>2, NowIs DEF MemoryFine, Tree, Homes
<1>4. \A x \in DOMAIN tables : x \in Nat /\ x < Hhdm
    BY <1>2, FramesAre, NowIs DEF MemoryFine
<1>5. Hhdm \in Nat
    BY VmmAssumption
<1>6. handle - Hhdm = f /\ ~(handle < Hhdm) /\ handle # kernel_pagemap
    BY <1>1, <1>2, <1>3, <1>4, <1>5
<1>7. QED
    BY <1>1, <1>4, <1>6

\* A walk that stays in memory is one on a map's top table.
LEMMA ReachedTop ==
    ASSUME NEW k, NEW T, NEW home, NEW lev, FitsNow(k, T, home, lev), NEW handle \in maps,
           NEW handed \in Handed, Reaches(handle, handed)
    PROVE  \E f \in T : Top(handle, handed) = f /\ handle = Hhdm + f
<1>1. PICK f \in T : /\ handle = Hhdm + f /\ handle - Hhdm = f
                     /\ handle \notin DOMAIN tables
    BY HandleIs
<1>2. Top(handle, handed) = f
    BY <1>1 DEF Reaches, Top
<1>3. QED
    BY <1>1, <1>2

\* vmm_create_pagemap adds a map that shows nothing and leaves the others be,
\* or refuses and changes nothing.
LEMMA CreateIs ==
    ASSUME NEW k, NEW T, NEW home, NEW lev, FitsNow(k, T, home, lev), Create
    PROVE  \/ pmm' = pmm /\ tables' = tables /\ maps' = maps
           \/ \E y \in FirstFrame .. TotalPages(Memmap) - 1 :
                 /\ WillFit(k, T \cup {y}, With(home, y, y), With(lev, y, 3))
                 /\ y \notin T
                 /\ \A v \in LowerPages : Leaf(Now', y, v) = NoEntry
                 /\ \A g \in T, v \in LowerPages : Leaf(Now', g, v) = Leaf(Now, g, v)
<1> DEFINE top == AllocTable(Now)
           y == top.at
           n == SharedTop(top.mem, y, tables, k)
<1>1. /\ MemoryFine(Now, k, T, home, lev) /\ FramesFine(Now)
      /\ kernel_pagemap = Hhdm + k /\ maps = {Hhdm + f : f \in T}
    BY DEF FitsNow, FitsAt, MemoryFine
<1>2. kernel_pagemap - Hhdm = k /\ kernel_pagemap # NULL
  <2>1. k \in DOMAIN tables
    BY <1>1, NowIs DEF MemoryFine, Tree, Homes
  <2>2. k \in Nat /\ k # NULL
    BY <1>1, <2>1, FramesAre, NowIs
  <2>3. QED
    BY <1>1, <2>2, VmmAssumption DEF NULL
<1>3. /\ Becomes(IF y = NULL \/ kernel_pagemap = NULL THEN top.mem ELSE n)
      /\ maps' = IF y = NULL THEN maps ELSE maps \cup {Hhdm + y}
      /\ kernel_pagemap' = kernel_pagemap
    BY <1>2 DEF Create, SharedTop, Sharing
<1> HIDE DEF top, n
<1>4. CASE y = NULL
  <2>1. top.mem = Now
    BY <1>1, <1>4, AllocTableIs DEF top
  <2>2. QED
    BY <1>3, <1>4, <2>1, NowIs DEF Becomes
<1>5. CASE y # NULL
  <2>1. TookTable(Now, top.mem, y)
    BY <1>1, <1>5, AllocTableIs DEF top
  <2>2. pmm' = n.pmm /\ tables' = n.tables
    BY <1>2, <1>3, <1>5 DEF Becomes
  <2> HIDE DEF y
  <2>3. /\ MemoryFine(n, k, T \cup {y}, With(home, y, y), With(lev, y, 3))
        /\ KernelStays(Now, n, k, home, With(home, y, y))
        /\ y \in FirstFrame .. n.pmm.total - 1 /\ y \notin T
        /\ \A v \in LowerPages : Leaf(n, y, v) = NoEntry
        /\ \A g \in T, v \in LowerPages : Leaf(n, g, v) = Leaf(Now, g, v)
    <3>1. n = SharedTop(top.mem, y, Now.tables, k)
      BY NowIs DEF n, y
    <3>2. Added(Now, n, k, T, home, lev, y)
      BY <1>1, <2>1, <3>1, NewMap
    <3>3. QED
      BY <3>2 DEF Added
  <2>4. Now' = n /\ n.pmm.total = TotalPages(Memmap)
    BY <2>2, <2>3, NowIs DEF MemoryFine, FramesFine
  <2>5. maps' = {Hhdm + f : f \in T \cup {y}}
    BY <1>1, <1>3, <1>5 DEF y
  <2>6. MemoryFine(Now', k, T \cup {y}, With(home, y, y), With(lev, y, 3))
        /\ KernelStays(Now, Now', k, home, With(home, y, y))
    BY <2>3, <2>4
  <2>7. WillFit(k, T \cup {y}, With(home, y, y), With(lev, y, 3))
    BY <1>3, <2>5, <2>6, FitsOn
  <2>8. QED
    BY <2>3, <2>4, <2>7
<1>6. QED
    BY <1>4, <1>5

\* The maps other than f show in n what they show in m.
OthersShow(m, n, T, f) ==
    \A g \in T \ {f}, v \in LowerPages : Leaf(n, g, v) = Leaf(m, g, v)

\* vmm_destroy_pagemap removes one map and leaves the others be.
LEMMA DestroyIs ==
    ASSUME NEW k, NEW T, NEW home, NEW lev, FitsNow(k, T, home, lev), NEW f \in T,
           Destroy(Hhdm + f)
    PROVE  /\ \E home2, lev2 : WillFit(k, T \ {f}, home2, lev2)
           /\ OthersShow(Now, Now', T, f)
<1> DEFINE O == Own(tables, home, f)
           D == DOMAIN tables \ O
           home2 == Only(home, D)
           lev2 == Only(lev, D)
           n == Memory(FreeAll(pmm, O), Only(tables, D))
<1>1. MemoryFine(Now, k, T, home, lev) /\ maps = {Hhdm + g : g \in T}
    BY DEF FitsNow, FitsAt
<1>2. \A g \in T : g \in Nat
    BY <1>1, FramesAre, NowIs DEF MemoryFine, Tree, Homes
<1>3. (Hhdm + f) - Hhdm = f
    BY <1>2, VmmAssumption
<1>4. LowerTables(f) \cup {f} = O
    BY <1>1, LowerTablesAre
<1>5. /\ pmm' = FreeAll(pmm, O) /\ tables' = Only(tables, D)
      /\ maps' = maps \ {Hhdm + f} /\ kernel_pagemap' = kernel_pagemap
    BY <1>3, <1>4 DEF Destroy, Only
<1>6. Now' = n
    BY <1>5, NowIs
<1> HIDE DEF O, n
<1>7. /\ MemoryFine(n, k, T \ {f}, home2, lev2)
      /\ KernelStays(Now, n, k, home, home2)
      /\ \A g \in T \ {f}, v \in LowerPages : Leaf(n, g, v) = Leaf(Now, g, v)
  <2>1. O = Own(Now.tables, home, f) /\ D = DOMAIN Now.tables \ Own(Now.tables, home, f)
    BY NowIs DEF O
  <2>2. n = Memory(FreeAll(Now.pmm, Own(Now.tables, home, f)), Only(Now.tables, D))
    BY NowIs DEF O, n
  <2> HIDE DEF D
  <2>3. Gone(Now, n, k, T, f, home, Only(home, D), Only(lev, D))
    BY <1>1, <2>1, <2>2, MapGone
  <2>4. QED
    BY <2>3 DEF Gone
<1>8. maps' = {Hhdm + g : g \in T \ {f}}
  <2>1. \A g \in T : Hhdm + g = Hhdm + f => g = f
    BY <1>2, VmmAssumption
  <2>2. QED
    BY <1>1, <1>5, <2>1
<1>9. WillFit(k, T \ {f}, home2, lev2)
  <2> HIDE DEF home2, lev2
  <2>1. QED
    BY <1>5, <1>6, <1>7, <1>8, FitsOn
<1>10. QED
    BY <1>6, <1>7, <1>9 DEF OthersShow

\* What vmm_map_range answers when j of n pages from v on are mapped.
MapAnswer(v, n, j) == [page |-> v, len |-> n, done |-> j = n]

\* A call of vmm_map_range maps a first part of the range in one map and
\* answers accordingly.
LEMMA MapRangeIs ==
    ASSUME NEW k, NEW T, NEW home, NEW lev, FitsNow(k, T, home, lev), NEW f \in T,
           NEW handle, NEW handed, Top(handle, handed) = f,
           NEW v \in Starts, NEW target \in Targets, NEW n \in 1 .. 2, NEW flags \in Flags,
           MapRange(handle, handed, v, target, n, flags)
    PROVE  \E home2, lev2 : \E j \in 0 .. n :
              /\ WillFit(k, T, home2, lev2)
              /\ Shows(Now, Now', T, f, v, target, flags, j)
              /\ answer' = MapAnswer(v, n, j)
<1> DEFINE r == MapPages(Now, f, v, target, n, flags)
<1>1. /\ pmm' = r.mem.pmm /\ tables' = r.mem.tables
      /\ kernel_pagemap' = kernel_pagemap /\ maps' = maps
      /\ answer' = [page |-> v, len |-> n, done |-> r.ok]
    BY DEF MapRange, Reaches, Becomes
<1>2. /\ MemoryFine(Now, k, T, home, lev) /\ maps = {Hhdm + g : g \in T}
    BY DEF FitsNow, FitsAt
<1>3. v \in Nat /\ target \in Nat /\ \A w \in v .. v + n - 1 : w \in LowerPages
  <2>1. v \in LowerPages /\ v + 1 \in LowerPages /\ target \in Nat
    BY VmmAssumption
  <2>2. v \in Nat
    BY <2>1, LowerDigit
  <2>3. \A w \in v .. v + n - 1 : w = v \/ w = v + 1
    BY <2>2
  <2>4. QED
    BY <2>1, <2>2, <2>3
<1>4. Maps(Now, r, k, T, home, f, v, target, flags, n)
    BY <1>2, <1>3, MapPagesIs
<1> HIDE DEF r
<1>5. PICK home2, lev2, j : MapsTo(Now, r, k, T, home, f, v, target, flags, n, home2, lev2, j)
    BY <1>4 DEF Maps
<1>6. /\ MemoryFine(r.mem, k, T, home2, lev2)
      /\ KernelStays(Now, r.mem, k, home, home2)
      /\ j \in 0 .. n /\ Shows(Now, r.mem, T, f, v, target, flags, j)
    BY <1>5 DEF MapsTo
<1>7. Now' = r.mem
    BY <1>1, <1>6, NowIs DEF MemoryFine, FramesFine
<1>8. WillFit(k, T, home2, lev2)
    BY <1>1, <1>2, <1>6, <1>7, FitsOn
<1>9. answer' = MapAnswer(v, n, j)
  <2>1. CASE j = n
    BY <1>1, <1>5, <2>1, Zenon DEF MapsTo, MapAnswer
  <2>2. CASE j # n
    BY <1>1, <1>5, <2>2, Zenon DEF MapsTo, MapAnswer
  <2>3. QED
    BY <2>1, <2>2
<1>10. QED
    BY <1>6, <1>7, <1>8, <1>9

\* A call of vmm_unmap clears one page of one map.
LEMMA UnmapIs ==
    ASSUME NEW k, NEW T, NEW home, NEW lev, FitsNow(k, T, home, lev), NEW f \in T,
           NEW handle, NEW handed, Top(handle, handed) = f,
           NEW v \in Starts, Unmap(handle, handed, v)
    PROVE  /\ WillFit(k, T, home, lev)
           /\ \A g \in T, w \in LowerPages :
                 Leaf(Now', g, w) = IF g = f /\ w = v THEN NoEntry ELSE Leaf(Now, g, w)
<1> DEFINE n == UnmapPage(Now, f, v)
<1>1. /\ pmm' = n.pmm /\ tables' = n.tables
      /\ kernel_pagemap' = kernel_pagemap /\ maps' = maps
    BY DEF Unmap, Reaches, Becomes
<1>2. /\ MemoryFine(Now, k, T, home, lev) /\ maps = {Hhdm + g : g \in T}
      /\ v \in LowerPages
    BY VmmAssumption DEF FitsNow, FitsAt
<1> HIDE DEF n
<1>3. /\ MemoryFine(n, k, T, home, lev)
      /\ KernelStays(Now, n, k, home, home)
      /\ \A g \in T, w \in LowerPages :
            Leaf(n, g, w) = IF g = f /\ w = v THEN NoEntry ELSE Leaf(Now, g, w)
    BY <1>2, UnmapPageIs DEF n
<1>4. Now' = n
    BY <1>1, <1>3, NowIs DEF MemoryFine, FramesFine
<1>5. WillFit(k, T, home, lev)
    BY <1>1, <1>2, <1>3, <1>4, FitsOn
<1>6. QED
    BY <1>3, <1>4, <1>5

\* Without a frame for the kernel's top table no map is ever made.
LEMMA NoKernelStays ==
    ASSUME NoKernel, Next
    PROVE  /\ NoKernel' /\ pmm' = pmm /\ tables' = tables /\ maps' = maps
           /\ answer' = NoAnswer
<1>1. maps = {} /\ FramesFine(Now) /\ Allocatable(pmm) = {} /\ kernel_pagemap = NULL
    BY DEF NoKernel
<1>2. CASE Create
  <2> DEFINE top == AllocTable(Now)
  <2>1. top.at = NULL /\ top.mem = Now
    <3>1. PmmAlloc(pmm).frame = NULL
      BY <1>1 DEF PmmAlloc
    <3>2. top.at = NULL
      BY <3>1, NowIs DEF AllocTable
    <3>3. QED
      BY <1>1, <3>2, AllocTableIs
  <2> HIDE DEF top
  <2>2. Becomes(top.mem) /\ maps' = maps /\ answer' = NoAnswer /\ kernel_pagemap' = kernel_pagemap
    BY <1>2, <2>1 DEF Create, top
  <2>3. pmm' = pmm /\ tables' = tables
    BY <2>1, <2>2, NowIs DEF Becomes
  <2>4. QED
    BY <2>2, <2>3 DEF NoKernel, Now
<1>3. CASE Ignore
    BY <1>3 DEF Ignore, NoKernel, Now
<1>4. QED
    BY <1>1, <1>2, <1>3 DEF Next

\* What a step of a machine with a kernel map may be, as the tables see it.
LEMMA StepFits ==
    ASSUME NEW k, NEW T, NEW home, NEW lev, FitsNow(k, T, home, lev), Next
    PROVE  \E T2, home2, lev2 : WillFit(k, T2, home2, lev2)
<1>1. ASSUME pmm' = pmm, tables' = tables, kernel_pagemap' = kernel_pagemap, maps' = maps
      PROVE  WillFit(k, T, home, lev)
  <2>1. Now' = Now
    BY <1>1 DEF Now
  <2>2. QED
    BY <1>1, <2>1 DEF FitsNow, WillFit
<1>2. CASE Create
    BY <1>1, <1>2, CreateIs DEF Create
<1>3. CASE Ignore
    BY <1>1, <1>3 DEF Ignore
<1>4. ASSUME NEW handle \in maps, Destroy(handle)
      PROVE  \E T2, home2, lev2 : WillFit(k, T2, home2, lev2)
  <2>1. PICK f \in T : handle = Hhdm + f
    BY HandleIs
  <2>2. QED
    BY <1>4, <2>1, DestroyIs
<1>5. ASSUME NEW handle \in maps, NEW handed \in Handed,
             \/ Faults(handle, handed)
             \/ \E v \in Starts : Translate(handle, handed, v)
      PROVE  WillFit(k, T, home, lev)
    BY <1>1, <1>5 DEF Faults, Translate, Reaches
<1>6. ASSUME NEW handle \in maps, NEW handed \in Handed, NEW v \in Starts,
             Unmap(handle, handed, v)
      PROVE  WillFit(k, T, home, lev)
  <2>1. PICK f \in T : Top(handle, handed) = f
    BY <1>6, ReachedTop DEF Unmap
  <2>2. QED
    BY <1>6, <2>1, UnmapIs
<1>7. ASSUME NEW handle \in maps, NEW handed \in Handed, NEW v \in Starts,
             NEW target \in Targets, NEW n \in 1 .. 2, NEW flags \in Flags,
             MapRange(handle, handed, v, target, n, flags)
      PROVE  \E T2, home2, lev2 : WillFit(k, T2, home2, lev2)
  <2>1. PICK f \in T : Top(handle, handed) = f
    BY <1>7, ReachedTop DEF MapRange
  <2>2. PICK home2, lev2 : WillFit(k, T, home2, lev2)
    BY <1>7, <2>1, MapRangeIs
  <2>3. QED
    BY <2>2
<1>8. QED
    BY <1>2, <1>3, <1>4, <1>5, <1>6, <1>7 DEF Next

\* Whatever maps are made, filled and destroyed, and wherever the frames run
\* out: the tables are the trees of the kernel's map and of the live ones,
\* the upper half shared, no table in two of them, and all frames taken are
\* tables or boot's.
THEOREM VmmInvariant == Spec => []VmmInv
<1>1. Init => VmmInv
    BY InitFits
<1>2. VmmInv /\ [Next]_vars => VmmInv'
  <2> SUFFICES ASSUME VmmInv, [Next]_vars PROVE VmmInv'
    OBVIOUS
  <2>1. CASE UNCHANGED vars
    BY <2>1 DEF vars, VmmInv, NoKernel, FitsNow, Now
  <2>2. CASE Next /\ NoKernel
    BY <2>2, NoKernelStays DEF VmmInv
  <2>3. ASSUME Next, NEW k, NEW T, NEW home, NEW lev, FitsNow(k, T, home, lev)
        PROVE  VmmInv'
    <3>1. PICK T2, home2, lev2 : WillFit(k, T2, home2, lev2)
      BY <2>3, StepFits
    <3>2. QED
      BY <3>1 DEF VmmInv, FitsNow, WillFit
  <2>4. QED
    BY <2>1, <2>2, <2>3 DEF VmmInv
<1>3. QED
    BY <1>1, <1>2, PTL DEF Spec

-----------------------------------------------------------------------------
(* No frame is lost.                                                         *)

\* The tables an entry of S links to.
LEMMA LinkedMeans ==
    ASSUME NEW S, NEW y
    PROVE  y \in Linked(S) <=> \E x \in S \cap DOMAIN tables, i \in Index :
                                  tables[x][i].flags = "table" /\ y = tables[x][i].to
BY DEF Linked

\* What is found from a top table: all tables of its map, and else none but
\* the kernel's.
LEMMA TablesFromIs ==
    ASSUME NEW k, NEW T, NEW home, NEW lev, FitsNow(k, T, home, lev), NEW g \in T \cup {k}
    PROVE  /\ Own(tables, home, g) \subseteq TablesFrom(g)
           /\ TablesFrom(g) \subseteq Own(tables, home, g) \cup Own(tables, home, k)
<1> DEFINE L(l) == Level(tables, home, lev, g, l)
           A == Own(tables, home, g) \cup Own(tables, home, k)
           one == Linked({g})   two == Linked(one)
<1>1. /\ Tree(tables, k, T, home, lev)
      /\ g \in DOMAIN tables /\ home[g] = g
      /\ \A x \in DOMAIN tables : lev[x] \in 0 .. 3 /\ home[x] \in T \cup {k}
      /\ \A x \in DOMAIN tables : lev[x] = 3 <=> x \in T \cup {k}
      /\ \A x \in T \cup {k} : home[x] = x
    BY NowIs DEF FitsNow, FitsAt, MemoryFine, Tree, Homes
<1>2. ASSUME NEW n \in 0 .. 2, NEW l, l = n + 1, NEW S, L(l) \subseteq S
      PROVE  L(n) \subseteq Linked(S)
  <2>1. ASSUME NEW y \in L(n) PROVE y \in Linked(S)
    <3>1. y \in DOMAIN tables /\ home[y] = g /\ lev[y] = n /\ home[y] # y
      BY <1>1 DEF Level
    <3>2. PICK x \in DOMAIN tables, i \in Index : home[x] = g /\ tables[x][i] = Link(y)
      BY <1>1, <3>1 DEF Tree, Hanging
    <3>3. tables[x][i].flags = "table" /\ tables[x][i].to = y
      BY <3>2 DEF Link
    <3>4. lev[x] = lev[y] + 1
      BY <1>1, <3>2, <3>3 DEF Tree, Entries, Leads
    <3>5. x \in S
      BY <1>2, <3>1, <3>2, <3>4 DEF Level
    <3>6. QED
      BY <3>2, <3>3, <3>5, LinkedMeans
  <2>2. QED
    BY <2>1
<1>3. L(3) \subseteq {g}
    BY <1>1 DEF Level
<1>4. ASSUME NEW S, S \subseteq A PROVE Linked(S) \subseteq A
  <2>1. ASSUME NEW y \in Linked(S) PROVE y \in A
    <3>1. PICK x \in S \cap DOMAIN tables, i \in Index :
             tables[x][i].flags = "table" /\ y = tables[x][i].to
      BY <2>1, LinkedMeans
    <3>2. y \in DOMAIN tables /\ (home[y] = home[x] \/ home[y] = k)
      BY <1>1, <3>1 DEF Tree, Entries, Leads
    <3>3. QED
      BY <1>4, <3>1, <3>2 DEF Own
  <2>2. QED
    BY <2>1
<1>5. g \in A
    BY <1>1 DEF Own
<1> HIDE DEF L, A
<1>6. L(2) \subseteq one /\ L(1) \subseteq two /\ L(0) \subseteq Linked(two)
  <2>1. 2 \in 0 .. 2 /\ 3 = 2 + 1 /\ 1 \in 0 .. 2 /\ 2 = 1 + 1 /\ 0 \in 0 .. 2 /\ 1 = 0 + 1
    OBVIOUS
  <2>2. L(2) \subseteq one
    BY <1>2, <1>3, <2>1
  <2> HIDE DEF one
  <2>3. L(1) \subseteq two
    BY <1>2, <2>1, <2>2
  <2> HIDE DEF two
  <2>4. L(0) \subseteq Linked(two)
    BY <1>2, <2>1, <2>3
  <2>5. QED
    BY <2>2, <2>3, <2>4
<1>7. one \subseteq A /\ two \subseteq A /\ Linked(two) \subseteq A
  <2>1. one \subseteq A
    BY <1>4, <1>5
  <2>2. two \subseteq A
    BY <1>4, <2>1
  <2>3. QED
    BY <1>4, <2>1, <2>2
<1>8. TablesFrom(g) = {g} \cup one \cup two \cup Linked(two)
    BY DEF TablesFrom
<1>9. Own(tables, home, g) \subseteq L(3) \cup L(2) \cup L(1) \cup L(0)
  <2>1. \A n \in 0 .. 3 : n = 0 \/ n = 1 \/ n = 2 \/ n = 3
    OBVIOUS
  <2>2. QED
    BY <1>1, <2>1 DEF L, Level, Own
<1>10. QED
    BY <1>3, <1>5, <1>6, <1>7, <1>8, <1>9 DEF A

\* In trees no frame taken is lost: every table hangs in a map, level by level.
LEMMA NoneLost == VmmInv => NoFrameLost
<1> SUFFICES ASSUME VmmInv PROVE NoFrameLost
    OBVIOUS
<1>1. CASE NoKernel
  <2>1. pmm.used \ BootReserved = {}
    BY <1>1, NowIs DEF NoKernel, FramesFine
  <2>2. QED
    BY <1>1, <2>1 DEF NoKernel, NoFrameLost, KernelTables
<1>2. ASSUME NEW k, NEW T, NEW home, NEW lev, FitsNow(k, T, home, lev)
      PROVE  NoFrameLost
  <2> DEFINE Hang(f) == Own(tables, home, f)
  <2>1. /\ kernel_pagemap = Hhdm + k /\ maps = {Hhdm + f : f \in T} /\ k \notin T
        /\ T \subseteq DOMAIN tables /\ k \in DOMAIN tables
        /\ \A x \in DOMAIN tables : home[x] \in T \cup {k}
        /\ DOMAIN tables = pmm.used \ BootReserved
    BY <1>2, NowIs DEF FitsNow, FitsAt, MemoryFine, FramesFine, Tree, Homes
  <2>2. \A x \in DOMAIN tables : x \in Nat /\ x # NULL
    BY <1>2, FramesAre, NowIs DEF FitsNow, FitsAt, MemoryFine
  <2>3. kernel_pagemap # NULL /\ kernel_pagemap - Hhdm = k
        /\ \A f \in T : (Hhdm + f) - Hhdm = f
    BY <2>1, <2>2, VmmAssumption DEF NULL
  <2>4. KernelTables = Hang(k)
    <3>1. Hang(k) \subseteq TablesFrom(k) /\ TablesFrom(k) \subseteq Hang(k) \cup Hang(k)
      BY <1>2, TablesFromIs
    <3>2. KernelTables = TablesFrom(k)
      BY <2>3 DEF KernelTables
    <3>3. QED
      BY <3>1, <3>2
  <2>5. \A f \in T : TablesFrom(f) \ KernelTables = Hang(f)
    <3>1. ASSUME NEW f \in T PROVE TablesFrom(f) \ KernelTables = Hang(f)
      <4>1. Hang(f) \cap Hang(k) = {}
        BY <2>1 DEF Own
      <4>2. Hang(f) \subseteq TablesFrom(f) /\ TablesFrom(f) \subseteq Hang(f) \cup Hang(k)
        BY <1>2, TablesFromIs
      <4>3. QED
        BY <2>4, <4>1, <4>2
    <3>2. QED
      BY <3>1
  <2>6. \A h \in maps : \E f \in T : h = Hhdm + f /\ TablesFrom(h - Hhdm) \ KernelTables = Hang(f)
    <3>1. ASSUME NEW h \in maps
          PROVE  \E f \in T : h = Hhdm + f /\ TablesFrom(h - Hhdm) \ KernelTables = Hang(f)
      <4>1. PICK f \in T : h = Hhdm + f
        BY <2>1
      <4>2. QED
        BY <2>3, <2>5, <4>1
    <3>2. QED
      BY <3>1
  <2>7. \A f \in T : \E h \in maps : TablesFrom(h - Hhdm) \ KernelTables = Hang(f)
    <3>1. ASSUME NEW f \in T PROVE \E h \in maps : TablesFrom(h - Hhdm) \ KernelTables = Hang(f)
      <4>1. Hhdm + f \in maps /\ (Hhdm + f) - Hhdm = f
        BY <2>1, <2>3
      <4>2. QED
        BY <2>5, <4>1
    <3>2. QED
      BY <3>1
  <2> DEFINE O(h) == TablesFrom(h - Hhdm) \ KernelTables
  <2>8. DOMAIN tables = Hang(k) \cup UNION {O(h) : h \in maps}
    <3> HIDE DEF O
    <3>1. \A h \in maps : \E f \in T : O(h) = Hang(f)
      BY <2>6 DEF O
    <3>2. \A f \in T : \E h \in maps : O(h) = Hang(f)
      BY <2>7 DEF O
    <3>3. ASSUME NEW x \in DOMAIN tables PROVE x \in Hang(k) \/ \E h \in maps : x \in O(h)
      <4>1. home[x] = k \/ home[x] \in T
        BY <2>1
      <4>2. x \in Hang(home[x])
        BY DEF Own
      <4> HIDE DEF Hang
      <4>3. QED
        BY <3>2, <4>1, <4>2
    <3>4. \A f : Hang(f) \subseteq DOMAIN tables
      BY DEF Own
    <3> HIDE DEF Hang
    <3>5. QED
      BY <3>1, <3>3, <3>4
  <2>9. ASSUME NEW a \in maps, NEW b \in maps, a # b PROVE O(a) \cap O(b) = {}
    <3>1. PICK f \in T, g \in T : a = Hhdm + f /\ O(a) = Hang(f) /\ b = Hhdm + g /\ O(b) = Hang(g)
      BY <2>6
    <3>2. f # g
      BY <2>9, <3>1
    <3>3. Hang(f) \cap Hang(g) = {}
      BY <3>2 DEF Own
    <3>4. QED
      BY <3>1, <3>3
  <2>10. QED
    BY <2>1, <2>4, <2>8, <2>9 DEF NoFrameLost
<1>3. QED
    BY <1>1, <1>2 DEF VmmInv

\* Every frame taken hangs in exactly one page map, however the operations
\* ended: alloc_table loses none, vmm_destroy_pagemap frees all of a map's own
\* and none of another's.
THEOREM VmmNoFrameLost == Spec => []NoFrameLost
BY VmmInvariant, NoneLost, PTL

-----------------------------------------------------------------------------
(* The direct map is seen from every map.                                    *)

\* Where the direct map is in place, every map sees it, through the upper half
\* it shares.
LEMMA DirectMapSeen == BootFits /\ VmmInv => DirectMapEverywhere
<1> SUFFICES ASSUME BootFits, VmmInv PROVE DirectMapEverywhere
    OBVIOUS
<1>1. PICK k, T, home, lev : FitsNow(k, T, home, lev)
    BY DEF VmmInv, NoKernel
<1>2. /\ kernel_pagemap = Hhdm + k /\ maps = {Hhdm + f : f \in T}
      /\ T \subseteq DOMAIN tables /\ k \in DOMAIN tables
      /\ \A i \in 0 .. HugePages - 1 : InPlace(tables, home, k, i)
      /\ \A f \in T : \A j \in Index : j >= Half => tables[f][j] = tables[k][j]
    BY <1>1, NowIs DEF FitsNow, FitsAt, MemoryFine, Tree, Homes, UpperShared
<1>3. \A x \in DOMAIN tables : x \in Nat
    BY <1>1, FramesAre, NowIs DEF FitsNow, FitsAt, MemoryFine
<1>4. ASSUME NEW h \in maps \cup {kernel_pagemap}, NEW i \in 0 .. HugePages - 1
      PROVE  LargePage(h - Hhdm, LargeAt(i)) = [to |-> i * FanOut, flags |-> "huge"]
  <2>1. PICK f \in T \cup {k} : h - Hhdm = f
    <3>1. \A f \in T \cup {k} : (Hhdm + f) - Hhdm = f
      BY <1>2, <1>3, VmmAssumption
    <3>2. QED
      BY <1>2, <3>1
  <2>2. PICK p, q : By(tables, home, k, i, p, q)
    BY <1>2 DEF InPlace
  <2> DEFINE v == LargeAt(i)
  <2>3. /\ p \in DOMAIN tables /\ q \in DOMAIN tables
        /\ tables[k][Digit(v, 3)] = Link(p)
        /\ tables[p][Digit(v, 2)] = Link(q)
        /\ tables[q][Digit(v, 1)] = HugeEntry(i)
    BY <2>2 DEF By
  <2>4. Digit(v, 3) >= Half /\ Digit(v, 3) \in Index
    <3>1. v \in Nat /\ Digit(v, 3) >= Half
      BY VmmAssumption, HugePagesIs DEF LargeAt
    <3>2. QED
      BY <3>1, ShiftedIs
  <2> HIDE DEF v
  <2>5. f \in DOMAIN tables /\ tables[f][Digit(v, 3)] = Link(p)
    BY <1>2, <2>3, <2>4
  <2>6. Link(p).to = p /\ Link(q).to = q
    BY DEF Link
  <2>7. LargePage(f, v) = HugeEntry(i)
    BY <2>3, <2>5, <2>6 DEF LargePage
  <2>8. QED
    BY <2>1, <2>7 DEF v, HugeEntry
<1>5. QED
    BY <1>4 DEF DirectMapEverywhere

\* On a machine that has the frames for the direct map at boot, all of it is
\* seen from the kernel's map and from every map made, as long as it lives,
\* whatever is mapped in and destroyed with the others.
THEOREM VmmDirectMapEverywhere ==
    ASSUME BootFits
    PROVE  Spec => []DirectMapEverywhere
BY VmmInvariant, DirectMapSeen, PTL

-----------------------------------------------------------------------------
(* Every map is an address space.                                            *)

\* What map f shows in memory m.
PagesOf(m, f) == {v \in LowerPages : Present(Leaf(m, f, v))}
PageOf(e) == [frame |-> e.to, flags |-> e.flags]
Show(m, f) == [v \in PagesOf(m, f) |-> PageOf(Leaf(m, f, v))]

\* What all maps show.
Seen(T, m) == [h \in {Hhdm + f : f \in T} |-> Show(m, h - Hhdm)]

Spaces == [h \in maps |-> Space(h - Hhdm)]

\* A space is what its map shows.
LEMMA SpaceIs ==
    ASSUME NEW f
    PROVE  Space(f) = Show(Now, f) /\ Space(f)' = Show(Now', f)
<1>1. Space(f) = Show(Now, f)
  <2>1. \A v \in LowerPages :
           LastTable(Now, f, v) # NULL /\ Present(tables[LastTable(Now, f, v)][Digit(v, 0)])
              <=> Present(Leaf(Now, f, v))
    BY EntriesDiffer, NowIs DEF Leaf, Present
  <2>2. MappedPages(f) = PagesOf(Now, f)
    BY <2>1 DEF MappedPages, PagesOf
  <2>3. \A v \in PagesOf(Now, f) : Leaf(Now, f, v) = tables[LastTable(Now, f, v)][Digit(v, 0)]
    BY EntriesDiffer, NowIs DEF Leaf, Present, PagesOf
  <2>4. QED
    BY <2>2, <2>3 DEF Space, Show, PageOf
<1>2. Space(f)' = Show(Now', f)
  <2>1. \A v \in LowerPages :
           LastTable(Now', f, v) # NULL /\ Present(tables'[LastTable(Now', f, v)][Digit(v, 0)])
              <=> Present(Leaf(Now', f, v))
    BY EntriesDiffer, NowIs DEF Leaf, Present
  <2>2. MappedPages(f)' = PagesOf(Now', f)
    BY <2>1 DEF MappedPages, PagesOf
  <2>3. \A v \in PagesOf(Now', f) : Leaf(Now', f, v) = tables'[LastTable(Now', f, v)][Digit(v, 0)]
    BY EntriesDiffer, NowIs DEF Leaf, Present, PagesOf
  <2>4. QED
    BY <2>2, <2>3 DEF Space, Show, PageOf
<1>3. QED
    BY <1>1, <1>2

\* The spaces are what the maps show.
LEMMA SpacesAre ==
    ASSUME NEW T
    PROVE  /\ maps = {Hhdm + f : f \in T} => Spaces = Seen(T, Now)
           /\ maps' = {Hhdm + f : f \in T} => Spaces' = Seen(T, Now')
BY SpaceIs DEF Spaces, Seen

\* What a map shows is found under its handle.
LEMMA SeenIs ==
    ASSUME NEW T, T \subseteq Nat, NEW m
    PROVE  /\ DOMAIN Seen(T, m) = {Hhdm + f : f \in T}
           /\ \A f \in T : Seen(T, m)[Hhdm + f] = Show(m, f)
<1>1. \A f \in T : (Hhdm + f) - Hhdm = f
    BY VmmAssumption
<1>2. QED
    BY <1>1 DEF Seen

\* Maps with the same pages show the same.
LEMMA ShowSame ==
    ASSUME NEW m, NEW n, NEW f, \A v \in LowerPages : Leaf(n, f, v) = Leaf(m, f, v)
    PROVE  Show(n, f) = Show(m, f)
<1>1. PagesOf(n, f) = PagesOf(m, f)
    BY DEF PagesOf
<1>2. \A v \in PagesOf(m, f) : Leaf(n, f, v) = Leaf(m, f, v)
    BY DEF PagesOf
<1>3. QED
    BY <1>1, <1>2 DEF Show

\* Only map f shows something else.
AllBut(m, n, T, f) == \A g \in T \ {f} : Show(n, g) = Show(m, g)

\* The spaces S with space x replaced by y.
Replaced(S, x, y) == [S EXCEPT ![x] = y]

\* If only map f shows something else, only its space changes.
LEMMA SeenChanged ==
    ASSUME NEW T \in SUBSET Nat, NEW f \in T, NEW m, NEW n, AllBut(m, n, T, f)
    PROVE  Seen(T, n) = Replaced(Seen(T, m), Hhdm + f, Show(n, f))
<1> DEFINE A == Seen(T, m)   B == Seen(T, n)   H == {Hhdm + g : g \in T}
<1>1. /\ DOMAIN A = H /\ DOMAIN B = H
      /\ \A g \in T : A[Hhdm + g] = Show(m, g) /\ B[Hhdm + g] = Show(n, g)
    BY SeenIs
<1>2. A = [h \in H |-> A[h]] /\ B = [h \in H |-> B[h]]
    BY DEF Seen
<1> HIDE DEF A, B
<1>3. \A h \in H : B[h] = IF h = Hhdm + f THEN Show(n, f) ELSE A[h]
    BY <1>1 DEF AllBut
<1> HIDE DEF H
<1>4. B = [A EXCEPT ![Hhdm + f] = Show(n, f)]
    BY <1>1, <1>2, <1>3
<1>5. QED
    BY <1>4 DEF A, B, Replaced

\* Pages mapped and unmapped are pages mapped and unmapped in the space.
LEMMA ShowMapped ==
    ASSUME NEW m, NEW n, NEW T, NEW f \in T, NEW v \in Nat, NEW target, NEW flags \in Flags,
           NEW j \in Nat, \A w \in v .. v + j - 1 : w \in LowerPages,
           Shows(m, n, T, f, v, target, flags, j)
    PROVE  Show(n, f) = AddressSpaces!Mapped(Show(m, f), v, target, j, flags)
<1> DEFINE R == v .. v + j - 1
<1>1. \A w \in LowerPages : w \notin R => Leaf(n, f, w) = Leaf(m, f, w)
    BY DEF Shows
<1>2. \A w \in R : w \in LowerPages
                   /\ Leaf(n, f, w) = [to |-> target + (w - v), flags |-> flags]
    BY DEF Shows
<1>3. flags # "absent"
    BY EntriesDiffer
<1> HIDE DEF R
<1>4. \A w \in R : /\ Present(Leaf(n, f, w))
                   /\ PageOf(Leaf(n, f, w)) = [frame |-> target + (w - v), flags |-> flags]
    BY <1>2, <1>3 DEF Present, PageOf
<1>5. PagesOf(n, f) = PagesOf(m, f) \cup R
    BY <1>1, <1>2, <1>4 DEF PagesOf
<1>6. \A w \in PagesOf(m, f) : w \notin R => Leaf(n, f, w) = Leaf(m, f, w)
    BY <1>1 DEF PagesOf
<1>7. DOMAIN Show(m, f) = PagesOf(m, f)
      /\ \A w \in PagesOf(m, f) : Show(m, f)[w] = PageOf(Leaf(m, f, w))
    BY DEF Show
<1> DEFINE S == Show(m, f)
<1>8. \A w \in PagesOf(n, f) : PageOf(Leaf(n, f, w)) =
         IF w \in R THEN [frame |-> target + (w - v), flags |-> flags] ELSE S[w]
    BY <1>4, <1>5, <1>6, <1>7
<1> HIDE DEF S
<1>9. Show(n, f) = [w \in DOMAIN S \cup R |->
         IF w \in R THEN [frame |-> target + (w - v), flags |-> flags] ELSE S[w]]
    BY <1>5, <1>7, <1>8 DEF Show, S
<1>10. QED
    BY <1>9 DEF AddressSpaces!Mapped, S, R

\* Map f shows page v no longer, and else what it showed.
Vanishes(m, n, f, v) ==
    \A w \in LowerPages : Leaf(n, f, w) = IF w = v THEN NoEntry ELSE Leaf(m, f, w)

\* A page that vanishes is removed from the space.
LEMMA ShowUnmapped ==
    ASSUME NEW m, NEW n, NEW f, NEW v, Vanishes(m, n, f, v)
    PROVE  Show(n, f) = AddressSpaces!Restrict(Show(m, f), DOMAIN Show(m, f) \ {v})
<1>1. ~Present(NoEntry)
    BY EntriesDiffer DEF Present
<1>2. PagesOf(n, f) = PagesOf(m, f) \ {v}
    BY <1>1 DEF PagesOf, Vanishes
<1>3. \A w \in PagesOf(n, f) : w \in PagesOf(m, f) /\ Leaf(n, f, w) = Leaf(m, f, w)
    BY <1>2 DEF PagesOf, Vanishes
<1>4. DOMAIN Show(m, f) = PagesOf(m, f)
      /\ \A w \in PagesOf(m, f) : Show(m, f)[w] = PageOf(Leaf(m, f, w))
    BY DEF Show
<1>5. Show(n, f) = [w \in PagesOf(n, f) |-> Show(m, f)[w]]
    BY <1>3, <1>4 DEF Show
<1>6. QED
    BY <1>2, <1>4, <1>5 DEF AddressSpaces!Restrict

\* A map without pages shows the empty space.
LEMMA ShowNone ==
    ASSUME NEW m, NEW f, \A v \in LowerPages : Leaf(m, f, v) = NoEntry
    PROVE  Show(m, f) = <<>>
<1>1. PagesOf(m, f) = {}
    BY EntriesDiffer DEF PagesOf, Present
<1>2. QED
    BY <1>1 DEF Show

\* T are frames, and the spaces are what their maps show, before and after.
LEMMA SpacesFit ==
    ASSUME NEW k, NEW T, NEW home, NEW lev, FitsNow(k, T, home, lev)
    PROVE  /\ T \subseteq Nat /\ maps = {Hhdm + f : f \in T} /\ Spaces = Seen(T, Now)
           /\ MemoryFine(Now, k, T, home, lev)
<1>1. maps = {Hhdm + f : f \in T} /\ MemoryFine(Now, k, T, home, lev)
    BY DEF FitsNow, FitsAt
<1>2. T \subseteq Nat
    BY <1>1, FramesAre DEF MemoryFine, Tree, Homes
<1>3. QED
    BY <1>1, <1>2, SpacesAre

\* As SpacesFit, after the step.
LEMMA SpacesWillFit ==
    ASSUME NEW k, NEW T, NEW home, NEW lev, WillFit(k, T, home, lev)
    PROVE  T \subseteq Nat /\ maps' = {Hhdm + f : f \in T} /\ Spaces' = Seen(T, Now')
<1>1. maps' = {Hhdm + f : f \in T} /\ MemoryFine(Now', k, T, home, lev)
    BY DEF WillFit, FitsAt
<1>2. T \subseteq Nat
    BY <1>1, FramesAre DEF MemoryFine, Tree, Homes
<1>3. QED
    BY <1>1, <1>2, SpacesAre

\* Where nothing is written every space stays.
LEMMA SpacesStay ==
    ASSUME pmm' = pmm, tables' = tables, maps' = maps
    PROVE  Spaces' = Spaces
<1>1. Now' = Now
    BY DEF Now
<1>2. \A f : Space(f)' = Space(f)
    BY <1>1, SpaceIs
<1>3. QED
    BY <1>2 DEF Spaces

\* A creation is one of the abstract spaces, or is refused.
LEMMA CreateRefines ==
    ASSUME NEW k, NEW T, NEW home, NEW lev, FitsNow(k, T, home, lev), Create
    PROVE  AddressSpaces!Refuse \/ \E id \in Handles : AddressSpaces!Create(id)
<1>1. answer' = NoAnswer
    BY DEF Create
<1>2. /\ T \subseteq Nat /\ maps = {Hhdm + f : f \in T} /\ Spaces = Seen(T, Now)
    BY SpacesFit
<1>3. CASE pmm' = pmm /\ tables' = tables /\ maps' = maps
  <2>1. Spaces' = Spaces
    BY <1>3, SpacesStay
  <2>2. QED
    BY <1>1, <2>1 DEF AddressSpaces!Refuse, Spaces
<1>4. ASSUME NEW y \in FirstFrame .. TotalPages(Memmap) - 1,
             WillFit(k, T \cup {y}, With(home, y, y), With(lev, y, 3)),
             y \notin T,
             \A v \in LowerPages : Leaf(Now', y, v) = NoEntry,
             \A g \in T, v \in LowerPages : Leaf(Now', g, v) = Leaf(Now, g, v)
      PROVE  \E id \in Handles : AddressSpaces!Create(id)
  <2> DEFINE id == Hhdm + y
             A == Seen(T, Now)   B == Seen(T \cup {y}, Now')
  <2>1. T \cup {y} \subseteq Nat /\ Spaces' = B
    BY <1>4, SpacesWillFit
  <2>2. Show(Now', y) = <<>>
    BY <1>4, ShowNone
  <2>3. \A g \in T : Show(Now', g) = Show(Now, g)
    BY <1>4, ShowSame
  <2>4. /\ DOMAIN A = {Hhdm + f : f \in T}
        /\ \A f \in T : A[Hhdm + f] = Show(Now, f)
    BY <1>2, SeenIs
  <2>5. /\ DOMAIN B = {Hhdm + f : f \in T \cup {y}}
        /\ \A f \in T \cup {y} : B[Hhdm + f] = Show(Now', f)
    BY <2>1, SeenIs
  <2>6. id \in Handles /\ id \notin DOMAIN A
    <3>1. \A f \in T : Hhdm + f # Hhdm + y
      BY <1>4, <2>1, VmmAssumption
    <3>2. QED
      BY <2>4, <3>1 DEF Handles
  <2>7. B = [h \in DOMAIN B |-> B[h]]
    BY DEF Seen
  <2> HIDE DEF A, B
  <2>8. DOMAIN B = DOMAIN A \cup {id}
    BY <2>4, <2>5
  <2>9. \A h \in DOMAIN B : B[h] = IF h = id THEN <<>> ELSE A[h]
    <3>1. B[id] = <<>>
      BY <2>2, <2>5
    <3>2. \A f \in T : B[Hhdm + f] = A[Hhdm + f]
      BY <2>3, <2>4, <2>5
    <3> HIDE DEF id
    <3>3. QED
      BY <2>4, <2>8, <3>1, <3>2
  <2>10. B = [h \in DOMAIN A \cup {id} |-> IF h = id THEN <<>> ELSE A[h]]
    BY <2>7, <2>8, <2>9
  <2>11. id \notin DOMAIN Spaces
         /\ Spaces' = [h \in DOMAIN Spaces \cup {id} |-> IF h = id THEN <<>> ELSE Spaces[h]]
    BY <1>2, <2>1, <2>6, <2>10 DEF A
  <2> HIDE DEF id
  <2>12. AddressSpaces!Create(id)
    BY <1>1, <2>11 DEF AddressSpaces!Create, Spaces
  <2>13. QED
    BY <2>6, <2>12
<1>5. QED
    BY <1>3, <1>4, CreateIs

\* A destruction is one of the abstract spaces.
LEMMA DestroyRefines ==
    ASSUME NEW k, NEW T, NEW home, NEW lev, FitsNow(k, T, home, lev), NEW f \in T,
           Destroy(Hhdm + f)
    PROVE  AddressSpaces!Destroy(Hhdm + f)
<1> DEFINE id == Hhdm + f
           A == Seen(T, Now)   B == Seen(T \ {f}, Now')
<1>1. answer' = NoAnswer
    BY DEF Destroy
<1>2. /\ T \subseteq Nat /\ maps = {Hhdm + g : g \in T} /\ Spaces = A
    BY SpacesFit
<1>3. PICK home2, lev2 : WillFit(k, T \ {f}, home2, lev2)
    BY DestroyIs
<1>4. \A g \in T \ {f} : Show(Now', g) = Show(Now, g)
  <2>1. OthersShow(Now, Now', T, f)
    BY DestroyIs
  <2>2. QED
    BY <2>1, ShowSame DEF OthersShow
<1>5. Spaces' = B
    BY <1>3, SpacesWillFit
<1>6. /\ DOMAIN A = {Hhdm + g : g \in T}
      /\ \A g \in T : A[Hhdm + g] = Show(Now, g)
    BY <1>2, SeenIs
<1>7. /\ DOMAIN B = {Hhdm + g : g \in T \ {f}}
      /\ \A g \in T \ {f} : B[Hhdm + g] = Show(Now', g)
    BY <1>2, SeenIs
<1>8. B = [h \in DOMAIN B |-> B[h]]
    BY DEF Seen
<1> HIDE DEF A, B
<1>9. DOMAIN B = DOMAIN A \ {id}
  <2>1. \A g \in T \ {f} : Hhdm + g # Hhdm + f
    BY <1>2, VmmAssumption
  <2>2. QED
    BY <1>6, <1>7, <2>1
<1>10. \A h \in DOMAIN B : B[h] = A[h]
    BY <1>4, <1>6, <1>7
<1>11. B = [h \in DOMAIN A \ {id} |-> A[h]]
    BY <1>8, <1>9, <1>10
<1>12. Spaces' = AddressSpaces!Restrict(Spaces, DOMAIN Spaces \ {id})
    BY <1>2, <1>5, <1>11 DEF AddressSpaces!Restrict
<1> HIDE DEF id
<1>13. AddressSpaces!Destroy(id)
    BY <1>1, <1>12 DEF AddressSpaces!Destroy, Spaces
<1>14. QED
    BY <1>13 DEF id

\* A range mapped is a range mapped in the space, cut where frames ran out.
LEMMA MapRefines ==
    ASSUME NEW k, NEW T, NEW home, NEW lev, FitsNow(k, T, home, lev), NEW f \in T,
           NEW handle, handle = Hhdm + f, NEW handed, Top(handle, handed) = f,
           NEW v \in Starts, NEW target \in Targets, NEW n \in 1 .. 2, NEW flags \in Flags,
           MapRange(handle, handed, v, target, n, flags)
    PROVE  AddressSpaces!Map(handle, v, target, n, flags)
<1>1. PICK home2, lev2 : \E j \in 0 .. n :
         /\ WillFit(k, T, home2, lev2)
         /\ Shows(Now, Now', T, f, v, target, flags, j)
         /\ answer' = MapAnswer(v, n, j)
    BY MapRangeIs
<1>2. PICK j \in 0 .. n :
         /\ WillFit(k, T, home2, lev2)
         /\ Shows(Now, Now', T, f, v, target, flags, j)
         /\ answer' = MapAnswer(v, n, j)
    BY <1>1
<1>3. v \in Nat /\ j \in Nat /\ \A w \in v .. v + j - 1 : w \in LowerPages
  <2>1. v \in LowerPages /\ v + 1 \in LowerPages
    BY VmmAssumption
  <2>2. v \in Nat /\ j \in Nat /\ j <= 2
    BY <2>1, LowerDigit
  <2>3. \A w \in v .. v + j - 1 : w = v \/ w = v + 1
    BY <2>2
  <2>4. QED
    BY <2>1, <2>2, <2>3
<1>4. Show(Now', f) = AddressSpaces!Mapped(Show(Now, f), v, target, j, flags)
    BY <1>2, <1>3, ShowMapped
<1>5. AllBut(Now, Now', T, f)
    BY <1>2, ShowSame DEF Shows, AllBut
<1>6. T \subseteq Nat /\ Spaces = Seen(T, Now) /\ Spaces' = Seen(T, Now')
    BY <1>2, SpacesFit, SpacesWillFit
<1>7. Seen(T, Now') = Replaced(Seen(T, Now), Hhdm + f, Show(Now', f))
  <2>1. T \in SUBSET Nat
    BY <1>6
  <2>2. QED
    BY <1>5, <2>1, SeenChanged
<1>8. Seen(T, Now)[Hhdm + f] = Show(Now, f)
    BY <1>6, SeenIs
<1>9. Spaces' = [Spaces EXCEPT ![handle] =
                    AddressSpaces!Mapped(Spaces[handle], v, target, j, flags)]
    BY <1>4, <1>6, <1>7, <1>8 DEF Replaced
<1>10. answer' = [page |-> v, len |-> n, done |-> j = n]
    BY <1>2, Zenon DEF MapAnswer
<1>11. QED
    BY <1>9, <1>10, Zenon DEF AddressSpaces!Map, Spaces

\* A page unmapped is a page removed from the space.
LEMMA UnmapRefines ==
    ASSUME NEW k, NEW T, NEW home, NEW lev, FitsNow(k, T, home, lev), NEW f \in T,
           NEW handle, handle = Hhdm + f, NEW handed, Top(handle, handed) = f,
           NEW v \in Starts, Unmap(handle, handed, v)
    PROVE  AddressSpaces!Unmap(handle, v)
<1>1. /\ WillFit(k, T, home, lev)
      /\ \A g \in T, w \in LowerPages :
            Leaf(Now', g, w) = IF g = f /\ w = v THEN NoEntry ELSE Leaf(Now, g, w)
    BY UnmapIs
<1>2. Vanishes(Now, Now', f, v)
    BY <1>1 DEF Vanishes
<1>3. Show(Now', f) = AddressSpaces!Restrict(Show(Now, f), DOMAIN Show(Now, f) \ {v})
    BY <1>2, ShowUnmapped
<1>4. AllBut(Now, Now', T, f)
  <2>1. ASSUME NEW g \in T \ {f} PROVE Show(Now', g) = Show(Now, g)
    <3>1. \A w \in LowerPages : Leaf(Now', g, w) = Leaf(Now, g, w)
      BY <1>1
    <3>2. QED
      BY <3>1, ShowSame
  <2>2. QED
    BY <2>1 DEF AllBut
<1>5. T \subseteq Nat /\ Spaces = Seen(T, Now) /\ Spaces' = Seen(T, Now')
    BY <1>1, SpacesFit, SpacesWillFit
<1>6. Seen(T, Now') = Replaced(Seen(T, Now), Hhdm + f, Show(Now', f))
  <2>1. T \in SUBSET Nat
    BY <1>5
  <2>2. QED
    BY <1>4, <2>1, SeenChanged
<1>7. Seen(T, Now)[Hhdm + f] = Show(Now, f)
    BY <1>5, SeenIs
<1>8. Spaces' = [Spaces EXCEPT ![handle] =
                    AddressSpaces!Restrict(Spaces[handle], DOMAIN Spaces[handle] \ {v})]
    BY <1>3, <1>5, <1>6, <1>7 DEF Replaced
<1>9. answer' = NoAnswer
    BY DEF Unmap
<1>10. QED
    BY <1>8, <1>9 DEF AddressSpaces!Unmap, Spaces

\* Without the NX bit among the flags, what a walk returns is the frame.
LEMMA TranslateRefines ==
    ASSUME "RODATA" \notin Flags,
           NEW k, NEW T, NEW home, NEW lev, FitsNow(k, T, home, lev), NEW f \in T,
           NEW handle, handle = Hhdm + f, NEW handed, Top(handle, handed) = f,
           NEW v \in Starts, Translate(handle, handed, v)
    PROVE  AddressSpaces!Translate(handle, v)
<1> DEFINE e == Leaf(Now, f, v)
<1>1. /\ answer' = [page |-> v, frame |-> PageToFrame(Now, f, v)]
      /\ pmm' = pmm /\ tables' = tables /\ maps' = maps
    BY DEF Translate, Reaches
<1>2. v \in LowerPages
    BY VmmAssumption
<1>3. /\ T \subseteq Nat /\ Spaces = Seen(T, Now) /\ MemoryFine(Now, k, T, home, lev)
    BY SpacesFit
<1>4. e = NoEntry \/ e.flags \in Flags
    BY <1>2, <1>3, LeafTyped
<1>5. PageToFrame(Now, f, v) = e.to
  <2>1. e.flags # "RODATA"
    BY <1>4, EntriesDiffer
  <2>2. PageToFrame(Now, f, v) = IF e.flags = "RODATA" THEN e.to + NxBit ELSE e.to
    BY DEF PageToFrame, Leaf
  <2>3. QED
    BY <2>1, <2>2
<1>6. Spaces[handle] = Show(Now, f)
    BY <1>3, SeenIs
<1>7. e.to = IF v \in DOMAIN Spaces[handle] THEN Spaces[handle][v].frame ELSE 0
  <2>1. v \in PagesOf(Now, f) <=> Present(e)
    BY <1>2 DEF PagesOf
  <2>2. ~Present(e) => e.to = 0
    BY <1>4, EntriesDiffer DEF Present
  <2>3. v \in PagesOf(Now, f) => Show(Now, f)[v].frame = e.to
    BY DEF Show, PageOf
  <2>4. DOMAIN Show(Now, f) = PagesOf(Now, f)
    BY DEF Show
  <2> HIDE DEF e
  <2>5. QED
    BY <1>6, <2>1, <2>2, <2>3, <2>4
<1>8. Spaces' = Spaces
    BY <1>1, SpacesStay
<1>9. answer' = [page |-> v, frame |->
         IF v \in DOMAIN Spaces[handle] THEN Spaces[handle][v].frame ELSE 0]
    BY <1>1, <1>5, <1>7
<1>10. QED
    BY <1>8, <1>9 DEF AddressSpaces!Translate, Spaces

\* Every page map is an address space: a partial function from the pages of
\* the lower half to what was mapped there last, that no operation on another
\* map or page changes, and a request that runs out of frames says so.  Pages
\* mapped with VMM_FLAGS_RODATA are excepted, for vmm_virt_to_phys leaves their
\* NX bit in the address.
THEOREM VmmRefinesAddressSpace ==
    ASSUME "RODATA" \notin Flags
    PROVE  Spec => ImplementsAddressSpace
<1>1. Init => AddressSpaces!Init
  <2> SUFFICES ASSUME Init PROVE AddressSpaces!Init
    OBVIOUS
  <2>1. answer = NoAnswer /\ maps = {}
    BY DEF Init
  <2>2. Spaces = <<>>
    BY <2>1 DEF Spaces
  <2>3. QED
    BY <2>1, <2>2 DEF AddressSpaces!Init, Spaces
<1>2. VmmInv /\ [Next]_vars => [AddressSpaces!Next]_(AddressSpaces!vars)
  <2> SUFFICES ASSUME VmmInv, [Next]_vars
               PROVE  [AddressSpaces!Next]_(AddressSpaces!vars)
    OBVIOUS
  <2>1. ASSUME answer' = answer, pmm' = pmm, tables' = tables, maps' = maps
        PROVE  UNCHANGED AddressSpaces!vars
    BY <2>1, SpacesStay DEF AddressSpaces!vars, Spaces
  <2>2. ASSUME answer' = NoAnswer, pmm' = pmm, tables' = tables, maps' = maps
        PROVE  AddressSpaces!Next
    <3>1. AddressSpaces!Refuse
      BY <2>2, SpacesStay DEF AddressSpaces!Refuse, Spaces
    <3>2. QED
      BY <3>1 DEF AddressSpaces!Next
  <2>3. CASE UNCHANGED vars
    BY <2>1, <2>3 DEF vars
  <2>4. CASE Next /\ NoKernel
    BY <2>2, <2>4, NoKernelStays
  <2>5. ASSUME Next, NEW k, NEW T, NEW home, NEW lev, FitsNow(k, T, home, lev)
        PROVE  [AddressSpaces!Next]_(AddressSpaces!vars)
    <3>1. DOMAIN Spaces = maps
      BY DEF Spaces
    <3>2. CASE Create
      BY <2>5, <3>2, CreateRefines DEF AddressSpaces!Next
    <3>3. CASE Ignore
      BY <2>2, <3>3 DEF Ignore
    <3>4. ASSUME NEW handle \in maps, Destroy(handle)
          PROVE  AddressSpaces!Next
      <4>1. PICK f \in T : handle = Hhdm + f
        BY <2>5, HandleIs
      <4>2. AddressSpaces!Destroy(handle)
        BY <2>5, <3>4, <4>1, DestroyRefines
      <4>3. QED
        BY <3>1, <4>2 DEF AddressSpaces!Next, Spaces
    <3>5. ASSUME NEW handle \in maps, NEW handed \in Handed, Faults(handle, handed)
          PROVE  UNCHANGED AddressSpaces!vars
      BY <2>1, <3>5 DEF Faults
    <3>6. ASSUME NEW handle \in maps, NEW handed \in Handed, NEW v \in Starts,
                 Unmap(handle, handed, v)
          PROVE  AddressSpaces!Next
      <4>1. PICK f \in T : Top(handle, handed) = f /\ handle = Hhdm + f
        BY <2>5, <3>6, ReachedTop DEF Unmap
      <4>2. AddressSpaces!Unmap(handle, v)
        BY <2>5, <3>6, <4>1, UnmapRefines
      <4>3. QED
        BY <3>1, <4>2 DEF AddressSpaces!Next, Spaces
    <3>7. ASSUME NEW handle \in maps, NEW handed \in Handed, NEW v \in Starts,
                 Translate(handle, handed, v)
          PROVE  AddressSpaces!Next
      <4>1. PICK f \in T : Top(handle, handed) = f /\ handle = Hhdm + f
        BY <2>5, <3>7, ReachedTop DEF Translate
      <4>2. AddressSpaces!Translate(handle, v)
        BY <2>5, <3>7, <4>1, TranslateRefines
      <4>3. QED
        BY <3>1, <4>2 DEF AddressSpaces!Next, Spaces
    <3>8. ASSUME NEW handle \in maps, NEW handed \in Handed, NEW v \in Starts,
                 NEW target \in Targets, NEW n \in 1 .. 2, NEW flags \in Flags,
                 MapRange(handle, handed, v, target, n, flags)
          PROVE  AddressSpaces!Next
      <4>1. PICK f \in T : Top(handle, handed) = f /\ handle = Hhdm + f
        BY <2>5, <3>8, ReachedTop DEF MapRange
      <4>2. AddressSpaces!Map(handle, v, target, n, flags)
        BY <2>5, <3>8, <4>1, MapRefines
      <4>3. QED
        BY <3>1, <4>2 DEF AddressSpaces!Next, Spaces
    <3>9. QED
      BY <2>5, <3>2, <3>3, <3>4, <3>5, <3>6, <3>7, <3>8 DEF Next
  <2>6. QED
    BY <2>3, <2>4, <2>5 DEF VmmInv
<1>3. QED
    BY <1>1, <1>2, VmmInvariant, PTL DEF Spec, ImplementsAddressSpace, AddressSpaces!Spec

=============================================================================
