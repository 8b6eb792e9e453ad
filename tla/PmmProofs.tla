------------------------------ MODULE PmmProofs ------------------------------
EXTENDS Pmm, FiniteSetTheorems, WellFoundedInduction, TLAPS

\* Every non-empty set of naturals has a least element.
LEMMA LeastNatural ==
    ASSUME NEW S \in SUBSET Nat, S # {}
    PROVE  \E n \in S : \A m \in S : n <= m
<1> DEFINE Less == {ss \in Nat \X Nat : ss[1] < ss[2]}
<1>1. IsWellFoundedOn(Less, Nat)
    BY NatLessThanWellFounded, Zenon DEF OpToRel
<1>2. \E n \in S : \A m \in S : ~ (<<m, n>> \in Less)
  <2> HIDE DEF Less
  <2>1. QED
    BY <1>1, WFMin
<1>3. \A m, n \in Nat : ~ (<<m, n>> \in Less) <=> n <= m
    OBVIOUS
<1>4. QED
  <2> HIDE DEF Less
  <2>1. QED
    BY <1>2, <1>3

\* Division by the page size.
LEMMA PageQuotient ==
    ASSUME NEW x \in Nat
    PROVE  /\ x \div PageSize \in Nat
           /\ PageSize * (x \div PageSize) <= x
           /\ x < PageSize * (x \div PageSize + 1)
           /\ x % PageSize = 0 => x = PageSize * (x \div PageSize)
BY PageAssumption

\* Whole pages: the quotient by the page size is additive and monotone.
LEMMA WholePages ==
    ASSUME NEW a \in Nat, NEW b \in Nat, NEW h \in Nat,
           a % PageSize = 0, b % PageSize = 0, a + b <= h
    PROVE  a \div PageSize + b \div PageSize <= h \div PageSize
<1> DEFINE qa == a \div PageSize
           qb == b \div PageSize
           qh == h \div PageSize
<1>1. PageSize \in Nat \ {0}
    BY PageAssumption
<1>2. qa \in Nat /\ qb \in Nat /\ qh \in Nat
    BY <1>1
<1>3. a = PageSize * qa /\ b = PageSize * qb
    BY <1>1
<1>4. h < PageSize * (qh + 1)
    BY <1>1
<1>5. PageSize * (qa + qb) < PageSize * (qh + 1)
    BY <1>1, <1>2, <1>3, <1>4
<1> HIDE DEF qa, qb, qh
<1>6. qa + qb < qh + 1
    BY <1>1, <1>2, <1>5
<1>7. QED
    BY <1>2, <1>6 DEF qa, qb, qh

-----------------------------------------------------------------------------
(* pmm_init.                                                                 *)

\* The highest address of pmm_init bounds every usable entry.
LEMMA HighestBounds ==
    ASSUME NEW mm, WellFormedMemmap(mm)
    PROVE  /\ Highest(mm) \in 0..MaxPhys
           /\ BoundsUsable(mm, Highest(mm))
<1> DEFINE S == {a \in 0..MaxPhys : BoundsUsable(mm, a)}
<1>1. MaxPhys \in S
    BY PageAssumption DEF WellFormedMemmap, BoundsUsable
<1>2. \E a \in S : \A b \in S : a <= b
  <2>1. S \in SUBSET Nat /\ S # {}
    BY <1>1
  <2> HIDE DEF S
  <2>2. QED
    BY <2>1, LeastNatural
<1>3. QED
    BY <1>2 DEF Highest

\* What is usable lies below total_pages, so no bit is cleared outside the
\* bitmap, and the entries hold finitely many frames.
LEMMA UsableBelowTotal ==
    ASSUME NEW mm, WellFormedMemmap(mm)
    PROVE  /\ TotalPages(mm) \in Nat
           /\ \A i \in Usable(mm) : FramesOf(mm[i]) \subseteq 0 .. TotalPages(mm) - 1
           /\ UsableFrames(mm) \subseteq 0 .. TotalPages(mm) - 1
           /\ IsFiniteSet(UsableFrames(mm))
<1>1. TotalPages(mm) \in Nat
    BY HighestBounds, PageAssumption DEF TotalPages
<1>2. ASSUME NEW i \in Usable(mm)
      PROVE  FramesOf(mm[i]) \subseteq 0 .. TotalPages(mm) - 1
  <2>1. mm[i] \in Entry
    BY DEF WellFormedMemmap, Usable
  <2>2. /\ mm[i].base % PageSize = 0
        /\ mm[i].length % PageSize = 0
    BY DEF WellFormedMemmap
  <2>3. /\ mm[i].base \in Nat
        /\ mm[i].length \in Nat
        /\ mm[i].base % PageSize = 0
        /\ mm[i].length % PageSize = 0
    BY <2>1, <2>2 DEF Entry
  <2>4. Highest(mm) \in Nat
    BY HighestBounds, PageAssumption
  <2>5. mm[i].base + mm[i].length <= Highest(mm)
    BY HighestBounds DEF BoundsUsable
  <2>6. mm[i].base \div PageSize + mm[i].length \div PageSize <= TotalPages(mm)
    BY <2>3, <2>4, <2>5, WholePages DEF TotalPages
  <2>7. /\ mm[i].base \div PageSize \in Nat
        /\ mm[i].length \div PageSize \in Nat
    BY <2>3, PageAssumption
  <2>8. QED
    BY <1>1, <2>6, <2>7 DEF FramesOf
<1>3. UsableFrames(mm) \subseteq 0 .. TotalPages(mm) - 1
    BY <1>2 DEF UsableFrames
<1>4. IsFiniteSet(0 .. TotalPages(mm) - 1)
    BY <1>1, FS_Interval
<1>5. QED
    BY <1>1, <1>2, <1>3, <1>4, FS_Subset

\* The loop that clears bits counts every usable frame once.
LEMMA CountedOnce ==
    ASSUME NEW mm, WellFormedMemmap(mm)
    PROVE  Cardinality(CountedFrames(mm)) = Cardinality(UsableFrames(mm))
<1> DEFINE C == CountedFrames(mm)
           U == UsableFrames(mm)
           owner == [f \in U |-> CHOOSE i \in Usable(mm) : f \in FramesOf(mm[i])]
           pair == [f \in U |-> <<owner[f], f>>]
<1>1. \A f \in U : owner[f] \in Usable(mm) /\ f \in FramesOf(mm[owner[f]])
    BY DEF UsableFrames
<1>2. \A c \in C : /\ c = <<c[1], c[2]>>
                    /\ c[1] \in Usable(mm)
                    /\ c[2] \in FramesOf(mm[c[1]])
    BY DEF CountedFrames
<1>3. pair \in [U -> C]
  <2>1. \A i \in Usable(mm) : \A f \in FramesOf(mm[i]) : <<i, f>> \in C
    BY DEF CountedFrames
  <2>2. QED
    BY <1>1, <2>1
<1>4. \A f, g \in U : pair[f] = pair[g] => f = g
    OBVIOUS
<1>5. ASSUME NEW c \in C
      PROVE  c[2] \in U /\ pair[c[2]] = c
  <2>1. c[2] \in U
    BY <1>2 DEF UsableFrames
  <2>2. owner[c[2]] = c[1]
    BY <1>1, <1>2, <2>1 DEF WellFormedMemmap
  <2>3. QED
    BY <1>2, <2>1, <2>2
<1>6. pair \in Bijection(U, C)
  <2> HIDE DEF pair, C, U
  <2>1. QED
    BY <1>3, <1>4, <1>5 DEF Bijection, Injection, Surjection, IsInjective
<1>7. QED
    BY <1>6, UsableBelowTotal, FS_Bijection DEF ExistsBijection

\* The bitmap lies inside the entry that hosts it and has a bit for each frame.
LEMMA BitmapInHost ==
    ASSUME NEW mm, WellFormedMemmap(mm), BitmapHosts(mm) # {}
    PROVE  /\ BitmapFrames(mm) \subseteq UsableFrames(mm)
           /\ TotalPages(mm) <= 8 * PageSize * Cardinality(BitmapFrames(mm))
<1> DEFINE h == BitmapHost(mm)
           first == mm[h].base \div PageSize
           bytes == BitmapBytes(mm)
           pages == (bytes + PageSize - 1) \div PageSize
           room == mm[h].length \div PageSize
<1>1. h \in BitmapHosts(mm)
  <2>1. BitmapHosts(mm) \in SUBSET Nat
    BY DEF BitmapHosts, Usable, WellFormedMemmap
  <2>2. \E i \in BitmapHosts(mm) : \A j \in BitmapHosts(mm) : i <= j
    BY <2>1, LeastNatural
  <2>3. QED
    BY <2>2 DEF BitmapHost
<1>2. h \in Usable(mm) /\ mm[h].length >= bytes
    BY <1>1 DEF BitmapHosts
<1>3. mm[h] \in Entry
    BY <1>2 DEF Usable, WellFormedMemmap
<1>4. mm[h].length % PageSize = 0
    BY <1>2 DEF WellFormedMemmap
<1>5. /\ mm[h].length \in Nat
      /\ first \in Nat
    BY <1>3, PageAssumption DEF Entry
<1>6. TotalPages(mm) \in Nat /\ bytes \in Nat /\ TotalPages(mm) <= 8 * bytes
    BY UsableBelowTotal DEF BitmapBytes
<1>7. /\ pages \in Nat /\ room \in Nat
      /\ mm[h].length = PageSize * room
      /\ PageSize * pages <= bytes + PageSize - 1
      /\ bytes + PageSize - 1 < PageSize * (pages + 1)
  <2>1. bytes + PageSize - 1 \in Nat
    BY <1>6, PageAssumption
  <2> HIDE DEF bytes
  <2>2. QED
    BY <1>4, <1>5, <2>1, PageQuotient
<1> HIDE DEF h, first, bytes, pages, room
<1>8. bytes <= PageSize * pages
    BY <1>6, <1>7, PageAssumption
<1>9. pages <= room
  <2>1. PageSize * pages < PageSize * (room + 1)
    BY <1>2, <1>5, <1>6, <1>7, PageAssumption
  <2>2. pages < room + 1
    BY <2>1, <1>7, PageAssumption
  <2>3. QED
    BY <2>2, <1>7
<1>10. BitmapFrames(mm) = first .. (first + pages - 1)
    BY DEF BitmapFrames, h, first, bytes, pages
<1>11. BitmapFrames(mm) \subseteq FramesOf(mm[h])
    BY <1>5, <1>7, <1>9, <1>10 DEF FramesOf, first, room
<1>12. Cardinality(BitmapFrames(mm)) = pages
  <2>1. /\ first \in Int
        /\ first + pages - 1 \in Int
        /\ first > first + pages - 1 <=> pages = 0
        /\ (first + pages - 1) - first + 1 = pages
    BY <1>5, <1>7
  <2>2. QED
    BY <1>7, <1>10, <2>1, FS_Interval
<1>13. TotalPages(mm) <= 8 * PageSize * pages
    BY <1>6, <1>7, <1>8, PageAssumption
<1>14. QED
    BY <1>2, <1>11, <1>12, <1>13 DEF UsableFrames

\* free_pages after pmm_init is the number of clear bits of the bitmap.
LEMMA BootCount ==
    ASSUME NEW mm, WellFormedMemmap(mm), BitmapHosts(mm) # {}
    PROVE  /\ PmmInit(mm).free \in Nat
           /\ PmmInit(mm).free
                = Cardinality((0 .. TotalPages(mm) - 1) \ Reserved(mm))
<1> DEFINE U == UsableFrames(mm)
           B == BitmapFrames(mm)
<1>1. U \subseteq 0 .. TotalPages(mm) - 1 /\ IsFiniteSet(U) /\ B \subseteq U
    BY UsableBelowTotal, BitmapInHost
<1>2. (0 .. TotalPages(mm) - 1) \ Reserved(mm) = U \ B
    BY <1>1 DEF Reserved
<1>3. Cardinality(U \ B) = Cardinality(U) - Cardinality(U \cap B)
    BY <1>1, FS_Difference
<1>4. PmmInit(mm).free = Cardinality(CountedFrames(mm)) - Cardinality(B \cap U)
    BY DEF PmmInit
<1>5. U \cap B = B \cap U
    OBVIOUS
<1>6. Cardinality(U \ B) \in Nat
    BY <1>1, FS_CardinalityType, FS_Difference
<1>7. Cardinality(CountedFrames(mm)) = Cardinality(U)
    BY CountedOnce
<1>8. PmmInit(mm).free = Cardinality(U \ B)
    BY <1>3, <1>4, <1>5, <1>7, Zenon
<1>9. QED
    BY <1>2, <1>6, <1>8, Zenon

-----------------------------------------------------------------------------
(* pmm_alloc_page and pmm_free_page.                                         *)

\* The lowest of some frames is one of them.
LEMMA LowestIsMember ==
    ASSUME NEW S \in SUBSET Nat, S # {}
    PROVE  LowestFrame(S) \in S
BY LeastNatural DEF LowestFrame

\* Frame 0 is below the first one given out.
LEMMA FirstFramePositive == FirstFrame \in Nat \ {0}
BY PageAssumption DEF FirstFrame

\* The two ends of a call to pmm_alloc_page.
LEMMA AllocResult ==
    ASSUME NEW p, p.total \in Nat
    PROVE  LET r == PmmAlloc(p)
           IN  \/ /\ Allocatable(p) = {}
                  /\ r.pmm = p
                  /\ r.frame = NULL
               \/ /\ r.frame \in Allocatable(p)
                  /\ r.frame \in FirstFrame .. p.total - 1
                  /\ r.frame \in Nat
                  /\ r.frame # NULL
                  /\ r.frame \notin p.used
                  /\ r.pmm = [p EXCEPT !.used = @ \cup {r.frame}, !.free = @ - 1]
<1>1. CASE Allocatable(p) = {}
    BY <1>1 DEF PmmAlloc
<1>2. CASE Allocatable(p) # {}
  <2> DEFINE f == LowestFrame(Allocatable(p))
  <2>1. Allocatable(p) \in SUBSET Nat
    BY FirstFramePositive DEF Allocatable
  <2>2. f \in Allocatable(p)
    BY <1>2, <2>1, LowestIsMember
  <2>3. PmmAlloc(p) = [pmm   |-> [p EXCEPT !.used = @ \cup {f}, !.free = @ - 1],
                       frame |-> f]
    BY <1>2 DEF PmmAlloc
  <2> HIDE DEF f
  <2>4. f \in FirstFrame .. p.total - 1 /\ f \notin p.used /\ f \in Nat /\ f # NULL
    BY <2>2, FirstFramePositive DEF Allocatable, NULL
  <2>5. QED
    BY <2>2, <2>3, <2>4
<1>3. QED
    BY <1>1, <1>2

\* Setting one clear bit, clearing one set bit.
LEMMA CountClear ==
    ASSUME NEW n \in Nat, NEW used, NEW f \in 0 .. n - 1
    PROVE  LET clear(u) == (0 .. n - 1) \ u
           IN  /\ Cardinality(clear(used)) \in Nat
               /\ f \notin used => Cardinality(clear(used)) \in Nat \ {0}
               /\ f \notin used => Cardinality(clear(used \cup {f}))
                                     = Cardinality(clear(used)) - 1
               /\ f \in used => Cardinality(clear(used \ {f}))
                                   = Cardinality(clear(used)) + 1
<1> DEFINE C == (0 .. n - 1) \ used
<1>1. IsFiniteSet(0 .. n - 1)
    BY FS_Interval
<1>2. IsFiniteSet(C)
    BY <1>1, FS_Difference
<1>3. Cardinality(C) \in Nat
    BY <1>2, FS_CardinalityType
<1>4. (0 .. n - 1) \ (used \cup {f}) = C \ {f}
    OBVIOUS
<1>5. f \in used => (0 .. n - 1) \ (used \ {f}) = C \cup {f}
    OBVIOUS
<1>6. f \notin used => f \in C /\ Cardinality(C) # 0
    BY <1>2, FS_EmptySet
<1>7. f \in used => f \notin C
    OBVIOUS
<1> HIDE DEF C
<1>8. f \in C => Cardinality(C \ {f}) = Cardinality(C) - 1
    BY <1>2, FS_RemoveElement
<1>9. f \notin C => Cardinality(C \cup {f}) = Cardinality(C) + 1
    BY <1>2, FS_AddElement
<1>10. QED
    BY <1>3, <1>4, <1>5, <1>6, <1>7, <1>8, <1>9 DEF C

-----------------------------------------------------------------------------
(* The inductive invariant.                                                  *)

\* The invariant holds before boot.
LEMMA InitIInv == Init => IInv
<1> SUFFICES ASSUME Init PROVE IInv
    OBVIOUS
<1> USE DEF Init, PmmOff
<1>1. TypeOK
    BY DEF TypeOK, NULL
<1>2. Inv
    BY DEF Inv, FreeCountExact, Conservation, HeldAreUsable
<1>3. QED
    BY <1>1, <1>2 DEF IInv

\* pmm_init makes it true of the bitmap.
LEMMA BootIInv == IInv /\ Boot => IInv'
<1> SUFFICES ASSUME IInv, Boot PROVE IInv'
    OBVIOUS
<1>1. /\ memmap' = memmap /\ held' = held /\ ret' = ret /\ phase' = "up"
      /\ held = {} /\ memmap \in Memmaps /\ ret \in Nat
      /\ pmm' = PmmInit(memmap)
    BY DEF Boot, IInv, TypeOK
<1>2. WellFormedMemmap(memmap)
    BY <1>1, MemmapAssumption
<1>3. TotalPages(memmap) \in Nat
    BY <1>2, UsableBelowTotal
<1>4. CASE BitmapHosts(memmap) = {}
  <2>1. pmm' = [total |-> TotalPages(memmap), used |-> {}, free |-> 0,
                mapped |-> FALSE]
    BY <1>1, <1>4 DEF PmmInit
  <2>2. TypeOK'
    BY <1>1, <1>3, <2>1 DEF TypeOK
  <2>3. Inv'
    BY <1>1, <2>1 DEF Inv, FreeCountExact, Conservation, HeldAreUsable
  <2>4. QED
    BY <1>1, <1>4, <2>1, <2>2, <2>3 DEF IInv
<1>5. CASE BitmapHosts(memmap) # {}
  <2>1. /\ pmm' = [total |-> TotalPages(memmap), used |-> Reserved(memmap),
                   free |-> PmmInit(memmap).free, mapped |-> TRUE]
        /\ PmmInit(memmap).free \in Nat
    BY <1>1, <1>2, <1>5, BootCount DEF PmmInit
  <2>2. Reserved(memmap) \in SUBSET Nat
    BY <1>2, <1>3, <1>5, UsableBelowTotal, BitmapInHost DEF Reserved
  <2>3. TypeOK'
    BY <1>1, <1>3, <2>1, <2>2 DEF TypeOK
  <2>4. FreeCountExact'
    BY <1>1, <1>2, <1>5, <2>1, BootCount DEF FreeCountExact
  <2>5. Conservation' /\ HeldAreUsable'
    BY <1>1, <2>1 DEF Conservation, HeldAreUsable
  <2>6. QED
    BY <1>1, <1>5, <2>1, <2>3, <2>4, <2>5 DEF IInv, Inv
<1>6. QED
    BY <1>4, <1>5

\* pmm_alloc_page keeps it.
LEMMA AllocIInv == IInv /\ AllocPage => IInv'
<1> SUFFICES ASSUME IInv, AllocPage PROVE IInv'
    OBVIOUS
<1> DEFINE r == PmmAlloc(pmm)
<1>1. /\ phase = "up" /\ phase' = phase /\ memmap' = memmap
      /\ pmm' = r.pmm /\ ret' = r.frame
      /\ held' = held \cup ({r.frame} \ {NULL})
      /\ ~PmmFaults(pmm)
    BY DEF AllocPage
<1>2. TypeOK /\ FreeCountExact /\ Conservation /\ HeldAreUsable
    BY DEF IInv, Inv
<1>3. /\ pmm \in [total : Nat, used : SUBSET Nat, free : Nat, mapped : BOOLEAN]
      /\ held \subseteq Nat /\ memmap \in Memmaps
    BY <1>2 DEF TypeOK
<1>4. CASE r.pmm = pmm /\ r.frame = NULL
  <2>1. pmm' = pmm /\ held' = held /\ ret' = 0
    BY <1>1, <1>4 DEF NULL
  <2> HIDE DEF r
  <2>2. TypeOK'
    <3>1. pmm' \in [total : Nat, used : SUBSET Nat, free : Nat, mapped : BOOLEAN]
      BY <1>3, <2>1, Zenon
    <3>2. memmap' \in Memmaps /\ held' \subseteq Nat /\ ret' \in Nat
      <4>1. memmap' \in Memmaps
        BY <1>1, <1>3, Zenon
      <4>2. held' \subseteq Nat
        BY <1>3, <2>1, Zenon
      <4>3. ret' \in Nat
        BY <2>1
      <4>4. QED
        BY <4>1, <4>2, <4>3
    <3>3. phase' = "up"
      BY <1>1
    <3>4. QED
      BY <3>1, <3>2, <3>3, Zenon DEF TypeOK
  <2>3. Inv'
    BY <1>1, <1>2, <2>1 DEF Inv, FreeCountExact, Conservation, HeldAreUsable
  <2>4. QED
    BY <1>1, <2>1, <2>2, <2>3 DEF IInv
<1>5. CASE /\ r.frame \in FirstFrame .. pmm.total - 1
           /\ r.frame \in Nat /\ r.frame # NULL /\ r.frame \notin pmm.used
           /\ r.pmm = [pmm EXCEPT !.used = @ \cup {r.frame}, !.free = @ - 1]
  <2> DEFINE f == r.frame
  <2> HIDE DEF r
  <2>1. pmm.mapped
    BY <1>1, <1>3, <1>5, FirstFramePositive DEF PmmFaults
  <2>2. /\ held' = held \cup {f}
        /\ pmm' = [total |-> pmm.total, used |-> pmm.used \cup {f},
                   free |-> pmm.free - 1, mapped |-> pmm.mapped]
    BY <1>1, <1>3, <1>5
  <2>3. f \in 0 .. pmm.total - 1
    BY <1>3, <1>5, FirstFramePositive
  <2>4. TypeOK'
    <3>1. pmm.free \in Nat \ {0}
      <4>1. pmm.free = Cardinality((0 .. pmm.total - 1) \ pmm.used)
        BY <1>2, <2>1 DEF FreeCountExact
      <4>2. Cardinality((0 .. pmm.total - 1) \ pmm.used) \in Nat \ {0}
        BY <1>3, <1>5, <2>3, CountClear
      <4>3. QED
        BY <4>1, <4>2
    <3>2. pmm.free - 1 \in Nat
      BY <3>1
    <3>3. QED
      BY <1>1, <1>2, <1>3, <1>5, <2>2, <3>2 DEF TypeOK
  <2>5. FreeCountExact'
    BY <1>2, <1>3, <1>5, <2>1, <2>2, <2>3, CountClear DEF FreeCountExact
  <2>6. Conservation'
    BY <1>1, <1>2, <1>5, <2>1, <2>2 DEF Conservation
  <2>7. f \in UsableFrames(memmap)
    <3>1. pmm.total = TotalPages(memmap)
      BY <1>1 DEF IInv
    <3>2. f \notin Reserved(memmap)
      BY <1>2, <1>5, <2>1 DEF Conservation
    <3>3. QED
      BY <2>3, <3>1, <3>2 DEF Reserved
  <2>8. HeldAreUsable'
    BY <1>1, <1>2, <1>5, <2>2, <2>7 DEF HeldAreUsable
  <2>9. QED
    BY <1>1, <2>1, <2>2, <2>4, <2>5, <2>6, <2>8 DEF IInv, Inv
<1>6. QED
    BY <1>3, <1>4, <1>5, AllocResult

\* pmm_free_page keeps it, whatever address it is given.
LEMMA FreeIInv ==
    ASSUME IInv, NEW phys \in 0..MaxPhys, FreePage(phys)
    PROVE  IInv'
<1> DEFINE f == phys \div PageSize
<1>1. /\ phase = "up" /\ phase' = phase /\ memmap' = memmap /\ ret' = ret
      /\ pmm.mapped
      /\ f \notin Reserved(memmap)
      /\ pmm' = PmmFree(pmm, phys)
      /\ held' = held \ {f}
    BY DEF FreePage
<1>2. TypeOK /\ FreeCountExact /\ Conservation /\ HeldAreUsable
    BY DEF IInv, Inv
<1>3. /\ pmm \in [total : Nat, used : SUBSET Nat, free : Nat, mapped : BOOLEAN]
      /\ held \subseteq Nat /\ memmap \in Memmaps /\ ret \in Nat
    BY <1>2 DEF TypeOK
<1>4. f \in Nat
    BY PageAssumption
<1>5. CASE f < pmm.total /\ f \in pmm.used
  <2>1. pmm' = [total |-> pmm.total, used |-> pmm.used \ {f},
                free |-> pmm.free + 1, mapped |-> pmm.mapped]
    BY <1>1, <1>3, <1>5 DEF PmmFree
  <2> HIDE DEF f
  <2>2. f \in 0 .. pmm.total - 1
    BY <1>3, <1>4, <1>5
  <2>3. TypeOK'
    <3>1. pmm.used \ {f} \in SUBSET Nat /\ held \ {f} \subseteq Nat
      BY <1>3
    <3>2. QED
      BY <1>1, <1>3, <2>1, <3>1 DEF TypeOK
  <2>4. FreeCountExact'
    BY <1>1, <1>2, <1>3, <1>5, <2>1, <2>2, CountClear DEF FreeCountExact
  <2>5. Conservation'
    BY <1>1, <1>2, <2>1 DEF Conservation
  <2>6. HeldAreUsable'
    BY <1>1, <1>2, <2>1 DEF HeldAreUsable
  <2>7. QED
    BY <1>1, <2>1, <2>3, <2>4, <2>5, <2>6 DEF IInv, Inv
<1>6. CASE ~(f < pmm.total /\ f \in pmm.used)
  <2>1. pmm' = pmm
    BY <1>1, <1>6 DEF PmmFree
  <2> HIDE DEF f
  <2>2. f \notin held
    BY <1>1, <1>2, <1>3, <1>4, <1>6 DEF Conservation, HeldAreUsable
  <2>3. held' = held
    BY <1>1, <2>2
  <2>4. QED
    BY <1>1, <1>2, <2>1, <2>3
       DEF IInv, Inv, TypeOK, FreeCountExact, Conservation, HeldAreUsable
<1>7. QED
    BY <1>5, <1>6

\* Every step keeps it.
LEMMA NextIInv == IInv /\ [Next]_vars => IInv'
<1> SUFFICES ASSUME IInv, [Next]_vars PROVE IInv'
    OBVIOUS
<1>1. CASE AllocFault \/ UNCHANGED vars
    BY <1>1 DEF AllocFault, vars, IInv, TypeOK, Inv, FreeCountExact,
                Conservation, HeldAreUsable
<1>2. QED
    BY <1>1, BootIInv, AllocIInv, FreeIInv DEF Next

\* pmm.c keeps its inductive invariant on every well-formed memory map, for
\* every page size and every sequence of calls.
THEOREM PmmInvariant == Spec => []IInv
<1>1. Init => IInv
    BY InitIInv
<1>2. IInv /\ [Next]_vars => IInv'
    BY NextIInv
<1>3. QED
    BY <1>1, <1>2, PTL DEF Spec

\* Type correctness of the manager.
THEOREM PmmTypeCorrect == Spec => []TypeOK
<1>1. IInv => TypeOK
    BY DEF IInv
<1>2. QED
    BY <1>1, PmmInvariant, PTL

\* free_pages always equals the number of clear bits (pmm.c:87, 97, 109, 120).
THEOREM PmmFreeCountExact == Spec => []FreeCountExact
<1>1. IInv => FreeCountExact
    BY DEF IInv, Inv
<1>2. QED
    BY <1>1, PmmInvariant, PTL

\* The bits set are the frames reserved at boot and the frames held, and the
\* two are disjoint: no leak, no double allocation (pmm.c:104-122).
THEOREM PmmConservation == Spec => []Conservation
<1>1. IInv => Conservation
    BY DEF IInv, Inv
<1>2. QED
    BY <1>1, PmmInvariant, PTL

\* Callers hold usable frames at or above 1 MiB only (pmm.c:105-112).
THEOREM PmmHeldAreUsable == Spec => []HeldAreUsable
<1>1. IInv => HeldAreUsable
    BY DEF IInv, Inv
<1>2. QED
    BY <1>1, PmmInvariant, PTL

\* Freeing everything brings the manager back to the state after pmm_init.
THEOREM PmmFreeAllRestoresBoot == Spec => []FreeAllRestoresBoot
<1>1. IInv => FreeAllRestoresBoot
  <2> SUFFICES ASSUME IInv, pmm.mapped, held = {}
               PROVE  pmm = PmmInit(memmap)
    BY DEF FreeAllRestoresBoot
  <2>1. /\ memmap \in Memmaps /\ WellFormedMemmap(memmap)
        /\ pmm \in [total : Nat, used : SUBSET Nat, free : Nat, mapped : BOOLEAN]
    BY MemmapAssumption DEF IInv, TypeOK
  <2>2. phase # "off"
    BY DEF IInv, PmmOff
  <2>3. BitmapHosts(memmap) # {} /\ pmm.total = TotalPages(memmap)
    BY <2>2 DEF IInv
  <2>4. pmm.used = Reserved(memmap)
    BY DEF IInv, Inv, Conservation
  <2>5. pmm.free = PmmInit(memmap).free
    BY <2>1, <2>3, <2>4, BootCount DEF IInv, Inv, FreeCountExact
  <2>6. PmmInit(memmap) = [total |-> TotalPages(memmap), used |-> Reserved(memmap),
                           free |-> PmmInit(memmap).free, mapped |-> TRUE]
    BY <2>3 DEF PmmInit
  <2>7. QED
    BY <2>1, <2>3, <2>4, <2>5, <2>6
<1>2. QED
    BY <1>1, PmmInvariant, PTL

\* The bitmap fits the frames reserved for it (pmm.c:52 and 91-99).
THEOREM PmmBitmapFits == Spec => []BitmapFits
<1>1. IInv => BitmapFits
  <2> SUFFICES ASSUME IInv, pmm.mapped PROVE BitmapFits
    BY DEF BitmapFits
  <2>1. WellFormedMemmap(memmap)
    BY MemmapAssumption DEF IInv, TypeOK
  <2>2. phase # "off"
    BY DEF IInv, PmmOff
  <2>3. BitmapHosts(memmap) # {} /\ pmm.total = TotalPages(memmap)
    BY <2>2 DEF IInv
  <2>4. QED
    BY <2>1, <2>3, BitmapInHost DEF BitmapFits
<1>2. QED
    BY <1>1, PmmInvariant, PTL

-----------------------------------------------------------------------------
(* Refinement of FrameAllocator.                                             *)

\* There are no more frames than the largest address has.
LEMMA TotalBounded ==
    ASSUME NEW mm, WellFormedMemmap(mm)
    PROVE  TotalPages(mm) <= MaxPhys \div PageSize
<1>1. /\ Highest(mm) \in Nat
      /\ Highest(mm) <= MaxPhys
    BY HighestBounds, PageAssumption
<1>2. Highest(mm) \div PageSize <= MaxPhys \div PageSize
  <2> DEFINE q == Highest(mm) \div PageSize
             m == MaxPhys \div PageSize
  <2>1. q \in Nat /\ m \in Nat /\ PageSize * q < PageSize * (m + 1)
    BY <1>1, PageQuotient, PageAssumption
  <2> HIDE DEF q, m
  <2>2. q < m + 1
    BY <2>1, PageAssumption
  <2>3. QED
    BY <2>1, <2>2 DEF q, m
<1>3. QED
    BY <1>2 DEF TotalPages

\* What can be given out are frames.
LEMMA PoolInFrames ==
    ASSUME IInv
    PROVE  Pool \subseteq FirstFrame .. MaxPhys \div PageSize
<1>1. CASE phase = "off"
    BY <1>1 DEF Pool
<1>2. CASE phase # "off"
  <2>1. WellFormedMemmap(memmap) /\ pmm.total = TotalPages(memmap)
    BY <1>2, MemmapAssumption DEF IInv, TypeOK
  <2>2. /\ pmm.total <= MaxPhys \div PageSize
        /\ pmm.total \in Nat
        /\ MaxPhys \div PageSize \in Nat
    BY <2>1, TotalBounded, UsableBelowTotal, PageAssumption, PageQuotient
  <2>3. QED
    BY <1>2, <2>2, FirstFramePositive DEF Pool, Allocatable
<1>3. QED
    BY <1>1, <1>2

\* An allocation gives a frame of the pool or refuses.
LEMMA AllocRefines ==
    ASSUME IInv, AllocPage
    PROVE  Abstract!Refuse \/ \E f \in FirstFrame .. MaxPhys \div PageSize : Abstract!Give(f)
<1> DEFINE r == PmmAlloc(pmm)
<1>1. /\ phase = "up" /\ phase' = "up"
      /\ pmm' = r.pmm /\ ret' = r.frame
      /\ held' = held \cup ({r.frame} \ {NULL})
    BY DEF AllocPage
<1>2. pmm \in [total : Nat, used : SUBSET Nat, free : Nat, mapped : BOOLEAN]
    BY DEF IInv, TypeOK
<1>3. Pool = Allocatable(pmm) /\ Pool' = Allocatable(pmm')
    BY <1>1 DEF Pool, Allocatable
<1>4. CASE Allocatable(pmm) = {} /\ r.pmm = pmm /\ r.frame = NULL
  <2>1. pmm' = pmm /\ held' = held /\ ret' = NULL
    BY <1>1, <1>4
  <2> HIDE DEF r
  <2>2. QED
    BY <1>3, <1>4, <2>1 DEF Abstract!Refuse
<1>5. CASE /\ r.frame \in Allocatable(pmm)
           /\ r.frame # NULL
           /\ r.pmm = [pmm EXCEPT !.used = @ \cup {r.frame}, !.free = @ - 1]
  <2> DEFINE f == r.frame
  <2> HIDE DEF r
  <2>1. held' = held \cup {f} /\ ret' = f
    BY <1>1, <1>5
  <2>2. pmm'.total = pmm.total /\ pmm'.used = pmm.used \cup {f}
    BY <1>1, <1>2, <1>5
  <2>3. Allocatable(pmm') = Allocatable(pmm) \ {f}
    BY <2>2 DEF Allocatable
  <2>4. f \in Pool /\ f \in FirstFrame .. MaxPhys \div PageSize
    BY <1>3, <1>5, PoolInFrames
  <2>5. Abstract!Give(f)
    BY <1>3, <2>1, <2>3, <2>4 DEF Abstract!Give
  <2>6. QED
    BY <2>4, <2>5
<1>6. QED
    BY <1>2, <1>4, <1>5, AllocResult

\* A free takes a frame back or changes nothing.
LEMMA FreeRefines ==
    ASSUME IInv, NEW phys \in 0..MaxPhys, FreePage(phys)
    PROVE  \/ UNCHANGED <<Pool, held, ret>>
           \/ \E f \in FirstFrame .. MaxPhys \div PageSize : Abstract!TakeBack(f)
<1> DEFINE f == phys \div PageSize
<1>1. /\ phase = "up" /\ phase' = "up" /\ ret' = ret
      /\ pmm.mapped
      /\ f \notin Reserved(memmap)
      /\ pmm' = PmmFree(pmm, phys)
      /\ held' = held \ {f}
    BY DEF FreePage
<1>2. /\ pmm \in [total : Nat, used : SUBSET Nat, free : Nat, mapped : BOOLEAN]
      /\ Conservation /\ HeldAreUsable
    BY DEF IInv, TypeOK, Inv
<1>3. Pool = Allocatable(pmm) /\ Pool' = Allocatable(pmm')
    BY <1>1 DEF Pool, Allocatable
<1>4. f \in held <=> f \in pmm.used
    BY <1>1, <1>2 DEF Conservation
<1>5. CASE f \in held
  <2>1. f \in FirstFrame .. pmm.total - 1
    BY <1>2, <1>5 DEF HeldAreUsable
  <2>2. pmm' = [pmm EXCEPT !.used = @ \ {f}, !.free = @ + 1]
    BY <1>1, <1>2, <1>4, <1>5, <2>1, FirstFramePositive DEF PmmFree
  <2> HIDE DEF f
  <2>3. pmm'.total = pmm.total /\ pmm'.used = pmm.used \ {f}
    BY <1>2, <2>2
  <2>4. Allocatable(pmm') = Allocatable(pmm) \cup {f}
    BY <2>1, <2>3 DEF Allocatable
  <2>5. pmm.total <= MaxPhys \div PageSize /\ MaxPhys \div PageSize \in Nat
    <3>1. WellFormedMemmap(memmap) /\ pmm.total = TotalPages(memmap)
      BY <1>1, MemmapAssumption DEF IInv, TypeOK
    <3>2. QED
      BY <3>1, TotalBounded, PageAssumption, PageQuotient
  <2>6. f \in FirstFrame .. MaxPhys \div PageSize
    BY <1>2, <2>1, <2>5, FirstFramePositive
  <2>7. Abstract!TakeBack(f)
    BY <1>1, <1>3, <1>5, <2>4 DEF Abstract!TakeBack
  <2>8. QED
    BY <2>6, <2>7
<1>6. CASE f \notin held
  <2>1. pmm' = pmm /\ held' = held
    BY <1>1, <1>4, <1>6 DEF PmmFree
  <2>2. QED
    BY <1>1, <1>3, <2>1
<1>7. QED
    BY <1>5, <1>6

\* pmm.c implements the abstract frame allocator: it hands out only frames of
\* the pool, one owner at a time, and answers NULL only when the pool is empty.
THEOREM PmmRefinesFrameAllocator == Spec => ImplementsFrameAllocator
<1>1. Init => Abstract!Init
    BY DEF Init, Abstract!Init, Pool
<1>2. ASSUME IInv, IInv', [Next]_vars
      PROVE  [Abstract!Next]_(Abstract!vars)
  <2>1. CASE Boot
    <3>1. Pool = {} /\ held = {} /\ held' = held /\ ret' = ret
      BY <1>2, <2>1 DEF Boot, Pool, IInv
    <3>2. Pool' \subseteq FirstFrame .. MaxPhys \div PageSize
      <4>1. phase' # "off" /\ pmm'.total = TotalPages(memmap') /\ memmap' \in Memmaps
        BY <1>2, <2>1 DEF Boot, IInv, TypeOK
      <4>2. /\ pmm'.total <= MaxPhys \div PageSize
            /\ pmm'.total \in Nat
            /\ MaxPhys \div PageSize \in Nat
        BY <4>1, MemmapAssumption, TotalBounded, UsableBelowTotal, PageAssumption,
           PageQuotient
      <4>3. QED
        BY <4>1, <4>2, FirstFramePositive DEF Pool, Allocatable
    <3>3. Abstract!Open
      BY <3>1, <3>2 DEF Abstract!Open
    <3>4. QED
      BY <3>3 DEF Abstract!Next
  <2>2. CASE AllocPage
    BY <1>2, <2>2, AllocRefines DEF Abstract!Next
  <2>3. CASE AllocFault
    BY <2>3 DEF AllocFault, Pool, Abstract!vars
  <2>4. ASSUME NEW phys \in 0..MaxPhys, FreePage(phys)
        PROVE  [Abstract!Next]_(Abstract!vars)
    BY <1>2, <2>4, FreeRefines DEF Abstract!Next, Abstract!vars
  <2>5. CASE UNCHANGED vars
    BY <2>5 DEF vars, Pool, Allocatable, Abstract!vars
  <2>6. QED
    BY <1>2, <2>1, <2>2, <2>3, <2>4, <2>5 DEF Next
<1>3. QED
    BY <1>1, <1>2, PmmInvariant, PTL DEF Spec, ImplementsFrameAllocator, Abstract!Spec
=============================================================================
