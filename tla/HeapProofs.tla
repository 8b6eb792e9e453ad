------------------------------ MODULE HeapProofs ------------------------------
(* What holds of the heap for every page and header size, every memory map   *)
(* and every sequence of requests, and that it implements MemoryPool: Heap's *)
(* actions put together from the lemmas of HeapOpsProofs.                    *)
EXTENDS Heap, HeapOpsProofs

-----------------------------------------------------------------------------
(* The invariant.                                                            *)

\* l tells, for the start of each region, the size it was asked at.
Holds(l, regions) ==
    /\ DOMAIN l = {g.start : g \in regions}
    /\ \A g \in regions : /\ l[g.start] \in Nat
                          /\ l[g.start] <= SizeMod - Word => l[g.start] <= g.size

\* The heap is well formed and owns frames below all that are left; what it
\* owns and what is left is what boot left; callers hold exactly its regions.
IInv ==
    /\ memmap \in Memmaps
    /\ HeapFine(heap, pmm, owned)
    /\ owned \cup Allocatable(pmm) = Allocatable(PmmAfter(memmap, VmmFrames))
    /\ Holds(live, Regions(heap.blocks))

\* Boot leaves the invariant true.
LEMMA InitIInv == Init => IInv
<1> SUFFICES ASSUME Init PROVE IInv
    OBVIOUS
<1>1. memmap \in Memmaps /\ pmm = PmmAfter(memmap, VmmFrames) /\ heap = HeapOff
      /\ live = <<>> /\ owned = {}
    BY DEF Init
<1>2. IsPmm(pmm)
    BY <1>1, HeapMachineAssumption, AfterBootIs
<1>3. HeapFine(heap, pmm, owned) /\ Regions(heap.blocks) = {}
    BY <1>1, <1>2, HeapOffFine
<1>4. Holds(live, Regions(heap.blocks))
    BY <1>1, <1>3 DEF Holds
<1>5. QED
    BY <1>1, <1>3, <1>4 DEF IInv

\* What live becomes agrees with what the regions become.
LEMMA HandedHolds ==
    ASSUME NEW R, NEW S, Holds(live, R), NEW lost, NEW won, NEW request \in Nat,
           {g.start : g \in S} = ({g.start : g \in R} \ {lost}) \cup ({won} \ {NULL}),
           \A g \in S : g.start = won =>
                           (request <= SizeMod - Word => request <= g.size),
           \A g \in S : g.start # won => g \in R
    PROVE  Holds(Handed(lost, won, request), S)
<1> DEFINE l == Handed(lost, won, request)
           D == (DOMAIN live \ {lost}) \cup ({won} \ {NULL})
<1>1. l = [q \in D |-> IF q = won THEN request ELSE live[q]]
    BY DEF Handed
<1> HIDE DEF l
<1>2. D = {g.start : g \in S}
    BY DEF Holds
<1> HIDE DEF D
<1>3. DOMAIN l = {g.start : g \in S}
    BY <1>1, <1>2
<1>4. ASSUME NEW g \in S
      PROVE  /\ l[g.start] \in Nat
             /\ l[g.start] <= SizeMod - Word => l[g.start] <= g.size
  <2>1. l[g.start] = IF g.start = won THEN request ELSE live[g.start]
    BY <1>1, <1>2
  <2>2. CASE g.start = won
    BY <2>1, <2>2
  <2>3. CASE g.start # won
    BY <2>1, <2>3 DEF Holds
  <2>4. QED
    BY <2>2, <2>3
<1>5. QED
    BY <1>3, <1>4 DEF Holds, l

\* A call that served its request, or refused it.
LEMMA ServedHolds ==
    ASSUME IInv, NEW r, NEW size \in Nat, Served(heap, pmm, owned, r, size),
           NEW request \in Nat, r.ptr # NULL /\ request <= SizeMod - Word => request <= size
    PROVE  Holds(Handed(NULL, r.ptr, request), Regions(r.heap.blocks))
<1> DEFINE R == Regions(heap.blocks)
           S == Regions(r.heap.blocks)
<1>1. Holds(live, R)
    BY DEF IInv
<1>2. \A g \in R : g.start # NULL
    BY StartsNotNull DEF IInv, HeapFine, ListFine
<1>3. CASE r.ptr = NULL
  <2>1. S = R
    BY <1>3 DEF Served
  <2> HIDE DEF R, S
  <2>2. {g.start : g \in S} = ({g.start : g \in R} \ {NULL}) \cup ({NULL} \ {NULL})
    BY <1>2, <2>1
  <2>3. Holds(Handed(NULL, NULL, request), S)
    BY <1>1, <1>2, <2>1, <2>2, HandedHolds
  <2>4. QED
    BY <1>3, <2>3 DEF S
<1>4. CASE r.ptr # NULL
  <2>1. PICK s \in Nat : s >= size /\ S = R \cup {[start |-> r.ptr, size |-> s]}
    BY <1>4 DEF Served, Given
  <2>2. \A g \in R : g.start # r.ptr
    BY <1>4 DEF Served, Given
  <2> DEFINE new == [start |-> r.ptr, size |-> s]
  <2>3. new.start = r.ptr /\ new.size = s /\ S = R \cup {new}
    BY <2>1
  <2> HIDE DEF R, S, new
  <2>4. {g.start : g \in S} = ({g.start : g \in R} \ {NULL}) \cup ({r.ptr} \ {NULL})
    BY <1>2, <1>4, <2>3
  <2>5. \A g \in S : g.start = r.ptr => g = new
    BY <2>2, <2>3
  <2>6. request <= SizeMod - Word => request <= s
    <3>1. SizeMod \in Nat /\ Word \in Nat
      BY HeapAssumption
    <3>2. QED
      BY <1>4, <2>1, <3>1
  <2>7. \A g \in S : g.start = r.ptr => (request <= SizeMod - Word => request <= g.size)
    BY <2>3, <2>5, <2>6
  <2>8. \A g \in S : g.start # r.ptr => g \in R
    BY <2>3
  <2>9. QED
    BY <1>1, <2>4, <2>7, <2>8, HandedHolds DEF S
<1>5. QED
    BY <1>3, <1>4

\* What the heap owns and what is left stays what boot left.
LEMMA FramesKept ==
    ASSUME IInv, NEW q, Grew(pmm, q)
    PROVE  (owned \cup (q.used \ pmm.used)) \cup Allocatable(q)
             = Allocatable(PmmAfter(memmap, VmmFrames))
BY DEF IInv, Grew

\* From the heap and the hands of the callers to the whole invariant.
LEMMA ReturnsIInv ==
    ASSUME IInv, NEW r, Returns(r),
           HeapFine(r.heap, r.pmm, owned \cup (r.pmm.used \ pmm.used)),
           Grew(pmm, r.pmm),
           Holds(live', Regions(r.heap.blocks))
    PROVE  IInv'
<1>1. heap' = r.heap /\ pmm' = r.pmm /\ memmap' = memmap
      /\ owned' = owned \cup (r.pmm.used \ pmm.used)
    BY DEF Returns
<1>2. memmap' \in Memmaps
    BY <1>1 DEF IInv
<1>3. owned' \cup Allocatable(pmm') = Allocatable(PmmAfter(memmap', VmmFrames))
    BY <1>1, FramesKept
<1>4. HeapFine(heap', pmm', owned') /\ Holds(live', Regions(heap'.blocks))
    BY <1>1
<1>5. QED
    BY <1>2, <1>3, <1>4 DEF IInv

\* kmalloc keeps it.
LEMMA MallocIInv ==
    ASSUME IInv, NEW request \in Requests, Malloc(request)
    PROVE  IInv'
<1> DEFINE r == Kmalloc(heap, pmm, request)
<1>1. request \in 0 .. SizeMod - 1 /\ request \in Nat
    BY HeapMachineAssumption, HeapAssumption
<1>2. Served(heap, pmm, owned, r, RoundUp(request))
    BY <1>1, KmallocFine DEF IInv
<1>3. Returns(r) /\ live' = Handed(NULL, r.ptr, request)
    BY DEF Malloc
<1> HIDE DEF r
<1>4. RoundUp(request) \in Nat /\ (request <= SizeMod - Word => request <= RoundUp(request))
    BY <1>1, RoundUpCovers
<1>5. Holds(live', Regions(r.heap.blocks))
    BY <1>1, <1>2, <1>3, <1>4, ServedHolds
<1>6. QED
    BY <1>2, <1>3, <1>5, ReturnsIInv DEF Served

\* kcalloc keeps it.
LEMMA CallocIInv ==
    ASSUME IInv, NEW a \in Arrays, Calloc(a[1], a[2])
    PROVE  IInv'
<1> DEFINE num == a[1]
           size == a[2]
           r == Kcalloc(heap, pmm, num, size)
           prod == num * size
           total == prod % SizeMod
<1>1. /\ num \in 0 .. SizeMod - 1 /\ size \in 0 .. SizeMod - 1
      /\ SizeMod \in Nat \ {0}
    BY HeapMachineAssumption, HeapAssumption
<1>2. prod \in Nat
    BY <1>1
<1>3. Served(heap, pmm, owned, r, RoundUp(total)) /\ (r.ptr # NULL => prod \in 0 .. SizeMod - 1)
  <2>1. HeapFine(heap, pmm, owned)
    BY DEF IInv
  <2> HIDE DEF num, size
  <2>2. QED
    BY <1>1, <2>1, KcallocFine
<1>4. Returns(r) /\ live' = Handed(NULL, r.ptr, prod)
    BY DEF Calloc
<1> HIDE DEF r, prod
<1>5. total \in 0 .. SizeMod - 1 /\ (prod \in 0 .. SizeMod - 1 => total = prod)
    BY <1>1, <1>2
<1> HIDE DEF total
<1>6. RoundUp(total) \in Nat /\ (total <= SizeMod - Word => total <= RoundUp(total))
    BY <1>5, RoundUpCovers
<1>7. r.ptr # NULL /\ prod <= SizeMod - Word => prod <= RoundUp(total)
    BY <1>3, <1>5, <1>6
<1>8. Holds(live', Regions(r.heap.blocks))
    BY <1>2, <1>3, <1>4, <1>6, <1>7, ServedHolds
<1>9. QED
    BY <1>3, <1>4, <1>8, ReturnsIInv DEF Served

\* kfree keeps it.
LEMMA FreeIInv ==
    ASSUME IInv, NEW ptr, Free(ptr)
    PROVE  IInv'
<1> DEFINE g == Kfree(heap, ptr)
           r == Answer(g, pmm, NULL)
           R == Regions(heap.blocks)
           S == Regions(g.blocks)
<1>1. Returns(r) /\ live' = Handed(ptr, NULL, 0)
    BY DEF Free
<1>2. HeapFine(g, pmm, owned) /\ S = {x \in R : x.start # ptr}
    BY KfreeFine DEF IInv
<1> HIDE DEF g
<1>3. r.heap = g /\ r.pmm = pmm
    BY DEF Answer
<1>4. \A x \in R : x.start # NULL
    BY StartsNotNull DEF IInv, HeapFine, ListFine
<1>5. Holds(live', S)
  <2>1. Holds(live, R)
    BY DEF IInv
  <2> HIDE DEF R, S
  <2>2. {x.start : x \in S} = ({x.start : x \in R} \ {ptr}) \cup ({NULL} \ {NULL})
    BY <1>2
  <2>3. \A x \in S : x.start # NULL /\ x \in R
    BY <1>2, <1>4
  <2>4. Holds(Handed(ptr, NULL, 0), S)
    BY <2>1, <2>2, <2>3, HandedHolds
  <2>5. QED
    BY <1>1, <2>4
<1>6. owned \cup (pmm.used \ pmm.used) = owned /\ Grew(pmm, pmm)
    BY DEF IInv, HeapFine, Grew
<1> HIDE DEF r
<1>7. /\ HeapFine(r.heap, r.pmm, owned \cup (r.pmm.used \ pmm.used))
      /\ Grew(pmm, r.pmm)
      /\ Holds(live', Regions(r.heap.blocks))
    BY <1>2, <1>3, <1>5, <1>6
<1>8. QED
    BY <1>1, <1>7, ReturnsIInv

\* A second kfree of a block keeps it, and changes no region.
LEMMA FreeAgainIInv ==
    ASSUME IInv, NEW ptr, FreeAgain(ptr), \A x \in Regions(heap.blocks) : x.start # ptr
    PROVE  IInv' /\ Regions(heap'.blocks) = Regions(heap.blocks)
<1> DEFINE g == Kfree(heap, ptr)
           r == Answer(g, pmm, NULL)
<1>1. Returns(r) /\ live' = live
    BY DEF FreeAgain
<1>2. HeapFine(g, pmm, owned) /\ Regions(g.blocks) = {x \in Regions(heap.blocks) : x.start # ptr}
    BY KfreeFine DEF IInv
<1> HIDE DEF g
<1>3. Regions(g.blocks) = Regions(heap.blocks)
    BY <1>2
<1>4. r.heap = g /\ r.pmm = pmm
    BY DEF Answer
<1>5. owned \cup (pmm.used \ pmm.used) = owned /\ Grew(pmm, pmm)
    BY DEF IInv, HeapFine, Grew
<1>6. Holds(live', Regions(g.blocks))
    BY <1>1, <1>3 DEF IInv
<1> HIDE DEF r
<1>7. /\ HeapFine(r.heap, r.pmm, owned \cup (r.pmm.used \ pmm.used))
      /\ Grew(pmm, r.pmm)
      /\ Holds(live', Regions(r.heap.blocks))
    BY <1>2, <1>4, <1>5, <1>6
<1>8. IInv'
    BY <1>1, <1>7, ReturnsIInv
<1>9. heap' = g
    BY <1>1, <1>4 DEF Returns
<1>10. QED
    BY <1>3, <1>8, <1>9

\* The pointers FreeAgain is given are those of no region.
LEMMA FreeAgainPointers ==
    ASSUME IInv
    PROVE  /\ \A x \in Regions(heap.blocks) : x.start # NULL
           /\ \A i \in DOMAIN heap.blocks : ~heap.blocks[i].used =>
                 \A x \in Regions(heap.blocks) : x.start # PtrOf(heap.blocks[i])
<1> DEFINE b == heap.blocks
<1>1. b \in Seq(Block) /\ Ordered(b)
    BY DEF IInv, HeapFine, ListFine
<1>2. ASSUME NEW i \in DOMAIN b, ~b[i].used, NEW x \in Regions(b)
      PROVE  x.start # PtrOf(b[i])
  <2>1. PICK k \in UsedIn(b) : x = [start |-> PtrOf(b[k]), size |-> b[k].size]
    BY DEF Regions
  <2>2. k \in DOMAIN b /\ b[k].used
    BY DEF UsedIn
  <2>3. PtrOf(b[k]) # PtrOf(b[i])
    BY <1>1, <1>2, <2>2, PointersDiffer
  <2>4. QED
    BY <2>1, <2>3
<1>3. \A x \in Regions(b) : x.start # NULL
    BY <1>1, StartsNotNull
<1>4. QED
    BY <1>2, <1>3

\* krealloc keeps it.
LEMMA ReallocIInv ==
    ASSUME IInv, NEW ptr \in DOMAIN live \cup {NULL}, NEW request \in Requests,
           Realloc(ptr, request)
    PROVE  IInv'
<1> DEFINE b == heap.blocks
           R == Regions(b)
           r == Krealloc(heap, pmm, ptr, request)
           lost == IF r.ptr = NULL /\ request # 0 THEN NULL ELSE ptr
           c == r.heap.blocks
           S == Regions(c)
<1>1. /\ HeapFine(heap, pmm, owned) /\ Holds(live, R) /\ ListFine(b) /\ b \in Seq(Block)
    BY DEF IInv, HeapFine, ListFine
<1>2. request \in 0 .. SizeMod - 1 /\ request \in Nat
    BY HeapMachineAssumption, HeapAssumption
<1>3. RoundUp(request) >= request /\ Returns(r) /\ live' = Handed(lost, r.ptr, request)
    BY DEF Realloc
<1>4. CASE ptr = NULL
  <2>1. r = Kmalloc(heap, pmm, request) /\ lost = NULL
    BY <1>4 DEF Krealloc
  <2> HIDE DEF r, lost
  <2>2. Served(heap, pmm, owned, r, RoundUp(request))
    BY <1>1, <1>2, <2>1, KmallocFine
  <2>3. RoundUp(request) \in Nat /\ request <= RoundUp(request)
    BY <1>2, <1>3, RoundUpCovers
  <2>4. Holds(live', S)
    BY <1>2, <1>3, <2>1, <2>2, <2>3, ServedHolds
  <2>5. QED
    BY <1>3, <2>2, <2>4, ReturnsIInv DEF Served
<1>5. CASE ptr # NULL
  <2>1. PICK old \in R : old.start = ptr
    BY <1>1, <1>5 DEF Holds
  <2>2. /\ HeapFine(r.heap, r.pmm, owned \cup (r.pmm.used \ pmm.used))
        /\ Grew(pmm, r.pmm)
        /\ \/ request = 0 /\ r.ptr = NULL /\ S = R \ {old}
           \/ request # 0 /\ r.ptr = NULL /\ S = R
           \/ request # 0 /\ r.ptr = ptr /\ old.size >= request /\ S = R
           \/ request # 0 /\ MovedRegion(c, b, ptr, r.ptr, request)
    <3> DEFINE q == Krealloc(heap, pmm, old.start, request)
    <3>1. /\ HeapFine(q.heap, q.pmm, owned \cup (q.pmm.used \ pmm.used))
          /\ Grew(pmm, q.pmm)
          /\ \/ request = 0 /\ q.ptr = NULL /\ Regions(q.heap.blocks) = R \ {old}
             \/ request # 0 /\ q.ptr = NULL /\ Regions(q.heap.blocks) = R
             \/ /\ request # 0 /\ q.ptr = old.start /\ old.size >= request
                /\ Regions(q.heap.blocks) = R
             \/ request # 0 /\ MovedRegion(q.heap.blocks, b, old.start, q.ptr, request)
      BY <1>1, <1>2, <1>3, KreallocFine
    <3>2. r = q
      BY <2>1
    <3> HIDE DEF q, r
    <3>3. QED
      BY <2>1, <3>1, <3>2
  <2>3. /\ \A x \in R : x.start = ptr => x = old
        /\ \A x \in R : x.start # NULL /\ x.start \in Nat
        /\ old.size \in Nat
    BY <1>1, <2>1, RegionsDiffer, StartsNotNull
  <2>4. lost = IF r.ptr = NULL /\ request # 0 THEN NULL ELSE ptr
    OBVIOUS
  <2> HIDE DEF r, lost
  <2>5. CASE request = 0 /\ r.ptr = NULL /\ S = R \ {old}
    <3>1. lost = ptr
      BY <2>4, <2>5
    <3> HIDE DEF R, S
    <3>2. {g.start : g \in S} = ({g.start : g \in R} \ {ptr}) \cup ({NULL} \ {NULL})
      BY <2>1, <2>3, <2>5
    <3>3. \A g \in S : g.start # NULL /\ g \in R
      BY <2>3, <2>5
    <3>4. Holds(Handed(ptr, NULL, request), S)
      BY <1>1, <1>2, <3>2, <3>3, HandedHolds
    <3>5. QED
      BY <1>3, <2>2, <2>5, <3>1, <3>4, ReturnsIInv DEF S
  <2>6. CASE request # 0 /\ r.ptr = NULL /\ S = R
    <3>1. lost = NULL
      BY <2>4, <2>6
    <3> HIDE DEF R, S
    <3>2. {g.start : g \in S} = ({g.start : g \in R} \ {NULL}) \cup ({NULL} \ {NULL})
      BY <2>3, <2>6
    <3>3. Holds(Handed(NULL, NULL, request), S)
      BY <1>1, <1>2, <2>3, <2>6, <3>2, HandedHolds
    <3>4. QED
      BY <1>3, <2>2, <2>6, <3>1, <3>3, ReturnsIInv DEF S
  <2>7. CASE request # 0 /\ r.ptr = ptr /\ old.size >= request /\ S = R
    <3>1. lost = ptr
      BY <1>5, <2>4, <2>7
    <3> HIDE DEF R, S
    <3>2. {g.start : g \in S} = ({g.start : g \in R} \ {ptr}) \cup ({ptr} \ {NULL})
      BY <1>5, <2>1, <2>7
    <3>3. \A g \in S : g.start = ptr => (request <= SizeMod - Word => request <= g.size)
      BY <1>2, <2>3, <2>7
    <3>4. \A g \in S : g.start # ptr => g \in R
      BY <2>7
    <3>5. Holds(Handed(ptr, ptr, request), S)
      BY <1>1, <1>2, <3>2, <3>3, <3>4, HandedHolds
    <3>6. QED
      BY <1>3, <2>2, <2>7, <3>1, <3>5, ReturnsIInv DEF S
  <2>8. CASE request # 0 /\ MovedRegion(c, b, ptr, r.ptr, request)
    <3> DEFINE won == r.ptr
    <3>1. /\ won \in Nat \ {0} /\ won # ptr /\ \A g \in R : g.start # won
      BY <2>8 DEF MovedRegion
    <3>2. PICK s \in Nat, o \in R : /\ s >= request /\ o.start = ptr
                                    /\ S = (R \cup {[start |-> won, size |-> s]}) \ {o}
      BY <2>8 DEF MovedRegion
    <3> DEFINE new == [start |-> won, size |-> s]
    <3>3. new.start = won /\ new.size = s /\ o = old /\ S = (R \cup {new}) \ {old}
      BY <2>3, <3>2
    <3>4. lost = ptr /\ won # NULL
      BY <2>4, <3>1 DEF NULL
    <3> HIDE DEF R, S, won, new
    <3>5. {g.start : g \in S} = ({g.start : g \in R} \ {ptr}) \cup ({won} \ {NULL})
      <4>1. {g.start : g \in (R \cup {new}) \ {old}} = ({g.start : g \in R} \ {ptr}) \cup {won}
        BY <2>1, <2>3, <3>1, <3>3
      <4>2. QED
        BY <3>3, <3>4, <4>1
    <3>6. \A g \in S : g.start = won => (request <= SizeMod - Word => request <= g.size)
      BY <3>1, <3>2, <3>3
    <3>7. \A g \in S : g.start # won => g \in R
      BY <3>3
    <3>8. Holds(Handed(ptr, won, request), S)
      BY <1>1, <1>2, <3>5, <3>6, <3>7, HandedHolds
    <3>9. QED
      BY <1>3, <2>2, <3>4, <3>8, ReturnsIInv DEF S, won
  <2>9. QED
    BY <2>2, <2>5, <2>6, <2>7, <2>8
<1>6. QED
    BY <1>4, <1>5

\* Every step keeps it.
LEMMA NextIInv == IInv /\ [Next]_vars => IInv'
<1> SUFFICES ASSUME IInv, [Next]_vars PROVE IInv'
    OBVIOUS
<1>1. CASE UNCHANGED vars
    BY <1>1 DEF IInv, vars
<1>2. ASSUME NEW request \in Requests, Malloc(request) PROVE IInv'
    BY <1>2, MallocIInv
<1>3. ASSUME NEW a \in Arrays, Calloc(a[1], a[2]) PROVE IInv'
    BY <1>3, CallocIInv
<1>4. ASSUME NEW ptr \in DOMAIN live \cup {NULL}, NEW request \in Requests,
             Realloc(ptr, request)
      PROVE  IInv'
    BY <1>4, ReallocIInv
<1>5. ASSUME NEW ptr \in DOMAIN live, Free(ptr) PROVE IInv'
    BY <1>5, FreeIInv
<1>6. ASSUME NEW i \in DOMAIN heap.blocks, ~heap.blocks[i].used,
             FreeAgain(PtrOf(heap.blocks[i]))
      PROVE  IInv'
    BY <1>6, FreeAgainIInv, FreeAgainPointers
<1>7. ASSUME FreeAgain(NULL) PROVE IInv'
    BY <1>7, FreeAgainIInv, FreeAgainPointers
<1>8. QED
    BY <1>1, <1>2, <1>3, <1>4, <1>5, <1>6, <1>7 DEF Next

\* The invariant holds in every reachable state.
THEOREM HeapInvariant == Spec => []IInv
<1>1. Init => IInv
    BY InitIInv
<1>2. IInv /\ [Next]_vars => IInv'
    BY NextIInv
<1>3. QED
    BY <1>1, <1>2, PTL DEF Spec

-----------------------------------------------------------------------------
(* What the invariant says of every reachable state.                         *)

\* Every header, counter and pointer keeps its type, and the size of every
\* block stays a multiple of Word through the cuts and merges of heap.c.
THEOREM HeapTypeCorrect == Spec => []TypeOK
<1>1. ASSUME IInv PROVE TypeOK
  <2>1. heap \in HeapRecord /\ Whole(heap.blocks) /\ heap.blocks \in Seq(Block)
    BY <1>1 DEF IInv, HeapFine, ListFine
  <2>2. owned \subseteq Nat
    BY <1>1, OwnNatural DEF IInv
  <2>3. DOMAIN live \subseteq Nat
    BY <1>1, <2>1, StartsNotNull DEF IInv, Holds
  <2>4. QED
    BY <2>1, <2>2, <2>3 DEF TypeOK, HeapRecord, Whole
<1>2. IInv => TypeOK
    BY <1>1
<1>3. QED
    BY <1>2, HeapInvariant, PTL

\* heap_coalesce leaves no two free neighbours, whatever calls came before.
THEOREM HeapFullyCoalesced == Spec => []FullyCoalesced
<1>1. IInv => FullyCoalesced
    BY DEF IInv, HeapFine, ListFine, Settled, FullyCoalesced
<1>2. QED
    BY <1>1, HeapInvariant, PTL

\* What the counters count, in the words of Accounting.
LEMMA SizesAre ==
    ASSUME NEW b \in Seq(Block)
    PROVE  /\ SizeOf(b, UsedIn(b)) = Weight(UsedSize, b)
           /\ Cardinality(UsedIn(b)) = Weight(UsedOne, b)
           /\ SizeOf(b, DOMAIN b) + Hdr * Len(b) = Weight(Headed, b)
           /\ SizeOf(b, DOMAIN b \ UsedIn(b)) + SizeOf(b, UsedIn(b)) = SizeOf(b, DOMAIN b)
           /\ SizeOf(b, DOMAIN b \ UsedIn(b)) \in Nat /\ SizeOf(b, UsedIn(b)) \in Nat
<1> DEFINE n == Len(b)
           sizes(S) == [k \in DOMAIN b |-> IF k \in S THEN b[k].size ELSE 0]
           headers == [k \in DOMAIN b |-> Hdr]
           A == sizes(DOMAIN b)
           U == sizes(UsedIn(b))
           F == sizes(DOMAIN b \ UsedIn(b))
<1>1. /\ n \in Nat /\ DOMAIN b = 1 .. n /\ Hdr \in Nat
      /\ \A k \in 1 .. n : b[k] \in Block /\ b[k].size \in Nat /\ b[k].used \in BOOLEAN
    BY BlockTyped, HeapAssumption
<1>2. \A S : SizeOf(b, S) = Total(sizes(S), n)
    BY DEF SizeOf
<1>3. U = Weights(UsedSize, b)
  <2>1. \A k \in DOMAIN b : (IF k \in UsedIn(b) THEN b[k].size ELSE 0) = UsedSize[b[k]]
    BY <1>1, WeightsTyped DEF UsedIn
  <2>2. QED
    BY <2>1 DEF Weights
<1>4. {k \in 1 .. n : Weights(UsedOne, b)[k] = 1} = UsedIn(b)
  <2>1. \A k \in 1 .. n : Weights(UsedOne, b)[k] = IF b[k].used THEN 1 ELSE 0
    BY <1>1, WeightsTyped DEF Weights
  <2>2. QED
    BY <1>1, <2>1 DEF UsedIn
<1>5. Cardinality(UsedIn(b)) = Weight(UsedOne, b)
  <2> DEFINE f == Weights(UsedOne, b)
  <2>1. \A k \in 1 .. n : f[k] \in {0, 1}
    BY <1>1, WeightsTyped DEF Weights
  <2> HIDE DEF f
  <2>2. Cardinality({k \in 1 .. n : f[k] = 1}) = Total(f, n)
    BY <1>1, <2>1, TotalCounts
  <2>3. QED
    BY <1>4, <2>2 DEF Weight, f
<1>6. \A k \in 1 .. n : /\ A[k] = b[k].size /\ headers[k] = Hdr
                        /\ U[k] = IF k \in UsedIn(b) THEN b[k].size ELSE 0
                        /\ F[k] = IF k \in UsedIn(b) THEN 0 ELSE b[k].size
                        /\ Weights(Headed, b)[k] = Hdr + b[k].size
    BY <1>1, WeightsTyped DEF Weights
<1> DEFINE H == Weights(Headed, b)
<1> HIDE DEF A, U, F, H, headers, n
<1>7. Total(H, n) = Total(A, n) + Total(headers, n)
  <2>1. \A k \in 1 .. n : A[k] \in Nat /\ headers[k] \in Nat /\ H[k] = A[k] + headers[k]
    BY <1>1, <1>6, SMTT(30) DEF H
  <2>2. QED
    BY <1>1, <2>1, TotalOfSums
<1>8. Total(headers, n) = Hdr * n
    BY <1>1, <1>6, TotalConstant
<1>9. Total(A, n) = Total(F, n) + Total(U, n)
  <2>1. \A k \in 1 .. n : F[k] \in Nat /\ U[k] \in Nat /\ A[k] = F[k] + U[k]
    <3> SUFFICES ASSUME NEW k \in 1 .. n
                 PROVE  F[k] \in Nat /\ U[k] \in Nat /\ A[k] = F[k] + U[k]
        OBVIOUS
    <3>1. b[k].size \in Nat
      BY <1>1
    <3>2. CASE k \in UsedIn(b)
      BY <1>6, <3>1, <3>2
    <3>3. CASE k \notin UsedIn(b)
      BY <1>6, <3>1, <3>3
    <3>4. QED
      BY <3>2, <3>3
  <2>2. QED
    BY <1>1, <2>1, TotalOfSums
<1>10. Total(F, n) \in Nat /\ Total(U, n) \in Nat
  <2>1. \A k \in 1 .. n : F[k] \in Nat /\ U[k] \in Nat
    BY <1>1, <1>6
  <2>2. n \in 0 .. n
    BY <1>1
  <2>3. QED
    BY <1>1, <2>1, <2>2, TotalNatural
<1>11. /\ SizeOf(b, UsedIn(b)) = Total(U, n) /\ SizeOf(b, DOMAIN b) = Total(A, n)
       /\ SizeOf(b, DOMAIN b \ UsedIn(b)) = Total(F, n) /\ Weight(Headed, b) = Total(H, n)
       /\ Weight(UsedSize, b) = Total(U, n)
    BY <1>2, <1>3 DEF A, U, F, H, n, Weight
<1>12. QED
    BY <1>5, <1>7, <1>8, <1>9, <1>10, <1>11 DEF n

\* Not a byte of the heap's pages is outside its blocks, and as long as the heap is
\* smaller than 32 bits can count (4 GiB), what heap_get_stats prints comes from
\* counters that agree with the list; the pages do so always, modulo 2^32.
THEOREM HeapAccounting == Spec => []Accounting
<1>1. ASSUME IInv PROVE Accounting
  <2> DEFINE b == heap.blocks
             n == Len(b)
             u == Cardinality(UsedIn(b))
             P == heap.pages
             C == Cardinality(owned)
             F == SizeOf(b, DOMAIN b \ UsedIn(b))
             U == SizeOf(b, UsedIn(b))
             free == F + Hdr * (n - P)
             total == P * (PageSize - Hdr)
  <2>1. /\ heap \in HeapRecord /\ b \in Seq(Block) /\ Counted(heap, owned) /\ P \in Nat
    BY <1>1 DEF IInv, HeapFine, ListFine, HeapRecord
  <2>2. /\ n \in Nat /\ Hdr \in Nat /\ PageSize \in Nat /\ PageSize >= 1 /\ PageSize - Hdr \in Nat
        /\ CounterMod \in Nat
    BY <2>1, LenProperties, HeapAssumption, PageAssumption
  <2>3. /\ P = C % CounterMod
        /\ SizeOf(b, DOMAIN b) + Hdr * n = C * PageSize
        /\ F + U = SizeOf(b, DOMAIN b)
        /\ F \in Nat /\ U \in Nat
        /\ IsFiniteSet(owned)
    BY <2>1, SizesAre DEF Counted, Bytes
  <2>4. ASSUME C * PageSize < CounterMod
        PROVE  /\ heap.usedBytes = U /\ heap.usedBlocks = u
               /\ HeapStats(heap).usedBlocks = u
               /\ HeapStats(heap).freeBytes = IF free > 0 THEN free ELSE 0
    <3>1. heap.usedBytes = U /\ heap.usedBlocks = u
      BY <2>1, <2>4, SizesAre DEF Counted, Countable, Bytes
    <3>2. u \in Nat /\ u <= C * PageSize
      BY <2>1, SizesAre, UsedWeighLess DEF Counted, Bytes
    <3>3. C \in Nat
      BY <2>3, FS_CardinalityType
    <3> DEFINE y == Hdr * C   z == C * PageSize
    <3>4. /\ y \in Nat /\ z \in Nat /\ C <= z /\ C * (PageSize - Hdr) = z - y
          /\ C * (PageSize - Hdr) \in Nat
      BY <2>2, <3>3
    <3>5. C < CounterMod /\ u < CounterMod /\ z - y \in Nat /\ z - y < CounterMod
      <4>1. z < CounterMod /\ u <= z
        BY <2>4, <3>2
      <4> HIDE DEF y, z, u, C
      <4>2. QED
        BY <2>2, <3>2, <3>3, <3>4, <4>1
    <3>6. P = C /\ u % CounterMod = u /\ (z - y) % CounterMod = z - y
      <4> HIDE DEF y, z, u, C, P
      <4>1. P = C % CounterMod
        BY <2>3
      <4>2. QED
        BY <3>2, <3>3, <3>5, <4>1, CounterStays
    <3>7. total % CounterMod = z - y
      BY <3>4, <3>6
    <3>8. /\ HeapStats(heap).usedBlocks = u % CounterMod
          /\ HeapStats(heap).freeBytes
               = IF total % CounterMod > heap.usedBytes
                 THEN (total % CounterMod) - heap.usedBytes ELSE 0
      BY DEF HeapStats
    <3>9. (z - y) - U = free
      <4> DEFINE x == Hdr * n
      <4>1. x \in Nat /\ free = F + (x - y)
        BY <2>1, <2>2, <3>3, <3>6
      <4>2. F + U + x = z
        BY <2>3
      <4> HIDE DEF x, y, z, free, F, U
      <4>3. QED
        BY <2>3, <3>4, <4>1, <4>2
    <3>10. HeapStats(heap).freeBytes = IF free > 0 THEN free ELSE 0
      <4> DEFINE t == z - y
      <4>1. t \in Nat /\ U \in Nat /\ t - U = free
        BY <2>3, <3>5, <3>9
      <4>2. HeapStats(heap).freeBytes = IF t > U THEN t - U ELSE 0
        BY <3>1, <3>7, <3>8
      <4> HIDE DEF t, U, free
      <4>3. QED
        BY <4>1, <4>2
    <3>11. QED
      BY <3>1, <3>6, <3>8, <3>10
  <2>5. QED
    BY <2>3, <2>4 DEF Accounting
<1>2. IInv => Accounting
    BY <1>1
<1>3. QED
    BY <1>2, HeapInvariant, PTL

\* The used blocks are exactly what callers hold, each as large as asked:
\* kmalloc, kcalloc, krealloc and kfree neither lose nor share a block.
THEOREM HeapLiveExact == Spec => []LiveExact
<1>1. ASSUME IInv PROVE LiveExact
  <2> DEFINE b == heap.blocks
             p == [i \in UsedIn(b) |-> PtrOf(b[i])]
  <2>1. b \in Seq(Block) /\ Ordered(b) /\ Holds(live, Regions(b))
    BY <1>1 DEF IInv, HeapFine, ListFine
  <2>2. \A i \in UsedIn(b) : /\ i \in DOMAIN b /\ p[i] = PtrOf(b[i])
                             /\ [start |-> PtrOf(b[i]), size |-> b[i].size] \in Regions(b)
    BY DEF UsedIn, Regions
  <2>3. {p[i] : i \in UsedIn(b)} = {g.start : g \in Regions(b)}
    <3> DEFINE reg(x) == [start |-> PtrOf(x), size |-> x.size]
    <3>1. Regions(b) = {reg(b[i]) : i \in UsedIn(b)}
      BY DEF Regions
    <3>2. \A x : reg(x).start = PtrOf(x)
      OBVIOUS
    <3> HIDE DEF reg
    <3>3. \A g \in Regions(b) : \E i \in UsedIn(b) : g.start = p[i]
      BY <2>2, <3>1, <3>2
    <3>4. \A i \in UsedIn(b) : \E g \in Regions(b) : g.start = p[i]
      BY <2>2, <3>1, <3>2
    <3>5. QED
      BY <3>3, <3>4
  <2>4. \A i, j \in UsedIn(b) : p[i] = p[j] => i = j
    BY <2>1, <2>2, PointersDiffer
  <2>5. ASSUME NEW i \in UsedIn(b), live[p[i]] <= SizeMod - Word
        PROVE  b[i].size >= live[p[i]]
    <3> DEFINE g == [start |-> PtrOf(b[i]), size |-> b[i].size]
    <3>1. g \in Regions(b) /\ g.start = p[i] /\ g.size = b[i].size
      BY <2>2
    <3> HIDE DEF g
    <3>2. live[p[i]] \in Nat /\ live[p[i]] <= g.size
      BY <2>1, <2>5, <3>1 DEF Holds
    <3>3. b[i].size \in Nat
      BY <2>1, <2>2, BlockTyped
    <3>4. QED
      BY <3>1, <3>2, <3>3
  <2> HIDE DEF p
  <2>6. {p[i] : i \in UsedIn(b)} = DOMAIN live
    BY <2>1, <2>3 DEF Holds
  <2>7. QED
    BY <2>4, <2>5, <2>6 DEF LiveExact, p
<1>2. IInv => LiveExact
    BY <1>1
<1>3. QED
    BY <1>2, HeapInvariant, PTL

-----------------------------------------------------------------------------
(* Where the blocks lie.                                                     *)

\* No two blocks ever share a byte, on any memory map.
THEOREM HeapBlocksApart ==
    Spec => [](\A i, j \in DOMAIN heap.blocks :
                  i # j => Extent(heap.blocks[i]) \cap Extent(heap.blocks[j]) = {})
<1> DEFINE Apart == \A i, j \in DOMAIN heap.blocks :
                       i # j => Extent(heap.blocks[i]) \cap Extent(heap.blocks[j]) = {}
<1>1. IInv => Apart
    BY ExtentsApart DEF IInv, HeapFine, ListFine
<1>2. QED
    BY <1>1, HeapInvariant, PTL

\* Every block lies in frames the frame manager gave to the heap, headers
\* included, on a machine where no hole lies between the frames left at boot:
\* the one thing heap_coalesce takes for granted.
THEOREM HeapInsideOwnFrames ==
    ASSUME \A mm \in Memmaps : Contiguous(Allocatable(PmmAfter(mm, VmmFrames)))
    PROVE  Spec => []InsideOwnFrames
<1>1. ASSUME IInv PROVE InsideOwnFrames
  <2> DEFINE b == heap.blocks
             all == Allocatable(PmmAfter(memmap, VmmFrames))
  <2>1. b \in Seq(Block) /\ Ordered(b) /\ Bracketed(b, owned) /\ owned \subseteq Nat
    BY <1>1, OwnNatural DEF IInv, HeapFine, ListFine
  <2>2. /\ Contiguous(all) /\ owned \cup Allocatable(pmm) = all
        /\ \A f \in owned, g \in Allocatable(pmm) : f < g
    BY <1>1 DEF IInv, HeapFine, OwnLow
  <2>3. ASSUME NEW i \in DOMAIN b, NEW x \in Extent(b[i])
        PROVE  x \in UNION {FrameBytes(f) : f \in owned}
    <3>1. PICK f \in owned, g \in owned :
             f * PageSize <= b[i].addr /\ End(b[i]) <= g * PageSize + PageSize
      BY <2>1 DEF Bracketed
    <3>2. f \in Nat /\ g \in Nat /\ b[i].addr \in Nat /\ b[i].size \in Nat /\ Hdr \in Nat
      BY <2>1, BlockTyped, HeapAssumption
    <3>3. x \in Nat /\ b[i].addr <= x /\ x < End(b[i])
      BY <3>2 DEF Extent, End
    <3>4. f * PageSize <= x /\ x < g * PageSize + PageSize
      <4> DEFINE v == f * PageSize   w == g * PageSize + PageSize
      <4>1. v \in Nat /\ w \in Nat /\ End(b[i]) \in Nat /\ v <= b[i].addr /\ End(b[i]) <= w
        <5>1. v \in Nat /\ w \in Nat
          BY <3>2, PageAssumption
        <5>2. End(b[i]) \in Nat
          BY <2>1, BlockTyped
        <5>3. QED
          BY <3>1, <5>1, <5>2
      <4> HIDE DEF v, w
      <4>2. v <= x /\ x < w
        BY <3>2, <3>3, <4>1
      <4>3. QED
        BY <4>2 DEF v, w
    <3> DEFINE e == x \div PageSize
    <3>5. f <= e /\ e <= g /\ e \in Nat /\ x \in FrameBytes(e)
      BY <3>2, <3>3, <3>4, FrameBetween, FrameOf
    <3> HIDE DEF e
    <3>6. e \in all
      BY <2>2, <3>1, <3>5 DEF Contiguous
    <3>7. e \in Allocatable(pmm) => g < e
      BY <2>2
    <3>8. e \in owned
      BY <2>2, <3>2, <3>5, <3>6, <3>7
    <3>9. QED
      BY <3>5, <3>8
  <2>4. \A i, j \in DOMAIN b : i # j => Extent(b[i]) \cap Extent(b[j]) = {}
    BY <2>1, ExtentsApart
  <2>5. QED
    BY <2>3, <2>4 DEF InsideOwnFrames
<1>2. IInv => InsideOwnFrames
    BY <1>1
<1>3. QED
    BY <1>2, HeapInvariant, PTL

\* A request that fits a page is refused only when no frame is left: growing
\* the heap by one page and searching again always serves it.
THEOREM HeapRefusedOnlyWhenFull == Spec => RefusedOnlyWhenFull
<1> DEFINE Step == \A request \in Requests :
                      /\ Malloc(request)
                      /\ request # 0
                      /\ RoundUp(request) <= PageSize - Hdr
                      /\ live' = live
                      => Allocatable(pmm) = {}
<1>1. ASSUME IInv PROVE Step
  <2> SUFFICES ASSUME NEW request \in Requests, Malloc(request), request # 0,
                      RoundUp(request) <= PageSize - Hdr, live' = live
               PROVE  Allocatable(pmm) = {}
      OBVIOUS
  <2> DEFINE r == Kmalloc(heap, pmm, request)
             R == Regions(heap.blocks)
  <2>1. request \in 0 .. SizeMod - 1
    BY HeapMachineAssumption
  <2>2. /\ Served(heap, pmm, owned, r, RoundUp(request))
        /\ r.ptr = NULL /\ request # 0 /\ RoundUp(request) <= PageSize - Hdr
             => Allocatable(pmm) = {}
    BY <1>1, <2>1, KmallocFine DEF IInv
  <2>3. live' = Handed(NULL, r.ptr, request)
    BY DEF Malloc
  <2> HIDE DEF r
  <2>4. r.ptr # NULL => r.ptr \in DOMAIN live'
    BY <2>3 DEF Handed
  <2>5. r.ptr # NULL => \A g \in R : g.start # r.ptr
    BY <2>2 DEF Served, Given
  <2>6. DOMAIN live = {g.start : g \in R}
    BY <1>1 DEF IInv, Holds
  <2>7. r.ptr = NULL
    BY <2>4, <2>5, <2>6
  <2>8. QED
    BY <2>2, <2>7
<1>2. IInv => Step
    BY <1>1
<1> HIDE DEF Step
<1>3. IInv /\ [Next]_vars => [Step]_vars
    BY <1>2
<1>4. Spec => [][Step]_vars
    BY <1>3, HeapInvariant, PTL DEF Spec
<1>5. QED
    BY <1>4 DEF RefusedOnlyWhenFull, Step

-----------------------------------------------------------------------------
(* Refinement of MemoryPool.                                                 *)

\* What a step of the pool is, in terms of the heap's regions.
LEMMA PoolSteps ==
    LET R == Regions(heap.blocks)
        S == Regions(heap'.blocks)
    IN  /\ \A g \in S : /\ RegionBytes(g) \subseteq AllBytes
                        /\ \A x \in R : g.start # x.start
                        /\ \A x \in R : RegionBytes(g) \cap RegionBytes(x) = {}
                        /\ S = R \cup {g}
                        => Abstract!Next
        /\ \A g \in R : S = R \ {g} => Abstract!Next
        /\ \A g \in S, x \in R : /\ RegionBytes(g) \subseteq AllBytes
                                 /\ \A y \in R : g.start # y.start
                                 /\ \A y \in R : RegionBytes(g) \cap RegionBytes(y) = {}
                                 /\ x.size < g.size
                                 /\ S = (R \cup {g}) \ {x}
                                 => Abstract!Next
        /\ S = R => UNCHANGED R
<1> DEFINE R == Regions(heap.blocks)
           S == Regions(heap'.blocks)
<1>1. ASSUME NEW g \in S, RegionBytes(g) \subseteq AllBytes, \A x \in R : g.start # x.start,
             \A x \in R : RegionBytes(g) \cap RegionBytes(x) = {}
      PROVE  Abstract!Fresh(g)
    BY <1>1 DEF Abstract!Fresh, Abstract!Bytes, Regions, RegionBytes, AllBytes
<1>2. ASSUME NEW g \in S, Abstract!Fresh(g), S = R \cup {g}
      PROVE  Abstract!Give
    BY <1>2 DEF Abstract!Give, Regions
<1>3. ASSUME NEW g \in R, S = R \ {g}
      PROVE  Abstract!TakeBack
    BY <1>3 DEF Abstract!TakeBack, Regions
<1>4. ASSUME NEW g \in S, NEW x \in R, Abstract!Fresh(g), x.size < g.size,
             S = (R \cup {g}) \ {x}
      PROVE  Abstract!Move
    BY <1>4 DEF Abstract!Move, Regions
<1>5. S = R => UNCHANGED R
    OBVIOUS
<1>6. QED
    BY <1>1, <1>2, <1>3, <1>4, <1>5 DEF Abstract!Next

\* What every action of Heap does to the regions.
PoolStep == Abstract!Next \/ Regions(heap'.blocks) = Regions(heap.blocks)

\* A request served or refused is one of the pool.
LEMMA ServedStep ==
    ASSUME IInv, IInv', NEW r, NEW size, Served(heap, pmm, owned, r, size), heap' = r.heap
    PROVE  PoolStep
<1> DEFINE R == Regions(heap.blocks)
           S == Regions(heap'.blocks)
<1>1. CASE r.ptr = NULL
    BY <1>1 DEF Served, PoolStep
<1>2. CASE r.ptr # NULL
  <2>1. PICK s \in Nat : S = R \cup {[start |-> r.ptr, size |-> s]}
    BY <1>2 DEF Served, Given
  <2>2. \A x \in R : x.start # r.ptr
    BY <1>2 DEF Served, Given
  <2> DEFINE g == [start |-> r.ptr, size |-> s]
  <2>3. g \in S /\ g.start = r.ptr /\ S = R \cup {g}
    BY <2>1
  <2> HIDE DEF g
  <2>4. HeapFine(heap', pmm', owned') /\ ListFine(heap'.blocks)
    BY DEF IInv, HeapFine
  <2>5. RegionBytes(g) \subseteq AllBytes
    BY <2>3, <2>4, RegionInSpace
  <2>6. \A x \in R : g.start # x.start /\ g # x /\ x \in S
    BY <2>2, <2>3
  <2>7. \A x \in R : RegionBytes(g) \cap RegionBytes(x) = {}
    BY <2>3, <2>4, <2>6, RegionsApart
  <2>8. Abstract!Next
    BY <2>3, <2>5, <2>6, <2>7, PoolSteps
  <2>9. QED
    BY <2>8 DEF PoolStep
<1>3. QED
    BY <1>1, <1>2

\* A release is one of the pool.
LEMMA ReleasedStep ==
    ASSUME IInv, NEW ptr, heap' = Kfree(heap, ptr)
    PROVE  PoolStep
<1> DEFINE R == Regions(heap.blocks)
           S == Regions(heap'.blocks)
<1>1. ListFine(heap.blocks) /\ S = {x \in R : x.start # ptr}
  <2>1. HeapFine(heap, pmm, owned)
    BY DEF IInv
  <2>2. QED
    BY <2>1, KfreeFine DEF HeapFine
<1>2. CASE \E g \in R : g.start = ptr
  <2>1. PICK g \in R : g.start = ptr
    BY <1>2
  <2>2. S = R \ {g}
    BY <1>1, <2>1, RegionsDiffer
  <2>3. Abstract!Next
    BY <2>2, PoolSteps
  <2>4. QED
    BY <2>3 DEF PoolStep
<1>3. CASE ~ \E g \in R : g.start = ptr
  <2>1. S = R
    BY <1>1, <1>3
  <2>2. QED
    BY <2>1 DEF PoolStep
<1>4. QED
    BY <1>2, <1>3

\* A reallocation is one of the pool.
LEMMA ReallocStep ==
    ASSUME IInv, IInv', NEW ptr \in DOMAIN live \cup {NULL}, NEW request \in Requests,
           Realloc(ptr, request)
    PROVE  PoolStep
<1> DEFINE b == heap.blocks
           R == Regions(b)
           S == Regions(heap'.blocks)
           r == Krealloc(heap, pmm, ptr, request)
<1>1. HeapFine(heap, pmm, owned) /\ Holds(live, R) /\ ListFine(b)
    BY DEF IInv, HeapFine
<1>2. request \in 0 .. SizeMod - 1 /\ RoundUp(request) >= request /\ heap' = r.heap
    BY HeapMachineAssumption DEF Realloc, Returns
<1>3. CASE ptr = NULL
  <2>1. r = Kmalloc(heap, pmm, request)
    BY <1>3 DEF Krealloc
  <2> HIDE DEF r
  <2>2. Served(heap, pmm, owned, r, RoundUp(request))
    BY <1>1, <1>2, <2>1, KmallocFine
  <2>3. QED
    BY <1>2, <2>2, ServedStep
<1>4. CASE ptr # NULL
  <2>1. PICK old \in R : old.start = ptr
    BY <1>1, <1>4 DEF Holds
  <2>2. \/ S = R \ {old}
        \/ S = R
        \/ MovedRegion(heap'.blocks, b, ptr, r.ptr, request)
    <3> DEFINE q == Krealloc(heap, pmm, old.start, request)
    <3>1. \/ request = 0 /\ q.ptr = NULL /\ Regions(q.heap.blocks) = R \ {old}
          \/ request # 0 /\ q.ptr = NULL /\ Regions(q.heap.blocks) = R
          \/ /\ request # 0 /\ q.ptr = old.start /\ old.size >= request
             /\ Regions(q.heap.blocks) = R
          \/ request # 0 /\ MovedRegion(q.heap.blocks, b, old.start, q.ptr, request)
      BY <1>1, <1>2, KreallocFine
    <3>2. r = q
      BY <2>1
    <3> HIDE DEF q, r
    <3>3. QED
      BY <1>2, <2>1, <3>1, <3>2
  <2> HIDE DEF r
  <2>3. CASE S = R \ {old}
    BY <2>3, PoolSteps DEF PoolStep
  <2>4. CASE S = R
    BY <2>4 DEF PoolStep
  <2>5. CASE MovedRegion(heap'.blocks, b, ptr, r.ptr, request)
    <3>1. /\ r.ptr # ptr /\ \A x \in R : x.start # r.ptr
          /\ \E s \in Nat, o \in R :
               /\ s >= request /\ o.start = ptr /\ o.size < request
               /\ S = (R \cup {[start |-> r.ptr, size |-> s]}) \ {o}
               /\ \A x \in R :
                    RegionBytes([start |-> r.ptr, size |-> s]) \cap RegionBytes(x) = {}
      BY <2>5 DEF MovedRegion
    <3>2. PICK s \in Nat, o \in R :
               /\ s >= request /\ o.start = ptr /\ o.size < request
               /\ S = (R \cup {[start |-> r.ptr, size |-> s]}) \ {o}
               /\ \A x \in R :
                    RegionBytes([start |-> r.ptr, size |-> s]) \cap RegionBytes(x) = {}
      BY <3>1
    <3> DEFINE g == [start |-> r.ptr, size |-> s]
    <3>3. g.start = r.ptr /\ g.size = s /\ S = (R \cup {g}) \ {o}
          /\ \A x \in R : RegionBytes(g) \cap RegionBytes(x) = {}
      BY <3>2
    <3> HIDE DEF g
    <3>4. g \in S /\ \A x \in R : g.start # x.start
      BY <3>1, <3>2, <3>3
    <3>5. RegionBytes(g) \subseteq AllBytes
      <4>1. HeapFine(heap', pmm', owned')
        BY DEF IInv
      <4>2. QED
        BY <3>4, <4>1, RegionInSpace
    <3>6. o.size < g.size
      <4>1. o.size \in Nat
        BY <1>1, StartsNotNull DEF ListFine
      <4>2. request \in Nat
        BY <1>2, HeapAssumption
      <4>3. QED
        BY <3>2, <3>3, <4>1, <4>2
    <3>7. Abstract!Next
      BY <3>3, <3>4, <3>5, <3>6, PoolSteps
    <3>8. QED
      BY <3>7 DEF PoolStep
  <2>6. QED
    BY <2>2, <2>3, <2>4, <2>5
<1>5. QED
    BY <1>3, <1>4

\* Every step is one of the pool, or none.
LEMMA NextRefines == IInv /\ IInv' /\ [Next]_vars => PoolStep
<1> SUFFICES ASSUME IInv, IInv', [Next]_vars PROVE PoolStep
    OBVIOUS
<1>1. HeapFine(heap, pmm, owned)
    BY DEF IInv
<1>2. CASE UNCHANGED vars
    BY <1>2 DEF PoolStep, vars
<1>3. ASSUME NEW request \in Requests, Malloc(request) PROVE PoolStep
  <2>1. request \in 0 .. SizeMod - 1
    BY HeapMachineAssumption
  <2>2. Served(heap, pmm, owned, Kmalloc(heap, pmm, request), RoundUp(request))
    BY <1>1, <2>1, KmallocFine
  <2>3. heap' = Kmalloc(heap, pmm, request).heap
    BY <1>3 DEF Malloc, Returns
  <2>4. QED
    BY <2>2, <2>3, ServedStep
<1>4. ASSUME NEW a \in Arrays, Calloc(a[1], a[2]) PROVE PoolStep
  <2> DEFINE num == a[1]
             size == a[2]
  <2>1. num \in 0 .. SizeMod - 1 /\ size \in 0 .. SizeMod - 1
    BY HeapMachineAssumption
  <2>2. heap' = Kcalloc(heap, pmm, num, size).heap
    BY <1>4 DEF Calloc, Returns
  <2> HIDE DEF num, size
  <2>3. Served(heap, pmm, owned, Kcalloc(heap, pmm, num, size),
               RoundUp((num * size) % SizeMod))
    BY <1>1, <2>1, KcallocFine
  <2>4. QED
    BY <2>2, <2>3, ServedStep
<1>5. ASSUME NEW ptr \in DOMAIN live \cup {NULL}, NEW request \in Requests,
             Realloc(ptr, request)
      PROVE  PoolStep
    BY <1>5, ReallocStep
<1>6. ASSUME NEW ptr \in DOMAIN live, Free(ptr) PROVE PoolStep
  <2>1. heap' = Kfree(heap, ptr)
    BY <1>6 DEF Free, Returns, Answer
  <2>2. QED
    BY <2>1, ReleasedStep
<1>7. ASSUME NEW ptr, FreeAgain(ptr) PROVE PoolStep
  <2>1. heap' = Kfree(heap, ptr)
    BY <1>7 DEF FreeAgain, Returns, Answer
  <2>2. QED
    BY <2>1, ReleasedStep
<1>8. QED
    BY <1>2, <1>3, <1>4, <1>5, <1>6, <1>7 DEF Next

\* The heap implements a pool of disjoint regions: whatever the list, its
\* headers and its pages do, callers see regions given, moved and taken back.
THEOREM HeapRefinesMemoryPool == Spec => ImplementsMemoryPool
<1>1. Init => Abstract!Init
  <2>1. HeapOff.blocks = <<>> /\ DOMAIN HeapOff.blocks = {}
    BY DEF HeapOff
  <2>2. QED
    BY <2>1 DEF Init, Abstract!Init, UsedIn
<1>2. IInv /\ IInv' /\ [Next]_vars
        => [Abstract!Next]_({[start |-> PtrOf(heap.blocks[i]), size |-> heap.blocks[i].size] :
                                i \in UsedIn(heap.blocks)})
    BY NextRefines DEF PoolStep, Regions
<1>3. QED
    BY <1>1, <1>2, HeapInvariant, PTL DEF Spec, ImplementsMemoryPool, Abstract!Spec
=============================================================================
