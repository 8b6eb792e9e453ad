-------------------------------- MODULE Heap --------------------------------
(* The heap running on the frame manager: any sequence of kmalloc, kcalloc,  *)
(* krealloc and kfree by callers that free and resize only what they hold,   *)
(* repeated frees included.                                                  *)
EXTENDS HeapOps

CONSTANTS
    Memmaps,     \* the memory maps the machine may boot with
    VmmFrames,   \* frames vmm_init takes before the heap exists (main.c:117)
    Requests,    \* sizes callers ask for
    Arrays       \* <<num, size>> pairs callers pass to kcalloc

ASSUME HeapMachineAssumption ==
    /\ \A mm \in Memmaps : WellFormedMemmap(mm) /\ BitmapHosts(mm) # {}
    /\ VmmFrames \in Nat
    /\ Requests \subseteq 0 .. SizeMod - 1
    /\ Arrays \subseteq (0 .. SizeMod - 1) \X (0 .. SizeMod - 1)

VARIABLES
    memmap,   \* the memory map, fixed at power-on
    pmm,      \* the statics of pmm.c
    heap,     \* the block list and the statics of heap.c
    live,     \* ghost: the size each pointer in the callers' hands was asked at
    owned     \* ghost: the frames the heap took, which it never gives back

vars == <<memmap, pmm, heap, live, owned>>

\* The frame manager as vmm_init leaves it, and no heap yet.
Init ==
    /\ memmap \in Memmaps
    /\ pmm = PmmAfter(memmap, VmmFrames)
    /\ heap = HeapOff
    /\ live = <<>>
    /\ owned = {}

\* live without the pointer lost, with the pointer won at the size asked.
Handed(lost, won, request) ==
    [q \in (DOMAIN live \ {lost}) \cup ({won} \ {NULL}) |->
        IF q = won THEN request ELSE live[q]]

\* What every call does with its answer.
Returns(r) ==
    /\ heap' = r.heap
    /\ pmm' = r.pmm
    /\ owned' = owned \cup (r.pmm.used \ pmm.used)
    /\ UNCHANGED memmap

Malloc(request) ==
    LET r == Kmalloc(heap, pmm, request)
    IN  Returns(r) /\ live' = Handed(NULL, r.ptr, request)

Calloc(num, size) ==
    LET r == Kcalloc(heap, pmm, num, size)
    IN  Returns(r) /\ live' = Handed(NULL, r.ptr, num * size)

\* A request whose rounding wraps would be "moved" to a smaller block and the
\* copy of heap.c:145 would overrun it: no state of this model follows.
Realloc(ptr, request) ==
    LET r == Krealloc(heap, pmm, ptr, request)
        lost == IF r.ptr = NULL /\ request # 0 THEN NULL ELSE ptr
    IN  /\ RoundUp(request) >= request
        /\ Returns(r)
        /\ live' = Handed(lost, r.ptr, request)

Free(ptr) ==
    /\ Returns(Answer(Kfree(heap, ptr), pmm, NULL))
    /\ live' = Handed(ptr, NULL, 0)

\* A second kfree of a pointer whose block is still in the list, or kfree(NULL).
FreeAgain(ptr) ==
    /\ Returns(Answer(Kfree(heap, ptr), pmm, NULL))
    /\ UNCHANGED live

Next ==
    \/ \E request \in Requests : Malloc(request)
    \/ \E a \in Arrays : Calloc(a[1], a[2])
    \/ \E ptr \in DOMAIN live \cup {NULL}, request \in Requests :
            Realloc(ptr, request)
    \/ \E ptr \in DOMAIN live : Free(ptr)
    \/ \E i \in DOMAIN heap.blocks :
            ~heap.blocks[i].used /\ FreeAgain(PtrOf(heap.blocks[i]))
    \/ FreeAgain(NULL)

Spec == Init /\ [][Next]_vars

-----------------------------------------------------------------------------
(* Properties.                                                               *)

TypeOK ==
    /\ heap.blocks \in Seq(Block)
    /\ \A i \in DOMAIN heap.blocks : heap.blocks[i].size % Word = 0
    /\ {heap.pages, heap.usedBytes, heap.usedBlocks} \subseteq Nat
    /\ DOMAIN live \subseteq Nat
    /\ owned \subseteq Nat

\* After any sequence of calls no two neighbours in the list are both free:
\* heap_coalesce merges on both sides, so nothing fragments for good.
FullyCoalesced ==
    \A i \in DOMAIN heap.blocks :
        i > 1 => heap.blocks[i - 1].used \/ heap.blocks[i].used

\* The blocks with their headers account for every byte of every page the heap
\* ever took.  The counters kept beside the list (heap.c:20-22) agree with it as
\* long as the heap is smaller than their 32 bits can count, 4 GiB, and what
\* meminfo prints as free is off from the free blocks by one header for each
\* block more, or less, than there are pages (heap.c:172), and never negative.
\* A larger heap may wrap the used bytes, and kfree then leaves them as they are
\* when they are less than the block (heap.c:159): only the pages stay right.
Accounting ==
    LET b == heap.blocks
        bytes == Cardinality(owned) * PageSize
        free == SizeOf(b, DOMAIN b \ UsedIn(b)) + Hdr * (Len(b) - heap.pages)
    IN  /\ SizeOf(b, DOMAIN b) + Hdr * Len(b) = bytes
        /\ heap.pages = Cardinality(owned) % CounterMod
        /\ bytes < CounterMod =>
              /\ heap.usedBytes = SizeOf(b, UsedIn(b))
              /\ heap.usedBlocks = Cardinality(UsedIn(b))
              /\ HeapStats(heap).usedBlocks = heap.usedBlocks
              /\ HeapStats(heap).freeBytes = IF free > 0 THEN free ELSE 0

\* The used blocks are exactly the allocations callers hold: none is lost, and
\* none is given twice.  Each is as large as it was asked for, unless the
\* request was within Word of 2^64 and its rounding wrapped (heap.c:82).
LiveExact ==
    LET b == heap.blocks
        p == [i \in UsedIn(b) |-> PtrOf(b[i])]
    IN  /\ {p[i] : i \in UsedIn(b)} = DOMAIN live
        /\ \A i, j \in UsedIn(b) : p[i] = p[j] => i = j
        /\ \A i \in UsedIn(b) :
              live[p[i]] <= SizeMod - Word => b[i].size >= live[p[i]]

\* Every block, header and data, lies in frames the frame manager gave to the
\* heap, and no two blocks share a byte.  The merges of heap_coalesce keep it
\* only as long as each page the heap takes starts where the last one ended.
InsideOwnFrames ==
    LET b == heap.blocks
    IN  /\ \A i \in DOMAIN b :
              Extent(b[i]) \subseteq UNION {FrameBytes(f) : f \in owned}
        /\ \A i, j \in DOMAIN b :
              i # j => Extent(b[i]) \cap Extent(b[j]) = {}

\* A request that fits a page is refused only when the frame manager has no
\* frame left: growing and searching again always serves it.
RefusedOnlyWhenFull ==
    [][\A request \in Requests :
          /\ Malloc(request)
          /\ request # 0
          /\ RoundUp(request) <= PageSize - Hdr
          /\ live' = live
          => Allocatable(pmm) = {}]_vars

\* heap.c implements a pool of disjoint regions.
Abstract ==
    INSTANCE MemoryPool WITH
        Address <- UNION {FrameBytes(f) : f \in 0 .. MaxPhys \div PageSize},
        regions <- {[start |-> PtrOf(heap.blocks[i]), size |-> heap.blocks[i].size] :
                        i \in UsedIn(heap.blocks)}

ImplementsMemoryPool == Abstract!Spec
=============================================================================
