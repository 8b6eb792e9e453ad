------------------------------- MODULE PmmOps -------------------------------
(* The physical memory manager of mm/pmm.c as operators on its state: one    *)
(* bit per frame, the number of frames the bitmap covers, and a count of the *)
(* clear bits kept beside it.  Pmm runs these operators alone; Heap, Vmm and *)
(* Boot call them the way heap.c, vmm.c and main.c call pmm.c.               *)
(*                                                                           *)
(* Addresses are physical.  The direct map (pmm_phys_to_virt, pmm.c:29-31)   *)
(* is a constant shift; only Vmm, where the shift is applied twice, needs it.*)
EXTENDS Integers, Sequences, FiniteSets

CONSTANTS
    PageSize,   \* PAGE_SIZE (pmm.h), 4096 in the kernel
    LowMem,     \* 0x100000: no frame below it is ever handed out
    MaxPhys     \* an upper bound of the physical addresses of the machine

ASSUME PageAssumption ==
    /\ PageSize \in Nat \ {0}
    /\ LowMem \in Nat \ {0}
    /\ LowMem % PageSize = 0
    /\ LowMem \div PageSize \in Nat \ {0}
    /\ MaxPhys \in Nat

\* pmm_alloc_page starts its search here.
FirstFrame == LowMem \div PageSize

\* The physical address 0, which pmm_alloc_page returns for "no frame" and
\* which is frame 0 as well.
NULL == 0

-----------------------------------------------------------------------------
(* The memory map.  Limine hands over a sequence of entries; the protocol    *)
(* promises that usable ones are page aligned and overlap nothing.           *)

Entry == [base : Nat, length : Nat, usable : BOOLEAN]

Usable(mm) == {i \in DOMAIN mm : mm[i].usable}

FramesOf(e) == (e.base \div PageSize)
               .. (e.base \div PageSize + e.length \div PageSize - 1)

WellFormedMemmap(mm) ==
    /\ mm \in Seq(Entry)
    /\ \A i \in Usable(mm) :
          /\ mm[i].base % PageSize = 0
          /\ mm[i].length % PageSize = 0
          /\ mm[i].base + mm[i].length <= MaxPhys
    /\ \A i, j \in Usable(mm) :
          i # j => FramesOf(mm[i]) \cap FramesOf(mm[j]) = {}

-----------------------------------------------------------------------------
(* pmm_init.                                                                 *)

PmmOff == [total |-> 0, used |-> {}, free |-> 0, mapped |-> FALSE]

\* An address no usable entry ends above; "highest" is the least of them.
BoundsUsable(mm, a) == \A i \in Usable(mm) : mm[i].base + mm[i].length <= a

Highest(mm) ==
    CHOOSE a \in 0..MaxPhys :
        BoundsUsable(mm, a) /\ \A b \in 0..MaxPhys : BoundsUsable(mm, b) => a <= b

TotalPages(mm) == Highest(mm) \div PageSize

BitmapBytes(mm) == (TotalPages(mm) + 7) \div 8

\* The entries that may hold the bitmap, and the first of them.
BitmapHosts(mm) == {i \in Usable(mm) : /\ mm[i].base >= LowMem
                                       /\ mm[i].length >= BitmapBytes(mm)}

BitmapHost(mm) ==
    CHOOSE i \in BitmapHosts(mm) : \A j \in BitmapHosts(mm) : i <= j

BitmapFrames(mm) ==
    LET first == mm[BitmapHost(mm)].base \div PageSize
        pages == (BitmapBytes(mm) + PageSize - 1) \div PageSize
    IN  first .. (first + pages - 1)

UsableFrames(mm) == UNION {FramesOf(mm[i]) : i \in Usable(mm)}

\* free_pages counts the iterations of the loop that clears bits, one for
\* each entry and page of it, and comes down once for each clear bit under
\* the bitmap.
CountedFrames(mm) ==
    UNION {{i} \X FramesOf(mm[i]) : i \in Usable(mm)}

Reserved(mm) == ((0 .. TotalPages(mm) - 1) \ UsableFrames(mm)) \cup BitmapFrames(mm)

\* With no host for the bitmap pmm_init returns early: total_pages is set,
\* the bitmap pointer stays NULL.
PmmInit(mm) ==
    IF BitmapHosts(mm) = {}
    THEN [total |-> TotalPages(mm), used |-> {}, free |-> 0, mapped |-> FALSE]
    ELSE [total  |-> TotalPages(mm),
          used   |-> Reserved(mm),
          free   |-> Cardinality(CountedFrames(mm))
                       - Cardinality(BitmapFrames(mm) \cap UsableFrames(mm)),
          mapped |-> TRUE]

-----------------------------------------------------------------------------
(* pmm_alloc_page and pmm_free_page.                                         *)

\* Faulty variant: the search stops one frame short.
AllocatableShort(p) == (FirstFrame .. p.total - 2) \ p.used

\* The frames the search of pmm_alloc_page would stop at.
Allocatable(p) == (FirstFrame .. p.total - 1) \ p.used

LowestFrame(S) == CHOOSE f \in S : \A g \in S : f <= g

\* Any test of a bit through a NULL bitmap is a page fault.
PmmFaults(p) == ~p.mapped /\ FirstFrame < p.total

\* Faulty variant: the frame returned is counted but its bit stays clear.
PmmAllocUnmarked(p) ==
    IF Allocatable(p) = {}
    THEN [pmm |-> p, frame |-> NULL]
    ELSE [pmm |-> [p EXCEPT !.free = @ - 1], frame |-> LowestFrame(Allocatable(p))]

\* [pmm, frame]: the state after the call and the frame returned.
PmmAlloc(p) ==
    IF Allocatable(p) = {}
    THEN [pmm |-> p, frame |-> NULL]
    ELSE LET f == LowestFrame(Allocatable(p))
         IN  [pmm   |-> [p EXCEPT !.used = @ \cup {f}, !.free = @ - 1],
              frame |-> f]

\* Faulty variant: a free that trusts its caller.
PmmFreeUnguarded(p, phys) ==
    [p EXCEPT !.used = @ \ {phys \div PageSize}, !.free = @ + 1]

PmmFree(p, phys) ==
    LET f == phys \div PageSize
    IN  IF f < p.total /\ f \in p.used
        THEN [p EXCEPT !.used = @ \ {f}, !.free = @ + 1]
        ELSE p

\* The frame manager once n frames have been taken from the machine at boot.
PmmAfter(mm, n) ==
    LET after[k \in 0 .. n] == IF k = 0 THEN PmmInit(mm) ELSE PmmAlloc(after[k - 1]).pmm
    IN  after[n]
=============================================================================
