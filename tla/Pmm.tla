--------------------------------- MODULE Pmm ---------------------------------
(* The physical memory manager running: pmm_init once, on a memory map the   *)
(* firmware chose, then any sequence of pmm_alloc_page and pmm_free_page by  *)
(* the callers in the kernel (heap.c:35, vmm.c:28 and 163-170,               *)
(* commands.c:167-176).                                                      *)
EXTENDS PmmOps

CONSTANT Memmaps    \* the memory maps the machine may boot with

ASSUME MemmapAssumption == \A mm \in Memmaps : WellFormedMemmap(mm)

VARIABLES
    memmap,    \* the response of Limine, fixed at power-on
    pmm,       \* the statics of pmm.c: [total, used, free, mapped]
    held,      \* ghost: frames returned by pmm_alloc_page and not freed since
    ret,       \* ghost: what the last pmm_alloc_page returned
    phase      \* "off", "up" after pmm_init, "faulted" after a page fault

vars == <<memmap, pmm, held, ret, phase>>

Init ==
    /\ memmap \in Memmaps
    /\ pmm = PmmOff
    /\ held = {}
    /\ ret = NULL
    /\ phase = "off"

\* Faulty variant: pmm_init may run again on a machine in use.
BootAgain ==
    /\ pmm' = PmmInit(memmap)
    /\ phase' = "up"
    /\ UNCHANGED <<memmap, held, ret>>

\* kmain calls pmm_init before anything else uses memory (main.c:114).
Boot ==
    /\ phase = "off"
    /\ pmm' = PmmInit(memmap)
    /\ phase' = "up"
    /\ UNCHANGED <<memmap, held, ret>>

AllocPage ==
    /\ phase = "up"
    /\ ~PmmFaults(pmm)
    /\ LET r == PmmAlloc(pmm)
       IN  /\ pmm' = r.pmm
           /\ ret' = r.frame
           /\ held' = held \cup ({r.frame} \ {NULL})
    /\ UNCHANGED <<memmap, phase>>

\* The first bm_get of pmm_alloc_page reads through the NULL bitmap.
AllocFault ==
    /\ phase = "up"
    /\ PmmFaults(pmm)
    /\ phase' = "faulted"
    /\ UNCHANGED <<memmap, pmm, held, ret>>

\* A caller frees an address inside a frame it was given, or repeats a free,
\* or frees an address beyond the memory.  No caller in the kernel frees a
\* frame that was reserved at boot, and none frees anything on a machine that
\* has no bitmap, since none was given anything.
FreePage(phys) ==
    /\ phase = "up"
    /\ pmm.mapped
    /\ phys \div PageSize \notin Reserved(memmap)
    /\ pmm' = PmmFree(pmm, phys)
    /\ held' = held \ {phys \div PageSize}
    /\ UNCHANGED <<memmap, ret, phase>>

Next ==
    \/ Boot
    \/ AllocPage
    \/ AllocFault
    \/ \E phys \in 0..MaxPhys : FreePage(phys)

Spec == Init /\ [][Next]_vars

-----------------------------------------------------------------------------
(* Properties.                                                               *)

TypeOK ==
    /\ memmap \in Memmaps
    /\ pmm \in [total : Nat, used : SUBSET Nat, free : Nat, mapped : BOOLEAN]
    /\ held \subseteq Nat
    /\ ret \in Nat
    /\ phase \in {"off", "up", "faulted"}

\* free_pages, which meminfo, memtest and fastfetch print, is the number of
\* clear bits of the bitmap after any sequence of calls: the one count that is
\* kept twice (pmm.c:87, 97, 109, 120) never drifts, double frees included.
FreeCountExact ==
    pmm.mapped => pmm.free = Cardinality((0 .. pmm.total - 1) \ pmm.used)

\* The bits set are exactly the frames reserved at boot (holes and the bitmap
\* itself) and the frames callers hold, and no frame is both: nothing leaks,
\* nothing is handed out twice, and no caller is given the bitmap or a hole.
Conservation ==
    pmm.mapped => /\ pmm.used = Reserved(memmap) \cup held
                  /\ Reserved(memmap) \cap held = {}

\* A caller holds only usable frames at or above 1 MiB, below total_pages, and
\* never frame 0: the NULL that means "out of memory" is never a frame too.
HeldAreUsable ==
    held \subseteq UsableFrames(memmap) \cap (FirstFrame .. pmm.total - 1)

\* When every caller has freed what it holds, the manager is exactly in the
\* state pmm_init left, whatever was allocated and freed, and how often.
FreeAllRestoresBoot ==
    pmm.mapped /\ held = {} => pmm = PmmInit(memmap)

\* The bitmap, one bit per frame in whole bytes, fits the frames that
\* pmm_init reserved for it, and those frames are usable memory.
BitmapFits ==
    pmm.mapped =>
        /\ BitmapFrames(memmap) \subseteq UsableFrames(memmap)
        /\ pmm.total <= 8 * PageSize * Cardinality(BitmapFrames(memmap))

Inv == FreeCountExact /\ Conservation /\ HeldAreUsable

\* The inductive strengthening: what the phase says of the statics.  A machine
\* with no host for the bitmap has total_pages set and no bit, and never hands
\* out a frame.
IInv ==
    /\ TypeOK
    /\ phase = "off" => pmm = PmmOff /\ held = {}
    /\ phase # "off" => /\ pmm.total = TotalPages(memmap)
                        /\ pmm.mapped <=> BitmapHosts(memmap) # {}
    /\ ~pmm.mapped => held = {} /\ pmm.used = {}
    /\ Inv

\* The frames a request can still be served from.
Pool == IF phase = "off" THEN {} ELSE (FirstFrame .. pmm.total - 1) \ pmm.used

\* pmm_alloc_page and pmm_free_page implement the abstract frame allocator:
\* NULL is answered only when no frame above 1 MiB is left.
Abstract ==
    INSTANCE FrameAllocator WITH
        Frame <- FirstFrame .. (MaxPhys \div PageSize),
        None <- NULL, pool <- Pool, out <- held, answer <- ret

ImplementsFrameAllocator == Abstract!Spec
=============================================================================
