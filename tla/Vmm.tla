--------------------------------- MODULE Vmm ---------------------------------
(* The page tables of mm/vmm.c: four levels of tables, each in a frame of    *)
(* the frame manager, for the kernel and for any number of page maps that    *)
(* callers create, fill and destroy.                                         *)
(*                                                                           *)
(* Addresses are counted in pages: virtual page v, frame f.  A page map is   *)
(* named by its handle, the page of the direct map where its top table is    *)
(* seen; that is what vmm_create_pagemap returns.                            *)
EXTENDS PmmOps

CONSTANTS
    Memmap,      \* the memory map of the machine
    FanOut,      \* 512 entries in a table
    Hhdm,        \* hhdm_offset, in pages: where the direct map starts
    HugePages,   \* 2048: the direct map covers 4 GiB in pages of 2 MiB
    Handed,      \* what callers hand to the walks: "returned", "physical"
    Starts,      \* virtual pages callers map, unmap and translate
    Targets,     \* frames they map them to
    Flags,       \* subset of the combinations of vmm.h:11-14
    MaxMaps      \* bound on the page maps alive at a time

Index == 0 .. FanOut - 1

\* The lower half of a top table is a map's own, the upper half shared.
Half == FanOut \div 2

\* The pages below the upper half.
LowerPages == 0 .. Half * (FanOut * (FanOut * FanOut)) - 1

\* A virtual page shifted to a level, and its digit there: pt_idx at level 0,
\* up to pml4_idx at level 3.
Shifted(v, level) ==
    IF level = 0 THEN v
    ELSE IF level = 1 THEN v \div FanOut
    ELSE IF level = 2 THEN (v \div FanOut) \div FanOut
    ELSE ((v \div FanOut) \div FanOut) \div FanOut

Digit(v, level) == Shifted(v, level) % FanOut

\* Where large page i of physical memory is seen in the direct map.
LargeAt(i) == Hhdm + i * FanOut

ASSUME VmmAssumption ==
    /\ WellFormedMemmap(Memmap) /\ BitmapHosts(Memmap) # {}
    /\ FanOut \in Nat /\ FanOut >= 2 /\ FanOut % 2 = 0
    /\ Hhdm \in Nat /\ Hhdm > MaxPhys
    /\ HugePages \in 1 .. FanOut * (FanOut * FanOut)
    /\ \A i \in 0 .. HugePages - 1 : Digit(LargeAt(i), 3) >= Half
    /\ Handed \subseteq {"returned", "physical"}
    /\ \A v \in Starts : v \in LowerPages /\ v + 1 \in LowerPages
    /\ Targets \subseteq Nat \ {0}
    /\ Flags \subseteq {"KERNEL", "USER", "RODATA", "CODE"}
    /\ MaxMaps \in Nat

VARIABLES
    pmm,              \* the statics of pmm.c
    tables,           \* frame -> table, for the frames in use as tables
    kernel_pagemap,   \* the handle of the kernel's page map
    maps,             \* ghost: the handles callers hold
    answer,           \* what the last operation returned
    phase             \* "up", or "faulted" after a walk outside the memory

vars == <<pmm, tables, kernel_pagemap, maps, answer, phase>>

NoAnswer == [said |-> "nothing"]

-----------------------------------------------------------------------------
(* Tables.  An entry points to a table, to a large page, or, in the last     *)
(* level, to the frame of a page with the flags of its caller.               *)

NoEntry == [to |-> 0, flags |-> "absent"]
Link(f) == [to |-> f, flags |-> "table"]
Present(e) == e.flags # "absent"

\* Memory: the frame manager and the tables.  A frame that is no longer, or
\* not yet, a table holds whatever it held.
Memory(p, t) == [pmm |-> p, tables |-> t]

Put(m, f, i, e) == [m EXCEPT !.tables[f][i] = e]

\* m with frame f made the table t.
WithTable(m, f, t) ==
    [m EXCEPT !.tables = [g \in DOMAIN @ \cup {f} |-> IF g = f THEN t ELSE @[g]]]

Empty == [i \in Index |-> NoEntry]

\* A frame as a table without entries; at is NULL when there is no frame.
AllocTable(m) ==
    LET r == PmmAlloc(m.pmm)
    IN  [mem |-> IF r.frame = NULL THEN m
                 ELSE WithTable([m EXCEPT !.pmm = r.pmm], r.frame, Empty),
         at  |-> r.frame]

\* The table below entry i of table f, made when there is none.
GetOrCreate(m, f, i) ==
    LET new == AllocTable(m)
    IN  IF Present(m.tables[f][i])
        THEN [mem |-> m, at |-> m.tables[f][i].to]
        ELSE IF new.at = NULL
             THEN new
             ELSE [new EXCEPT !.mem = Put(@, f, i, Link(new.at))]

\* The table below entry i of table f, NULL when there is none.
Below(m, f, i) ==
    IF f # NULL /\ Present(m.tables[f][i]) THEN m.tables[f][i].to ELSE NULL

\* The last table on the way from table f to page v.
LastTable(m, f, v) ==
    Below(m, Below(m, Below(m, f, Digit(v, 3)), Digit(v, 2)), Digit(v, 1))

-----------------------------------------------------------------------------
(* vmm_map, vmm_map_range, vmm_unmap, vmm_virt_to_phys on the top table f.   *)

\* Tables made before the frames ran out stay.
MapPage(m, f, v, target, flags) ==
    LET pdpt == GetOrCreate(m, f, Digit(v, 3))
        pd == IF pdpt.at = NULL THEN pdpt ELSE GetOrCreate(pdpt.mem, pdpt.at, Digit(v, 2))
        pt == IF pd.at = NULL THEN pd ELSE GetOrCreate(pd.mem, pd.at, Digit(v, 1))
    IN  IF pt.at = NULL
        THEN [mem |-> pt.mem, ok |-> FALSE]
        ELSE [mem |-> Put(pt.mem, pt.at, Digit(v, 0), [to |-> target, flags |-> flags]),
              ok  |-> TRUE]

\* Faulty variant: what vmm_map answers is not looked at.
MapPagesUnchecked(m, f, v, target, n, flags) ==
    LET upto[k \in 0 .. n] ==
            IF k = 0 THEN m
            ELSE MapPage(upto[k - 1], f, v + k - 1, target + k - 1, flags).mem
    IN  [mem |-> upto[n], ok |-> TRUE]

\* The first page that cannot be mapped ends it; those before stay mapped.
MapPages(m, f, v, target, n, flags) ==
    LET upto[k \in 0 .. n] ==
            IF k = 0 THEN [mem |-> m, ok |-> TRUE]
            ELSE IF ~upto[k - 1].ok THEN upto[k - 1]
            ELSE MapPage(upto[k - 1].mem, f, v + k - 1, target + k - 1, flags)
    IN  upto[n]

UnmapPage(m, f, v) ==
    LET pt == LastTable(m, f, v)
    IN  IF pt = NULL THEN m ELSE Put(m, pt, Digit(v, 0), NoEntry)

\* The frame in the last entry.  Only its low 12 bits are masked, so the NX
\* bit of VMM_FLAGS_RODATA is still part of the address.
NxBit == 10 * MaxPhys

PageToFrame(m, f, v) ==
    LET pt == LastTable(m, f, v)
        e  == IF pt = NULL THEN NoEntry ELSE m.tables[pt][Digit(v, 0)]
    IN  IF e.flags = "RODATA" THEN e.to + NxBit ELSE e.to

-----------------------------------------------------------------------------
(* vmm_init, vmm_create_pagemap, vmm_destroy_pagemap.                        *)

\* r = [mem, at] with large page i mapped below top table f; at is NULL as soon
\* as a table cannot be had, and the loop ends there.
MapLarge(r, f, i) ==
    LET v    == LargeAt(i)
        pdpt == GetOrCreate(r.mem, f, Digit(v, 3))
        pd   == IF pdpt.at = NULL THEN pdpt
                ELSE GetOrCreate(pdpt.mem, pdpt.at, Digit(v, 2))
    IN  IF r.at = NULL THEN r
        ELSE IF pd.at = NULL THEN pd
        ELSE [pd EXCEPT !.mem =
                 Put(@, pd.at, Digit(v, 1), [to |-> i * FanOut, flags |-> "huge"])]

\* The direct map.  The registers of the APIC lie in it, and are mapped once
\* more to the same place.
DirectMap(m, f) ==
    LET upto[k \in 0 .. HugePages] ==
            IF k = 0 THEN [mem |-> m, at |-> f] ELSE MapLarge(upto[k - 1], f, k - 1)
    IN  upto[HugePages]

Init ==
    LET top == AllocTable(Memory(PmmInit(Memmap), <<>>))
        m   == IF top.at = NULL THEN top.mem ELSE DirectMap(top.mem, top.at).mem
    IN  /\ pmm = m.pmm
        /\ tables = m.tables
        /\ kernel_pagemap = IF top.at = NULL THEN NULL ELSE Hhdm + top.at
        /\ maps = {}
        /\ answer = NoAnswer
        /\ phase = "up"

Now == Memory(pmm, tables)

Becomes(m) == pmm' = m.pmm /\ tables' = m.tables

\* A new top table takes over the upper half of the kernel's.
Create ==
    LET top == AllocTable(Now)
        kernel == tables[kernel_pagemap - Hhdm]
        shared == [i \in Index |-> IF i < Half THEN NoEntry ELSE kernel[i]]
    IN  /\ Cardinality(maps) < MaxMaps
        /\ Becomes(IF top.at = NULL \/ kernel_pagemap = NULL THEN top.mem
                   ELSE [top.mem EXCEPT !.tables[top.at] = shared])
        /\ maps' = IF top.at = NULL THEN maps ELSE maps \cup {Hhdm + top.at}
        /\ answer' = NoAnswer
        /\ UNCHANGED <<kernel_pagemap, phase>>

\* The tables that the entries of tables S point to.
Links(S) == {tables[t][i].to : t \in S, i \in Index} \ {0}

\* The tables that the entries of table f below entry n point to.
LinksBelow(f, n) == {tables[f][i].to : i \in 0 .. n - 1} \ {0}

\* Faulty variants: the tables of the last level are forgotten, and the half
\* that is shared with the kernel is taken for the map's own.
LowerTablesButLast(f) ==
    LET pdpts == LinksBelow(f, Half)
    IN  pdpts \cup Links(pdpts)
LowerTablesAll(f) ==
    LET pdpts == LinksBelow(f, FanOut)
    IN  pdpts \cup Links(pdpts)

\* The tables under the lower half of top table f, three levels of them.
LowerTables(f) ==
    LET pdpts == LinksBelow(f, Half)
        pds   == Links(pdpts)
    IN  pdpts \cup pds \cup Links(pds)

\* pmm_free_page for each frame in S.
FreeAll(p, S) ==
    LET upto[n \in 0 .. p.total] ==
            IF n = 0 THEN p
            ELSE IF n - 1 \in S THEN PmmFree(upto[n - 1], (n - 1) * PageSize)
            ELSE upto[n - 1]
    IN  upto[p.total]

\* The frames that the pages of the map lie in are not the map's to free.
Destroy(handle) ==
    LET freed == LowerTables(handle - Hhdm) \cup {handle - Hhdm}
    IN  /\ handle # kernel_pagemap
        /\ pmm' = FreeAll(pmm, freed)
        /\ tables' = [f \in DOMAIN tables \ freed |-> tables[f]]
        /\ maps' = maps \ {handle}
        /\ answer' = NoAnswer
        /\ UNCHANGED <<kernel_pagemap, phase>>

-----------------------------------------------------------------------------
(* The walks take their argument for the physical address of the top table   *)
(* and add the offset of the direct map to it, while a handle has the offset *)
(* in it already.  A caller who hands over what vmm_create_pagemap returned  *)
(* reads far outside the memory; one who takes the offset off first does not.*)

Top(handle, handed) == IF handed = "returned" THEN handle ELSE handle - Hhdm

Faults(handle, handed) ==
    /\ Top(handle, handed) \notin DOMAIN tables
    /\ phase' = "faulted"
    /\ UNCHANGED <<pmm, tables, kernel_pagemap, maps, answer>>

Reaches(handle, handed) ==
    /\ Top(handle, handed) \in DOMAIN tables
    /\ UNCHANGED <<kernel_pagemap, maps, phase>>

\* vmm_map is a range of one page.
MapRange(handle, handed, v, target, n, flags) ==
    /\ Reaches(handle, handed)
    /\ LET r == MapPages(Now, Top(handle, handed), v, target, n, flags)
       IN  /\ Becomes(r.mem)
           /\ answer' = [page |-> v, len |-> n, done |-> r.ok]

Unmap(handle, handed, v) ==
    /\ Reaches(handle, handed)
    /\ Becomes(UnmapPage(Now, Top(handle, handed), v))
    /\ answer' = NoAnswer

Translate(handle, handed, v) ==
    /\ Reaches(handle, handed)
    /\ answer' = [page |-> v, frame |-> PageToFrame(Now, Top(handle, handed), v)]
    /\ UNCHANGED <<pmm, tables>>

\* Every operation on NULL, and the destruction of the kernel's map, return
\* at once.
Ignore == answer' = NoAnswer /\ UNCHANGED <<pmm, tables, kernel_pagemap, maps, phase>>

Next ==
    /\ phase = "up"
    /\ \/ Create
       \/ Ignore
       \/ \E handle \in maps :
             \/ Destroy(handle)
             \/ \E handed \in Handed :
                   \/ Faults(handle, handed)
                   \/ \E v \in Starts :
                         \/ Unmap(handle, handed, v)
                         \/ Translate(handle, handed, v)
                         \/ \E target \in Targets, n \in 1 .. 2, flags \in Flags :
                               MapRange(handle, handed, v, target, n, flags)

Spec == Init /\ [][Next]_vars

-----------------------------------------------------------------------------
(* Properties.                                                               *)

\* The tables that can be found from table f, f among them.
Linked(S) == UNION {{tables[t][i].to : i \in {j \in Index : tables[t][j].flags = "table"}}
                        : t \in S \cap DOMAIN tables}
TablesFrom(f) ==
    LET one == Linked({f})  two == Linked(one)
    IN  {f} \cup one \cup two \cup Linked(two)

KernelTables ==
    IF kernel_pagemap = NULL THEN {} ELSE TablesFrom(kernel_pagemap - Hhdm)

BootReserved == Reserved(Memmap)

\* Every frame taken for a table hangs in exactly one page map, the kernel's
\* or a live one, whatever requests failed half way and whatever maps were
\* destroyed: alloc_table loses none, vmm_destroy_pagemap frees all of a map's
\* own and none of another's.
NoFrameLost ==
    LET Own(h) == TablesFrom(h - Hhdm) \ KernelTables
    IN  /\ pmm.used \ BootReserved = KernelTables \cup UNION {Own(h) : h \in maps}
        /\ \A g, h \in maps : g # h => Own(g) \cap Own(h) = {}

\* The large page that the walk of the processor finds for v from top table f.
LargePage(f, v) ==
    LET Step(t, level) == IF t \in DOMAIN tables THEN tables[t][Digit(v, level)] ELSE NoEntry
    IN  Step(Step(Step(f, 3).to, 2).to, 1)

\* All of the 4 GiB are seen at hhdm_offset from the kernel's map and from
\* every map made, and stay so when other maps are filled and destroyed: the
\* upper half is shared (vmm.c:140-142), its tables belong to the kernel.
DirectMapEverywhere ==
    \A h \in maps \cup {kernel_pagemap}, k \in 0 .. HugePages - 1 :
        LargePage(h - Hhdm, LargeAt(k)) = [to |-> k * FanOut, flags |-> "huge"]

-----------------------------------------------------------------------------
(* Every page map is an address space: the page tables behave as a function  *)
(* from the pages of the lower half to frames and flags.                     *)

MappedPages(f) ==
    {v \in LowerPages : LastTable(Now, f, v) # NULL
                        /\ Present(tables[LastTable(Now, f, v)][Digit(v, 0)])}

Space(f) ==
    [v \in MappedPages(f) |->
        LET e == tables[LastTable(Now, f, v)][Digit(v, 0)]
        IN  [frame |-> e.to, flags |-> e.flags]]

Handles == {Hhdm + f : f \in FirstFrame .. TotalPages(Memmap) - 1}

AddressSpaces == INSTANCE AddressSpace WITH
    Id <- Handles,
    Page <- Starts, Frame <- Targets, Flag <- Flags, None <- NoAnswer,
    spaces <- [h \in maps |-> Space(h - Hhdm)],
    answer <- answer

\* What is mapped in one space is what was mapped there last and not unmapped
\* since, whatever happens in other spaces and to other pages of this one; a
\* request that runs out of frames has mapped its first pages and says so.
ImplementsAddressSpace == AddressSpaces!Spec
=============================================================================
