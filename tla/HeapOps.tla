------------------------------- MODULE HeapOps -------------------------------
(* The kernel heap of mm/heap.c as operators on its state: the block list,   *)
(* as a sequence in list order, and the four counters kept beside it.  A     *)
(* block is named by the physical address of its header; the pointer given   *)
(* to a caller is Hdr bytes above.  Pages come from the frame manager of     *)
(* PmmOps, so every operator that can grow the heap takes and returns both   *)
(* states.                                                                   *)
(*                                                                           *)
(* The magic word is not kept: it is HEAP_MAGIC exactly for the headers in   *)
(* the list, since heap_coalesce stamps HEAP_FREED on each one it drops.     *)
EXTENDS PmmOps

CONSTANTS
    Hdr,       \* sizeof(block_t), 32
    Word,      \* 8: the unit sizes are rounded to, and the smallest split rest
    SizeMod,   \* 2^64: size_t arithmetic is modulo this
    CounterMod \* 2^32: the counters and the statistics are uint32_t

ASSUME HeapAssumption ==
    /\ Hdr \in Nat \ {0}
    /\ Word \in Nat \ {0}
    /\ SizeMod \in Nat
    /\ CounterMod \in Nat \ {0}
    /\ Hdr + Word <= PageSize
    /\ PageSize < SizeMod
    /\ PageSize % Word = 0 /\ Hdr % Word = 0 /\ SizeMod % Word = 0

MinSplit == Hdr + Word

HeapOff == [blocks |-> <<>>, pages |-> 0, usedBytes |-> 0, usedBlocks |-> 0]

Block == [addr : Nat, size : Nat, used : BOOLEAN]

PtrOf(block) == block.addr + Hdr

\* The bytes of a block, header included, and the bytes of a frame.
Extent(block) == block.addr .. (block.addr + Hdr + block.size - 1)
FrameBytes(f) == (f * PageSize) .. (f * PageSize + PageSize - 1)

UsedIn(b) == {i \in DOMAIN b : b[i].used}

\* b with positions i..j replaced by the blocks of s.
Splice(b, i, j, s) == SubSeq(b, 1, i - 1) \o s \o SubSeq(b, j + 1, Len(b))

-----------------------------------------------------------------------------
(* heap_new_page, heap_split and heap_coalesce.                              *)

\* Faulty variant: the header is not taken off the page.
FreshBlockWhole(frame) ==
    [addr |-> frame * PageSize, size |-> PageSize, used |-> FALSE]

FreshBlock(frame) ==
    [addr |-> frame * PageSize, size |-> PageSize - Hdr, used |-> FALSE]

\* Faulty variant: the rest starts where the header of the data should end.
SplitMisplaced(b, i, size) ==
    IF b[i].size < size + MinSplit
    THEN b
    ELSE Splice(b, i, i,
                << [b[i] EXCEPT !.size = size],
                   [addr |-> b[i].addr + size,
                    size |-> b[i].size - size - Hdr,
                    used |-> FALSE] >>)

\* Cuts block i after size bytes, unless the rest is too small for a block.
Split(b, i, size) ==
    IF b[i].size < size + MinSplit
    THEN b
    ELSE Splice(b, i, i,
                << [b[i] EXCEPT !.size = size],
                   [addr |-> b[i].addr + Hdr + size,
                    size |-> b[i].size - size - Hdr,
                    used |-> FALSE] >>)

\* The last block of the run of free blocks that follows block i.
RunEnd(b, i) ==
    CHOOSE j \in i .. Len(b) :
        /\ \A k \in i + 1 .. j : ~b[k].used
        /\ j = Len(b) \/ b[j + 1].used

\* The size of block first once the blocks up to last are merged into it: each
\* adds its header and its data.
MergedSize(b, first, last) ==
    LET upto[k \in first .. last] ==
            IF k = first THEN b[first].size ELSE upto[k - 1] + Hdr + b[k].size
    IN  upto[last]

\* Faulty variant: only the blocks that follow are merged.
CoalesceForward(b, i) ==
    Splice(b, i, RunEnd(b, i),
           << [b[i] EXCEPT !.size = MergedSize(b, i, RunEnd(b, i))] >>)

\* The run is merged into block i, and the result into its predecessor when
\* that one is free.  Neighbours in the LIST are merged; that they also touch
\* in memory is nowhere tested.
Coalesce(b, i) ==
    LET first == IF i > 1 /\ ~b[i - 1].used THEN i - 1 ELSE i
        last  == RunEnd(b, i)
    IN  Splice(b, first, last,
               << [b[first] EXCEPT !.size = MergedSize(b, first, last)] >>)

-----------------------------------------------------------------------------
(* kmalloc, kfree, kcalloc, krealloc.  Each returns [heap, pmm, ptr].        *)

Answer(h, p, ptr) == [heap |-> h, pmm |-> p, ptr |-> ptr]

\* Faulty variant: sizes are taken as they come.
RoundUpNot(size) == size

\* (size + 7) & ~7: sizes within 7 of 2^64 wrap to 0.
RoundUp(size) == (((size + Word - 1) % SizeMod) \div Word) * Word

\* Faulty variant: any free block will do.
FitsAny(b, size) == {i \in DOMAIN b : ~b[i].used}

Fits(b, size) == {i \in DOMAIN b : ~b[i].used /\ b[i].size >= size}

\* The first block that fits is cut and taken.
TakeFirst(h, p, size) ==
    LET i == CHOOSE k \in Fits(h.blocks, size) :
                 \A j \in Fits(h.blocks, size) : k <= j
        cut == Split(h.blocks, i, size)
    IN  Answer([h EXCEPT !.blocks = [cut EXCEPT ![i].used = TRUE],
                         !.usedBytes = (@ + cut[i].size) % CounterMod,
                         !.usedBlocks = (@ + 1) % CounterMod],
               p, PtrOf(cut[i]))

\* The new page goes to the tail of the list and is merged with a free tail.
AppendPage(h, frame) ==
    LET longer == Append(h.blocks, FreshBlock(frame))
    IN  [h EXCEPT !.blocks = Coalesce(longer, Len(longer)),
                  !.pages = (@ + 1) % CounterMod]

\* Faulty variant: the list is not searched again after a page was added.
GrowBlindly(h, p, size) ==
    LET r == PmmAlloc(p)
    IN  IF r.frame = NULL
        THEN Answer(h, p, NULL)
        ELSE Answer(AppendPage(h, r.frame), r.pmm, NULL)

\* One page is added, whatever the request: a request that no single page
\* (merged with a free tail) can hold is refused with the page kept.
Grow(h, p, size) ==
    LET r == PmmAlloc(p)
    IN  IF r.frame = NULL
        THEN Answer(h, p, NULL)
        ELSE LET grown == AppendPage(h, r.frame)
             IN  IF Fits(grown.blocks, size) # {}
                 THEN TakeFirst(grown, r.pmm, size)
                 ELSE Answer(grown, r.pmm, NULL)

\* The first page of the heap.  A failed search through it asks for a second.
FirstPage(h, p) ==
    LET r == PmmAlloc(p)
    IN  IF h.blocks # <<>> \/ r.frame = NULL
        THEN Answer(h, p, NULL)
        ELSE Answer([h EXCEPT !.blocks = <<FreshBlock(r.frame)>>,
                              !.pages = (@ + 1) % CounterMod],
                    r.pmm, NULL)

Kmalloc(h, p, request) ==
    LET size  == RoundUp(request)
        ready == FirstPage(h, p)
    IN  IF request = 0 \/ ready.heap.blocks = <<>>
        THEN Answer(h, p, NULL)
        ELSE IF Fits(ready.heap.blocks, size) # {}
             THEN TakeFirst(ready.heap, ready.pmm, size)
             ELSE Grow(ready.heap, ready.pmm, size)

\* num * size is refused when it overflows.
Kcalloc(h, p, num, size) ==
    LET total == (num * size) % SizeMod
    IN  IF num # 0 /\ total \div num # size
        THEN Answer(h, p, NULL)
        ELSE Kmalloc(h, p, total)

\* The position of the block a pointer belongs to, 0 when no header in the
\* list lies below it (its magic word is then HEAP_FREED).
BlockAt(b, ptr) ==
    IF \E i \in DOMAIN b : PtrOf(b[i]) = ptr
    THEN CHOOSE i \in DOMAIN b : PtrOf(b[i]) = ptr
    ELSE 0

\* Faulty variant: a block that is free already is freed again.
KfreeTwice(h, ptr) ==
    LET i == BlockAt(h.blocks, ptr)
        b == h.blocks
    IN  IF ptr = NULL \/ i = 0
        THEN h
        ELSE [h EXCEPT
                !.blocks = Coalesce([b EXCEPT ![i].used = FALSE], i),
                !.usedBytes = IF @ >= b[i].size THEN @ - b[i].size ELSE @,
                !.usedBlocks = IF @ > 0 THEN @ - 1 ELSE @]

\* The bytes used are not taken off a counter that wrapped below them.
Kfree(h, ptr) ==
    LET i == BlockAt(h.blocks, ptr)
        b == h.blocks
    IN  IF ptr = NULL \/ i = 0 \/ (i # 0 /\ ~b[i].used)
        THEN h
        ELSE [h EXCEPT
                !.blocks = Coalesce([b EXCEPT ![i].used = FALSE], i),
                !.usedBytes = IF @ >= b[i].size THEN @ - b[i].size ELSE @,
                !.usedBlocks = IF @ > 0 THEN @ - 1 ELSE @]

\* A block that is already large enough keeps its place, and is never shrunk;
\* a larger one is allocated before the old one is freed.
Krealloc(h, p, ptr, request) ==
    LET i == BlockAt(h.blocks, ptr)
        moved == Kmalloc(h, p, request)
    IN  IF ptr = NULL THEN Kmalloc(h, p, request)
        ELSE IF request = 0 THEN Answer(Kfree(h, ptr), p, NULL)
        ELSE IF i = 0 THEN Answer(h, p, NULL)
        ELSE IF h.blocks[i].size >= request THEN Answer(h, p, ptr)
        ELSE IF moved.ptr = NULL THEN moved
        ELSE Answer(Kfree(moved.heap, ptr), moved.pmm, moved.ptr)

\* The heap as boot leaves it: vmm_init took the lowest frames, and vfs_init
\* was the first to call kmalloc, for the storage of ram0.
BootHeap(mm, vmmFrames, ram0Size) == Kmalloc(HeapOff, PmmAfter(mm, vmmFrames), ram0Size)

-----------------------------------------------------------------------------
(* heap_get_stats.                                                           *)

HeapStats(h) ==
    LET total == (h.pages * (PageSize - Hdr)) % CounterMod
        usedOnes == Cardinality(UsedIn(h.blocks))
    IN  [totalBlocks |-> Len(h.blocks) % CounterMod,
         usedBlocks  |-> usedOnes % CounterMod,
         freeBlocks  |-> (Len(h.blocks) - usedOnes) % CounterMod,
         totalBytes  |-> total,
         usedBytes   |-> h.usedBytes,
         freeBytes   |-> IF total > h.usedBytes THEN total - h.usedBytes ELSE 0]

\* The sum of f[1] .. f[n].
Total(f, n) ==
    LET upto[k \in 0 .. n] == IF k = 0 THEN 0 ELSE upto[k - 1] + f[k]
    IN  upto[n]

\* The bytes of the blocks chosen, headers left out.
SizeOf(b, S) ==
    Total([k \in DOMAIN b |-> IF k \in S THEN b[k].size ELSE 0], Len(b))
=============================================================================
