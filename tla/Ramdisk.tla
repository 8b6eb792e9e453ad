------------------------------- MODULE Ramdisk -------------------------------
(* The in-memory file system of fs/ramdisk.c: a table of named slots whose   *)
(* contents live in the kernel heap, together with the other user of the     *)
(* heap at run time, the memtest command.                                    *)
(*                                                                           *)
(* A text is an identifier with a length; memory maps the pointer of a block *)
(* to the text last copied there, so a block that is freed and given to      *)
(* another file no longer reads back as the first.                           *)
EXTENDS HeapOps

CONSTANTS
    Memmap,      \* the memory map of the machine
    VmmFrames,   \* frames vmm_init takes first (main.c:117)
    RAM0_SIZE,   \* what vfs_init asks of the heap, 64 KiB
    MaxFiles,    \* MAX_RAMFILES, 64
    Names,       \* the names of files
    NoName,      \* the empty string, which marks a slot as free
    Texts,       \* records [id, size]
    TestSizes,   \* what memtest allocates and frees again
    MaxFailures  \* bound on the failed creations of a run

\* What a name reads back as when there is no such file, and when its slot
\* points to memory that no longer holds its text.
Absent == [id |-> "absent", size |-> 0]
Garbage == [id |-> "garbage", size |-> 0]

\* The size of a text is a uint32_t, so its rounding never wraps.
ASSUME RamdiskAssumption ==
    /\ WellFormedMemmap(Memmap) /\ BitmapHosts(Memmap) # {}
    /\ VmmFrames \in Nat /\ RAM0_SIZE \in 1 .. SizeMod - 1
    /\ MaxFiles \in Nat \ {0}
    /\ NoName \notin Names
    /\ \A t \in Texts : t.size \in 0 .. SizeMod - Word - 1
    /\ Absent \notin Texts
    /\ TestSizes \subseteq 0 .. SizeMod - 1
    /\ MaxFailures \in Nat

Slots == 1 .. MaxFiles

VARIABLES
    pmm, heap,        \* the statics of pmm.c and heap.c
    memory,           \* pointer -> the text copied there, a partial function
    ramfiles,         \* the table: [name, data, size] per slot
    ramfile_count,    \* the number of files raminfo shows
    asked, result,    \* ghost: the name the last operation was for, and what it
                      \* returned
    failures,         \* ghost: creations that found a slot but no memory
    leaked            \* ghost: the blocks given to files of the empty name

vars == <<pmm, heap, memory, ramfiles, ramfile_count, asked, result, failures, leaked>>

EmptySlot == [name |-> NoName, data |-> NULL, size |-> 0]

Boot == BootHeap(Memmap, VmmFrames, RAM0_SIZE)

\* ramdisk_init, and the heap as vfs_init leaves it for the shell.
Init ==
    /\ pmm = Boot.pmm
    /\ heap = Boot.heap
    /\ memory = <<>>
    /\ ramfiles = [i \in Slots |-> EmptySlot]
    /\ ramfile_count = 0
    /\ asked = NoName /\ result = 0
    /\ failures = 0
    /\ leaked = {}

-----------------------------------------------------------------------------
(* ramdisk_find, ramdisk_create, ramdisk_delete.                             *)

FirstSlot(S) == CHOOSE i \in S : \A j \in S : i <= j

\* The slots a name is found in; a free slot never matches, not even "".
Matching(name) == {i \in Slots : ramfiles[i].name # NoName /\ ramfiles[i].name = name}

FreeSlots == {i \in Slots : ramfiles[i].name = NoName}

\* Memory after the text was copied to ptr.
Copied(ptr, text) ==
    [q \in DOMAIN memory \cup {ptr} |-> IF q = ptr THEN text ELSE memory[q]]

\* What a slot allocates for a text: one more byte for the terminating 0.
DataSizeUnterminated(text) == text.size   \* faulty variant
DataSize(text) == text.size + 1

\* Fills slot i: the old data, if any, is freed before the new is allocated.
\* When no memory is left the slot is freed, the count stays.  Filled for the
\* empty name the slot still counts as free: nothing finds the block again, and
\* the next file to take the slot forgets it.
FillSlot(i, name, text, old) ==
    LET r == Kmalloc(Kfree(heap, old), pmm, DataSize(text))
    IN  /\ heap' = r.heap
        /\ pmm' = r.pmm
        /\ IF r.ptr = NULL
           THEN /\ ramfiles' = [ramfiles EXCEPT ![i].name = NoName, ![i].data = NULL]
                /\ result' = -1
                /\ UNCHANGED <<memory, leaked>>
           ELSE /\ ramfiles' = [ramfiles EXCEPT
                        ![i] = [name |-> name, data |-> r.ptr, size |-> text.size]]
                /\ memory' = Copied(r.ptr, text)
                /\ result' = 0
                /\ leaked' = leaked \cup (IF name = NoName THEN {r.ptr} ELSE {})

\* Faulty variant: the old data is not freed.
OverwriteLeaking(name, text) ==
    /\ Matching(name) # {}
    /\ FillSlot(FirstSlot(Matching(name)), name, text, NULL)
    /\ UNCHANGED ramfile_count

Overwrite(name, text) ==
    /\ Matching(name) # {}
    /\ LET i == FirstSlot(Matching(name))
       IN  FillSlot(i, name, text, ramfiles[i].data)
    /\ UNCHANGED ramfile_count

CreateNew(name, text) ==
    /\ Matching(name) = {}
    /\ FreeSlots # {}
    /\ FillSlot(FirstSlot(FreeSlots), name, text, NULL)
    /\ ramfile_count' = ramfile_count + 1

TableFull(name) ==
    /\ Matching(name) = {}
    /\ FreeSlots = {}
    /\ result' = -1
    /\ UNCHANGED <<pmm, heap, memory, ramfiles, ramfile_count, leaked>>

Create(name, text) ==
    /\ Overwrite(name, text) \/ CreateNew(name, text) \/ TableFull(name)
    /\ asked' = name
    /\ failures' = IF result' = -1 /\ FreeSlots \cup Matching(name) # {}
                   THEN failures + 1 ELSE failures
    /\ failures' <= MaxFailures

\* Faulty variants: the count is not lowered, and the slot keeps its name
\* and the pointer to freed memory.
DeleteUncounted(name) ==
    /\ Matching(name) # {}
    /\ LET i == FirstSlot(Matching(name))
       IN  /\ heap' = Kfree(heap, ramfiles[i].data)
           /\ ramfiles' = [ramfiles EXCEPT ![i] = EmptySlot]
    /\ asked' = name /\ result' = 0
    /\ UNCHANGED <<pmm, memory, ramfile_count, failures, leaked>>
DeleteKeepsSlot(name) ==
    /\ Matching(name) # {}
    /\ LET i == FirstSlot(Matching(name))
       IN  heap' = Kfree(heap, ramfiles[i].data)
    /\ ramfile_count' = ramfile_count - 1
    /\ asked' = name /\ result' = 0
    /\ UNCHANGED <<pmm, memory, ramfiles, failures, leaked>>

Delete(name) ==
    /\ Matching(name) # {}
    /\ LET i == FirstSlot(Matching(name))
       IN  /\ heap' = Kfree(heap, ramfiles[i].data)
           /\ ramfiles' = [ramfiles EXCEPT ![i] = EmptySlot]
    /\ ramfile_count' = ramfile_count - 1
    /\ asked' = name /\ result' = 0
    /\ UNCHANGED <<pmm, memory, failures, leaked>>

DeleteMissing(name) ==
    /\ Matching(name) = {}
    /\ asked' = name /\ result' = -1
    /\ UNCHANGED <<pmm, heap, memory, ramfiles, ramfile_count, failures, leaked>>

\* memtest borrows a block and gives it back; what it writes there is lost
\* to whoever held a stale pointer to it.
Memtest(size) ==
    LET r == Kmalloc(heap, pmm, size)
    IN  /\ heap' = Kfree(r.heap, r.ptr)
        /\ pmm' = r.pmm
        /\ memory' = [q \in DOMAIN memory \ {r.ptr} |-> memory[q]]
        /\ UNCHANGED <<ramfiles, ramfile_count, asked, result, failures, leaked>>

\* ramwrite passes any name on, the empty one too (shell.c:82-86); ramdel asks
\* for one.
Next ==
    \/ \E name \in Names \cup {NoName}, text \in Texts : Create(name, text)
    \/ \E name \in Names : Delete(name) \/ DeleteMissing(name)
    \/ \E size \in TestSizes : Memtest(size)

Spec == Init /\ [][Next]_vars

-----------------------------------------------------------------------------
(* Properties.                                                               *)

Named == {i \in Slots : ramfiles[i].name # NoName}

\* The used blocks of the heap are exactly the data of the named slots, one
\* each, the blocks of files of the empty name, which are never given back, and
\* that of ram0 if it has any: no file shares memory with another or with a
\* block nobody finds, no overwrite, deletion or failed creation leaks a block,
\* and no slot keeps a pointer to freed memory.
BlocksAccounted ==
    LET used == UsedIn(heap.blocks)
        ram0 == {Boot.ptr} \ {NULL}
        data == {ramfiles[s].data : s \in Named}
    IN  /\ {PtrOf(heap.blocks[i]) : i \in used} = data \cup leaked \cup ram0
        /\ Cardinality(used) = Cardinality(Named) + Cardinality(leaked) + Cardinality(ram0)

\* A block holds its text and the terminating 0 that ramcat relies on.
DataFits ==
    \A s \in Named :
        \E i \in DOMAIN heap.blocks :
            /\ PtrOf(heap.blocks[i]) = ramfiles[s].data
            /\ heap.blocks[i].size >= ramfiles[s].size + 1

\* raminfo's count is the number of files plus one for each creation that
\* found a slot but no memory and one for each file of the empty name: it never
\* falls below the files there are, so ramls never says "(empty)" while a file
\* exists (commands.c:432).
CountAccounted ==
    ramfile_count = Cardinality(Named) + failures + Cardinality(leaked)

\* A file of the abstract store reads as the memory its slot points to.
Content(name) ==
    IF Matching(name) = {}
    THEN Absent
    ELSE LET f == ramfiles[FirstSlot(Matching(name))]
         IN  IF f.data \in DOMAIN memory /\ memory[f.data].size = f.size
             THEN memory[f.data]
             ELSE Garbage

Abstract ==
    INSTANCE FileStore WITH
        Name <- Names, Text <- Texts, Absent <- Absent, NoName <- NoName,
        content <- [n \in Names |-> Content(n)]

ImplementsFileStore == Abstract!Spec
=============================================================================
