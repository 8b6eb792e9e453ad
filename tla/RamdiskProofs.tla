----------------------------- MODULE RamdiskProofs -----------------------------
(* What holds of the ramdisk for every table, every memory map and every     *)
(* history of creations, overwrites, deletions and tests of memory, those of *)
(* files with the empty name included: the blocks of the heap are the data   *)
(* of the files and what the empty name leaks, each file reads back as it    *)
(* was written, and the table implements FileStore.                          *)
EXTENDS Ramdisk, HeapOpsProofs

-----------------------------------------------------------------------------
(* The table, the memory its slots point to and the regions of the heap.     *)

Slot == [name : Names \cup {NoName}, data : Nat, size : Nat]

NamedIn(t) == {s \in Slots : t[s].name # NoName}

\* No file has the name.
Nameless(t, name) == \A s \in NamedIn(t) : t[s].name # name

Starts(regions) == {g.start : g \in regions}

\* Each file has a name and a region of its own, large enough for its text and
\* the terminating 0, and its text is what was copied there; the only other
\* regions are those lost to files of the empty name and that of ram0, if it
\* has one.
Tabled(t, mem, regions, ram0, lost) ==
    /\ t \in [Slots -> Slot]
    /\ \A r, s \in NamedIn(t) : t[r].name = t[s].name => r = s
    /\ \A r, s \in NamedIn(t) : t[r].data = t[s].data => r = s
    /\ \A s \in NamedIn(t) : t[s].data # NULL /\ t[s].data # ram0 /\ t[s].data \notin lost
    /\ Starts(regions) = {t[s].data : s \in NamedIn(t)} \cup lost \cup ({ram0} \ {NULL})
    /\ IsFiniteSet(lost) /\ NULL \notin lost /\ ram0 \notin lost
    /\ \A s \in NamedIn(t), g \in regions :
          g.start = t[s].data => g.size >= t[s].size + 1
    /\ \A s \in NamedIn(t) : /\ t[s].data \in DOMAIN mem
                             /\ mem[t[s].data] \in Texts
                             /\ mem[t[s].data].size = t[s].size

\* The files, with those of the empty name.
Files(t, lost) == Cardinality(NamedIn(t)) + Cardinality(lost)

\* Boot's heap grew out of an empty one, and every later heap out of it.
IInv ==
    /\ \E own : HeapFine(heap, pmm, own)
    /\ Tabled(ramfiles, memory, Regions(heap.blocks), Boot.ptr, leaked)
    /\ failures \in Nat
    /\ ramfile_count = Files(ramfiles, leaked) + failures

-----------------------------------------------------------------------------
(* What the operations do to the table.                                      *)

\* Table u is table t with e in slot i.
Stored(t, i, e, u) == u = [t EXCEPT ![i] = e]

\* Memory with a text copied to ptr.
CopiedTo(mem, ptr, text) ==
    [q \in DOMAIN mem \cup {ptr} |-> IF q = ptr THEN text ELSE mem[q]]

\* The slot of a file.
FileSlot(e, name, ptr, size) ==
    e \in Slot /\ e.name = name /\ e.data = ptr /\ e.size = size

\* No region starts at the pointer.
Vacant(regions, ptr) == \A g \in regions : g.start # ptr

\* What is left of the regions when the one at ptr is freed, and what there is
\* of them when one is taken there.
Without(regions, ptr) == {g \in regions : g.start # ptr}
Plus(regions, ptr, size) == regions \cup {[start |-> ptr, size |-> size]}

\* The files are the same in both tables, and so are their texts.
SameFiles(t, mem, u, mem2) ==
    /\ NamedIn(u) = NamedIn(t)
    /\ \A s \in NamedIn(t) : u[s] = t[s] /\ mem2[t[s].data] = mem[t[s].data]

\* Clearing a slot and freeing its contents leaves a table and a heap that
\* agree.
LEMMA TableCleared ==
    ASSUME NEW t, NEW mem, NEW regions, NEW ram0, NEW lost,
           Tabled(t, mem, regions, ram0, lost),
           Vacant(regions, NULL),
           NEW i \in Slots, NEW e \in Slot, e.name = NoName,
           NEW old, \/ i \in NamedIn(t) /\ old = t[i].data
                    \/ i \notin NamedIn(t) /\ old = NULL,
           NEW u, Stored(t, i, e, u)
    PROVE  /\ Tabled(u, mem, Without(regions, old), ram0, lost)
           /\ NamedIn(u) = NamedIn(t) \ {i}
<1> DEFINE left == Without(regions, old)
           N == NamedIn(t)
           M == NamedIn(u)
<1>1. /\ t \in [Slots -> Slot]
      /\ \A r, s \in N : t[r].name = t[s].name => r = s
      /\ \A r, s \in N : t[r].data = t[s].data => r = s
      /\ \A s \in N : t[s].data # NULL /\ t[s].data # ram0 /\ t[s].data \notin lost
      /\ Starts(regions) = {t[s].data : s \in N} \cup lost \cup ({ram0} \ {NULL})
      /\ IsFiniteSet(lost) /\ NULL \notin lost /\ ram0 \notin lost
      /\ \A s \in N, g \in regions : g.start = t[s].data => g.size >= t[s].size + 1
      /\ \A s \in N : /\ t[s].data \in DOMAIN mem
                      /\ mem[t[s].data] \in Texts
                      /\ mem[t[s].data].size = t[s].size
    BY DEF Tabled
<1>2. /\ u \in [Slots -> Slot] /\ u[i] = e
      /\ \A s \in Slots : s # i => u[s] = t[s]
    BY <1>1 DEF Stored
<1>3. M = N \ {i}
    BY <1>2 DEF NamedIn
<1>4. \A s \in M : s \in N /\ u[s] = t[s] /\ s # i
    BY <1>2, <1>3 DEF NamedIn
<1> HIDE DEF M, N
<1>5. Starts(left) = Starts(regions) \ {old}
    BY DEF Starts, Without
<1>6. Starts(left) = {u[s].data : s \in M} \cup lost \cup ({ram0} \ {NULL})
  <2>1. \A s \in M : u[s].data = t[s].data
    BY <1>4
  <2> DEFINE A == {t[s].data : s \in N}
             B == {u[s].data : s \in M}
  <2>2. B = A \ {old}
    <3>1. CASE i \in N /\ old = t[i].data
      BY <1>1, <1>3, <2>1, <3>1
    <3>2. CASE i \notin N /\ old = NULL
      BY <1>1, <1>3, <2>1, <3>2
    <3>3. QED
      BY <3>1, <3>2 DEF N
  <2>3. old \notin {ram0} \ {NULL} /\ old \notin lost
    BY <1>1 DEF N
  <2>4. Starts(regions) = A \cup lost \cup ({ram0} \ {NULL})
    BY <1>1
  <2> HIDE DEF A, B
  <2>5. QED
    BY <1>5, <2>2, <2>3, <2>4 DEF B
<1>7. /\ \A r, s \in M : u[r].name = u[s].name => r = s
      /\ \A r, s \in M : u[r].data = u[s].data => r = s
      /\ \A s \in M : u[s].data # NULL /\ u[s].data # ram0 /\ u[s].data \notin lost
    BY <1>1, <1>4
<1>8. \A s \in M, g \in left : g.start = u[s].data => g.size >= u[s].size + 1
    BY <1>1, <1>4 DEF Without
<1>9. \A s \in M : /\ u[s].data \in DOMAIN mem
                   /\ mem[u[s].data] \in Texts
                   /\ mem[u[s].data].size = u[s].size
    BY <1>1, <1>4
<1>10. Tabled(u, mem, left, ram0, lost)
    BY <1>1, <1>2, <1>6, <1>7, <1>8, <1>9 DEF Tabled, M
<1>11. QED
    BY <1>3, <1>10 DEF M, N

\* Filling a free slot with a new block and its text leaves a table and a heap
\* that agree.
LEMMA TableFilled ==
    ASSUME NEW t, NEW mem, NEW regions, NEW ram0, NEW lost,
           Tabled(t, mem, regions, ram0, lost),
           NEW i \in Slots, i \notin NamedIn(t),
           NEW name \in Names, name # NoName, Nameless(t, name),
           NEW text \in Texts, text.size \in Nat,
           NEW ptr \in Nat \ {0}, Vacant(regions, ptr),
           NEW size \in Nat, size >= text.size + 1,
           NEW e, FileSlot(e, name, ptr, text.size),
           NEW u, Stored(t, i, e, u)
    PROVE  /\ Tabled(u, CopiedTo(mem, ptr, text), Plus(regions, ptr, size), ram0, lost)
           /\ NamedIn(u) = NamedIn(t) \cup {i}
<1> DEFINE more == Plus(regions, ptr, size)
           mem2 == CopiedTo(mem, ptr, text)
           new == [start |-> ptr, size |-> size]
           N == NamedIn(t)
           M == NamedIn(u)
<1>1. /\ t \in [Slots -> Slot]
      /\ \A r, s \in N : t[r].name = t[s].name => r = s
      /\ \A r, s \in N : t[r].data = t[s].data => r = s
      /\ \A s \in N : t[s].data # NULL /\ t[s].data # ram0 /\ t[s].data \notin lost
      /\ Starts(regions) = {t[s].data : s \in N} \cup lost \cup ({ram0} \ {NULL})
      /\ IsFiniteSet(lost) /\ NULL \notin lost /\ ram0 \notin lost
      /\ \A s \in N, g \in regions : g.start = t[s].data => g.size >= t[s].size + 1
      /\ \A s \in N : /\ t[s].data \in DOMAIN mem
                      /\ mem[t[s].data] \in Texts
                      /\ mem[t[s].data].size = t[s].size
    BY DEF Tabled
<1>2. e \in Slot /\ e.name = name /\ e.data = ptr /\ e.size = text.size
    BY DEF FileSlot
<1>3. /\ u \in [Slots -> Slot] /\ u[i] = e
      /\ \A s \in Slots : s # i => u[s] = t[s]
    BY <1>1, <1>2 DEF Stored
<1>4. new.start = ptr /\ new.size = size /\ more = regions \cup {new}
    BY DEF Plus
<1> HIDE DEF new, more
<1>5. M = N \cup {i} /\ i \notin N
    BY <1>2, <1>3 DEF NamedIn
<1>6. \A s \in N : s \in Slots /\ u[s] = t[s] /\ s # i
    BY <1>3 DEF NamedIn
<1>7. \A s \in N : t[s].name # name
    BY DEF Nameless
<1> HIDE DEF M, N
<1>8. Starts(more) = Starts(regions) \cup {ptr} /\ ptr \notin Starts(regions)
    BY <1>4 DEF Starts, Vacant
<1>9. /\ \A s \in N : t[s].data # ptr
      /\ ptr # ram0 /\ ptr # NULL /\ ptr \notin lost
    BY <1>1, <1>8 DEF NULL
<1>10. Starts(more) = {u[s].data : s \in M} \cup lost \cup ({ram0} \ {NULL})
  <2> DEFINE A == {t[s].data : s \in N}
             B == {u[s].data : s \in M}
  <2>1. \A s \in N : u[s].data = t[s].data
    BY <1>6
  <2>2. B = A \cup {ptr}
    BY <1>2, <1>3, <1>5, <2>1
  <2>3. Starts(regions) = A \cup lost \cup ({ram0} \ {NULL})
    BY <1>1
  <2> HIDE DEF A, B
  <2>4. QED
    BY <1>8, <2>2, <2>3 DEF B
<1>11. \A r, s \in M : u[r].name = u[s].name => r = s
    BY <1>1, <1>2, <1>3, <1>5, <1>6, <1>7
<1>12. \A r, s \in M : u[r].data = u[s].data => r = s
    BY <1>1, <1>2, <1>3, <1>5, <1>6, <1>9
<1>13. \A s \in M : u[s].data # NULL /\ u[s].data # ram0 /\ u[s].data \notin lost
    BY <1>1, <1>2, <1>3, <1>5, <1>6, <1>9
<1>14. ASSUME NEW s \in M, NEW g \in more, g.start = u[s].data
       PROVE  g.size >= u[s].size + 1
  <2>1. CASE s = i
    <3>1. u[s].data = ptr /\ u[s].size = text.size
      BY <1>2, <1>3, <2>1
    <3>2. g = new
      BY <1>4, <1>14, <3>1 DEF Starts, Vacant
    <3>3. QED
      BY <1>4, <3>1, <3>2
  <2>2. CASE s # i
    <3>1. s \in N /\ u[s] = t[s]
      BY <1>5, <1>6, <2>2
    <3>2. g \in regions
      BY <1>4, <1>9, <1>14, <3>1
    <3>3. QED
      BY <1>1, <1>14, <3>1, <3>2
  <2>3. QED
    BY <2>1, <2>2
<1>15. ASSUME NEW s \in M
       PROVE  /\ u[s].data \in DOMAIN mem2
              /\ mem2[u[s].data] \in Texts
              /\ mem2[u[s].data].size = u[s].size
  <2>1. /\ DOMAIN mem2 = DOMAIN mem \cup {ptr} /\ mem2[ptr] = text
        /\ \A q \in DOMAIN mem : q # ptr => mem2[q] = mem[q]
    BY DEF CopiedTo
  <2> HIDE DEF mem2
  <2>2. CASE s = i
    BY <1>2, <1>3, <2>1, <2>2
  <2>3. CASE s # i
    <3>1. s \in N /\ u[s] = t[s]
      BY <1>5, <1>6, <2>3
    <3>2. mem2[t[s].data] = mem[t[s].data] /\ t[s].data \in DOMAIN mem2
      BY <1>1, <1>9, <2>1, <3>1
    <3>3. QED
      BY <1>1, <3>1, <3>2
  <2>4. QED
    BY <2>2, <2>3
<1>16. Tabled(u, mem2, more, ram0, lost)
    BY <1>1, <1>3, <1>10, <1>11, <1>12, <1>13, <1>14, <1>15 DEF Tabled, M
<1>17. QED
    BY <1>5, <1>16 DEF M, N, more

\* Filling a free slot for the empty name leaves the files as they are, and a
\* block that is none of theirs.
LEMMA TableLeaked ==
    ASSUME NEW t, NEW mem, NEW regions, NEW ram0, NEW lost,
           Tabled(t, mem, regions, ram0, lost),
           NEW i \in Slots, i \notin NamedIn(t),
           NEW text, NEW size,
           NEW ptr \in Nat \ {0}, Vacant(regions, ptr),
           NEW e \in Slot, e.name = NoName,
           NEW u, Stored(t, i, e, u)
    PROVE  /\ Tabled(u, CopiedTo(mem, ptr, text), Plus(regions, ptr, size), ram0,
                     lost \cup {ptr})
           /\ SameFiles(t, mem, u, CopiedTo(mem, ptr, text))
           /\ ptr \notin lost /\ IsFiniteSet(lost)
<1> DEFINE more == Plus(regions, ptr, size)
           mem2 == CopiedTo(mem, ptr, text)
           new == [start |-> ptr, size |-> size]
           N == NamedIn(t)
<1>1. /\ t \in [Slots -> Slot]
      /\ \A r, s \in N : t[r].name = t[s].name => r = s
      /\ \A r, s \in N : t[r].data = t[s].data => r = s
      /\ \A s \in N : t[s].data # NULL /\ t[s].data # ram0 /\ t[s].data \notin lost
      /\ Starts(regions) = {t[s].data : s \in N} \cup lost \cup ({ram0} \ {NULL})
      /\ IsFiniteSet(lost) /\ NULL \notin lost /\ ram0 \notin lost
      /\ \A s \in N, g \in regions : g.start = t[s].data => g.size >= t[s].size + 1
      /\ \A s \in N : /\ t[s].data \in DOMAIN mem
                      /\ mem[t[s].data] \in Texts
                      /\ mem[t[s].data].size = t[s].size
    BY DEF Tabled
<1>2. /\ u \in [Slots -> Slot] /\ u[i] = e
      /\ \A s \in Slots : s # i => u[s] = t[s]
    BY <1>1 DEF Stored
<1>3. NamedIn(u) = N
    BY <1>2 DEF NamedIn
<1>4. \A s \in N : s \in Slots /\ s # i /\ u[s] = t[s]
    BY <1>2 DEF NamedIn
<1>5. new.start = ptr /\ more = regions \cup {new}
    BY DEF Plus
<1> HIDE DEF N, new, more
<1>6. Starts(more) = Starts(regions) \cup {ptr} /\ ptr \notin Starts(regions)
    BY <1>5 DEF Starts, Vacant
<1>7. /\ \A s \in N : t[s].data # ptr
      /\ ptr # ram0 /\ ptr # NULL /\ ptr \notin lost
    BY <1>1, <1>6 DEF NULL
<1>8. /\ DOMAIN mem2 = DOMAIN mem \cup {ptr}
      /\ \A q \in DOMAIN mem : q # ptr => mem2[q] = mem[q]
    BY DEF CopiedTo
<1> HIDE DEF mem2
<1>9. \A s \in N : mem2[t[s].data] = mem[t[s].data] /\ t[s].data \in DOMAIN mem2
    BY <1>1, <1>7, <1>8
<1>10. {u[s].data : s \in N} = {t[s].data : s \in N}
    BY <1>4
<1>11. Starts(more) = {u[s].data : s \in N} \cup (lost \cup {ptr}) \cup ({ram0} \ {NULL})
    BY <1>1, <1>6, <1>10
<1>12. \A s \in N : /\ u[s].data # NULL /\ u[s].data # ram0
                    /\ u[s].data \notin lost \cup {ptr}
    BY <1>1, <1>4, <1>7
<1>13. \A s \in N, g \in more : g.start = u[s].data => g.size >= u[s].size + 1
    BY <1>1, <1>4, <1>5, <1>7
<1>14. /\ \A r, s \in N : u[r].name = u[s].name => r = s
       /\ \A r, s \in N : u[r].data = u[s].data => r = s
    BY <1>1, <1>4
<1>15. \A s \in N : /\ u[s].data \in DOMAIN mem2
                    /\ mem2[u[s].data] \in Texts
                    /\ mem2[u[s].data].size = u[s].size
    BY <1>1, <1>4, <1>9
<1>16. /\ IsFiniteSet(lost \cup {ptr})
       /\ NULL \notin lost \cup {ptr} /\ ram0 \notin lost \cup {ptr}
    BY <1>1, <1>7, FS_AddElement
<1>17. Tabled(u, mem2, more, ram0, lost \cup {ptr})
    BY <1>2, <1>3, <1>11, <1>12, <1>13, <1>14, <1>15, <1>16 DEF Tabled
<1>18. SameFiles(t, mem, u, mem2)
    BY <1>3, <1>4, <1>9 DEF N, SameFiles
<1>19. QED
    BY <1>1, <1>7, <1>17, <1>18 DEF mem2, more

\* A block borrowed and given back is no file's.
LEMMA TableUntouched ==
    ASSUME NEW t, NEW mem, NEW regions, NEW ram0, NEW lost,
           Tabled(t, mem, regions, ram0, lost),
           NEW ptr, Vacant(regions, ptr)
    PROVE  LET mem2 == [q \in DOMAIN mem \ {ptr} |-> mem[q]]
           IN  /\ Tabled(t, mem2, regions, ram0, lost)
               /\ \A s \in NamedIn(t) : mem2[t[s].data] = mem[t[s].data]
<1> DEFINE mem2 == [q \in DOMAIN mem \ {ptr} |-> mem[q]]
<1>1. \A s \in NamedIn(t) : t[s].data # ptr /\ t[s].data \in DOMAIN mem
  <2>1. \A s \in NamedIn(t) : t[s].data \in Starts(regions) /\ t[s].data \in DOMAIN mem
    BY DEF Tabled
  <2>2. QED
    BY <2>1 DEF Starts, Vacant
<1>2. \A s \in NamedIn(t) : t[s].data \in DOMAIN mem2 /\ mem2[t[s].data] = mem[t[s].data]
    BY <1>1
<1> HIDE DEF mem2
<1>3. Tabled(t, mem2, regions, ram0, lost)
    BY <1>2 DEF Tabled
<1>4. QED
    BY <1>2, <1>3 DEF mem2

-----------------------------------------------------------------------------
(* What the files read back as.                                              *)

\* Content, of any table and memory.
Reads(t, mem, n) ==
    LET S == {s \in Slots : t[s].name # NoName /\ t[s].name = n}
        f == t[FirstSlot(S)]
    IN  IF S = {}
        THEN Absent
        ELSE IF f.data \in DOMAIN mem /\ mem[f.data].size = f.size
             THEN mem[f.data]
             ELSE Garbage

\* Reading a name gives what its pointer holds, or nothing.
LEMMA ReadsIs ==
    ASSUME NEW t, NEW mem, NEW regions, NEW ram0, NEW lost,
           Tabled(t, mem, regions, ram0, lost), NEW n
    PROVE  /\ \A s \in NamedIn(t) : t[s].name = n => Reads(t, mem, n) = mem[t[s].data]
           /\ (\A s \in NamedIn(t) : t[s].name # n) => Reads(t, mem, n) = Absent
<1> DEFINE S == {s \in Slots : t[s].name # NoName /\ t[s].name = n}
<1>1. ASSUME NEW s \in NamedIn(t), t[s].name = n
      PROVE  Reads(t, mem, n) = mem[t[s].data]
  <2>1. s \in S /\ \A r \in S : r \in NamedIn(t) /\ r \in Nat
    BY <1>1 DEF NamedIn, Slots
  <2>2. \A r \in S : r = s
    BY <1>1, <2>1 DEF Tabled
  <2>3. s <= s
    BY <2>1
  <2>4. FirstSlot(S) = s
    <3> HIDE DEF S
    <3>1. s \in S /\ \A r \in S : s <= r
      BY <2>1, <2>2, <2>3
    <3>2. \A q \in S : (\A r \in S : q <= r) => q = s
      BY <2>2
    <3>3. QED
      BY <3>1, <3>2 DEF FirstSlot
  <2>5. t[s].data \in DOMAIN mem /\ mem[t[s].data].size = t[s].size
    BY <1>1 DEF Tabled
  <2>6. S # {}
    BY <2>1
  <2>7. QED
    BY <2>4, <2>5, <2>6 DEF Reads
<1>2. ASSUME \A s \in NamedIn(t) : t[s].name # n
      PROVE  Reads(t, mem, n) = Absent
  <2>1. S = {}
    BY <1>2 DEF NamedIn
  <2>2. QED
    BY <2>1 DEF Reads
<1>3. QED
    BY <1>1, <1>2

\* A file whose slot and text stay the same reads the same.
LEMMA ReadsSame ==
    ASSUME NEW t, NEW mem, NEW R, NEW ram0, NEW lost, Tabled(t, mem, R, ram0, lost),
           NEW u, NEW mem2, NEW R2, NEW ram1, NEW lost2, Tabled(u, mem2, R2, ram1, lost2),
           NEW n,
           \A s \in NamedIn(t) : t[s].name = n => /\ s \in NamedIn(u) /\ u[s] = t[s]
                                                  /\ mem2[t[s].data] = mem[t[s].data],
           \A s \in NamedIn(u) : u[s].name = n => s \in NamedIn(t) /\ u[s] = t[s]
    PROVE  Reads(u, mem2, n) = Reads(t, mem, n)
<1>1. CASE \E s \in NamedIn(t) : t[s].name = n
  <2>1. PICK s \in NamedIn(t) : t[s].name = n
    BY <1>1
  <2>2. Reads(t, mem, n) = mem[t[s].data]
    BY <2>1, ReadsIs
  <2>3. s \in NamedIn(u) /\ u[s] = t[s] /\ mem2[t[s].data] = mem[t[s].data]
    BY <2>1
  <2>4. Reads(u, mem2, n) = mem2[u[s].data]
    BY <2>1, <2>3, ReadsIs
  <2>5. QED
    BY <2>2, <2>3, <2>4
<1>2. CASE \A s \in NamedIn(t) : t[s].name # n
  <2>1. Reads(t, mem, n) = Absent
    BY <1>2, ReadsIs
  <2>2. \A s \in NamedIn(u) : u[s].name # n
    BY <1>2
  <2>3. Reads(u, mem2, n) = Absent
    BY <2>2, ReadsIs
  <2>4. QED
    BY <2>1, <2>3
<1>3. QED
    BY <1>1, <1>2

Reading(t, mem) == [n \in Names |-> Reads(t, mem, n)]

\* The contents of the abstract store are what reading gives.
LEMMA ContentReads == [n \in Names |-> Content(n)] = Reading(ramfiles, memory)
BY DEF Reading, Content, Reads, Matching

\* A name cleared reads as absent, and the others as before.
LEMMA ClearedReads ==
    ASSUME NEW t, NEW mem, NEW R, NEW ram0, NEW lost, Tabled(t, mem, R, ram0, lost),
           NEW i \in Slots, NEW e \in Slot, e.name = NoName, NEW R2,
           NEW name, \/ i \in NamedIn(t) /\ t[i].name = name
                     \/ i \notin NamedIn(t) /\ Nameless(t, name),
           NEW u, Stored(t, i, e, u),
           Tabled(u, mem, R2, ram0, lost), NamedIn(u) = NamedIn(t) \ {i}
    PROVE  /\ Reading(u, mem) = [Reading(t, mem) EXCEPT ![name] = Absent]
           /\ Nameless(u, name)
<1>1. /\ t \in [Slots -> Slot] /\ \A r, s \in NamedIn(t) : t[r].name = t[s].name => r = s
    BY DEF Tabled
<1>2. \A s \in Slots : s # i => u[s] = t[s]
    BY <1>1 DEF Stored
<1>3. Tabled(u, mem, R2, ram0, lost) /\ NamedIn(u) = NamedIn(t) \ {i}
    OBVIOUS
<1>4. \A s \in NamedIn(u) : s \in NamedIn(t) /\ s \in Slots /\ s # i /\ u[s] = t[s]
    BY <1>2, <1>3 DEF NamedIn
<1>5. Nameless(u, name)
    BY <1>1, <1>4 DEF Nameless
<1>6. Reads(u, mem, name) = Absent
    BY <1>3, <1>5, ReadsIs DEF Nameless
<1>7. ASSUME NEW n \in Names, n # name
      PROVE  Reads(u, mem, n) = Reads(t, mem, n)
  <2>1. \A s \in NamedIn(t) : t[s].name = n => s \in NamedIn(u) /\ u[s] = t[s]
    <3> SUFFICES ASSUME NEW s \in NamedIn(t), t[s].name = n
                 PROVE  s \in NamedIn(u) /\ u[s] = t[s]
        OBVIOUS
    <3>1. s # i
      BY <1>7
    <3>2. QED
      BY <1>3, <1>4, <3>1
  <2>2. QED
    BY <1>3, <1>4, <2>1, ReadsSame
<1>8. Reading(u, mem) = [Reading(t, mem) EXCEPT ![name] = Absent]
    BY <1>6, <1>7 DEF Reading
<1>9. QED
    BY <1>5, <1>8

\* A name filled reads as its text, and the others as before.
LEMMA FilledReads ==
    ASSUME NEW t, NEW mem, NEW R, NEW ram0, NEW lost, Tabled(t, mem, R, ram0, lost),
           NEW i \in Slots, i \notin NamedIn(t),
           NEW name \in Names, Nameless(t, name),
           NEW ptr, NEW text, NEW e, FileSlot(e, name, ptr, text.size),
           Vacant(R, ptr),
           NEW u, Stored(t, i, e, u),
           NEW R2, Tabled(u, CopiedTo(mem, ptr, text), R2, ram0, lost),
           NamedIn(u) = NamedIn(t) \cup {i}
    PROVE  Reading(u, CopiedTo(mem, ptr, text)) = [Reading(t, mem) EXCEPT ![name] = text]
<1> DEFINE mem2 == CopiedTo(mem, ptr, text)
<1>1. t \in [Slots -> Slot] /\ \A s \in NamedIn(t) : t[s].data \in Starts(R)
    BY DEF Tabled
<1>2. u[i] = e /\ \A s \in Slots : s # i => u[s] = t[s]
    BY <1>1 DEF Stored
<1>3. e.name = name /\ e.data = ptr
    BY DEF FileSlot
<1>4. Tabled(u, mem2, R2, ram0, lost) /\ NamedIn(u) = NamedIn(t) \cup {i}
    OBVIOUS
<1>5. mem2[ptr] = text /\ \A q \in DOMAIN mem : q # ptr => mem2[q] = mem[q]
    BY DEF CopiedTo
<1> HIDE DEF mem2
<1>6. ASSUME NEW s \in NamedIn(t)
      PROVE  /\ s \in NamedIn(u) /\ u[s] = t[s] /\ mem2[t[s].data] = mem[t[s].data]
  <2>1. s \in Slots /\ s # i
    BY DEF NamedIn
  <2>2. t[s].data # ptr
    BY <1>1 DEF Starts, Vacant
  <2>3. t[s].data \in DOMAIN mem
    BY DEF Tabled
  <2>4. QED
    BY <1>2, <1>4, <1>5, <2>1, <2>2, <2>3
<1>7. i \in NamedIn(u) /\ u[i].name = name /\ mem2[u[i].data] = text
    BY <1>2, <1>4, <1>5, <1>3
<1>8. Reads(u, mem2, name) = text
    BY <1>4, <1>7, ReadsIs
<1>9. ASSUME NEW n \in Names, n # name
      PROVE  Reads(u, mem2, n) = Reads(t, mem, n)
  <2>1. \A s \in NamedIn(u) : u[s].name = n => s \in NamedIn(t) /\ u[s] = t[s]
    BY <1>4, <1>6, <1>7, <1>9
  <2>2. QED
    BY <1>4, <1>6, <2>1, ReadsSame
<1>10. Reading(u, mem2) = [Reading(t, mem) EXCEPT ![name] = text]
    BY <1>8, <1>9 DEF Reading
<1>11. QED
    BY <1>10 DEF mem2

-----------------------------------------------------------------------------
(* The invariant is one.                                                     *)

\* The empty slot is a slot without a name.
LEMMA EmptySlotIs == EmptySlot \in Slot /\ EmptySlot.name = NoName
BY DEF EmptySlot, Slot, NULL

\* A slot cleared in two assignments.
LEMMA SlotCleared ==
    ASSUME NEW x \in Slot
    PROVE  [[x EXCEPT !.name = NoName] EXCEPT !.data = NULL]
             = [name |-> NoName, data |-> NULL, size |-> x.size]
<1> DEFINE y == [[x EXCEPT !.name = NoName] EXCEPT !.data = NULL]
           z == [name |-> NoName, data |-> NULL, size |-> x.size]
<1>1. y \in Slot /\ y.name = NoName /\ y.data = NULL /\ y.size = x.size
    BY DEF Slot, NULL
<1>2. z \in Slot /\ z.name = NoName /\ z.data = NULL /\ z.size = x.size
    BY DEF Slot, NULL
<1> HIDE DEF y, z
<1>3. y = z
    BY <1>1, <1>2 DEF Slot
<1>4. QED
    BY <1>3 DEF y, z

\* A text and its final 0 fit the block asked for.
LEMMA TextFits ==
    ASSUME NEW text \in Texts
    PROVE  /\ text.size \in Nat
           /\ DataSize(text) \in 0 .. SizeMod - 1
           /\ RoundUp(DataSize(text)) \in Nat
           /\ RoundUp(DataSize(text)) >= text.size + 1
<1>1. text.size \in 0 .. SizeMod - Word - 1 /\ SizeMod \in Nat /\ Word \in Nat \ {0}
    BY RamdiskAssumption, HeapAssumption
<1> DEFINE x == text.size   y == DataSize(text)
<1>2. y = x + 1
    BY DEF DataSize
<1> HIDE DEF x, y
<1>3. x \in Nat /\ y \in 0 .. SizeMod - 1 /\ y <= SizeMod - Word
    BY <1>1, <1>2 DEF x
<1>4. RoundUp(y) \in Nat /\ y <= RoundUp(y)
    BY <1>3, RoundUpCovers
<1>5. QED
    BY <1>2, <1>3, <1>4 DEF x, y

\* Boot leaves the invariant true.
LEMMA InitIInv == Init => IInv
<1> SUFFICES ASSUME Init PROVE IInv
    OBVIOUS
<1> DEFINE p == PmmAfter(Memmap, VmmFrames)
           t == ramfiles
           own == {} \cup (Boot.pmm.used \ p.used)
<1>1. /\ pmm = Boot.pmm /\ heap = Boot.heap
      /\ t = [i \in Slots |-> EmptySlot] /\ ramfile_count = 0 /\ failures = 0
      /\ leaked = {}
    BY DEF Init
<1>2. IsPmm(p)
    BY AfterBootIs, RamdiskAssumption
<1>3. HeapFine(HeapOff, p, {}) /\ Regions(HeapOff.blocks) = {}
    BY <1>2, HeapOffFine
<1>4. Boot = Kmalloc(HeapOff, p, RAM0_SIZE)
    BY DEF Boot, BootHeap
<1>5. Served(HeapOff, p, {}, Boot, RoundUp(RAM0_SIZE))
  <2>1. RAM0_SIZE \in 0 .. SizeMod - 1
    BY RamdiskAssumption, HeapAssumption
  <2> HIDE DEF p
  <2>2. QED
    BY <1>3, <1>4, <2>1, KmallocFine
<1>6. HeapFine(heap, pmm, own)
    BY <1>1, <1>5 DEF Served
<1>7. Starts(Regions(heap.blocks)) = {Boot.ptr} \ {NULL}
  <2>1. CASE Boot.ptr = NULL
    BY <1>1, <1>3, <1>5, <2>1 DEF Served, Starts
  <2>2. CASE Boot.ptr # NULL
    <3>1. PICK s \in Nat : Regions(heap.blocks) = {[start |-> Boot.ptr, size |-> s]}
      BY <1>1, <1>3, <1>5, <2>2 DEF Served, Given
    <3>2. QED
      BY <2>2, <3>1 DEF Starts
  <2>3. QED
    BY <2>1, <2>2
<1>8. NamedIn(t) = {} /\ t \in [Slots -> Slot]
    BY <1>1, EmptySlotIs DEF NamedIn
<1>9. Tabled(t, memory, Regions(heap.blocks), Boot.ptr, leaked)
  <2>1. IsFiniteSet(leaked) /\ leaked = {}
    BY <1>1, FS_EmptySet
  <2> HIDE DEF t
  <2>2. QED
    BY <1>7, <1>8, <2>1 DEF Tabled
<1>10. ramfile_count = Files(t, leaked) + failures /\ failures \in Nat
    BY <1>1, <1>8, FS_EmptySet DEF Files
<1>11. QED
    BY <1>6, <1>9, <1>10 DEF IInv

\* The files can be counted.
LEMMA NamedFinite ==
    ASSUME NEW t
    PROVE  IsFiniteSet(NamedIn(t)) /\ Cardinality(NamedIn(t)) \in Nat
<1>1. IsFiniteSet(Slots)
    BY RamdiskAssumption, FS_Interval DEF Slots
<1>2. NamedIn(t) \in SUBSET Slots
    BY DEF NamedIn
<1>3. QED
    BY <1>1, <1>2, FS_Subset, FS_CardinalityType

\* A slot named or cleared changes the number of files by one, or not at all.
LEMMA NamedCounts ==
    ASSUME NEW t, NEW i \in Slots
    PROVE  /\ Cardinality(NamedIn(t)) \in Nat
           /\ Cardinality(NamedIn(t) \cup {i})
                = IF i \in NamedIn(t) THEN Cardinality(NamedIn(t)) ELSE Cardinality(NamedIn(t)) + 1
           /\ Cardinality(NamedIn(t) \ {i})
                = IF i \in NamedIn(t) THEN Cardinality(NamedIn(t)) - 1 ELSE Cardinality(NamedIn(t))
<1>1. IsFiniteSet(NamedIn(t)) /\ Cardinality(NamedIn(t)) \in Nat
    BY NamedFinite
<1>2. QED
    BY <1>1, FS_AddElement, FS_RemoveElement

\* No name of a file is the empty one.
LEMMA NoNameIsNone == NoName \notin Names
BY RamdiskAssumption

\* What filling slot i for a name leaves: the name, unless it is the empty one,
\* reads as v, and the files with those of the empty name are as many as n.
Filled(name, v, n) ==
    /\ Tabled(ramfiles', memory', Regions(heap'.blocks), Boot.ptr, leaked')
    /\ Files(ramfiles', leaked') = n
    /\ Reading(ramfiles', memory') = [Reading(ramfiles, memory) EXCEPT ![name] = v]

\* Filling a slot, named or free, gives the name its text, or no file at all
\* when there is no memory for it.  The empty name gets no file, and its text a
\* block that is never given back.
LEMMA FillSlotFine ==
    ASSUME IInv,
           NEW i \in Slots, NEW name \in Names \cup {NoName}, NEW text \in Texts, NEW old,
           \/ /\ i \in NamedIn(ramfiles)
              /\ old = ramfiles[i].data
              /\ ramfiles[i].name = name
           \/ /\ i \notin NamedIn(ramfiles)
              /\ old = NULL
              /\ Nameless(ramfiles, name),
           FillSlot(i, name, text, old)
    PROVE  /\ \E own : HeapFine(heap', pmm', own)
           /\ \/ /\ result' = 0
                 /\ Filled(name, text,
                           Cardinality(NamedIn(ramfiles) \cup {i}) + Cardinality(leaked))
              \/ /\ result' = -1
                 /\ Filled(name, Absent,
                           Cardinality(NamedIn(ramfiles) \ {i}) + Cardinality(leaked))
<1> DEFINE t == ramfiles
           freed == Kfree(heap, old)
           r == Kmalloc(freed, pmm, DataSize(text))
           R == Regions(heap.blocks)
           Q == Without(R, old)
           e == [name |-> NoName, data |-> NULL, size |-> t[i].size]
           u == [t EXCEPT ![i] = e]
<1>1. PICK own : HeapFine(heap, pmm, own)
    BY DEF IInv
<1>2. Tabled(t, memory, R, Boot.ptr, leaked)
    BY DEF IInv
<1>3. HeapFine(freed, pmm, own) /\ Regions(freed.blocks) = Q
    BY <1>1, KfreeFine DEF Without
<1>4. /\ text.size \in Nat /\ DataSize(text) \in 0 .. SizeMod - 1
      /\ RoundUp(DataSize(text)) \in Nat
      /\ RoundUp(DataSize(text)) >= text.size + 1
    BY TextFits
<1>5. Served(freed, pmm, own, r, RoundUp(DataSize(text)))
  <2> HIDE DEF freed
  <2>1. QED
    BY <1>3, <1>4, KmallocFine
<1>6. heap' = r.heap /\ pmm' = r.pmm
    BY DEF FillSlot
<1>7. r.ptr = NULL => /\ ramfiles' = [ramfiles EXCEPT ![i].name = NoName, ![i].data = NULL]
                      /\ result' = -1
                      /\ memory' = memory /\ leaked' = leaked
    BY DEF FillSlot
<1>8. r.ptr # NULL => /\ ramfiles' = [ramfiles EXCEPT
                              ![i] = [name |-> name, data |-> r.ptr, size |-> text.size]]
                      /\ memory' = CopiedTo(memory, r.ptr, text)
                      /\ result' = 0
                      /\ leaked' = leaked \cup (IF name = NoName THEN {r.ptr} ELSE {})
    BY DEF FillSlot, Copied, CopiedTo
<1> HIDE DEF freed, r
<1>9. \E f : HeapFine(heap', pmm', f)
    BY <1>5, <1>6 DEF Served
<1>10. Vacant(R, NULL)
    BY <1>1, StartsNotNull DEF HeapFine, ListFine, Vacant
<1> HIDE DEF R
<1>11. t \in [Slots -> Slot] /\ t[i] \in Slot /\ t[i].size \in Nat
    BY <1>2 DEF Tabled, Slot
<1>12. e \in Slot /\ e.name = NoName
    BY <1>11 DEF Slot, NULL
<1> HIDE DEF e
<1>13. Stored(t, i, e, u)
    BY DEF Stored
<1> HIDE DEF u, Q
<1>14. Tabled(u, memory, Q, Boot.ptr, leaked) /\ NamedIn(u) = NamedIn(t) \ {i}
  <2> HIDE DEF t
  <2>1. \/ i \in NamedIn(t) /\ old = t[i].data
        \/ i \notin NamedIn(t) /\ old = NULL
    BY DEF t
  <2>2. QED
    BY <1>2, <1>10, <1>12, <1>13, <2>1, TableCleared DEF Q
<1>15. /\ Reading(u, memory) = [Reading(t, memory) EXCEPT ![name] = Absent]
       /\ Nameless(u, name)
  <2> HIDE DEF t
  <2>1. \/ i \in NamedIn(t) /\ t[i].name = name
        \/ i \notin NamedIn(t) /\ Nameless(t, name)
    BY DEF t
  <2>2. QED
    BY <1>2, <1>12, <1>14, <1>13, <2>1, ClearedReads
<1>16. CASE r.ptr = NULL
  <2>1. [ramfiles EXCEPT ![i].name = NoName, ![i].data = NULL] = u
    <3>1. [[t[i] EXCEPT !.name = NoName] EXCEPT !.data = NULL] = e
      BY <1>11, SlotCleared DEF e
    <3>2. QED
      BY <1>11, <1>13, <3>1 DEF Stored
  <2>2. ramfiles' = u /\ memory' = memory /\ result' = -1 /\ leaked' = leaked
    BY <1>7, <1>16, <2>1
  <2>3. Regions(heap'.blocks) = Q
    BY <1>3, <1>5, <1>6, <1>16 DEF Served
  <2>4. Files(ramfiles', leaked') = Cardinality(NamedIn(t) \ {i}) + Cardinality(leaked)
    BY <1>14, <2>2 DEF Files
  <2>5. QED
    BY <1>9, <1>14, <1>15, <2>2, <2>3, <2>4 DEF Filled
<1>17. CASE r.ptr # NULL
  <2> DEFINE f == [name |-> name, data |-> r.ptr, size |-> text.size]
             w == [u EXCEPT ![i] = f]
             mem2 == CopiedTo(memory, r.ptr, text)
             S == Regions(heap'.blocks)
  <2>1. Given(r.heap.blocks, freed.blocks, r.ptr, RoundUp(DataSize(text)))
    BY <1>5, <1>17 DEF Served
  <2>2. PICK s \in Nat : /\ s >= RoundUp(DataSize(text))
                         /\ S = Plus(Q, r.ptr, s)
    BY <1>3, <1>6, <2>1 DEF Given, Plus
  <2>3. r.ptr \in Nat \ {0} /\ Vacant(Q, r.ptr)
    BY <1>3, <2>1 DEF Given, Vacant
  <2>4. s >= text.size + 1
    BY <1>4, <2>2
  <2>5. i \notin NamedIn(u)
    BY <1>14
  <2>6. FileSlot(f, name, r.ptr, text.size)
    BY <1>4, <2>3 DEF FileSlot, Slot
  <2>7. f = [name |-> name, data |-> r.ptr, size |-> text.size]
    OBVIOUS
  <2> HIDE DEF f
  <2>8. Stored(u, i, f, w)
    BY DEF Stored
  <2>9. w = [t EXCEPT ![i] = f]
    BY <1>11, <1>13 DEF Stored
  <2> HIDE DEF w, S
  <2>10. ramfiles' = w /\ memory' = mem2 /\ result' = 0
    BY <1>8, <1>17, <2>7, <2>9
  <2>11. [[Reading(t, memory) EXCEPT ![name] = Absent] EXCEPT ![name] = text]
           = [Reading(t, memory) EXCEPT ![name] = text]
    BY DEF Reading
  <2>12. CASE name # NoName
    <3>1. Tabled(w, mem2, S, Boot.ptr, leaked) /\ NamedIn(w) = NamedIn(u) \cup {i}
      BY <1>4, <1>14, <1>15, <2>2, <2>3, <2>4, <2>5, <2>6, <2>8, <2>12, TableFilled
    <3>2. Reading(w, mem2) = [Reading(u, memory) EXCEPT ![name] = text]
      <4>1. Tabled(u, memory, Q, Boot.ptr, leaked) /\ Nameless(u, name)
        BY <1>14, <1>15
      <4> DEFINE q == r.ptr
      <4>2. FileSlot(f, name, q, text.size) /\ Vacant(Q, q)
        BY <2>3, <2>6
      <4>3. /\ Tabled(w, CopiedTo(memory, q, text), S, Boot.ptr, leaked)
            /\ NamedIn(w) = NamedIn(u) \cup {i}
        BY <3>1
      <4>4. mem2 = CopiedTo(memory, q, text) /\ name \in Names
        BY <2>12
      <4> HIDE DEF q, mem2, t
      <4>5. Reading(w, CopiedTo(memory, q, text)) = [Reading(u, memory) EXCEPT ![name] = text]
        BY <2>5, <2>8, <4>1, <4>2, <4>3, <4>4, FilledReads
      <4>6. QED
        BY <4>4, <4>5
    <3> HIDE DEF mem2
    <3>3. NamedIn(w) = NamedIn(t) \cup {i} /\ leaked' = leaked
      BY <1>8, <1>14, <1>17, <2>12, <3>1
    <3>4. Files(ramfiles', leaked') = Cardinality(NamedIn(t) \cup {i}) + Cardinality(leaked)
      BY <2>10, <3>3 DEF Files
    <3>5. Filled(name, text, Cardinality(NamedIn(t) \cup {i}) + Cardinality(leaked))
      BY <1>15, <2>10, <2>11, <3>1, <3>2, <3>3, <3>4 DEF S, Filled
    <3>6. QED
      BY <1>9, <2>10, <3>5
  <2>13. CASE name = NoName
    <3> DEFINE lost == leaked \cup {r.ptr}
    <3>1. f \in Slot /\ f.name = NoName
      BY <2>6, <2>13 DEF FileSlot
    <3>2. /\ Tabled(w, mem2, S, Boot.ptr, lost)
          /\ SameFiles(u, memory, w, mem2) /\ r.ptr \notin leaked /\ IsFiniteSet(leaked)
      <4> DEFINE q == r.ptr
      <4>1. /\ Tabled(u, memory, Q, Boot.ptr, leaked)
            /\ q \in Nat \ {0} /\ Vacant(Q, q) /\ i \notin NamedIn(u)
        BY <1>14, <2>3, <2>5
      <4>2. mem2 = CopiedTo(memory, q, text) /\ S = Plus(Q, q, s) /\ lost = leaked \cup {q}
        BY <2>2
      <4> HIDE DEF t, q, mem2, lost
      <4>3. /\ Tabled(w, CopiedTo(memory, q, text), Plus(Q, q, s), Boot.ptr, leaked \cup {q})
            /\ SameFiles(u, memory, w, CopiedTo(memory, q, text))
            /\ q \notin leaked /\ IsFiniteSet(leaked)
        BY <2>8, <3>1, <4>1, TableLeaked
      <4>4. QED
        BY <4>2, <4>3 DEF q
    <3> HIDE DEF mem2
    <3>3. leaked' = lost
      BY <1>8, <1>17, <2>13
    <3> HIDE DEF lost
    <3>4. \A n \in Names : Reads(w, mem2, n) = Reads(u, memory, n)
      <4>1. Tabled(u, memory, Q, Boot.ptr, leaked)
        BY <1>14
      <4> HIDE DEF t
      <4>2. QED
        BY <3>2, <4>1, ReadsSame DEF SameFiles
    <3>5. Reading(w, mem2) = [Reading(t, memory) EXCEPT ![name] = text]
      BY <1>15, <2>11, <2>13, <3>4, NoNameIsNone DEF Reading
    <3>6. Cardinality(lost) = Cardinality(leaked) + 1 /\ Cardinality(leaked) \in Nat
      BY <3>2, FS_AddElement, FS_CardinalityType DEF lost
    <3>7. NamedIn(w) = NamedIn(t) \ {i} /\ i \notin NamedIn(t)
      BY <1>14, <2>13, <3>2 DEF NamedIn, SameFiles
    <3>8. Cardinality(NamedIn(t) \cup {i}) = Cardinality(NamedIn(w)) + 1
          /\ Cardinality(NamedIn(w)) \in Nat
      <4> DEFINE M == NamedIn(t)   N == NamedIn(w)
      <4>1. Cardinality(M \cup {i}) = Cardinality(M) + 1 /\ Cardinality(M) \in Nat
        BY <3>7, NamedCounts
      <4>2. Cardinality(M \ {i}) = Cardinality(M)
        BY <3>7, NamedCounts
      <4>3. N = M \ {i}
        BY <3>7
      <4> HIDE DEF M, N
      <4>4. Cardinality(M \cup {i}) = Cardinality(N) + 1 /\ Cardinality(N) \in Nat
        BY <4>1, <4>2, <4>3
      <4>5. QED
        BY <4>4 DEF M, N
    <3>9. Files(ramfiles', leaked') = Cardinality(NamedIn(t) \cup {i}) + Cardinality(leaked)
      BY <2>10, <3>3, <3>6, <3>8 DEF Files
    <3>10. Filled(name, text, Cardinality(NamedIn(t) \cup {i}) + Cardinality(leaked))
      BY <2>10, <3>2, <3>3, <3>5, <3>9 DEF S, Filled
    <3>11. QED
      BY <1>9, <2>10, <3>10
  <2>14. QED
    BY <2>12, <2>13
<1>18. QED
    BY <1>16, <1>17

-----------------------------------------------------------------------------
(* The operations.                                                           *)

\* The first of some slots is one of them.
LEMMA FirstSlotIs ==
    ASSUME NEW S \in SUBSET Slots, S # {}
    PROVE  FirstSlot(S) \in S
<1>1. S \in SUBSET Nat
    BY RamdiskAssumption DEF Slots
<1>2. \E i \in S : \A j \in S : i <= j
    BY <1>1, LeastNatural
<1>3. QED
    BY <1>2 DEF FirstSlot

\* What Matching finds, and what there is when it finds nothing.
LEMMA MatchingIs ==
    ASSUME NEW name
    PROVE  /\ Matching(name) # {} =>
                LET i == FirstSlot(Matching(name))
                IN  /\ i \in Slots /\ i \in NamedIn(ramfiles)
                    /\ ramfiles[i].name = name
           /\ Matching(name) = {} => Nameless(ramfiles, name)
           /\ FreeSlots # {} =>
                FirstSlot(FreeSlots) \in Slots /\ FirstSlot(FreeSlots) \notin NamedIn(ramfiles)
<1>1. Matching(name) \in SUBSET Slots /\ FreeSlots \in SUBSET Slots
    BY DEF Matching, FreeSlots
<1>2. Matching(name) # {} => FirstSlot(Matching(name)) \in Matching(name)
    BY <1>1, FirstSlotIs
<1>3. FreeSlots # {} => FirstSlot(FreeSlots) \in FreeSlots
    BY <1>1, FirstSlotIs
<1>4. QED
    BY <1>2, <1>3 DEF Matching, FreeSlots, NamedIn, Nameless

\* The blocks of the empty name can be counted.
LEMMA LeakedCounts == IInv => Cardinality(leaked) \in Nat
<1>1. IInv => IsFiniteSet(leaked)
    BY DEF IInv, Tabled
<1>2. QED
    BY <1>1, FS_CardinalityType

\* What a step does to the files: the heap and the table stay well formed, the
\* count keeps up, and the name reads back as v and every other as before.
Wrote(name, v) ==
    /\ IInv'
    /\ Reading(ramfiles', memory') = [Reading(ramfiles, memory) EXCEPT ![name] = v]

\* Writing a file anew stores the text, or loses the file when there is no
\* memory.
LEMMA OverwriteFine ==
    ASSUME IInv, NEW name \in Names \cup {NoName}, NEW text \in Texts,
           Create(name, text), Overwrite(name, text)
    PROVE  \/ result' = 0 /\ Wrote(name, text)
           \/ result' = -1 /\ Wrote(name, Absent)
<1> DEFINE i == FirstSlot(Matching(name))
           N == NamedIn(ramfiles)
<1>1. /\ FillSlot(i, name, text, ramfiles[i].data) /\ ramfile_count' = ramfile_count
      /\ Matching(name) # {}
    BY DEF Overwrite
<1>2. i \in Slots /\ i \in N /\ ramfiles[i].name = name
    BY <1>1, MatchingIs
<1>3. failures' = IF result' = -1 THEN failures + 1 ELSE failures
    BY <1>1 DEF Create
<1> HIDE DEF i
<1>4. /\ \E own : HeapFine(heap', pmm', own)
      /\ \/ result' = 0 /\ Filled(name, text, Cardinality(N \cup {i}) + Cardinality(leaked))
         \/ result' = -1 /\ Filled(name, Absent, Cardinality(N \ {i}) + Cardinality(leaked))
    BY <1>1, <1>2, FillSlotFine
<1>5. /\ failures \in Nat /\ Cardinality(leaked) \in Nat
      /\ ramfile_count = Cardinality(N) + Cardinality(leaked) + failures
    BY LeakedCounts DEF IInv, Files
<1>6. /\ Cardinality(N) \in Nat /\ Cardinality(N \ {i}) = Cardinality(N) - 1
      /\ Cardinality(N \cup {i}) = Cardinality(N)
    BY <1>2, NamedCounts
<1> HIDE DEF N
<1>7. CASE result' = 0 /\ Filled(name, text, Cardinality(N \cup {i}) + Cardinality(leaked))
  <2>1. failures' = failures
    BY <1>3, <1>7
  <2>2. failures' \in Nat /\ ramfile_count' = Files(ramfiles', leaked') + failures'
    BY <1>1, <1>5, <1>6, <1>7, <2>1 DEF Filled
  <2>3. IInv'
    BY <1>4, <1>7, <2>2 DEF IInv, Filled
  <2>4. QED
    BY <1>7, <2>3 DEF Wrote, Filled
<1>8. CASE result' = -1 /\ Filled(name, Absent, Cardinality(N \ {i}) + Cardinality(leaked))
  <2>1. failures' = failures + 1
    BY <1>3, <1>8
  <2>2. failures' \in Nat /\ ramfile_count' = Files(ramfiles', leaked') + failures'
    BY <1>1, <1>5, <1>6, <1>8, <2>1 DEF Filled
  <2>3. IInv'
    BY <1>4, <1>8, <2>2 DEF IInv, Filled
  <2>4. QED
    BY <1>8, <2>3 DEF Wrote, Filled
<1>9. QED
    BY <1>4, <1>7, <1>8

\* A new file is stored, or there is no memory and none.
LEMMA CreateNewFine ==
    ASSUME IInv, NEW name \in Names \cup {NoName}, NEW text \in Texts,
           Create(name, text), CreateNew(name, text)
    PROVE  \/ result' = 0 /\ Wrote(name, text)
           \/ result' = -1 /\ Wrote(name, Absent)
<1> DEFINE i == FirstSlot(FreeSlots)
           N == NamedIn(ramfiles)
<1>1. /\ FillSlot(i, name, text, NULL) /\ ramfile_count' = ramfile_count + 1
      /\ Matching(name) = {} /\ FreeSlots # {}
    BY DEF CreateNew
<1>2. i \in Slots /\ i \notin N /\ Nameless(ramfiles, name)
    BY <1>1, MatchingIs
<1>3. failures' = IF result' = -1 THEN failures + 1 ELSE failures
    BY <1>1 DEF Create
<1> HIDE DEF i
<1>4. /\ \E own : HeapFine(heap', pmm', own)
      /\ \/ result' = 0 /\ Filled(name, text, Cardinality(N \cup {i}) + Cardinality(leaked))
         \/ result' = -1 /\ Filled(name, Absent, Cardinality(N \ {i}) + Cardinality(leaked))
    BY <1>1, <1>2, FillSlotFine
<1>5. /\ failures \in Nat /\ Cardinality(leaked) \in Nat
      /\ ramfile_count = Cardinality(N) + Cardinality(leaked) + failures
    BY LeakedCounts DEF IInv, Files
<1>6. /\ Cardinality(N) \in Nat /\ Cardinality(N \ {i}) = Cardinality(N)
      /\ Cardinality(N \cup {i}) = Cardinality(N) + 1
    BY <1>2, NamedCounts
<1> HIDE DEF N
<1>7. CASE result' = 0 /\ Filled(name, text, Cardinality(N \cup {i}) + Cardinality(leaked))
  <2>1. failures' = failures
    BY <1>3, <1>7
  <2>2. failures' \in Nat /\ ramfile_count' = Files(ramfiles', leaked') + failures'
    BY <1>1, <1>5, <1>6, <1>7, <2>1 DEF Filled
  <2>3. IInv'
    BY <1>4, <1>7, <2>2 DEF IInv, Filled
  <2>4. QED
    BY <1>7, <2>3 DEF Wrote, Filled
<1>8. CASE result' = -1 /\ Filled(name, Absent, Cardinality(N \ {i}) + Cardinality(leaked))
  <2>1. failures' = failures + 1
    BY <1>3, <1>8
  <2>2. failures' \in Nat /\ ramfile_count' = Files(ramfiles', leaked') + failures'
    BY <1>1, <1>5, <1>6, <1>8, <2>1 DEF Filled
  <2>3. IInv'
    BY <1>4, <1>8, <2>2 DEF IInv, Filled
  <2>4. QED
    BY <1>8, <2>3 DEF Wrote, Filled
<1>9. QED
    BY <1>4, <1>7, <1>8

\* A name without a file reads as Absent already.
LEMMA MissingReads ==
    ASSUME IInv, NEW name, Nameless(ramfiles, name)
    PROVE  /\ name \in Names => Reading(ramfiles, memory)[name] = Absent
           /\ Reading(ramfiles, memory) = [Reading(ramfiles, memory) EXCEPT ![name] = Absent]
<1>1. Reads(ramfiles, memory, name) = Absent
  <2>1. Tabled(ramfiles, memory, Regions(heap.blocks), Boot.ptr, leaked)
    BY DEF IInv
  <2>2. QED
    BY <2>1, ReadsIs DEF Nameless
<1>2. QED
    BY <1>1 DEF Reading

\* A full table refuses.
LEMMA TableFullFine ==
    ASSUME IInv, NEW name \in Names \cup {NoName}, NEW text \in Texts,
           Create(name, text), TableFull(name)
    PROVE  result' = -1 /\ Wrote(name, Absent)
<1>1. /\ Matching(name) = {} /\ FreeSlots = {} /\ result' = -1
      /\ UNCHANGED <<pmm, heap, memory, ramfiles, ramfile_count, leaked>>
    BY DEF TableFull
<1>2. failures' = failures
    BY <1>1 DEF Create
<1>3. Nameless(ramfiles, name)
    BY <1>1, MatchingIs
<1>4. IInv'
    BY <1>1, <1>2 DEF IInv
<1>5. QED
    BY <1>1, <1>3, <1>4, MissingReads DEF Wrote

\* ramdisk_create as a whole.
LEMMA CreateFine ==
    ASSUME IInv, NEW name \in Names \cup {NoName}, NEW text \in Texts,
           Create(name, text)
    PROVE  \/ result' = 0 /\ Wrote(name, text)
           \/ result' = -1 /\ Wrote(name, Absent)
<1>1. Overwrite(name, text) \/ CreateNew(name, text) \/ TableFull(name)
    BY DEF Create
<1>2. QED
    BY <1>1, OverwriteFine, CreateNewFine, TableFullFine

\* A file that exists is deleted.
LEMMA DeleteFine ==
    ASSUME IInv, NEW name \in Names, Delete(name)
    PROVE  /\ result' = 0 /\ Wrote(name, Absent)
           /\ Reading(ramfiles, memory)[name] # Absent
<1> DEFINE t == ramfiles
           i == FirstSlot(Matching(name))
           old == t[i].data
           R == Regions(heap.blocks)
           N == NamedIn(t)
<1>1. /\ heap' = Kfree(heap, old) /\ t' = [t EXCEPT ![i] = EmptySlot]
      /\ ramfile_count' = ramfile_count - 1 /\ result' = 0
      /\ UNCHANGED <<pmm, memory, failures, leaked>>
      /\ Matching(name) # {}
    BY DEF Delete
<1>2. i \in Slots /\ i \in N /\ t[i].name = name
    BY <1>1, MatchingIs
<1> HIDE DEF i
<1>3. PICK own : HeapFine(heap, pmm, own)
    BY DEF IInv
<1>4. /\ Tabled(t, memory, R, Boot.ptr, leaked) /\ failures \in Nat
      /\ ramfile_count = Cardinality(N) + Cardinality(leaked) + failures
      /\ Cardinality(leaked) \in Nat
    BY LeakedCounts DEF IInv, Files
<1>5. HeapFine(heap', pmm', own) /\ Regions(heap'.blocks) = Without(R, old)
    BY <1>1, <1>3, KfreeFine DEF Without
<1>6. Vacant(R, NULL)
    BY <1>3, StartsNotNull DEF HeapFine, ListFine, Vacant
<1>7. Stored(t, i, EmptySlot, t')
    BY <1>1 DEF Stored
<1>8. Tabled(t', memory, Without(R, old), Boot.ptr, leaked) /\ NamedIn(t') = N \ {i}
    BY <1>2, <1>4, <1>6, <1>7, EmptySlotIs, TableCleared
<1>9. Reading(t', memory) = [Reading(t, memory) EXCEPT ![name] = Absent]
  <2> DEFINE u == t'   e == EmptySlot   Q == Without(R, old)
  <2>1. e \in Slot /\ e.name = NoName
    BY EmptySlotIs
  <2>2. /\ Stored(t, i, e, u) /\ Tabled(t, memory, R, Boot.ptr, leaked)
        /\ Tabled(u, memory, Q, Boot.ptr, leaked) /\ NamedIn(u) = NamedIn(t) \ {i}
    BY <1>4, <1>7, <1>8
  <2>3. i \in Slots /\ i \in NamedIn(t) /\ t[i].name = name
    BY <1>2
  <2> HIDE DEF u, e, Q, R
  <2>4. Reading(u, memory) = [Reading(t, memory) EXCEPT ![name] = Absent]
    BY <2>1, <2>2, <2>3, ClearedReads
  <2>5. QED
    BY <2>4 DEF u
<1>10. Cardinality(N) \in Nat /\ Cardinality(N \ {i}) = Cardinality(N) - 1
    BY <1>2, NamedCounts
<1>11. failures' \in Nat /\ ramfile_count' = Files(t', leaked') + failures'
  <2>1. Files(t', leaked') = Cardinality(N) - 1 + Cardinality(leaked)
    BY <1>1, <1>8, <1>10 DEF Files
  <2>2. failures' = failures /\ ramfile_count' = ramfile_count - 1
    BY <1>1
  <2> HIDE DEF N, t
  <2>3. QED
    BY <1>4, <1>10, <2>1, <2>2
<1>12. IInv'
  <2>1. Tabled(t', memory', Regions(heap'.blocks), Boot.ptr, leaked')
    BY <1>1, <1>5, <1>8
  <2>2. QED
    BY <1>5, <1>11, <2>1 DEF IInv
<1>13. Reading(t, memory)[name] # Absent
  <2>1. Reads(t, memory, name) = memory[old]
    BY <1>2, <1>4, ReadsIs
  <2>2. memory[old] \in Texts
    BY <1>2, <1>4 DEF Tabled
  <2>3. QED
    BY <2>1, <2>2, RamdiskAssumption DEF Reading
<1>14. QED
    BY <1>1, <1>9, <1>12, <1>13 DEF Wrote

\* A file that does not exist is not, and nothing changes.
LEMMA DeleteMissingFine ==
    ASSUME IInv, NEW name \in Names, DeleteMissing(name)
    PROVE  /\ result' = -1 /\ IInv'
           /\ Reading(ramfiles', memory') = Reading(ramfiles, memory)
           /\ Reading(ramfiles, memory)[name] = Absent
<1>1. /\ Matching(name) = {} /\ result' = -1
      /\ UNCHANGED <<pmm, heap, memory, ramfiles, ramfile_count, failures, leaked>>
    BY DEF DeleteMissing
<1>2. IInv'
    BY <1>1 DEF IInv
<1>3. Nameless(ramfiles, name)
    BY <1>1, MatchingIs
<1>4. QED
    BY <1>1, <1>2, <1>3, MissingReads

\* Whatever memtest writes to a block of its own, no file reads differently.
LEMMA MemtestFine ==
    ASSUME IInv, NEW size \in TestSizes, Memtest(size)
    PROVE  /\ asked' = asked /\ result' = result /\ IInv'
           /\ Reading(ramfiles', memory') = Reading(ramfiles, memory)
<1> DEFINE t == ramfiles
           r == Kmalloc(heap, pmm, size)
           g == Kfree(r.heap, r.ptr)
           R == Regions(heap.blocks)
           ptr == r.ptr
           mem2 == [q \in DOMAIN memory \ {ptr} |-> memory[q]]
<1>1. /\ heap' = g /\ pmm' = r.pmm /\ memory' = mem2
      /\ UNCHANGED <<ramfiles, ramfile_count, asked, result, failures, leaked>>
    BY DEF Memtest
<1>2. PICK own : HeapFine(heap, pmm, own)
    BY DEF IInv
<1>3. Tabled(t, memory, R, Boot.ptr, leaked)
    BY DEF IInv
<1>4. Served(heap, pmm, own, r, RoundUp(size))
  <2>1. size \in 0 .. SizeMod - 1
    BY RamdiskAssumption
  <2>2. QED
    BY <1>2, <2>1, KmallocFine
<1> HIDE DEF r
<1>5. PICK f : HeapFine(r.heap, r.pmm, f)
    BY <1>4 DEF Served
<1>6. HeapFine(g, r.pmm, f) /\ Regions(g.blocks) = Without(Regions(r.heap.blocks), ptr)
    BY <1>5, KfreeFine DEF Without
<1> HIDE DEF g
<1>7. Vacant(R, NULL)
    BY <1>2, StartsNotNull DEF HeapFine, ListFine, Vacant
<1>8. Vacant(R, ptr) /\ Regions(g.blocks) = R
  <2>1. CASE ptr = NULL
    BY <1>4, <1>6, <1>7, <2>1 DEF Served, Vacant, Without
  <2>2. CASE ptr # NULL
    <3>1. PICK s \in Nat : Regions(r.heap.blocks) = R \cup {[start |-> ptr, size |-> s]}
      BY <1>4, <2>2 DEF Served, Given
    <3>2. Vacant(R, ptr)
      BY <1>4, <2>2 DEF Served, Given, Vacant
    <3> HIDE DEF R
    <3>3. QED
      BY <1>6, <3>1, <3>2 DEF Vacant, Without
  <2>3. QED
    BY <2>1, <2>2
<1> HIDE DEF R, ptr
<1>9. Tabled(t, mem2, R, Boot.ptr, leaked) /\ \A s \in NamedIn(t) : mem2[t[s].data] = memory[t[s].data]
    BY <1>3, <1>8, TableUntouched
<1> HIDE DEF mem2
<1>10. ASSUME NEW n \in Names
       PROVE  Reads(t, mem2, n) = Reads(t, memory, n)
    BY <1>3, <1>9, ReadsSame
<1>11. IInv'
    BY <1>1, <1>6, <1>8, <1>9 DEF IInv, R
<1>12. QED
    BY <1>1, <1>10, <1>11 DEF Reading

\* Every step keeps the invariant.
LEMMA NextIInv ==
    ASSUME IInv, [Next]_vars
    PROVE  IInv'
<1>1. CASE \E name \in Names \cup {NoName}, text \in Texts : Create(name, text)
    BY <1>1, CreateFine DEF Wrote
<1>2. CASE \E name \in Names : Delete(name)
    BY <1>2, DeleteFine DEF Wrote
<1>3. CASE \E name \in Names : DeleteMissing(name)
    BY <1>3, DeleteMissingFine
<1>4. CASE \E size \in TestSizes : Memtest(size)
    BY <1>4, MemtestFine
<1>5. CASE UNCHANGED vars
    BY <1>5 DEF vars, IInv
<1>6. QED
    BY <1>1, <1>2, <1>3, <1>4, <1>5 DEF Next

-----------------------------------------------------------------------------
(* The theorems.                                                             *)

\* The invariant holds in every behaviour.
THEOREM RamdiskInvariant ==
    Spec => []IInv
<1>1. Init => IInv
    BY InitIInv
<1>2. IInv /\ [Next]_vars => IInv'
    BY NextIInv
<1>3. QED
    BY <1>1, <1>2, PTL DEF Spec

\* A function that tells elements apart has as many values as arguments.
LEMMA ImageCounts ==
    ASSUME NEW S, IsFiniteSet(S), NEW f, f = [x \in S |-> f[x]],
           \A x, y \in S : f[x] = f[y] => x = y
    PROVE  /\ IsFiniteSet({f[x] : x \in S})
           /\ Cardinality({f[x] : x \in S}) = Cardinality(S)
<1> DEFINE T == {f[x] : x \in S}
<1>1. f \in Surjection(S, T) /\ f \in Injection(S, T)
  <2>1. f \in [S -> T]
    OBVIOUS
  <2>2. \A z \in T : \E x \in S : f[x] = z
    OBVIOUS
  <2> HIDE DEF T
  <2>3. QED
    BY <2>1, <2>2 DEF Surjection, Injection, IsInjective
<1> HIDE DEF T
<1>2. IsFiniteSet(T) /\ Cardinality(T) = Cardinality(S)
    BY <1>1, FS_Surjection
<1>3. QED
    BY <1>2 DEF T

\* No file shares memory with another, nothing leaks but what is written to the
\* empty name, and no slot points to memory that was given back: the used
\* blocks of the heap are the data of the files, the blocks of the empty name
\* and the storage of ram0, one each.
THEOREM RamdiskBlocksAccounted ==
    Spec => []BlocksAccounted
<1>1. ASSUME IInv PROVE BlocksAccounted
  <2> DEFINE b == heap.blocks
             used == UsedIn(b)
             ram0 == {Boot.ptr} \ {NULL}
             p == [i \in used |-> PtrOf(b[i])]
             d == [s \in Named |-> ramfiles[s].data]
             P == {p[i] : i \in used}
             D == {d[s] : s \in Named}
             E == D \cup leaked
  <2>1. ListFine(b) /\ b \in Seq(Block) /\ Ordered(b)
    BY <1>1 DEF IInv, HeapFine, ListFine
  <2>2. Tabled(ramfiles, memory, Regions(b), Boot.ptr, leaked)
    BY <1>1 DEF IInv
  <2>3. Named = NamedIn(ramfiles)
    BY DEF Named, NamedIn
  <2>4. IsFiniteSet(used) /\ IsFiniteSet(Named) /\ IsFiniteSet(leaked)
    <3>1. used \in SUBSET (1 .. Len(b)) /\ Len(b) \in Int
      BY <2>1 DEF UsedIn
    <3>2. Named \in SUBSET (1 .. MaxFiles)
      BY DEF Named, Slots
    <3>3. IsFiniteSet(1 .. Len(b)) /\ IsFiniteSet(1 .. MaxFiles)
      BY <3>1, FS_Interval, RamdiskAssumption
    <3>4. IsFiniteSet(leaked)
      BY <2>2 DEF Tabled
    <3>5. QED
      BY <3>1, <3>2, <3>3, <3>4, FS_Subset
  <2>5. Starts(Regions(b)) = P
    <3>1. \A i \in used : p[i] = [start |-> PtrOf(b[i]), size |-> b[i].size].start
      OBVIOUS
    <3> HIDE DEF p
    <3>2. QED
      BY <3>1 DEF Starts, Regions
  <2>6. Starts(Regions(b)) = {ramfiles[s].data : s \in Named} \cup leaked \cup ram0
    BY <2>2, <2>3 DEF Tabled
  <2>7. P = {PtrOf(b[i]) : i \in used} /\ D = {ramfiles[s].data : s \in Named}
    OBVIOUS
  <2>8. \A i, j \in used : p[i] = p[j] => i = j
    BY <2>1, PointersDiffer DEF UsedIn
  <2>9. \A r, s \in Named : d[r] = d[s] => r = s
    BY <2>2, <2>3 DEF Tabled
  <2>10. p = [i \in used |-> p[i]] /\ d = [s \in Named |-> d[s]]
    OBVIOUS
  <2>11. Boot.ptr \notin D \cup leaked /\ D \cap leaked = {}
    BY <2>2, <2>3 DEF Tabled
  <2> HIDE DEF p, d, used
  <2>12. /\ Cardinality(P) = Cardinality(used) /\ Cardinality(D) = Cardinality(Named)
         /\ IsFiniteSet(D)
    BY <2>4, <2>8, <2>9, <2>10, ImageCounts
  <2> HIDE DEF P, D
  <2>13. /\ IsFiniteSet(E) /\ Cardinality(E) \in Nat
         /\ Cardinality(E) = Cardinality(Named) + Cardinality(leaked)
    <3>1. /\ IsFiniteSet(D \cup leaked)
          /\ Cardinality(D \cup leaked)
               = Cardinality(D) + Cardinality(leaked) - Cardinality(D \cap leaked)
      BY <2>4, <2>12, FS_Union
    <3>2. Cardinality(D \cap leaked) = 0
      BY <2>11, FS_EmptySet
    <3>3. Cardinality(D) \in Nat /\ Cardinality(leaked) \in Nat
      BY <2>4, <2>12, FS_CardinalityType
    <3>4. QED
      BY <2>12, <3>1, <3>2, <3>3
  <2> HIDE DEF E
  <2>14. Cardinality(used) = Cardinality(Named) + Cardinality(leaked) + Cardinality(ram0)
    <3>1. CASE Boot.ptr = NULL
      <4>1. ram0 = {} /\ P = E
        BY <2>5, <2>6, <2>7, <3>1 DEF E
      <4>2. Cardinality(ram0) = 0 /\ Cardinality(P) = Cardinality(E)
        BY <4>1, FS_EmptySet
      <4> HIDE DEF ram0
      <4>3. QED
        BY <2>12, <2>13, <4>2
    <3>2. CASE Boot.ptr # NULL
      <4>1. ram0 = {Boot.ptr} /\ P = E \cup {Boot.ptr} /\ Boot.ptr \notin E
        BY <2>5, <2>6, <2>7, <2>11, <3>2 DEF E
      <4>2. Cardinality(P) = Cardinality(E) + 1
        BY <2>13, <4>1, FS_AddElement
      <4>3. Cardinality(ram0) = 1
        BY <4>1, FS_Singleton
      <4> HIDE DEF ram0
      <4>4. QED
        BY <2>12, <2>13, <4>2, <4>3
    <3>3. QED
      BY <3>1, <3>2
  <2>15. QED
    BY <2>5, <2>6, <2>7, <2>14 DEF BlocksAccounted, used
<1>2. IInv => BlocksAccounted
    BY <1>1
<1>3. QED
    BY <1>2, RamdiskInvariant, PTL

\* The block of a file holds its text and the terminating 0.
THEOREM RamdiskDataFits ==
    Spec => []DataFits
<1>1. ASSUME IInv PROVE DataFits
  <2> DEFINE b == heap.blocks
  <2>1. Tabled(ramfiles, memory, Regions(b), Boot.ptr, leaked) /\ Named = NamedIn(ramfiles)
    BY <1>1 DEF IInv, Named, NamedIn
  <2>2. ASSUME NEW s \in Named
        PROVE  \E i \in DOMAIN b : /\ PtrOf(b[i]) = ramfiles[s].data
                                   /\ b[i].size >= ramfiles[s].size + 1
    <3>1. ramfiles[s].data \in Starts(Regions(b))
      BY <2>1 DEF Tabled
    <3>2. PICK g \in Regions(b) : g.start = ramfiles[s].data
      BY <3>1 DEF Starts
    <3>3. g.size >= ramfiles[s].size + 1
      BY <2>1, <3>2 DEF Tabled
    <3>4. PICK i \in UsedIn(b) : g = [start |-> PtrOf(b[i]), size |-> b[i].size]
      BY DEF Regions
    <3>5. QED
      BY <3>2, <3>3, <3>4 DEF UsedIn
  <2>3. QED
    BY <2>2 DEF DataFits
<1>2. IInv => DataFits
    BY <1>1
<1>3. QED
    BY <1>2, RamdiskInvariant, PTL

\* raminfo's count is the number of files, of the creations that failed after
\* they had found a slot, and of the files of the empty name.
THEOREM RamdiskCountAccounted ==
    Spec => []CountAccounted
<1>1. ASSUME IInv PROVE CountAccounted
  <2>1. ramfile_count = Cardinality(Named) + Cardinality(leaked) + failures /\ failures \in Nat
    BY <1>1 DEF IInv, Files, Named, NamedIn
  <2>2. Cardinality(leaked) \in Nat /\ Cardinality(NamedIn(ramfiles)) \in Nat
    BY <1>1, LeakedCounts, NamedFinite
  <2>3. QED
    BY <2>1, <2>2 DEF CountAccounted, Named, NamedIn
<1>2. QED
    BY <1>1, RamdiskInvariant, PTL

\* The table implements the abstract store: a file reads back as it was last
\* written, and no operation touches another one; what is written to the empty
\* name is no file's.
THEOREM RamdiskRefinesFileStore ==
    Spec => ImplementsFileStore
<1> DEFINE content == [n \in Names |-> Content(n)]
<1>1. content = Reading(ramfiles, memory) /\ content' = Reading(ramfiles', memory')
    BY DEF Reading, Content, Reads, Matching
<1>2. Init => Abstract!Init
  <2> SUFFICES ASSUME Init PROVE Abstract!Init
      OBVIOUS
  <2>1. IInv /\ asked = NoName /\ result = 0
    BY InitIInv DEF Init
  <2>2. \A n \in Names : Nameless(ramfiles, n)
    BY EmptySlotIs DEF Init, Nameless, NamedIn
  <2>3. \A n \in Names : Reading(ramfiles, memory)[n] = Absent
    BY <2>1, <2>2, MissingReads
  <2>4. content = [n \in Names |-> Absent]
    BY <1>1, <2>3 DEF Reading
  <2>5. QED
    BY <2>1, <2>4 DEF Abstract!Init
<1>3. IInv /\ [Next]_vars => [Abstract!Next]_(Abstract!vars)
  <2> SUFFICES ASSUME IInv, [Next]_vars PROVE [Abstract!Next]_(Abstract!vars)
      OBVIOUS
  <2> HIDE DEF content
  <2>1. ASSUME NEW name \in Names \cup {NoName}, NEW text \in Texts, Create(name, text)
        PROVE  Abstract!Next
    <3>1. /\ asked' = name
          /\ \/ result' = 0 /\ content' = [content EXCEPT ![name] = text]
             \/ result' = -1 /\ content' = [content EXCEPT ![name] = Absent]
      BY <1>1, <2>1, CreateFine DEF Wrote, Create
    <3>2. CASE name \in Names
      <4>1. Abstract!Write(name, text) \/ Abstract!WriteFails(name)
        BY <3>1 DEF Abstract!Write, Abstract!WriteFails, content
      <4>2. QED
        BY <3>2, <4>1 DEF Abstract!Next
    <3>3. CASE name = NoName
      <4>1. content' = content
        BY <1>1, <3>1, <3>3, NoNameIsNone DEF Reading
      <4>2. Abstract!WriteNameless
        BY <3>1, <3>3, <4>1 DEF Abstract!WriteNameless, content
      <4>3. QED
        BY <4>2 DEF Abstract!Next
    <3>4. QED
      BY <3>2, <3>3
  <2>2. ASSUME NEW name \in Names, Delete(name)
        PROVE  Abstract!Next
    <3>1. /\ asked' = name /\ result' = 0
          /\ content' = [content EXCEPT ![name] = Absent]
          /\ content[name] # Absent
      BY <1>1, <2>2, DeleteFine DEF Wrote, Delete
    <3>2. Abstract!Delete(name)
      BY <3>1 DEF Abstract!Delete, content
    <3>3. QED
      BY <3>2 DEF Abstract!Next
  <2>3. ASSUME NEW name \in Names, DeleteMissing(name)
        PROVE  Abstract!Next
    <3>1. /\ asked' = name /\ result' = -1
          /\ content' = content /\ content[name] = Absent
      BY <1>1, <2>3, DeleteMissingFine DEF DeleteMissing
    <3>2. Abstract!DeleteFails(name)
      BY <3>1 DEF Abstract!DeleteFails, content
    <3>3. QED
      BY <3>2 DEF Abstract!Next
  <2>4. ASSUME NEW size \in TestSizes, Memtest(size)
        PROVE  UNCHANGED Abstract!vars
    <3>1. asked' = asked /\ result' = result /\ content' = content
      BY <1>1, <2>4, MemtestFine
    <3>2. QED
      BY <3>1 DEF Abstract!vars, content
  <2>5. ASSUME UNCHANGED vars
        PROVE  UNCHANGED Abstract!vars
    <3>1. asked' = asked /\ result' = result /\ content' = content
      BY <1>1, <2>5 DEF vars
    <3>2. QED
      BY <3>1 DEF Abstract!vars, content
  <2>6. QED
    BY <2>1, <2>2, <2>3, <2>4, <2>5 DEF Next
<1>4. QED
    BY <1>2, <1>3, RamdiskInvariant, PTL DEF Spec, ImplementsFileStore, Abstract!Spec
=============================================================================
