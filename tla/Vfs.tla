--------------------------------- MODULE Vfs ---------------------------------
(* The device table of fs/vfs.c and its devices: nodes are found by name,    *)
(* reads and writes go to the device behind the node.  ram0 is the one with  *)
(* storage, which vfs_init takes from the kernel heap.                       *)
(*                                                                           *)
(* What a device passes on (tty to the terminal, dmesg to the log) is the    *)
(* output of the operation; what becomes of it is the business of the        *)
(* terminal and of Dmesg.  A path is looked up without its "/dev/".          *)
EXTENDS HeapOps

CONSTANTS
    Memmap,          \* the memory map of the machine
    VmmFrames,       \* frames vmm_init takes before (main.c:117)
    VFS_MAX_NODES,   \* 64
    RAM0_SIZE,       \* 64 KiB
    UintMod,         \* 2^32: offsets and lengths are modulo this
    Byte,
    Extra,           \* nodes that are registered later, by name
    Offsets,
    Contents         \* what is written, sequences of bytes

Devices == {"null", "zero", "random", "tty", "dmesg", "ram0"}

Lengths == {Len(bytes) : bytes \in Contents}

ASSUME VfsAssumption ==
    /\ WellFormedMemmap(Memmap) /\ BitmapHosts(Memmap) # {}
    /\ VmmFrames \in Nat
    /\ VFS_MAX_NODES \in Nat /\ VFS_MAX_NODES >= Cardinality(Devices)
    /\ RAM0_SIZE \in 1 .. SizeMod - 1
    /\ UintMod \in Nat \ {0}
    /\ 0 \in Byte
    /\ Extra \subseteq [name : {node.name : node \in Extra}, dev : Devices]
    /\ Contents \subseteq Seq(Byte)
    /\ \A off \in Offsets, len \in Lengths : off \in Nat /\ off + len < UintMod

VARIABLES
    pmm, heap,    \* the statics of pmm.c and heap.c
    nodes,        \* nodes[0 .. node_count - 1], as a sequence of [name, dev]
    ram0_dev,     \* [data, size]
    storage,      \* the bytes of ram0, from 0 on
    result        \* the last operation: [dev, off, n, bytes, out]

vfs_vars == <<pmm, heap, nodes, ram0_dev, storage, result>>

Idle == [dev |-> "none", off |-> 0, n |-> 0, bytes |-> <<>>, out |-> <<>>]

\* vfs_init, the first to use the heap: storage for ram0, then the six nodes.
VfsInit ==
    /\ LET r == BootHeap(Memmap, VmmFrames, RAM0_SIZE)
       IN  /\ pmm = r.pmm
           /\ heap = r.heap
           /\ ram0_dev = [data |-> r.ptr, size |-> RAM0_SIZE]
    /\ storage = [k \in 0 .. RAM0_SIZE - 1 |-> 0]
    /\ nodes = [i \in 1 .. 6 |->
                  LET d == <<"null", "zero", "random", "tty", "dmesg", "ram0">>[i]
                  IN  [name |-> d, dev |-> d]]
    /\ result = Idle

-----------------------------------------------------------------------------
(* vfs_register and vfs_find.                                                *)

\* Faulty variants: the limit is not tested, and the node goes in front.
RegisterUnlimited(node) ==
    /\ nodes' = Append(nodes, node)
    /\ result' = Idle
    /\ UNCHANGED <<pmm, heap, ram0_dev, storage>>
RegisterInFront(node) ==
    /\ nodes' = IF Len(nodes) >= VFS_MAX_NODES THEN nodes ELSE <<node>> \o nodes
    /\ result' = Idle
    /\ UNCHANGED <<pmm, heap, ram0_dev, storage>>

\* A full table refuses the node.  Names are not compared: a second node of
\* the same name is taken, and never found.
Register(node) ==
    /\ nodes' = IF Len(nodes) >= VFS_MAX_NODES THEN nodes ELSE Append(nodes, node)
    /\ result' = Idle
    /\ UNCHANGED <<pmm, heap, ram0_dev, storage>>

Found(name) == {i \in DOMAIN nodes : nodes[i].name = name}

\* The device behind a name, "none" when there is no such node.
Find(name) ==
    IF Found(name) = {}
    THEN "none"
    ELSE nodes[CHOOSE i \in Found(name) : \A j \in Found(name) : i <= j].dev

-----------------------------------------------------------------------------
(* The devices.                                                              *)

\* How many of len bytes ram0 moves.
Clip(off, len) ==
    IF ram0_dev.data = NULL \/ off >= ram0_dev.size
    THEN 0
    ELSE IF (off + len) % UintMod > ram0_dev.size THEN ram0_dev.size - off ELSE len

\* What a read may deliver.  The generator behind random is not modelled.
Readings(dev, off, len) ==
    CASE dev = "zero"   -> {[i \in 1 .. len |-> 0]}
      [] dev = "random" -> [1 .. len -> Byte]
      [] dev = "ram0"   -> {[i \in 1 .. Clip(off, len) |-> storage[off + i - 1]]}
      [] OTHER          -> {<<>>}

\* vfs_find and vfs_read.
Read(name, off, len) ==
    /\ Find(name) # "none"
    /\ \E bytes \in Readings(Find(name), off, len) :
          result' = [dev |-> Find(name), off |-> off, n |-> Len(bytes),
                     bytes |-> bytes, out |-> <<>>]
    /\ UNCHANGED <<pmm, heap, nodes, ram0_dev, storage>>

\* Faulty variant: the answer is what was asked for.
Ram0WriteAnswersLen(off, bytes) ==
    LET n == Clip(off, Len(bytes))
    IN  /\ storage' = [k \in DOMAIN storage |->
                          IF k \in off .. off + n - 1 THEN bytes[k - off + 1] ELSE storage[k]]
        /\ result' = [dev |-> "ram0", off |-> off, n |-> Len(bytes),
                      bytes |-> <<>>, out |-> <<>>]

Ram0Write(off, bytes) ==
    LET n == Clip(off, Len(bytes))
    IN  /\ storage' = [k \in DOMAIN storage |->
                          IF k \in off .. off + n - 1 THEN bytes[k - off + 1] ELSE storage[k]]
        /\ result' = [dev |-> "ram0", off |-> off, n |-> n, bytes |-> <<>>, out |-> <<>>]

\* Every other device takes all it is given, and tty and dmesg pass it on.
OtherWrite(dev, off, bytes) ==
    /\ result' = [dev |-> dev, off |-> off, n |-> Len(bytes), bytes |-> <<>>,
                  out |-> IF dev \in {"tty", "dmesg"} THEN bytes ELSE <<>>]
    /\ UNCHANGED storage

\* vfs_find and vfs_write.
Write(name, off, bytes) ==
    /\ Find(name) # "none"
    /\ IF Find(name) = "ram0"
       THEN Ram0Write(off, bytes)
       ELSE OtherWrite(Find(name), off, bytes)
    /\ UNCHANGED <<pmm, heap, nodes, ram0_dev>>

NotFound(name) ==
    /\ Find(name) = "none"
    /\ result' = Idle
    /\ UNCHANGED <<pmm, heap, nodes, ram0_dev, storage>>

Names == Devices \cup {node.name : node \in Extra}

VfsNext ==
    \/ \E node \in Extra : Register(node)
    \/ \E name \in Names :
          \/ \E off \in Offsets : \/ \E len \in Lengths : Read(name, off, len)
                                  \/ \E bytes \in Contents : Write(name, off, bytes)
          \/ NotFound(name)

VfsSpec == VfsInit /\ [][VfsNext]_vfs_vars

-----------------------------------------------------------------------------
(* Properties.                                                               *)

VfsTypeOK ==
    /\ nodes \in Seq([name : Names, dev : Devices])
    /\ Len(nodes) <= VFS_MAX_NODES
    /\ storage \in [0 .. RAM0_SIZE - 1 -> Byte]
    /\ result.dev \in Devices \cup {"none"}
    /\ {result.bytes, result.out} \subseteq Seq(Byte)

\* Registering nodes, under new names or old ones, up to the limit of the
\* table, never changes what a name in use leads to.
ResolutionStable ==
    [][\A name \in Names : Find(name) # "none" => Find(name)' = Find(name)]_vfs_vars

\* What ram0 holds: the size vfsls lists when kmalloc gave vfs_init storage for
\* it (vfs.c:113), and nothing otherwise.
Capacity == IF BootHeap(Memmap, VmmFrames, RAM0_SIZE).ptr = NULL THEN 0 ELSE RAM0_SIZE

\* On every machine ram0 is a block device of its capacity, undisturbed by the
\* other nodes: of none, it moves 0 bytes and answers so.
Ram0 ==
    INSTANCE BlockDevice WITH
        Size <- Capacity, Offsets <- Offsets, Contents <- Contents,
        stored <- [k \in 0 .. Capacity - 1 |-> storage[k]],
        Nothing <- [off |-> 0, n |-> 0, bytes |-> <<>>],
        answer <- IF result.dev = "ram0"
                  THEN [off |-> result.off, n |-> result.n, bytes |-> result.bytes]
                  ELSE [off |-> 0, n |-> 0, bytes |-> <<>>]

ImplementsBlockDevice == Ram0!Spec

\* ram0 stores what is written at its start, as a device of the size vfsls
\* lists does: on a machine with frames enough for it left after boot.
Ram0Stores ==
    [][\A bytes \in Contents :
          /\ Write("ram0", 0, bytes)
          /\ Len(bytes) <= RAM0_SIZE
          /\ Cardinality(Allocatable(PmmAfter(Memmap, VmmFrames))) * (PageSize - Hdr)
                 >= RAM0_SIZE + PageSize
          => result'.n = Len(bytes)]_vfs_vars
=============================================================================
