# A TLA+ verification of the FreeARS / KiNBOL kernel

FreeARS (KiNBOL 0.06.1) is a hobby x86_64 kernel in C: Limine loads it, `kmain`
brings up memory, the log, the device table and the ramdisk, and a shell runs
commands from the keyboard. This directory models the parts of the kernel that
keep state, checks them with TLC on small instances, and proves with TLAPS, for
every value of the constants, what the rest of the kernel leans on most.

Source paths below are relative to `src/kernel/src/`.

## 1. Inventory

The kernel has one thread of control. `kmain` enables interrupts (`main.c:125`),
but no line of the interrupt controller is unmasked and no handler is ever
registered, so nothing runs concurrently with the shell except the hardware (the
keyboard controller, the calendar clock, the interval timer, the counter of
cycles) and the exceptions the kernel causes itself. What is hard here is
therefore less interleaving than *long sequences of legal calls*, *limits* (a
full table, an empty pool, a ring that wraps), *operations that fail halfway*,
*state kept twice*, *arithmetic at a boundary*, and *hardware that moves on
between two accesses*.

| component | state | operations | what makes it correct |
|---|---|---|---|
| frame manager, `mm/pmm.c` | bitmap, `total_pages`, `free_pages` | init, alloc, free | no frame twice, none lost, the count is the bitmap's, the bitmap never overlaps what it manages |
| heap, `mm/heap.c` | linked list of blocks in pages from the frame manager; three counters | kmalloc, kcalloc, krealloc, kfree, stats | blocks disjoint and inside the heap's own frames, live allocations untouched, counters exact |
| page tables, `mm/vmm.c` | trees of frames, `kernel_pagemap` | create, destroy, map, unmap, translate, switch | what is mapped is what translates; destroy returns every frame |
| ramdisk, `fs/ramdisk.c` | 64 named slots, `ramfile_count`; contents in the heap | find, create, delete | a file reads back as last written; one block per file, and none lost but those of the empty name |
| device table, `fs/vfs.c` | up to 64 nodes, six devices, storage of ram0 | register, find, read, write | names resolve stably, ram0 is a block device |
| kernel log, `kernel/dmesg.c` | ring of 4096 characters, `head`, `count`, `seq` | dmesg, dmesg_int, dmesg_hex, foreach, clear | prints the tail of the log |
| line editor, `drivers/keyboard.c` | line buffer, shift state, ring of 16 lines; key states for the game | readline, update, held | history recalls what was typed; the buffer is what the screen shows |
| terminal, `graphics/terminal.c` | cursor, colours, framebuffer | putchar, clear, scroll, cursor on and off | what is erased is what was typed; one underline, at the cursor |
| ray caster, `graphics/cpu/ray.c` | camera | one frame of the game | the camera never enters a wall, a ray ends at the wall it meets, Escape ends the game |
| exceptions, `kernel/idt.c` | gates, handlers | register, dispatch | a stub's frame is popped as it was pushed; where the gates can be entered, a handler that repairs the cause ends the exception |
| timer, `kernel/pit.c`; clock, `drivers/rtc.c` | `tsc_hz`, `boot_tsc` | calibrate, uptime, sleep; read | the frequency is measured right, sleeps and uptime follow real time, a reading is one moment |
| shell, `shell/*.c` | the input line | parse, dispatch, calculator | arguments reach the right operation |
| boot, `main.c` | order of the initialisers | kmain | each component finds the ones it uses |

How they interact: the heap takes frames from the frame manager one page at a
time and never returns one; `vmm.c` takes frames for page tables; the ramdisk
and (once, at boot) the device table take memory from the heap; the device
table writes to the log and the terminal; the shell calls all of them. Calls
are direct and synchronous; the only callbacks are the cursor of the line
editor and the printers passed to `dmesg_foreach` and `vfs_list`. The line
editor and the ray caster share the keyboard controller: a scan code is gone once
one of them has read it. The ray caster and the shell share the timer.

The hazards, each at its line, are in `PROJECT.json`.

## 2. Modules

| module | kind | models |
|---|---|---|
| `PmmOps` | operators | `pmm.c` as functions of its state |
| `Pmm` | state machine | boot on any memory map, then any sequence of allocations and frees |
| `FrameAllocator` | abstract | what a frame allocator promises |
| `PmmProofs` | proofs | every property of `Pmm` |
| `HeapOps` | operators | `heap.c` as functions of its state and the frame manager's |
| `Heap` | state machine | any sequence of kmalloc, kcalloc, krealloc, kfree |
| `MemoryPool` | abstract | disjoint regions that stay put |
| `HeapOpsProofs` | proofs | lemmas about the operators of `PmmOps` and `HeapOps`, and about sums over a list |
| `HeapProofs` | proofs | every property of `Heap` |
| `Ramdisk` | state machine | `ramdisk.c` on the heap of `HeapOps`, with `memtest` |
| `FileStore` | abstract | name to contents |
| `RamdiskProofs` | proofs | every property of `Ramdisk`, the empty name included |
| `Dmesg` | state machine | `dmesg.c`, a step per character |
| `LogTail` | abstract | the last characters of a log |
| `Vfs` | state machine | `vfs.c` on the heap of `HeapOps` |
| `BlockDevice` | abstract | a device of fixed size |
| `DeviceProofs` | proofs | every property of `Dmesg` and of `Vfs`: the ring implements the log, numbers read back; names keep their device; ram0 implements the block device, or is empty |
| `Vmm` | state machine | `vmm.c` on the frame manager of `PmmOps` |
| `AddressSpace` | abstract | a partial function from pages to frames |
| `VmmProofs` | proofs | every property of `Vmm`; the refinement for flags without `VMM_NX` |
| `Terminal` | operators | `terminal.c` as functions of its state |
| `Keyboard` | state machine | the line editor of `keyboard.c` on the terminal, in the loop of the shell |
| `LineEditor` | abstract | a line, and the last lines submitted |
| `RayOps` | operators | the fixed-point arithmetic of `ray.c` |
| `Ray` | state machine | the game, the key states of `keyboard.c`, the controller and the keys |
| `InputProofs` | proofs | every safety property of `Keyboard` and of `Ray`: the screen shows the line, one cursor, the editor implements the abstract one; the camera stays in its room, rays meet walls, key states go stale only where a code is lost |
| `Idt` | state machine | `idt.c`, an instruction of the entry code a step |
| `Chips` | operators | external: the interval timer, the counter of cycles, the calendar clock |
| `Timer` | actions | `pit.c`, an access to a chip a step |
| `Rtc` | actions | `rtc.c`, a register a step |
| `Clock` | state machine | boot, `ticks`, `sleep` and `date` on `Timer`, `Rtc` and `Chips` |
| `MachineProofs` | proofs | every safety property of `Clock` and of `Idt` |
| `MC*` | instances | constants for TLC |

`PmmOps` and `HeapOps` hold the algorithms as operators that take a state and
return one, because `heap.c`, `ramdisk.c` and `vfs.c` call across components in
the middle of an operation: `Kmalloc(h, p, size)` returns the heap *and* the
frame manager that result, so one action of `Ramdisk` is the whole of
`ramdisk_create`, down to the bitmap.

### State and code

* **Frame manager.** `pmm = [total, used, free, mapped]`: `total_pages`, the
  set bits, `free_pages`, and whether `bitmap` is not NULL. Addresses are
  physical. `held` and `ret` are ghosts. Without a region for the bitmap
  `pmm_init` returns early, and the first `pmm_alloc_page` reads through NULL:
  phase `"faulted"`, the one place where the model stops (`CHECK_DEADLOCK
  FALSE`).
* **Heap.** `heap.blocks` is the list in list order; a block has the physical
  address of its header. `prev` and `next` are the neighbours in the sequence.
  The magic word is `HEAP_MAGIC` exactly for the headers in the list and is not
  kept. Merging looks at neighbours in the *list*, as the code does. The loop
  that merges the blocks behind a block is one step, since nothing can see its
  middle. The three counters are kept modulo `CounterMod`, 2^32 in the code
  (`heap.c:20-22`). `live` (the sizes callers asked for) and `owned` (the heap's
  frames) are ghosts.
* **Ramdisk.** Slots are records `[name, data, size]`; `memory` maps a block's
  pointer to the text last copied there, so that a stale pointer reads as
  garbage. `BootHeap` is the heap as `vmm_init` and `vfs_init` leave it. The empty
  name, `NoName`, marks a slot as free; `ramwrite` passes it on like any other
  (`shell.c:82-86`), `ramdel` and `ramcat` do not. `asked`, `result`, `failures` and
  `leaked` (the blocks given to files of the empty name) are ghosts.
* **Log.** `buf`, `head`, `count`, `seq` as in the code; `todo` is what the
  call in progress has still to put. `Shown` is what `dmesg_foreach` passes on.
* **Device table.** `nodes` in registration order, `ram0_dev`, and `storage`.
  A transfer names an offset and a length; lengths are modulo `UintMod` as in
  the code, and callers' ranges are assumed not to wrap (`VfsAssumption`: the
  shell passes offset 0 and at most 255 bytes). A read of `/dev/random` may
  deliver any bytes.

* **Page tables.** `tables` maps a frame in use as a table to its entries;
  a frame outside it holds no table. Addresses are counted in pages. A page map
  is named by its handle, what `vmm_create_pagemap` returns: a page of the
  direct map. The walks add the offset of the direct map to their argument, so
  callers come in two kinds (`Handed`): those who pass the handle as they got it
  fault, those who take the offset off first do not. No code in the kernel calls
  these functions yet; the second kind shows what the walks do once they reach a
  table. `maps` is a ghost.
* **Line editor and terminal.** One step is one scan code with everything it
  does, down to the label `next` and the test of the loop, or one blink. Lengths
  are in units of 8 pixels, so that a character is one wide and two high;
  `screen` has a glyph per cell, `marks` the underlines, as pixels that
  `terminal_cursor_draw` set and a glyph covers. `text` and `from` are ghosts
  that say where on the screen the text since the prompt lies, and `torn` whether
  an erasure met the left edge. The code of a key past the 58 entries of the
  tables delivers any character: the byte behind the tables is the linker's.
* **Ray caster.** The constants of `ray.c` are CONSTANTS, its `int32_t` values
  integers: with the real ones no product leaves 32 bits after the shift. `queue`
  is the controller, which loses a code when it is full; `keyboard_update` empties it
  in one step, since a code that arrives meanwhile might as well have come before.
  `down` is what the fingers do. The camera is at its start from the beginning: until
  the first `ray_run` sets it nothing reads it.
* **Exceptions.** `todo` is what is left of the entry code, as instructions;
  `stack` the words above rsp. Which exceptions push an error code is the
  processor's business. A word that is no frame sends the processor astray
  (`lost`), and so may a number that is none of the table. Every gate names the code
  segment 0x08 (`Selector`, `idt.c:110-117`), and the kernel loads no descriptor table
  (GDT) of its own: whether 0x08 is a 64-bit code segment is up to the boot loader.
  `code64` is the set of selectors that are, one of the sets in `Gdts`. Where 0x08 is
  not among them no gate can be entered: the exception raises a general protection
  fault, that a double fault, and the machine resets (`TripleFault`, `down`).
* **Timer and clock.** Time passes only with an access (`Passes`, `Elapses`), by
  up to `Slack` ticks, or by `Stall` when the machine is held up, as by the
  firmware, between two accesses. `pc` is the access `pit.c` makes next, `step`
  the register `rtc.c` reads next. `begun`, `seen` and `held` are ghosts.

## 3. What each run checks

Each property has a mutant in `PROJECT.json`, a plausible bug in the code that
the property catches under the run's own configuration.

**pmm** (`MCPmm`). Frames of 2 bytes, five memory maps: a hole and low memory;
regions out of order with a bitmap of three bytes that takes two frames; no
region large enough for the bitmap; only low memory; none. A frame of two bytes
makes the bitmap span frames with nineteen frames of memory. Frees range over
every address that is not reserved at boot, held or not. Checked: the count is
the bitmap's (`FreeCountExact`); bits set are what boot reserved plus what
callers hold (`Conservation`); the inductive invariant of the proofs (`IInv`),
from which it follows that what callers hold is usable, above 1 MiB and not the
bitmap, and that with everything freed the state is boot's; the refinement of
`FrameAllocator`. What
"free pages" means is visible here: the count includes frames below 1 MiB that
are never handed out, so it is not 0 when allocation fails.

**heap** (`MCHeap`). Pages of 12 bytes with headers of 2 and a word of 2: a page
is one block of 10 or two small ones, with rests both too small to split and
just large enough. Three pages, requests of a part of a page, a page, more than
a page and more than the machine. Double frees of any free block are included.
Checked: no two free neighbours (`FullyCoalesced`); the list and the pages
agree byte for byte, the page counter counts the pages modulo `CounterMod`,
and as long as all pages have fewer bytes than that, as below 4 GiB, the other
counters are what the list says (`Accounting`; `CounterMod` is 32 here, and
the third page passes it); used blocks are exactly what callers hold
(`LiveExact`) and lie disjoint in the heap's frames (`InsideOwnFrames`); a
request that fits a page is refused only when no frame is left
(`RefusedOnlyWhenFull`); the refinement of `MemoryPool`, in which no call
moves or resizes a block of somebody else and a failed `krealloc` keeps the
old one. A request within a word of 2^64, which rounds to 0 and is given a
block of no bytes, is in `RoundUp` but not in the run; no caller in the kernel
makes one.

**heap_hole** (`MCHeap`, violation). One frame that is not usable between two
that are. `heap_coalesce` merges a free tail with a new page that does not touch
it, and the block covers memory the heap does not own. `heap` holds only because
its memory is contiguous: this is the precondition `heap.c` never tests.

**ramdisk** (`MCRamdisk`). Two slots, three names and the empty one, texts that need
a small block and most of a page, two pages of heap: the table and the memory both
run out. `memtest` borrows blocks in between. Checked: the used blocks are those of
the files, those of the empty name and ram0's, one each (`BlocksAccounted`), contents
and their final 0 fit (`DataFits`), the count is the files plus the failed creations
and those of the empty name (`CountAccounted`), and the refinement of `FileStore`, in
which a write to the empty name touches no file. `MaxFailures` bounds the failed
creations, the only unbounded counter. The three names are alike, hence the symmetry.
Two facts about the code are visible here. `CountAccounted` says what `raminfo`
really prints as "Files": after a creation that found no memory, or had no name, the
count is one more than the files, for good (`ramdisk.c:45-48`). And `ramwrite` with
two spaces answers that it wrote a file without a name: the slot still counts as free
(`ramdisk.c:42-44`), nothing finds the file, the next creation takes the slot, and the
block is never given back.

**dmesg** (`MCDmesg`). A ring of four characters, strings shorter, as long and
longer, numbers in base 2. Checked at every character: what is printed is the
tail of the log; after a call, the number logged reads back.

**vfs** (`MCVfs`). ram0 of three bytes that gets its storage; transfers before,
at and across its end; nodes named like existing ones until the table is full.
The size is one the code does not use: the run shows what the code for ram0
does once it has storage, `vfs_ram0` what happens with the size it has.

**vfs_ram0** (violation). ram0 sixteen pages large, as in the code (64 KiB of
4 KiB pages). `kmalloc` adds one page to the first and then gives up, so ram0
has no storage, whatever memory the machine has.

**vmm** (`MCVmm`). Tables of two entries, four levels of them; two page maps on
a machine with eight frames to give after boot. Ranges of two pages cross a
table of the last level and one of the level above, so that a full map takes six
frames, a map with one page four: both maps can hold pages, and a second range
runs out of frames at every point. Checked: every frame
taken hangs in exactly one map, after failures and destructions alike
(`NoFrameLost`); every map sees the whole direct map, whatever happens to other
maps (`DirectMapEverywhere`); the refinement of `AddressSpace`, in which maps
are independent by definition. The ranges lie in the lower half: see section 5.

Callers who pass the handle as they got it are part of the run: the offset of the
direct map is added twice and the access faults (`vmm.c:55`, `74`, `92`).
`commands.c:531` prints that `vmm_virt_to_phys` "only works in own pagemaps"; with
the handle of one it does not.

**keyboard** (`MCKeyboard`). A screen two characters wide and three rows high, so
that a prompt and a line wrap and scroll; a buffer of four characters, a history
of two, four lines. The codes include a key of the tables, backspace, Enter, a
key without a character, a key past the tables, shift, its release, another
release, caps lock, the prefix and both arrows, which without the prefix are
keys past the tables. Checked: what stands on the screen is the prompt and the
line (`ScreenShowsLine`), except when an erasure met the left edge, where the
terminal stops and the editor goes on (`terminal.c:56`); there is exactly one
underline, at the cursor, exactly when the editor believes so (`OneCursor`); the
refinement of `LineEditor`: positions in the ring name the lines they should,
however the ring has wrapped, and a line that fills the buffer, typed or
recalled, is submitted without Enter. The first scroll moves the cursor to the
last row, which on a screen of 768 lines leaves a gap of 8 of them above it.

**ray** (`MCRay`). A maze of five by four cells with a passage that only a
diagonal step could take; angles in eighths of a turn, a step of half a cell. Keys
(Escape, forward and one turn) go down, repeat and come up at any time, one at a
time, and the controller holds two codes and loses what comes when it is full.
Checked: the camera is where one can walk to (`StaysInRoom`); from
every place, and for every column of the view, the ray ends at the near face of a
solid cell, and its length says where (`RayMeetsWall`); the state of a key goes wrong
only when the shell takes a code of that key or the controller is full when one comes
(`OnlyLostCodesMakeStale`); Escape held down ends the game (`EscapeLeaves`). How the states go wrong is worth knowing: the game ends on
the press of Escape, and its release arrives at the line editor, so the next
`ray` finds Escape held and ends on its first frame, unless Escape is tapped
between Enter and that frame. A key pressed and released
between two frames is not noticed at all.

**idt** (`MCIdt`). Exceptions of all four kinds: with or without an error code,
through a gate with or without a stub; handlers that repair and handlers that do
not, registered, replaced, registered out of range; and two boot loaders, one that leaves a
64-bit code segment at 0x08 and one that leaves it at 0x28. Checked: the program never
notices (`ProgramUndisturbed`); the entry code and the stack agree for every
exception with a stub and without an error code, and only the others lead the
processor astray (`StackAgreed`): a general protection or page fault leaves its
error code in front of the frame, an exception without a stub has two words of its
frame dropped, and what the dispatcher takes for a number is whatever lies there;
where the gate can be entered, an exception is over after a while when its handler
repairs the cause, and is raised forever when nobody handles it; where it cannot, the
machine resets on the first exception, whatever handlers there are
(`RepairedRepeatedOrReset`). The loader of this kernel is Limine (`limine.conf`),
whose descriptor table has a 16-bit code segment at 0x08 and the 64-bit one at 0x28.
So `crash` (division by zero, `commands.c:131`), which `src/README.md:92` lists as
"Trigger exception (test)", resets the machine, and no handler is ever reached; what
the run shows of the entry code is what it does once the gates name a segment that
exists. With one, `crash` would hang the machine without a word, since
`exception_fatal` has no caller.

**clock** (`MCClock`). A second of 10 ticks, calibrated over 8; two machines, one
so slow that its measurement may not be believed, one on which the product of
the uptime leaves its bits. Checked: the calibration measures `Span` ticks up to
the delays (`CalibrationBounded`); a sleep and an uptime are right up to that
error (`SleepBounded`, `UptimeTrue`); a date is the one the calendar showed at one
moment, also when every field carries (`ReadingWhole`); no loop waits for a moment
that can pass unseen (`ReturnsToShell`). With the constants of the code the
product wraps after 2^64 / 1000 cycles, about 71 days at 3 GHz, and the uptime
starts again from 0. A machine of less than 100 MHz is taken for one of 1 GHz, so
that it sleeps ten times too long or more; the upper bounds leave it out.

### Bounds

Bounds are on the size of the machine (pages of 2 or 12 bytes, fewer than 20
frames), on tables (2 slots, 8 nodes, 2 page maps, 2 lines of history), and by
name: `MaxFailures` (failed creations), `MaxLines` (lines submitted: twice the
history, so that the ring wraps), `MaxDown` and `QueueMax` (keys down, codes in the
controller), `Length` (instructions of the program that is interrupted), `MaxNow`
(no command starts later: two seconds, so that the calendar carries in every
field, and on the faster machine past the overflow of the uptime) and `Horizon`
(the end of time, which no behaviour of the code as it is gets to). Everything
else is explored to the end. Pages are small so that every relation between sizes
occurs in few steps: a request that leaves no rest, a rest too small for a header,
the smallest rest that is split off, exactly a page, more than two.

### Fairness

Most operations are calls that return within a step, and their specifications
assume no fairness. Three assume weak fairness, of what the hardware does by
itself:

* `Ray`: `WF(Leave \/ Frame)`. The loop of `ray_run` is a loop without a wait for
  anything but the clock, so the next frame always comes. Nothing is assumed of
  the keys.
* `Idt`: `WF(Fault \/ TripleFault \/ Instructions)`. A processor with an exception to
  raise raises it, and runs the entry code or resets. Nothing is assumed of the program or of what
  it registers.
* `Clock`: `WF` of an access of the running command with a delay other than 0. A
  busy loop goes on and time goes on with it. Nothing makes the shell start a
  command, and no delay is promised to be short.

## 4. What is proved

The `*Proofs` modules are checked by TLAPS. Nothing is assumed but the `ASSUME`s
of the modules and, in six places, a hypothesis of the theorem itself, each a
fact the code needs and nothing in the kernel ensures: `HeapInsideOwnFrames` (no hole in
memory), `VmmDirectMapEverywhere` (boot finds frames for the direct map),
`VmmRefinesAddressSpace` (no page is mapped with `VMM_NX`),
`ClockSleepBounded` and `ClockUptimeTrue` (`NoWrap`: the products of the
calibration and of a sleep keep within 64 bits) and `RayMeetsTheWall`
(`FineGrained`: a cell has many more units than the map has cells).

**Frame manager**, from `PageAssumption` (a page size, 1 MiB a multiple of it)
and `MemmapAssumption` (what the Limine protocol promises of usable entries):

* `PmmInvariant`: `Spec => []IInv`. None of the three main properties is
  inductive alone: that the count is the bitmap's after a free needs the frame
  to be a set bit below `total_pages`, that allocations are usable needs the
  clear bits to be usable frames, which is `Conservation` over what boot
  reserved. `IInv` adds what the phase says of the statics.
* The lemmas under it: the least upper bound of the entries (`HighestBounds`),
  every usable frame has a bit (`UsableBelowTotal`), a frame is counted once
  however many entries there are (`CountedOnce`), the bitmap lies inside its
  host (`BitmapInHost`), boot's count (`BootCount`), the result of an
  allocation (`AllocResult`).
* `PmmTypeCorrect`, `PmmFreeCountExact`, `PmmConservation`, `PmmHeldAreUsable`,
  `PmmFreeAllRestoresBoot`, `PmmBitmapFits` follow.
* `PmmRefinesFrameAllocator`: initial states map to initial states and each
  step to a step or a stutter (`AllocRefines`, `FreeRefines`).

**Heap**, from `HeapAssumption` (a header and a word fit a page, and both divide
what they should) and `HeapMachineAssumption` (memory maps as for the frame
manager), for every page size, memory map and sequence of calls:

* `HeapInvariant`: `Spec => []IInv`. `HeapFine` says of the heap what each call
  relies on when it starts: the blocks are whole words, in the order of their
  addresses, without overlap (`Ordered`), no two neighbours free (`Settled`), each
  between the start of a frame of the heap and the end of one (`Bracketed`), the
  counters the sums over the list, modulo 2^32 or, while all pages have fewer bytes,
  exactly; headers and sizes together every byte of the frames taken (`Counted`). That a merged block stays before its next neighbour
  needs the list ordered by address; that a new page can be appended at the end
  needs the frames the heap owns below all that are left (`OwnLow`), which holds
  because the search for a frame starts at the lowest and the heap returns none.
  `Holds` ties the regions to what callers hold. `FullyCoalesced` or `Accounting`
  alone is not inductive.
* The lemmas under it, in `HeapOpsProofs`, are about the operators and are used by
  the ramdisk as well: what a split leaves (`TakenIs`, `TakenFine`), what a merge
  makes of the list (`CoalesceIs`, `CoalesceFine`) and of any sum over it
  (`CoalesceWeighs`), a new page (`AppendPageFine`, `FirstPageFine`), and with
  these the calls as a whole, from any well-formed heap: `KmallocFine`,
  `KfreeFine`, `KreallocFine`, `KcallocFine`.
* `HeapTypeCorrect`, `HeapFullyCoalesced`, `HeapAccounting`, `HeapLiveExact` and
  `HeapBlocksApart` follow. `HeapInsideOwnFrames` needs memory without a hole:
  the run `heap_hole` shows what happens with one, and `HeapBlocksApart`, which
  needs no such hypothesis, that even then no two *blocks* overlap.
  `HeapAccounting` says of the counters what 32 bits can hold: with 4 GiB of pages and
  more only the page counter is determined, modulo 2^32, while the list and the pages
  still agree byte for byte.
* `HeapRefusedOnlyWhenFull`, an action property: a request that fits a page and is
  refused leaves no frame behind, because one page always makes room for it.
* `HeapRefinesMemoryPool`, call by call (`ServedStep`, `ReleasedStep`,
  `ReallocStep`).

Sums are `Total(f, n)`, a recursive function. That it exists, and what it is of a
list that was edited, is shown without an induction theorem: `UpTo` says that a
set of naturals with 0, and with n + 1 whenever it has n, has them all, by its
least missing number, and each property of a sum is such a set.

**Ramdisk**, from `RamdiskAssumption` (texts leave room for the final 0; a file has a
name) and the lemmas of `HeapOpsProofs`, for every sequence of creations, those under
the empty name included:

* `RamdiskInvariant`: the heap is well formed, whatever frames it owns; no two
  files share a name or a pointer; the starts of the heap's regions are the
  files' pointers, those of the empty name and ram0's, and no two of these are the
  same; each file's region is large enough and holds the text that was copied there
  last (`Tabled`); the count is that of the files, with those of the empty name, and
  the failures. `BlocksAccounted` alone is not inductive: a creation frees the block of the old
  text *before* it asks for a new one, and only because no other file has that
  pointer do the others keep theirs.
* `RamdiskBlocksAccounted`, `RamdiskDataFits` and `RamdiskCountAccounted` follow.
* `RamdiskRefinesFileStore`: every operation, `memtest` included, is one of the
  store or changes no file. A creation that fails deletes the old file. A creation
  under the empty name fills a slot that stays free (`TableLeaked`), so every file
  keeps its slot and its text.

**Page maps**, from `VmmAssumption` (a table has an even number of entries; the
direct map is at an offset above the memory, all of it in the upper half; the
pages that are mapped are in the lower half) and the frame manager of
`HeapOpsProofs`, for every size of table and of direct map, any number of maps, and
ranges that run out of frames at any page:

* `VmmInvariant`: `Spec => []VmmInv`. The properties of the run walk the tables
  from the top, four levels down, and are not inductive: that a table just made
  belongs to no other map, or that freeing what one map reaches cuts off no
  other, follows only when each table hangs in one place. `VmmInv` says that there
  are `home`, which tells for each table the top table it hangs under, and `lev`,
  its level, such that (`Tree`) every entry leads to a table one level down with the
  same home, or from the upper half of a top table to one of the kernel's
  (`Leads`); every table hangs under its home (`Hanging`), in one entry only
  (`OneWay`); the upper halves of the top tables are equal (`UpperShared`); and the
  frames in use are those of boot and of the tables (`FramesFine`). `home` and
  `lev` are bound in the invariant, so the model has no ghost variables, and each
  operation has a lemma that says how they change: `LinkMade` (a table hung in),
  `TopMade`, `TreeCut` (all tables of one home removed). Where boot had no frame
  for the kernel's top table, nothing ever happens (`NoKernel`).
* What a map shows is stated once, for a page of the lower half: `Leaf`, the entry
  its walk ends at. Pages have different digits (`DigitsTell`), and so an entry
  written for one page of a map is met by the walk of no other page, and of no
  other map (`MapPageIs`, `UnmapPageIs`). The recursions over the pages of a range,
  the frames freed and the direct map are followed step by step (`MapPagesIs`,
  `FreeAllIs`, `DirectMapIs`).
* `VmmNoFrameLost`: what a walk over all entries from the top reaches, level by
  level, are the tables of that home (`NoneLost`), so that the frames in use are
  those of the live maps and no frame is in two.
* `VmmDirectMapEverywhere`: the large pages that boot put in place are in the
  kernel's tables (`InPlace`), which no operation on another map writes or frees.
  With too few frames at boot `vmm_init` stops half way (`vmm.c:191`, `198`), and the
  direct map has a hole from then on; the theorem leaves such a machine out.
* `VmmRefinesAddressSpace`, call by call (`CreateRefines`, `DestroyRefines`,
  `MapRefines`, `UnmapRefines`, `TranslateRefines`). With `VMM_NX` among the flags
  `vmm_virt_to_phys` answers with bit 63 set, and the theorem would be false.

The digits of an address are shifts in the code and divisions in the model
(`Shifted`), because the prover has no powers.

**Log**, from `DmesgAssumption` (the ring has a size; strings and digits are
characters) and `NumbersAssumption` (a number fits the ring, a word the digits that
are printed of it):

* `DmesgInvariant`: ranges, and `RingFilled` (a ring that is not full is filled
  from 0 to the write position), without which starting at 0 would be wrong.
* `DmesgRefinesLogTail`: for every size of the ring. `ShownIs` works out the
  wrap of the index once; `PutcPuts` compares the sequence shown before and
  after a character, position by position, in a ring with room and in a full
  one.
* `DmesgNumbersReadBack`: for every base and width, the last digits shown amount to
  the number logged last. While a call runs, the beginning of its text is the end
  of what is shown, and the rest of it is still to be put (`TextFollowed`); the
  step is `PutcPuts` again. That the digits amount to the number (`DecimalWrites`,
  `HexWrites`) is induction over data, done as for the sums of the heap.

**Devices**, from `VfsAssumption` (the memory map, frames of `vmm_init` and size of
ram0 are numbers the kernel can have; the table has room for the six nodes of boot; a
transfer does not wrap in 32 bits) and the frame manager and heap of `HeapOpsProofs`:

* `VfsInvariant`: `VfsSpec => []VfsInv`, that is `VfsTypeOK` and where ram0 has its
  storage, which is settled at boot. `VfsTypeCorrect` follows.
* `VfsResolutionStable`, an action property: the first node of a name is the first
  still when a node is appended (`FindAppended`), so neither a second node of
  the same name nor a full table changes where a name leads.
* `VfsRefinesBlockDevice`, for every size, all contents and every machine: a transfer
  moves what fits before the end (`ClipIs`), and a read or write of any other node
  leaves the device alone (`Ram0Reads`, `Ram0Writes`). The device is as large as the
  storage `vfs_init` found (`Capacity`): the size asked for, or 0.
* Which of the two is the interesting part. A ram0 that fits a page has its size on
  every machine that boots with a frame left (`CapacityIs`, from `KmallocFine`).
  `VfsLargeRam0Empty` is about the code's: the first call of `kmalloc` has one page,
  takes one more, and merged they are two pages less a header (`TwoPages`,
  `FirstCallRefused`). What does not fit there, as 64 KiB in pages of 4 KiB, finds no
  storage on any machine, `Capacity` is 0, and ram0 answers 0 to everything: the run
  `vfs_ram0`, for every memory map. Between one page and two it takes a second frame,
  and nothing asks whether it lies next to the first: see `heap_hole`.

**Line editor and terminal**, from `KeyboardAssumption` (a screen at least three units
wide and five high, which is a column and two rows between the margins; a line buffer
with room for a character and its end, a history of at least one line; codes are bytes;
the prompt has no newline or backspace, and a key without a character is neither), for
every screen, prompt, buffer and history, and whatever lies behind the tables of keys:

* `KeyboardInvariant`: `KeyboardSpec => []KeyboardInv`. `ScreenShowsLine` alone does
  not survive a wrap, a scroll or an erasure: a cell the line is about to take or to
  leave could hold anything. `TermOK` says that the rows of the text follow one another
  down to the row of the cursor, without overlap, and that everything behind and below
  the cursor is blank. Beside it `KeyboardInv` says that the cursor's cell is
  underlined, and no other, when the editor believes so; that the line has room for a
  character while it is read; and that the ring has a line in each place, of which
  `hist_count` count and `hist_pos` names one or the line being typed (`HistoryOK`).
* The lemmas follow the terminal up: a new row with or without a scroll (`NewRowOK`,
  `NewRowShows`, `KeptRows`), a character and a backspace (`TypedOK`, `BackedOK`,
  `PutcharOK`), a string, by the recursion of `Printed` (`PrintedExists`,
  `PrintedGood`), the erasure of a line (`ErasedGood`), and then the calls of the
  editor (`TypeOne`, `EraseOK`, `RecallOK`, `PromptedOK`, `ScanOK`).
* `KeyboardScreenShowsLine` and `KeyboardOneCursor` follow. That the cursor is on a
  blank is what makes erasing the underline harmless.
* `KeyboardRefinesLineEditor`: the ring at position `hist_head - k` modulo its size is
  the `k`-th line back, for every `k` up to the count (`RingPlaces`, `RecentIs`), and a
  line added takes the place of the oldest only (`RecentGrows`), as for the log.

**Ray caster**, from `RayAssumption` (a table of sines between 0 and 1, a speed of
at most a cell a frame, a start that is open) and `KeysAssumption` (scan codes of
presses are below 128), for every map:

* `RayInvariant`: `Spec => []IInv`, type correctness and `StaysInRoom`. Given the
  types, `StaysInRoom` is inductive, because it is stated with rooms (sets of open
  cells closed under sharing a side): a step that ended in an open cell of another
  room would be a counterexample. The lemmas: a sine is between -1 and 1
  (`SinBound`), hence a step is at most a cell in each direction, also after the
  shift, which rounds down; a position moved by at most a cell is in the same or
  an adjacent cell; and so the two tests, one after the other, move from a cell to
  one that shares a side, twice.
* `RayStaysInRoom` and `RayTypeCorrect` follow.
* `RayOnlyLostCodesMakeStale`, an action property: one more code in the controller
  decides the state of its own key and leaves the others be (`AppendHeld`), the first
  one taken away matters to its own key only (`TailHeld`), and reading all of them
  changes no state that the next update would give.
* `RayMeetsTheWall`, under `FineGrained`. After `i` borders along x and `j` along y
  the cell, the distance and the next borders are what `i` and `j` say, and the
  distance is between the last border of each axis and the next (`Along`,
  `Walked`); the start and each step keep that (`StartWalks`, `CrossedWalks`), and as
  the walk is a recursive function, there is one list of its states (`WalkExists`)
  and what holds of its first holds of its last (`UpTo`). The border `m`
  after the first is computed too near by at most `m + 2` units, as every
  quotient is rounded down (`Travelled`), so the point that far along the ray
  lies on the face (`MeetsFace`) and beside the cell (`StaysAlong`). What remains is a
  direction whose component along one axis is under 10 and counts as none: the
  other component is then a cosine (`Complement`, `Reaches`), the ray leaves the map
  before the border taken to be 1000 cells away is the nearer one
  (`CrossesCounting`), and its drift, which the walk does not see, is less than half
  a cell (`Drifts`).

`FineGrained` says that the 64 steps are at least the `MAP_W + MAP_H - 1` a ray can
take on the map, that half a cell is `MAP_W + MAP_H + 2` units, and for each angle
whose sine is under 10 that the other component goes the length of the map within
1000 cells and with a drift under half a cell. In `ray.c` half a cell has 32768 units,
the map 16 by 16 cells, and the only sine in the table under 10 is that of 0 (the
next is 1143), whose cosine is 1: the three hold with room to spare. They do not
on the maze of the run, where a cell has 4 units: there TLC finds the tolerance
kept all the same.

**Exceptions**, from `IdtAssumption` (exceptions have the numbers 0 to 31, the
program has an instruction), for every sequence of registrations and exceptions, with
and without stubs, handlers and error codes:

* `IdtInvariant`: `IdtSpec => []IdtInv`. That the pops undo the pushes says nothing about
  a state half way through. `IdtInv` gives each state of the entry code a place
  `d`, counted from the first push of `isr_common`: what is left to do is the rest of
  the code from `d` on (`TodoIs`); on the stack lie, over the frame of the processor and
  the two words of the stub, as many registers as are pushed and not yet popped there
  (`StackIs`, `Saved`); and each register holds the program's word or what the code has
  loaded by then (`RegsAre`). One lemma per kind of instruction shows that it leads from
  place `d` to `d + 1` (`PushOK`, `PushNumberOK`, `LoadOK`, `DispatchOK`, `PopOK`, `DropOK`,
  `IretqOK`). The invariant also says how the processor was lost, if it was:
  by an exception without a stub, or by one with a stub and an error code, once the
  entry code was over.
* `IdtProgramUndisturbed` and `IdtStackAgreed` follow.
* `IdtClosedGateResets`, for every descriptor table the loader may leave: a machine
  that reset did so on an exception whose gate could not be entered, and with such an
  exception to raise neither a handler, a register nor the program moves again. The
  first two theorems then say nothing of that exception, as nothing of it runs.

**Timer and clock**, from `ChipsAssumption` (a delay is shorter than a second and a
round of the counter), `TimerAssumption` (the count is awaited far enough above
`Span`: `Span + 2 * Stall <= High`) and `RtcAssumption` (six accesses fit into
the time for which the flag announces a change: `6 * Slack <= Lead`):

* `ClockInvariant`: for each value of `pc`, how far the count, the target and
  the cycles have gone since the measurement began; for each value of `step`, how
  much time can have passed since the flag was found clear, and that the fields read
  so far are those of the calendar of that moment.
* `ClockCalibrationBounded`: why the wrap of the 16-bit count, and of the target,
  does not spoil the measurement.
* `ClockReadingWhole`: no date is torn, whichever fields carry.
* `ClockTimes`, `ClockSleepBounded` and `ClockUptimeTrue`, under `NoWrap`: a processor
  of 4 GHz leaves it after 146 years, and with no sleep whose milliseconds have 32
  bits.
  A sleep that goes on is one whose cycles were not reached at the last access, so
  it ends a delay late at most; both products are divided with a remainder, and
  the error of the calibration, from `ClockCalibrationBounded`, is a factor on
  either side (`FrequencyIs`, `SleptEnough`, `SleptNoMore`).

Every invariant, action property and refinement that a passing run checks is the
statement of a theorem. Only model-checked are the three liveness properties
`EscapeLeaves`, `RepairedRepeatedOrReset` and `ReturnsToShell`, as liveness and `ENABLED` are
out of the provers' reach, and the two violations: `heap_hole`, whose theorem
`HeapInsideOwnFrames` shows that the hole is the only cause, and `vfs_ram0`, which
`VfsLargeRam0Empty` extends to every machine. `VmmInv` is not a run's invariant, as TLC
would have to guess `home` and `lev`, nor are `KeyboardInv`, `IdtInv` and `VfsInv`, which
are stated in the proof modules; the runs check the properties that follow from them.

## 5. What is not modelled

* `vmm_switch` and `vmm_current`: they load and read CR3, and have no caller.
  `vmm_init` does not map the image of the kernel, so a switch to a map made
  here would not return. Mappings in the upper half, which the walks would take
  for tables where the direct map has large pages, are left out as well.
* Pages mapped with `VMM_NX`: `vmm_virt_to_phys` masks only the low 12 bits of an
  entry and answers with bit 63 set. `PageToFrame` does the same, and the
  refinement of `AddressSpace` holds for flags without that bit; no caller in
  the kernel maps a page with it.
* The shell's splitting of arguments and its calculator, and the commands that
  only print. `keyboard_peek`, `exception_fatal` and `terminal_print_hex` with its
  kin: they have no caller, or only print.
* What the ray caster draws, and the correction of a length by the angle of its
  column; colours; `draw.c`, which writes pixels clipped to the size of the
  framebuffer, though not to that of the back buffer (`draw.c:6-30`).
* A calendar clock in 12-hour format: `rtc_read` looks at the bit for binary and
  not at the one for 24 hours, so such a clock is misread. `Chips` has none.
* Descriptor tables, segments and privilege levels other than whether 0x08 is a
  64-bit code segment.
* Interrupts other than exceptions: none is unmasked. One that was would go
  through a gate without a stub.
* The contents of memory other than what properties need; the direct map, which
  is a constant shift; serial output, drawing, fonts, printing: pure output.
* Lengths of names, and characters of names and texts.
* The generator of `/dev/random`.

## 6. Plan

Done: `PmmOps`, `Pmm`, `PmmProofs`; `HeapOps`, `Heap`, `HeapOpsProofs`,
`HeapProofs`; `Ramdisk`, `RamdiskProofs`; `Dmesg`, `Vfs`, `DeviceProofs`; `Vmm`,
`VmmProofs`; `Terminal`, `Keyboard`, `RayOps`, `Ray`, `InputProofs`; `Idt`, `Chips`,
`Timer`, `Rtc`, `Clock`, `MachineProofs`. Next, in this order:

1. `Shell`: the calculator against a reference evaluation, the splitting of
   arguments.
2. Names as sequences of characters in `Ramdisk`: what a name as long as its field does
   to the rest of the slot.
3. `Heap`: a request within a word of 2^64, should a caller of `kcalloc` ever make one.
