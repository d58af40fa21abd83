# Raincloud in TLA+

Raincloud is a small x86-64 kernel: one processor, processes with one thread
each, a round-robin scheduler on the timer interrupt, system calls through
`int 0x80`, a kernel heap, a physical page allocator, pipes, a file namespace,
a read-only FAT driver, a console that draws glyphs, and a loop over the PCI bus. This directory holds TLA+ models of its parts, the
TLC runs that check them and TLAPS proofs. Line numbers refer to `src/`.

## 1. Inventory

| Component | State | Operations | Talks to |
|---|---|---|---|
| Scheduler, threads, processes (`proc/`, `lib/queue.c`) | ready queue, current thread and process, thread_t and proc_t, identifier tables | timer tick, fork, exec, exit | heap, vm maps, contexts |
| Entry and context switch (`arch/x86/asm`, `context.c`, `int_ctl.c`) | `save_context`, `load_context`, the RSP0 stack, saved registers | int 0x80, timer interrupt, iretq | scheduler |
| Kernel heap (`mm/malloc.c`) | block list with headers, counters | malloc, free, merge pass | everyone |
| Page allocator (`arch/x86/paging.c`) | list of free blocks, counters | init from the memory map, alloc, merge, free | heap, maps |
| Page tables, vm maps (`paging.c`, `init_mm_map.c`, `mm/vm_map.c`) | one four-level tree, entries of a map | map, query, validate, duplicate | scheduler, page allocator, TLB |
| File descriptors and contexts (`proc.c`, `fs/fs.c`, `syscall/`) | fd tables, fs_context | open, close, read, write, lseek | namespace, drivers |
| Namespace (`fs/fs.c`) | tree of nodes with hooks | find, mknode, rmnode, reghook | drivers |
| Pipe (`fs/fs_special.c`) | ring buffer, two offsets, a count | open, read, write, close | heap |
| FAT (`fs/fat.c`, `fs_generic.c`) | disk, open file with its content | search, read, seek | disk |
| Console (`display/`) | cursor, frame buffer, text of the font | WriteLine, search of a glyph | everyone (printf), FAT, PCI |
| PCI (`pci.c`) | device list | enumerate, find the display | bus |
| Lists and queue (`list.h`, `lib/queue.c`) | the pointers in the structures of others, a length | add, delete, walk, enqueue, dequeue | scheduler, heap, maps, namespace, PCI |
| Kernel start (`boot/main.c`) | | the initialisations in order, exec, the timer | all |

Hard behaviours. Handlers run with interrupts off, so nearly all of the kernel
is sequential *within* a handler; the interleavings are those of whole handlers
of different processes, plus one window, the instruction before `cli` in
`syscall_handler`, that is inside one. Structures outlive the handler that
changed them (a stopped thread in the queue, a child on a dead parent's list,
a file context in two tables), counters are kept apart from what they count,
tables fill up and nothing is given back. There is no persistence and no second
processor, so crashes and true concurrency do not arise.

What makes each part correct: the scheduler loses no thread, runs no stopped
one, and runs each in its own memory; a context comes back to the thread it was
taken from; heap and page blocks tile memory and belong to one owner; a pipe is
a FIFO; a descriptor means the same file until it is closed; a path names one
node; a cluster chain ends; the cursor stays on the screen, and what is printed
appears there once, in order and in the right dots; a walk over a list meets its
members and ends; the kernel comes up on a machine that has what it needs.

## 2. Modules

| Module | What it is |
|---|---|
| `Sched` | scheduler, processes, threads; one action per handler |
| `Lists` | list_init, list_add_before, list_del and the queue on them, pointer by pointer |
| `LinkedSched` | `Sched` on top of `Lists`: ready queue, thread lists and child lists as pointers |
| `ProcessMemory` | `Sched` with physical pages and their contents |
| `PrivateMemories` | a memory for each process; `ProcessMemory` implements it |
| `TrapGate` | entry, context save and load, one instruction window finer |
| `Heap` | malloc and free; the merge pass one loop iteration per action |
| `Allocator` | what an allocator promises; `Heap` implements it |
| `PageAlloc` | page_alloc_init, page_alloc, `__page_merge`; implements `Allocator` too |
| `PageTables` | mapping at boot and for processes; one level of the walk per action |
| `AddressSpace` | a function from pages to frames; `PageTables` implements it |
| `Tlb` | `PageTables` composed with what the processor remembers of it |
| `Pipe` | pipe_open, pipe_read, pipe_write |
| `PipeFifo` | a bounded FIFO with short counts; `Pipe` implements it |
| `Files` | descriptor tables, contexts, the node tree with its hooks, the calls on descriptors |
| `OpenFiles` | open files that processes share; `Files` implements it |
| `Fat` | directory search, cluster chains, exec's load, reads and seeks |
| `Pci` | the loops of pci_init, and the search for the display in their list |
| `Boot` | `Fat` and `Pci` composed: main up to the file system in use |
| `Console` | cursor, wrapping, tabs and scrolling of WriteLine |
| `Paper` | a printer on a roll of paper; `Console` implements it |
| `Terminal` | `Pipe` and `Console` composed, with stdio_write between them |
| `Teletype` | what is sent is typed once and in order; `Terminal` implements it |
| `Display` | `Terminal` with the text of the font and the pixels |
| `MC...` | instances for TLC: of `LinkedSched` (and `Sched`), `ProcessMemory`, `TrapGate`, `PageAlloc`, `PageTables`, `Tlb`, `Files`, `Boot` (and `Fat`, `Pci`), `Display` (and `Terminal`, `Pipe`, `Console`); `Heap` needs none |
| `SchedProofs`, `BootProofs`, `TrapGateProofs`, `HeapProofs`, `PageAllocProofs`, `PageTablesProofs`, `FilesProofs`, `TerminalProofs` | theorems |

An operator whose name ends in `M` is a mistaken form of the definition after
it (a dropped guard, a missing update, a wrong end of the queue). No action uses
them; `PROJECT.json` pairs each with a property that tells the two apart.

### Sched

`ready_queue`, `current_thread` and `current_proc` are the variables of
`sched.c`; `thread` and `proc` are the contents of the structures, `threads`,
`procs` and `maps` the ones malloc has returned, `mapped` the map whose entries
the last `vm_map_do_mapping` wrote to the page tables. `TimerTick`, `Fork`,
`Exec` and `Exit` are whole handlers, from `context_save` to `iretq`.
`ExecFirst` is main's `exec("/test")`, `UnmaskTimer` what main does after it.
`Dispatch` is the loop of `sched()`: stopped threads before the first live one
are dropped. When there is none the assertion halts the machine, which is why
`Dispatch` then has no step; `AssertHolds` says this never happens.

`Family` is about all children that a process ever had, which its child list
keeps: those of a live process have it as their parent, those of a stopped one
have been handed on, to its own parent and, while that one lives, no further.
exit hands on by the parent pointer alone (`exit.c:17-22`): the child is put on no
list of its new parent, whose exit therefore does not hand it on again. A live
process may then have a stopped parent, which `Family` allows only after such an
adoption (section 6).

Abstracted: of a saved context only RAX, as "the thread's own or another's"; a
map is one value (`NewMap`), which `ProcessMemory` opens; arguments and environment, which nothing reads. Structures
are never freed (nothing calls `thread_destroy`, `proc_destroy` or
`vm_map_clear`), so the sizes of the sets bound a behaviour. A fork that runs
out of memory inside `proc_dup` is left out: the code goes on with NULL.

### Lists, LinkedSched

`Lists` has the stores of `list.h` on one function `link` from list_head_t to
their two pointers, and the queue as a record of pointers, node contents and
length. Each action of `LinkedSched` is an action of `Sched` together with the
stores that the same handler makes: `Rotate` is the loop of sched with
queue_dequeue's free and queue_enqueue's malloc, `NewLinks` is proc_init with
thread_init or thread_attach, `Relinked` is thread_init on a thread that is
still linked, which is what exec does. What is dispatched is decided twice, by
the sequences of `Sched` and by the pointers, and `ListsHold` says that the two
agree after any history: forwards always, backwards for the queue and the child
lists. A thread list is wrong backwards after an exec, which no code walks.
`CellsAssumption` says that list heads, structures and queue nodes are different
places in memory.

Left out: the failure of queue_enqueue's malloc. In sched it follows a free of
the same size; in fork and exec it would store through address 0.

### ProcessMemory, PrivateMemories

`phy_addr` is the page of the one entry that exec gives a map, `ram` what the
pages hold, as a function on a few places. `LoadInto` is exec's page_alloc and
read_cluster_chain (what the file does not reach keeps what the page held
before; `NoFile` is what an exec of a missing file loads, from cluster 0 of the
volume), `CopyInto` vm_map_entry_dup, `Store` a store of the running program
through the page tables, at the map that `Sched` says is `mapped`. A fork whose
malloc fails clears the start of whatever page is at address 0 (`Spoiled`;
`malloc.c:159`).

`PrivateMemories` has no maps, pages or page tables: a memory per process, which
only the running process changes, a copy at a fork, the contents of a file at an
exec, or of `NoFile` if there is none. The refinement mapping finds the memory of a process through its own map.
Pages do not run out (page_alloc's failure is unchecked in both callers), and
translations are those of the tables (see `Tlb`).

### TrapGate

`frame` is the frame at the top of the stack that RSP0 names, `cpu` where the
processor is: in a thread's code or at the `cli` of `syscall_handler`. `Trap`
is `int 0x80`; `Call`, `Exec`, `Fork` and `Exit` are the rest of the handler for
calls that touch contexts in different ways; `TimerTick` is possible in both
places because the gate leaves interrupts on. A handler that interrupts user
code runs on the top of the RSP0 stack and loads the next context *through* that
frame; one that interrupts the kernel thread or a handler runs elsewhere.
`caught` records that an interrupt has come before a `cli`.

A context says whose code goes on and at which of two places in it, so that an
old context of the right thread is told from its latest one. `Run` is the
thread's own code moving from one place to the other; for the kernel thread
that is main's loop.

Sched models the handler of a system call as one action, that is, without the
window. `IntactUnlessCaught` is what justifies that: without an interrupt in the
window a thread goes on from its own context.

### Heap

Blocks are identified by the address of their header. `next` is the real list
pointer, so that a corrupted list is a state of the model and not excluded by
its shape; a header that a merge clears has a NULL there. Only first fit reads the list in address order, which `Tiling`
justifies. `pc`, `it` and `want` are malloc's place, the cursor of
`__merge_block` and the rounded size: the pass is walked one iteration at a
time because it removes blocks from the list it walks. It cannot be interrupted;
the steps are there to state what holds in between. `Tiling` and `NoLeak` are
the two tests of `__mm_list_consistency_check`; `NoLeak` also says that
`available` and `block_count` count what they are named for. That buffers are
aligned is part of what `Allocator` promises.

Left out: malloc(0), which returns NULL at once; a free of something not held,
which `bug()` reports and ignores; the direct merge calls of the self-test in
`malloc_init`; the clearing of the buffer.

### PageAlloc

The list is a sequence of blocks in pages, `mm_list`; the header in a block's
first page is not modelled apart, as it moves with the block. `Init` is
page_alloc_init for each memory map of `MemoryMaps`; `boot` is what the map gives
the kernel, `held` what callers have. `Alloc` is page_alloc up
to its first search; when nothing fits, `Join` and `Advance` walk
`__page_merge` and `Retry` is the second search. `Consistent` is
what `__page_consistency_check` tests, the order of the list and the sum of the
lengths.

page_alloc_init does not ask whether a usable descriptor ends below the lower
bound. Each that starts at or below it makes a block at the bound, one that ends
below it with a length that wraps around (`% Wrap`; 2^52 pages in the code), and is
counted in `available`. All these blocks have one header. The later takes the
place of the earlier (`Linked`), but list_add_before then leaves the header's
prev pointing at itself, and list_del does not take such a block out (`Pinned`,
`Stays`): it is in the list after it was given, and will be given again. When a
caller gets such a block whole, or pages that are not the kernel's, the model
stops as `astray`.

What is claimed is what holds of this. `Intact` is said of memory maps in which the
last usable descriptor at the bound reaches over it (`BoundInside`; the wrapped
lengths are then all replaced), until the model stops. There no page is given
twice or lost; `available` is too large by exactly what was counted for the
replaced blocks (`Overcount`), for which `__page_consistency_check` prints its
message after every call. Of other maps only the types are claimed: their first
block seems to be longer than memory.

`PageAllocAssumption` has what UEFI says of a memory map: descriptors in order
that do not overlap, none of them empty, all of them in memory (`MemoryEnd`, the
size that `Allocator` is given, less than what 64 bits can address). The lower bound
is a whole page. page_free is left out: it is only called by vm_map_clear, which
nothing calls.

### PageTables, AddressSpace, Tlb

`contents` are the pages that can become tables, `level` their level in the one
tree; a page not yet used holds junk until `__init_table` clears it. `MapAtBoot`
and `MapForProcess` are the calls of modify_chunk_mapping by init_mm_map and
by vm_map_do_mapping; the loop over the pages of a chunk is `pc`, `chunk`,
`done` and `at`, the table that the walk has reached: `Descend`, `AddTable` or
`NoPage` for a level, `SetEntry` for the last, then one `Validate` per page.
`init_mm_map.c` has its own copies of the functions; they differ from those in
`paging.c` in where they get pages from, which is `Supply`, a constant, since
no property depends on which free page is used. Nothing here can be interrupted;
the steps are there for the properties to hold between them.

`AddressSpace` has a function from pages to entries and a request. Under the
refinement mapping the function is what `__query_mapping` would return for each
page, so a walk that adds tables is a stutter and `SetEntry` changes one point
of the function.

`Tlb` adds the processor's translation cache: a used translation may stay in it
and may leave it at any time, and no step of the kernel touches it.

Left out: vm_map_dup (in `ProcessMemory`), the bits of an entry other than frame
and flags.

### Pipe

The three fields of `pipe_context`, the buffer, and what the last call returned
and delivered. `Moved` is an offset after n increments with the reset at the
end, `Filled` the buffer after the loop.

### Files, OpenFiles

`nodes` is the tree that `fs_init` builds: `Mknode` and `Reghook` are fs_mknode and
fs_reghook, `FindNode` is find_node with its two ways to end early (a component
that is the node's own name, a mount point). `contexts` are the fs_context
structures in the order of their allocation, `fd_table` holds their numbers, and
`used`, `memory` and `freed` are the objects that open allocates, with the
contexts that are closed. A close frees the pipe (`Released`); of a file fat_close
frees the contexts but not the copy in memory (`fs_generic.c:56-64`), which stays
in `used` for ever (`LeftBehind`): `Owned` says that these copies are all that is
left without an owner, and that none is given again. An address that was freed may be
allocated again, to any context; that is where a wrong sharing would show.
`sys_open`, the six calls through `get_fd_ptr` (an lseek with an unknown whence,
which returns -1, is an action of its own, `sys_lseek_astray`) and `Fork` (the copy of the table)
are whole system calls, down to the hooks. Descriptors out of range, freed
objects and NULL where a hook reads through a pointer end the model with
`running` FALSE.

`OpenFiles` has no nodes, addresses or contexts: a table of descriptors per
process, a list of open files and what each call does to one of them. Under the
refinement mapping a context is an open file with the contents of its object. It
describes what the kernel does, and that is less than one would like: an open of
a file that is not there succeeds, a close makes the file unusable for every
process that inherited it, and gives no descriptor back.

`FilesAssumption` says what a path is: a sequence of names without the slash
(`string_split` cuts there), and that a file of the volume lies in a directory
of the volume. `Names`, `Types` and `Functions` are the names, types and hooks
that fs_init has.

Left out: the copy of a FAT file and its context are one object, of which the copy
is the part that stays behind. The number of contexts is bounded by `Contexts`, the
descriptors a program passes by `Descriptors`, the offset that fat_lseek arrives
at, in the file, behind it or in front of it, by `Offsets` (how it gets there is in
Fat). stdio's read and write do nothing
to files.

### Fat

A volume is a constant: a cluster size, FAT entries as decoded, and for each
cluster the directory slots it holds. `Search` is the call from fat_open, exec or
DisplayInit (read_file); then each action is one iteration of a loop: `CountCluster`
(compute_cluster_chain_length), `ReadCluster`, `StopReading` or `ReadMark`
(read_cluster_chain; a mark is only taken for a cluster while there is room), `OpenDir` (fatfs_opendir) and `ReadDir`, `ReadDirEnds`,
`FoundFile` (fatfs_readdir as fatfs_searchfile calls it, or the loop of
read_file). `BehindBuffer` and `GoesOnWithout` are what read_file and a broken
long name make of the end of a directory.

What is missing ends in three ways. A directory of the path that is missing, or
that has the last slot of its own directory, makes fatfs_opendir return NULL, and
fatfs_searchfile passes it to fatfs_closedir (`fat.c:439-442`), which frees what it
finds at address 0 and writes there: the model ends `astray`. A name that is
missing in a directory that is there makes fat_open fail (`failed`), but exec only
print a message and go on (`exec.c:35-36`, `66-81`) with the FATFile_Type that malloc
has cleared (`Cleared`): an empty file at cluster 0, whose chain it reads into the page,
after which it ends `loaded`, or `astray` where that chain leaves the volume. And
read_file takes another file.

`fat_read` and
`fat_lseek` (with its three bases and the -1 for any other whence) work on the
buffer of an opened file; `Over` is fat_close or the
return of a search. When a loop follows a chain off the volume, or a read copies
from outside the buffer, the model stops as `astray` or `overrun`: what happens
then depends on memory that no model fixes.

The properties compare with definitions that have no loops: `Chain`, `Items`,
`Reached` (the first of each name, when a directory lists it twice). `SearchRight`
says that a search that finds something has found what the directories list,
that only fat_open fails and only for a file that is missing or whose chain is too
short, and that an exec of a missing file ends with an empty one at cluster 0; it
claims nothing of what read_file makes of a missing font. It also says how much
of a file exec and DisplayInit get: as many whole clusters as their buffer has
room for, which is all of the file only if its size does not pass that (`Limit`
rounded down to clusters) nor its chain. `SearchEnds` is for
`WellFormed` volumes, whose chains end in the mark that the driver compares with,
whose entries have a cluster and whose directories break off no long name; and
for paths whose directories are there and not in a last slot, and, for exec
and read_file, whose file is there. The other paths may end `astray`, as above.

`FatAssumption` says what a volume is: finitely many entries, each of them a
cluster of the volume or one of two marks; directory slots that begin at such a
cluster; and that a slot with a long name is followed by more of it or by an
entry, also across clusters. The code checks none of this. A name that the end of the
directory breaks off is allowed. Sizes of files and reads stay below 2^64 when
added, as they do for sizes of 32 bits and buffers in memory.

Abstracted: where an entry of the FAT lies in its sector (FAT12 entries that
straddle two are not represented), the decoding of names, deleted entries (the
kernel never writes to the disk). fatfs_rewinddir has no caller. FAT12 and
FAT16 volumes are left out, since the driver reads the root of every volume the
way of FAT32.

### Pci, Boot

A bus is a constant: headers by device and function. `NextDevice` and
`NextFunction` are one turn of the loops of pci_init, which end at an odd vendor
identifier; on a full bus or device they run into the assertion of `pci.h:13`
(`RunsOver`). `Enumerated` says what the list is without mention of the loops:
functions of the bus, each once, in order, and all of them on a bus that is
`Regular` (no gaps, no odd vendor). On another bus some are missing, which
disagrees with the comment at `pci.c:13`; the property does not claim otherwise.

`Boot` is main from pci_init to the file system in use: `DisplayInit` takes the
first display of the list (or address 0), `ReadFont` are the steps of read_file
in `Fat`, `FrameBufferClear` draws the first glyph from what was read, `Run` is
`Fat`'s next-state relation afterwards. `Stuck` is a halt or a run through
memory that no model fixes. `ComesUp` is a liveness property about `Bootable`
machines, whose display pci_init gets to (`InReach`); on the others the kernel may well come up with another file as font.

### Console, Paper

`row` and `column` are WriteLine's static variables, `frame_buffer` holds the
character drawn in each cell. `WriteLine(ch)` is one turn of the loop: the
switch, the check of the column, the check of the row with the scroll, the
drawing. Splitting a string into turns loses nothing, since WriteLine runs with
interrupts off. `WriteChar` writes wherever it is told, like the code, so that
`TypeOK` says something.

`Paper` has the visible lines and the place on the last one. Under the mapping
`Shown` the lines are the rows of the frame buffer down to the cursor's.

### Terminal, Teletype

Processes write to a pipe; one copies what it reads to `/stdio`. `Write` and
`Read` are the actions of `Pipe`, `stdio_write` makes the string, `PrintFirst`
and `PrintEnds` are turns of WriteLine's loop, which runs with interrupts off:
nothing else happens while `string` is not empty. The loop ends at the first NUL
of the string, so a NUL that was sent swallows what is copied with it.

`Teletype` extends `Paper` by the bytes sent and not yet typed. Under the mapping
those are what is copied and not printed, followed by the contents of the pipe.

### Display

`font_buf` is the text of the font as a sequence of characters and line ends:
`FontLine(l)` is line l of the file that has `Font` in it (19 lines, then 23 for
each glyph, of which 16 are rows), `FontText` these lines one behind the other, a
recursive function. `file_seek`, `GetBitmapFromGlyphBDF` and `ASIIC_versions`
find a glyph by counting lines and turn its digits into dots; `WritePGMData`,
`ScrolledUp` and `FrameBufferClear` are the stores into the frame buffer, here
the set `lit` of the offsets of its white pixels. `GlyphsShown` says that the
pixels are those of the cells that `Console` keeps, each with the dots that
`Font` has for its character, computed by division instead of by a table; glyphs
of 16 pixels, whose rows have four digits, are excluded, as the code reads the
wrong ones of them. `DisplayAssumption` says that the file has a glyph for each
character that is drawn, and a space of eight pixels without a dot.

Left out: DisplayInit's page table entries for the frame buffer (PageTables maps
chunks like it), the fields of a PGM and of a glyph that nothing reads.

## 3. Runs

| Run | Bounds | Shows |
|---|---|---|
| `Sched` | 5 threads, 4 processes, 5 maps, 5 queue nodes, 3 identifiers | ten safety properties: queue, pointers of the lists, memory, family, identifiers, order; every thread runs until it stops |
| `Memory` | 4 threads, 3 processes, 4 maps and pages of 2 words, 2 programs and a missing one | private memories refinement |
| `TrapGate` | 4 threads | contexts are only mixed up after an interrupt in the window |
| `Heap` | 24 bytes, header 2, grain 2, five sizes | tiling, ownership, accounting, failure only when full, refinement |
| `PageAlloc` | 6 memory maps of up to 7 descriptors, 5 sizes and 0, 20 pages of memory, lengths modulo 32 | pages given once, none lost, failure only when full, refinement |
| `PageTables` | tables of 2 entries (16 pages), 12 tables, 2 chunks at boot, 14 for processes | tree, validation never fails, address space refinement |
| `Files` | 2 processes, 2 descriptors each, 3 contexts, 2 addresses, pipes of 2 bytes, offsets -1, 0 and 2 | objects but the copies of closed files have one owner, open files refinement |
| `Fat` | 12 volumes, 11 paths, room for 5 bytes in exec and 8 for the font, reads of up to 9 bytes and seeks from -2 to 7; 6 buses of 4 devices with 3 functions | bus enumerated, kernel comes up, searches right and ending, reads right |
| `Terminal` | pipe of 2 bytes, writes up to 3, reads of 1 and 2; 3 rows of 2 cells, tabs of 2; glyphs of 2 rows, 6 of them | FIFO, paper and teletype refinements, every pixel |
| `Sched_ResumesWithOwnRAX`, `TrapGate_RunsCurrentThread`, `Tlb_NoStaleTranslation` | as above; `Tlb` with 4 tables | disagreements of code and comments, section 6 |

Why the bounds are enough. Four processes give a parent, a child and a
grandchild (what `Family` is about) beside another child, and a queue in which a
stopped thread stands before a live one; five threads fork in a full table,
since three identifiers are fewer than the threads; the fifth map lets a process
exec when all four have one. A queue node is always the one of its thread's
number: a node that is freed and taken again within one dispatch keeps its place
in `link` whatever its name is. In `Memory` three processes are a parent and two
that copy it, the fourth map and page are for one exec; one program leaves part
of its page as it was, a missing file one of the two, and of the two words one is at the start that a failing
malloc clears. In `TrapGate` four threads are the kernel thread and three that can overwrite
one another. Twenty-four bytes hold up to six blocks, so that runs of free
blocks lie between used ones, the sizes fall on each side of the splitting
threshold, and both outcomes of the second search occur. The memory maps
of `PageAlloc` have usable descriptors that adjoin in twos and threes, that an
unusable one or a gap separates, that the lower bound cuts, that lie below it (one,
and two of which the second ends at it) beside one that reaches over it, one below it
with nothing usable at it (whose length wraps), and none at all; 32 is more than
the 20 pages of memory, so a wrapped length is told from every real one.
With tables of two entries a chunk of two pages crosses from one table into the
next at every level; the chunks of processes overlap the boot mapping and one
another, and twelve tables are fewer than all of them need, so pages run out in
the middle of a walk. A pipe of two bytes
wraps, fills and empties with the writes and reads offered, and cuts a write of
three short. In `Files` a parent
and a child share contexts and open their own, the third open finds a full
table, and two addresses for three contexts are reused as soon as one is freed.
Three rows have one that is neither the first nor the last, and a row of two
cells lets a tab wrap from inside and from behind the margin. The font's narrow
glyphs use all sixteen digits, one is wide, and the letters do not stand in the
order of their codes. Each bus of `Fat` has another reason for the loops to end
(a gap in the devices or in the functions of one, an odd vendor, none at all) or
two displays; each volume of `Fat`
has one thing that can go wrong: chains of several clusters and a long name
across two, directories without a free slot, clusters larger than exec's
buffer, an empty file and a `..` without a cluster, an odd end mark, a long name
without its entry, a name that lost its entry to another, a chain shorter than
its file, a last cluster that does not fit, and five ways in which the font can
be missing, too long or in clusters too large. The paths have
a file that is missing in the root and in a directory, a directory that is missing and
one that is a file. Exec has room for an odd number of bytes, so that its last
cluster is cut off. TLC explores each
instance completely; there are no state constraints, and counters are bounded by
the structures available. Deadlock is checked in every run.

`TypeOK` is a run's invariant only where it says more than types; those of
TrapGate, PageTables, Pipe and Console (`ScreenOK`) and `PrivateMemory` are parts
of inductive invariants that are proved for every instance (section 4), and that
of PageAlloc is part of `Consistent`.

Which free structure malloc returns makes no difference. In `Sched` and in
`Memory` the instance therefore takes them in a fixed order (`OrderedSpec`); unlike a symmetry
reduction this is sound for liveness too. `Files` uses symmetry of the two
addresses, and a view without `nodes`, which never changes, and without `call`,
`got` and `ret`, which record the last call and its result: no step reads them,
and TLC checks the refinement, which is about them, on every step that it
generates.

Fairness (`Sched`): weak fairness of `TimerTick`, because the interval timer
fires for ever once unmasked and no handler blocks or leaves interrupts off;
of `UnmaskTimer` and the first exec, because main runs to its loop. No fairness
of any process's own calls. `Fat` (`BootSpec`): weak fairness of the loops of a
search and of pci_init, in which nothing waits, and of main's calls from one to
the next; none of the calls that processes make.

## 4. Proofs

Each proof module states an inductive invariant `IInv`, proves
`Init => IInv` and `IInv /\ [Next]_vars => IInv'` with a lemma per action, and
derives its theorems with the temporal rule. TLC has checked the invariants on
the instances above.

* `SchedProofs`, from `SchedAssumption` (the kernel thread is a thread, NULL is
  no structure, at least one identifier). `AssertHolds` is not inductive:
  that the queue holds a live thread rests on the kernel thread, which has no
  process and so is stopped by no exit (`KernelLive`), together with
  `QueueHoldsLive`. `RunsInOwnMemory` rests on `OneThread`: a dispatched
  thread is live, so its process is. `PrivateMemory` needs the maps of all
  processes to be among the ones taken (`MapsTaken`). On top of `IInv` come two
  more invariants: `IdInv`, that identifiers in use are marked in their table, for
  `IdsDistinct`; and `FamilyInv` for `Family`, that no process is on two child
  lists (so the exit of a third process changes no child's parent) and that some
  order has parents before children, adopted ones included (so the grandparent
  that an orphan gets is not the orphan). `StoppedForGood` and `NobodyJumpsAhead`
  follow from `IInv` step by step, from what `Rotated` does to a queue.
* The end of `SchedProofs`, from `SchedAssumption` and `MemoryAssumption`, is about
  `ProcessMemory`. The invariant adds to `IInv` that every map taken has a page and no two have
  the same one (`PagesOwned`). With `PrivateMemory` a page is then behind the map
  of one process at most, so a store by the running process, whose map is the one
  in the tables by `RunsInOwnMemory`, changes no other's memory: the refinement
  to `PrivateMemories` follows action by action.
* The last part, from `SchedAssumption` and `CellsAssumption`, is about
  `LinkedSched`: `ListsHold`. Its invariant `RingsHeld` says that the ready queue and
  each child list are rings, both ways, of exactly the cells of their sequences, without
  a repetition, and that a thread list is one forwards. `RingGrows` and `RingShrinks` say what list_add_before and
  list_del do to such a ring, `RingSame` that they leave the others alone, which needs
  no two rings to share a cell: queue nodes are used once, and a thread or a
  process is on one list only, by `OneThread` and by the invariant behind `Family`.
  The loop of sched is followed dequeue by dequeue (`DequeueHolds`, `DequeuesDrain`), for
  any number of stopped threads in front of the queue; exec's thread_init on a thread
  that is still linked is `RelinkedIs`. A walk over a ring meets its members in
  order and ends (`RingWalks`).
* `TrapGateProofs`, from `TrapGateAssumption`. `KernelThreadIntact` is inductive
  with the types; `IntactUnlessCaught` also needs the queue not to run empty when
  a thread leaves it (`KernelQueued`).
* `HeapProofs`, from `HeapAssumption` (positive grain and header, both sizes of
  one alignment). `Tiling`, `HeldIntact`, and for `FailsOnlyWhenFull` that no
  two neighbouring free blocks lie behind the cursor of the merge pass. `NoLeak`
  is a sum over the list, `Along`, which is a recursive function of the number
  of blocks walked. A walk is a function with the sum from each block to the end
  (`WalkUnique`, `AlongIsWalk`); `Rewalk` says that a change of one block (a
  split, a merge, a flag) moves the sums before it by the difference. For the
  refinement every block starts on the grain (`Aligned`) and a held
  buffer is disjoint from the others because its block is.
* `PageAllocProofs`, from `PageAllocAssumption`, for every memory map whose last usable
  descriptor at the bound reaches over it (of the others the types). Until a block
  is given that stays, the blocks are separate and in order,
  no free page is held, and free and held together are the pages that
  page_alloc_init gave (`PoolInv`). `BlocksOf` is a recursive function of the descriptors read,
  followed one at a time by `ListedUnusable`, `ListedAbove` and `ListedAtBound` (the
  last says that a block at the bound takes the place of the one before, and what its
  length is unless it wraps; `Unwrapped` says when it does not). That `available` exceeds the
  sum of the lengths by `Overcount`, and by nothing if no block was replaced, is in
  `BootFacts`. `ReplacedBlock`, `RemovedBlock` and `JoinedFacts` say what
  the steps do to the sum of the lengths and to the pages of the list; for `FailsOnlyWhenFull`
  no two blocks before the cursor adjoin, so a run of free pages lies in one block
  once the pass has ended.
* `FilesProofs`, from `FilesAssumption`. The invariant is that the tree is the one
  that fs_init builds, the types (`Typed`), that the contexts that keep an object on the heap, those of
  closed files among them, share none and leave none out (`Separate`) and that stdio never has an object, a pipe
  always has one, whose offset stays zero (`Placed`). The tree is built call by call: `MknodeFlat`
  and `HookStep` say that it stays a root with leaves of different names
  (`Flat`), `Finds` what find_node returns on such a tree for every path, however long. A
  system call does one of four things to the open files: nothing, change one,
  free one, add one (`QuietStep`, `ChangesStep`, `FreesStep`, `AddsStep`), and
  each hook is shown to be one of these; that a change of an object is a change of
  one open file only is `Separate`.
* `PageTablesProofs`, from `PageTablesAssumption` (at least one entry per table,
  chunks within the address space, an allocator that gives what is free). The
  invariant adds to `TreeShaped` that the walk is at the table on the way to its
  page (`OnTheWay`) and that the pages behind the loop are mapped
  (`BehindIsMapped`). The argument for the refinement: the slices of an address
  determine it (`IndicesDecide`, from division with remainder), and in a tree two
  walks that meet came the same way (`SameWay`), so two pages never share an
  entry (`OwnEntry`); a cleared table maps nothing (`NewTable`). Table size,
  number of tables and chunks are arbitrary.
* `BootProofs`, from `PciAssumption`, `FatAssumption` and `BootAssumption`, about every
  behaviour of `Boot`.
  - The bus: what is listed is what the loops get to (`InReach`) before the place
    that `dev` and `func` name, in order (`ListsPassed`), and no loop has ended before
    that place; so when they end nothing in reach lies behind, and on a regular bus
    everything is in reach.
  - What a volume says: `Chain` and `Reached` are recursive functions, and `ChainIs`
    and `ReachedIs` resolve them for a sequence of clusters that leads from the first
    one to the end mark (`Leads`, `Whole`): it meets no cluster twice, so it is no longer
    than the FAT (`WholeFits`), and no other leads beyond it (`WholeLongest`).
  - The loops: `LoopInv` has the types, that a count has counted the clusters up to
    `cluster` (`Counting`), that the buffer leads from `first` to `cluster` and has
    room for what was counted (`Reading`, `ReadWhole`), and that `pos` begins a name
    (`Positioned`). `TypeOK` and `ReadsRight` follow from it. `SearchRight` also needs what
    the search has found so far: that `first` is where the names before `depth` lead
    (`Standing`), and that no entry before `pos` has the name asked for; what a
    finished read has filled (`Filled`); and why fat_open failed (`FailsRight`).
    `Standing` also has that exec of a missing file has taken the cleared entry.
    Paths, chains, directories and volumes are of any size.
* `TerminalProofs`, from `PipeAssumption`, `ConsoleAssumption`,
  `TerminalAssumption` and `DisplayAssumption`, in four parts.
  - The pipe: `OffsetsAgree` (the two offsets and the count), and the refinement
    step by step: the contents of the ring after a write are the old ones followed
    by what was written.
  - The console (a tab is no wider than the screen, the cursor fits a byte): the
    invariant adds that the rows behind the cursor are blank (`BlankBelow`); without
    it a line feed that does not scroll would not give an empty line. `Feeds` and
    `Types` relate the two ways in which the frame buffer changes to the paper, `Turn`
    puts them together for each kind of character.
  - Both: the invariant is those of the two parts and that the string ends in a NUL
    and is no longer than the buffer and that NUL. A write to the pipe sends, a turn
    of WriteLine's loop types the first byte by the step lemma of the console, the
    end of the loop swallows, and a read or a copy leaves what is on its way as it was.
  - The pixels. What is read: each piece of a sequence put together from
    pieces is found at a known place (`PiecesFound`), so the lines of the font are
    (`LinesFound`); a line has one newline, at its end (`LineFacts`), so `file_seek` counts lines
    (`NextLineIs`, `Seeks`) and arrives at the rows of the glyph asked for (`BitmapRead`). That
    gives `GlyphsRead`. Where it is drawn: an offset determines the cell and the dot (`OffsetsDiffer`, by
    division with remainder); the invariant `LitIs` says that a pixel of a cell is white exactly
    if the glyph in the cell has the dot, and that every white pixel is in a cell. It is kept
    by a scroll (`ScrollLights`) and by a character drawn (`CharLights`). Fonts, glyphs and
    screens are of any size.

The library's induction theorems take an operator as a parameter, which the
provers cannot instantiate. Where a fact is about a sum or a walk of any length,
the proofs take the least number for which it fails instead
(`WFMin` with `NatLessThanWellFounded`), which needs only a set.

Only model-checked: `EveryThreadRuns`, `SearchEnds` and `ComesUp`, which are liveness
properties under fairness. Every invariant, every other action property and every refinement
that a passing run checks is also proved.

## 5. Plan

Done: the modules of section 2 and the theorems of section 4. Next, in order:

1. The failure of queue_enqueue's malloc in fork and exec, with the store through
   address 0.
2. A lower bound inside a page, as an image of any length in bytes can give.

Not planned: boot and descriptor set-up (straight-line, once, interrupts off),
legacy loader, serial port, VGA, APIC (no caller), register dump, formatting and
string functions, mutex.h (not compiled).

## 6. Findings

* The return value of exit goes to the next thread's RAX
  (`Sched_ResumesWithOwnRAX`; `interrupt_handler.S:28`).
* The system call gate is a trap gate: a timer interrupt before `cli` lets a
  thread go on with another's context (`TrapGate_RunsCurrentThread`;
  `int_ctl.c:23`).
* Page table entries are overwritten without an invalidation, so the processor
  may go on using the pages of the process before (`Tlb_NoStaleTranslation`;
  `paging.c:90`).

Seen in the models or while reading, without a run of its own: after 256
identifiers `tid_alloc` returns -1 and callers store it (`proc/id.c:31`;
`IdsDistinct` is about the others); sys_open returns a descriptor for a file that
is not there, and fs_open uses the result of find_node unchecked
(`fs/fs.c:178`); fs_close frees what the hook has freed (`fs/fs.c:188`);
exit hands the children of a process to its parent by their parent pointer only,
though proc_destroy, which nothing calls, moves them to its list (`proc/exit.c:17-22`,
`proc/proc.c:54-59`), so that an adopted child keeps a parent that has stopped (`Family`);
fat_close never frees the copy of the file (`fs/fs_generic.c:56-64`; `LeftBehind`);
exec goes on after a file is missing and says that loading it succeeded
(`proc/exec.c:36`, `66`, `81`; `Cleared` of `Fat`), and a missing directory makes
fatfs_closedir work on NULL (`fs/fat.c:439-442`; `OpenDir`); page_alloc_init makes
blocks of usable memory below the lower bound, with a wrapped length, which it counts,
and of which list_del cannot take out the last (`arch/x86/paging.c:223-229`; `Stays`,
`Overcount`); `pci_init`, which says that it enumerates all devices (`arch/x86/pci.c:13`),
compares `reg & (0xffff == 0xffff)` and so stops at the first device
whose vendor identifier is odd, or at a gap, and has no other end
(`arch/x86/pci.c:17`; buses `OddVendor`, `DeviceGap`, `FullBus` of `MCFat`);
read_file goes on with another slot's file when the one it looks for is missing
(`fs/fat.c:249`; volume `NoFont`); read_cluster_chain stops without a word before a
cluster that does not fit, so exec and DisplayInit lose the end of a file whose last
cluster passes their buffer (`fs/fat.c:116`; volume `Uneven`); glyphs 16 pixels wide, among them those of the
control characters, are drawn from the wrong digits (`display/GlyphBDF.c:44`);
a malloc that fails clears memory of the process that called
(`mm/malloc.c:159`).
