# Verification of Peanut Kernel

TLA+ models of Peanut Kernel (x86-64, one CPU), the TLC runs that check them on
small instances, and TLAPS proofs of properties for every size. Source paths
are relative to the repository root; `PROJECT.json` maps every definition to the
lines it models.

## 1. The system and its parts

| Part | Source | State | Operations | Module |
| --- | --- | --- | --- | --- |
| Boot | `src/main.c`, `src/storage.c` | root volume, drives | `kmain`: bring-up in a fixed order, mount, checks, init | `Boot` |
| xHCI | `src/drivers/usb/xhci.c` | command and event ring, slots | ring set-up, command, wait, address a port | `Xhci` |
| Block drivers | `src/drivers/block/{ide,ahci,block}.c` | drive tables, selected unit, port state | detect, read, write | `Boot` |
| Self-tests | `src/tests/storage_tests.c` | none | the `expect` checks after the mount | `Boot` |
| ELF loader | `src/programs/elf.c` | file buffer, user stack | stat, allocate, read, interpreter, enter ring 3 | `Boot`, `Sched` |
| Scheduler | `src/cpu/sched.c`, `src/cpu/irq.asm` | `procs[]`, `current_proc`, `next_pid` | create, fork, kill, timer dispatch | `Sched` |
| System calls | `src/cpu/syscall.c`, `src/boot/switch.asm` | `fds[]`, `last_errno`, break | file, socket and process calls | `FdTable`, `Sched` |
| Pseudo files | `src/fs/{vfs,devtmpfs}.c` | none | open, read, write | `FdTable` |
| Allocators | `src/mm/vm.c`, `src/freelib/{slab,kalloc}.c` | page bump, free lists, heap list | page, `kalloc`, `kfree` | `KernelMemory` |
| File systems | `src/fs/{fat32,exfat,extfs}.c` | volume geometry, the disk | mount, find, read, overwrite | `Volume`, `Boot` |
| Page tables | `src/mm/vm.c` | tables in memory | map, translate | `KernelMemory` |
| PCI | `src/drivers/bus/pci.c` | none | find by class, interface or id; base address | `Pci` |
| Network | `src/drivers/net` | devices, transmit ring | register, send | `Net` |
| PS/2 | `src/drivers/input/ps2.c` | output buffer, partial packet | init, poll keyboard and mouse | `Ps2` |

`Processes` is what the scheduler promises, without a table; `Sched` implements it.

`PROJECT.json` also lists the parts that are left out, with the reason.

**How they interact.** `kmain` brings the parts up one after the other and ends
by entering ring 3, or in a panic, which halts. After that the kernel runs only
when a process makes a system call or the timer ticks. A file call goes from the
descriptor table through the root volume to a block driver and takes its buffers
from the allocators. A process call changes the process table, which the timer
interrupt reads and writes.

**What is atomic.** There is one CPU, the boot path starts with `cli`, SYSCALL
masks IF (`MSR_SFMASK`), every IDT gate is an interrupt gate, and ring 3 has
IOPL 0. Ring 0 is never interrupted: a system call is one step of the process
that makes it, and the timer arrives only between two ring-3 instructions.
Devices do run concurrently with ring 0. Where a device has state that a later
step of the kernel meets (the xHCI rings, IDE status, a stopped AHCI port) its
steps, or the states it can be in, are part of the model. The Makefile gives no
`-O` option, so polled memory is read again in every iteration and stores keep
their order.

**What is hard here.** Ticks between a kill and the next instruction; contexts
that are saved late or not at all; descriptors and buffers that are used again;
a flush that fails half way; allocators that share one region; directory chains
that are damaged, long or cyclic; completions that arrive after their command
was given up; errors that stay visible on another unit of the same channel. The
`hazards` in `PROJECT.json` list each at its line.

## 2. How the project is laid out

One module per component; `Boot` composes `Xhci`, `Pci` and the boot path, `Net` uses
`Pci`. `MC*` modules hold the small instances and `*_*.cfg` the constants of a run
(module before the underscore, question after it). `*Proofs` hold the theorems;
`SyscallProofs` is about `Sched` and `FdTable`, `IoProofs` about `Volume` and `Ps2`,
`XhciInv` has the invariant of `XhciDriverProofs` and `XhciProofs`, and
`KernelPagesProofs`, `KernelAllocProofs` and `KernelMemoryProofs` go on one from another.

Left, and why:

- `FdTable` against an abstract table of files: the calls are already one step each
  on small records, so the abstract one would repeat nearly all of it.
- `Sched` beside `FdTable`: the code's descriptor table is global and no process
  call touches it, so their product has no step that the parts do not have.
- Proofs about the lookups of `Volume` and about its decoding of block maps and the FAT:
  an abstract volume would have to say what a directory or a map means, and the only
  definition short of the code's own is the list of files that each layout carries. TLC
  compares the two; the proofs start from there (section 5).

## 3. The modules

### Sched

State: the table (`state`, `pid`, `vruntime`, `frame` per slot), `current_proc`,
`next_pid`, and the CPU (`cpu`, `mode`). A register image is the thread it
belongs to and whether it is up to date; executing a ring-3 step makes every
older copy of that thread's image outdated.

| Action | Code |
| --- | --- |
| `kmain` | the init attempts, `jump_to_ring3`, `sched_create_user` |
| `Ring3Step` | any instruction or system call without effect on the table |
| `sched_fork_current`, `sched_kill`, `SysExec`, `SysExit` | the process calls |
| `cpu_exception_handler` | an exception in ring 3: panic |
| `irq_timer_dispatch` | the tick: save, charge, choose (`choose_rr`, `choose_cfs`), restore |

### Processes

The abstract scheduler: the sets `live` and `dead`, who is `running`, and whether the
kernel has `halted`. A process starts once, runs one at a time, and does not get
the CPU again once a tick took it off dead. `Sched!ImplementsProcesses` maps the
table to it: pids of runnable slots, pids of zombies, and the pid whose thread is on
the CPU.

### FdTable

State: `fds`, the live buffers `mem`, the files on the volume `disk`,
`last_errno`, the break. A byte carries the file it was written to, and `wrote`
(history) says that a descriptor was written through since its open. One action
per call (`SysOpen`, `SysSocket`, `SysAccept`, `SysSocketOp`, `SysRead`,
`SysWrite`, `SysClose`, `SysErrno`, `handle_brk`, `SysOther`), each the whole
handler with all its early returns. Opening reads the whole file into a buffer,
closing a dirty descriptor writes it back; both may fail, the flush after any number of
bytes. A process cannot tell: the close returns 0, and `SysErrno` clears the error.

### KernelMemory

All allocators work on one memory. State: its words, with the allocators' headers and
links in them, the bump pointer, the free lists, the objects that are live, and
`heap_end` (history), the end of the highest block of the heap. `uses` says which
allocators a boot uses, in any order and mixture. `RegionsApart` is true until the heap
has grown into the first page while pages are in use; nothing in the code prevents
that, and no action has a guard against it. Actions:
`vm_alloc_page`, `kalloc` (slab with refill, or the
first-fit heap, whose blocks are reused whole and never merged), `kfree`,
`ClientWrite`, a client that writes into its object, and `vm_map_page`, which walks
and makes page tables in the same memory, below the identity map of `vm_init`.
`vm_virt_to_phys` is the walk that the processor does as well.

### Volume

State: a layout `vol` (clusters, directory records, FAT, or inodes), the blocks
`data`, and the operation `op` in progress. An action is one iteration of a loop:
`ListStep` (a directory cluster of FAT or exFAT, with long-name records),
`ExtDirStep`, `ReadStep`, `WriteStep`; `Begin` and `Finish` are the call and its
return. Any block access may fail. `next_cluster` decodes packed 12-bit FAT entries,
which may lie in two sectors; `map_block` is the ext block map, through indirect
blocks or a tree of extents; long names are collected record by record
(`parse_lfn_entry`) as sequences of 13-character pieces. A layout carries the list of
its files, with where their records and clusters lie, which is what the lookups and
walks of the code are compared with. `Served` says which files are within the code's
limits: on FAT, clusters of at most 8 sectors and names of one piece; on FAT and exFAT, a
record that lies in one cluster and among the first `DIR_MAX`; on exFAT, no cluster
behind `cluster_count` and, for several clusters, a chain in the FAT.

### Xhci

State: both rings with their cycle bits, the driver's positions (`drv`), the
controller (`hw`), and the history of commands written, executed and answered. Driver:
`xhci_init_rings`, `EnableSlot`, `xhci_wait_cmd`, `WaitTimeout`,
`AddressDevice`, `NoContexts`. Controller (external, from the xHCI
specification as the driver relies on it): `HwCommand`, `HwLink`,
`HwPortEvent`. The controller gives any free slot and may fail to address a device.
A timeout may happen whenever no completion is at the head of the event ring; the
controller may be arbitrarily slow.

### Boot

Extends `Xhci`, whose driver runs in the first phase if the PCI search finds its
controller (`XhciProbe`); the controller goes on concurrently with everything after
it. State: the machine (chosen at the start),
`phase`, the drives found, the bus state, the mounts left to try, the root, the
loader. Actions: `XhciProbe`, `UsbDone`, `IdeAbsent`, `IdeFound`, `ahci_init`, `ScanDrive`,
`TryMount`, `validate_fhs`, `storage_tests_run` (one access per step),
`NextInit`, `ElfStat`, `ElfAlloc`, `ElfRead`, `ElfParse`; and `start_port` and
`ahci_waits`, the two waits of the AHCI driver without a limit, after which `phase` is
`hung`. A transfer on an AHCI port succeeds, finds the port busy, stops it by a task
file error, or never returns; on a stopped port it never returns. An operation on a
volume is one step that fails as a whole if an access fails; `Volume` has the loops.

### Pci

Pure operators on a machine's functions, by bus, slot and function number: the order
of the search with its skips (a slot without function 0, a function 0 that is the
only one), the three matches, and the decoding of a base address.

### Net

State: the registered devices, the transmit ring as bytes, the card's head and tail.
Actions: `e1000_init`, `rtl8139_init`, `SysSend` up to the wait, `SendDone`,
`SysSendFails`, and `CardSends`, the card (external), which reads the ring in Intel's
layout. The ring's address is 16-byte aligned or 8 bytes off, as `kalloc` returns it.

### Ps2

State: what waits in the keyboard, in the mouse and in the controller's one-byte
output buffer, the driver's position, and the partial packet kept between calls.
Actions: `KeyStroke`, `Movement`, `MouseAnswers`, `FromKeyboard`, `FromMouse` (external
devices), `InitDrain`, `InitAnswer`, `Read` of one of the two files by a program, and
`PollChar`, `PollMouse`, one iteration of the read's loop each.

## 4. The runs

| Run | Bounds | Shows |
| --- | --- | --- |
| `sched_table` | 4 slots, fatal and other signals, exec | `PidsNameSlots`: pids are unique and never reused |
| `sched_rr` | 4 slots, fatal signals, fair | the table implements `Processes` (`ImplementsProcesses`); no outdated image is resumed (`NoStaleResume`); the current slot is the running thread (`CurrentIsRunner`, `RunnerHeldOnce`); zombies are not dispatched (`DeadStaysOff`); nobody starves (`RunnableGetsCpu`, `KilledLeavesCpu`) |
| `sched_cfs` | 4 slots, 6 ticks of runtime | `CfsSpread`: runnable virtual runtimes differ by at most one tick |
| `sched_selfsignal` (violation) | 3 slots, signal 15 | a process that sends itself a harmless signal loses its context |
| `fd_table` | 2 descriptors, 2 files, 2 buffers, ext, failing I/O | buffers are owned by exactly one descriptor (`HeapIsOwned`), offsets stay inside (`OffsetsInBuffer`), files keep their own bytes (`FilesKeepTheirBytes`); a file changes only when a descriptor it was written through is closed, to the buffer or, after a failed access, to the beginning of it (`OnlyWritersFlush`) |
| `fd_fat32` (violation) | 2 descriptors, FAT | a written FAT file is not flushed on close |
| `mem_regions` | 168 words, pages of 12, 2 classes, 6 virtual and 3 physical addresses; boots with pages, slabs and heap, with page tables and heap, with pages and page tables | no page is handed out twice; until the heap and the pages meet, objects are disjoint (`ObjectsApart`), the page tables translate as they were told (`TranslatesAsMapped`), slabs are conserved (`SlabsConserved`), the heap is tiled (`HeapTiled`) |
| `mem_overlap` (violation) | the same memory | a page and a heap block overlap as soon as the heap outgrows the rest of the page that `_kernel_end` lies in |
| `vol_ops` | ten volumes, any access failing, fair | a lookup finds the named file and starts its transfer where the file begins (`FoundIsNamed`), reads deliver and writes store what they report (`TransfersComplete`), if nothing fails the files that can be transferred as a whole are exactly those within the code's limits (`WholeFileSucceeds`), the ext maps and the FAT lead through the files of the layout (`MapsEveryBlock`), nothing else is touched (`WritesStayInFile`), every operation returns, except in an empty circle of directory clusters (`OperationReturns`) |
| `boot_machines` | 811 machines, rings of 5, 4 ports, 3 failures, fair | see below |
| `ps2_input` | 2 keys, 2 movements, buffers of 2 and 6 bytes, fair | keys and packets reach their own file whole and in order (`KeysInOrder`, `PacketsAreMovements`); polled keys arrive (`PolledKeysArrive`) |
| `net_send` (violation) | ring of 8, three machines, fair | the wait for the first packet never ends |

`boot_machines` checks that the PCI search finds the first matching function
(`FindsFirst`), that the loader frees its buffers on every path
(`LoaderFreesBuffers`), that the root is the preferred volume of the first usable
drive (`RootIsFirst`), that ring 3 starts with the first init that works
(`FirstWorkingInit`), that a complete FAT32 root boots (`BootsFat32Root`),
that each USB device gets a slot of its own (`AddressedOwnSlot`) from commands
executed in order (`FetchInOrder`), and that booting ends, or hangs in one of the
two AHCI waits (`BootEnds`). Which root a boot finds after a failed access, or beside a
unit whose error status hides its own, the repository does not say; the properties about
the root and the init are about the other boots.

`sched_rr` has no exec from ring 3 and no harmless signals: with the first,
`CurrentIsRunner` and `RunnerHeldOnce` fail, with the second `NoStaleResume`, and section 6
says why. `sched_table` has both, in every order, and checks what holds nevertheless.

Some volumes of `vol_ops` go beyond a limit of the code, one for each: a FAT name of two
pieces, opened by the whole name and by the cut one; clusters of more than 8 sectors; a
directory with more entries than a listing holds; a record apart from its long name or
entry set; exFAT's last cluster, in a file and in a directory; a contiguous exFAT file
without a chain. `Served` in `WholeFileSucceeds` is checked in both directions, so a limit
that is stated too narrow or too wide is found. The properties except the operations in
which a FAT12 entry in two sectors is half unreadable (`LeftChain`; `LostInDirectory`
if it happens in a listing): the code then goes on behind the volume (section 6).

**Why the bounds are enough.** Two descriptors, two files and a spare buffer are
what a wrong share, leak or foreign flush needs; four process slots allow a
killed, a running and two waiting processes, so that a scan can skip or starve
one. Chains of several clusters cross every cluster boundary that the loops
treat specially, and with sectors of 4 bytes a 12-bit entry lies in two of them; one
direct pointer and two pointers per block give the ext map all of its levels. Page
tables of 12 entries have all four levels, with neighbours that share a table and
neighbours that do not. Between `_kernel_end` and the first page there is room for one
heap block of the smallest size, so that the heap is used below the pages, freed and used
again, and meets them with the next block; the run goes on to the state in which they
meet and no further (`CONSTRAINT RegionsApart`). What holds behind it, that no page
is handed out twice, is proved. The PCI machines are all fillings of two slots, on one bus or
on two, with up to three functions. Two movements and two keys are what a torn or
shifted packet and an overtaken key need, and a buffer of 2 bytes has no room for a
packet. With rings of 5 TRBs and 4 ports the command ring wraps twice.
The ratio matters: the port count is 8 bits wide, so there are never more ports
than the 255 usable TRBs, and the model has as many ports as usable TRBs
(`BootAssumption` allows no more). With one port more, `AddressedOwnSlot` fails:
the completion of the first command, late by a whole round, is taken for a new
command at the same address.

Buffer addresses and byte values of `FdTable` are only compared with each other, so
the runs on it use symmetry in both.

**Fairness.** `Sched`: weak fairness of the tick (the PIT runs periodically and
ring 3 cannot mask it). `Volume` and `Boot`: weak fairness of the kernel's own
steps, since ring 0 is not interrupted; none for the devices. `Ps2`: weak fairness of
the kernel's steps and of the controller, which passes bytes on when its buffer is
empty; that programs keep polling both files with room for a packet (strong fairness
of `Polls`) is an assumption about programs, without which no key need arrive. `Net`:
weak fairness of the kernel and of a card whose link is up. `BootEnds` makes an
exception for the two waits of the AHCI driver without a limit: `start_port` for a
command engine that `stop_port` could not stop, and `ahci_transfer` for a command that
neither completes nor reports an error, on a stopped port for every one.

**Deadlock** is not checked in `Sched` and `Boot`, where a panic halts the
machine, and in `Net`, where the send waits for ever.

Each property of a passing run has a faulty variant of a definition (a dropped
guard, a missing reset, a swapped order) under which TLC finds it violated; they
are defined next to the originals.

## 5. The proofs

`SyscallProofs` on the process table (for every `PROC_MAX`, signal set and policy):

- `TypeCorrect`, `PidsAreUnique`, `CurrentStaysRunnable`. The inductive invariant
  `TableInv` adds that the table is empty before ring 3 (`BootIsEmpty`); it is
  needed because `sched_create_user` sets `current_proc` only if there is none.
- `NeverResumedStale`, `RunnerIsHeldOnce`, `RunnerIsCurrent`, `KilledStaysOff`, under
  `Documented` (only fatal signals, no exec from ring 3; the runs of section 6 show
  what happens otherwise). `ContextInv` says where the up-to-date image of every
  runnable thread is: on the CPU for the current slot, in its frame for the rest.
- `SchedImplementsProcesses`, under `Documented`: every step of the table is a step of
  `Processes` or leaves what it speaks of alone.
- `CfsIsFair`, under CFS, without exec and before the runtime wraps. `CfsInv` adds
  that the current slot has the smallest runtime of all runnable ones.

`SyscallProofs` on the descriptor table (for every table size, file set, file system
and bound): `FdTypeCorrect`, `BuffersAreOwned`, `OffsetsStayInBuffer`, `NoForeignBytes`,
`ClosesStoreWrites`. The invariant `FdInv` is `HeapInv` (ownership and offsets, which
need each other: a write keeps the offset in the buffer only if no other descriptor
changes it), `DiskOK`, `TagInv` (each held buffer holds only bytes of its descriptor's
file) and `ScalarsOK`. One lemma per way a call changes one descriptor (`NewBuffer`,
`NoBuffer`, `SameBuffer`, `Release`), one per call, then `FdSteps`. `ClosesStoreWrites`
(the property `OnlyWritersFlush`) also needs that `dirty` says what was written since
the open (`DirtyOK`): `alloc_fd` leaves it as it was in the last use, so each way of
opening a file has to clear it, and a socket, which does not, must have no path.

`IoProofs` on the volumes (for any volumes, cluster size, files, buffers, sequences of
operations and failing accesses): `TransfersAreComplete` and `OverwritesStayInFile`. They
have two hypotheses, which are properties that `vol_ops` checks: in the initial state the
code's walks lead through the files as the layout says (`MapsEveryBlock`), and a lookup
that succeeds starts the transfer of the named file (`[]FoundIsNamed`). `LayoutAssumption`
says that files have clusters of their own and enough of them. The invariant
`TransferInv` says how far a transfer is (`Placed`: whole clusters were copied, and the
next one is in hand, or the FAT was unreadable), what was copied (`Copied`), and that it
stands in a file that its path reaches or outside all files (`Near`). The last is needed
for the FAT12 chains that a failed access leaves, and for damaged files, where nothing
else is known. The argument is `TargetIsNext` (the cluster in hand is the one in which
the next byte lies), `BytesOfStep` (its bytes, and no earlier one, are in that cluster)
and `LoopKeeps`; `FinishKeeps` turns the loops' exits into what the caller is promised.

`IoProofs` on the PS/2 devices (for any number of keys, movements and reads):

- `MouseInOrder`: if `ps2_init` read the answer of the mouse, every packet is one
  movement and none is lost. `MouseInv` numbers the bytes that the movements send and
  says that packets, the partial packet, the output buffer and the mouse hold them in
  this order (`BytesInOrder`); `AnswerFirst` establishes it when the answer is read.
- `KeysDelivered`: `KeyInv` numbers the codes in the same way. Those not yet taken lie
  in the output buffer and the keyboard without a gap (`CodesInOrder`), and the keys
  delivered are the last of those whose first code was taken (`Delivered`).
- `InputTypes`: the types, and that no read delivers more bytes than it has room for.

`KernelPagesProofs` (the page tables and the invariant), `KernelAllocProofs` (the pages,
the slabs, the blocks of the heap) and `KernelMemoryProofs` (the rest; for any page size, classes, addresses,
requests, writes by clients and mixture of the allocators): `MemoryTypes`,
`ObjectsStayApart`, `SlabMemoryConserved`, `HeapKeptTiled`, `MappingsKept`, from
`MemoryInvariant`, without a hypothesis. Both regions start at the end of the kernel, so
`LiveDisjoint` holds no longer than `RegionsApart`, a state predicate (`mem_overlap`
refutes it); the properties say what holds until then. `RegionsMeetOnce` shows that this is
one stretch of a boot, its beginning: neither region shrinks, and the pages handed
out stay below the bump pointer whatever happens to the memory (`Bumps`). As long as
a step ends with the regions apart it keeps the invariant `Inv` (`StepInv`), which has a
part for each structure:

- `PagesOk`: a page below the bump pointer belongs to one object or one slab.
- `SlotsOk` and `ListsOk`: a slab object has a slot of its own, slots have their header,
  and the free list of a class is a sequence, without repetition, of exactly the slots
  that are not in use.
- `HeapPart`: the heap is a sequence of blocks, each where the one before it ends, the
  last one up to `heap_end`, and those not free are those of the live objects. It lies
  below the first page unless no page is out. A heap without blocks has only the
  header of `kalloc_init`, of which nothing is known once a page covers it (`Kept`).
- `TablesPart`: some assignment of page tables to parts of the address space explains
  every word of every table (`Mapping`), and the tables belong to nobody else. It
  follows what `vm_virt_to_phys` returns (`Translation`), and `MapPageOk` shows that
  `vm_map_page` keeps it also when it fails half way.

Each part reads words of its own, so a step on one structure keeps the others by a
lemma about the words it leaves alone (`SlabFrame`, `HeapFrame`, `TablesFrame`).

`BootProofs` (for every set of machines, drive limit and number of failures):
`BootTypes`, `BuffersFreed`, `RootFirst`, `InitWorks`, `Fat32Boots` and
`SearchesFindFirst`, from `BootInvariant`. What a search returns depends on what it has
passed over, so `BootInv` keeps that: `PassedOver` says that the drives and the mounts
before those in hand had nothing to mount, `GivenUp` that the init paths before the one
in hand lead to no program and that the path being loaded works if and only if the
one that was tried does, both unless an access has failed. `Loading` says how the path
in hand comes from that one through interpreters, and `Loader` where the one buffer is.
That every path, interpreter or failure frees the buffer needs only `Loader`.
`SearchesFindFirst` rests on a lemma about loops that stop at the first hit
(`LoopFinds`), applied to functions, slots and buses; `AttemptKeys` and `OrderFacts`
say in which order mounts and drives are tried.

`XhciProofs` (for rings of any size, any number of slots, and fewer connected ports
than TRBs in the command ring): `CommandsInOrder` and `SlotIsOwn`, in every
interleaving with the controller. `XhciInv` holds the invariant `RingInv`,
`XhciDriverProofs` a lemma per step of the driver, `XhciProofs` those of the controller.
`RingInv` numbers the commands:

- `CmdRing` and `Behind`: the ring holds the last commands, and the controller is
  behind by at most a round, in the driver's round or in the one before.
- `EventRing`, `Completions`, `Reported`: the completions in front of the first port
  event answer the next commands, in order. One that names the awaited TRB therefore
  answers the awaited command, although TRBs are used again and answers may be late.
- `Budget`: the driver never checks for room. Each port that is left counts for one
  TRB, a command that is given up uses up its port, and a second command for a port
  is written only after a completion. The clause about the second completion is for
  a controller that waits at the link TRB while the driver is about to rewrite it.
- `SlotsOwned`: commands, waiting completions and reports name slots of their port.

The assumptions are the `ASSUME`s of the modules; TLC evaluates them in every run.

Loops and lists are recursive functions in the models. Two facts about them are proved
from the definition: that a function with the recursion equation exists (by the least
number where it fails, `LeastNat`), and that it is then the one that is meant. What
the loop finds, or the list holds, follows by the same argument.

Only model-checked: all liveness (`RunnableGetsCpu`, `KilledLeavesCpu`, `PolledKeysArrive`,
`BootEnds`, `OperationReturns`), since fairness and ENABLED are outside the prover; the
lookups and the walks of `Volume` (`VolTypeOK`, `FoundIsNamed`, `WholeFileSucceeds`,
`MapsEveryBlock`), for the reason in section 2; and the four violations.

## 6. Disagreements between the code and its documentation

With a run and a finding in `PROJECT.json`:

- A non-fatal signal to oneself clears `current_proc` (`src/cpu/sched.c:129`), and
  the next tick drops the context.
- A written file on FAT32 is not flushed on close (`src/cpu/syscall.c:340`).
- Pages and the heap start at the same address (`src/mm/vm.c:22`).
- The E1000 driver's transmit descriptors have 18 bytes and other offsets than the
  card's 16-byte ones, so the first send waits for ever (`src/drivers/net/e1000.c:120`).

Met while modelling, without a run:

- A long FAT name that spans two records is cut to 13 characters
  (`src/fs/fat32.c:168`): a path that names no file opens another one. `FoundIsNamed`
  allows for it (`Cut`).
- The unpartitioned ext4 image panics in the self-tests
  (`src/tests/storage_tests.c:70`; `README.md:13`). `Ext4Img` of `MCBoot` shows it.
- `rtl8139_init` never registers: `pci_bar` clears the bit that it then tests. `Net`
  contains it; `README.md:24` lists the driver.
- `e1000_send` copies at most 1518 bytes but gives the card the full length.
- A FAT12 entry whose second sector cannot be read yields 0xFF8, which is taken for a
  cluster (`src/fs/fat32.c:89`): a transfer or a listing goes on behind the volume.
  `LeftChain` and `LostInDirectory` mark these operations.
- A circle of FAT directory clusters that hold no entry is listed for ever: the loop of
  `src/fs/fat32.c:320` counts entries and not clusters.
- A directory's entries behind the first `DIR_MAX` are not found, and neither is a file
  whose long name or entry set is in another cluster than its record.
- A contiguous exFAT file without a chain in the FAT can be read and written only if it
  has one cluster: the flag that says so is not looked at.
- An ext extent of exactly 32768 blocks counts as empty (`EXTENT_MAX` of `Volume`).
- `vm_map_page` changes present entries and invalidates no TLB entry.
- `xhci_address_port` puts fields of the slot and endpoint contexts at offsets other
  than those of the xHCI specification; the model's controller may refuse.
- `SYS_EXEC` adds a process beside the caller's entry, so the new image runs twice
  (`src/cpu/sched.c:94`; `docs/KERNEL_ABI.md:183`). Allowed in `sched_table`,
  excluded from `sched_rr`.
- A process that kills itself runs on until the next tick, and for ever if it is
  alone (`src/cpu/sched.c:128`; `docs/KERNEL_ABI.md:97`, `:196`).
- Exec on a full table panics after the image was replaced.
- `SYS_ERRNO` returns 0 always, since the error is cleared first
  (`docs/KERNEL_ABI.md:91`), and `SYS_CLOSE` returns 0 when the flush failed (`:176`). A
  process cannot learn that its file was stored in part; `OnlyWritersFlush` says what
  the file then holds.
- An ext overwrite shorter than the file stores its bytes and returns -1.
- exFAT refuses the last cluster (`src/fs/exfat.c:60`), of a file or of a directory.
- The AHCI driver waits without a limit in `start_port` and `ahci_transfer`
  (`src/drivers/block/ahci.c:141`, `:196`).
- A unit that aborts IDENTIFY, such as a CD-ROM drive as slave, leaves ERR in the
  status that `ide_read` looks at before selecting its own unit.
- A port event at the head of the xHCI event ring is never consumed, and all
  later commands time out.
- The port loops of `src/drivers/usb/xhci.c:321` and `:400` count in a `uint8_t` and
  do not end if the count, which is taken from the slot field, is 255.
- FAT16 and unpartitioned exFAT roots are refused by the self-tests as well.
- An interpreter that is itself interpreted gets the first interpreter's path, not
  the script's.

## 7. What is not modelled

- User memory, copying to and from it, register conventions, the contents of
  device contexts, ELF segments and pseudo files: data no property tells apart.
- Console, framebuffer, audio, entropy, users: output, constants or mixed bits.
- ISO9660, the FAT12 floppy reader, initramfs, floppy and CD-ROM: switched off in
  `.config` or without a caller, and the two drivers' reads always fail.
- The network's receive path (`e1000_recv`, `net_handle_packet`, `net_checksum`): no
  caller. The RTL8139's transfers cannot be reached, and the two other cards have
  none.
- TLB entries: the code never invalidates one.
- Paths are model values: components, case folding and length limits are left out,
  except for the long-name records of FAT.
- A cycle of interpreters, on which the loader recurses until the stack is
  exhausted; the machines of `MCBoot` have none.
- Multi-sector transfers that fail at the driver's count limits.
