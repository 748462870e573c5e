# A verification project for UnarddegOS (OS/11)

TLA+ models of the kernel under `src/`, TLC runs that check them on small
instances, and TLAPS proofs of the properties that matter most, for every
value of the constants.  Line numbers refer to the files under `src/src/`.

## The system

UnarddegOS is a single-processor kernel in C and assembly.  Everything it
manages hangs in one tree of VNodes.  It is compiled with -O0 (makefile:38), so
each C expression statement is a load, an operation and a store, and the
timer may interrupt between any two of them unless `ArchCli` has masked it.

| Component | State | Operations | Who uses it |
|-|-|-|-|
| Page bitmap, heap (`kernel/vmem`) | `PageBitmap`, a `BlockHeader` at the start of each block | `GetFreePage`, `FreePage`, `MStat`, `kalloc`, `kfree` | everybody |
| VNode tree (`kernel/vfs/vnode.c`, `vdev.c`) | `FirstChild`, `Next`, `Previous`, `Parent`, `Name`, `Link`, `Flags` of each VNode; the static `TempBuffer` | `NewVNode`, `RegisterChildVNode`, `UnregisterVNode`, `DeleteVNode`, `RelativeFind` | scheduler, devices, drivers |
| Descriptors (`kernel/vfs/vfd.c`) | the list `Files` of each Task, the static counter, `VFS_OPENED` | `open`, `close`, `read`, `write`, `lseek`, `chdir` | programs |
| Scheduler (`kernel/sched/core.c`) | `CurrentProc`, `Proc`, `SelfProc`, `ScratchProc`, a `Task` behind each VNode of /proc | `SchedulerCreateProc`, `SchedulerExit`, and from the timer `CommitProcessSave`, `CommitNextProcess`, `CommitProcessLoad` | programs, the timer |
| Context switch (`$ARCH/sched/switch.s`) | the registers, `ScratchProc` | `NextProcess` | the timer interrupt |
| Devices (`kernel/vfs/dev`) | the tty flags, `rng_state` | `read` and `write` of null, tty0, random | programs, modules |
| Console, strings (`SerialPrint.c`, `string.c`, `$ARCH/drivers/serial.c`) | the UART | `SerialPrint`, `UlToString`, `memcpy`, ... | everybody |
| Panic and trace (`panic.c`) | `FunctionTrace`, `FunctionTraceDepth` | `Trace`, `Panic` | everybody |
| Boot (`kmain.c`, `$ARCH/arch.c`, `idt.c`, `gdt.c`, `boot.s`) | the hardware tables, `Ticks` | `kmain`, `ArchInitialise`, `Delay` | the boot loader |
| Module loader (`ia32/module.c`, `amd64/module.c`) | sections, symbols | `LoadModule`, relocation | boot |
| PCI (`modules/pci`) | the list `Dev`, `Count` | `PCIEnumeratePci`, `PCIRegister` | ide, through `/dev/pci` |
| IDE (`modules/ide`) | `IDEState`, `package` | `IDEInitialise`, read and write of a drive | fat, through `/dev/hda`... |
| FAT (`modules/fat`) | none but the drive | `FatMount`, `FatWrite`, `FatRead` | boot |
| PS/2 (`modules/ps2`) | `packet_index`, `packet_data`, `shifted`, `ctrl`, the controller | detection, keyboard and mouse read | shell |
| Shell, `vga`, `hello` | the current directory, the framebuffer | commands; one node; one process | the user |

They interact by calls and by shared static state.  The timer interrupt is the
one source of concurrency: it saves the registers of the running program to
the Task of `CurrentProc`, moves on in the list of /proc and loads another
Task.  In the shipped configuration `kmain`'s process boots, loads the modules
(their `Init` runs in it) and does all allocating, opening and creating, while
the process that `hello` creates prints and exits.

What is hard in it, and what would make each component correct:

* heap: `kalloc` takes the lowest free pages one at a time and assumes they are
  consecutive (the warning at `alloc.c:11`).  Correct: blocks never overlap, the
  bitmap marks exactly the pages of live blocks, headers survive.
* bitmap under preemption: the test and set of a bit are separate steps.
  Correct: no page is handed out twice, no page in use is unmarked.
* scheduler: the timer walks a list that `RegisterChildVNode` and `SchedulerExit`
  rebuild store by store.  Correct: a switch always finds an existing process and
  loads its own registers, the list holds every process, everybody gets a turn.
* descriptors: `open` checks and sets `VFS_OPENED` in separate steps; numbers come
  from a shared counter.  Correct: a VNode is open at most once and its flag says
  so, a number resolves to what was opened until it is closed.
* FAT: a file is a chain in a table that exists twice, plus an entry written last.
  Correct: after a power failure between any two sector writes every file is whole
  or absent, no two share a cluster, the tables agree.
* IDE: byte ranges become sector accesses with three address formats, a partial
  write reads the sector first, errors become zeros.  Correct: the drive is a flat
  array of bytes except where an access failed.
* boot: every module's `Init` finds what the ones before left in /dev, in memory and in
  the hardware, and nobody checks it.  Correct: a module's code runs only when it is
  linked as the ABI says; PCI's list is the bus; each node of a drive or of PS/2 stands
  for a device that is there; volumes are reported as they were made; interrupts are on
  again; the boot reaches its prompt.
* devices: detection waits with bounds, reads wait without; both PS/2 devices share
  one output buffer.  Correct: no late answer is taken for another one, a packet is
  three bytes in a row, a line is the characters typed as edited.
* VNode tree: nodes leave a doubly linked list that is unlinked twice.  Correct:
  lists are exact, siblings are inverse, every path resolves.

PROJECT.json lists every component, the hazards at their lines and what covers them.

## The modules

`VMem` is the heap with atomic calls: `bitmap` is the set of marked pages,
`header` the size stored in the first page of a block, `live` what the callers
hold.  `KAlloc` is `kalloc` with its calls of `AllocatePage`; `KAllocPanics` the
case where the pages run out; `KFree` reads back the stored header, and where
another block's data lies over it frees an arbitrary number of pages; `Write` is a
holder filling its block.  `fragmented` records that some `kalloc` was given pages
with a gap: the properties hold until then, and `NoGapBeforeFirstFree` says when
that cannot happen.  `MCVMem` instantiates it.

`PageRace` is the same bitmap one machine access at a time: a task in
`GetFreePage` tests a bit, loads the byte, stores the byte; `FreePage` loads and
stores.  Any task may step next.  `Exit` is the freeing by `SchedulerExit`, one
step because the timer is masked.  `Allocators` are the tasks that call `kalloc`
and `kfree` while they run: one, kmain's, as shipped.  With two of them
`NoDoubleOwner` fails, which is why the assumption is named.

`Sched` is the scheduler.  A program exists only in its registers, on the
processor (`cpu`) or in its Task (`saved`), abstracted to whose they are, how far
into `SchedulerCreateProc` or `SchedulerExit` they are, and the pointer that
call works on.  Each store of the two calls that others can see is an action
(`CreateName`, `CreatePid`, `CreateCount`, `Link1` to `Link3`, `ExitUnlinkHead`,
`ExitWalk`, `ExitRelease`); `Tick` is the whole timer entry, which runs with
interrupts off.  `overlap` records that a call began while another creation was half
done: creations do not mask the timer and nothing holds after that.

`RoundRobin` is what the scheduler promises: a queue, newest process first.
`Sched` maps itself to it: the queue is the processes registered in /proc by
descending number.  `MCSched` instantiates `Sched`.

`VFD` is `open` and `close` with a step for each access to shared state, and the
closing at exit; `handles` remembers what each process was given.

`VTree` is the tree: lists as functions, `RegisterChild`, the two unlinkings of
`SchedulerExit` in the order of the code, and `RelativeFind` as an operator on
sequences of components, with the outcomes `PANIC` and `WILD` (a null pointer
followed).  `directory` is a history variable: where a node was registered.  `link` is
what the timer stores in `SelfProc->Link`; no lookup reads it, as `Links` is empty.

`FAT` is `FatWrite` with a step per sector write (`Allocate`, `AllocateMirror`,
`Link`, `LinkMirror`, `WriteSector`, `WriteEntry`) and `PowerFailure` between any
two; `FatRead`, `Locate` and `FreeSlot` are operators that follow the chains on the
disk as the code does.  What `FatFindFreeCluster` and the others only read happens
in the step of the write that follows.  `OnDrive` computes the byte offset of a sector in
32 bits as `FatSectorToOffset` does (`SectorMod` sectors), `At` where on the volume that
is, and `WriteEntry` cuts the cluster of an entry's place to 16 bits (`LocMod`).
`written`, `torn` and `leaked` are history.

`IDE` is the read and write function of a drive with a step per sector access;
`Registers` is what `IDEAccess` programs, `Decode` (external) what a drive makes of
it.  Offsets are added in a `long` (`LongMod` values): a range that runs past the last
one goes on at 0.  An access may fail, the drive may go, the power may fail.  `image` is
the flat array the callers have in mind.  The command handshake is in `ATA`; here an access
succeeds or fails as a whole.  `FAT` assumes what `IDE` shows of a drive whose
accesses succeed: sectors are written one at a time, whole, where they were meant to.

The boot is one process that runs one component after another, so it is a chain of
modules, each extending what it uses, and `Boot` puts them together:

* `Machine` holds what they share: the configuration booted (`machine`), whose code runs
  (`running`), how it ended (`stopped`), the nodes of /dev (`devs`), the receiver of
  COM1 (`uart`, `typed`) and the interrupt flag (`ints`).
* `Loader`: the walk over the tags (`EndOfTags`, `SkipTag`), `OpenModule`, one relocation
  per step (`Relocate`, `Unresolved`), `CallInit`, `CallConstructors`.  Memory is words of
  `Word` values; an address of amd64 takes two.  The differences between ia32 and
  amd64 (which index is checked, what RELATIVE needs, half-width PC32) are in
  `SymAddr32`, `SymAddr64`, `Handled` and `Words`.
* `PCI`: `PCIPublish` registers the node, `PCIScan` asks for one function of one
  slot and lists it, in a page that `AllocatePage` has cleared.
* `ATA` (extends `PCI`): `IDEFind` and `IDEProbe` are the loops of `Init` and
  `IDEInitialise`, which begin with a panic where `/dev/pci` is missing; `XferSelect`,
  `XferCommand`, `XferSettle` and `XferPoll` a read, with `DriveAnswers` for the drive.
  `Port` computes the I/O port of a register.
* `FATMount` (extends `ATA`): `Init` of fat on every node of /dev, the partition table,
  the boot record, `FatIdentify` and the geometry; each sector is a read of `ATA`.
* `PS2`: `Init` as a script of the routines it calls (`Script`), a line per access or
  wait, and the loops that empty the buffer a read at a time (`PS2Drain`); the read
  functions as `MouseRead` and `KeyFetch`.  What the devices and the controller answer
  (`FromKeyboard`, `FromMouse`, `FromController`) is external: a second answer of the
  controller queues or replaces one not read.  So is what they send unasked (`Reports`):
  a key may come at any moment of `Init`, a movement once the mouse reports.  On a
  machine whose status bits are `stuck` a write or the drain waits for ever.
* `Shell` (extends `FATMount` and `PS2`): tty0's `SerialReadFunction`, the commands and
  what they call, `kmain` from its own line to the temperature loop.  A command line
  is one character, which `Menu` explains.
* `MCBoot`: the machines.

Next to some definitions stands a variant with a plausible bug, marked `Mutant` or
`A bug`.  PROJECT.json pairs each with the property that tells it from the code.

## The runs

| Run | Instance | What it shows |
|-|-|-|
| `heap` | 5 pages of 4 bytes, headers of 1; sizes 0 (refused), 3 (fills a page), 4 (two pages) | Until a block straddles a gap: blocks disjoint, bitmap exact, headers intact; no gap before the first `kfree` |
| `page_race` | 6 pages, bytes of 3 bits, kmain and two tasks that exit | No page handed out twice, no page in use unmarked, with exits between the load and the store of a byte |
| `sched` | kmain and 3 processes, 5 creations | The list, the switch and the numbers; refinement of `RoundRobin`; nobody starves, an exit ends |
| `sched_listed` | kmain and 3 processes, 4 creations | Violation: a process drops out of /proc |
| `vfd` | 3 processes, 3 VNodes, 5 opens | Flags, numbers and handles while opens do not overlap |
| `vfd_double_open` | 2 processes, 3 VNodes | Violation: a VNode is opened twice |
| `vtree` | root, /proc, /proc/self and 3 further nodes, 3 names | Lists exact, siblings inverse, paths resolve |
| `vtree_dotdot` | the same with 2 further nodes | Violation: ".." is not the parent |
| `vtree_self` | the same | Violation: /proc/self does not lead to the process |
| `fat` | 9 clusters of 2 sectors that end where `SectorMod` does, 3 table sectors, 2 volumes, 2 directories, 3 writes of up to 5 sectors | Chains, crash atomicity, the two tables, nothing lost |
| `boot` | 62 machines: 3 with modules of all sorts, 3 buses, 8 sets of drives, 16 PS/2 combinations, 8 with keys typed during `Init`, 2 with a stuck controller, 20 for the shell, 2 whole ones | Modules are linked, the bus is listed, nodes are devices, reads are honest, volumes as made, lines as edited, packets framed, interrupts come back, the boot completes |
| `ide` | sectors of 2 bytes (CD: 4), registers with 4 values, longs with 260, 3 drives, 2 calls of up to 4 bytes | The drive is a flat array; reads deliver; only requested sectors change |

`FlagsSound`, `ListsSound`, `ChainsSound` and `DiskSound` are the type invariant of their
module together with its named parts: `FlagMeansOpen`; `ListsExact` and
`SiblingsInverse`; `ChainsEnd` and `NotCrossLinked`; `DiskIsFlat`.  `NodesReal` is
`NodesAreDrives` of `ATA` and `Ps2NodesReal` of `PS2`.

Why the bounds are enough.  `heap`: the smallest gap needs one block between two free pages
and the smallest straddle a block of two pages; five pages hold a block, a gap, a straddling
block and one it overlaps.  `page_race`: three bits to a byte and six pages give bytes
shared by two tasks and a byte of free pages only; one allocation and two exits make every
pair of conflicting accesses.  `sched`: an exit distinguishes the head, the middle and the
last process before /proc/self, all present with three processes besides the walker, and
five creations reuse nodes.  `sched` follows a behaviour up to its first overlap (`Cut`).
`vfd`: three lists and reused files.  `vtree`: three siblings, /proc/self and a second
level.  `fat`: a file of three clusters has a first, a middle and a last link; nine clusters
fill up in three writes, as does a directory with two slots; three entries to a table sector
boundary let a write of one file repair the torn sector of another; the volume ends with the
last sector that `SectorMod` can tell apart, and its two directories lie below `LocMod`
while files lie beyond.  `ide`: a call of four bytes at an odd offset covers a partial, a
whole and a partial sector; the seeks are at the ends of a track, of the cylinder registers,
of LBA28, of each drive and of a long, and the largest drive has a sector that no offset
reaches.  `boot`: two buses of two slots with four functions have an empty slot, a device
with one function that answers under all numbers and a bridge with several; one bus fills
the four entries of the list to the last, another goes past it.  Words of 256 values make a
relocation wrap.  A read line of 4 characters is filled, and edited back past its beginning.
The values of FAT's geometry are those of real volumes: the limits 4085 and 65525 are the
code's own.  `SampleDelay` is 2.  `MaxDevices` (4), `BufSize`, `Word` and `SampleDelay` are
parameters; nothing else depends on their size.  `typing` and `bytes` bound what user and
devices send. `OneBadSector` cuts the runs in which more than one sector suffers from failed
accesses of writes; sectors are independent.

Counters that are unbounded in the code are bounded in the guards: `MaxPid`
(processes created), `MaxFd` (opens), `MaxWrites`, `MaxCalls`.  `PidMod` and `FdMod`
keep their width.  Every run disables the deadlock check because the system
may stop: after a panic, and when a bound is reached.

`overlap` and `fragmented` end the claims of `Sched`, `VFD` and `VMem`: the code
promises nothing after a call has begun inside another one that is half done, or
a block has straddled a gap.  The violation runs show what happens then.

## Fairness

`sched` and `boot` need it.  In `sched` (`LiveSpec` in `MCSched`) the timer
interrupt is weakly fair: the PIT is periodic and unmasked whenever interrupts are on.
A kernel call in progress is strongly fair: it advances only while its process has the
processor, which it gets again and again, and a time slice is 10 ms.  Nothing is
assumed of programs: they need not call, exit or create.

In `boot` (`Spec` in `Boot`) `Process`, the code of kmain's process, is weakly fair:
nothing else uses what it uses, and by `NoStarvation` it gets its turns.  `Answer1` is
weakly fair: a drive comes to an end with a command it has accepted.  A drive that never
does is a machine of its own (`hung`), and so is a PS/2 controller whose status never
changes (`stuck`): `BootCompletes` says that a boot goes through unless it waits for one
of them for ever.  Nothing is assumed of the user, of the keyboard or of the mouse, who
may send something at any moment or nothing: detection must end without them.

## Findings

* `sched_listed`: `SchedulerCreateProc` does not mask the timer.  When a process is
  created or exits while another creation is between the stores of
  `RegisterChildVNode`, one of them leaves the list for good (README.MD:28).
* `vfd_double_open`: two opens both pass the check that `PANIC_DOUBLE_OPEN` is for
  (`vfd.c:70`).
* `vtree_dotdot`: `RegisterChildVNode` never sets `Parent`, so ".." from any node but
  the root ends at a null pointer (comment at `vnode.c:79`).
* `vtree_self`: `SelfProc` is made without `VFS_LINK` (`core.c:79`), so `RelativeFind` never
  reads the link that every timer interrupt stores there, and `/proc/self` leads to an
  empty node and not to the process (`kernel architecture.md:57`, README.MD:16).

No line of the repository says otherwise of the following, so no run refutes
anything; the models of `boot` do them as the code does, except where noted, and its
properties say what holds in spite of them.

* A drive that stays busy is given up after 100000 polls (`ide/main.c:374`) but listed
  all the same; the next read of it waits at :500 for ever.
* With the fixed bases the alternate status is read at port 0x3F8, which is COM1
  (`ide/main.c:321`): each poll may take away a character the user has typed.
* A second controller overwrites `IDEState` (`ide/main.c:713`), to whose entries the
  nodes of the first one lead.
* `Count` of PCI is not compared with `MAX_DEVICES` (`pci/main.c:222`): one entry too many
  is `Count` itself.
* A byte offset of a FAT volume is a product of 32 bits (`fat/main.c:21`), and the place of
  a free directory entry keeps 16 bits of its cluster (:340): what lies beyond 4 GiB, or in
  a directory from cluster 65536 on, is written somewhere else.
* A range of a drive that runs past the last offset of a long goes on at the drive's first
  sector (`ide/main.c:90`).
* `ps2` waits without a bound for a controller to take a byte (`ps2/main.c:56`, :65) and to
  have no more of them (:376), with interrupts off: without a controller on the port,
  which then reads 0xFF, the boot hangs.
* The geometry of a volume divides by fields of a sector nobody has checked
  (`fat/main.c:67`): a partition table without a FAT partition ends the boot.
* Answers of a keyboard that nobody has read are taken for the configuration byte and
  for answers of the mouse (`ps2/main.c:136`); beside a keyboard, a mouse that answers
  promptly is missed, and a key typed meanwhile can pass for one: the digit 2 is scancode
  3, the identity of a mouse with a wheel.
* `ps2_read_mouse_packet` masks interrupts and leaves them masked on four of its five
  returns (`ps2/main.c:206`); the wait for a key that follows halts for good.
* The keyboard's read throws the bytes of the mouse away (`ps2/main.c:290`).
* A backspace in tty0 clears the character before the one it erases (`serial.c:34`),
  and as second character of a line stores in front of the buffer.
* `cd ..` from any directory but the root leaves a null current directory, or what lies at
  address 0 taken for one (`vfd.c:107`); the next command that uses it goes astray.  A
  name that is not there, in `cd` or `type`, ends in a panic (`vnode.c:175`).
* -1 stands for "no sensor" and for two readings of a sensor that is there: one of
  them ends the monitoring (`kmain.c:48`).
* Not in the models: a section without bits (.bss) keeps its offset, so a module's
  static variables lie over what follows in the file (`ia32/module.c:165`).

## What is proved

TLAPS proves these for every value of the constants that satisfies the named
assumptions of the modules.

* `VMemProofs`.  `IInv` is the type invariant, the three heap properties and that no
  live block is empty; the last is what makes distinct blocks have distinct first
  pages, so that a header belongs to one block.  Until `fragmented`, a `kalloc` takes
  free pages only, which keeps blocks disjoint (`BlocksApart`); an exact bitmap
  (`BitmapCorrect`) and an intact header (`HeadersCorrect`) make `kfree` free just the
  block.  `Bump` (before the first `kfree` the bitmap is an initial segment) gives
  `BumpBeforeFirstFree`.
* `PageRaceProofs`, under `SingleAllocator` (as shipped: kmain's process runs every
  `kalloc` and `kfree`).  `IInv` adds that the page a task is about to set belongs to
  nobody and that a loaded byte has at least the bits of all pages in use
  (`StaleByteCovers`): an exit may leave a stale byte with bits too many, never
  with one missing.  Without the assumption both fail.
* `SchedProofs`: types, and when interrupts are off, with no assumption about overlap.
  The rest is under `NoWrap` (process numbers do not repeat).  `ListInv` is
  inductive as long as calls do not overlap.  `Order` says the list is the registered
  processes by descending number and ends in /proc/self; `Creation`, `Exit` and `Back`
  say how far the one call in progress is and what its stores have left half done.
  `QueueCorrect` is the refinement: with `QInv`, the invariant that some sequence
  lists the processes by descending number, `Queue` is that sequence (`SortedUnique`); the
  last store of a creation puts a process in front of it, `DeleteVNode` takes one out, a
  timer interrupt takes its turn (`TurnIsNextProc`) and every other step is a stutter.
* `VFDProofs`, under `NoFdWrap` (fewer opens than the 2^32 descriptor numbers).  All three
  properties rest on one invariant of the time before two opens overlap: one open at
  most is in progress, the counter is above every number in use but the one it just
  gave, and a VNode has one owner at most, a descriptor or a call.
* `VTreeProofs`.  `IInv` gives every directory a sequence of its nodes (`ListOf`) that the
  three pointers spell out; a step keeps a sequence, puts a node before it or takes
  one out.  `PInv` adds that every node has a line of directories up to the root and a
  name of its own among its siblings, from which `RelativeFind` finds its path one
  component after the other.  `NamesAssumption`: nothing is called like `/proc` or like a
  component with a meaning of its own.
* `IDEProofs`.  `AddressInverse`: what `IDEAccess` writes to the registers leads the drive
  to the sector asked for, by cylinder, head and sector, with 28 bits and with 48.  Then
  one invariant of the loop of a read or write: where it is (`Progress`), that the
  buffer of a write holds its sector unless all of it is overwritten (`Fetched`), and
  what a read has delivered up to now (`ReadSoFar`).  `Places` relates the offset the loop
  counts in a long to the bytes of the range, also where it wraps: sectors do not straddle
  the last offset, as `LongMod` is a multiple of their sizes (2^32 on ia32, 2^64 on
  amd64).  The assumptions say that the drive fits its address mode, that an offset is a
  value of a long (a negative one, taken as unsigned, is a large one), and that a buffer
  leaves a sector's bytes of the memory a long can address to others.
* `FATProofs`, from any volume that is in order and whose directories lie in clusters with
  numbers of 16 bits (`VolumeAssumption`: any volume of fewer clusters, a larger one
  whose directories were made early; no directory grows), and that ends within the first
  4 GiB of its drive (`DriveAssumption`).  Under these, no byte offset and no entry's
  place wraps (`AtIs`, `DirsLow`).  `IInv`: the volume
  stays in order with the files written so far (`InOrder`), also between any two sector
  writes; the call in progress has a chain of its own, linked and filled as far as
  `op` says (`InProgress`); until a call fails or is cut short every used cluster is in a
  chain (`AllUsed`); the copies of the table differ as `MirrorsAgree` says.
  `OrderFrame` and `OrderNewEntry` carry `InOrder` over a step.
* `BootProofs`, for any set of machines.  One component moves at a time, so each property
  has an invariant of its own variables and one frame lemma says that nobody else writes
  them (`ShellFrame`, `KmainFrame`, `DevsStep`).  `LinesCorrect`: the fold that edits the
  characters grows by one of them (`Retyped`), as the buffer does.  `PacketsCorrect`: the
  bytes of the packet in progress are the last ones that arrived.  `BusCorrect`: the walk
  has passed the functions before its place, and the step to the next place passes at most
  one more; `BusAssumption` says what a bus is (one function to an address, a function 0 in
  every slot in use, none beside a device that answers under all numbers).
  `InterruptsCorrect` needs only that the shell reads nodes that are there (`TypeInv`).
  `AccessCorrect`: the modules follow each other (`PhaseInv`), so a node of a drive leads to
  an entry with bounds for its numbers (`EntryInv`), and a read that is granted finds its
  sector, course by course (`ReadInv`); `DriveAssumption` says what a drive can answer,
  `OffsetsAssumption` that offsets are numbers of some width.  `DrivesCorrect`, the half of
  `NodesCorrect` about drives: the list has the controller at one place (`ListInv`,
  `PlaceFound`), and up to the slot the probe has come to, each drive that answered has the
  entry and the node of its rank (`DrivesInv`, `Drives`).  The other half reads the 45 lines
  of the PS/2 conversation (`ScriptParts`, one lemma for the lines of each routine) and says
  what is in the controller's buffer without a keyboard (`KeyboardInv`: nothing when its
  echo is waited for) and without a mouse (`MouseInv`): the leftovers of a keyboard, none of
  which is an identity, and the controller's own answers, in front where they replace
  (`ReplacedInv`) and behind where they queue (`QueuedInv`), where the second answer to a
  question asked twice is what the self test's result is compared with.  All of that is said
  of an `Init` during which no device sends a byte of its own (`unasked`); with one it
  fails.  `LinkCorrect`: a second pass over the relocations would read patched words as
  addends, so `LinkInv` says of each place whether the pass has come to it (`DoneTo`); a
  place of two words holds what was stored there modulo their product (`TwoWords`,
  `StoreFetch`).  `LoaderAssumption` says what boot information and a relocatable file are:
  tags follow one another at their alignment, and what is relocated has words of its own and
  refers to nothing, to the kernel, to a loaded section or, in a RELA table, to an absolute
  symbol.  Others are outside the theorem: the REL loop of ia32 takes an absolute symbol for
  0.  No tag lies in the header or between a tag and its successor, so the loader's steps
  meet all of them. `VolumesCorrect` relates what fat reports to the volumes of the machine.
  What their maker says of a volume (`IsMade`) is stated without the driver's formulas: the
  data begin less than a sector behind the root directory's entries, less than a cluster of
  sectors is left over at the end, and the type is that of the number of clusters;
  `MadeIsReported` shows that the driver's roundings and its choices between two fields come
  to the same.  `VolumesAssumption` says that a machine with volumes has drives without
  faults, behind one controller, and loads fat behind ide behind pci.  Then the earlier
  `Init`s have come to an end when fat's begins (`OrderInv`: `PciRan`, `IdeRan`), no read
  fails (`QuietInv`), each node leads to a drive and each drive with a volume has a node
  (`NodeLeads`, `NodeVolume`, `VolumeNode`), and `MountInv` follows the mounting from node
  to node: what was read of this one is what its drive holds (`AtNode`), the volumes of
  those passed are reported (`Behind`) and nothing else is.

Several definitions are recursive functions: `ChainIn` of FAT, `Walk`, `Subtree` and the
fold of `RelativeFind` in VTree.  The prover has no induction over them, and the
proofs use none: a sequence with the properties of a walk is exhibited, and a least
place where it differs from the recursion is led to a contradiction.

Only model-checked:

* `NoStarvation`, `ExitCompletes` and `BootCompletes`: liveness and ENABLED are out of
  the prover's reach.  Every invariant and action property of a passing run, and the
  refinement, is a theorem.
* The disagreements under "Findings", which are counterexamples.

## What is not modelled

PROJECT.json says it component by component and hazard by hazard.

* `FAT`: chains of FAT12 and FAT16 volumes (which the driver writes as if they were FAT32)
  and volumes with one table (the second write would go to the data).  Volumes that end
  beyond 4 GiB and directories beyond cluster 65535: the operators compute what the code
  does there, but no run and no theorem claims anything of them.  Failed writes void every
  promise about a volume: `WriteTo` ignores the result and the IDE driver does not look for
  one.
* `IDE`, `ATA`: DMA (dead code, `dma` is 0), the polling of writes, several callers of one
  drive at a time, and what the writes to the control port do when it is COM1's.
  The 32-bit product of a partition's start and 512 wraps in `FATMount` as in the code;
  `VolumesAsMade` is about partitions that begin within the first 4 GiB.
* `Loader`: sections without bits.  Relocations the code reports or skips (GOTOFF, GOTPC,
  COPY on amd64) leave memory as it is, as in the code, and `InitRunsLinked` promises
  nothing about them.
* `PCI`: reading and writing `/dev/pci`, which copies the structure.
* `Shell`: quoting and escapes of `Parse`; `/dev/random` yields bytes of no meaning here, so
  no boot record is read from it.  Sequences of commands are as long as the typing
  bound of a machine.
* `Boot`: the fields of the multiboot header, writing to the framebuffer (a memcpy),
  `boot.s`, descriptor tables, `TimerInit` and `Delay`.
* `VTree`, `VFD`: lookups in several steps, and `lseek`.
* Console formatting (`SerialPrint`, `UlToString`) and panic's trace.
* The context switches and boot code of the other ports.

## Plan

1. Done: heap, bitmap, scheduler with its abstract queue, descriptors, tree, FAT, IDE.
2. Done: IDE's detection, commands and polling (`ATA`); mounting (`FATMount`).
3. Done: tty0, keyboard, mouse and shell (`PS2`, `Shell`).
4. Done: module loading, PCI and the sequence of `Init`s (`Loader`, `PCI`, `Boot`).
5. Left to model: the switch of the other ports as tables of register slots; trace
   depth under preemption; lookups as steps of their own; sections without bits.
6. Done: a theorem for every safety property of a passing run.  Liveness stays with TLC.
