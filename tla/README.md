# A verification development for XC-OS

XC-OS is a small 32-bit x86 kernel: a boot loader, drivers for the keyboard,
the timer and an ATA disk, a buddy allocator, paging, a priority scheduler with
user processes behind `int 0x80`, the XCFS file system, a shell and an editor.
This directory holds TLA+ models of its core, the TLC runs that check them and
the theorems that TLAPS proves of them. Paths such as `sched.c:142` are those of
the repository (`src/kernel/scheduler/sched.c`); `PROJECT.json` maps every
definition to its lines.

## Contents

1. Inventory of the system
2. The modules
3. The runs, and what they show
4. What the code does otherwise than it says
5. What is proved
6. What is only model-checked, and what is not modelled
7. Plan

## 1. Inventory of the system

There is one processor. Code runs in three contexts: the shell, a kernel process
with interrupts on; user programs in ring 3; and handlers. All handlers run with
interrupts off: the gates of idt.c:89-136 are interrupt gates, and the stub of
`int 0x80` begins with `cli` (syscall.asm:6). So there is true interleaving
between the shell and the handlers, and between a program and the timer, and
none between two handlers.

| Component | State | Operations | Interacts with | What is hard | What makes it correct |
|---|---|---|---|---|---|
| Keyboard (keyboard.c) | ring of characters, modifier flags | IRQ1 handler; line reader with echo, raw reader | shell, editor, `sys_read` | handler between any two steps of the reader; full ring; test, then `hlt` | a bounded queue; a key that waits is read; screen = line |
| Scheduler (sched.c) | circular queue, current process, resched flag | add, remove, tick, yield, sleep, exit | timer, TSS, page directory, process table | tick at any point of the shell; death, sleep and reuse of slots | never runs on freed memory; frees only the dead; everyone is served |
| Process table (proc.c, elf.c) | 32 slots, pids | create, load, free | allocator, paging, scheduler | ready before loaded; failures half-way | as above |
| Interrupts (idt.c, isr.asm, pit.c) | controller, interrupt flag | dispatch, end of interrupt | everything | a handler that does not come back | ticks go on |
| System calls (syscall.c) | table; files and break of a process | exit, read, write, yield, sleep, mmap, munmap, brk, open, close | all of the above | run with interrupts off; failures half-way | a program sees its own memory and files only |
| Physical memory (pmm.c) | 20 free lists with locks, bitmap, order map, count | init, malloc, free, (defragment) | everyone | shell interrupted in a call by another call; locks; sizes that do not fit | nothing given out twice, nothing lost |
| Virtual memory (vmm.c) | directories and tables | map, unmap, spaces | allocator, process table | shared identity pages; ownership of frames | a space frees what it owns |
| XCFS (xcfs.c) | header, entries, bitmap, in memory and on disk | format, init, mkdir, create, write, delete, read, stat, readdir, chdir | ATA, allocator, shell, editor, `sys_open` | order of the sector writes, power failure; compaction on delete | names unique and lasting; contents kept; disk = memory |
| ATA (ata.c) | interrupt flags, a lock | read, write, flush | XCFS | a late interrupt after a timeout | a sector is what was written |
| Shell, editor (shell.c, cmd.c, editor.c) | line, history; text buffer | commands; edit, save | all | compositions of calls whose results are ignored | no file lost |
| Library, kit (time.c, string.c, random.c, libc.c) | – | pure functions; `malloc` over `brk` | – | numeric edges | agrees with the calendar |
| Boot, descriptor tables, text, graphics, speaker, CPU detection | – | straight-line code and output | – | – | – |

How they meet: startup.c initialises the drivers in a fixed order, creates the
shell as a kernel process and queues it; the first tick starts it. The shell
calls XCFS, which calls the ATA driver, and creates programs (`exec`,
`ring3test`), which a tick starts. A program reaches the kernel by `int 0x80` or
by a fault. A dead process is freed by the tick that takes it off, which calls
the allocator from the handler.

`PROJECT.json` lists the hazards of this code line by line, with the properties
that are aimed at them.

## 2. The modules

| Module | Models | Uses |
|---|---|---|
| `KeyQueue` | abstract: a bounded queue of characters | |
| `Keyboard` | keyboard.c | `KeyQueue`, as a refinement |
| `Sched` | sched.c, proc.c, and the calls made of them by startup.c, cmd.c, elf.c, syscall.c, idt.c | |
| `Interrupts` | idt.c, isr.asm, syscall.asm: whether the ticks come | extends `Sched` |
| `Heap` | abstract: an allocator of sets of pages | |
| `Pmm` | pmm.c | `Heap`, as a refinement |
| `Xcfs` | xcfs.c and the disk, with crashes | |
| `Vmm` | vmm.c, with the memory and the files of processes: proc.c, elf.c, syscall.c, the kit's `malloc` | |
| `Ata` | ata.c, its two callers, and a drive | |
| `Files` | xcfs.c as its callers see it, with paths | |
| `Commands` | the commands of cmd.c, call by call | extends `Files` |
| `Editor` | editor.c | extends `Commands` |
| `Console` | text.c, and the line typed on the screen | |
| `Shell` | shell.c, with all of this composed | extends `Editor`, `Console` |
| `MCKeyboard`, `MCSched`, `MCInterrupts`, `MCPmm`, `MCXcfs`, `MCVmm`, `MCAta`, `MCShell` | instances for TLC | |
| `KeyboardProofs`, `SchedProofs`, `InterruptsProofs`, `AtaProofs`, `PmmProofs`, `ShellProofs`, `XcfsProofs`, `VmmProofs` | theorems | |

Definitions that are called a mutant in a comment are variations of the one below
them, in which a plausible mistake was made: each property is checked to fail when
the mutant takes the place of the code's definition (`PROJECT.json`, "mutants").

**Keyboard.** The handler is one action for each class of scan code: it runs with
interrupts off. The reader (`keyboard_getchar`, `keyboard_getchar_raw`) runs with
interrupts on, so the test of the ring, the `hlt`, the load of the character and
the move of the tail are four actions and every interrupt may come between them.
`keyboard_input`, which edits and echoes a line, is the action `Edit`. A character
is the key it came from and its case. The reader is the shell, before any program
is entered; what is lost after that is `Interrupts`' matter.

**Sched.** A process is its slot, which is what the queue's pointers are.
`sched_tick` is the action `Tick`: it wakes sleepers, picks the next process (and
moves the head, as next_ready does), and has three cases, no current process
(`TickIdle`), a process that died or gave up (`TickResched`), a process in its
slice (`TickSlice`). The registers are left out, but not what `switch_to` loads:
the TSS's stack and CR3, by the pid of their owner. `on_cpu` is whose code the
processor executes, which is not always `cur`: when a process gives up and nobody
is ready, the kernel forgets it and returns to it (sched.c:155-158). The shell
makes a process in steps that the tick can see (`AllocProc` .. `Enqueue`), with the
failures on the way.

A tick may come in `Sched` whenever code runs. That is more than the machine does
(see `Interrupts`), and therefore sound for safety: `Interrupts` implements `Sched`
(lemma `IrqImplements`), and everything proved for `Sched` holds of it. No liveness
is claimed of `Sched`.

**Interrupts** adds the controller, which delivers nothing until it is told that the
last interrupt is over, and the interrupt flag. Three facts of the code decide
what it does: `isr_handler` calls `sched_tick` before the end of the interrupt
(idt.c:248-255; the handler of the timer, pit.c:12, comes later as well); the
switch that first enters a program does not return (sched.c:101); and the
controller is not in its automatic mode (idt.c:78).

**Pmm.** Memory is counted in pages. The lists are sets: which block is the head of a
list is left open, since no property depends on it. Every access to a list under
its lock is a step, taking the lock another, and the unlocked look at the lists
(pmm.c:258) a third. There are two contexts: the shell, and calls from handlers
and system calls (`Irq`), which run to their end with interrupts off; the shell goes
on when there is none. `Carved` says what the loop of `init_pmm` leaves on the
lists without walking through it; an assumption of `MCPmm`, which TLC evaluates,
compares it with the loop step by step for every region of up to 20 pages.

**Xcfs.** A call changes the memory at once and leaves in `todo` the sector writes it
makes, in their order; `Flush` hands the next to the disk, and `PowerOff` may come
before any. Calls do not overlap: there is one shell. The model holds the contents
of each data sector as "part k of path p", so that a copy in the wrong order shows.
Paths are model values with a function from each to its parent: the
normalisation of strings is left out. A size is counted in sectors, and a file of
size 0 has one sector, as in the code. A write is of a whole file, as all callers
of `xcfs_write` do. Once earlier deletes have left the entries out of the order of
the disk, the compaction of a delete can meet a file that starts inside the deleted one,
and moves it to before the first data sector, over the bitmap or the table
(xcfs.c:318-333): `Astray` says when, and the model stops there (`strayed`). The first attempt to
prove the types found this.

**Vmm.** A page is a number, physical and virtual alike, and the allocator is the one
`Heap` promises: a set of free pages, of which any may come. What a page holds matters
only when it is a table, or when it is read as one. A directory entry is empty, a
4 MB page (`Big`), or the page of a table. A call that maps several pages is a
`call` with its pages still to do; each page is a step (`MapNext`), and memory may end
before any (`NoMemory`), in which case mmap, brk and read return with what they have
mapped, and a load frees the process. Only one call runs at a time: system calls run
with interrupts off, and a process that is being built is seen by no one (that the
scheduler could is `Sched`'s matter). `Destroy` is what `vmm_destroy_space` is right to
free, `Misread` the pages that it takes for tables since the entries of 4 MB pages have
the present bit too (vmm.c:225), and `Misnamed` what it then frees: what is in such a page
is anything once it was allocated. When this takes pages of others the model
stops (`spoiled`).

**Ata.** A caller is in one place of a call: waiting for the lock, for the drive, for an
interrupt, for data. Its waits end when what they wait for has come, or give up
at any time before: a timeout in the code is a count of polls, and nothing bounds how
long a drive takes. The handlers (`Irq`) set the flag, and an error if the drive reports
one. The drive is external: it ends a command with an interrupt, may fail at any,
may ignore a command that comes while it is busy, and need do nothing at all. `Detect` is
the start: it leaves the flag set, and the error if a drive is no disk, since
`ata_reset_bus` (ata.c:68) turns the interrupts on again that `ata_init` turned off
(ata.c:151). `late`, `erred`, `synced` and `fresh` are history for the properties.

**Files, Commands, Editor, Console, Shell.** A path is a sequence of names and an
argument a sequence of parts, among them "." and "..", which `Normal` folds as `np` does.
A path that is too long is not normalised; the caller reads what its stack holds
(`Norms`). An entry carries its data, a sequence of characters; sectors count only for
what fits, and for where a read or a write ends when the disk fails. The free sectors
are one run here, as the compaction of a delete keeps them in `Xcfs`; and a delete
has the entries' slots, since a child finds its parent by slot. A command that makes more
than one call is a job whose steps are the calls (`Load`, `Clear`, `Make`, `Put`,
`Unlink`); `held` counts the blocks of the heap that it and its arguments hold. The editor's
save is a job of the same steps. `Console` has the cells of the screen and the pen: what
`pc` does at the end of a row and of the screen, and for a backspace. What was printed
before the last prompt is one character, "h". The words of a line are not matched to the
command it starts; a line may be any command. `Restart`, at any step, keeps the files only.

## 3. The runs, and what they show

| Run | Bounds | Result |
|---|---|---|
| `keyboard` | ring of 3 slots, line of 3, one letter key, shift and ctrl, backspace, newline | passes; 245 thousand states |
| `sched` | 3 slots, 7 processes in all, slices 1, 2, 3, sleeps 0, 1, 2 | passes; 45 thousand states |
| `sched_queue` | 3 slots, 3 processes | `QueuedRuns` violated |
| `sched_sleep` | same | `SleepGivesUp` violated |
| `pmm` | 4 orders, heap at page 4, regions [2,9) and [10,12), requests of 1, 2, 3 pages | passes; 386 thousand states |
| `pmm_large` | the same with the heap at page 2 and memory to page 8 | `BlocksApart` violated |
| `xcfs` | 5 entries, 4 data sectors, 2 directories and 3 files, sizes 0 and 2, 2 starts, 7 calls | passes; 2.2 million states |
| `xcfs_delete` | the same with 6 calls | `CheckFindsNothing` violated |
| `xcfs_layout` | the same, data at the sector the build gives it | `LayoutApart` violated |
| `vmm` | 10 pages, 4 to a 4 MB page, 2 processes, images of 0 and 2 pages, calls for 1 page, malloc of 3 units of a page of 2, 1 open file each, 3 kernel pages, 1 page lost when a call begins | passes; 360 thousand states up to the exchange of processes |
| `ata` | 2 sectors of 2 values, calls for 1 and 2, a disk and one more drive of any kind, 3 calls of the shell and 1 of a process | passes; 455 thousand states |
| `shell` | 3 entries, 3 sectors of 2 characters, paths of 2 parts, names a, b and "..", a screen of 3 by 2, a line of 4, a text of 2 on 2 rows | passes; 801 thousand states |

**keyboard.** *TypeOK*; *ReadIsStable*: the half-finished read is not disturbed by
keys that come in between, although the ring may be filled meanwhile; *QueueSpec*:
the driver implements `KeyQueue`; *EchoIsLine*: the echo and the line agree;
*KeyIsRead*: a key that waits is read, although it may come between the test and the
`hlt`. A ring of three slots holds two characters: it wraps, fills and drops within
a few keys. One printable key suffices since characters are not compared but for
being the same; two modifiers are enough for the shift to matter and another not
to. *Fairness:* the reader is executed when it is not halted (there is nothing else
to run), and the timer ends a `hlt`, a thousand times a second (startup.c:46). The second is
what *KeyIsRead* rests on. Both are justified as long as the shell has the processor and
no program was entered, which the module says.

**sched.** *ContextLoaded*: whatever dies in which order, the current process is not
a freed one, and the stack in the TSS and the page directory are its own;
*FreshSlice* and *SleeperLeaves*: the field `ticks`, which counts a slice or a sleep,
is never mistaken for the other; *OnlyTheDeadAreFreed*, *DeadLeave*: action
properties of the reaping. Three slots let the queue wrap, its window drift and the
slots be used again; seven processes use each slot at least twice.

**pmm.** *NoOverlap* and *NoneLost*: every page of the memory map is in exactly one
place, a list, an owner, or a call on its way; *BitmapIsTrue* and *UsedIsTrue*: what
`pmm_free` reads is what `pmm_malloc` wrote; *HeapSpec*: to its callers the allocator
is `Heap`; *CallReturns*: a call ends, unless the shell is interrupted in it or a
call with interrupts off spins on a lock the shell holds (which does happen, and is
why the run does not check for deadlock: such a machine stops). *Fairness:* code that
has the processor goes on, for each context. Four orders give three levels of
splitting and merging; the hole between the two regions gives buddies that do not
exist; requests of 3 pages are rounded up. The instance has no block larger
than the start of the heap, the case in which alignment by address and by number
agree: the other is `pmm_large`.

**xcfs.** *NamesUnique*: one entry to a path, also after the last entry moved into a
deleted one's slot, and after a restart; *NamesSurvive*: between two calls the disk
has the same names, types and sizes as the memory; *CrashLosesNoName*: a call other
than a delete that is cut off loses no name; *TreeKept*: parents are found where the
entries say, across the move of an entry; *FilesKept*: a call keeps the contents of
every other file, as long as no path has two entries, and, of a delete, as long as the
table lists the files in the order of the disk. The data of this instance begins behind the bitmap;
`xcfs_layout` has the layout of the build. Five entries (the root and four) fill up; four data sectors are too
few for three files of two; a file and a directory compete for one name, so that
an entry may lie below a file. Two starts are enough for a power failure and what the
next start finds. Seven calls reach: three creations, a delete that moves an entry
and a file, a second delete and two more. The run does not check for deadlock:
calls and starts are bounded.

**vmm.** *OneOwner*: no page is mapped twice, is a table and mapped, or is free and
mapped, whichever calls ran out of memory on the way; *LostOnlyBy*: there are four ways in
which a page gets lost, and every other call keeps each page free or owned: mmap maps
at a fixed address over what is there, and again over what it mapped before it ran out
of memory (syscall.c:114-121); a page whose table found no memory (vmm.c:110); the
files that a process had open (proc.c:94-98); what is mapped for the kernel
below the end of the identity map, where `vmm_map_page` does nothing (vmm.c:26, 94).
*DestroyTakesOwn*: the end of a process gives back its stack, space, directory, tables
and pages, and nothing else, as long as no page that begins a 4 MB page was ever handed out;
*MallocIsMapped*: the whole of what `malloc` returns is mapped, though `brk` is not a
multiple of a page. Ten pages do not suffice for two processes with an image and their
tables, so that memory ends in every call. One lost page at most when a call
begins keeps the run small: a second one is lost in the same ways. At most one of the
words of a misread table names a page of others: one is enough to spoil. The run
does not check for deadlock, since a spoiled system stops.

**ata.** *ReadIsTrue*: a read that succeeds has the sectors it asked for, even when it
took a flag that was not its own: the wait for the drive's data makes up for it;
*WriteIsFlushed*: what is reported written is on the platter; *InSync*: one call that begins
with nothing left over leaves nothing over, also when the drive fails in it, so that
from then on each command takes its own interrupt; *FailsOnlyBy*: such a call fails
only for a failure of its own; *CallReturns*: a call returns whatever the drive does,
or fails to do. The first four hold until a call gives up: a drive that answers after
that sets the flag for the next command, and nothing in the code can tell. The
first call after the start does take the flag and the error that start-up left
(ata.c:68), which is why *WriteIsFlushed*, *InSync* and *FailsOnlyBy* are stated for calls that
begin with nothing left over; the first read brings that about. *CallReturns* excepts the
process that spins with interrupts off on the lock the shell holds (ata.c:12-16).
*Fairness:* the processor takes its interrupts when they are on, and code that has the
processor goes on; a wait in which nothing comes ends, since it counts (ata.c:42, 52). Of the
drive nothing is assumed. Three calls are one that takes what start-up left, one that
begins with nothing left over, and one after it. The run does not check for deadlock: calls are bounded.

**shell.** *LostOnlyBy*: whatever is typed, and whenever the machine restarts, what a file
holds is lost only by a command told to lose it (rm, or one that replaces the
file), by an mv onto the file itself or after a copy that failed, or along a path that is
too long; *CleanMeansSaved*: an editor that shows no change holds what the file holds, unless a
read or a save failed; *MemoryReturned*: at the prompt nothing is held, whichever call
failed; *LineStaysShown*: what is on the screen after the prompt is the line that
Enter will run, across the ends of rows and the scroll, until a character is erased at the left edge,
where the backspace stops (text.c:94). The disk starts empty, or full with a file
in a directory, so that an entry that moves has a child. Two parts of path reach "too
long" from within a directory; four characters wrap and scroll a screen of six cells;
a text of two characters with a newline in it has three lines at the most, more
than there are rows. No fairness: nothing is claimed to happen.

The conditions in *TreeKept* and *FilesKept* are those under which the code keeps
what it promises: without that of *TreeKept* a file that has children is deleted
(xcfs.c:93), without the order of the files `xcfs_delete` copies a file over one that has not
been moved yet (xcfs.c:324). That no path has two entries was found to be needed by the attempt
to prove *FilesKept*: after power failures in two calls a path may have two, and a write to it
reaches only the first (xcfs.c:74-80). It takes three starts, one more than the run has.

## 4. What the code does otherwise than it says

Each has a run that ends in a counterexample; the finding in `PROJECT.json` quotes
the line.

1. *A queued program may never run* (`sched_queue`). `next_ready` moves the head of
   the queue past the process it returns even on a tick that does not switch to it,
   and the window the scheduler looks at then starts behind it. cmd.c:716 promises
   output on the next tick.
2. *A program that sleeps keeps the processor* (`sched_sleep`): there is no further
   tick once a program was entered.
3. *Blocks of the allocator overlap* (`pmm_large`) as soon as a block larger than
   HEAP_START is split: blocks are aligned by address and paired by a number that
   counts from HEAP_START. The heap starts at 1 MB, so the block of 2 MB at 2 MB is
   the first of them: it has number 256, and its buddy on the way down number 0.
4. *A delete leaves the disk inconsistent* (`xcfs_delete`): files before the deleted
   one in the table may have moved, and their entries are not saved.
5. *The saved bitmap lies in the data sectors* (`xcfs_layout`).

The other modules met behaviour that no line of the source speaks about, so that there
is nothing to disagree with; the properties name it as the exception it is. These are the
ways in which a page or a file is lost, the flag that start-up leaves in the driver, the
space that is destroyed with pages of others, the pages of others that `vmm_free_pages` would
free with memory at 3 GB, the deadlock on the driver's lock, and the line
that cannot be erased past the left edge. `PROJECT.json` lists them among
the hazards, save the one of memory at 3 GB, which section 5 explains.

## 5. What is proved

All theorems hold for every value of the constants that the named assumptions of the
modules admit: any size of the ring and of the line, any number of slots, slices,
sleeping times and processes, any memory map and number of orders, any number of sectors,
entries, paths and calls, any size of the screen, any layout of the address spaces. Three sets
of theorems have a hypothesis beside that, each a condition some machines or runs of the program
meet and others do not: `BlocksAligned` (Pmm), `[]Room` and `[]Spared` (Xcfs) and `MemoryBelowHeap`
(Vmm), which are explained below.

**Keyboard** (`KeyboardProofs`; from SizeAssumption and KeysAssumption).
`TypeCorrect`, `ReadStable` and `EchoFaithful` are invariants. *ReadIsStable* is not inductive by
itself: that the reader's copy is still in its slot needs that the handler stores
elsewhere, for which the slots in use must hold keys and the indexes be in range. The
invariant `IInv` is the conjunction of all three and is shown step by step.
`RefinesQueue` shows that `Keyboard` implements `KeyQueue`: a key is `Put`, the move
of the tail is `Get`, a reboot is `Reset`, and everything else stutters. The lemmas
before it say how many characters are waiting, and in which slot each is, after the
head or the tail moved around the end of the ring; *ReadIsStable* is what makes the
character handed out the first of the queue.

**Sched** (`SchedProofs`; from ProcMaxAssumption, SliceAssumption, SleepAssumption,
MaxPidAssumption, NullAssumption). The inductive invariant is
`IInv == TypeOK /\ ContextLoaded /\ FreshSlice /\ SleeperLeaves /\ JobInv`. *JobInv* is
what the others need of a process that is being built: its slot is one, and while it
has only been taken it is still free and nothing has been counted in it; without it
the step that makes the process ready could give it ticks left over. *TypeOK*,
*ContextLoaded*, *FreshSlice* and *SleeperLeaves* need one another: which process a
tick frees, and whether it was waiting, depends on what is current and why.
`TypeCorrect`, `ContextIsCurrent`, `SlicesAreFresh` and `SleepersLeave` follow;
`FreesOnlyTheDead` and `TheDeadLeave` are the action properties, from the same invariant.

**Interrupts** (`InterruptsProofs`). The lemma `IrqImplements` shows that every step of
the machine with its controller is a step of `Sched` or leaves its variables alone;
`MachineContext` and `MachineFreesTheDead` carry the results over.

**Pmm** (`PmmProofs`; from the assumptions of `Pmm` on the memory map and on Null).
The invariant is `IInv == ShapeInv /\ OpInv /\ Sound(Held) /\ BitmapIsTrue /\ UsedIsTrue`.
`Held` are the *pieces* of memory: the blocks on the lists, those given out, and those a call
carries between two steps. `Sound` says that each is a block of its order at a
place where one may begin, that no two of them share a page, and that together they cover the
map. It is stated of the pieces of one state as a whole, because every step exchanges
some pieces for others that cover the same pages: a split makes two halves of a block, a merge
one block of two buddies, and all other steps move a piece. What has to be known of a
step is therefore only which pieces come and go. `OpInv` says how far each call is
and what it holds. The hypothesis `BlocksAligned` says that the number of every carved block is
a multiple of its size; without it a buddy is not the other half of a block, and
`pmm_large` shows the blocks that overlap then. `AlignedHeapSuffices` shows that it is met
by every memory with no block larger than the alignment of HEAP_START. `NeverInTwoPlaces`, `NeverLost`,
`BitmapStaysTrue`, `UsedStaysTrue` and `OwnersApart` follow, and `IsAHeap`: the step that takes the piece
for a caller is `Allocate` of `Heap`, the clearing of the bitmap is `Release`,
all others stutter. What the loop of `init_pmm` needs by induction is taken from the least and the
greatest number that has a property.

**Ata** (`AtaProofs`). The invariant
`IInv == CallInv /\ LockInv /\ DevInv /\ FlagInv /\ DiskInv /\ CountInv /\ ServeInv /\ SyncInv`
relates the place of a call to the state of the drive. *ServeInv* says that what
the drive has still to do of a command is the rest of what the call has
still to do: until a call gives up, the drive is at the sector of the call or one
behind it. *SyncInv* says that the one interrupt of a command of a call that began with nothing left over is
either on its way or has been taken. `ReadsAreTrue`, `WritesAreFlushed`, `StaysInSync` and
`FailsOnlyByDrive` follow; nothing is assumed of the drive.

**Shell** (`ShellProofs`). The invariant is `IInv == CoreInv /\ ConInv`, of the files and
of the screen. *CoreInv* accounts for each step of a job: *HeldInv* says how many blocks of
the heap are held there, whichever calls have failed; *TargetInv* and *MoveInv*
what the file that is being saved, or the two of an mv, hold at that step;
*CleanMeansSaved* needs both. `MemoryComesBack`, `CleanIsSaved` and
`LostOnlyWhenTold` follow. *ConInv* says that the cells behind the pen are blank, without which a
character typed after a scroll could stand before one left there; `LineIsShown` rests on it. The folds of `Normal` and
`Printed` are handled by the lemmas `FoldExists` and `UpToNumber`: what one step
keeps, all of them keep, by the least number of steps at which it would not be so.

**Xcfs** (`XcfsProofs`). `TypeCorrect` and `TreeIsKept` hold as they stand. The names are one
invariant, `NamesInv == clean => MemInv /\ OffInv /\ DiskInv /\ CallInv`: the names in the table in memory
are unique; those on the disk are when the machine is off; the disk differs from the memory only in
what `todo` is about to write, and in a call that adds an entry, only by that one. `OneEntryToAPath`,
`DiskKnowsAll` and `LosesNoName` are `Spec /\ []Room => ...`. *Room* says that the sectors of the
entries in use do not lie among the data: in the build `data_start` is the sector of the last of
the 1024 entries, so that it holds until the table is completely full (this is next to
what `xcfs_layout` shows of the bitmap). `clean` ends when the power fails in a call;
*NamesUnique* claims nothing after that.

`FilesAreKept` (*FilesKept*) follows the contents of files through a call. `After(d, t)` is what a
disk `d` becomes when the writes `t` have been made; `SoundIs` says *Sound* of it, and the lemmas on
`After` say which sectors a list of writes changes. The compaction is met in two steps. One move
copies a run of sectors down onto sectors that may overlap it: `CopyIs` says that the first k
sectors have arrived and the others are as they were, for each k. The loop over the table has, before its
turn f, the files up to f in their new places and the others in the old ones (`Stage`); that
a turn keeps this (`TurnIs`) rests on the order of the files (`PosOrdered`): what is written over is
the deleted file, or a file that has been moved. `CompactIs` is the last stage, and
`KeptDelete` adds the last entry that takes the place of the deleted one. The recursive functions of
both loops are met by `Recursion`, `CopySteps` and `CompactSteps`, as the folds are in Shell. A hypothesis
beside *Room* is *Spared*: no file has the sector of the bitmap. In the build that sector is
the second of the data, so that a file soon has it, and a save of the bitmap then destroys what
is there: this is the fault that `xcfs_layout` shows, and the theorem says that beside it, and beside
a delete out of the order of the disk, no call loses contents. `FilesAreKeptApart` shows that the layout is all there is to both: where the data begins
behind the bitmap, *FilesKept* holds of every run.

**Vmm** (`VmmProofs`; from PageAssumption, TableAssumption, NoneAssumption and
LayoutAssumption). The invariant is `IInv == TypeOK /\ KernelInv /\ (~spoiled => SoundInv)`, where
`SoundInv` is `Apart(Owners, free) /\ TableInv /\ EmptyInv /\ CallInv`. An *owner* is a
reason for which a page is in use: a directory and an entry for a table, a directory, an entry and
a word for a mapped page, a process for its blocks, a descriptor for an open file. `Apart` says that
no page is in use for two reasons and none is free; *OneOwner* says the same in numbers and follows by
a bijection. It is not inductive alone. *TableInv* says where tables may be, and that what a table's page holds
are words, so that a page which is given to a caller and holds anything is never read as one,
save by the destruction of a space. *EmptyInv* says that a
process not yet complete has neither tables nor files, so that what a failure frees is all there
is. *CallInv* says how far a call is: of `brk`, *BrkInv*, that the pages from the old break to the next
one are mapped, which is what *MallocIsMapped* comes from; of `vmm_alloc_pages`,
*AllocInv*, that its pages end before the heap of the kernel does. What a step
may do is `Good(X)`: it keeps the types, owners apart and tables tables, and loses no
page outside X. One lemma to each way a step changes memory shows it Good for the right X, and
`LostInFourWays` (*LostOnlyBy*) is that X is what the property admits. `TypeCorrect`, `PagesHaveOneOwner`,
`SpacesTakeTheirOwn` (*DestroyTakesOwn*) and `MallocMaps` follow.

The hypothesis `MemoryBelowHeap` is a finding of the attempt to prove `Apart` without it: where an
address of the kernel's heap lies behind a 4 MB page, `vmm_map_page` maps nothing (vmm.c:26), and `vmm_free_pages`,
which then takes the address for that of its page (vmm.c:133, 193), gives back the page of that
number, whoever has it. The heap's addresses begin at 3 GB (vmm.h:10) and the identity map
reaches further (vmm.c:58), so all of them lie behind one; what keeps the code right is
that a machine has no memory at 3 GB that the allocator hands out. The hypothesis says that, and the
instance that TLC checks meets it.

## 6. What is only model-checked, and what is not modelled

Only model-checked: all liveness (*KeyIsRead*, both *CallReturns*), since liveness under fairness and
ENABLED are out of the prover's reach; and the agreement of the loop in `MCPmm` with `Carved`, which
is about one memory map and belongs to the instance. Induction over data is out of reach too in
general. Where a proof needs what a recursion brings about, it is stated as what each step keeps,
and that all steps do follows from the least step at which it would not be so. There are no
RECURSIVE operators.

Not modelled, with the reasons in `PROJECT.json`: boot code, descriptor tables, pixels and
glyphs, printf, sound, CPU detection (straight-line code and output); the drawing of the
editor; `pit_sleep` and the conversions of time.c, which the commands only wait for or print (among
them the hour of a clock in 12-hour mode, time.c:53-54, where 12 is added to noon and not
taken from midnight); the library and the formatting of the kit; `pmm_defragment`, which nothing
calls; `bsod`, which halts; `sys_read` from the keyboard, whose `hlt` with interrupts off nothing
follows.

Abstractions a reader should know of: registers are not modelled, so that a sleeper's
are not saved (sched.c:75) is not visible; in `Xcfs` sector writes always succeed, although the code
ignores when they do not, and in `Files` only those of `xcfs_write` may fail; the memory of a
process is not in `Sched`, where its freeing always succeeds, and the scheduler is not in
`Vmm`; `Vmm` stands on the abstract allocator, so that the overlap of `pmm_large` is not
carried into it; the commands of the shell run to their end or to a restart, and a process
that opens a file meanwhile only reads.

Bounds that exist only for TLC: `MaxPid` (processes created), `MaxBoots`, `MaxCalls`,
`MaxOpens`, `MaxLost`, `MaxKernelPages`, `MaxBrk` (the end of user space brought near) and the bound in `Misnamed`.

## 7. Plan

1. `Xcfs` implements `Files`, by the mapping that forgets sectors and the disk, between calls.
2. The scheduler with more stale entries than slots; the timer's counter and `pit_sleep`.
