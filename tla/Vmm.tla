-------------------------------- MODULE Vmm ---------------------------------
(***************************************************************************)
(* Address spaces, src/src/drivers/memory/vmm.c, and who owns which page   *)
(* of memory: processes (proc.c, elf.c), their system calls on memory and  *)
(* files (syscall.c), their malloc (kit/lib/libc.c) and the pages that the *)
(* kernel maps for itself (cmd_vmmtest of cmd.c).                          *)
(*                                                                         *)
(* A page is known by its number, a physical one and a virtual one alike.  *)
(* The allocator is the one that Heap promises; every block is one page.   *)
(* A directory entry is empty, one of the 4 MB pages by which the kernel   *)
(* maps memory to itself, or the page that holds a table.                  *)
(*                                                                         *)
(* A system call runs with interrupts off, and nobody but its builder      *)
(* looks at a process that is not complete: one call runs at a time, a     *)
(* page of it to a step.                                                   *)
(***************************************************************************)
EXTENDS Naturals, Sequences, FiniteSets

CONSTANTS Frames,        \* the pages of memory that pmm_malloc hands out
          Entries,       \* entries of a table; the code has 1024 of them
          BigTables,     \* the directory entries below identity_end and for the screen
          UserTables,    \* those that vmm_destroy_space looks at
          Tables,        \* all of them
          StackBase, StackPages, HeapBase, MmapBase,
          KernelHeap,    \* KERNEL_HEAP_VIRT
          Procs, Kernel, \* the processes; the owner of the first directory
          Unit,          \* addresses in a page
          Images,        \* what is loaded: sequences of the pages of segments
          MmapPages,     \* the lengths given to mmap
          KernelRuns,    \* and to vmm_alloc_pages
          MallocSizes,   \* what malloc is asked for, with its header
          Fds,           \* 3 .. PROC_FD_MAX - 1
          MaxBrk, MaxKernelPages, MaxLost, \* bounds
          None, Big, Data

ASSUME PageAssumption == /\ Frames \subseteq Nat /\ IsFiniteSet(Frames) /\ Entries \in Nat \ {0}
                         /\ Unit \in Nat \ {0} /\ MallocSizes \subseteq Nat \ {0}
                         /\ MmapPages \cup KernelRuns \subseteq Nat \ {0} /\ StackPages \in Nat
ASSUME TableAssumption == Tables \subseteq Nat /\ BigTables \cup UserTables \subseteq Tables
ASSUME NoneAssumption == /\ {None, Big, Data} \cap (Nat \cup Procs) = {} /\ Kernel \notin Procs
                         /\ None # Big /\ None # Kernel
                         /\ Data \notin [0 .. Entries - 1 -> Frames \cup {None}]

\* What the addresses of the build are to each other: the identity map covers user
\* space, which ends where the heap of the kernel begins (vmm.c:67, 225, vmm.h:10-11,
\* elf.c:41, syscall.c:113, 162).
UserPages == (StackBase .. StackBase + StackPages - 1)
               \cup (UNION {{image[k] : k \in DOMAIN image} : image \in Images})
               \cup (UNION {MmapBase .. MmapBase + n - 1 : n \in MmapPages})
               \cup (MmapBase .. HeapBase - 1) \cup {StackBase, HeapBase, MmapBase}
               \cup (HeapBase .. (MaxBrk + Unit - 1) \div Unit - 1)
ASSUME LayoutAssumption ==
  /\ {StackBase, HeapBase, MmapBase, KernelHeap, MaxBrk, MaxKernelPages} \subseteq Nat
  /\ Images \subseteq Seq(Nat) /\ HeapBase * Unit <= MaxBrk
  /\ UserTables \subseteq BigTables
  /\ \A v \in UserPages : v \div Entries \in UserTables
  /\ \A v \in KernelHeap .. KernelHeap + MaxKernelPages - 1 : v \div Entries \in Tables

VARIABLES free,          \* the pages on the allocator's lists
          mem,           \* the words of a page: those of a table, or any (Data)
          pde,           \* the directories: [Procs \cup {Kernel} -> [Tables -> ...]]
          proc,          \* the blocks of a process: its stack, then its space and directory
          heap_brk, files,
          next_virt, kernel_pages,  \* runs of pages that vmm_alloc_pages returned
          call,          \* the call that runs: its pages still to be mapped
          spoiled        \* a space was destroyed with pages of others: the model stops

memory == <<free, mem, pde>>
vars   == <<memory, proc, heap_brk, files, next_virt, kernel_pages, call, spoiled>>

Table(v) == v \div Entries
Entry(v) == v % Entries
Blank    == [i \in 0 .. Entries - 1 |-> None]
RoundedDown(a) == a \div Unit              \* mutant: the last page is left out
Upto(a)  == (a + Unit - 1) \div Unit       \* the page an address is rounded up to
Idle     == [name |-> "none", p |-> None, todo |-> <<>>, to |-> 0]
NoProc   == {}
NoFiles  == [fd \in Fds |-> None]
Run(v, n) == [i \in 1 .. n |-> v + i - 1]

\* vmm_init and vmm_enable_paging: memory is mapped to itself.  The memory is that of
\* a machine just switched on: no word in it names a page.  Only of a page that begins
\* a 4 MB page does it matter what it held before it was allocated.
Begins(f) == f % Entries = 0
Identity == [i \in Tables |-> IF i \in BigTables THEN Big ELSE None]
Init ==
  /\ free = Frames
  /\ mem = [f \in Frames |-> IF Begins(f) THEN Blank ELSE Data]
  /\ pde = [d \in Procs \cup {Kernel} |-> Identity]
  /\ proc = [p \in Procs |-> NoProc]
  /\ heap_brk = [p \in Procs |-> HeapBase * Unit]
  /\ files = [p \in Procs |-> NoFiles]
  /\ next_virt = KernelHeap
  /\ kernel_pages = {}
  /\ call = Idle
  /\ spoiled = FALSE

---------------------------------------------------------------------------
\* The allocator.  Any free page may come, but one that does not begin a 4 MB page is
\* as good as another: of those the first is taken.

Pick(from) == {f \in from : Begins(f) \/ \A g \in from : Begins(g) \/ f <= g}

\* What a free page holds is no one's business until somebody reads it.
Freed(S) == [f \in Frames |-> IF f \in S \ free THEN Data ELSE mem[f]]

---------------------------------------------------------------------------
\* vmm_map_page_in: the table of an empty entry, or of a 4 MB page, is made first.
\* If there is no memory for it nothing is mapped, and the caller is not told.

TableOf(d, v) == pde[d][Table(v)]
Maps(d, v) == TableOf(d, v) \in Frames /\ mem[TableOf(d, v)][Entry(v)] # None
InNewTable(d, v, f, left) ==
  \/ /\ left = {}
     /\ free' = {} /\ mem' = [mem EXCEPT ![f] = Data]
     /\ UNCHANGED pde
  \/ \E t \in Pick(left) :
       /\ free' = left \ {t}
       /\ mem' = [mem EXCEPT ![f] = Data, ![t] = [Blank EXCEPT ![Entry(v)] = f]]
       /\ pde' = [pde EXCEPT ![d][Table(v)] = t]
InTable(d, v, f, left) ==
  /\ free' = left
  /\ mem' = [mem EXCEPT ![f] = Data, ![TableOf(d, v)][Entry(v)] = f]
  /\ UNCHANGED pde
\* mutant: a new table for every page
MapInAnew(d, v, f, left) == InNewTable(d, v, f, left)
MapIn(d, v, f, left) ==
  IF TableOf(d, v) \in Frames THEN InTable(d, v, f, left) ELSE InNewTable(d, v, f, left)

\* vmm_map_page leaves a 4 MB page alone; without memory for a table it maps nothing.
Map(v, f, left) ==
  IF TableOf(Kernel, v) = Big
  THEN free' = left /\ mem' = [mem EXCEPT ![f] = Data] /\ UNCHANGED pde
  ELSE MapIn(Kernel, v, f, left)

---------------------------------------------------------------------------
\* vmm_destroy_space.  It takes every entry for the page of a table, those of the 4 MB
\* pages too, and frees what it finds there.

OwnTables(p) == {pde[p][i] : i \in UserTables} \cap Frames
Named(t) == {mem[t][i] : i \in 0 .. Entries - 1} \ {None}
OwnPages(p) == UNION {Named(t) : t \in OwnTables(p)}
OpenFiles(p) == {files[p][fd] : fd \in Fds} \ {None}

DestroyPages(p) == proc[p] \cup OwnPages(p)          \* mutant: forgets the tables
Destroy(p) == proc[p] \cup OwnTables(p) \cup OwnPages(p)

Misread(p) == {i * Entries : i \in {j \in UserTables : pde[p][j] = Big}} \cap Frames
\* Bound: of words that may be anything one at most names a page of others, the first.
Others(p) == Frames \ (free \cup Destroy(p))
Misnamed(p) ==
  LET known   == {t \in Misread(p) : mem[t] # Data}
      certain == Misread(p) \cup UNION {Named(t) : t \in known}
      first   == {f \in Others(p) : \A g \in Others(p) : f <= g}
  IN  {certain} \cup {certain \cup first : t \in Misread(p) \ known}

\* pmm_free does nothing for a page that is free.
Die(p) ==
  \E others \in Misnamed(p) : LET gone == Destroy(p) \cup others IN
    /\ free' = free \cup gone
    /\ mem' = Freed(gone)
    /\ spoiled' = (others \cap Others(p) # {})
    /\ pde' = [pde EXCEPT ![p] = Identity]
    /\ proc' = [proc EXCEPT ![p] = NoProc]
    /\ heap_brk' = [heap_brk EXCEPT ![p] = HeapBase * Unit]
    /\ files' = [files EXCEPT ![p] = NoFiles]
    /\ call' = Idle

---------------------------------------------------------------------------
\* Who has which page: <<owner, as what, where, page>>.
Holdings ==
  (UNION {{<<p, "block", 0, f>> : f \in proc[p]}
            \cup {<<p, "file", fd, files[p][fd]>> : fd \in Fds} : p \in Procs})
  \cup {<<d, "table", i, pde[d][i]>> : d \in Procs, i \in UserTables}
  \cup {<<Kernel, "table", i, pde[Kernel][i]>> : i \in Tables}
MappedIn(d, i) == IF pde[d][i] \in Frames
                  THEN {<<d, "page", i * Entries + e, mem[pde[d][i]][e]>> : e \in 0 .. Entries - 1}
                  ELSE {}
Owners ==
  {h \in Holdings \cup (UNION {MappedIn(d, i) : d \in Procs, i \in UserTables})
           \cup (UNION {MappedIn(Kernel, i) : i \in Tables}) : h[4] \in Frames}
Held == {h[4] : h \in Owners}
Lost == Frames \ (free \cup Held)

\* Bound: no call begins when more than MaxLost pages are lost.
Quiet == call = Idle /\ ~spoiled
Few   == Cardinality(Lost) <= MaxLost
Alive(p) == Cardinality(proc[p]) = 3
Begin(p, name, todo, to) == call' = [name |-> name, p |-> p, todo |-> todo, to |-> to]
Return == call' = Idle
In(name) == call.name = name /\ ~spoiled
kernelVars == <<next_virt, kernel_pages>>
procVars   == <<proc, heap_brk, files>>

\* proc_create_user, elf_load: the stack of the process, vmm_create_space, then the
\* pages of the code, of the user stack and of the image.
Create(p) ==
  /\ Quiet /\ Few /\ proc[p] = NoProc
  /\ \E k \in Pick(free) :
       /\ free' = free \ {k} /\ mem' = [mem EXCEPT ![k] = Data]
       /\ proc' = [proc EXCEPT ![p] = {k}]
  /\ \E image \in Images : Begin(p, "space", Run(StackBase, StackPages) \o image, 0)
  /\ UNCHANGED <<pde, heap_brk, files, kernelVars, spoiled>>

Space(p) ==
  /\ In("space") /\ call.p = p
  /\ \/ \E s \in Pick(free) : \E d \in Pick(free \ {s}) :
          /\ free' = free \ {s, d} /\ mem' = [mem EXCEPT ![s] = Data, ![d] = Data]
          /\ proc' = [proc EXCEPT ![p] = @ \cup {s, d}]
          /\ pde' = [pde EXCEPT ![p] = pde[Kernel]]
          /\ call' = [call EXCEPT !.name = "load"]
     \/ /\ Cardinality(free) < 2
        /\ free' = free \cup proc[p] /\ mem' = Freed(proc[p])
        /\ proc' = [proc EXCEPT ![p] = NoProc]
        /\ Return /\ UNCHANGED pde
  /\ UNCHANGED <<heap_brk, files, kernelVars, spoiled>>

\* The image may turn out to be bad between two segments.
LoadFails(p) == In("load") /\ call.p = p /\ call.todo # <<>> /\ Die(p) /\ UNCHANGED kernelVars
Loaded == In("load") /\ call.todo = <<>> /\ Return
          /\ UNCHANGED <<memory, procVars, kernelVars, spoiled>>

\* The next page of a call that maps pages.  Without memory it returns: what it has
\* mapped stays, unless it was making a process.
MapNext ==
  /\ call.todo # <<>> /\ call.name \in {"load", "mmap", "brk", "read"} /\ ~spoiled
  /\ \E f \in Pick(free) : MapIn(call.p, Head(call.todo), f, free \ {f})
  /\ call' = [call EXCEPT !.todo = Tail(@)]
  /\ UNCHANGED <<procVars, kernelVars, spoiled>>
NoMemory ==
  /\ call.todo # <<>> /\ free = {} /\ ~spoiled
  /\ \/ In("load") /\ Die(call.p) /\ UNCHANGED kernelVars
     \/ /\ call.name \in {"mmap", "brk", "read"} /\ Return
        /\ UNCHANGED <<memory, procVars, kernelVars, spoiled>>

---------------------------------------------------------------------------
\* System calls.

Calls(p) == Quiet /\ Alive(p) /\ Few

Mmap(p) == /\ Calls(p)
           /\ \E n \in MmapPages : Begin(p, "mmap", Run(MmapBase, n), 0)
           /\ UNCHANGED <<memory, procVars, kernelVars, spoiled>>

\* malloc, and sys_brk for it: the pages from the break up to the new one.
Unlimited(to) == TRUE                       \* mutant: sys_brk takes any address
InUserSpace(to) == to <= MaxBrk
Malloc(p) ==
  /\ Calls(p)
  /\ \E n \in MallocSizes :
       LET from == Upto(heap_brk[p])
           to   == heap_brk[p] + n
       IN  InUserSpace(to) /\ Begin(p, "brk", Run(from, Upto(to) - from), to)
  /\ UNCHANGED <<memory, procVars, kernelVars, spoiled>>

\* sys_read from a file: the pages of the buffer that are not mapped.  Where no table
\* is the words at the start of the 4 MB page decide, which may say anything.
Read(p) ==
  /\ Calls(p) /\ OpenFiles(p) # {}
  /\ \E v \in {StackBase, HeapBase, MmapBase} :
       \/ ~Maps(p, v) /\ Begin(p, "read", <<v>>, 0)
       \/ (Maps(p, v) \/ TableOf(p, v) = Big) /\ Begin(p, "read", <<>>, 0)
  /\ UNCHANGED <<memory, procVars, kernelVars, spoiled>>

\* The call has mapped all its pages.
Done ==
  /\ call.name \in {"mmap", "brk", "read"} /\ call.todo = <<>> /\ ~spoiled
  /\ heap_brk' = IF In("brk") THEN [heap_brk EXCEPT ![call.p] = call.to] ELSE heap_brk
  /\ Return
  /\ UNCHANGED <<memory, proc, files, kernelVars, spoiled>>

KeepEntry(t, v) == mem                              \* mutant: the page stays mapped
ClearEntry(t, v) == [mem EXCEPT ![t][Entry(v)] = None]
Munmap(p) ==
  /\ Calls(p)
  /\ \E v \in MmapBase .. HeapBase - 1 : LET t == TableOf(p, v) IN
       /\ Maps(p, v)
       /\ free' = free \cup {mem[t][Entry(v)]}
       /\ mem' = [ClearEntry(t, v) EXCEPT ![mem[t][Entry(v)]] = Data]
  /\ UNCHANGED <<pde, procVars, kernelVars, call, spoiled>>

\* sys_open, whose read of the file may fail, and sys_close.
Open(p) ==
  /\ Calls(p)
  /\ \E fd \in Fds, f \in Pick(free) :
       /\ files[p][fd] = None /\ \A e \in Fds : files[p][e] = None => fd <= e
       /\ mem' = [mem EXCEPT ![f] = Data]
       /\ \/ free' = free \ {f} /\ files' = [files EXCEPT ![p][fd] = f]
          \/ UNCHANGED <<free, files>>
  /\ UNCHANGED <<pde, proc, heap_brk, kernelVars, call, spoiled>>
Close(p) ==
  /\ Calls(p)
  /\ \E fd \in Fds : /\ files[p][fd] # None
                     /\ free' = free \cup {files[p][fd]} /\ mem' = Freed({files[p][fd]})
                     /\ files' = [files EXCEPT ![p][fd] = None]
  /\ UNCHANGED <<pde, proc, heap_brk, kernelVars, call, spoiled>>

\* proc_free: the files are forgotten.
Exit(p) == Quiet /\ Alive(p) /\ Die(p) /\ UNCHANGED kernelVars

---------------------------------------------------------------------------
\* vmm_alloc_pages and vmm_free_pages, as cmd_vmmtest calls them.

AllocPages ==
  /\ Quiet
  /\ \E n \in KernelRuns : /\ next_virt + n <= KernelHeap + MaxKernelPages
                          /\ Begin(Kernel, "alloc", Run(next_virt, n), n)
  /\ UNCHANGED <<memory, procVars, kernelVars, spoiled>>

\* The page is cleared at its virtual address: if it is not mapped the machine stops.
AllocNext ==
  /\ In("alloc") /\ call.todo # <<>>
  /\ \E f \in Pick(free) : Map(Head(call.todo), f, free \ {f})
  /\ spoiled' = (pde'[Kernel][Table(Head(call.todo))] = None)
  /\ call' = [call EXCEPT !.todo = Tail(@)]
  /\ UNCHANGED <<procVars, kernelVars>>
Allocated ==
  /\ In("alloc") /\ call.todo = <<>>
  /\ kernel_pages' = kernel_pages \cup {<<next_virt, call.to>>}
  /\ next_virt' = next_virt + call.to
  /\ Return /\ UNCHANGED <<memory, procVars, spoiled>>

\* The page behind a virtual address is that of its table, or by a 4 MB page the one
\* of the same number.
Give(vs) ==
  LET mapped == {v \in vs : Maps(Kernel, v)}
      gone   == {mem[TableOf(Kernel, v)][Entry(v)] : v \in mapped}
                  \cup {v \in vs \cap Frames : TableOf(Kernel, v) = Big}
  IN  /\ free' = free \cup gone
      /\ mem' = [f \in Frames |->
                   IF f \in gone THEN Freed(gone)[f]
                   ELSE IF mem[f] = Data THEN Data
                   ELSE [e \in 0 .. Entries - 1 |->
                           IF \E v \in mapped : TableOf(Kernel, v) = f /\ Entry(v) = e
                           THEN None ELSE mem[f][e]]]
AllocFails ==
  /\ In("alloc") /\ call.todo # <<>> /\ free = {}
  /\ Give(next_virt .. Head(call.todo) - 1)
  /\ Return /\ UNCHANGED <<pde, procVars, kernelVars, spoiled>>
FreePages ==
  /\ Quiet
  /\ \E r \in kernel_pages : /\ Give(r[1] .. r[1] + r[2] - 1)
                             /\ kernel_pages' = kernel_pages \ {r}
  /\ UNCHANGED <<pde, procVars, next_virt, call, spoiled>>

---------------------------------------------------------------------------
Next ==
  \/ \E p \in Procs :
       \/ Create(p) \/ Space(p) \/ LoadFails(p) \/ Exit(p)
       \/ Mmap(p) \/ Munmap(p) \/ Malloc(p) \/ Read(p) \/ Open(p) \/ Close(p)
  \/ Loaded \/ MapNext \/ NoMemory \/ Done
  \/ AllocPages \/ AllocNext \/ Allocated \/ AllocFails \/ FreePages
Spec == Init /\ [][Next]_vars

---------------------------------------------------------------------------
\* Properties.

TypeOK ==
  /\ free \subseteq Frames
  /\ mem \in [Frames -> {Data} \cup [0 .. Entries - 1 -> Frames \cup {None}]]
  /\ pde \in [Procs \cup {Kernel} -> [Tables -> Frames \cup {None, Big}]]
  /\ proc \in [Procs -> SUBSET Frames]
  /\ heap_brk \in [Procs -> HeapBase * Unit .. MaxBrk]
  /\ files \in [Procs -> [Fds -> Frames \cup {None}]]
  /\ next_virt \in KernelHeap .. KernelHeap + MaxKernelPages
  /\ spoiled \in BOOLEAN

\* A page has one owner: it is not mapped twice, in two spaces or as a table, and it is
\* not free, after any sequence of calls of any processes and their failures, until a
\* space is destroyed that takes pages of others with it (vmm.c:103-119, 222-239,
\* syscall.c:110-211).
OneOwner == ~spoiled => Cardinality(Held) = Cardinality(Owners) /\ Held \cap free = {}

\* A page gets lost in four ways only: another is mapped over it, there was no memory
\* for its table, it was a file that a process had open when it died, or it was given
\* to the kernel behind a 4 MB page (syscall.c:115-120, vmm.c:110, proc.c:94-98,
\* vmm.c:26, 94).
Next1 == Head(call.todo)
MayBeLost ==
  (UNION {OpenFiles(p) : p \in {q \in Procs : Alive(q) /\ ~Alive(q)'}})
  \cup (IF call.todo = <<>> \/ call.p = None THEN {}
        ELSE IF Maps(call.p, Next1) THEN {mem[TableOf(call.p, Next1)][Entry(Next1)]}
        ELSE IF TableOf(call.p, Next1) \notin Frames
                /\ (free' = {} \/ (call.name = "alloc" /\ TableOf(call.p, Next1) = Big))
             THEN free ELSE {})
LostOnlyBy == [][~spoiled' => Lost' \ Lost \subseteq MayBeLost]_vars

\* What destroying a space gives back is all that its process had but for its open
\* files, and nothing of others, as long as no page that begins a 4 MB page has ever
\* been handed out (vmm.c:222-239).
HeldBy(p) == {h[4] : h \in {o \in Owners : o[1] = p /\ o[2] # "file"}}
DestroyTakesOwn ==
  [][\A p \in Procs :
       /\ Alive(p) /\ ~Alive(p)'
       /\ \A b \in Frames : Begins(b) => b \in free /\ mem[b] = Blank
       => free' = free \cup HeldBy(p)]_vars

\* When malloc returns memory, the pages that brk had to add for it are mapped, unless
\* there was no table for them (syscall.c:162-171, libc.c:110-119).
MallocIsMapped ==
  [][\A p \in Procs : heap_brk[p] < heap_brk'[p] =>
       \A v \in HeapBase .. MaxBrk :
         heap_brk[p] <= v * Unit /\ v * Unit < heap_brk'[p] =>
           Maps(p, v)' \/ TableOf(p, v)' = Big]_vars
=============================================================================
