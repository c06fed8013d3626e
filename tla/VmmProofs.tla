------------------------------ MODULE VmmProofs -----------------------------
(***************************************************************************)
(* Vmm, for every memory, every layout of the address spaces the build     *)
(* admits, all processes and all calls: the types, a single owner of each  *)
(* page, what a space gives back, what malloc maps, and the ways in which  *)
(* a page is lost.                                                         *)
(*                                                                         *)
(* All of it needs that no memory lies where the kernel's heap has its     *)
(* addresses behind the identity map: there vmm_map_page maps nothing      *)
(* (vmm.c:26), and vmm_free_pages then gives back the page whose number is *)
(* the address, whoever has it (vmm.c:133, 193).                           *)
(***************************************************************************)
EXTENDS Vmm, FiniteSetTheorems, FunctionTheorems, SequenceTheorems, TLAPS

MemoryBelowHeap ==
  \A v \in KernelHeap .. KernelHeap + MaxKernelPages - 1 :
    Table(v) \in BigTables => v \notin Frames

---------------------------------------------------------------------------
\* The invariant.  Owners that have each a page of their own, none of them free.
Apart(O, F) == /\ \A g, h \in O : g[4] = h[4] => g = h
               /\ \A h \in O : h[4] \notin F

\* Where a table may be: of the directory of a process vmm_destroy_space looks at a part;
\* the kernel maps its memory to itself there, and nothing else.
TableAt(d, i) == (d \in Procs /\ i \in UserTables) \/ (d = Kernel /\ i \in Tables)
TableInv ==
  /\ \A i \in UserTables : pde[Kernel][i] = Big
  /\ \A p \in Procs, i \in UserTables : pde[p][i] # None
  /\ \A d \in Procs \cup {Kernel}, i \in Tables :
       TableAt(d, i) /\ pde[d][i] \in Frames => mem[pde[d][i]] # Data

\* What there is of a process before it is complete.
EmptyInv ==
  \A p \in Procs :
    /\ proc[p] = NoProc \/ (call.name = "space" /\ call.p = p) =>
         \A i \in UserTables : pde[p][i] = Big
    /\ proc[p] = NoProc \/ (call.name \in {"space", "load"} /\ call.p = p) =>
         files[p] = NoFiles
    /\ call.name = "space" /\ call.p = p => \E k \in Frames : proc[p] = {k}

\* How far a call is.
Mapping  == {"load", "mmap", "brk", "read"}
Left     == Len(call.todo)
NextBrk  == Upto(call.to) - Left
BrkInv   ==
  /\ call.to \in Nat /\ heap_brk[call.p] <= call.to /\ call.to <= MaxBrk
  /\ Upto(heap_brk[call.p]) <= NextBrk /\ call.todo = Run(NextBrk, Left)
  /\ \A v \in Upto(heap_brk[call.p]) .. NextBrk - 1 :
       Maps(call.p, v) \/ (TableOf(call.p, v) = Big /\ free = {})
AllocInv ==
  /\ call.p = Kernel /\ call.to \in Nat /\ Left <= call.to
  /\ next_virt + call.to <= KernelHeap + MaxKernelPages
  /\ call.todo = Run(next_virt + call.to - Left, Left)
CallInv ==
  /\ call \in [name : {"none", "space", "alloc"} \cup Mapping,
               p : Procs \cup {Kernel, None}, todo : Seq(Nat), to : Nat]
  /\ call.name \in Mapping \cup {"space"} =>
       call.p \in Procs /\ \A k \in 1 .. Left : Table(call.todo[k]) \in UserTables
  /\ call.name \in Mapping => proc[call.p] # NoProc
  /\ call.name = "brk" => BrkInv
  /\ call.name = "alloc" => AllocInv
  /\ call.name = "none" => call = Idle

\* What the kernel has for itself, and where its 4 MB pages are.
KernelInv ==
  /\ \A r \in kernel_pages : /\ r \in Nat \X Nat /\ KernelHeap <= r[1]
                             /\ r[1] + r[2] <= KernelHeap + MaxKernelPages
  /\ \A i \in Tables : pde[Kernel][i] = Big => i \in BigTables

SoundInv == Apart(Owners, free) /\ TableInv /\ EmptyInv /\ CallInv
IInv == TypeOK /\ KernelInv /\ (~spoiled => SoundInv)

---------------------------------------------------------------------------
\* Pages and addresses.
LEMMA PageSplit ==
  ASSUME NEW v \in Nat
  PROVE  /\ Table(v) \in Nat /\ Entry(v) \in 0 .. Entries - 1
         /\ v = Table(v) * Entries + Entry(v)
BY PageAssumption DEF Table, Entry

LEMMA PageUnique ==
  ASSUME NEW i \in Nat, NEW e \in 0 .. Entries - 1,
         NEW j \in Nat, NEW g \in 0 .. Entries - 1, i * Entries + e = j * Entries + g
  PROVE  i = j /\ e = g
<1>1. \A q \in Nat, m \in 0 .. Entries - 1 :
        (q * Entries + m) \div Entries = q /\ (q * Entries + m) % Entries = m
  BY PageAssumption
<1>2. i = (i * Entries + e) \div Entries /\ e = (i * Entries + e) % Entries
  BY <1>1
<1>3. j = (j * Entries + g) \div Entries /\ g = (j * Entries + g) % Entries
  BY <1>1
<1> QED BY <1>2, <1>3

LEMMA UptoType == ASSUME NEW a \in Nat PROVE Upto(a) \in Nat
<1>1. a + Unit - 1 \in Nat
  BY PageAssumption
<1> HIDE DEF Upto
<1> QED BY <1>1, PageAssumption DEF Upto

\* The page an address is rounded up to is the first that begins at it or behind it.
LEMMA UptoIs ==
  ASSUME NEW a \in Nat, NEW v \in Nat
  PROVE  a <= v * Unit <=> Upto(a) <= v
<1> DEFINE x == a + Unit - 1
           q == x \div Unit
           r == x % Unit
<1>1. x \in Nat /\ Unit \in Nat \ {0}
  BY PageAssumption
<1>2. q \in Nat /\ r \in 0 .. Unit - 1 /\ x = q * Unit + r
  <2> HIDE DEF x
  <2> QED BY <1>1
<1>3. q * Unit \in Nat /\ v * Unit \in Nat
  BY <1>1, <1>2
<1>4. ASSUME q <= v PROVE a <= v * Unit
  <2>1. q * Unit <= v * Unit
    BY <1>1, <1>2, <1>4
  <2> HIDE DEF q, r
  <2> QED BY <1>1, <1>2, <1>3, <2>1
<1>5. ASSUME ~(q <= v) PROVE ~(a <= v * Unit)
  <2>1. v + 1 <= q
    BY <1>2, <1>5
  <2>2. (v + 1) * Unit <= q * Unit
    BY <1>1, <1>2, <2>1
  <2>3. (v + 1) * Unit = v * Unit + Unit
    BY <1>1
  <2> HIDE DEF q, r
  <2> QED BY <1>1, <1>2, <1>3, <2>2, <2>3
<1>6. Upto(a) = q
  BY DEF Upto
<1> QED BY <1>4, <1>5, <1>6, Zenon

LEMMA UptoGrows ==
  ASSUME NEW a \in Nat, NEW b \in Nat, a <= b
  PROVE  Upto(a) <= Upto(b)
<1>1. Upto(a) \in Nat /\ Upto(b) \in Nat
  BY UptoType
<1>2. b <= Upto(b) * Unit
  BY <1>1, UptoIs
<1>3. Upto(b) * Unit \in Nat
  BY <1>1, PageAssumption
<1>4. a <= Upto(b) * Unit
  BY <1>2, <1>3
<1> QED BY <1>1, <1>4, UptoIs

\* Runs of pages.
LEMMA RunIs ==
  ASSUME NEW v \in Nat, NEW n \in Nat
  PROVE  /\ Run(v, n) \in Seq(Nat) /\ Len(Run(v, n)) = n
         /\ \A k \in 1 .. n : Run(v, n)[k] = v + k - 1
<1>1. \A k \in 1 .. n : v + k - 1 \in Nat
  OBVIOUS
<1> QED BY <1>1 DEF Run

LEMMA RunTail ==
  ASSUME NEW v \in Nat, NEW n \in Nat \ {0}
  PROVE  /\ Run(v, n) # <<>> /\ Head(Run(v, n)) = v
         /\ Tail(Run(v, n)) = Run(v + 1, n - 1)
<1>1. Run(v, n) \in Seq(Nat) /\ Len(Run(v, n)) = n /\ \A k \in 1 .. n : Run(v, n)[k] = v + k - 1
  BY RunIs
<1>2. Run(v + 1, n - 1) \in Seq(Nat) /\ Len(Run(v + 1, n - 1)) = n - 1
      /\ \A k \in 1 .. n - 1 : Run(v + 1, n - 1)[k] = v + 1 + k - 1
  <2>1. v + 1 \in Nat /\ n - 1 \in Nat
    OBVIOUS
  <2> QED BY <2>1, RunIs
<1>3. Run(v, n) # <<>> /\ Head(Run(v, n)) = v
  BY <1>1
<1>4. Tail(Run(v, n)) \in Seq(Nat) /\ Len(Tail(Run(v, n))) = n - 1
      /\ \A k \in 1 .. n - 1 : Tail(Run(v, n))[k] = Run(v, n)[k + 1]
  BY <1>1, <1>3
<1>5. \A k \in 1 .. n - 1 : Tail(Run(v, n))[k] = Run(v + 1, n - 1)[k]
  BY <1>1, <1>2, <1>4
<1>6. Tail(Run(v, n)) = Run(v + 1, n - 1)
  <2> DEFINE s == Tail(Run(v, n))
             t == Run(v + 1, n - 1)
  <2>1. s \in Seq(Nat) /\ t \in Seq(Nat) /\ Len(s) = Len(t)
        /\ \A k \in 1 .. Len(s) : s[k] = t[k]
    BY <1>2, <1>4, <1>5
  <2> HIDE DEF s, t
  <2>2. s = t
    BY <2>1, SMTT(60)
  <2> QED BY <2>2 DEF s, t
<1> QED BY <1>3, <1>6

\* The rest of the pages of a call.
LEMMA RestOf ==
  ASSUME NEW s \in Seq(Nat), s # <<>>
  PROVE  /\ Head(s) \in Nat /\ Tail(s) \in Seq(Nat) /\ Len(s) \in Nat \ {0}
         /\ Len(Tail(s)) = Len(s) - 1 /\ Head(s) = s[1]
         /\ \A k \in 1 .. Len(s) - 1 : Tail(s)[k] = s[k + 1]
OBVIOUS

\* Which pages belong to user space.
LEMMA UserSpace ==
  /\ \A k \in 1 .. StackPages : Table(StackBase + k - 1) \in UserTables
  /\ \A image \in Images : \A k \in 1 .. Len(image) : Table(image[k]) \in UserTables
  /\ \A n \in MmapPages : \A k \in 1 .. n : Table(MmapBase + k - 1) \in UserTables
  /\ \A v \in MmapBase .. HeapBase - 1 : Table(v) \in UserTables
  /\ \A v \in {StackBase, HeapBase, MmapBase} : Table(v) \in UserTables
  /\ \A v \in HeapBase .. Upto(MaxBrk) - 1 : Table(v) \in UserTables
<1> DEFINE InUser(v) == v \in UserPages
<1>1. \A v : InUser(v) => Table(v) \in UserTables
  BY LayoutAssumption, Zenon DEF Table
<1>2. \A k \in 1 .. StackPages : InUser(StackBase + k - 1)
  <2>1. StackBase \in Nat /\ StackPages \in Nat
    BY LayoutAssumption, PageAssumption
  <2>2. \A k \in 1 .. StackPages : StackBase + k - 1 \in StackBase .. StackBase + StackPages - 1
    BY <2>1
  <2> QED BY <2>2 DEF UserPages
<1>3. \A image \in Images : \A k \in 1 .. Len(image) : InUser(image[k])
  <2> SUFFICES ASSUME NEW image \in Images, NEW k \in 1 .. Len(image) PROVE InUser(image[k])
    OBVIOUS
  <2>1. image \in Seq(Nat)
    BY LayoutAssumption
  <2>2. image[k] \in {image[j] : j \in DOMAIN image}
    BY <2>1
  <2> QED BY <2>2 DEF UserPages
<1>4. \A n \in MmapPages : \A k \in 1 .. n : InUser(MmapBase + k - 1)
  <2> SUFFICES ASSUME NEW n \in MmapPages, NEW k \in 1 .. n PROVE InUser(MmapBase + k - 1)
    OBVIOUS
  <2>1. MmapBase \in Nat /\ n \in Nat
    BY LayoutAssumption, PageAssumption
  <2>2. MmapBase + k - 1 \in MmapBase .. MmapBase + n - 1
    BY <2>1
  <2> QED BY <2>2 DEF UserPages
<1>5. \A v \in MmapBase .. HeapBase - 1 : InUser(v)
  BY DEF UserPages
<1>6. \A v \in {StackBase, HeapBase, MmapBase} : InUser(v)
  BY DEF UserPages
<1>7. \A v \in HeapBase .. Upto(MaxBrk) - 1 : InUser(v)
  BY DEF UserPages, Upto
<1> HIDE DEF InUser
<1> QED BY <1>1, <1>2, <1>3, <1>4, <1>5, <1>6, <1>7
---------------------------------------------------------------------------
\* Owners, by what they have.
IsBlock(h, pr) == \E p \in Procs : \E f \in pr[p] : h = <<p, "block", 0, f>>
IsFile(h, fs)  == \E p \in Procs, fd \in Fds : h = <<p, "file", fd, fs[p][fd]>>
IsTable(h, pd) == \E d \in Procs \cup {Kernel}, i \in Tables :
                    TableAt(d, i) /\ h = <<d, "table", i, pd[d][i]>>
IsPage(h, pd, m) ==
  \E d \in Procs \cup {Kernel}, i \in Tables, e \in 0 .. Entries - 1 :
    /\ TableAt(d, i) /\ pd[d][i] \in Frames
    /\ h = <<d, "page", i * Entries + e, m[pd[d][i]][e]>>
Has(h, pr, fs, pd, m) ==
  h[4] \in Frames /\ (IsBlock(h, pr) \/ IsFile(h, fs) \/ IsTable(h, pd) \/ IsPage(h, pd, m))

LEMMA OwnersAre ==
  /\ \A h : h \in Owners <=> Has(h, proc, files, pde, mem)
  /\ \A h : h \in Owners' <=> Has(h, proc', files', pde', mem')
<1>1. \A d, i : TableAt(d, i) <=> (d \in Procs /\ i \in UserTables) \/ (d = Kernel /\ i \in Tables)
  BY DEF TableAt
<1>2. UserTables \subseteq Tables
  BY TableAssumption
<1>3. ASSUME NEW h
      PROVE  h \in Owners <=> Has(h, proc, files, pde, mem)
  <2> DEFINE B(p) == {<<p, "block", 0, f>> : f \in proc[p]}
             F(p) == {<<p, "file", fd, files[p][fd]>> : fd \in Fds}
             T(d, i) == <<d, "table", i, pde[d][i]>>
             M(d, i) == MappedIn(d, i)
             blocks == UNION {B(p) \cup F(p) : p \in Procs}
             tables == {T(d, i) : d \in Procs, i \in UserTables}
             ktables == {T(Kernel, i) : i \in Tables}
             pages == UNION {M(d, i) : d \in Procs, i \in UserTables}
             kpages == UNION {M(Kernel, i) : i \in Tables}
  <2>1. h \in Owners <=> h[4] \in Frames /\ (h \in blocks \/ h \in tables \/ h \in ktables
                                            \/ h \in pages \/ h \in kpages)
    <3>1. Holdings = (blocks \cup tables) \cup ktables
      BY DEF Holdings
    <3>2. h \in Owners <=> h \in (Holdings \cup pages) \cup kpages /\ h[4] \in Frames
      <4> HIDE DEF B, F, T
      <4> QED BY DEF Owners
    <3> HIDE DEF blocks, tables, ktables, pages, kpages
    <3> QED BY <3>1, <3>2
  <2>2. h \in blocks <=> IsBlock(h, proc) \/ IsFile(h, files)
    <3>1. \A p : h \in B(p) <=> \E f \in proc[p] : h = <<p, "block", 0, f>>
      OBVIOUS
    <3>2. \A p : h \in F(p) <=> \E fd \in Fds : h = <<p, "file", fd, files[p][fd]>>
      OBVIOUS
    <3>3. h \in blocks <=> \E p \in Procs : h \in B(p) \/ h \in F(p)
      <4> HIDE DEF B, F
      <4> QED OBVIOUS
    <3> HIDE DEF B, F, blocks
    <3> QED BY <3>1, <3>2, <3>3, Zenon DEF IsBlock, IsFile
  <2>3. h \in tables \/ h \in ktables <=> IsTable(h, pde)
    <3>1. h \in tables <=> \E d \in Procs, i \in UserTables : h = T(d, i)
      <4> HIDE DEF T
      <4> QED OBVIOUS
    <3>2. h \in ktables <=> \E i \in Tables : h = T(Kernel, i)
      <4> HIDE DEF T
      <4> QED OBVIOUS
    <3>3. IsTable(h, pde) <=>
            \E d \in Procs \cup {Kernel}, i \in Tables : TableAt(d, i) /\ h = T(d, i)
      BY Zenon DEF IsTable
    <3> HIDE DEF T, tables, ktables
    <3> QED BY <1>1, <1>2, <3>1, <3>2, <3>3
  <2>4. h \in pages \/ h \in kpages <=> IsPage(h, pde, mem)
    <3>1. h \in pages <=> \E d \in Procs, i \in UserTables : h \in M(d, i)
      <4> HIDE DEF M
      <4> QED OBVIOUS
    <3>2. h \in kpages <=> \E i \in Tables : h \in M(Kernel, i)
      <4> HIDE DEF M
      <4> QED OBVIOUS
    <3>3. \A d, i : h \in M(d, i) <=>
            pde[d][i] \in Frames /\
            \E e \in 0 .. Entries - 1 : h = <<d, "page", i * Entries + e, mem[pde[d][i]][e]>>
      BY DEF MappedIn
    <3>4. IsPage(h, pde, mem) <=>
            \E d \in Procs \cup {Kernel}, i \in Tables : TableAt(d, i) /\ h \in M(d, i)
      <4> HIDE DEF M
      <4> QED BY <3>3, ZenonT(60) DEF IsPage
    <3> HIDE DEF M, pages, kpages
    <3> QED BY <1>1, <1>2, <3>1, <3>2, <3>4
  <2> HIDE DEF blocks, tables, ktables, pages, kpages
  <2> QED BY <2>1, <2>2, <2>3, <2>4, Zenon DEF Has
<1>4. ASSUME NEW h
      PROVE  h \in Owners' <=> Has(h, proc', files', pde', mem')
  <2> DEFINE B(p) == {<<p, "block", 0, f>> : f \in proc'[p]}
             F(p) == {<<p, "file", fd, files'[p][fd]>> : fd \in Fds}
             T(d, i) == <<d, "table", i, pde'[d][i]>>
             M(d, i) == MappedIn(d, i)'
             blocks == UNION {B(p) \cup F(p) : p \in Procs}
             tables == {T(d, i) : d \in Procs, i \in UserTables}
             ktables == {T(Kernel, i) : i \in Tables}
             pages == UNION {M(d, i) : d \in Procs, i \in UserTables}
             kpages == UNION {M(Kernel, i) : i \in Tables}
  <2>1. h \in Owners' <=> h[4] \in Frames /\ (h \in blocks \/ h \in tables \/ h \in ktables
                                            \/ h \in pages \/ h \in kpages)
    <3>1. Holdings' = (blocks \cup tables) \cup ktables
      BY DEF Holdings
    <3>2. h \in Owners' <=> h \in (Holdings' \cup pages) \cup kpages /\ h[4] \in Frames
      <4> HIDE DEF B, F, T
      <4> QED BY DEF Owners
    <3> HIDE DEF blocks, tables, ktables, pages, kpages
    <3> QED BY <3>1, <3>2
  <2>2. h \in blocks <=> IsBlock(h, proc') \/ IsFile(h, files')
    <3>1. \A p : h \in B(p) <=> \E f \in proc'[p] : h = <<p, "block", 0, f>>
      OBVIOUS
    <3>2. \A p : h \in F(p) <=> \E fd \in Fds : h = <<p, "file", fd, files'[p][fd]>>
      OBVIOUS
    <3>3. h \in blocks <=> \E p \in Procs : h \in B(p) \/ h \in F(p)
      <4> HIDE DEF B, F
      <4> QED OBVIOUS
    <3> HIDE DEF B, F, blocks
    <3> QED BY <3>1, <3>2, <3>3, Zenon DEF IsBlock, IsFile
  <2>3. h \in tables \/ h \in ktables <=> IsTable(h, pde')
    <3>1. h \in tables <=> \E d \in Procs, i \in UserTables : h = T(d, i)
      <4> HIDE DEF T
      <4> QED OBVIOUS
    <3>2. h \in ktables <=> \E i \in Tables : h = T(Kernel, i)
      <4> HIDE DEF T
      <4> QED OBVIOUS
    <3>3. IsTable(h, pde') <=>
            \E d \in Procs \cup {Kernel}, i \in Tables : TableAt(d, i) /\ h = T(d, i)
      BY Zenon DEF IsTable
    <3> HIDE DEF T, tables, ktables
    <3> QED BY <1>1, <1>2, <3>1, <3>2, <3>3
  <2>4. h \in pages \/ h \in kpages <=> IsPage(h, pde', mem')
    <3>1. h \in pages <=> \E d \in Procs, i \in UserTables : h \in M(d, i)
      <4> HIDE DEF M
      <4> QED OBVIOUS
    <3>2. h \in kpages <=> \E i \in Tables : h \in M(Kernel, i)
      <4> HIDE DEF M
      <4> QED OBVIOUS
    <3>3. \A d, i : h \in M(d, i) <=>
            pde'[d][i] \in Frames /\
            \E e \in 0 .. Entries - 1 : h = <<d, "page", i * Entries + e, mem'[pde'[d][i]][e]>>
      BY DEF MappedIn
    <3>4. IsPage(h, pde', mem') <=>
            \E d \in Procs \cup {Kernel}, i \in Tables : TableAt(d, i) /\ h \in M(d, i)
      <4> HIDE DEF M
      <4> QED BY <3>3, ZenonT(60) DEF IsPage
    <3> HIDE DEF M, pages, kpages
    <3> QED BY <1>1, <1>2, <3>1, <3>2, <3>4
  <2> HIDE DEF blocks, tables, ktables, pages, kpages
  <2> QED BY <2>1, <2>2, <2>3, <2>4, Zenon DEF Has
<1> QED BY <1>3, <1>4

Joined(P, O, New) == P \subseteq O \cup New
Taken(New, F, G) == /\ \A h \in New : h[4] \in F /\ h[4] \notin G
                    /\ \A g, h \in New : g[4] = h[4] => g = h
LEMMA OwnersApart ==
  ASSUME NEW O, NEW F, Apart(O, F), NEW P, NEW G, NEW New, Joined(P, O, New), Taken(New, F, G),
         \A h \in P : h \in O /\ h[4] \notin F => h[4] \notin G
  PROVE  Apart(P, G)
<1> USE DEF Joined, Taken
<1>1. ASSUME NEW g \in P, NEW h \in P, g[4] = h[4] PROVE g = h
  <2>1. CASE g \in O /\ h \in O
    BY <1>1, <2>1, Zenon DEF Apart
  <2>2. CASE g \in New /\ h \in New
    BY <1>1, <2>2
  <2>3. CASE g \in New /\ h \in O
    BY <1>1, <2>3, Zenon DEF Apart
  <2>4. CASE g \in O /\ h \in New
    BY <1>1, <2>4, Zenon DEF Apart
  <2> QED BY <2>1, <2>2, <2>3, <2>4
<1>2. ASSUME NEW h \in P PROVE h[4] \notin G
  <2>1. CASE h \in O
    BY <2>1, Zenon DEF Apart
  <2> QED BY <2>1
<1> QED BY <1>1, <1>2, Zenon DEF Apart

---------------------------------------------------------------------------
\* Memory and directories, and what the operations write in them.
Dirs   == Procs \cup {Kernel}
Words  == 0 .. Entries - 1
MemSet == [Frames -> {Data} \cup [Words -> Frames \cup {None}]]
PdeSet == [Dirs -> [Tables -> Frames \cup {None, Big}]]

LEMMA Names ==
  /\ None \notin Frames /\ Big \notin Frames /\ None # Big
  /\ Data \notin [Words -> Frames \cup {None}]
  /\ Blank \in [Words -> Frames \cup {None}] /\ \A e \in Words : Blank[e] = None
  /\ Kernel \notin Procs /\ Kernel # None
  /\ Frames \subseteq Nat /\ Tables \subseteq Nat /\ UserTables \subseteq Tables
BY NoneAssumption, PageAssumption, TableAssumption DEF Words, Blank

LEMMA WriteData ==
  ASSUME NEW m \in MemSet, NEW f \in Frames
  PROVE  /\ [m EXCEPT ![f] = Data] \in MemSet
         /\ \A g \in Frames : [m EXCEPT ![f] = Data][g] = IF g = f THEN Data ELSE m[g]
BY DEF MemSet

LEMMA WriteWord ==
  ASSUME NEW m \in MemSet, NEW t \in Frames, m[t] # Data,
         NEW e \in Words, NEW w \in Frames \cup {None}
  PROVE  /\ [m EXCEPT ![t][e] = w] \in MemSet
         /\ \A g \in Frames : g # t => [m EXCEPT ![t][e] = w][g] = m[g]
         /\ [m EXCEPT ![t][e] = w][t] # Data
         /\ \A x \in Words : [m EXCEPT ![t][e] = w][t][x] = IF x = e THEN w ELSE m[t][x]
<1> DEFINE old == m[t]
           new == [old EXCEPT ![e] = w]
           n == [m EXCEPT ![t] = new]
<1>1. old \in [Words -> Frames \cup {None}]
  BY DEF MemSet
<1>2. new \in [Words -> Frames \cup {None}] /\ \A x \in Words : new[x] = IF x = e THEN w ELSE old[x]
  <2> HIDE DEF old
  <2> QED BY <1>1
<1>3. n \in MemSet /\ n[t] = new /\ \A g \in Frames : g # t => n[g] = m[g]
  <2> HIDE DEF new
  <2> QED BY <1>2 DEF MemSet
<1>4. [m EXCEPT ![t][e] = w] = n
  OBVIOUS
<1>5. new # Data
  BY <1>2, Names
<1> HIDE DEF n, new
<1> QED BY <1>2, <1>3, <1>4, <1>5

LEMMA FreedIs ==
  ASSUME mem \in MemSet, NEW S
  PROVE  /\ Freed(S) \in MemSet
         /\ \A f \in Frames : Freed(S)[f] = IF f \in S \ free THEN Data ELSE mem[f]
BY DEF Freed, MemSet

---------------------------------------------------------------------------
\* What it means that owners are apart: of tables, of the pages mapped in them, and of
\* the blocks and files of processes.
LEMMA TypesAre ==
  TypeOK => /\ free \subseteq Frames /\ mem \in MemSet /\ pde \in PdeSet
            /\ proc \in [Procs -> SUBSET Frames]
            /\ files \in [Procs -> [Fds -> Frames \cup {None}]]
BY DEF TypeOK, MemSet, PdeSet, Words, Dirs

LEMMA TableAtType == \A d, i : TableAt(d, i) => d \in Dirs /\ i \in Tables /\ i \in Nat
BY Names DEF TableAt, Dirs

InUse(d, i) == TableAt(d, i) /\ pde[d][i] \in Frames
TableOwner(d, i)   == <<d, "table", i, pde[d][i]>>
PageOwner(d, i, e) == <<d, "page", i * Entries + e, mem[pde[d][i]][e]>>
FileOwner(p, fd)   == <<p, "file", fd, files[p][fd]>>
BlockOwner(p, f)   == <<p, "block", 0, f>>

LEMMA AreOwners ==
  ASSUME TypeOK
  PROVE  /\ \A d, i : InUse(d, i) => TableOwner(d, i) \in Owners
         /\ \A d, i : \A e \in Words : InUse(d, i) /\ mem[pde[d][i]][e] \in Frames =>
              PageOwner(d, i, e) \in Owners
         /\ \A p \in Procs, fd \in Fds : files[p][fd] \in Frames => FileOwner(p, fd) \in Owners
         /\ \A p \in Procs : \A f \in proc[p] : BlockOwner(p, f) \in Owners
<1>1. ASSUME NEW d, NEW i, InUse(d, i) PROVE TableOwner(d, i) \in Owners
  <2>1. TableOwner(d, i)[4] \in Frames
    BY <1>1 DEF TableOwner, InUse
  <2>2. IsTable(TableOwner(d, i), pde)
    BY <1>1, TableAtType, Zenon DEF TableOwner, IsTable, InUse, Dirs
  <2> QED BY <2>1, <2>2, OwnersAre, Zenon DEF Has
<1>2. ASSUME NEW d, NEW i, NEW e \in Words, InUse(d, i), mem[pde[d][i]][e] \in Frames
      PROVE  PageOwner(d, i, e) \in Owners
  <2>1. PageOwner(d, i, e)[4] \in Frames
    BY <1>2 DEF PageOwner
  <2>2. IsPage(PageOwner(d, i, e), pde, mem)
    BY <1>2, TableAtType, Zenon DEF PageOwner, IsPage, InUse, Dirs, Words
  <2> QED BY <2>1, <2>2, OwnersAre, Zenon DEF Has
<1>3. ASSUME NEW p \in Procs, NEW fd \in Fds, files[p][fd] \in Frames
      PROVE  FileOwner(p, fd) \in Owners
  <2>1. FileOwner(p, fd)[4] \in Frames
    BY <1>3 DEF FileOwner
  <2>2. IsFile(FileOwner(p, fd), files)
    BY Zenon DEF FileOwner, IsFile
  <2> QED BY <2>1, <2>2, OwnersAre, Zenon DEF Has
<1>4. ASSUME NEW p \in Procs, NEW f \in proc[p] PROVE BlockOwner(p, f) \in Owners
  <2>1. f \in Frames
    BY TypesAre
  <2>2. BlockOwner(p, f)[4] \in Frames
    BY <2>1 DEF BlockOwner
  <2>3. IsBlock(BlockOwner(p, f), proc)
    BY Zenon DEF BlockOwner, IsBlock
  <2> QED BY <2>2, <2>3, OwnersAre, Zenon DEF Has
<1> QED BY <1>1, <1>2, <1>3, <1>4, Zenon

\* An owner is one of the four, and its page is in memory.
LEMMA OwnerIs ==
  ASSUME TypeOK, NEW h \in Owners
  PROVE  /\ h[4] \in Frames
         /\ \/ \E p \in Procs : \E f \in proc[p] : h = BlockOwner(p, f) /\ h[4] = f
            \/ \E p \in Procs, fd \in Fds : h = FileOwner(p, fd) /\ h[4] = files[p][fd]
            \/ \E d \in Dirs, i \in Tables : InUse(d, i) /\ h = TableOwner(d, i) /\ h[4] = pde[d][i]
            \/ \E d \in Dirs, i \in Tables, e \in Words :
                 InUse(d, i) /\ h = PageOwner(d, i, e) /\ h[4] = mem[pde[d][i]][e]
<1>1. Has(h, proc, files, pde, mem)
  BY OwnersAre
<1>2. CASE IsBlock(h, proc)
  <2>1. PICK p \in Procs : \E f \in proc[p] : h = <<p, "block", 0, f>>
    BY <1>2, Zenon DEF IsBlock
  <2>2. PICK f \in proc[p] : h = <<p, "block", 0, f>>
    BY <2>1
  <2>3. h = BlockOwner(p, f) /\ h[4] = f
    BY <2>2 DEF BlockOwner
  <2> QED BY <1>1, <2>3, Zenon DEF Has
<1>3. CASE IsFile(h, files)
  <2>1. PICK p \in Procs, fd \in Fds : h = <<p, "file", fd, files[p][fd]>>
    BY <1>3, Zenon DEF IsFile
  <2>2. h = FileOwner(p, fd) /\ h[4] = files[p][fd]
    BY <2>1 DEF FileOwner
  <2> QED BY <1>1, <2>2, Zenon DEF Has
<1>4. CASE IsTable(h, pde)
  <2>1. PICK d \in Dirs, i \in Tables : TableAt(d, i) /\ h = <<d, "table", i, pde[d][i]>>
    BY <1>4, Zenon DEF IsTable, Dirs
  <2>2. h = TableOwner(d, i) /\ h[4] = pde[d][i]
    BY <2>1 DEF TableOwner
  <2>3. InUse(d, i)
    BY <1>1, <2>1, <2>2, Zenon DEF InUse, Has
  <2> QED BY <1>1, <2>2, <2>3, Zenon DEF Has
<1>5. CASE IsPage(h, pde, mem)
  <2>1. PICK d \in Dirs, i \in Tables, e \in Words :
          /\ TableAt(d, i) /\ pde[d][i] \in Frames
          /\ h = <<d, "page", i * Entries + e, mem[pde[d][i]][e]>>
    BY <1>5, Zenon DEF IsPage, Dirs, Words
  <2>2. h = PageOwner(d, i, e) /\ h[4] = mem[pde[d][i]][e]
    BY <2>1 DEF PageOwner
  <2>3. InUse(d, i)
    BY <2>1, Zenon DEF InUse
  <2> QED BY <1>1, <2>2, <2>3, Zenon DEF Has
<1> QED BY <1>1, <1>2, <1>3, <1>4, <1>5, Zenon DEF Has

LEMMA OwnersDiffer ==
  ASSUME NEW d, NEW i, NEW e, NEW c, NEW j, NEW g, NEW p, NEW fd, NEW f
  PROVE  /\ TableOwner(d, i) = TableOwner(c, j) => d = c /\ i = j
         /\ TableOwner(d, i) # PageOwner(c, j, g) /\ TableOwner(d, i) # FileOwner(p, fd)
         /\ TableOwner(d, i) # BlockOwner(p, f)
         /\ PageOwner(d, i, e) # FileOwner(p, fd) /\ PageOwner(d, i, e) # BlockOwner(p, f)
         /\ FileOwner(p, fd) # BlockOwner(c, f)
         /\ PageOwner(d, i, e) = PageOwner(c, j, g) =>
              d = c /\ i * Entries + e = j * Entries + g
         /\ BlockOwner(p, f) = BlockOwner(c, g) => p = c
         /\ FileOwner(p, fd) = FileOwner(c, g) => p = c /\ fd = g
BY DEF TableOwner, PageOwner, FileOwner, BlockOwner

LEMMA TwoApart ==
  ASSUME NEW O, NEW F, Apart(O, F), NEW g \in O, NEW h \in O, g # h
  PROVE  g[4] # h[4] /\ g[4] \notin F /\ h[4] \notin F
BY Zenon DEF Apart

LEMMA TablesApart ==
  ASSUME TypeOK, Apart(Owners, free)
  PROVE  /\ \A d, c, i, j : InUse(d, i) /\ InUse(c, j) /\ pde[d][i] = pde[c][j] => d = c /\ i = j
         /\ \A d, i : InUse(d, i) => pde[d][i] \notin free
         /\ \A d, c, i, j : \A e \in Words :
              InUse(d, i) /\ InUse(c, j) /\ mem[pde[d][i]][e] \in Frames
                => mem[pde[d][i]][e] # pde[c][j] /\ mem[pde[d][i]][e] \notin free
         /\ \A d, i : \A p \in Procs : InUse(d, i) => pde[d][i] \notin proc[p]
         /\ \A d, i : \A p \in Procs, fd \in Fds : InUse(d, i) => pde[d][i] # files[p][fd]
<1>1. ASSUME NEW d, NEW c, NEW i, NEW j, InUse(d, i), InUse(c, j), pde[d][i] = pde[c][j]
      PROVE  d = c /\ i = j
  <2>1. TableOwner(d, i) \in Owners /\ TableOwner(c, j) \in Owners
    BY <1>1, AreOwners
  <2>2. TableOwner(d, i)[4] = TableOwner(c, j)[4]
    BY <1>1 DEF TableOwner
  <2>3. TableOwner(d, i) = TableOwner(c, j)
    BY <2>1, <2>2, Zenon DEF Apart
  <2> QED BY <2>3, OwnersDiffer
<1>2. ASSUME NEW d, NEW i, InUse(d, i)
      PROVE  TableOwner(d, i) \in Owners /\ TableOwner(d, i)[4] = pde[d][i] /\ pde[d][i] \notin free
  <2>1. TableOwner(d, i) \in Owners
    BY <1>2, AreOwners
  <2>2. TableOwner(d, i)[4] = pde[d][i]
    BY DEF TableOwner
  <2> QED BY <2>1, <2>2, Zenon DEF Apart
<1>3. ASSUME NEW d, NEW c, NEW i, NEW j, NEW e \in Words, InUse(d, i), InUse(c, j),
             mem[pde[d][i]][e] \in Frames
      PROVE  mem[pde[d][i]][e] # pde[c][j] /\ mem[pde[d][i]][e] \notin free
  <2>1. PageOwner(d, i, e) \in Owners
    BY <1>3, AreOwners
  <2>2. PageOwner(d, i, e)[4] = mem[pde[d][i]][e]
    BY DEF PageOwner
  <2>3. PageOwner(d, i, e) # TableOwner(c, j)
    BY OwnersDiffer
  <2>4. PageOwner(d, i, e)[4] # TableOwner(c, j)[4] /\ PageOwner(d, i, e)[4] \notin free
    BY <1>2, <1>3, <2>1, <2>3, TwoApart
  <2> QED BY <1>2, <1>3, <2>2, <2>4
<1>4. ASSUME NEW d, NEW i, NEW p \in Procs, InUse(d, i), pde[d][i] \in proc[p] PROVE FALSE
  <2>1. BlockOwner(p, pde[d][i]) \in Owners
    BY <1>4, AreOwners
  <2>2. BlockOwner(p, pde[d][i])[4] = pde[d][i]
    BY DEF BlockOwner
  <2>3. BlockOwner(p, pde[d][i]) # TableOwner(d, i)
    BY OwnersDiffer
  <2>4. BlockOwner(p, pde[d][i])[4] # TableOwner(d, i)[4]
    BY <1>2, <1>4, <2>1, <2>3, TwoApart
  <2> QED BY <1>2, <1>4, <2>2, <2>4
<1>5. ASSUME NEW d, NEW i, NEW p \in Procs, NEW fd \in Fds, InUse(d, i), pde[d][i] = files[p][fd]
      PROVE  FALSE
  <2>1. FileOwner(p, fd) \in Owners
    BY <1>5, AreOwners DEF InUse
  <2>2. FileOwner(p, fd)[4] = files[p][fd]
    BY DEF FileOwner
  <2>3. FileOwner(p, fd) # TableOwner(d, i)
    BY OwnersDiffer
  <2>4. FileOwner(p, fd)[4] # TableOwner(d, i)[4]
    BY <1>2, <1>5, <2>1, <2>3, TwoApart
  <2> QED BY <1>2, <1>5, <2>2, <2>4
<1> QED BY <1>1, <1>2, <1>3, <1>4, <1>5

---------------------------------------------------------------------------
\* What a step does to the pages: it keeps the types, owners stay apart, tables stay
\* tables, and of the pages only those of X get lost.
Good(X) ==
  /\ free' \subseteq Frames /\ mem' \in MemSet /\ pde' \in PdeSet
  /\ proc' \in [Procs -> SUBSET Frames]
  /\ files' \in [Procs -> [Fds -> Frames \cup {None}]]
  /\ Apart(Owners', free') /\ TableInv'
  /\ Lost' \ Lost \subseteq X
Sound == TypeOK /\ Apart(Owners, free) /\ TableInv

LEMMA LostIs ==
  ASSUME NEW X,
         \A f \in free : f \in free' \/ f \in X \/ \E g \in Owners' : g[4] = f,
         \A h \in Owners : h[4] \in free' \/ h[4] \in X \/ \E g \in Owners' : g[4] = h[4]
  PROVE  Lost' \ Lost \subseteq X
<1> SUFFICES ASSUME NEW f \in Lost', f \notin Lost PROVE f \in X
  OBVIOUS
<1>1. \A x : x \in Held <=> \E h \in Owners : h[4] = x
  BY DEF Held
<1>2. \A x : x \in Held' <=> \E h \in Owners' : h[4] = x
  BY DEF Held
<1>3. f \in Frames /\ f \notin free' /\ f \notin Held'
  BY Zenon DEF Lost
<1>4. f \in free \/ f \in Held
  BY <1>3, Zenon DEF Lost
<1> HIDE DEF Held, Owners, Lost
<1> QED BY <1>1, <1>2, <1>3, <1>4

LEMMA NothingMoves ==
  ASSUME Sound, UNCHANGED <<memory, proc, files>>
  PROVE  Good({})
<1>1. Owners' = Owners /\ free' = free
  BY DEF Owners, Holdings, MappedIn, memory
<1>2. TableInv'
  BY DEF Sound, TableInv, memory
<1>3. Lost' \ Lost \subseteq {}
  <2> HIDE DEF Owners
  <2> QED BY <1>1, LostIs
<1>4. UNCHANGED <<mem, pde, proc, files>>
  BY DEF memory
<1> QED BY <1>1, <1>2, <1>3, <1>4, TypesAre, Zenon DEF Sound, Good

\* The tables are what they were.
KeepsTables ==
  \A d \in Dirs, i \in Tables : TableAt(d, i) =>
    pde'[d][i] = pde[d][i] /\ (pde[d][i] \in Frames => mem'[pde[d][i]] = mem[pde[d][i]])

LEMMA TablesKept ==
  ASSUME Sound, KeepsTables
  PROVE  /\ TableInv'
         /\ \A h : h \in Owners' <=> Has(h, proc', files', pde, mem)
<1>1. TableInv'
  <2>1. \A d, i : TableAt(d, i) => pde'[d][i] = pde[d][i]
                   /\ (pde[d][i] \in Frames => mem'[pde[d][i]] = mem[pde[d][i]])
    BY TableAtType, Zenon DEF KeepsTables
  <2>2. \A i \in UserTables : TableAt(Kernel, i) /\ \A p \in Procs : TableAt(p, i)
    BY Names DEF TableAt
  <2>3. \A i \in UserTables : pde'[Kernel][i] = Big
    BY <2>1, <2>2, ZenonT(60) DEF Sound, TableInv
  <2>4. \A p \in Procs, i \in UserTables : pde'[p][i] # None
    BY <2>1, <2>2 DEF Sound, TableInv
  <2>5. \A d \in Procs \cup {Kernel}, i \in Tables :
          TableAt(d, i) /\ pde'[d][i] \in Frames => mem'[pde'[d][i]] # Data
    BY <2>1, <2>2 DEF Sound, TableInv
  <2> QED BY <2>3, <2>4, <2>5, Zenon DEF TableInv
<1>2. ASSUME NEW h PROVE IsTable(h, pde') <=> IsTable(h, pde)
  BY ZenonT(60) DEF IsTable, KeepsTables, Dirs
<1>3. ASSUME NEW h PROVE IsPage(h, pde', mem') <=> IsPage(h, pde, mem)
  <2>1. ASSUME NEW d \in Dirs, NEW i \in Tables, TableAt(d, i)
        PROVE  /\ pde'[d][i] = pde[d][i]
               /\ pde[d][i] \in Frames => mem'[pde'[d][i]] = mem[pde[d][i]]
    <3>1. pde'[d][i] = pde[d][i] /\ (pde[d][i] \in Frames => mem'[pde[d][i]] = mem[pde[d][i]])
      BY <2>1, Zenon DEF KeepsTables
    <3> QED BY <3>1
  <2>2. ASSUME NEW d \in Dirs, NEW i \in Tables, NEW e \in Words, TableAt(d, i)
        PROVE  /\ pde'[d][i] \in Frames <=> pde[d][i] \in Frames
               /\ pde[d][i] \in Frames => mem'[pde'[d][i]][e] = mem[pde[d][i]][e]
    BY <2>1, <2>2
  <2>3. IsPage(h, pde', mem') <=>
          \E d \in Dirs, i \in Tables, e \in Words :
            /\ TableAt(d, i) /\ pde'[d][i] \in Frames
            /\ h = <<d, "page", i * Entries + e, mem'[pde'[d][i]][e]>>
    BY Zenon DEF IsPage, Dirs, Words
  <2>4. IsPage(h, pde, mem) <=>
          \E d \in Dirs, i \in Tables, e \in Words :
            /\ TableAt(d, i) /\ pde[d][i] \in Frames
            /\ h = <<d, "page", i * Entries + e, mem[pde[d][i]][e]>>
    BY Zenon DEF IsPage, Dirs, Words
  <2> QED BY <2>2, <2>3, <2>4
<1>4. ASSUME NEW h PROVE h \in Owners' <=> Has(h, proc', files', pde, mem)
  BY <1>2, <1>3, OwnersAre, Zenon DEF Has
<1> QED BY <1>1, <1>4, Zenon

\* Writing in pages that are not tables keeps them.
LEMMA WritesBeside ==
  ASSUME Sound, \A d \in Dirs, i \in Tables : TableAt(d, i) => pde'[d][i] = pde[d][i],
         \A g \in Frames : mem'[g] = mem[g] \/ \A d, i : InUse(d, i) => pde[d][i] # g
  PROVE  KeepsTables
<1> SUFFICES ASSUME NEW d \in Dirs, NEW i \in Tables, TableAt(d, i), pde[d][i] \in Frames
             PROVE  mem'[pde[d][i]] = mem[pde[d][i]]
  BY Zenon DEF KeepsTables
<1> QED BY DEF InUse

\* Pages taken from the allocator for a process.
Takings(T, N) ==
  /\ T \subseteq free /\ free' = free \ T
  /\ \A h \in N : h[4] \in T
  /\ \A g, h \in N : g[4] = h[4] => g = h
  /\ \A t \in T : \E h \in N : h[4] = t
  /\ \A h : h[4] \in Frames =>
       (IsBlock(h, proc') \/ IsFile(h, files') <=>
        IsBlock(h, proc) \/ IsFile(h, files) \/ h \in N)
LEMMA Takes ==
  ASSUME Sound, NEW T, NEW N, Takings(T, N),
         mem' \in MemSet, pde' \in PdeSet,
         \A g \in Frames : g \notin free => mem'[g] = mem[g],
         \A d \in Dirs, i \in Tables : TableAt(d, i) => pde'[d][i] = pde[d][i],
         proc' \in [Procs -> SUBSET Frames],
         files' \in [Procs -> [Fds -> Frames \cup {None}]]
  PROVE  Good({})
<1> USE DEF Takings
<1>1. KeepsTables
  <2>1. \A d, i : InUse(d, i) => pde[d][i] \notin free
    BY TablesApart DEF Sound
  <2>2. \A g \in Frames : mem'[g] = mem[g] \/ \A d, i : InUse(d, i) => pde[d][i] # g
    BY <2>1
  <2> QED BY <2>2, WritesBeside
<1>2. TableInv' /\ \A h : h \in Owners' <=> Has(h, proc', files', pde, mem)
  BY <1>1, TablesKept
<1>3. \A h \in N : h[4] \in Frames
  BY TypesAre DEF Sound
<1>4. \A h : h \in Owners' <=> h \in Owners \/ h \in N
  BY <1>2, <1>3, OwnersAre, Zenon DEF Has
<1>5. Apart(Owners', free')
  <2>1. Apart(Owners, free) /\ Joined(Owners', Owners, N)
    BY <1>4, Zenon DEF Sound, Joined
  <2>2. Taken(N, free, free')
    BY DEF Taken
  <2>3. \A h \in Owners' : h \in Owners /\ h[4] \notin free => h[4] \notin free'
    OBVIOUS
  <2> QED BY <2>1, <2>2, <2>3, OwnersApart
<1>6. Lost' \ Lost \subseteq {}
  <2>1. \A f \in free : f \in free' \/ \E g \in Owners' : g[4] = f
    BY <1>4
  <2>2. \A h \in Owners : \E g \in Owners' : g[4] = h[4]
    BY <1>4, Zenon
  <2> QED BY <2>1, <2>2, LostIs
<1>7. free' \subseteq Frames
  BY TypesAre DEF Sound
<1> QED BY <1>2, <1>5, <1>6, <1>7, Zenon DEF Good

\* Pages given back to it.
Returnings(G, N) ==
  /\ N \subseteq Owners /\ \A f : f \in G <=> \E h \in N : h[4] = f
  /\ \A h \in N : \A d, i : h # TableOwner(d, i)
  /\ free' = free \cup G /\ mem' = Freed(G) /\ UNCHANGED pde
  /\ \A h : Has(h, proc', files', pde, mem) <=> h \in Owners /\ h \notin N
LEMMA GivesBack ==
  ASSUME Sound, NEW G, NEW N, Returnings(G, N),
         proc' \in [Procs -> SUBSET Frames],
         files' \in [Procs -> [Fds -> Frames \cup {None}]]
  PROVE  Good({})
<1> USE DEF Returnings
<1>1. \A h \in N : h[4] \in Frames /\ h[4] \notin free
  BY OwnersAre, Zenon DEF Sound, Apart, Has
<1>2. mem' \in MemSet /\ pde' \in PdeSet
      /\ \A f \in Frames : mem'[f] = IF f \in G \ free THEN Data ELSE mem[f]
  BY FreedIs, TypesAre DEF Sound
<1>3. KeepsTables
  <2>1. ASSUME NEW d, NEW i, InUse(d, i) PROVE pde[d][i] \notin G
    <3>1. TableOwner(d, i) \in Owners /\ TableOwner(d, i)[4] = pde[d][i]
      BY <2>1, AreOwners DEF Sound, TableOwner
    <3>2. ASSUME NEW h \in N, h[4] = pde[d][i] PROVE FALSE
      BY <3>1, <3>2, Zenon DEF Sound, Apart
    <3> QED BY <3>2
  <2>2. \A g \in Frames : mem'[g] = mem[g] \/ \A d, i : InUse(d, i) => pde[d][i] # g
    BY <1>2, <2>1
  <2> QED BY <2>2, WritesBeside
<1>4. TableInv' /\ \A h : h \in Owners' <=> Has(h, proc', files', pde, mem)
  BY <1>3, TablesKept
<1>5. \A h : h \in Owners' <=> h \in Owners /\ h \notin N
  BY <1>4, Zenon
<1>6. Apart(Owners', free')
  <2>1. \A g, h \in Owners' : g[4] = h[4] => g = h
    BY <1>5, Zenon DEF Sound, Apart
  <2>2. ASSUME NEW h \in Owners' PROVE h[4] \notin free /\ h[4] \notin G
    <3>1. h[4] \notin free
      BY <1>5, Zenon DEF Sound, Apart
    <3>2. \A g \in N : g[4] # h[4]
      BY <1>5, Zenon DEF Sound, Apart
    <3> QED BY <3>1, <3>2
  <2> QED BY <2>1, <2>2, Zenon DEF Apart
<1>7. Lost' \ Lost \subseteq {}
  <2>1. \A f \in free : f \in free'
    OBVIOUS
  <2>2. \A h \in Owners : h[4] \in free' \/ \E g \in Owners' : g[4] = h[4]
    BY <1>5
  <2> QED BY <2>1, <2>2, LostIs
<1>8. free' \subseteq Frames
  <2>1. free \subseteq Frames
    BY TypesAre DEF Sound
  <2> QED BY <1>1, <2>1
<1> QED BY <1>2, <1>4, <1>6, <1>7, <1>8, Zenon DEF Good

---------------------------------------------------------------------------
\* The operations on pages, one by one.
LEMMA PickIs == \A S : Pick(S) \subseteq S
BY DEF Pick

LEMMA CreateIsGood ==
  ASSUME Sound, EmptyInv, NEW p \in Procs, Create(p) PROVE Good({})
<1>1. PICK k \in Pick(free) :
        free' = free \ {k} /\ mem' = [mem EXCEPT ![k] = Data] /\ proc' = [proc EXCEPT ![p] = {k}]
  BY Zenon DEF Create
<1>2. proc[p] = {} /\ UNCHANGED <<pde, files>>
  BY Zenon DEF Create, NoProc
<1>3. k \in free /\ k \in Frames
  BY PickIs, TypesAre DEF Sound
<1>4. /\ mem \in MemSet /\ pde \in PdeSet /\ proc \in [Procs -> SUBSET Frames]
      /\ files \in [Procs -> [Fds -> Frames \cup {None}]]
  BY TypesAre DEF Sound
<1> DEFINE T == {k}
           N == {BlockOwner(p, k)}
<1>5. mem' \in MemSet /\ \A g \in Frames : g \notin free => mem'[g] = mem[g]
  BY <1>1, <1>3, <1>4 DEF MemSet
<1>6. /\ T \subseteq free /\ free' = free \ T
      /\ \A h \in N : h[4] \in T
      /\ \A g, h \in N : g[4] = h[4] => g = h
      /\ \A t \in T : \E h \in N : h[4] = t
  BY <1>1, <1>3 DEF BlockOwner
<1>7. \A h : IsBlock(h, proc') \/ IsFile(h, files') <=>
             IsBlock(h, proc) \/ IsFile(h, files) \/ h \in N
  <2>1. \A q \in Procs : proc'[q] = IF q = p THEN {k} ELSE proc[q]
    BY <1>1, <1>4
  <2>2. \A h : IsBlock(h, proc') <=> IsBlock(h, proc) \/ h \in N
    BY <1>2, <2>1 DEF IsBlock, BlockOwner
  <2> QED BY <1>2, <2>2
<1>8. proc' \in [Procs -> SUBSET Frames] /\ files' \in [Procs -> [Fds -> Frames \cup {None}]]
      /\ pde' \in PdeSet /\ \A d \in Dirs, i \in Tables : TableAt(d, i) => pde'[d][i] = pde[d][i]
  BY <1>1, <1>2, <1>3, <1>4
<1> HIDE DEF T, N
<1>9. Takings(T, N)
  BY <1>6, <1>7, Zenon DEF Takings
<1> QED BY <1>5, <1>8, <1>9, Takes

LEMMA SpaceTakes ==
  ASSUME Sound, EmptyInv, NEW p \in Procs, call.name = "space", call.p = p,
         NEW s \in free, NEW d \in free, s # d,
         free' = free \ {s, d}, mem' = [mem EXCEPT ![s] = Data, ![d] = Data],
         proc' = [proc EXCEPT ![p] = @ \cup {s, d}], pde' = [pde EXCEPT ![p] = pde[Kernel]],
         UNCHANGED files
  PROVE  Good({})
<1>1. /\ mem \in MemSet /\ pde \in PdeSet /\ proc \in [Procs -> SUBSET Frames]
      /\ files \in [Procs -> [Fds -> Frames \cup {None}]] /\ s \in Frames /\ d \in Frames
  BY TypesAre DEF Sound
<1> DEFINE T == {s, d}
           N == {BlockOwner(p, s), BlockOwner(p, d)}
<1>2. mem' \in MemSet /\ \A g \in Frames : g \notin free => mem'[g] = mem[g]
  BY <1>1, WriteData DEF MemSet
<1>3. /\ T \subseteq free /\ free' = free \ T
      /\ \A h \in N : h[4] \in T
      /\ \A g, h \in N : g[4] = h[4] => g = h
      /\ \A t \in T : \E h \in N : h[4] = t
  BY DEF BlockOwner
<1>4. \A h : IsBlock(h, proc') \/ IsFile(h, files') <=>
             IsBlock(h, proc) \/ IsFile(h, files) \/ h \in N
  <2>1. \A q \in Procs : proc'[q] = IF q = p THEN proc[p] \cup {s, d} ELSE proc[q]
    BY <1>1
  <2>2. \A h : IsBlock(h, proc') <=> IsBlock(h, proc) \/ h \in N
    BY <2>1 DEF IsBlock, BlockOwner
  <2> QED BY <2>2
<1>5. proc' \in [Procs -> SUBSET Frames] /\ files' \in [Procs -> [Fds -> Frames \cup {None}]]
  BY <1>1
<1>6. pde' \in PdeSet /\ \A c \in Dirs, i \in Tables : TableAt(c, i) => pde'[c][i] = pde[c][i]
  <2>1. pde' \in PdeSet /\ \A c \in Dirs : pde'[c] = IF c = p THEN pde[Kernel] ELSE pde[c]
    BY <1>1 DEF PdeSet, Dirs
  <2>2. \A i \in UserTables : pde[p][i] = pde[Kernel][i]
    BY DEF EmptyInv, TableInv, Sound
  <2> QED BY <2>1, <2>2, Names DEF TableAt
<1> HIDE DEF T, N
<1>7. Takings(T, N)
  BY <1>3, <1>4, Zenon DEF Takings
<1> QED BY <1>2, <1>5, <1>6, <1>7, Takes

LEMMA SpaceGivesBack ==
  ASSUME Sound, NEW p \in Procs, free' = free \cup proc[p], mem' = Freed(proc[p]),
         proc' = [proc EXCEPT ![p] = NoProc], UNCHANGED <<pde, files>>
  PROVE  Good({})
<1>1. proc \in [Procs -> SUBSET Frames] /\ files \in [Procs -> [Fds -> Frames \cup {None}]]
  BY TypesAre DEF Sound
<1> DEFINE G == proc[p]
           N == {BlockOwner(p, f) : f \in G}
<1>2. \A f : f \in G <=> \E h \in N : h[4] = f
  <2>1. \A f : BlockOwner(p, f)[4] = f
    BY DEF BlockOwner
  <2> HIDE DEF G
  <2> QED BY <2>1
<1>3. N \subseteq Owners /\ \A h \in N : \A d, i : h # TableOwner(d, i)
  <2>1. \A f \in G : BlockOwner(p, f) \in Owners
    BY AreOwners DEF Sound
  <2>2. \A f, d, i : BlockOwner(p, f) # TableOwner(d, i)
    BY DEF BlockOwner, TableOwner
  <2> HIDE DEF Owners, G
  <2> QED BY <2>1, <2>2
<1>4. \A h : Has(h, proc', files', pde, mem) <=> h \in Owners /\ h \notin N
  <2>1. \A q \in Procs : proc'[q] = IF q = p THEN {} ELSE proc[q]
    BY <1>1 DEF NoProc
  <2>2. \A h : IsBlock(h, proc') <=> IsBlock(h, proc) /\ h \notin N
    BY <2>1 DEF IsBlock, BlockOwner
  <2>3. ASSUME NEW h, h \in N PROVE ~IsFile(h, files) /\ ~IsTable(h, pde) /\ ~IsPage(h, pde, mem)
    <3>1. PICK f \in G : h = BlockOwner(p, f)
      BY <2>3
    <3> HIDE DEF N, G
    <3>2. h[2] = "block"
      BY <3>1 DEF BlockOwner
    <3>3. ~IsFile(h, files)
      BY <3>2 DEF IsFile
    <3>4. ~IsTable(h, pde)
      BY <3>2 DEF IsTable
    <3>5. ~IsPage(h, pde, mem)
      BY <3>2 DEF IsPage
    <3> QED BY <3>3, <3>4, <3>5
  <2> HIDE DEF N
  <2> QED BY <2>2, <2>3, OwnersAre, Zenon DEF Has
<1>5. proc' \in [Procs -> SUBSET Frames] /\ files' \in [Procs -> [Fds -> Frames \cup {None}]]
  BY <1>1 DEF NoProc
<1>6. free' = free \cup G /\ mem' = Freed(G) /\ UNCHANGED pde
  OBVIOUS
<1> HIDE DEF G, N
<1>7. Returnings(G, N)
  BY <1>2, <1>3, <1>4, <1>6, Zenon DEF Returnings
<1> QED BY <1>5, <1>7, GivesBack

LEMMA OpenIsGood ==
  ASSUME Sound, NEW p \in Procs, Open(p) PROVE Good({})
<1>1. PICK fd \in Fds, f \in Pick(free) :
        /\ files[p][fd] = None /\ mem' = [mem EXCEPT ![f] = Data]
        /\ \/ free' = free \ {f} /\ files' = [files EXCEPT ![p][fd] = f]
           \/ UNCHANGED <<free, files>>
  BY Zenon DEF Open
<1>2. UNCHANGED <<pde, proc>>
  BY DEF Open
<1>3. f \in free /\ f \in Frames
  BY PickIs, TypesAre DEF Sound
<1>4. /\ mem \in MemSet /\ pde \in PdeSet /\ proc \in [Procs -> SUBSET Frames]
      /\ files \in [Procs -> [Fds -> Frames \cup {None}]] /\ free \subseteq Frames
  BY TypesAre DEF Sound
<1>5. mem' \in MemSet /\ \A g \in Frames : g \notin free => mem'[g] = mem[g]
  BY <1>1, <1>3, <1>4 DEF MemSet
<1>6. pde' \in PdeSet /\ proc' \in [Procs -> SUBSET Frames]
      /\ \A d \in Dirs, i \in Tables : TableAt(d, i) => pde'[d][i] = pde[d][i]
  BY <1>2, <1>4
<1>7. CASE free' = free \ {f} /\ files' = [files EXCEPT ![p][fd] = f]
  <2> DEFINE T == {f}
             N == {<<p, "file", fd, f>>}
  <2>1. files' \in [Procs -> [Fds -> Frames \cup {None}]]
        /\ \A q \in Procs, x \in Fds : files'[q][x] = IF q = p /\ x = fd THEN f ELSE files[q][x]
    BY <1>3, <1>4, <1>7
  <2>2. \A h : IsFile(h, files') /\ h[4] \in Frames <=>
               (IsFile(h, files) \/ h \in N) /\ h[4] \in Frames
    <3>1. None \notin Frames
      BY Names
    <3> QED BY <1>1, <1>3, <2>1, <3>1 DEF IsFile
  <2>3. \A h : h \in N => h[4] \in Frames
    BY <1>3
  <2>4. Takings(T, N)
    <3>1. /\ T \subseteq free /\ free' = free \ T
          /\ \A h \in N : h[4] \in T
          /\ \A g, h \in N : g[4] = h[4] => g = h
          /\ \A t \in T : \E h \in N : h[4] = t
      BY <1>3, <1>7
    <3> HIDE DEF T, N
    <3>2. \A h : h[4] \in Frames =>
             (IsBlock(h, proc') \/ IsFile(h, files') <=>
              IsBlock(h, proc) \/ IsFile(h, files) \/ h \in N)
      BY <1>2, <2>2
    <3> QED BY <2>3, <3>1, <3>2, Zenon DEF Takings
  <2> HIDE DEF T, N
  <2> QED BY <1>5, <1>6, <2>1, <2>4, Takes
<1>8. CASE UNCHANGED <<free, files>>
  <2> DEFINE T == {}
             N == {}
  <2>1. Takings(T, N)
    BY <1>2, <1>8 DEF Takings
  <2> HIDE DEF T, N
  <2> QED BY <1>4, <1>5, <1>6, <1>8, <2>1, Takes
<1> QED BY <1>1, <1>7, <1>8

LEMMA CloseIsGood ==
  ASSUME Sound, NEW p \in Procs, Close(p) PROVE Good({})
<1>1. PICK fd \in Fds : /\ files[p][fd] # None
                        /\ free' = free \cup {files[p][fd]} /\ mem' = Freed({files[p][fd]})
                        /\ files' = [files EXCEPT ![p][fd] = None]
  BY Zenon DEF Close
<1>2. UNCHANGED <<pde, proc>>
  BY DEF Close
<1>3. proc \in [Procs -> SUBSET Frames] /\ files \in [Procs -> [Fds -> Frames \cup {None}]]
  BY TypesAre DEF Sound
<1>4. files' \in [Procs -> [Fds -> Frames \cup {None}]]
      /\ \A q \in Procs, x \in Fds : files'[q][x] = IF q = p /\ x = fd THEN None ELSE files[q][x]
  BY <1>1, <1>3
<1>5. files[p][fd] \in Frames
  BY <1>1, <1>3
<1> DEFINE G == {files[p][fd]}
           N == {FileOwner(p, fd)}
<1>6. FileOwner(p, fd) \in Owners /\ FileOwner(p, fd)[4] = files[p][fd]
  BY <1>5, AreOwners DEF Sound, FileOwner
<1>7. \A h : Has(h, proc', files', pde, mem) <=> h \in Owners /\ h \notin N
  <2>1. ASSUME NEW h
        PROVE  IsFile(h, files') /\ h[4] \in Frames <=>
               IsFile(h, files) /\ h[4] \in Frames /\ h \notin N
    <3>1. None \notin Frames
      BY Names
    <3> QED BY <1>4, <3>1 DEF IsFile, FileOwner
  <2>2. ASSUME NEW h, h \in N
        PROVE  ~IsBlock(h, proc) /\ ~IsTable(h, pde) /\ ~IsPage(h, pde, mem)
    <3>1. h[2] = "file"
      BY <2>2 DEF FileOwner
    <3>2. ~IsBlock(h, proc)
      BY <3>1 DEF IsBlock
    <3>3. ~IsTable(h, pde)
      BY <3>1 DEF IsTable
    <3>4. ~IsPage(h, pde, mem)
      BY <3>1 DEF IsPage
    <3> QED BY <3>2, <3>3, <3>4
  <2>3. UNCHANGED proc
    BY <1>2
  <2> HIDE DEF N
  <2>4. ASSUME NEW h
        PROVE  Has(h, proc', files', pde, mem) <=> Has(h, proc, files, pde, mem) /\ h \notin N
    BY <2>1, <2>2, <2>3 DEF Has
  <2> QED BY <2>4, OwnersAre, Zenon
<1>8. /\ N \subseteq Owners /\ \A f : f \in G <=> \E h \in N : h[4] = f
      /\ \A h \in N : \A d, i : h # TableOwner(d, i)
  <2>1. \A d, i : FileOwner(p, fd) # TableOwner(d, i)
    BY DEF FileOwner, TableOwner
  <2> HIDE DEF Owners
  <2> QED BY <1>6, <2>1
<1>9. free' = free \cup G /\ mem' = Freed(G) /\ UNCHANGED pde
  BY <1>1, <1>2
<1> HIDE DEF G, N
<1>10. Returnings(G, N)
  BY <1>7, <1>8, <1>9, Zenon DEF Returnings
<1> QED BY <1>2, <1>3, <1>4, <1>10, GivesBack

---------------------------------------------------------------------------
\* The end of a process.  What Destroy gives back is what the process has but for its
\* open files.
LEMMA DestroyIs ==
  ASSUME Sound, NEW p \in Procs
  PROVE  /\ Destroy(p) \subseteq Frames
         /\ \A f \in Destroy(p) : \E g \in Owners : g[1] = p /\ g[2] # "file" /\ g[4] = f
         /\ \A g \in Owners : g[1] = p =>
              IF g[2] = "file" THEN g[4] \in OpenFiles(p) ELSE g[4] \in Destroy(p)
<1>1. /\ mem \in MemSet /\ pde \in PdeSet /\ proc \in [Procs -> SUBSET Frames]
      /\ files \in [Procs -> [Fds -> Frames \cup {None}]]
  BY TypesAre DEF Sound
<1>2. \A f : f \in OwnTables(p) <=> \E i \in UserTables : f = pde[p][i] /\ f \in Frames
  BY DEF OwnTables
<1>3. \A f : f \in OwnPages(p) <=>
         \E t \in OwnTables(p) : \E e \in Words : f = mem[t][e] /\ f # None
  BY DEF OwnPages, Named, Words
<1>4. \A i \in UserTables : TableAt(p, i) /\ (pde[p][i] \in Frames => InUse(p, i))
  BY DEF TableAt, InUse
<1>5. \A f \in OwnPages(p) : \E i \in UserTables, e \in Words :
         InUse(p, i) /\ f = mem[pde[p][i]][e] /\ f \in Frames
  <2> SUFFICES ASSUME NEW f \in OwnPages(p)
               PROVE  \E i \in UserTables, e \in Words :
                        InUse(p, i) /\ f = mem[pde[p][i]][e] /\ f \in Frames
    OBVIOUS
  <2>1. PICK t \in OwnTables(p) : \E e \in Words : f = mem[t][e] /\ f # None
    BY <1>3, Zenon
  <2>2. PICK e \in Words : f = mem[t][e] /\ f # None
    BY <2>1
  <2>3. PICK i \in UserTables : t = pde[p][i] /\ t \in Frames
    BY <1>2, Zenon
  <2>4. mem[t] # Data
    BY <1>4, <2>3, Names, Zenon DEF Sound, TableInv, InUse
  <2>5. f \in Frames
    BY <1>1, <2>2, <2>3, <2>4 DEF MemSet
  <2> QED BY <1>4, <2>2, <2>3, <2>5
<1>6. \A f : f \in Destroy(p) <=> f \in proc[p] \/ f \in OwnTables(p) \/ f \in OwnPages(p)
  BY DEF Destroy
<1>7. Destroy(p) \subseteq Frames
  BY <1>1, <1>2, <1>5, <1>6
<1>8. ASSUME NEW f \in Destroy(p)
      PROVE  \E g \in Owners : g[1] = p /\ g[2] # "file" /\ g[4] = f
  <2>1. CASE f \in proc[p]
    <3>1. BlockOwner(p, f) \in Owners
      BY <2>1, AreOwners DEF Sound
    <3>2. BlockOwner(p, f)[1] = p /\ BlockOwner(p, f)[2] # "file" /\ BlockOwner(p, f)[4] = f
      BY DEF BlockOwner
    <3> QED BY <3>1, <3>2
  <2>2. CASE f \in OwnTables(p)
    <3>1. PICK i \in UserTables : f = pde[p][i] /\ f \in Frames
      BY <1>2, <2>2
    <3>2. TableOwner(p, i) \in Owners
      BY <1>4, <3>1, AreOwners DEF Sound
    <3>3. TableOwner(p, i)[1] = p /\ TableOwner(p, i)[2] # "file" /\ TableOwner(p, i)[4] = f
      BY <3>1 DEF TableOwner
    <3> QED BY <3>2, <3>3
  <2>3. CASE f \in OwnPages(p)
    <3>1. PICK i \in UserTables, e \in Words : InUse(p, i) /\ f = mem[pde[p][i]][e] /\ f \in Frames
      BY <1>5, <2>3
    <3>2. PageOwner(p, i, e) \in Owners
      BY <3>1, AreOwners DEF Sound
    <3>3. PageOwner(p, i, e)[1] = p /\ PageOwner(p, i, e)[2] # "file" /\ PageOwner(p, i, e)[4] = f
      BY <3>1 DEF PageOwner
    <3> QED BY <3>2, <3>3
  <2> QED BY <1>6, <2>1, <2>2, <2>3
<1>9. ASSUME NEW g \in Owners, g[1] = p
      PROVE  IF g[2] = "file" THEN g[4] \in OpenFiles(p) ELSE g[4] \in Destroy(p)
  <2>1. ASSUME NEW q \in Procs, NEW f \in proc[q], g = BlockOwner(q, f)
        PROVE  g[2] # "file" /\ g[4] \in Destroy(p)
    <3>1. g[2] = "block" /\ q = p /\ g[4] = f
      BY <1>9, <2>1 DEF BlockOwner
    <3> QED BY <1>6, <3>1
  <2>2. ASSUME NEW q \in Procs, NEW fd \in Fds, g = FileOwner(q, fd)
        PROVE  g[2] = "file" /\ g[4] \in OpenFiles(p)
    <3>1. g[2] = "file" /\ q = p /\ g[4] = files[q][fd]
      BY <1>9, <2>2 DEF FileOwner
    <3>2. g[4] \in Frames /\ None \notin Frames
      BY OwnerIs, Names DEF Sound
    <3> QED BY <3>1, <3>2 DEF OpenFiles
  <2>3. ASSUME NEW d \in Dirs, NEW i \in Tables, InUse(d, i), g = TableOwner(d, i)
        PROVE  g[2] # "file" /\ g[4] \in Destroy(p)
    <3>1. g[2] = "table" /\ d = p /\ g[4] = pde[d][i]
      BY <1>9, <2>3 DEF TableOwner
    <3>2. i \in UserTables /\ pde[p][i] \in Frames
      BY <2>3, <3>1, Names DEF InUse, TableAt
    <3> QED BY <1>2, <1>6, <3>1, <3>2
  <2>4. ASSUME NEW d \in Dirs, NEW i \in Tables, NEW e \in Words, InUse(d, i), g = PageOwner(d, i, e)
        PROVE  g[2] # "file" /\ g[4] \in Destroy(p)
    <3>1. g[2] = "page" /\ d = p /\ g[4] = mem[pde[d][i]][e]
      BY <1>9, <2>4 DEF PageOwner
    <3>2. i \in UserTables /\ pde[p][i] \in Frames
      BY <2>4, <3>1, Names DEF InUse, TableAt
    <3>3. g[4] \in Frames /\ None \notin Frames
      BY OwnerIs, Names DEF Sound
    <3>4. g[4] \in OwnPages(p)
      BY <1>2, <1>3, <3>1, <3>2, <3>3
    <3> QED BY <1>6, <3>1, <3>4
  <2> QED BY <2>1, <2>2, <2>3, <2>4, OwnerIs DEF Sound
<1> QED BY <1>7, <1>8, <1>9

\* What is taken for tables is memory too.
LEMMA MisnamedIs ==
  ASSUME Sound, NEW p \in Procs, NEW others \in Misnamed(p)
  PROVE  /\ others \subseteq Frames
         /\ others \cap Others(p) = {} => others \subseteq free \cup Destroy(p)
         /\ (\A b \in Frames : Begins(b) => b \in free /\ mem[b] = Blank) => others \subseteq free
<1> DEFINE known   == {t \in Misread(p) : mem[t] # Data}
           certain == Misread(p) \cup UNION {Named(t) : t \in known}
           first   == {f \in Others(p) : \A g \in Others(p) : f <= g}
<1>1. others = certain \/ others = certain \cup first
  BY DEF Misnamed
<1>2. mem \in MemSet
  BY TypesAre DEF Sound
<1>3. Misread(p) \subseteq Frames
  BY DEF Misread
<1>4. \A t \in known : Named(t) \subseteq Frames
  BY <1>2, <1>3 DEF Named, MemSet, Words
<1>5. certain \subseteq Frames
  BY <1>3, <1>4
<1>6. Others(p) \subseteq Frames /\ \A f \in Frames : f \in Others(p) \/ f \in free \/ f \in Destroy(p)
  BY DEF Others
<1>7. others \subseteq Frames
  BY <1>1, <1>5, <1>6
<1>8. ASSUME \A b \in Frames : Begins(b) => b \in free /\ mem[b] = Blank
      PROVE  others \subseteq free
  <2>1. \A b \in Misread(p) : b \in free /\ mem[b] = Blank
    <3>1. \A b \in Misread(p) : \E i \in Nat : b = i * Entries
      BY Names DEF Misread
    <3>2. \A i \in Nat : (i * Entries) % Entries = 0
      BY PageAssumption
    <3> QED BY <1>3, <1>8, <3>1, <3>2 DEF Begins
  <2>2. Blank # Data /\ \A e \in Words : Blank[e] = None
    BY Names
  <2>3. known = Misread(p)
    BY <2>1, <2>2
  <2>4. \A t \in Misread(p) : Named(t) = {}
    BY <2>1, <2>2 DEF Named, Words
  <2>5. certain \subseteq free
    BY <2>1, <2>3, <2>4
  <2>6. Misread(p) \ known = {}
    BY <2>3
  <2>7. others = certain
    BY <2>6 DEF Misnamed
  <2> QED BY <2>5, <2>7
<1> HIDE DEF known, certain, first
<1> QED BY <1>6, <1>7, <1>8

\* The types are kept even by a space that is destroyed with pages of others.
LEMMA DieIs ==
  ASSUME Sound, NEW p \in Procs, Die(p)
  PROVE  \E gone \in SUBSET Frames :
           /\ free' = free \cup gone /\ mem' = Freed(gone) /\ Destroy(p) \subseteq gone
           /\ ~spoiled' => gone \subseteq free \cup Destroy(p)
           /\ (\A b \in Frames : Begins(b) => b \in free /\ mem[b] = Blank) =>
                gone \subseteq free \cup Destroy(p)
           /\ mem' \in MemSet /\ pde' \in PdeSet
           /\ proc' = [proc EXCEPT ![p] = {}] /\ files' = [files EXCEPT ![p] = NoFiles]
           /\ \A i \in UserTables : pde'[p][i] = Big
           /\ \A d \in Dirs : d # p => pde'[d] = pde[d]
<1>1. PICK others \in Misnamed(p) :
        /\ free' = free \cup (Destroy(p) \cup others) /\ mem' = Freed(Destroy(p) \cup others)
        /\ spoiled' = (others \cap Others(p) # {})
        /\ pde' = [pde EXCEPT ![p] = Identity] /\ proc' = [proc EXCEPT ![p] = NoProc]
        /\ files' = [files EXCEPT ![p] = NoFiles]
  BY Zenon DEF Die
<1> DEFINE gone == Destroy(p) \cup others
<1>2. others \subseteq Frames
      /\ (others \cap Others(p) = {} => others \subseteq free \cup Destroy(p))
      /\ ((\A b \in Frames : Begins(b) => b \in free /\ mem[b] = Blank) => others \subseteq free)
  BY MisnamedIs
<1>3. Destroy(p) \subseteq Frames
  BY DestroyIs
<1>4. pde \in PdeSet /\ mem \in MemSet
  BY TypesAre DEF Sound
<1>5. Identity \in [Tables -> Frames \cup {None, Big}] /\ \A i \in UserTables : Identity[i] = Big
  BY LayoutAssumption, TableAssumption DEF Identity
<1>6. pde' \in PdeSet /\ pde'[p] = Identity /\ \A d \in Dirs : d # p => pde'[d] = pde[d]
  <2> HIDE DEF Identity
  <2> QED BY <1>1, <1>4, <1>5 DEF PdeSet, Dirs
<1>7. mem' \in MemSet
  BY <1>1, <1>4, FreedIs
<1>8. gone \in SUBSET Frames /\ Destroy(p) \subseteq gone
      /\ (~spoiled' => gone \subseteq free \cup Destroy(p))
      /\ ((\A b \in Frames : Begins(b) => b \in free /\ mem[b] = Blank) =>
                gone \subseteq free \cup Destroy(p))
  BY <1>1, <1>2, <1>3
<1>9. free' = free \cup gone /\ mem' = Freed(gone)
  BY <1>1
<1>10. proc' = [proc EXCEPT ![p] = {}] /\ files' = [files EXCEPT ![p] = NoFiles]
      /\ \A i \in UserTables : pde'[p][i] = Big
  BY <1>1, <1>5, <1>6 DEF NoProc
<1> HIDE DEF gone
<1> QED BY <1>6, <1>7, <1>8, <1>9, <1>10

LEMMA DieIsGood ==
  ASSUME Sound, NEW p \in Procs, Die(p), ~spoiled'
  PROVE  Good(OpenFiles(p))
<1>1. PICK gone \in SUBSET Frames :
        /\ free' = free \cup gone /\ mem' = Freed(gone) /\ Destroy(p) \subseteq gone
        /\ gone \subseteq free \cup Destroy(p)
        /\ mem' \in MemSet /\ pde' \in PdeSet
        /\ proc' = [proc EXCEPT ![p] = {}] /\ files' = [files EXCEPT ![p] = NoFiles]
        /\ \A i \in UserTables : pde'[p][i] = Big
        /\ \A d \in Dirs : d # p => pde'[d] = pde[d]
  BY DieIs
<1>2. /\ proc \in [Procs -> SUBSET Frames] /\ files \in [Procs -> [Fds -> Frames \cup {None}]]
      /\ free \subseteq Frames /\ mem \in MemSet /\ pde \in PdeSet
  BY TypesAre DEF Sound
<1>3. /\ proc' \in [Procs -> SUBSET Frames] /\ files' \in [Procs -> [Fds -> Frames \cup {None}]]
      /\ \A q \in Procs : proc'[q] = IF q = p THEN {} ELSE proc[q]
      /\ \A q \in Procs : files'[q] = IF q = p THEN NoFiles ELSE files[q]
  BY <1>1, <1>2 DEF NoFiles
<1>4. \A g \in Owners : g[1] # p => g[4] \notin Destroy(p) /\ g[4] \notin gone
  <2> SUFFICES ASSUME NEW g \in Owners, g[1] # p PROVE g[4] \notin Destroy(p) /\ g[4] \notin gone
    OBVIOUS
  <2>1. g[4] \notin free
    BY Zenon DEF Sound, Apart
  <2>2. ASSUME g[4] \in Destroy(p) PROVE FALSE
    <3>1. PICK h \in Owners : h[1] = p /\ h[4] = g[4]
      BY <2>2, DestroyIs
    <3>2. h = g
      BY <3>1, Zenon DEF Sound, Apart
    <3> QED BY <3>1, <3>2
  <2> QED BY <1>1, <2>1, <2>2
<1>5. \A f \in Frames : mem'[f] = IF f \in gone \ free THEN Data ELSE mem[f]
  BY <1>1, <1>2, FreedIs
\* The tables of others are what they were; of the process none is left.
<1>6. ASSUME NEW d \in Dirs, NEW i \in Tables, TableAt(d, i)
      PROVE  /\ d = p => pde'[d][i] = Big
             /\ d # p => /\ pde'[d][i] = pde[d][i]
                         /\ pde[d][i] \in Frames => mem'[pde[d][i]] = mem[pde[d][i]]
  <2>1. CASE d = p
    <3>1. i \in UserTables
      BY <1>6, <2>1, Names DEF TableAt
    <3> QED BY <1>1, <2>1, <3>1
  <2>2. CASE d # p
    <3>1. pde'[d][i] = pde[d][i]
      BY <1>1, <2>2
    <3>2. ASSUME pde[d][i] \in Frames PROVE mem'[pde[d][i]] = mem[pde[d][i]]
      <4>1. InUse(d, i)
        BY <1>6, <3>2 DEF InUse
      <4>2. TableOwner(d, i) \in Owners
        BY <4>1, AreOwners DEF Sound
      <4>3. TableOwner(d, i)[1] = d /\ TableOwner(d, i)[4] = pde[d][i]
        BY DEF TableOwner
      <4>4. pde[d][i] \notin gone
        BY <1>4, <2>2, <4>2, <4>3
      <4> QED BY <1>5, <3>2, <4>4
    <3> QED BY <2>2, <3>1, <3>2
  <2> QED BY <2>1, <2>2
<1>7. TableInv'
  <2>1. \A i \in UserTables : TableAt(Kernel, i) /\ (\A q \in Procs : TableAt(q, i)) /\ i \in Tables
    BY Names DEF TableAt
  <2>2. \A i \in UserTables : pde'[Kernel][i] = Big
    <3>1. Kernel \in Dirs /\ Kernel # p
      BY Names DEF Dirs
    <3> QED BY <1>6, <2>1, <3>1 DEF Sound, TableInv
  <2>3. \A q \in Procs, i \in UserTables : pde'[q][i] # None
    <3>1. \A q \in Procs : q \in Dirs
      BY DEF Dirs
    <3> QED BY <1>6, <2>1, <3>1, Names DEF Sound, TableInv
  <2>4. \A d \in Procs \cup {Kernel}, i \in Tables :
          TableAt(d, i) /\ pde'[d][i] \in Frames => mem'[pde'[d][i]] # Data
    <3> SUFFICES ASSUME NEW d \in Dirs, NEW i \in Tables, TableAt(d, i), pde'[d][i] \in Frames
                 PROVE  mem'[pde'[d][i]] # Data
      BY DEF Dirs
    <3>1. d # p /\ pde'[d][i] = pde[d][i] /\ mem'[pde[d][i]] = mem[pde[d][i]]
      BY <1>6, Names
    <3>2. mem[pde[d][i]] # Data
      BY <3>1 DEF Sound, TableInv, Dirs
    <3> QED BY <3>1, <3>2
  <2> QED BY <2>2, <2>3, <2>4, Zenon DEF TableInv
<1>8. \A h : h \in Owners' <=> h \in Owners /\ h[1] # p
  <2>1. \A h : IsBlock(h, proc') <=> IsBlock(h, proc) /\ h[1] # p
    BY <1>3 DEF IsBlock
  <2>2. ASSUME NEW h PROVE IsFile(h, files') /\ h[4] \in Frames <=> IsFile(h, files) /\ h[4] \in Frames /\ h[1] # p
    <3>1. None \notin Frames /\ \A fd \in Fds : files'[p][fd] = None
      BY <1>3, Names DEF NoFiles
    <3>2. \A q \in Procs, fd \in Fds : q # p => files'[q][fd] = files[q][fd]
      BY <1>3
    <3>3. ASSUME IsFile(h, files'), h[4] \in Frames PROVE IsFile(h, files) /\ h[1] # p
      <4>1. PICK q \in Procs, fd \in Fds : h = <<q, "file", fd, files'[q][fd]>>
        BY <3>3, Zenon DEF IsFile
      <4>2. q # p /\ h[1] = q
        BY <3>1, <3>3, <4>1
      <4>3. h = <<q, "file", fd, files[q][fd]>>
        BY <3>2, <4>1, <4>2
      <4> QED BY <4>2, <4>3, Zenon DEF IsFile
    <3>4. ASSUME IsFile(h, files), h[1] # p PROVE IsFile(h, files')
      <4>1. PICK q \in Procs, fd \in Fds : h = <<q, "file", fd, files[q][fd]>>
        BY <3>4, Zenon DEF IsFile
      <4>2. q # p
        BY <3>4, <4>1
      <4>3. h = <<q, "file", fd, files'[q][fd]>>
        BY <3>2, <4>1, <4>2
      <4> QED BY <4>3, Zenon DEF IsFile
    <3> QED BY <3>3, <3>4
  <2>3. ASSUME NEW h PROVE IsTable(h, pde') /\ h[4] \in Frames <=> IsTable(h, pde) /\ h[4] \in Frames /\ h[1] # p
    <3>1. IsTable(h, pde') <=> \E d \in Dirs, i \in Tables : TableAt(d, i) /\ h = <<d, "table", i, pde'[d][i]>>
      BY Zenon DEF IsTable, Dirs
    <3>2. IsTable(h, pde) <=> \E d \in Dirs, i \in Tables : TableAt(d, i) /\ h = <<d, "table", i, pde[d][i]>>
      BY Zenon DEF IsTable, Dirs
    <3>3. ASSUME IsTable(h, pde'), h[4] \in Frames PROVE IsTable(h, pde) /\ h[1] # p
      <4>1. PICK d \in Dirs, i \in Tables : TableAt(d, i) /\ h = <<d, "table", i, pde'[d][i]>>
        BY <3>1, <3>3
      <4>2. h[4] = pde'[d][i] /\ h[1] = d
        BY <4>1
      <4>3. d # p /\ pde'[d][i] = pde[d][i]
        BY <1>6, <3>3, <4>1, <4>2, Names
      <4> QED BY <3>2, <4>1, <4>2, <4>3
    <3>4. ASSUME IsTable(h, pde), h[1] # p PROVE IsTable(h, pde')
      <4>1. PICK d \in Dirs, i \in Tables : TableAt(d, i) /\ h = <<d, "table", i, pde[d][i]>>
        BY <3>2, <3>4
      <4>2. d # p
        BY <3>4, <4>1
      <4> QED BY <1>6, <3>1, <4>1, <4>2
    <3> QED BY <3>3, <3>4
  <2>4. ASSUME NEW h PROVE IsPage(h, pde', mem') <=> IsPage(h, pde, mem) /\ h[1] # p
    <3>1. IsPage(h, pde', mem') <=>
            \E d \in Dirs, i \in Tables, e \in Words :
              /\ TableAt(d, i) /\ pde'[d][i] \in Frames
              /\ h = <<d, "page", i * Entries + e, mem'[pde'[d][i]][e]>>
      BY Zenon DEF IsPage, Dirs, Words
    <3>2. IsPage(h, pde, mem) <=>
            \E d \in Dirs, i \in Tables, e \in Words :
              /\ TableAt(d, i) /\ pde[d][i] \in Frames
              /\ h = <<d, "page", i * Entries + e, mem[pde[d][i]][e]>>
      BY Zenon DEF IsPage, Dirs, Words
    <3>3. ASSUME IsPage(h, pde', mem') PROVE IsPage(h, pde, mem) /\ h[1] # p
      <4>1. PICK d \in Dirs, i \in Tables, e \in Words :
              /\ TableAt(d, i) /\ pde'[d][i] \in Frames
              /\ h = <<d, "page", i * Entries + e, mem'[pde'[d][i]][e]>>
        BY <3>1, <3>3
      <4>2. d # p /\ pde'[d][i] = pde[d][i] /\ mem'[pde'[d][i]] = mem[pde[d][i]] /\ h[1] = d
        BY <1>6, <4>1, Names
      <4> QED BY <3>2, <4>1, <4>2
    <3>4. ASSUME IsPage(h, pde, mem), h[1] # p PROVE IsPage(h, pde', mem')
      <4>1. PICK d \in Dirs, i \in Tables, e \in Words :
              /\ TableAt(d, i) /\ pde[d][i] \in Frames
              /\ h = <<d, "page", i * Entries + e, mem[pde[d][i]][e]>>
        BY <3>2, <3>4
      <4>2. d # p
        BY <3>4, <4>1
      <4>3. pde'[d][i] = pde[d][i] /\ mem'[pde'[d][i]] = mem[pde[d][i]]
        BY <1>6, <4>1, <4>2
      <4> QED BY <3>1, <4>1, <4>3
    <3> QED BY <3>3, <3>4
  <2> QED BY <2>1, <2>2, <2>3, <2>4, OwnersAre DEF Has
<1>9. Apart(Owners', free')
  <2>1. \A g, h \in Owners' : g[4] = h[4] => g = h
    BY <1>8, Zenon DEF Sound, Apart
  <2>2. \A h \in Owners' : h[4] \notin free /\ h[4] \notin gone
    BY <1>4, <1>8, Zenon DEF Sound, Apart
  <2> QED BY <1>1, <2>1, <2>2 DEF Apart
<1>10. Lost' \ Lost \subseteq OpenFiles(p)
  <2>1. \A f \in free : f \in free'
    BY <1>1
  <2>2. ASSUME NEW h \in Owners
        PROVE  h[4] \in free' \/ h[4] \in OpenFiles(p) \/ \E g \in Owners' : g[4] = h[4]
    <3>1. CASE h[1] # p
      BY <1>8, <3>1
    <3>2. CASE h[1] = p
      BY <1>1, <3>2, DestroyIs
    <3> QED BY <3>1, <3>2
  <2> DEFINE X == OpenFiles(p)
  <2> HIDE DEF X
  <2>3. Lost' \ Lost \subseteq X
    BY <2>1, <2>2, LostIs DEF X
  <2> QED BY <2>3 DEF X
<1>11. free' \subseteq Frames
  BY <1>1, <1>2
<1> QED BY <1>1, <1>3, <1>7, <1>9, <1>10, <1>11, Zenon DEF Good

---------------------------------------------------------------------------
\* Words written in tables: those of C = {<<directory, table, entry>>} become w.
Written(C, w) ==
  /\ C \subseteq Dirs \X Tables \X Words /\ \A c \in C : InUse(c[1], c[2])
  /\ \A d \in Dirs, i \in Tables : InUse(d, i) =>
       /\ mem'[pde[d][i]] # Data
       /\ \A e \in Words : mem'[pde[d][i]][e] = IF <<d, i, e>> \in C THEN w ELSE mem[pde[d][i]][e]

LEMMA WordsChange ==
  ASSUME Sound, UNCHANGED <<proc, files, pde>>, NEW C, NEW w, Written(C, w)
  PROVE  /\ TableInv'
         /\ \A h : h \in Owners' <=>
              /\ h[4] \in Frames
              /\ \/ h \in Owners /\ \A c \in C : h # PageOwner(c[1], c[2], c[3])
                 \/ \E c \in C : h = <<c[1], "page", c[2] * Entries + c[3], w>>
<1>1. TableInv'
  <2>1. \A d \in Procs \cup {Kernel}, i \in Tables :
          TableAt(d, i) /\ pde'[d][i] \in Frames => mem'[pde'[d][i]] # Data
    BY DEF Written, InUse, Dirs
  <2> QED BY <2>1 DEF TableInv, Sound
<1> DEFINE Pos(d, i, e) == i * Entries + e
<1>2. \A d, c \in Dirs, i, j \in Tables, e, x \in Words :
         PageOwner(d, i, e) = PageOwner(c, j, x) => d = c /\ i = j /\ e = x
  <2> SUFFICES ASSUME NEW d \in Dirs, NEW c \in Dirs, NEW i \in Tables, NEW j \in Tables,
                      NEW e \in Words, NEW x \in Words, PageOwner(d, i, e) = PageOwner(c, j, x)
               PROVE  d = c /\ i = j /\ e = x
    OBVIOUS
  <2>1. d = c /\ i * Entries + e = j * Entries + x
    BY OwnersDiffer
  <2>2. i \in Nat /\ j \in Nat
    BY Names
  <2> QED BY <2>1, <2>2, PageUnique DEF Words
<1>3. ASSUME NEW h
      PROVE  IsPage(h, pde, mem') <=> \/ \E c \in C : h = <<c[1], "page", Pos(c[1], c[2], c[3]), w>>
                                      \/ IsPage(h, pde, mem) /\ \A c \in C : h # PageOwner(c[1], c[2], c[3])
  <2> DEFINE Now(d, i, e) == h = <<d, "page", Pos(d, i, e), mem'[pde[d][i]][e]>>
             Was(d, i, e) == h = PageOwner(d, i, e)
             Is(d, i, e)  == h = <<d, "page", Pos(d, i, e), w>>
  <2>1. IsPage(h, pde, mem') <=> \E d \in Dirs, i \in Tables, e \in Words : InUse(d, i) /\ Now(d, i, e)
    BY Zenon DEF IsPage, InUse, Dirs, Words
  <2>2. IsPage(h, pde, mem) <=> \E d \in Dirs, i \in Tables, e \in Words : InUse(d, i) /\ Was(d, i, e)
    BY Zenon DEF IsPage, InUse, Dirs, Words, PageOwner
  <2>3. \A d \in Dirs, i \in Tables, e \in Words : InUse(d, i) =>
          /\ <<d, i, e>> \in C => (Now(d, i, e) <=> Is(d, i, e))
          /\ <<d, i, e>> \notin C => (Now(d, i, e) <=> Was(d, i, e))
    BY DEF Written, PageOwner
  <2>4. \A c \in C : /\ c[1] \in Dirs /\ c[2] \in Tables /\ c[3] \in Words
                     /\ c = <<c[1], c[2], c[3]>> /\ InUse(c[1], c[2])
    BY DEF Written
  <2>5. \A d \in Dirs, i \in Tables, e \in Words : Was(d, i, e) /\ <<d, i, e>> \notin C =>
          \A c \in C : ~Was(c[1], c[2], c[3])
    BY <1>2, <2>4
  <2> HIDE DEF Now, Was, Is
  <2>6. ASSUME IsPage(h, pde, mem')
        PROVE  \/ \E c \in C : Is(c[1], c[2], c[3])
               \/ IsPage(h, pde, mem) /\ \A c \in C : ~Was(c[1], c[2], c[3])
    <3>1. PICK d \in Dirs, i \in Tables, e \in Words : InUse(d, i) /\ Now(d, i, e)
      BY <2>1, <2>6
    <3>2. CASE <<d, i, e>> \in C
      <4>1. Is(d, i, e)
        BY <2>3, <3>1, <3>2
      <4> QED BY <3>2, <4>1
    <3>3. CASE <<d, i, e>> \notin C
      <4>1. Was(d, i, e)
        BY <2>3, <3>1, <3>3
      <4> QED BY <2>2, <2>5, <3>1, <3>3, <4>1
    <3> QED BY <3>2, <3>3
  <2>7. ASSUME NEW c \in C, Is(c[1], c[2], c[3]) PROVE IsPage(h, pde, mem')
    BY <2>1, <2>3, <2>4, <2>7
  <2>8. ASSUME IsPage(h, pde, mem), \A c \in C : ~Was(c[1], c[2], c[3]) PROVE IsPage(h, pde, mem')
    <3>1. PICK d \in Dirs, i \in Tables, e \in Words : InUse(d, i) /\ Was(d, i, e)
      BY <2>2, <2>8
    <3>2. <<d, i, e>> \notin C
      BY <2>8, <3>1
    <3> QED BY <2>1, <2>3, <3>1, <3>2
  <2>9. IsPage(h, pde, mem') <=> \/ \E c \in C : Is(c[1], c[2], c[3])
                                 \/ IsPage(h, pde, mem) /\ \A c \in C : ~Was(c[1], c[2], c[3])
    BY <2>6, <2>7, <2>8
  <2> QED BY <2>9, Zenon DEF Is, Was
<1>4. ASSUME NEW h, NEW c \in C
      PROVE  /\ h = PageOwner(c[1], c[2], c[3]) =>
                  ~IsBlock(h, proc) /\ ~IsFile(h, files) /\ ~IsTable(h, pde)
  <2>1. SUFFICES ASSUME h = PageOwner(c[1], c[2], c[3])
                 PROVE  ~IsBlock(h, proc) /\ ~IsFile(h, files) /\ ~IsTable(h, pde)
    OBVIOUS
  <2>2. h[2] = "page"
    BY <2>1 DEF PageOwner
  <2>3. ~IsBlock(h, proc)
    BY <2>2 DEF IsBlock
  <2>4. ~IsTable(h, pde)
    BY <2>2 DEF IsTable
  <2>5. ~IsFile(h, files)
    BY <2>2 DEF IsFile
  <2> QED BY <2>3, <2>4, <2>5
<1>5. ASSUME NEW h
      PROVE  h \in Owners' <=>
              /\ h[4] \in Frames
              /\ \/ h \in Owners /\ \A c \in C : h # PageOwner(c[1], c[2], c[3])
                 \/ \E c \in C : h = <<c[1], "page", Pos(c[1], c[2], c[3]), w>>
  <2>1. h \in Owners' <=> Has(h, proc, files, pde, mem')
    <3>1. h \in Owners' <=> Has(h, proc', files', pde', mem')
      BY OwnersAre, Zenon
    <3> QED BY <3>1
  <2>2. h \in Owners <=> Has(h, proc, files, pde, mem)
    BY OwnersAre, Zenon
  <2> HIDE DEF Pos
  <2> QED BY <1>3, <1>4, <2>1, <2>2, Zenon DEF Has
<1> QED BY <1>1, <1>5

\* A word of a table is set or cleared.
LEMMA OneWord ==
  ASSUME Sound, NEW d \in Dirs, NEW i \in Tables, InUse(d, i), NEW e \in Words,
         NEW w \in Frames \cup {None}, NEW f \in Frames,
         \A c \in Dirs, j \in Tables : InUse(c, j) => pde[c][j] # f,
         \/ mem' = [[mem EXCEPT ![pde[d][i]][e] = w] EXCEPT ![f] = Data]
         \/ mem' = [[mem EXCEPT ![f] = Data] EXCEPT ![pde[d][i]][e] = w]
  PROVE  mem' \in MemSet /\ Written({<<d, i, e>>}, w)
<1> DEFINE t == pde[d][i]
<1>1. t \in Frames /\ mem \in MemSet /\ t # f /\ mem[t] # Data
  BY TypesAre DEF Sound, InUse, TableInv, Dirs
<1>2. /\ mem' \in MemSet /\ mem'[t] # Data
      /\ \A g \in Frames : g # t /\ g # f => mem'[g] = mem[g]
      /\ \A x \in Words : mem'[t][x] = IF x = e THEN w ELSE mem[t][x]
  <2>1. CASE mem' = [[mem EXCEPT ![t][e] = w] EXCEPT ![f] = Data]
    <3> DEFINE m == [mem EXCEPT ![t][e] = w]
    <3>1. /\ m \in MemSet /\ m[t] # Data /\ \A g \in Frames : g # t => m[g] = mem[g]
          /\ \A x \in Words : m[t][x] = IF x = e THEN w ELSE mem[t][x]
      <4> HIDE DEF t
      <4> QED BY <1>1, WriteWord
    <3>2. mem' = [m EXCEPT ![f] = Data]
      BY <2>1
    <3> HIDE DEF m, t
    <3>3. mem' \in MemSet /\ \A g \in Frames : g # f => mem'[g] = m[g]
      BY <3>1, <3>2 DEF MemSet
    <3> QED BY <1>1, <3>1, <3>3
  <2>2. CASE mem' = [[mem EXCEPT ![f] = Data] EXCEPT ![t][e] = w]
    <3> DEFINE m == [mem EXCEPT ![f] = Data]
    <3> HIDE DEF t
    <3>1. m \in MemSet /\ \A g \in Frames : g # f => m[g] = mem[g]
      BY <1>1 DEF MemSet
    <3>2. mem' = [m EXCEPT ![t][e] = w]
      BY <2>2
    <3> HIDE DEF m
    <3>3. m[t] # Data
      BY <1>1, <3>1
    <3>4. /\ [m EXCEPT ![t][e] = w] \in MemSet
          /\ \A g \in Frames : g # t => [m EXCEPT ![t][e] = w][g] = m[g]
          /\ [m EXCEPT ![t][e] = w][t] # Data
          /\ \A x \in Words : [m EXCEPT ![t][e] = w][t][x] = IF x = e THEN w ELSE m[t][x]
      BY <1>1, <3>1, <3>3, WriteWord
    <3>5. /\ mem' \in MemSet /\ mem'[t] # Data
          /\ \A g \in Frames : g # t => mem'[g] = m[g]
          /\ \A x \in Words : mem'[t][x] = IF x = e THEN w ELSE m[t][x]
      BY <3>2, <3>4
    <3> QED BY <1>1, <3>1, <3>5
  <2> QED BY <2>1, <2>2
<1>3. \A c \in Dirs, j \in Tables : InUse(c, j) /\ pde[c][j] = t => c = d /\ j = i
  BY TablesApart DEF Sound
<1>4. ASSUME NEW c \in Dirs, NEW j \in Tables, InUse(c, j)
      PROVE  /\ mem'[pde[c][j]] # Data
             /\ \A x \in Words : mem'[pde[c][j]][x] =
                                   IF <<c, j, x>> \in {<<d, i, e>>} THEN w ELSE mem[pde[c][j]][x]
  <2>1. CASE pde[c][j] = t
    <3>1. c = d /\ j = i
      BY <1>3, <1>4, <2>1
    <3> QED BY <1>2, <3>1
  <2>2. CASE pde[c][j] # t
    <3>1. pde[c][j] \in Frames /\ pde[c][j] # f /\ mem[pde[c][j]] # Data
      BY <1>4 DEF InUse, Sound, TableInv, Dirs
    <3>2. mem'[pde[c][j]] = mem[pde[c][j]]
      BY <1>2, <2>2, <3>1
    <3>3. \A x \in Words : <<c, j, x>> # <<d, i, e>>
      BY <2>2
    <3> QED BY <3>1, <3>2, <3>3
  <2> QED BY <2>1, <2>2
<1>5. {<<d, i, e>>} \subseteq Dirs \X Tables \X Words
  OBVIOUS
<1>6. \A c \in {<<d, i, e>>} : InUse(c[1], c[2])
  OBVIOUS
<1> QED BY <1>2, <1>4, <1>5, <1>6, Zenon DEF Written

LEMMA MunmapIsGood ==
  ASSUME Sound, NEW p \in Procs, Munmap(p) PROVE Good({})
<1>1. PICK v \in MmapBase .. HeapBase - 1 :
        /\ Maps(p, v)
        /\ free' = free \cup {mem[TableOf(p, v)][Entry(v)]}
        /\ mem' = [ClearEntry(TableOf(p, v), v) EXCEPT ![mem[TableOf(p, v)][Entry(v)]] = Data]
  BY Zenon DEF Munmap
<1>2. UNCHANGED <<proc, files, pde>>
  BY DEF Munmap, procVars
<1> DEFINE i == Table(v)
           e == Entry(v)
           f == mem[pde[p][i]][e]
           g0 == PageOwner(p, i, e)
<1>3. v \in Nat /\ i \in UserTables /\ i \in Tables /\ e \in Words /\ p \in Dirs
  <2>1. v \in Nat
    BY LayoutAssumption
  <2> QED BY <2>1, UserSpace, PageSplit, Names DEF Words, Dirs
<1>4. InUse(p, i) /\ f # None /\ f \in Frames
  <2>1. InUse(p, i) /\ f # None
    BY <1>1, <1>3 DEF Maps, TableOf, InUse, TableAt
  <2>2. mem \in MemSet /\ pde[p][i] \in Frames /\ mem[pde[p][i]] # Data
    BY <1>3, <2>1, TypesAre DEF Sound, InUse, TableInv, Dirs
  <2> QED BY <1>3, <2>1, <2>2 DEF MemSet
<1>5. g0 \in Owners /\ g0[4] = f
  BY <1>3, <1>4, AreOwners DEF Sound, PageOwner
<1>6. \A c \in Dirs, j \in Tables : InUse(c, j) => pde[c][j] # f
  BY <1>3, <1>4, TablesApart DEF Sound
<1> DEFINE C == {<<p, i, e>>}
<1>7. mem' \in MemSet /\ Written(C, None)
  <2>1. mem' = [[mem EXCEPT ![pde[p][i]][e] = None] EXCEPT ![f] = Data]
    BY <1>1 DEF ClearEntry, TableOf
  <2> HIDE DEF f, i, e
  <2>2. None \in Frames \cup {None}
    OBVIOUS
  <2>3. f \in Frames /\ InUse(p, i) /\ i \in Tables /\ e \in Words /\ p \in Dirs
    BY <1>3, <1>4
  <2> QED BY <1>6, <2>1, <2>2, <2>3, OneWord
<1>8. TableInv' /\ \A h : h \in Owners' <=> h \in Owners /\ h # g0
  <2>1. /\ TableInv'
        /\ \A h : h \in Owners' <=>
              /\ h[4] \in Frames
              /\ \/ h \in Owners /\ \A c \in C : h # PageOwner(c[1], c[2], c[3])
                 \/ \E c \in C : h = <<c[1], "page", c[2] * Entries + c[3], None>>
    <3> HIDE DEF C
    <3> QED BY <1>2, <1>7, WordsChange
  <2>2. \A h \in Owners : h[4] \in Frames
    BY OwnerIs DEF Sound
  <2>3. \A h : h = <<p, "page", i * Entries + e, None>> => h[4] \notin Frames
    BY Names
  <2>4. \A h : (\A c \in C : h # PageOwner(c[1], c[2], c[3])) <=> h # g0
    BY DEF PageOwner
  <2>5. \A h : (\E c \in C : h = <<c[1], "page", c[2] * Entries + c[3], None>>)
               <=> h = <<p, "page", i * Entries + e, None>>
    OBVIOUS
  <2> HIDE DEF g0, C, i, e
  <2> QED BY <2>1, <2>2, <2>3, <2>4, <2>5, Zenon
<1>9. Apart(Owners', free')
  <2>1. \A g, h \in Owners' : g[4] = h[4] => g = h
    BY <1>8, Zenon DEF Sound, Apart
  <2>2. ASSUME NEW h \in Owners' PROVE h[4] \notin free /\ h[4] # f
    <3>1. h \in Owners /\ h # g0
      BY <1>8
    <3> HIDE DEF g0, f
    <3> QED BY <1>5, <3>1, TwoApart DEF Sound
  <2>3. free' = free \cup {f}
    BY <1>1 DEF TableOf
  <2> HIDE DEF f
  <2> QED BY <2>1, <2>2, <2>3 DEF Apart
<1>10. Lost' \ Lost \subseteq {}
  <2>1. \A x \in free : x \in free'
    BY <1>1
  <2>2. \A h \in Owners : h[4] \in free' \/ \E g \in Owners' : g[4] = h[4]
    <3>1. free' = free \cup {f}
      BY <1>1 DEF TableOf
    <3> HIDE DEF f, g0
    <3> QED BY <1>5, <1>8, <3>1
  <2> QED BY <2>1, <2>2, LostIs
<1>11. /\ free' \subseteq Frames /\ pde' \in PdeSet
       /\ proc' \in [Procs -> SUBSET Frames]
       /\ files' \in [Procs -> [Fds -> Frames \cup {None}]]
  <2>1. free' = free \cup {f}
    BY <1>1 DEF TableOf
  <2> HIDE DEF f
  <2> QED BY <1>2, <1>4, <2>1, TypesAre DEF Sound
<1> QED BY <1>7, <1>8, <1>9, <1>10, <1>11, Zenon DEF Good

---------------------------------------------------------------------------
\* A page is mapped: either over what was mapped there, which gets lost, or for the first
\* time, with its table or without memory for one.  The last case loses the page too.
MappedOver(d, v) == IF Maps(d, v) THEN {mem[TableOf(d, v)][Entry(v)]} ELSE {}
NoTableFor(d, v, f) == IF TableOf(d, v) \notin Frames /\ free' = {} THEN {f} ELSE {}

LEMMA InTableIsGood ==
  ASSUME Sound, NEW d \in Dirs, NEW v \in Nat, InUse(d, Table(v)), NEW f \in free,
         InTable(d, v, f, free \ {f}), UNCHANGED <<proc, files>>
  PROVE  /\ Good(MappedOver(d, v)) /\ UNCHANGED pde
         /\ \A c \in Dirs, j \in Tables, x \in Words : InUse(c, j) =>
              mem'[pde[c][j]][x] = IF c = d /\ j = Table(v) /\ x = Entry(v) THEN f
                                   ELSE mem[pde[c][j]][x]
<1> DEFINE i == Table(v)
           e == Entry(v)
           g0 == PageOwner(d, i, e)
           g1 == <<d, "page", i * Entries + e, f>>
           C == {<<d, i, e>>}
<1>1. i \in Tables /\ e \in Words
  BY TableAtType, PageSplit DEF InUse, Words
<1>2. f \in Frames /\ mem \in MemSet /\ pde[d][i] \in Frames
  BY TypesAre DEF Sound, InUse
<1>3. free' = free \ {f} /\ UNCHANGED pde
      /\ mem' = [[mem EXCEPT ![f] = Data] EXCEPT ![pde[d][i]][e] = f]
  BY DEF InTable, TableOf
<1>4. \A c \in Dirs, j \in Tables : InUse(c, j) => pde[c][j] # f
  BY TablesApart DEF Sound
<1>5. mem' \in MemSet /\ Written(C, f)
  <2> HIDE DEF i, e
  <2>1. f \in Frames \cup {None} /\ InUse(d, i)
    BY <1>2 DEF i
  <2> QED BY <1>1, <1>2, <1>3, <1>4, <2>1, OneWord
<1>6. TableInv' /\ \A h : h \in Owners' <=> (h \in Owners /\ h # g0) \/ h = g1
  <2>1. /\ TableInv'
        /\ \A h : h \in Owners' <=>
              /\ h[4] \in Frames
              /\ \/ h \in Owners /\ \A c \in C : h # PageOwner(c[1], c[2], c[3])
                 \/ \E c \in C : h = <<c[1], "page", c[2] * Entries + c[3], f>>
    <3> HIDE DEF C
    <3> QED BY <1>3, <1>5, WordsChange
  <2>2. \A h \in Owners : h[4] \in Frames
    BY OwnerIs DEF Sound
  <2>3. g1[4] \in Frames
    BY <1>2
  <2>4. \A h : (\A c \in C : h # PageOwner(c[1], c[2], c[3])) <=> h # g0
    BY DEF PageOwner
  <2>5. \A h : (\E c \in C : h = <<c[1], "page", c[2] * Entries + c[3], f>>) <=> h = g1
    OBVIOUS
  <2> HIDE DEF g0, g1, C, i, e
  <2> QED BY <2>1, <2>2, <2>3, <2>4, <2>5
<1>7. Apart(Owners', free')
  <2> DEFINE N == {g1}
  <2>1. Joined(Owners', Owners, N)
    <3> HIDE DEF g0, g1
    <3> QED BY <1>6 DEF Joined
  <2>2. Taken(N, free, free')
    BY <1>3 DEF Taken
  <2>3. \A h \in Owners' : h \in Owners /\ h[4] \notin free => h[4] \notin free'
    BY <1>3
  <2> HIDE DEF N
  <2> QED BY <2>1, <2>2, <2>3, OwnersApart DEF Sound
<1>8. Lost' \ Lost \subseteq MappedOver(d, v)
  <2> DEFINE X == MappedOver(d, v)
  <2>0. g1 \in Owners' /\ g1[4] = f
    <3>1. g1[4] = f
      OBVIOUS
    <3> HIDE DEF g0, g1
    <3> QED BY <1>6, <3>1
  <2>1. \A y \in free : y \in free' \/ \E g \in Owners' : g[4] = y
    <3> HIDE DEF g1
    <3> QED BY <1>3, <2>0
  <2>2. ASSUME NEW h \in Owners PROVE h[4] \in X \/ \E g \in Owners' : g[4] = h[4]
    <3>1. CASE h = g0
      <4>1. h[4] = mem[pde[d][i]][e]
        BY <3>1 DEF PageOwner
      <4>2. h[4] \in Frames /\ None \notin Frames
        BY OwnerIs, Names DEF Sound
      <4>3. h[4] \in X
        BY <1>2, <4>1, <4>2 DEF MappedOver, Maps, TableOf
      <4> QED BY <4>3
    <3>2. CASE h # g0
      <4> HIDE DEF g0
      <4> QED BY <1>6, <3>2
    <3> QED BY <3>1, <3>2
  <2> HIDE DEF X
  <2>3. Lost' \ Lost \subseteq X
    BY <2>1, <2>2, LostIs
  <2> QED BY <2>3 DEF X
<1>9. /\ free' \subseteq Frames /\ pde' \in PdeSet
      /\ proc' \in [Procs -> SUBSET Frames]
      /\ files' \in [Procs -> [Fds -> Frames \cup {None}]]
  BY <1>3, TypesAre DEF Sound
<1>10. Good(MappedOver(d, v))
  BY <1>5, <1>6, <1>7, <1>8, <1>9, Zenon DEF Good
<1>11. ASSUME NEW c \in Dirs, NEW j \in Tables, NEW x \in Words, InUse(c, j)
       PROVE  mem'[pde[c][j]][x] = IF c = d /\ j = i /\ x = e THEN f ELSE mem[pde[c][j]][x]
  <2>1. <<c, j, x>> \in C <=> c = d /\ j = i /\ x = e
    OBVIOUS
  <2>2. mem'[pde[c][j]][x] = IF <<c, j, x>> \in C THEN f ELSE mem[pde[c][j]][x]
    <3> HIDE DEF C
    <3> QED BY <1>5, <1>11, Zenon DEF Written
  <2> HIDE DEF C, i, e
  <2> QED BY <2>1, <2>2
<1> HIDE DEF g0, g1, C
<1> QED BY <1>3, <1>10, <1>11

\* The page of a new table.
LEMMA InNewTableIsGood ==
  ASSUME Sound, NEW d \in Dirs, NEW v \in Nat, TableAt(d, Table(v)),
         pde[d][Table(v)] \notin Frames, d = Kernel => pde[d][Table(v)] # Big,
         NEW f \in free, InNewTable(d, v, f, free \ {f}), UNCHANGED <<proc, files>>
  PROVE  /\ Good(NoTableFor(d, v, f))
         /\ \A c \in Dirs, j \in Tables : InUse(c, j) =>
              pde'[c][j] = pde[c][j] /\ mem'[pde[c][j]] = mem[pde[c][j]]
         /\ \A c \in Dirs, j \in Tables :
              pde'[c][j] = pde[c][j] \/ (c = d /\ pde'[c][j] \in Frames)
         /\ Maps(d, v)' \/ (UNCHANGED pde /\ free' = {})
<1> DEFINE i == Table(v)
           e == Entry(v)
<1>1. i \in Tables /\ i \in Nat /\ e \in Words
  BY TableAtType, PageSplit DEF Words
<1>2. /\ free \subseteq Frames /\ mem \in MemSet /\ pde \in PdeSet /\ f \in Frames
      /\ proc' \in [Procs -> SUBSET Frames]
      /\ files' \in [Procs -> [Fds -> Frames \cup {None}]]
  BY TypesAre DEF Sound
<1>3. \A c \in Dirs, j \in Tables : InUse(c, j) => pde[c][j] \notin free /\ pde[c][j] \in Frames
  BY TablesApart DEF Sound, InUse
<1>4. CASE free' = {} /\ mem' = [mem EXCEPT ![f] = Data] /\ UNCHANGED pde /\ free \ {f} = {}
  <2>1. mem' \in MemSet /\ \A g \in Frames : g # f => mem'[g] = mem[g]
    <3>1. mem' = [mem EXCEPT ![f] = Data]
      BY <1>4
    <3> QED BY <1>2, <3>1 DEF MemSet
  <2>2. \A c \in Dirs, j \in Tables : InUse(c, j) =>
              pde'[c][j] = pde[c][j] /\ mem'[pde[c][j]] = mem[pde[c][j]]
    BY <1>3, <1>4, <2>1
  <2>3. KeepsTables
    BY <1>4, <2>2 DEF KeepsTables, InUse
  <2>4. TableInv' /\ \A h : h \in Owners' <=> Has(h, proc', files', pde, mem)
    BY <2>3, TablesKept
  <2>5. \A h : h \in Owners' <=> h \in Owners
    <3>1. \A h : h \in Owners' <=> Has(h, proc, files, pde, mem)
      BY <2>4
    <3> QED BY <3>1, OwnersAre, Zenon
  <2>6. Apart(Owners', free')
    BY <1>4, <2>5, Zenon DEF Sound, Apart
  <2>7. Lost' \ Lost \subseteq NoTableFor(d, v, f)
    <3> DEFINE X == NoTableFor(d, v, f)
    <3>1. f \in X
      BY <1>4 DEF NoTableFor, TableOf
    <3>2. \A g \in free : g \in X
      BY <1>4, <3>1
    <3>3. \A h \in Owners : \E g \in Owners' : g[4] = h[4]
      BY <2>5, Zenon
    <3> HIDE DEF X
    <3>4. Lost' \ Lost \subseteq X
      BY <3>2, <3>3, LostIs
    <3> QED BY <3>4 DEF X
  <2>8. free' \subseteq Frames /\ pde' \in PdeSet
    BY <1>2, <1>4
  <2>9. Good(NoTableFor(d, v, f))
    BY <1>2, <2>1, <2>4, <2>6, <2>7, <2>8, Zenon DEF Good
  <2> QED BY <1>4, <2>2, <2>9
<1>5. ASSUME NEW t \in Pick(free \ {f}), free' = (free \ {f}) \ {t},
             mem' = [mem EXCEPT ![f] = Data, ![t] = [Blank EXCEPT ![e] = f]],
             pde' = [pde EXCEPT ![d][i] = t]
      PROVE  /\ Good(NoTableFor(d, v, f))
             /\ \A c \in Dirs, j \in Tables : InUse(c, j) =>
                  pde'[c][j] = pde[c][j] /\ mem'[pde[c][j]] = mem[pde[c][j]]
             /\ \A c \in Dirs, j \in Tables :
                  pde'[c][j] = pde[c][j] \/ (c = d /\ pde'[c][j] \in Frames)
             /\ Maps(d, v)'
  <2>1. t \in free /\ t # f /\ t \in Frames
    BY <1>2, PickIs
  <2>2. /\ mem' \in MemSet /\ mem'[t] # Data
        /\ \A g \in Frames : g # t /\ g # f => mem'[g] = mem[g]
        /\ \A x \in Words : mem'[t][x] = IF x = e THEN f ELSE None
    <3> HIDE DEF e
    <3>1. e \in Words /\ mem \in MemSet /\ f \in Frames /\ t \in Frames /\ t # f
      BY <1>1, <1>2, <2>1
    <3>2. mem' = [mem EXCEPT ![f] = Data, ![t] = [Blank EXCEPT ![e] = f]]
      BY <1>5
    <3> DEFINE new == [Blank EXCEPT ![e] = f]
    <3>3. new \in [Words -> Frames \cup {None}]
          /\ \A x \in Words : new[x] = IF x = e THEN f ELSE None
      <4>1. Blank \in [Words -> Frames \cup {None}] /\ \A x \in Words : Blank[x] = None
        BY Names
      <4> HIDE DEF Blank
      <4> QED BY <3>1, <4>1
    <3>4. new # Data
      BY <3>3, Names
    <3>5. mem' = [mem EXCEPT ![f] = Data, ![t] = new]
      BY <3>2
    <3> HIDE DEF new
    <3>6. mem' \in MemSet /\ mem'[t] = new /\ \A g \in Frames : g # t /\ g # f => mem'[g] = mem[g]
      BY <3>1, <3>3, <3>5 DEF MemSet
    <3> QED BY <3>3, <3>4, <3>6
  <2>3. /\ pde' \in PdeSet /\ pde'[d][i] = t
        /\ \A c \in Dirs, j \in Tables : c # d \/ j # i => pde'[c][j] = pde[c][j]
    <3> HIDE DEF i
    <3>1. pde \in PdeSet /\ i \in Tables /\ t \in Frames
      BY <1>1, <1>2, <2>1
    <3>2. pde' = [pde EXCEPT ![d][i] = t]
      BY <1>5
    <3> QED BY <3>1, <3>2 DEF PdeSet
  <2>4. \A c \in Dirs, j \in Tables : InUse(c, j) => c # d \/ j # i
    BY DEF InUse
  <2>5. \A c \in Dirs, j \in Tables : InUse(c, j) =>
          pde'[c][j] = pde[c][j] /\ mem'[pde[c][j]] = mem[pde[c][j]]
    <3> HIDE DEF i
    <3> QED BY <1>3, <2>1, <2>2, <2>3, <2>4
  <2>6. \A c \in Dirs, j \in Tables :
          pde'[c][j] = pde[c][j] \/ (c = d /\ pde'[c][j] \in Frames)
    <3> HIDE DEF i
    <3> QED BY <2>1, <2>3
  <2>7. Maps(d, v)'
    BY <1>1, <1>2, <2>1, <2>2, <2>3, Names DEF Maps, TableOf
  <2>8. TableInv'
    <3>1. \A j \in UserTables : TableAt(Kernel, j) /\ j \in Tables
      BY Names DEF TableAt
    <3>2. \A j \in UserTables : pde'[Kernel][j] = Big
      <4>1. Kernel \in Dirs
        BY DEF Dirs
      <4> HIDE DEF i
      <4> QED BY <2>3, <3>1, <4>1 DEF Sound, TableInv, i
    <3>3. \A p \in Procs, j \in UserTables : pde'[p][j] # None
      <4>1. \A p \in Procs : p \in Dirs
        BY DEF Dirs
      <4> QED BY <2>6, <3>1, <4>1, Names DEF Sound, TableInv
    <3>4. ASSUME NEW c \in Dirs, NEW j \in Tables, TableAt(c, j), pde'[c][j] \in Frames
          PROVE  mem'[pde'[c][j]] # Data
      <4>1. CASE c = d /\ j = i
        BY <2>2, <2>3, <4>1
      <4>2. CASE ~(c = d /\ j = i)
        <5>1. pde'[c][j] = pde[c][j]
          <6> HIDE DEF i
          <6> QED BY <2>3, <4>2
        <5>2. InUse(c, j)
          BY <3>4, <5>1 DEF InUse
        <5>3. mem[pde[c][j]] # Data
          BY <3>4, <5>1 DEF Sound, TableInv, Dirs
        <5> QED BY <2>5, <5>1, <5>2, <5>3
      <4> QED BY <4>1, <4>2
    <3> QED BY <3>2, <3>3, <3>4 DEF TableInv, Dirs
  <2> DEFINE ht == <<d, "table", i, t>>
             hp == <<d, "page", i * Entries + e, f>>
             N  == {ht, hp}
  <2>9. ASSUME NEW h, h[4] \in Frames
        PROVE  IsTable(h, pde') <=> IsTable(h, pde) \/ h = ht
    <3>1. IsTable(h, pde') <=> \E c \in Dirs, j \in Tables :
            TableAt(c, j) /\ h = <<c, "table", j, pde'[c][j]>>
      BY Zenon DEF IsTable, Dirs
    <3>2. IsTable(h, pde) <=> \E c \in Dirs, j \in Tables :
            TableAt(c, j) /\ h = <<c, "table", j, pde[c][j]>>
      BY Zenon DEF IsTable, Dirs
    <3>3. \A c, j, x : h = <<c, "table", j, x>> => x \in Frames
      BY <2>9
    <3>4. pde[d][i] \notin Frames
      OBVIOUS
    <3> HIDE DEF i
    <3>5. ASSUME IsTable(h, pde') PROVE IsTable(h, pde) \/ h = ht
      <4>1. PICK c \in Dirs, j \in Tables : TableAt(c, j) /\ h = <<c, "table", j, pde'[c][j]>>
        BY <3>1, <3>5
      <4> QED BY <2>3, <3>2, <4>1
    <3>6. ASSUME IsTable(h, pde) PROVE IsTable(h, pde')
      <4>1. PICK c \in Dirs, j \in Tables : TableAt(c, j) /\ h = <<c, "table", j, pde[c][j]>>
        BY <3>2, <3>6
      <4>2. c # d \/ j # i
        BY <3>3, <3>4, <4>1
      <4>3. pde'[c][j] = pde[c][j]
        BY <2>3, <4>2
      <4> QED BY <3>1, <4>1, <4>3
    <3>7. ASSUME h = ht PROVE IsTable(h, pde')
      <4>1. TableAt(d, i)
        BY DEF i
      <4> QED BY <1>1, <2>3, <3>1, <3>7, <4>1
    <3> HIDE DEF ht
    <3> QED BY <3>5, <3>6, <3>7
  <2>10. ASSUME NEW h, h[4] \in Frames
         PROVE  IsPage(h, pde', mem') <=> IsPage(h, pde, mem) \/ h = hp
    <3>1. IsPage(h, pde', mem') <=>
            \E c \in Dirs, j \in Tables, x \in Words :
              /\ TableAt(c, j) /\ pde'[c][j] \in Frames
              /\ h = <<c, "page", j * Entries + x, mem'[pde'[c][j]][x]>>
      BY Zenon DEF IsPage, Dirs, Words
    <3>2. IsPage(h, pde, mem) <=>
            \E c \in Dirs, j \in Tables, x \in Words :
              /\ InUse(c, j) /\ h = <<c, "page", j * Entries + x, mem[pde[c][j]][x]>>
      BY Zenon DEF IsPage, Dirs, Words, InUse
    <3>3. None \notin Frames
      BY Names
    <3> HIDE DEF i, e
    <3>4. ASSUME IsPage(h, pde', mem') PROVE IsPage(h, pde, mem) \/ h = hp
      <4>1. PICK c \in Dirs, j \in Tables, x \in Words :
              /\ TableAt(c, j) /\ pde'[c][j] \in Frames
              /\ h = <<c, "page", j * Entries + x, mem'[pde'[c][j]][x]>>
        BY <3>1, <3>4
      <4>2. CASE c = d /\ j = i
        <5>1. h[4] = mem'[t][x]
          BY <2>3, <4>1, <4>2
        <5>2. x = e /\ mem'[t][x] = f
          BY <2>2, <2>10, <3>3, <5>1
        <5> QED BY <2>3, <4>1, <4>2, <5>2
      <4>3. CASE ~(c = d /\ j = i)
        <5>1. pde'[c][j] = pde[c][j]
          BY <2>3, <4>3
        <5>2. InUse(c, j)
          BY <4>1, <5>1 DEF InUse
        <5> QED BY <2>5, <3>2, <4>1, <5>1, <5>2
      <4> QED BY <4>2, <4>3
    <3>5. ASSUME IsPage(h, pde, mem) PROVE IsPage(h, pde', mem')
      <4>1. PICK c \in Dirs, j \in Tables, x \in Words :
              /\ InUse(c, j) /\ h = <<c, "page", j * Entries + x, mem[pde[c][j]][x]>>
        BY <3>2, <3>5
      <4>2. TableAt(c, j) /\ pde[c][j] \in Frames
        BY <4>1 DEF InUse
      <4>3. pde'[c][j] = pde[c][j] /\ mem'[pde[c][j]] = mem[pde[c][j]]
        BY <2>5, <4>1
      <4>4. /\ TableAt(c, j) /\ pde'[c][j] \in Frames
            /\ h = <<c, "page", j * Entries + x, mem'[pde'[c][j]][x]>>
        BY <4>1, <4>2, <4>3
      <4> QED BY <3>1, <4>4
    <3>6. ASSUME h = hp PROVE IsPage(h, pde', mem')
      <4>1. TableAt(d, i)
        BY DEF i
      <4>2. /\ TableAt(d, i) /\ pde'[d][i] \in Frames
            /\ h = <<d, "page", i * Entries + e, mem'[pde'[d][i]][e]>>
        BY <1>1, <2>1, <2>2, <2>3, <3>6, <4>1
      <4> QED BY <1>1, <3>1, <4>2
    <3> HIDE DEF hp
    <3> QED BY <3>4, <3>5, <3>6
  <2>11. ht[4] = t /\ hp[4] = f /\ ht # hp
    OBVIOUS
  <2>12. \A h : h \in Owners' <=> h \in Owners \/ h \in N
    <3> SUFFICES ASSUME NEW h PROVE h \in Owners' <=> h \in Owners \/ h \in N
      OBVIOUS
    <3>1. h \in Owners' <=> Has(h, proc', files', pde', mem')
      BY OwnersAre, Zenon
    <3>2. h \in Owners <=> Has(h, proc, files, pde, mem)
      BY OwnersAre, Zenon
    <3>3. proc' = proc /\ files' = files
      OBVIOUS
    <3>4. h \in N => h[4] \in Frames
      BY <1>2, <2>1, <2>11
    <3> HIDE DEF ht, hp
    <3> QED BY <2>9, <2>10, <3>1, <3>2, <3>3, <3>4 DEF Has
  <2>13. Apart(Owners', free')
    <3>1. Joined(Owners', Owners, N)
      <4> HIDE DEF N
      <4> QED BY <2>12 DEF Joined
    <3>2. Taken(N, free, free')
      <4> HIDE DEF ht, hp
      <4> QED BY <1>5, <2>1, <2>11 DEF Taken
    <3>3. \A h \in Owners' : h \in Owners /\ h[4] \notin free => h[4] \notin free'
      BY <1>5
    <3> HIDE DEF N
    <3> QED BY <3>1, <3>2, <3>3, OwnersApart DEF Sound
  <2>14. Lost' \ Lost \subseteq NoTableFor(d, v, f)
    <3> DEFINE X == NoTableFor(d, v, f)
    <3> HIDE DEF X, ht, hp
    <3>1. \A y \in free : y \in free' \/ \E g \in Owners' : g[4] = y
      <4>1. ht \in Owners' /\ hp \in Owners'
        BY <2>12
      <4>2. \A y \in free : y \in free' \/ y = t \/ y = f
        BY <1>5
      <4> QED BY <2>11, <4>1, <4>2
    <3>2. \A h \in Owners : \E g \in Owners' : g[4] = h[4]
      BY <2>12
    <3>3. Lost' \ Lost \subseteq X
      BY <3>1, <3>2, LostIs
    <3> QED BY <3>3 DEF X
  <2>15. free' \subseteq Frames
    BY <1>2, <1>5
  <2>16. Good(NoTableFor(d, v, f))
    BY <1>2, <2>2, <2>3, <2>8, <2>13, <2>14, <2>15, Zenon DEF Good
  <2> QED BY <2>5, <2>6, <2>7, <2>16
<1>6. \/ free' = {} /\ mem' = [mem EXCEPT ![f] = Data] /\ UNCHANGED pde /\ free \ {f} = {}
      \/ \E t \in Pick(free \ {f}) :
            /\ free' = (free \ {f}) \ {t}
            /\ mem' = [mem EXCEPT ![f] = Data, ![t] = [Blank EXCEPT ![e] = f]]
            /\ pde' = [pde EXCEPT ![d][i] = t]
  BY Zenon DEF InNewTable
<1> HIDE DEF i, e
<1> QED BY <1>4, <1>5, <1>6

---------------------------------------------------------------------------
\* Pages of the kernel's heap are given back: those that are mapped, and no others.
HeapPages == KernelHeap .. KernelHeap + MaxKernelPages - 1

LEMMA GiveIsGood ==
  ASSUME MemoryBelowHeap, Sound, KernelInv, NEW vs, vs \subseteq HeapPages,
         Give(vs), UNCHANGED <<pde, proc, files>>
  PROVE  Good({})
<1> DEFINE mapped == {v \in vs : Maps(Kernel, v)}
           Word(v) == mem[TableOf(Kernel, v)][Entry(v)]
           bigs   == {v \in vs \cap Frames : TableOf(Kernel, v) = Big}
           gone   == {Word(v) : v \in mapped} \cup bigs
           C      == {<<Kernel, Table(v), Entry(v)>> : v \in mapped}
           Owner(v) == PageOwner(Kernel, Table(v), Entry(v))
           N      == {Owner(v) : v \in mapped}
<1>1. /\ free \subseteq Frames /\ mem \in MemSet /\ pde \in PdeSet
      /\ proc' \in [Procs -> SUBSET Frames]
      /\ files' \in [Procs -> [Fds -> Frames \cup {None}]]
  BY TypesAre DEF Sound
<1>2. \A v \in vs : v \in Nat /\ Table(v) \in Tables /\ Entry(v) \in Words /\ TableAt(Kernel, Table(v))
  <2>1. \A v \in HeapPages : v \in Nat
    BY LayoutAssumption DEF HeapPages
  <2>2. \A v \in HeapPages : Table(v) \in Tables
    BY LayoutAssumption DEF HeapPages, Table
  <2> QED BY <2>1, <2>2, PageSplit DEF Words, TableAt
<1>3. bigs = {}
  <2>1. \A v \in vs : TableOf(Kernel, v) = Big => v \notin Frames
    BY <1>2 DEF MemoryBelowHeap, KernelInv, TableOf, HeapPages
  <2> QED BY <2>1
<1>4. /\ free' = free \cup gone
      /\ mem' = [f \in Frames |->
                   IF f \in gone THEN Freed(gone)[f]
                   ELSE IF mem[f] = Data THEN Data
                   ELSE [x \in Words |->
                           IF \E v \in mapped : TableOf(Kernel, v) = f /\ Entry(v) = x
                           THEN None ELSE mem[f][x]]]
  BY DEF Give, Words
<1>5. \A v \in mapped : v \in vs /\ InUse(Kernel, Table(v)) /\ Word(v) \in Frames
                        /\ TableOf(Kernel, v) = pde[Kernel][Table(v)]
  <2> SUFFICES ASSUME NEW v \in vs, Maps(Kernel, v)
               PROVE  InUse(Kernel, Table(v)) /\ Word(v) \in Frames
                      /\ TableOf(Kernel, v) = pde[Kernel][Table(v)]
    OBVIOUS
  <2>1. TableOf(Kernel, v) = pde[Kernel][Table(v)] /\ TableOf(Kernel, v) \in Frames /\ Word(v) # None
    BY DEF Maps, TableOf
  <2>2. InUse(Kernel, Table(v))
    BY <1>2, <2>1 DEF InUse
  <2>3. mem[TableOf(Kernel, v)] # Data
    BY <1>2, <2>1, Names DEF Sound, TableInv
  <2>4. Word(v) \in Frames
    BY <1>1, <1>2, <2>1, <2>3 DEF MemSet
  <2> QED BY <2>1, <2>2, <2>4
<1> HIDE DEF mapped
<1>6. \A v \in mapped : Owner(v) \in Owners /\ Owner(v)[4] = Word(v)
  <2>1. \A v \in mapped : Owner(v)[4] = Word(v)
    BY <1>5 DEF PageOwner
  <2>2. \A v \in mapped : Entry(v) \in Words /\ InUse(Kernel, Table(v))
                          /\ mem[pde[Kernel][Table(v)]][Entry(v)] \in Frames
    BY <1>2, <1>5
  <2>3. \A v \in mapped : Owner(v) \in Owners
    BY <2>2, AreOwners DEF Sound
  <2> QED BY <2>1, <2>3
<1>7. \A f : f \in gone <=> \E v \in mapped : f = Word(v)
  BY <1>3
<1> HIDE DEF bigs, gone
<1>8. \A d, i : InUse(d, i) => pde[d][i] \notin gone
  <2> SUFFICES ASSUME NEW d, NEW i, InUse(d, i), NEW v \in mapped, pde[d][i] = Word(v) PROVE FALSE
    BY <1>7
  <2>1. Entry(v) \in Words /\ InUse(Kernel, Table(v)) /\ Word(v) \in Frames
        /\ Word(v) = mem[pde[Kernel][Table(v)]][Entry(v)]
    BY <1>2, <1>5
  <2> QED BY <2>1, TablesApart DEF Sound
<1>9. mem' \in MemSet
  <2>1. Freed(gone) \in MemSet
    BY <1>1, FreedIs
  <2>2. \A f \in Frames : Freed(gone)[f] \in {Data} \cup [Words -> Frames \cup {None}]
    BY <2>1 DEF MemSet
  <2>3. ASSUME NEW f \in Frames, mem[f] # Data
        PROVE  [x \in Words |-> IF \E v \in mapped : TableOf(Kernel, v) = f /\ Entry(v) = x
                                THEN None ELSE mem[f][x]] \in [Words -> Frames \cup {None}]
    BY <1>1, <2>3 DEF MemSet
  <2> QED BY <1>4, <2>2, <2>3 DEF MemSet
<1>10. Written(C, None)
  <2>1. C \subseteq Dirs \X Tables \X Words /\ \A c \in C : InUse(c[1], c[2])
    BY <1>2, <1>5 DEF Dirs
  <2>2. ASSUME NEW d \in Dirs, NEW i \in Tables, InUse(d, i)
        PROVE  /\ mem'[pde[d][i]] # Data
               /\ \A x \in Words : mem'[pde[d][i]][x] =
                                     IF <<d, i, x>> \in C THEN None ELSE mem[pde[d][i]][x]
    <3>1. pde[d][i] \in Frames /\ pde[d][i] \notin gone /\ mem[pde[d][i]] # Data
      BY <1>8, <2>2 DEF InUse, Sound, TableInv, Dirs
    <3>2. mem'[pde[d][i]] = [x \in Words |->
             IF \E v \in mapped : TableOf(Kernel, v) = pde[d][i] /\ Entry(v) = x
             THEN None ELSE mem[pde[d][i]][x]]
      BY <1>4, <3>1
    <3>3. mem'[pde[d][i]] # Data
      <4>1. mem'[pde[d][i]] \in [Words -> Frames \cup {None}]
        BY <1>1, <3>1, <3>2 DEF MemSet
      <4> QED BY <4>1, Names
    <3>4. ASSUME NEW x \in Words
          PROVE  (\E v \in mapped : TableOf(Kernel, v) = pde[d][i] /\ Entry(v) = x)
                   <=> <<d, i, x>> \in C
      <4>1. \A v \in mapped : TableOf(Kernel, v) = pde[d][i] <=> d = Kernel /\ i = Table(v)
        BY <1>5, <2>2, TablesApart DEF Sound
      <4> QED BY <4>1
    <3> HIDE DEF C
    <3> QED BY <3>2, <3>3, <3>4
  <2> HIDE DEF C
  <2> QED BY <2>1, <2>2, Zenon DEF Written
<1>11. TableInv' /\ \A h : h \in Owners' <=> h \in Owners /\ h \notin N
  <2>1. /\ TableInv'
        /\ \A h : h \in Owners' <=>
              /\ h[4] \in Frames
              /\ \/ h \in Owners /\ \A c \in C : h # PageOwner(c[1], c[2], c[3])
                 \/ \E c \in C : h = <<c[1], "page", c[2] * Entries + c[3], None>>
    <3> HIDE DEF C
    <3> QED BY <1>10, WordsChange
  <2>2. \A h \in Owners : h[4] \in Frames
    BY OwnerIs DEF Sound
  <2>3. \A h : (\E c \in C : h = <<c[1], "page", c[2] * Entries + c[3], None>>) => h[4] \notin Frames
    <3> HIDE DEF C
    <3> QED BY Names
  <2>4. ASSUME NEW h PROVE (\A c \in C : h # PageOwner(c[1], c[2], c[3])) <=> h \notin N
    <3> DEFINE P(a, b, c) == h # PageOwner(a, b, c)
    <3>1. h \notin N <=> \A v \in mapped : P(Kernel, Table(v), Entry(v))
      OBVIOUS
    <3> HIDE DEF P, N
    <3>2. (\A c \in C : P(c[1], c[2], c[3])) <=> \A v \in mapped : P(Kernel, Table(v), Entry(v))
      <4> DEFINE T(v) == <<Kernel, Table(v), Entry(v)>>
      <4>1. \A v : T(v)[1] = Kernel /\ T(v)[2] = Table(v) /\ T(v)[3] = Entry(v)
        OBVIOUS
      <4>2. \A c : c \in C <=> \E v \in mapped : c = T(v)
        OBVIOUS
      <4> HIDE DEF T, C
      <4> QED BY <4>1, <4>2
    <3> QED BY <3>1, <3>2 DEF P
  <2> HIDE DEF C, N
  <2> QED BY <2>1, <2>2, <2>3, <2>4, Zenon
<1>12. Apart(Owners', free')
  <2>1. \A g, h \in Owners' : g[4] = h[4] => g = h
    BY <1>11, Zenon DEF Sound, Apart
  <2>2. ASSUME NEW h \in Owners' PROVE h[4] \notin free /\ h[4] \notin gone
    <3>1. h \in Owners /\ h \notin N
      BY <1>11
    <3>2. h[4] \notin free
      BY <3>1, Zenon DEF Sound, Apart
    <3>3. ASSUME NEW v \in mapped, h[4] = Word(v) PROVE FALSE
      <4>1. Owner(v) \in N /\ Owner(v) \in Owners /\ Owner(v)[4] = h[4]
        BY <1>6, <3>3
      <4> HIDE DEF Owner, N
      <4> QED BY <3>1, <4>1, Zenon DEF Sound, Apart
    <3> QED BY <1>7, <3>2, <3>3
  <2> QED BY <1>4, <2>1, <2>2 DEF Apart
<1>13. Lost' \ Lost \subseteq {}
  <2>1. \A f \in free : f \in free'
    BY <1>4
  <2>2. ASSUME NEW h \in Owners PROVE h[4] \in free' \/ \E g \in Owners' : g[4] = h[4]
    <3>1. CASE h \in N
      <4>1. PICK v \in mapped : h = Owner(v)
        BY <3>1
      <4>2. h[4] \in gone
        BY <1>6, <1>7, <4>1
      <4> QED BY <1>4, <4>2
    <3>2. CASE h \notin N
      <4> HIDE DEF N
      <4> QED BY <1>11, <3>2
    <3> QED BY <3>1, <3>2
  <2> QED BY <2>1, <2>2, LostIs
<1>14. free' \subseteq Frames /\ pde' \in PdeSet
  BY <1>1, <1>4, <1>5, <1>7
<1> QED BY <1>1, <1>9, <1>11, <1>12, <1>13, <1>14, Zenon DEF Good

---------------------------------------------------------------------------
\* What a step has to show: the invariant, and that what got lost was bound to.
Steps == IInv' /\ (~spoiled' => Lost' \ Lost \subseteq MayBeLost)
Rest  == /\ heap_brk \in [Procs -> HeapBase * Unit .. MaxBrk]
         /\ next_virt \in KernelHeap .. KernelHeap + MaxKernelPages
         /\ spoiled \in BOOLEAN /\ KernelInv
Going == IInv /\ ~spoiled

LEMMA GoingIs ==
  Going => /\ Sound /\ Rest /\ EmptyInv /\ CallInv /\ TypeOK /\ KernelInv
           /\ Apart(Owners, free) /\ TableInv
BY Zenon DEF Going, IInv, SoundInv, Sound, Rest, TypeOK

LEMMA Combines ==
  ASSUME NEW X, Good(X), Rest', ~spoiled' => EmptyInv' /\ CallInv' /\ X \subseteq MayBeLost
  PROVE  Steps
<1>1. TypeOK'
  BY DEF Good, Rest, TypeOK, MemSet, PdeSet, Words, Dirs
<1>2. IInv'
  BY <1>1, Zenon DEF IInv, SoundInv, Good, Rest
<1>3. ~spoiled' => Lost' \ Lost \subseteq MayBeLost
  <2> DEFINE L == Lost' \ Lost
  <2>1. L \subseteq X
    BY Zenon DEF Good
  <2> HIDE DEF L
  <2>2. ~spoiled' => L \subseteq MayBeLost
    BY <2>1
  <2> QED BY <2>2 DEF L
<1> QED BY <1>2, <1>3, Zenon DEF Steps

\* What has to be kept of the rest.
LEMMA RestKept == Rest /\ UNCHANGED <<pde, heap_brk, kernelVars, spoiled>> => Rest'
BY DEF Rest, KernelInv, kernelVars

LEMMA EmptyKept ==
  ASSUME EmptyInv, UNCHANGED proc, call'.name # "space",
         call'.name = "load" => call.name = "load" /\ call'.p = call.p /\ UNCHANGED files,
         \A q \in Procs : proc[q] = NoProc =>
           /\ \A i \in UserTables : pde'[q][i] = pde[q][i]
           /\ files'[q] = files[q]
  PROVE  EmptyInv'
BY DEF EmptyInv

LEMMA IdleCall == call' = Idle => /\ CallInv'
                                  /\ call'.name \notin {"space", "load", "brk", "alloc"}
<1> SUFFICES ASSUME call' = Idle
             PROVE  CallInv' /\ call'.name \notin {"space", "load", "brk", "alloc"}
  OBVIOUS
<1>1. /\ call'.name = "none" /\ call'.p = None /\ call'.todo = <<>> /\ call'.to = 0
      /\ call' = [name |-> "none", p |-> None, todo |-> <<>>, to |-> 0]
  BY DEF Idle
<1>2. call' \in [name : {"none", "space", "alloc"} \cup Mapping,
                 p : Procs \cup {Kernel, None}, todo : Seq(Nat), to : Nat]
  BY <1>1
<1>3. Idle' = Idle
  BY DEF Idle
<1> QED BY <1>1, <1>2, <1>3 DEF CallInv, Mapping

\* A process that runs has blocks.
LEMMA AliveIs ==
  ASSUME NEW p, Alive(p) PROVE proc[p] # NoProc
<1>1. Cardinality({}) = 0
  BY FS_EmptySet
<1> QED BY <1>1 DEF Alive, NoProc

\* Calls that end, with all as it was.
LEMMA ReturnSteps ==
  ASSUME Going, UNCHANGED <<memory, procVars, kernelVars, spoiled>>, Return
  PROVE  Steps
<1> DEFINE X == {}
<1>1. Good(X)
  BY GoingIs, NothingMoves DEF procVars
<1>2. Rest'
  BY GoingIs, RestKept DEF memory, procVars
<1>3. CallInv' /\ call'.name \notin {"space", "load", "brk", "alloc"}
  BY IdleCall DEF Return
<1>4. EmptyInv'
  BY <1>3, GoingIs, EmptyKept DEF memory, procVars
<1>5. X \subseteq MayBeLost
  OBVIOUS
<1> HIDE DEF X
<1> QED BY <1>1, <1>2, <1>3, <1>4, <1>5, Combines

\* Calls of a process that begin.
LEMMA MmapSteps ==
  ASSUME Going, NEW p \in Procs, Mmap(p) PROVE Steps
<1> DEFINE X == {}
<1>1. PICK n \in MmapPages : call' = [name |-> "mmap", p |-> p, todo |-> Run(MmapBase, n), to |-> 0]
  BY Zenon DEF Mmap, Begin
<1>2. UNCHANGED <<memory, procVars, kernelVars, spoiled>> /\ proc[p] # NoProc
  BY AliveIs DEF Mmap, Calls
<1>3. Good(X)
  BY <1>2, GoingIs, NothingMoves DEF procVars
<1>4. Rest'
  BY <1>2, GoingIs, RestKept DEF memory, procVars
<1>5. CallInv'
  <2> DEFINE s == Run(MmapBase, n)
  <2>1. n \in Nat /\ MmapBase \in Nat
    BY LayoutAssumption, PageAssumption
  <2>2. s \in Seq(Nat) /\ Len(s) = n /\ \A k \in 1 .. n : s[k] = MmapBase + k - 1
    BY <2>1, RunIs
  <2>3. \A k \in 1 .. n : Table(s[k]) \in UserTables
    BY <2>2, UserSpace
  <2>4. /\ call'.name = "mmap" /\ call'.p = p /\ call'.todo = s
        /\ call' = [name |-> "mmap", p |-> p, todo |-> s, to |-> 0]
    BY <1>1
  <2> HIDE DEF s
  <2>5. call' \in [name : {"none", "space", "alloc"} \cup Mapping,
                   p : Procs \cup {Kernel, None}, todo : Seq(Nat), to : Nat]
    BY <2>2, <2>4 DEF Mapping
  <2>6. proc'[p] # NoProc
    BY <1>2 DEF procVars
  <2> QED BY <2>2, <2>3, <2>4, <2>5, <2>6 DEF CallInv, Left, NoProc
<1>6. EmptyInv'
  BY <1>1, <1>2, GoingIs, EmptyKept DEF memory, procVars
<1>7. X \subseteq MayBeLost
  OBVIOUS
<1> HIDE DEF X
<1> QED BY <1>3, <1>4, <1>5, <1>6, <1>7, Combines

LEMMA ReadSteps ==
  ASSUME Going, NEW p \in Procs, Read(p) PROVE Steps
<1> DEFINE X == {}
<1>1. PICK v \in {StackBase, HeapBase, MmapBase} :
        \/ call' = [name |-> "read", p |-> p, todo |-> <<v>>, to |-> 0]
        \/ call' = [name |-> "read", p |-> p, todo |-> <<>>, to |-> 0]
  BY Zenon DEF Read, Begin
<1>2. UNCHANGED <<memory, procVars, kernelVars, spoiled>> /\ proc[p] # NoProc
  BY AliveIs DEF Read, Calls
<1>3. Good(X)
  BY <1>2, GoingIs, NothingMoves DEF procVars
<1>4. Rest'
  BY <1>2, GoingIs, RestKept DEF memory, procVars
<1>5. CallInv'
  <2>1. v \in Nat /\ Table(v) \in UserTables
    BY LayoutAssumption, UserSpace
  <2>2. PICK s \in Seq(Nat) : /\ call' = [name |-> "read", p |-> p, todo |-> s, to |-> 0]
                              /\ \A k \in 1 .. Len(s) : Table(s[k]) \in UserTables
    <3>1. <<v>> \in Seq(Nat) /\ \A k \in 1 .. Len(<<v>>) : Table(<<v>>[k]) \in UserTables
      BY <2>1
    <3>2. <<>> \in Seq(Nat) /\ \A k \in 1 .. Len(<<>>) : Table(<<>>[k]) \in UserTables
      OBVIOUS
    <3> QED BY <1>1, <3>1, <3>2
  <2>3. call'.name = "read" /\ call'.p = p /\ call'.todo = s
    BY <2>2
  <2>4. call' \in [name : {"none", "space", "alloc"} \cup Mapping,
                   p : Procs \cup {Kernel, None}, todo : Seq(Nat), to : Nat]
    BY <2>2 DEF Mapping
  <2>5. proc'[p] # NoProc
    BY <1>2 DEF procVars
  <2> QED BY <2>2, <2>3, <2>4, <2>5 DEF CallInv, Left, NoProc
<1>6. EmptyInv'
  BY <1>1, <1>2, GoingIs, EmptyKept DEF memory, procVars
<1>7. X \subseteq MayBeLost
  OBVIOUS
<1> HIDE DEF X
<1> QED BY <1>3, <1>4, <1>5, <1>6, <1>7, Combines

LEMMA BrkType ==
  ASSUME Rest, NEW p \in Procs
  PROVE  /\ heap_brk[p] \in Nat /\ heap_brk[p] <= MaxBrk /\ MaxBrk \in Nat /\ HeapBase \in Nat
         /\ Upto(heap_brk[p]) \in Nat /\ HeapBase <= Upto(heap_brk[p])
<1> DEFINE a == heap_brk[p]
           u == Upto(a)
<1>1. HeapBase \in Nat /\ MaxBrk \in Nat /\ Unit \in Nat \ {0}
  BY LayoutAssumption, PageAssumption
<1>2. HeapBase * Unit \in Nat
  BY <1>1
<1>3. a \in HeapBase * Unit .. MaxBrk
  BY DEF Rest
<1>4. a \in Nat /\ a <= MaxBrk /\ HeapBase * Unit <= a
  BY <1>1, <1>2, <1>3
<1>5. u \in Nat
  BY <1>4, UptoType
<1>6. a <= u * Unit
  <2> HIDE DEF a
  <2>1. u <= u
    BY <1>5
  <2> QED BY <1>4, <1>5, <2>1, UptoIs
<1>7. ASSUME ~(HeapBase <= u) PROVE FALSE
  <2> HIDE DEF a, u
  <2>1. u + 1 <= HeapBase
    BY <1>1, <1>5, <1>7
  <2>2. (u + 1) * Unit <= HeapBase * Unit
    BY <1>1, <1>5, <2>1
  <2>3. (u + 1) * Unit = u * Unit + Unit
    BY <1>1, <1>5
  <2>4. u * Unit \in Nat
    BY <1>1, <1>5
  <2> QED BY <1>1, <1>2, <1>4, <1>6, <2>2, <2>3, <2>4
<1> QED BY <1>1, <1>4, <1>5, <1>7

LEMMA MallocSteps ==
  ASSUME Going, NEW p \in Procs, Malloc(p) PROVE Steps
<1> DEFINE X == {}
           from == Upto(heap_brk[p])
<1>1. PICK n \in MallocSizes :
        /\ heap_brk[p] + n <= MaxBrk
        /\ call' = [name |-> "brk", p |-> p,
                    todo |-> Run(from, Upto(heap_brk[p] + n) - from), to |-> heap_brk[p] + n]
  BY Zenon DEF Malloc, Begin, InUserSpace
<1>2. UNCHANGED <<memory, procVars, kernelVars, spoiled>> /\ proc[p] # NoProc
  BY AliveIs DEF Malloc, Calls
<1>3. Good(X)
  BY <1>2, GoingIs, NothingMoves DEF procVars
<1>4. Rest'
  BY <1>2, GoingIs, RestKept DEF memory, procVars
<1>5. CallInv'
  <2> DEFINE to == heap_brk[p] + n
             len == Upto(to) - from
             s == Run(from, len)
  <2>1. /\ heap_brk[p] \in Nat /\ heap_brk[p] <= MaxBrk /\ MaxBrk \in Nat /\ HeapBase \in Nat
        /\ from \in Nat /\ HeapBase <= from /\ n \in Nat
    BY GoingIs, BrkType, PageAssumption
  <2>2. to \in Nat /\ heap_brk[p] <= to /\ to <= MaxBrk
    BY <1>1, <2>1
  <2>3. /\ Upto(to) \in Nat /\ from <= Upto(to) /\ Upto(to) <= Upto(MaxBrk)
        /\ Upto(MaxBrk) \in Nat
    <3> HIDE DEF to
    <3> QED BY <2>1, <2>2, UptoType, UptoGrows
  <2>4. /\ call'.name = "brk" /\ call'.p = p /\ call'.todo = s /\ call'.to = to
        /\ call' = [name |-> "brk", p |-> p, todo |-> s, to |-> to]
    BY <1>1
  <2> HIDE DEF from, to
  <2>5. len \in Nat
    BY <2>1, <2>3
  <2> HIDE DEF len
  <2>6. s \in Seq(Nat) /\ Len(s) = len /\ \A k \in 1 .. len : s[k] = from + k - 1
    BY <2>1, <2>5, RunIs
  <2>7. \A k \in 1 .. len : Table(s[k]) \in UserTables
    <3>1. \A k \in 1 .. len : from + k - 1 \in HeapBase .. Upto(MaxBrk) - 1
      BY <2>1, <2>3, <2>5 DEF len
    <3> QED BY <2>6, <3>1, UserSpace
  <2>8. call' \in [name : {"none", "space", "alloc"} \cup Mapping,
                   p : Procs \cup {Kernel, None}, todo : Seq(Nat), to : Nat]
    <3> HIDE DEF s
    <3> QED BY <2>2, <2>4, <2>6 DEF Mapping
  <2>9. BrkInv'
    <3>1. heap_brk' = heap_brk
      BY <1>2 DEF procVars
    <3>2. Upto(call'.to) - Len(call'.todo) = from
      BY <2>1, <2>3, <2>4, <2>6 DEF len
    <3>3. NextBrk' = from /\ Left' = len
      BY <2>4, <2>6, <3>2 DEF NextBrk, Left, Upto
    <3>4. Upto(heap_brk'[call'.p]) = from
      BY <2>4, <3>1 DEF from
    <3>5. \A v \in from .. from - 1 : FALSE
      BY <2>1
    <3> QED BY <2>1, <2>2, <2>4, <3>1, <3>3, <3>4, <3>5 DEF BrkInv, Upto
  <2>10. proc'[p] # NoProc
    BY <1>2 DEF procVars
  <2> QED BY <2>4, <2>6, <2>7, <2>8, <2>9, <2>10 DEF CallInv, Left, NoProc
<1>6. EmptyInv'
  BY <1>1, <1>2, GoingIs, EmptyKept DEF memory, procVars
<1>7. X \subseteq MayBeLost
  OBVIOUS
<1> HIDE DEF X
<1> QED BY <1>3, <1>4, <1>5, <1>6, <1>7, Combines

LEMMA AllocPagesSteps ==
  ASSUME Going, AllocPages PROVE Steps
<1> DEFINE X == {}
<1>1. PICK n \in KernelRuns :
        /\ next_virt + n <= KernelHeap + MaxKernelPages
        /\ call' = [name |-> "alloc", p |-> Kernel, todo |-> Run(next_virt, n), to |-> n]
  BY Zenon DEF AllocPages, Begin
<1>2. UNCHANGED <<memory, procVars, kernelVars, spoiled>>
  BY DEF AllocPages
<1>3. Good(X)
  BY <1>2, GoingIs, NothingMoves DEF procVars
<1>4. Rest'
  BY <1>2, GoingIs, RestKept DEF memory, procVars
<1>5. CallInv'
  <2> DEFINE s == Run(next_virt, n)
  <2>1. n \in Nat /\ next_virt \in Nat
    BY GoingIs, LayoutAssumption, PageAssumption DEF Rest
  <2>2. s \in Seq(Nat) /\ Len(s) = n
    BY <2>1, RunIs
  <2>3. /\ call'.name = "alloc" /\ call'.p = Kernel /\ call'.todo = s /\ call'.to = n
        /\ call' = [name |-> "alloc", p |-> Kernel, todo |-> s, to |-> n]
    BY <1>1
  <2>4. call' \in [name : {"none", "space", "alloc"} \cup Mapping,
                   p : Procs \cup {Kernel, None}, todo : Seq(Nat), to : Nat]
    <3> HIDE DEF s
    <3> QED BY <2>1, <2>2, <2>3 DEF Mapping
  <2>5. next_virt' = next_virt
    BY <1>2 DEF kernelVars
  <2>6. next_virt + n - n = next_virt
    BY <2>1
  <2>7. AllocInv'
    BY <1>1, <2>1, <2>2, <2>3, <2>5, <2>6 DEF AllocInv, Left, Run
  <2> HIDE DEF s
  <2> QED BY <2>3, <2>4, <2>7 DEF CallInv, Mapping
<1>6. EmptyInv'
  BY <1>1, <1>2, GoingIs, EmptyKept DEF memory, procVars
<1>7. X \subseteq MayBeLost
  OBVIOUS
<1> HIDE DEF X
<1> QED BY <1>3, <1>4, <1>5, <1>6, <1>7, Combines

\* Calls that end and have done something.
LEMMA DoneSteps ==
  ASSUME Going, Done PROVE Steps
<1> DEFINE X == {}
<1>1. /\ heap_brk' = IF In("brk") THEN [heap_brk EXCEPT ![call.p] = call.to] ELSE heap_brk
      /\ Return /\ UNCHANGED <<memory, proc, files, kernelVars, spoiled>>
  BY Zenon DEF Done
<1>2. Good(X)
  BY <1>1, GoingIs, NothingMoves
<1>3. Rest'
  <2>1. heap_brk \in [Procs -> HeapBase * Unit .. MaxBrk] /\ HeapBase * Unit \in Nat /\ MaxBrk \in Nat
    <3>1. HeapBase \in Nat /\ MaxBrk \in Nat /\ Unit \in Nat
      BY LayoutAssumption, PageAssumption
    <3>2. HeapBase * Unit \in Nat
      BY <3>1
    <3> QED BY <3>1, <3>2, GoingIs DEF Rest
  <2>2. CASE In("brk")
    <3>1. call.name = "brk" /\ call.name \in Mapping
      BY <2>2 DEF In, Mapping
    <3>2. call.p \in Procs /\ BrkInv
      BY <3>1, GoingIs DEF CallInv
    <3>3. heap_brk[call.p] <= call.to /\ call.to <= MaxBrk /\ call.to \in Nat
          /\ heap_brk[call.p] \in HeapBase * Unit .. MaxBrk
      BY <2>1, <3>2 DEF BrkInv
    <3>4. call.to \in HeapBase * Unit .. MaxBrk
      BY <2>1, <3>3
    <3>5. heap_brk' \in [Procs -> HeapBase * Unit .. MaxBrk]
      BY <1>1, <2>1, <2>2, <3>4
    <3> QED BY <1>1, <3>5, GoingIs DEF Rest, KernelInv, kernelVars, memory
  <2>3. CASE ~In("brk")
    BY <1>1, <2>3, GoingIs, RestKept DEF memory
  <2> QED BY <2>2, <2>3
<1>4. CallInv' /\ call'.name \notin {"space", "load", "brk", "alloc"}
  BY <1>1, IdleCall DEF Return
<1>5. EmptyInv'
  BY <1>1, <1>4, GoingIs, EmptyKept DEF memory
<1>6. X \subseteq MayBeLost
  OBVIOUS
<1> HIDE DEF X
<1> QED BY <1>2, <1>3, <1>4, <1>5, <1>6, Combines

LEMMA AllocatedSteps ==
  ASSUME Going, Allocated PROVE Steps
<1> DEFINE X == {}
<1>1. /\ kernel_pages' = kernel_pages \cup {<<next_virt, call.to>>}
      /\ next_virt' = next_virt + call.to
      /\ Return /\ UNCHANGED <<memory, procVars, spoiled>> /\ call.name = "alloc"
  BY Zenon DEF Allocated, In
<1>2. Good(X)
  BY <1>1, GoingIs, NothingMoves DEF procVars
<1>3. Rest'
  <2>1. AllocInv
    BY <1>1, GoingIs DEF CallInv
  <2>2. /\ next_virt \in KernelHeap .. KernelHeap + MaxKernelPages
        /\ KernelHeap \in Nat /\ MaxKernelPages \in Nat /\ call.to \in Nat
        /\ next_virt + call.to <= KernelHeap + MaxKernelPages
    BY <2>1, GoingIs, LayoutAssumption DEF Rest, AllocInv
  <2>3. next_virt' \in KernelHeap .. KernelHeap + MaxKernelPages
    BY <1>1, <2>2
  <2>4. KernelInv'
    <3>1. \A r \in kernel_pages' : /\ r \in Nat \X Nat /\ KernelHeap <= r[1]
                                   /\ r[1] + r[2] <= KernelHeap + MaxKernelPages
      BY <1>1, <2>2, GoingIs DEF KernelInv
    <3> QED BY <1>1, <3>1, GoingIs DEF KernelInv, memory
  <2> QED BY <1>1, <2>3, <2>4, GoingIs DEF Rest, procVars
<1>4. CallInv' /\ call'.name \notin {"space", "load", "brk", "alloc"}
  BY <1>1, IdleCall DEF Return
<1>5. EmptyInv'
  BY <1>1, <1>4, GoingIs, EmptyKept DEF memory, procVars
<1>6. X \subseteq MayBeLost
  OBVIOUS
<1> HIDE DEF X
<1> QED BY <1>2, <1>3, <1>4, <1>5, <1>6, Combines

LEMMA MunmapSteps ==
  ASSUME Going, NEW p \in Procs, Munmap(p) PROVE Steps
<1> DEFINE X == {}
<1>1. UNCHANGED <<pde, procVars, kernelVars, call, spoiled>> /\ call = Idle
  BY Zenon DEF Munmap, Calls, Quiet
<1>2. Good(X)
  BY GoingIs, MunmapIsGood
<1>3. Rest'
  BY <1>1, GoingIs, RestKept DEF procVars
<1>4. CallInv' /\ call'.name \notin {"space", "load", "brk", "alloc"}
  BY <1>1, IdleCall
<1>5. EmptyInv'
  BY <1>1, <1>4, GoingIs, EmptyKept DEF procVars
<1>6. X \subseteq MayBeLost
  OBVIOUS
<1> HIDE DEF X
<1> QED BY <1>2, <1>3, <1>4, <1>5, <1>6, Combines

LEMMA OpenSteps ==
  ASSUME Going, NEW p \in Procs, Open(p) PROVE Steps
<1> DEFINE X == {}
<1>1. UNCHANGED <<pde, proc, heap_brk, kernelVars, call, spoiled>> /\ call = Idle /\ proc[p] # NoProc
  BY AliveIs DEF Open, Calls, Quiet
<1>2. Good(X)
  BY GoingIs, OpenIsGood
<1>3. Rest'
  BY <1>1, GoingIs, RestKept
<1>4. CallInv' /\ call'.name \notin {"space", "load", "brk", "alloc"}
  BY <1>1, IdleCall
<1>5. \A q \in Procs : q # p => files'[q] = files[q]
  <2>1. files \in [Procs -> [Fds -> Frames \cup {None}]]
    BY GoingIs, TypesAre
  <2>2. \/ \E fd \in Fds, f \in Frames \cup free : files' = [files EXCEPT ![p][fd] = f]
        \/ files' = files
    BY PickIs DEF Open
  <2> QED BY <2>1, <2>2
<1>6. EmptyInv'
  BY <1>1, <1>4, <1>5, GoingIs, EmptyKept
<1>7. X \subseteq MayBeLost
  OBVIOUS
<1> HIDE DEF X
<1> QED BY <1>2, <1>3, <1>4, <1>6, <1>7, Combines

LEMMA CloseSteps ==
  ASSUME Going, NEW p \in Procs, Close(p) PROVE Steps
<1> DEFINE X == {}
<1>1. UNCHANGED <<pde, proc, heap_brk, kernelVars, call, spoiled>> /\ call = Idle /\ proc[p] # NoProc
  BY AliveIs DEF Close, Calls, Quiet
<1>2. Good(X)
  BY GoingIs, CloseIsGood
<1>3. Rest'
  BY <1>1, GoingIs, RestKept
<1>4. CallInv' /\ call'.name \notin {"space", "load", "brk", "alloc"}
  BY <1>1, IdleCall
<1>5. \A q \in Procs : q # p => files'[q] = files[q]
  <2>1. files \in [Procs -> [Fds -> Frames \cup {None}]]
    BY GoingIs, TypesAre
  <2>2. \E fd \in Fds : files' = [files EXCEPT ![p][fd] = None]
    BY Zenon DEF Close
  <2> QED BY <2>1, <2>2
<1>6. EmptyInv'
  BY <1>1, <1>4, <1>5, GoingIs, EmptyKept
<1>7. X \subseteq MayBeLost
  OBVIOUS
<1> HIDE DEF X
<1> QED BY <1>2, <1>3, <1>4, <1>6, <1>7, Combines

\* Pages of the kernel's heap.
LEMMA AllocFailsSteps ==
  ASSUME MemoryBelowHeap, Going, AllocFails PROVE Steps
<1> DEFINE X  == {}
           vs == next_virt .. Head(call.todo) - 1
<1>1. /\ call.name = "alloc" /\ call.todo # <<>> /\ Give(vs)
      /\ Return /\ UNCHANGED <<pde, procVars, kernelVars, spoiled>>
  BY Zenon DEF AllocFails, In
<1>2. vs \subseteq HeapPages
  <2>1. AllocInv /\ call.todo \in Seq(Nat)
    BY <1>1, GoingIs DEF CallInv
  <2>2. /\ next_virt \in KernelHeap .. KernelHeap + MaxKernelPages
        /\ KernelHeap \in Nat /\ MaxKernelPages \in Nat
    BY GoingIs, LayoutAssumption DEF Rest
  <2>3. Left \in Nat \ {0}
    BY <1>1, <2>1 DEF Left
  <2>4. /\ call.to \in Nat /\ Left <= call.to /\ next_virt + call.to <= KernelHeap + MaxKernelPages
        /\ call.todo = Run(next_virt + call.to - Left, Left)
    BY <2>1 DEF AllocInv
  <2>5. next_virt + call.to - Left \in Nat
    BY <2>2, <2>3, <2>4
  <2>6. Head(call.todo) = next_virt + call.to - Left
    BY <2>3, <2>4, <2>5, RunTail
  <2> QED BY <2>2, <2>3, <2>4, <2>6 DEF HeapPages
<1> HIDE DEF vs
<1>3. Good(X)
  BY <1>1, <1>2, GoingIs, GiveIsGood DEF procVars
<1>4. Rest'
  BY <1>1, GoingIs, RestKept DEF procVars
<1>5. CallInv' /\ call'.name \notin {"space", "load", "brk", "alloc"}
  BY <1>1, IdleCall DEF Return
<1>6. EmptyInv'
  BY <1>1, <1>5, GoingIs, EmptyKept DEF procVars
<1>7. X \subseteq MayBeLost
  OBVIOUS
<1> HIDE DEF X
<1> QED BY <1>3, <1>4, <1>5, <1>6, <1>7, Combines

LEMMA FreePagesSteps ==
  ASSUME MemoryBelowHeap, Going, FreePages PROVE Steps
<1> DEFINE X == {}
<1>1. PICK r \in kernel_pages : /\ Give(r[1] .. r[1] + r[2] - 1)
                                /\ kernel_pages' = kernel_pages \ {r}
  BY Zenon DEF FreePages
<1>2. UNCHANGED <<pde, procVars, next_virt, call, spoiled>> /\ call = Idle
  BY Zenon DEF FreePages, Quiet
<1> DEFINE vs == r[1] .. r[1] + r[2] - 1
<1>3. vs \subseteq HeapPages
  <2>1. KernelHeap \in Nat /\ MaxKernelPages \in Nat
    BY LayoutAssumption
  <2>2. r \in Nat \X Nat /\ KernelHeap <= r[1] /\ r[1] + r[2] <= KernelHeap + MaxKernelPages
    BY GoingIs, Zenon DEF KernelInv
  <2>3. r[1] \in Nat /\ r[2] \in Nat
    BY <2>2
  <2> QED BY <2>1, <2>2, <2>3 DEF HeapPages
<1>4. Give(vs)
  BY <1>1
<1> HIDE DEF vs
<1>5. Good(X)
  BY <1>2, <1>3, <1>4, GoingIs, GiveIsGood DEF procVars
<1>6. Rest'
  BY <1>1, <1>2, GoingIs DEF Rest, KernelInv, procVars
<1>7. CallInv' /\ call'.name \notin {"space", "load", "brk", "alloc"}
  BY <1>2, IdleCall
<1>8. EmptyInv'
  BY <1>2, <1>7, GoingIs, EmptyKept DEF procVars
<1>9. X \subseteq MayBeLost
  OBVIOUS
<1> HIDE DEF X
<1> QED BY <1>5, <1>6, <1>7, <1>8, <1>9, Combines

---------------------------------------------------------------------------
\* A process is made, and dies.
LEMMA CreateSteps ==
  ASSUME Going, NEW p \in Procs, Create(p) PROVE Steps
<1> DEFINE X == {}
<1>1. PICK k \in Pick(free) : proc' = [proc EXCEPT ![p] = {k}]
  BY Zenon DEF Create
<1>2. PICK image \in Images :
        call' = [name |-> "space", p |-> p, todo |-> Run(StackBase, StackPages) \o image, to |-> 0]
  BY Zenon DEF Create, Begin
<1>3. UNCHANGED <<pde, heap_brk, files, kernelVars, spoiled>> /\ proc[p] = NoProc
  BY DEF Create
<1>4. Good(X)
  BY GoingIs, CreateIsGood
<1>5. Rest'
  BY <1>3, GoingIs, RestKept
<1>6. k \in Frames /\ proc \in [Procs -> SUBSET Frames]
  BY GoingIs, PickIs, TypesAre
<1>7. CallInv'
  <2> DEFINE a == Run(StackBase, StackPages)
             s == a \o image
  <2>1. StackBase \in Nat /\ StackPages \in Nat /\ image \in Seq(Nat)
    BY LayoutAssumption, PageAssumption
  <2>2. a \in Seq(Nat) /\ Len(a) = StackPages /\ \A j \in 1 .. StackPages : a[j] = StackBase + j - 1
    BY <2>1, RunIs
  <2>3. \A j \in 1 .. Len(a) : Table(a[j]) \in UserTables
    BY <2>2, UserSpace
  <2>4. \A j \in 1 .. Len(image) : Table(image[j]) \in UserTables
    BY UserSpace
  <2> HIDE DEF a
  <2>5. /\ s \in Seq(Nat) /\ Len(s) = Len(a) + Len(image)
        /\ \A j \in 1 .. Len(s) : s[j] = IF j <= Len(a) THEN a[j] ELSE image[j - Len(a)]
    BY <2>1, <2>2, ConcatProperties
  <2>6. \A j \in 1 .. Len(s) : Table(s[j]) \in UserTables
    <3> SUFFICES ASSUME NEW j \in 1 .. Len(s) PROVE Table(s[j]) \in UserTables
      OBVIOUS
    <3>1. Len(a) \in Nat /\ Len(image) \in Nat
      BY <2>1, <2>2
    <3>2. CASE j <= Len(a)
      BY <2>3, <2>5, <3>1, <3>2
    <3>3. CASE ~(j <= Len(a))
      <4>1. j - Len(a) \in 1 .. Len(image)
        BY <2>5, <3>1, <3>3
      <4> QED BY <2>4, <2>5, <3>3, <4>1
    <3> QED BY <3>2, <3>3
  <2>7. /\ call'.name = "space" /\ call'.p = p /\ call'.todo = s
        /\ call' = [name |-> "space", p |-> p, todo |-> s, to |-> 0]
    BY <1>2 DEF a
  <2> HIDE DEF s
  <2>8. call' \in [name : {"none", "space", "alloc"} \cup Mapping,
                   p : Procs \cup {Kernel, None}, todo : Seq(Nat), to : Nat]
    BY <2>5, <2>7
  <2> QED BY <2>6, <2>7, <2>8 DEF CallInv, Left, Mapping
<1>8. EmptyInv'
  <2>1. \A q \in Procs : proc'[q] = IF q = p THEN {k} ELSE proc[q]
    BY <1>1, <1>6
  <2>2. \A i \in UserTables : pde[p][i] = Big
    BY <1>3, GoingIs DEF EmptyInv
  <2>3. files[p] = NoFiles
    BY <1>3, GoingIs DEF EmptyInv
  <2>4. call'.name = "space" /\ call'.p = p
    BY <1>2
  <2>5. \A q \in Procs : q # p /\ proc[q] = NoProc =>
          files[q] = NoFiles /\ \A i \in UserTables : pde[q][i] = Big
    BY GoingIs DEF EmptyInv
  <2>6. pde' = pde /\ files' = files /\ NoFiles' = NoFiles /\ NoProc' = NoProc
    BY <1>3 DEF NoFiles, NoProc
  <2> QED BY <1>6, <2>1, <2>2, <2>3, <2>4, <2>5, <2>6 DEF EmptyInv
<1>9. X \subseteq MayBeLost
  OBVIOUS
<1> HIDE DEF X
<1> QED BY <1>4, <1>5, <1>7, <1>8, <1>9, Combines

LEMMA SpaceSteps ==
  ASSUME Going, NEW p \in Procs, Space(p) PROVE Steps
<1> DEFINE X == {}
<1>1. call.name = "space" /\ call.p = p /\ UNCHANGED <<heap_brk, files, kernelVars, spoiled>>
  BY DEF Space, In
<1>2. /\ proc \in [Procs -> SUBSET Frames] /\ pde \in PdeSet
      /\ files[p] = NoFiles /\ \A i \in UserTables : pde[p][i] = Big
  BY <1>1, GoingIs, TypesAre DEF EmptyInv
<1>3. \A q \in Procs : q # p /\ proc[q] = NoProc =>
        files[q] = NoFiles /\ \A i \in UserTables : pde[q][i] = Big
  BY GoingIs DEF EmptyInv
<1>4. NoFiles' = NoFiles /\ NoProc' = NoProc /\ NoProc = {} /\ files' = files
  BY <1>1 DEF NoFiles, NoProc
<1>5. X \subseteq MayBeLost
  OBVIOUS
<1>6. ASSUME NEW s \in Pick(free), NEW d \in Pick(free \ {s}),
             free' = free \ {s, d}, mem' = [mem EXCEPT ![s] = Data, ![d] = Data],
             proc' = [proc EXCEPT ![p] = @ \cup {s, d}], pde' = [pde EXCEPT ![p] = pde[Kernel]],
             call' = [call EXCEPT !.name = "load"]
      PROVE  Steps
  <2>1. s \in free /\ d \in free /\ s # d /\ s \in Frames /\ d \in Frames
    BY PickIs, GoingIs, TypesAre
  <2>2. Good(X)
    BY <1>1, <1>6, <2>1, GoingIs, SpaceTakes
  <2>3. \A q \in Procs : proc'[q] = IF q = p THEN proc[p] \cup {s, d} ELSE proc[q]
    BY <1>2, <1>6
  <2>4. \A c \in Dirs : c # p => pde'[c] = pde[c]
    BY <1>2, <1>6 DEF PdeSet
  <2>5. Rest'
    <3>1. Kernel # p /\ Kernel \in Dirs
      BY Names DEF Dirs
    <3>2. pde'[Kernel] = pde[Kernel]
      BY <2>4, <3>1
    <3> QED BY <1>1, <3>2, GoingIs DEF Rest, KernelInv, kernelVars
  <2>6. call'.name = "load" /\ call'.p = p /\ call'.todo = call.todo /\ call'.to = call.to
        /\ call' \in [name : {"none", "space", "alloc"} \cup Mapping,
                      p : Procs \cup {Kernel, None}, todo : Seq(Nat), to : Nat]
    BY <1>1, <1>6, GoingIs DEF CallInv, Mapping
  <2>7. CallInv'
    <3>1. \A k \in 1 .. Left : Table(call.todo[k]) \in UserTables
      BY <1>1, GoingIs DEF CallInv
    <3>2. proc'[p] # {}
      BY <2>3
    <3> QED BY <1>4, <2>6, <3>1, <3>2 DEF CallInv, Left, Mapping
  <2>8. EmptyInv'
    <3>1. \A q \in Procs : q \in Dirs
      BY DEF Dirs
    <3>2. proc'[p] # {}
      BY <2>3
    <3> QED BY <1>2, <1>3, <1>4, <2>3, <2>4, <2>6, <3>1, <3>2 DEF EmptyInv
  <2> HIDE DEF X
  <2> QED BY <1>5, <2>2, <2>5, <2>7, <2>8, Combines
<1>7. ASSUME free' = free \cup proc[p], mem' = Freed(proc[p]),
             proc' = [proc EXCEPT ![p] = NoProc], Return, UNCHANGED pde
      PROVE  Steps
  <2>1. Good(X)
    BY <1>1, <1>7, GoingIs, SpaceGivesBack
  <2>2. Rest'
    BY <1>1, <1>7, GoingIs, RestKept
  <2>3. CallInv' /\ call'.name \notin {"space", "load", "brk", "alloc"}
    BY <1>7, IdleCall DEF Return
  <2>4. \A q \in Procs : proc'[q] = IF q = p THEN {} ELSE proc[q]
    BY <1>2, <1>4, <1>7
  <2>5. EmptyInv'
    BY <1>2, <1>3, <1>4, <1>7, <2>3, <2>4 DEF EmptyInv
  <2> HIDE DEF X
  <2> QED BY <1>5, <2>1, <2>2, <2>3, <2>5, Combines
<1>8. \/ \E s \in Pick(free) : \E d \in Pick(free \ {s}) :
           /\ free' = free \ {s, d} /\ mem' = [mem EXCEPT ![s] = Data, ![d] = Data]
           /\ proc' = [proc EXCEPT ![p] = @ \cup {s, d}]
           /\ pde' = [pde EXCEPT ![p] = pde[Kernel]]
           /\ call' = [call EXCEPT !.name = "load"]
      \/ /\ free' = free \cup proc[p] /\ mem' = Freed(proc[p])
         /\ proc' = [proc EXCEPT ![p] = NoProc]
         /\ Return /\ UNCHANGED pde
  BY Zenon DEF Space
<1> HIDE DEF X
<1> QED BY <1>6, <1>7, <1>8

LEMMA DieSteps ==
  ASSUME Going, NEW p \in Procs, Die(p), UNCHANGED kernelVars,
         ~spoiled' => OpenFiles(p) \subseteq MayBeLost
  PROVE  Steps
<1>1. PICK gone \in SUBSET Frames :
        /\ free' = free \cup gone
        /\ mem' \in MemSet /\ pde' \in PdeSet
        /\ proc' = [proc EXCEPT ![p] = {}] /\ files' = [files EXCEPT ![p] = NoFiles]
        /\ \A i \in UserTables : pde'[p][i] = Big
        /\ \A d \in Dirs : d # p => pde'[d] = pde[d]
  BY GoingIs, DieIs
<1>2. /\ free \subseteq Frames /\ proc \in [Procs -> SUBSET Frames]
      /\ files \in [Procs -> [Fds -> Frames \cup {None}]]
  BY GoingIs, TypesAre
<1>3. /\ call' = Idle /\ heap_brk' = [heap_brk EXCEPT ![p] = HeapBase * Unit]
      /\ spoiled' \in BOOLEAN
  BY DEF Die
<1>4. Rest'
  <2>1. Kernel # p /\ Kernel \in Dirs
    BY Names DEF Dirs
  <2>2. HeapBase \in Nat /\ MaxBrk \in Nat /\ Unit \in Nat /\ HeapBase * Unit <= MaxBrk
    BY LayoutAssumption, PageAssumption
  <2>3. HeapBase * Unit \in Nat
    BY <2>2
  <2>4. HeapBase * Unit \in HeapBase * Unit .. MaxBrk
    BY <2>2, <2>3
  <2>5. heap_brk' \in [Procs -> HeapBase * Unit .. MaxBrk]
    <3> DEFINE S == HeapBase * Unit .. MaxBrk
               h == HeapBase * Unit
    <3>1. h \in S /\ heap_brk \in [Procs -> S] /\ heap_brk' = [heap_brk EXCEPT ![p] = h]
      BY <1>3, <2>4, GoingIs DEF Rest
    <3> HIDE DEF S, h
    <3>2. heap_brk' \in [Procs -> S]
      BY <3>1
    <3> QED BY <3>2 DEF S
  <2>6. KernelInv' /\ next_virt' = next_virt
    BY <1>1, <2>1, GoingIs DEF KernelInv, kernelVars
  <2> QED BY <1>3, <2>5, <2>6, GoingIs DEF Rest
<1>5. CASE spoiled'
  <2>1. /\ free' \subseteq Frames /\ proc' \in [Procs -> SUBSET Frames]
        /\ files' \in [Procs -> [Fds -> Frames \cup {None}]]
    BY <1>1, <1>2 DEF NoFiles
  <2>2. TypeOK'
    BY <1>1, <1>4, <2>1 DEF TypeOK, Rest, MemSet, PdeSet, Words, Dirs
  <2> QED BY <1>4, <1>5, <2>2, Zenon DEF Steps, IInv, Rest
<1>6. CASE ~spoiled'
  <2> DEFINE X == OpenFiles(p)
  <2>1. Good(X)
    BY <1>6, GoingIs, DieIsGood
  <2>2. CallInv' /\ call'.name \notin {"space", "load", "brk", "alloc"}
    BY <1>3, IdleCall
  <2>3. EmptyInv'
    <3>1. \A q \in Procs : proc'[q] = IF q = p THEN {} ELSE proc[q]
      BY <1>1, <1>2
    <3>2. \A q \in Procs : files'[q] = IF q = p THEN NoFiles ELSE files[q]
      BY <1>1, <1>2
    <3>3. \A q \in Procs : q # p /\ proc[q] = NoProc =>
            files[q] = NoFiles /\ \A i \in UserTables : pde[q][i] = Big
      BY GoingIs DEF EmptyInv
    <3>4. NoFiles' = NoFiles /\ NoProc' = NoProc
      BY DEF NoFiles, NoProc
    <3>5. \A q \in Procs : q \in Dirs
      BY DEF Dirs
    <3> QED BY <1>1, <2>2, <3>1, <3>2, <3>3, <3>4, <3>5 DEF EmptyInv
  <2>4. X \subseteq MayBeLost
    BY <1>6
  <2> HIDE DEF X
  <2> QED BY <1>4, <2>1, <2>2, <2>3, <2>4, Combines
<1> QED BY <1>5, <1>6

LEMMA ExitSteps ==
  ASSUME Going, NEW p \in Procs, Exit(p) PROVE Steps
<1>1. Die(p) /\ UNCHANGED kernelVars /\ Alive(p)
  BY DEF Exit
<1>2. ~Alive(p)'
  <2>1. proc'[p] = {}
    BY <1>1, GoingIs, TypesAre DEF Die, NoProc
  <2>2. Cardinality({}) = 0
    BY FS_EmptySet
  <2> QED BY <2>1, <2>2 DEF Alive
<1>3. OpenFiles(p) \subseteq MayBeLost
  <2> DEFINE O(q) == OpenFiles(q)
             D == {q \in Procs : Alive(q) /\ ~Alive(q)'}
             L == UNION {O(q) : q \in D}
  <2>1. p \in D
    BY <1>1, <1>2
  <2>2. L \subseteq MayBeLost
    BY DEF MayBeLost
  <2> HIDE DEF D, O
  <2>3. O(p) \subseteq L
    BY <2>1
  <2> HIDE DEF L
  <2>4. O(p) \subseteq MayBeLost
    BY <2>2, <2>3
  <2> QED BY <2>4 DEF O
<1> QED BY <1>1, <1>3, DieSteps

LEMMA LoadFailsSteps ==
  ASSUME Going, NEW p \in Procs, call.name = "load", call.p = p, Die(p), UNCHANGED kernelVars
  PROVE  Steps
<1>1. files[p] = NoFiles
  BY GoingIs DEF EmptyInv
<1>2. OpenFiles(p) = {}
  BY <1>1 DEF OpenFiles, NoFiles
<1>3. OpenFiles(p) \subseteq MayBeLost
  BY <1>2
<1> QED BY <1>3, DieSteps

LEMMA NoMemorySteps ==
  ASSUME Going, NoMemory PROVE Steps
<1>1. CASE In("load") /\ Die(call.p) /\ UNCHANGED kernelVars
  <2>1. call.name = "load" /\ call.p \in Procs
    BY <1>1, GoingIs DEF In, CallInv, Mapping
  <2> QED BY <1>1, <2>1, LoadFailsSteps
<1>2. CASE Return /\ UNCHANGED <<memory, procVars, kernelVars, spoiled>>
  BY <1>2, ReturnSteps
<1> QED BY <1>1, <1>2, Zenon DEF NoMemory

---------------------------------------------------------------------------
\* A page is mapped.
MapTo(d, v, f) ==
  /\ Good(MappedOver(d, v) \cup NoTableFor(d, v, f))
  /\ \A c \in Dirs, j \in Tables :
       pde'[c][j] = pde[c][j] \/ (c = d /\ pde'[c][j] \in Frames)
  /\ \A u \in Nat : TableAt(d, Table(u)) /\ Maps(d, u) => Maps(d, u)'
  /\ Maps(d, v)' \/ (UNCHANGED pde /\ free' = {} /\ pde[d][Table(v)] \notin Frames)

LEMMA GoodGrows == ASSUME NEW X, NEW Y, Good(X), X \subseteq Y PROVE Good(Y)
<1> DEFINE L == Lost' \ Lost
<1>1. L \subseteq X
  BY Zenon DEF Good
<1> HIDE DEF L
<1>2. L \subseteq Y
  BY <1>1
<1> QED BY <1>2, Zenon DEF Good, L

LEMMA MapInIs ==
  ASSUME Sound, NEW d \in Dirs, NEW v \in Nat, TableAt(d, Table(v)),
         d = Kernel => pde[d][Table(v)] # Big, NEW f \in free,
         MapIn(d, v, f, free \ {f}), UNCHANGED <<proc, files>>
  PROVE  MapTo(d, v, f)
<1> DEFINE A == MappedOver(d, v)
           B == NoTableFor(d, v, f)
<1>1. f \in Frames /\ None \notin Frames /\ Table(v) \in Tables
  BY TypesAre, Names, TableAtType DEF Sound
<1>2. CASE TableOf(d, v) \in Frames
  <2>1. InTable(d, v, f, free \ {f}) /\ InUse(d, Table(v))
    BY <1>2 DEF MapIn, InUse, TableOf
  <2>2. /\ Good(A) /\ UNCHANGED pde
        /\ \A c \in Dirs, j \in Tables, x \in Words : InUse(c, j) =>
              mem'[pde[c][j]][x] = IF c = d /\ j = Table(v) /\ x = Entry(v) THEN f
                                   ELSE mem[pde[c][j]][x]
    BY <2>1, InTableIsGood
  <2>3. ASSUME NEW u \in Nat, TableAt(d, Table(u)), Maps(d, u) PROVE Maps(d, u)'
    <3>1. InUse(d, Table(u)) /\ Table(u) \in Tables /\ Entry(u) \in Words
      BY <2>3, TableAtType, PageSplit DEF Maps, TableOf, InUse, Words
    <3>2. mem'[pde[d][Table(u)]][Entry(u)] = f
          \/ mem'[pde[d][Table(u)]][Entry(u)] = mem[pde[d][Table(u)]][Entry(u)]
      BY <2>2, <3>1
    <3> QED BY <1>1, <2>2, <2>3, <3>2 DEF Maps, TableOf
  <2>4. Maps(d, v)'
    <3>1. Entry(v) \in Words
      BY PageSplit DEF Words
    <3>2. mem'[pde[d][Table(v)]][Entry(v)] = f
      BY <1>1, <2>1, <2>2, <3>1
    <3> QED BY <1>1, <1>2, <2>2, <3>2 DEF Maps, TableOf
  <2> HIDE DEF A, B
  <2>5. Good(A \cup B)
    BY <2>2, GoodGrows
  <2> QED BY <2>2, <2>3, <2>4, <2>5, Zenon DEF MapTo, A, B
<1>3. CASE TableOf(d, v) \notin Frames
  <2>1. InNewTable(d, v, f, free \ {f}) /\ pde[d][Table(v)] \notin Frames
    BY <1>3 DEF MapIn, TableOf
  <2>2. /\ Good(B)
        /\ \A c \in Dirs, j \in Tables : InUse(c, j) =>
              pde'[c][j] = pde[c][j] /\ mem'[pde[c][j]] = mem[pde[c][j]]
        /\ \A c \in Dirs, j \in Tables :
              pde'[c][j] = pde[c][j] \/ (c = d /\ pde'[c][j] \in Frames)
        /\ Maps(d, v)' \/ (UNCHANGED pde /\ free' = {})
    BY <2>1, InNewTableIsGood
  <2>3. ASSUME NEW u \in Nat, TableAt(d, Table(u)), Maps(d, u) PROVE Maps(d, u)'
    <3>1. InUse(d, Table(u)) /\ Table(u) \in Tables
      BY <2>3, TableAtType DEF Maps, TableOf, InUse
    <3>2. pde'[d][Table(u)] = pde[d][Table(u)] /\ mem'[pde[d][Table(u)]] = mem[pde[d][Table(u)]]
      BY <2>2, <3>1
    <3> QED BY <2>3, <3>2 DEF Maps, TableOf
  <2> HIDE DEF A, B
  <2>4. Good(A \cup B)
    BY <2>2, GoodGrows
  <2> QED BY <2>1, <2>2, <2>3, <2>4, Zenon DEF MapTo, A, B
<1> QED BY <1>2, <1>3

\* What a mapping loses was bound to be lost.
LEMMA MappingLoses ==
  ASSUME call.todo # <<>>, call.p # None, NEW f \in free
  PROVE  MappedOver(call.p, Head(call.todo)) \cup NoTableFor(call.p, Head(call.todo), f)
           \subseteq MayBeLost
<1> DEFINE O == UNION {OpenFiles(p) : p \in {q \in Procs : Alive(q) /\ ~Alive(q)'}}
<1>1. MayBeLost =
        O \cup (IF Maps(call.p, Next1) THEN {mem[TableOf(call.p, Next1)][Entry(Next1)]}
                ELSE IF TableOf(call.p, Next1) \notin Frames
                        /\ (free' = {} \/ (call.name = "alloc" /\ TableOf(call.p, Next1) = Big))
                     THEN free ELSE {})
  BY DEF MayBeLost
<1> HIDE DEF O
<1>2. Next1 = Head(call.todo)
  BY DEF Next1
<1>3. Maps(call.p, Next1) => TableOf(call.p, Next1) \in Frames
  BY DEF Maps
<1> QED BY <1>1, <1>2, <1>3 DEF MappedOver, NoTableFor

\* A run is one page shorter.
LEMMA ShorterRun ==
  ASSUME NEW b \in Nat, NEW n \in Nat, n <= b, NEW s, s # <<>>, s = Run(b - n, n)
  PROVE  /\ n \in Nat \ {0} /\ Head(s) = b - n /\ Len(s) = n /\ Len(Tail(s)) = n - 1
         /\ Tail(s) = Run(b - (n - 1), n - 1)
<1>1. b - n \in Nat
  OBVIOUS
<1>2. s \in Seq(Nat) /\ Len(s) = n
  BY <1>1, RunIs
<1>3. n \in Nat \ {0}
  BY <1>2
<1>4. Head(s) = b - n /\ Tail(s) = Run(b - n + 1, n - 1)
  BY <1>1, <1>3, RunTail
<1>5. b - n + 1 = b - (n - 1) /\ b - n + 1 \in Nat /\ n - 1 \in Nat
  BY <1>3
<1>6. Len(Run(b - n + 1, n - 1)) = n - 1
  BY <1>5, RunIs
<1> QED BY <1>2, <1>3, <1>4, <1>5, <1>6

LEMMA MapNextSteps ==
  ASSUME Going, MapNext PROVE Steps
<1> DEFINE s == call.todo
<1> SUFFICES ASSUME NEW p, p = call.p, NEW v, v = Head(s) PROVE Steps
  OBVIOUS
<1>1. PICK f \in Pick(free) : MapIn(p, v, f, free \ {f})
  BY Zenon DEF MapNext
<1>2. /\ s # <<>> /\ call.name \in Mapping /\ call' = [call EXCEPT !.todo = Tail(s)]
      /\ UNCHANGED <<procVars, kernelVars, spoiled>>
  BY DEF MapNext, Mapping
<1>3. /\ call \in [name : {"none", "space", "alloc"} \cup Mapping,
                   p : Procs \cup {Kernel, None}, todo : Seq(Nat), to : Nat]
      /\ p \in Procs /\ proc[p] # NoProc
      /\ \A k \in 1 .. Len(s) : Table(s[k]) \in UserTables
  BY <1>2, GoingIs DEF CallInv, Left
<1>4. s \in Seq(Nat)
  BY <1>3
<1>5. /\ v \in Nat /\ v = s[1] /\ Tail(s) \in Seq(Nat) /\ Len(s) \in Nat \ {0}
      /\ Len(Tail(s)) = Len(s) - 1 /\ \A k \in 1 .. Len(s) - 1 : Tail(s)[k] = s[k + 1]
  <2> HIDE DEF s
  <2> QED BY <1>2, <1>4, RestOf
<1>6. Table(v) \in UserTables /\ TableAt(p, Table(v)) /\ p \in Dirs /\ p # Kernel /\ p # None
  BY <1>3, <1>5, Names, NoneAssumption DEF TableAt, Dirs
<1>7. f \in free
  BY PickIs
<1>8. MapTo(p, v, f)
  BY <1>1, <1>2, <1>5, <1>6, <1>7, GoingIs, MapInIs DEF procVars
<1> DEFINE X == MappedOver(p, v) \cup NoTableFor(p, v, f)
<1>9. Good(X)
  BY <1>8 DEF MapTo
<1>10. X \subseteq MayBeLost
  BY <1>2, <1>6, <1>7, MappingLoses
<1>11. \A c \in Dirs, j \in Tables : c # p => pde'[c][j] = pde[c][j]
  BY <1>8 DEF MapTo
<1>12. Rest'
  <2>1. \A j \in Tables : pde'[Kernel][j] = pde[Kernel][j]
    BY <1>6, <1>11 DEF Dirs
  <2> QED BY <1>2, <2>1, GoingIs DEF Rest, KernelInv, procVars, kernelVars
<1>13. call'.name = call.name /\ call'.p = p /\ call'.todo = Tail(s) /\ call'.to = call.to
       /\ call' \in [name : {"none", "space", "alloc"} \cup Mapping,
                     p : Procs \cup {Kernel, None}, todo : Seq(Nat), to : Nat]
  BY <1>2, <1>3, <1>5
<1>14. EmptyInv'
  <2>1. ASSUME NEW q \in Procs, proc[q] = NoProc
        PROVE  /\ \A i \in UserTables : pde'[q][i] = pde[q][i]
               /\ files'[q] = files[q]
    <3>1. q # p /\ q \in Dirs
      BY <1>3, <2>1 DEF Dirs
    <3> QED BY <1>2, <1>11, <3>1, Names DEF procVars
  <2>2. call'.name # "space"
    BY <1>2, <1>13 DEF Mapping
  <2>3. UNCHANGED <<proc, files>>
    BY <1>2 DEF procVars
  <2> HIDE DEF s
  <2> QED BY <1>13, <2>1, <2>2, <2>3, GoingIs, EmptyKept
<1>15. ASSUME call.name = "brk" PROVE BrkInv'
  <2> DEFINE h == heap_brk[p]
             b == Upto(call.to)
             n == Len(s)
             w == b - n
  <2>1. /\ call.to \in Nat /\ h <= call.to /\ call.to <= MaxBrk
        /\ Upto(h) <= w /\ s = Run(w, n)
        /\ \A u \in Upto(h) .. w - 1 : Maps(p, u) \/ (TableOf(p, u) = Big /\ free = {})
    BY <1>15, GoingIs DEF CallInv, BrkInv, NextBrk, Left
  <2>2. h \in Nat /\ h <= MaxBrk /\ MaxBrk \in Nat /\ HeapBase \in Nat
        /\ Upto(h) \in Nat /\ HeapBase <= Upto(h)
    BY <1>3, GoingIs, BrkType
  <2>3. b \in Nat /\ b <= Upto(MaxBrk) /\ Upto(MaxBrk) \in Nat
    BY <2>1, <2>2, UptoType, UptoGrows
  <2>4. heap_brk' = heap_brk
    BY <1>2 DEF procVars
  <2> HIDE DEF b, h
  <2>5. n \in Nat \ {0} /\ n <= b
    BY <1>5, <2>1, <2>2, <2>3
  <2>6. /\ v = w /\ Tail(s) = Run(b - (n - 1), n - 1) /\ Len(Tail(s)) = n - 1
    <3> HIDE DEF s, n
    <3> QED BY <1>2, <2>1, <2>3, <2>5, ShorterRun
  <2>7. ASSUME NEW u \in Upto(h) .. w
        PROVE  Maps(p, u)' \/ (TableOf(p, u)' = Big /\ free' = {})
    <3>1. u \in HeapBase .. Upto(MaxBrk) - 1 /\ u \in Nat
      BY <2>2, <2>3, <2>5
    <3>2. Table(u) \in UserTables /\ TableAt(p, Table(u))
      BY <1>3, <3>1, UserSpace DEF TableAt
    <3>3. CASE u # w
      <4>1. u \in Upto(h) .. w - 1
        BY <2>2, <2>3, <2>5, <2>7, <3>3
      <4>2. Maps(p, u)
        BY <1>7, <2>1, <4>1
      <4> QED BY <1>8, <3>1, <3>2, <4>2 DEF MapTo
    <3>4. CASE u = w
      <4>1. Maps(p, v)' \/ (UNCHANGED pde /\ free' = {} /\ pde[p][Table(v)] \notin Frames)
        BY <1>8 DEF MapTo
      <4>2. pde[p][Table(v)] \in Frames \cup {Big}
        <5>1. pde \in PdeSet /\ TableInv
          BY GoingIs, TypesAre
        <5>2. pde[p][Table(v)] # None
          BY <1>3, <1>6, <5>1 DEF TableInv
        <5> QED BY <1>6, <5>1, <5>2, Names DEF PdeSet
      <4>3. Maps(p, v)' \/ (pde'[p][Table(v)] = Big /\ free' = {})
        BY <4>1, <4>2
      <4>4. u = v
        BY <2>6, <3>4
      <4> QED BY <4>3, <4>4 DEF TableOf
    <3> QED BY <3>3, <3>4
  <2>8. /\ Upto(call.to)' = b /\ Left' = n - 1 /\ NextBrk' = b - (n - 1)
        /\ heap_brk'[call'.p] = h
    BY <1>13, <2>4, <2>6 DEF Left, NextBrk, Upto, b, h
  <2>9. Upto(h) <= b - (n - 1) /\ b - (n - 1) - 1 = w
    <3> HIDE DEF n
    <3> QED BY <2>1, <2>2, <2>3, <2>5
  <2>10. /\ call'.to \in Nat /\ heap_brk'[call'.p] <= call'.to /\ call'.to <= MaxBrk
         /\ call'.todo = Run(b - (n - 1), n - 1) /\ call'.p = p
    BY <1>13, <2>1, <2>6, <2>8
  <2>11. Upto(heap_brk[call.p])' = Upto(h)
    BY <2>8 DEF Upto
  <2>12. \A u \in Upto(h) .. b - (n - 1) - 1 :
           Maps(call.p, u)' \/ (TableOf(call.p, u)' = Big /\ free' = {})
    <3>1. \A u \in Upto(h) .. b - (n - 1) - 1 :
            Maps(p, u)' \/ (TableOf(p, u)' = Big /\ free' = {})
      BY <2>7, <2>9
    <3>2. call'.p = p
      BY <1>13
    <3> QED BY <3>1, <3>2 DEF Maps, TableOf
  <2>13. Run(NextBrk, Left)' = Run(b - (n - 1), n - 1)
    BY <2>8 DEF Run
  <2> HIDE DEF n, w
  <2> QED BY <2>8, <2>9, <2>10, <2>11, <2>12, <2>13 DEF BrkInv
<1>16. CallInv'
  <2>1. \A k \in 1 .. Len(Tail(s)) : Table(Tail(s)[k]) \in UserTables
    <3> HIDE DEF s
    <3>1. ASSUME NEW k \in 1 .. Len(Tail(s))
          PROVE  k + 1 \in 1 .. Len(s) /\ Tail(s)[k] = s[k + 1]
      BY <1>3, <1>5
    <3> QED BY <1>3, <3>1
  <2>2. proc'[p] # NoProc
    BY <1>2, <1>3 DEF procVars
  <2>3. Left' = Len(Tail(s))
    BY <1>13 DEF Left
  <2> HIDE DEF s
  <2> QED BY <1>2, <1>3, <1>13, <1>15, <2>1, <2>2, <2>3 DEF CallInv, Mapping, NoProc
<1> HIDE DEF X
<1> QED BY <1>9, <1>10, <1>12, <1>14, <1>16, Combines

\* Behind a 4 MB page nothing is mapped: the page is lost.
LEMMA BehindBigIsGood ==
  ASSUME Sound, NEW f \in free, free' = free \ {f}, mem' = [mem EXCEPT ![f] = Data],
         UNCHANGED <<pde, proc, files>>
  PROVE  Good({f})
<1>1. /\ free \subseteq Frames /\ mem \in MemSet /\ pde' \in PdeSet /\ f \in Frames
      /\ proc' \in [Procs -> SUBSET Frames]
      /\ files' \in [Procs -> [Fds -> Frames \cup {None}]]
  BY TypesAre DEF Sound
<1>2. mem' \in MemSet /\ \A g \in Frames : g # f => mem'[g] = mem[g]
  BY <1>1 DEF MemSet
<1>3. KeepsTables
  <2>1. \A d \in Dirs, i \in Tables : InUse(d, i) => pde[d][i] # f /\ pde[d][i] \in Frames
    BY TablesApart DEF Sound, InUse
  <2> QED BY <1>2, <2>1 DEF KeepsTables, InUse
<1>4. TableInv' /\ \A h : h \in Owners' <=> Has(h, proc', files', pde, mem)
  BY <1>3, TablesKept
<1>5. \A h : h \in Owners' <=> h \in Owners
  <2>1. \A h : h \in Owners' <=> Has(h, proc, files, pde, mem)
    BY <1>4
  <2> QED BY <2>1, OwnersAre, Zenon
<1>6. Apart(Owners', free')
  BY <1>5, Zenon DEF Sound, Apart
<1>7. Lost' \ Lost \subseteq {f}
  <2> DEFINE X == {f}
  <2>1. \A g \in free : g \in free' \/ g \in X
    OBVIOUS
  <2>2. \A h \in Owners : \E g \in Owners' : g[4] = h[4]
    BY <1>5, Zenon
  <2> HIDE DEF X
  <2>3. Lost' \ Lost \subseteq X
    BY <2>1, <2>2, LostIs
  <2> QED BY <2>3 DEF X
<1>8. free' \subseteq Frames
  BY <1>1
<1> QED BY <1>1, <1>2, <1>4, <1>6, <1>7, <1>8, Zenon DEF Good

LEMMA AllocNextSteps ==
  ASSUME Going, AllocNext PROVE Steps
<1> DEFINE s == call.todo
<1> SUFFICES ASSUME NEW v, v = Head(s) PROVE Steps
  OBVIOUS
<1>1. PICK f \in Pick(free) : Map(v, f, free \ {f})
  BY Zenon DEF AllocNext
<1>2. /\ s # <<>> /\ call.name = "alloc" /\ call' = [call EXCEPT !.todo = Tail(s)]
      /\ UNCHANGED <<procVars, kernelVars>> /\ spoiled' \in BOOLEAN
  BY DEF AllocNext, In
<1>3. /\ call \in [name : {"none", "space", "alloc"} \cup Mapping,
                   p : Procs \cup {Kernel, None}, todo : Seq(Nat), to : Nat]
      /\ AllocInv
  BY <1>2, GoingIs DEF CallInv
<1>4. /\ next_virt \in KernelHeap .. KernelHeap + MaxKernelPages
      /\ KernelHeap \in Nat /\ MaxKernelPages \in Nat
  BY GoingIs, LayoutAssumption DEF Rest
<1> DEFINE b == next_virt + call.to
           n == Len(s)
<1>5. /\ call.p = Kernel /\ call.to \in Nat /\ n <= call.to
      /\ b <= KernelHeap + MaxKernelPages /\ s = Run(b - n, n) /\ n \in Nat /\ b \in Nat
  <2>1. n \in Nat
    BY <1>3
  <2> QED BY <1>3, <1>4, <2>1 DEF AllocInv, Left
<1>6. /\ n \in Nat \ {0} /\ v = b - n /\ Tail(s) = Run(b - (n - 1), n - 1) /\ Len(Tail(s)) = n - 1
  <2>1. n <= b
    BY <1>4, <1>5
  <2> HIDE DEF s, b, n
  <2> QED BY <1>2, <1>5, <2>1, ShorterRun
<1>7. v \in Nat /\ Table(v) \in Tables /\ TableAt(Kernel, Table(v)) /\ Kernel \in Dirs /\ Kernel # None
  <2>1. v \in KernelHeap .. KernelHeap + MaxKernelPages - 1 /\ v \in Nat
    <3>1. next_virt \in Nat /\ KernelHeap <= next_virt
      BY <1>4
    <3>2. n \in Nat /\ n >= 1 /\ n <= call.to /\ call.to \in Nat
      BY <1>5, <1>6
    <3>3. b <= KernelHeap + MaxKernelPages /\ v = b - n
      BY <1>5, <1>6
    <3>4. b = next_virt + call.to
      OBVIOUS
    <3> HIDE DEF n, b
    <3> QED BY <1>4, <3>1, <3>2, <3>3, <3>4
  <2>2. Table(v) \in Tables
    BY <2>1, LayoutAssumption DEF Table
  <2> QED BY <2>1, <2>2, Names DEF TableAt, Dirs
<1>8. f \in free
  BY PickIs
<1>9. PICK X : /\ Good(X) /\ X \subseteq MayBeLost
               /\ \A c \in Dirs, j \in Tables :
                    pde'[c][j] = pde[c][j] \/ (c = Kernel /\ pde'[c][j] \in Frames)
  <2>1. CASE TableOf(Kernel, v) = Big
    <3>1. free' = free \ {f} /\ mem' = [mem EXCEPT ![f] = Data] /\ UNCHANGED pde
      BY <1>1, <2>1 DEF Map
    <3>2. Good({f})
      BY <1>2, <1>8, <3>1, GoingIs, BehindBigIsGood DEF procVars
    <3>3. {f} \subseteq MayBeLost
      <4> DEFINE O == UNION {OpenFiles(q) : q \in {q \in Procs : Alive(q) /\ ~Alive(q)'}}
      <4>1. MayBeLost =
              O \cup (IF Maps(call.p, Next1) THEN {mem[TableOf(call.p, Next1)][Entry(Next1)]}
                      ELSE IF TableOf(call.p, Next1) \notin Frames
                              /\ (free' = {} \/ (call.name = "alloc" /\ TableOf(call.p, Next1) = Big))
                           THEN free ELSE {})
        BY <1>2, <1>5, <1>7 DEF MayBeLost
      <4> HIDE DEF O
      <4>2. call.p = Kernel /\ Next1 = v
        BY <1>5 DEF Next1
      <4>3. ~Maps(Kernel, v) /\ TableOf(Kernel, v) \notin Frames
        BY <2>1, Names DEF Maps
      <4> QED BY <1>2, <1>8, <2>1, <4>1, <4>2, <4>3
    <3> QED BY <3>1, <3>2, <3>3
  <2>2. CASE TableOf(Kernel, v) # Big
    <3>1. MapIn(Kernel, v, f, free \ {f}) /\ pde[Kernel][Table(v)] # Big
      BY <1>1, <2>2 DEF Map, TableOf
    <3>2. MapTo(Kernel, v, f)
      BY <1>2, <1>7, <1>8, <3>1, GoingIs, MapInIs DEF procVars
    <3> DEFINE Y == MappedOver(Kernel, v) \cup NoTableFor(Kernel, v, f)
    <3>3. Y \subseteq MayBeLost
      <4>1. MappedOver(call.p, Head(call.todo)) \cup NoTableFor(call.p, Head(call.todo), f)
              \subseteq MayBeLost
        BY <1>2, <1>5, <1>7, <1>8, MappingLoses
      <4> QED BY <1>5, <4>1 DEF MappedOver, NoTableFor
    <3>4. Good(Y) /\ \A c \in Dirs, j \in Tables :
                       pde'[c][j] = pde[c][j] \/ (c = Kernel /\ pde'[c][j] \in Frames)
      BY <3>2 DEF MapTo
    <3> HIDE DEF Y
    <3> QED BY <3>3, <3>4
  <2> QED BY <2>1, <2>2
<1>10. Rest'
  <2>1. \A j \in Tables : pde'[Kernel][j] = Big => j \in BigTables
    <3>1. \A j \in Tables : pde'[Kernel][j] = pde[Kernel][j] \/ pde'[Kernel][j] \in Frames
      BY <1>7, <1>9
    <3> QED BY <3>1, GoingIs, Names DEF KernelInv
  <2> QED BY <1>2, <2>1, GoingIs DEF Rest, KernelInv, procVars, kernelVars
<1>11. call'.name = "alloc" /\ call'.p = Kernel /\ call'.todo = Tail(s) /\ call'.to = call.to
       /\ call' \in [name : {"none", "space", "alloc"} \cup Mapping,
                     p : Procs \cup {Kernel, None}, todo : Seq(Nat), to : Nat]
  <2>1. Tail(s) \in Seq(Nat)
    <3>1. s \in Seq(Nat)
      BY <1>3
    <3> HIDE DEF s
    <3> QED BY <1>2, <3>1
  <2> QED BY <1>2, <1>3, <1>5, <2>1
<1>12. EmptyInv'
  <2>1. \A q \in Procs : q # Kernel /\ q \in Dirs
    BY Names DEF Dirs
  <2>2. \A q \in Procs : \A i \in UserTables : pde'[q][i] = pde[q][i]
    BY <1>9, <2>1, Names
  <2>3. UNCHANGED <<proc, files>>
    BY <1>2 DEF procVars
  <2> QED BY <1>11, <2>2, <2>3, GoingIs, EmptyKept
<1>13. CallInv'
  <2>1. next_virt' = next_virt
    BY <1>2 DEF kernelVars
  <2>2. Left' = n - 1
    BY <1>6, <1>11 DEF Left
  <2>3. next_virt + call.to - (n - 1) = b - (n - 1) /\ n - 1 <= call.to
    BY <1>4, <1>5, <1>6
  <2>4. Run(next_virt + call.to - Left, Left)' = Run(b - (n - 1), n - 1)
    BY <1>11, <2>1, <2>2, <2>3 DEF Run
  <2>5. AllocInv'
    BY <1>5, <1>6, <1>11, <2>1, <2>2, <2>3, <2>4 DEF AllocInv
  <2> QED BY <1>11, <2>5 DEF CallInv, Mapping
<1> QED BY <1>9, <1>10, <1>12, <1>13, Combines

---------------------------------------------------------------------------
\* The invariant holds at first, and every step keeps it.
LEMMA InitSound == Init => IInv
<1> SUFFICES ASSUME Init PROVE IInv
  OBVIOUS
<1>1. /\ free = Frames /\ mem = [f \in Frames |-> IF Begins(f) THEN Blank ELSE Data]
      /\ pde = [d \in Dirs |-> Identity] /\ proc = [p \in Procs |-> {}]
      /\ heap_brk = [p \in Procs |-> HeapBase * Unit] /\ files = [p \in Procs |-> NoFiles]
      /\ next_virt = KernelHeap /\ kernel_pages = {} /\ call = Idle /\ spoiled = FALSE
  BY DEF Init, NoProc, Dirs
<1>2. /\ Identity \in [Tables -> {None, Big}] /\ \A i \in UserTables : Identity[i] = Big
      /\ \A i \in Tables : Identity[i] = Big => i \in BigTables
  BY LayoutAssumption, TableAssumption, Names DEF Identity
<1>3. \A d \in Dirs : pde[d] = Identity
  BY <1>1
<1> HIDE DEF Identity
<1>4. \A d \in Dirs, i \in Tables : pde[d][i] \notin Frames
  BY <1>2, <1>3, Names
<1>5. TypeOK
  <2>1. mem \in MemSet
    BY <1>1, Names DEF MemSet
  <2>2. pde \in PdeSet
    BY <1>1, <1>2 DEF PdeSet
  <2>3. files \in [Procs -> [Fds -> Frames \cup {None}]] /\ proc \in [Procs -> SUBSET Frames]
    BY <1>1 DEF NoFiles
  <2>4. HeapBase * Unit \in HeapBase * Unit .. MaxBrk
    <3>1. HeapBase \in Nat /\ MaxBrk \in Nat /\ Unit \in Nat /\ HeapBase * Unit <= MaxBrk
      BY LayoutAssumption, PageAssumption
    <3>2. HeapBase * Unit \in Nat
      BY <3>1
    <3> QED BY <3>1, <3>2
  <2>5. heap_brk \in [Procs -> HeapBase * Unit .. MaxBrk]
    <3> DEFINE S == HeapBase * Unit .. MaxBrk
               h == HeapBase * Unit
    <3>1. h \in S /\ heap_brk = [p \in Procs |-> h]
      BY <1>1, <2>4
    <3> HIDE DEF S, h
    <3>2. heap_brk \in [Procs -> S]
      BY <3>1
    <3> QED BY <3>2 DEF S
  <2>6. next_virt \in KernelHeap .. KernelHeap + MaxKernelPages
    BY <1>1, LayoutAssumption
  <2> QED BY <1>1, <2>1, <2>2, <2>3, <2>5, <2>6 DEF TypeOK, MemSet, PdeSet, Words, Dirs
<1>6. KernelInv
  <2>1. Kernel \in Dirs
    BY DEF Dirs
  <2> QED BY <1>1, <1>2, <1>3, <2>1 DEF KernelInv
<1>7. Owners = {}
  <2> SUFFICES ASSUME NEW h \in Owners PROVE FALSE
    OBVIOUS
  <2>1. h[4] \in Frames
    BY <1>5, OwnerIs
  <2>2. \A p \in Procs : proc[p] = {}
    BY <1>1
  <2>3. \A p \in Procs, fd \in Fds : files[p][fd] = None
    BY <1>1 DEF NoFiles
  <2>4. \A d \in Dirs, i \in Tables : ~InUse(d, i)
    BY <1>4 DEF InUse
  <2> QED BY <1>5, <2>1, <2>2, <2>3, <2>4, OwnerIs, Names
<1>8. Apart(Owners, free)
  <2> HIDE DEF Owners
  <2> QED BY <1>7 DEF Apart
<1>9. TableInv
  <2>1. UserTables \subseteq Tables /\ Kernel \in Dirs /\ Procs \subseteq Dirs
    BY Names DEF Dirs
  <2> QED BY <1>2, <1>3, <1>4, <2>1, Names DEF TableInv, Dirs
<1>10. EmptyInv
  <2>1. Procs \subseteq Dirs /\ call.name = "none"
    BY <1>1 DEF Dirs, Idle
  <2>2. \A p \in Procs : files[p] = NoFiles /\ \A i \in UserTables : pde[p][i] = Big
    BY <1>1, <1>2, <1>3, <2>1
  <2> QED BY <2>1, <2>2 DEF EmptyInv
<1>11. CallInv
  <2>1. /\ call.name = "none" /\ call.p = None /\ call.todo = <<>> /\ call.to = 0
        /\ call = [name |-> "none", p |-> None, todo |-> <<>>, to |-> 0]
    BY <1>1 DEF Idle
  <2>2. call \in [name : {"none", "space", "alloc"} \cup Mapping,
                  p : Procs \cup {Kernel, None}, todo : Seq(Nat), to : Nat]
    BY <2>1
  <2> QED BY <1>1, <2>1, <2>2 DEF CallInv, Mapping
<1> QED BY <1>5, <1>6, <1>8, <1>9, <1>10, <1>11, Zenon DEF IInv, SoundInv

LEMMA NextSteps ==
  ASSUME MemoryBelowHeap, IInv, Next PROVE Going /\ Steps
<1>1. ~spoiled
  BY Zenon DEF Next, Create, Space, LoadFails, Exit, Mmap, Munmap, Malloc, Read, Open, Close,
     Loaded, MapNext, NoMemory, Done, AllocPages, AllocNext, Allocated, AllocFails, FreePages,
     Calls, Quiet, In
<1>2. Going
  BY <1>1 DEF Going
<1>3. ASSUME NEW p \in Procs,
             \/ Create(p) \/ Space(p) \/ LoadFails(p) \/ Exit(p)
             \/ Mmap(p) \/ Munmap(p) \/ Malloc(p) \/ Read(p) \/ Open(p) \/ Close(p)
      PROVE  Steps
  <2>1. CASE LoadFails(p)
    BY <1>2, <2>1, LoadFailsSteps DEF LoadFails, In
  <2> QED BY <1>2, <1>3, <2>1, CreateSteps, SpaceSteps, ExitSteps, MmapSteps, MunmapSteps,
             MallocSteps, ReadSteps, OpenSteps, CloseSteps
<1>4. CASE Loaded
  BY <1>2, <1>4, ReturnSteps DEF Loaded
<1>5. CASE MapNext \/ NoMemory \/ Done
  BY <1>2, <1>5, MapNextSteps, NoMemorySteps, DoneSteps
<1>6. CASE AllocPages \/ AllocNext \/ Allocated \/ AllocFails \/ FreePages
  BY <1>2, <1>6, AllocPagesSteps, AllocNextSteps, AllocatedSteps, AllocFailsSteps, FreePagesSteps
<1> QED BY <1>2, <1>3, <1>4, <1>5, <1>6, Zenon DEF Next

LEMMA StutterKeeps == IInv /\ UNCHANGED vars => IInv' /\ UNCHANGED <<memory, proc, files, heap_brk>>
<1> SUFFICES ASSUME IInv, UNCHANGED vars PROVE IInv' /\ UNCHANGED <<memory, proc, files, heap_brk>>
  OBVIOUS
<1>1. UNCHANGED <<free, mem, pde, proc, heap_brk, files, next_virt, kernel_pages, call, spoiled>>
  BY DEF vars, memory
<1>2. Owners' = Owners
  BY <1>1 DEF Owners, Holdings, MappedIn
<1>3. (TypeOK' <=> TypeOK) /\ (KernelInv' <=> KernelInv)
  BY <1>1 DEF TypeOK, KernelInv
<1>4. (TableInv' <=> TableInv) /\ (EmptyInv' <=> EmptyInv)
  BY <1>1 DEF TableInv, EmptyInv, NoProc, NoFiles
<1>5. CallInv' <=> CallInv
  <2>1. (BrkInv' <=> BrkInv) /\ (AllocInv' <=> AllocInv)
    BY <1>1 DEF BrkInv, AllocInv, NextBrk, Left, Upto, Run, Maps, TableOf
  <2> QED BY <1>1, <2>1 DEF CallInv, Left, NoProc, Idle
<1>6. Apart(Owners, free)' <=> Apart(Owners, free)
  <2> HIDE DEF Owners
  <2> QED BY <1>1, <1>2 DEF Apart
<1>7. IInv'
  BY <1>1, <1>3, <1>4, <1>5, <1>6, Zenon DEF IInv, SoundInv
<1> QED BY <1>1, <1>7 DEF memory

LEMMA Invariance == MemoryBelowHeap => (Spec => []IInv)
<1> SUFFICES ASSUME MemoryBelowHeap PROVE Spec => []IInv
  OBVIOUS
<1>1. IInv /\ [Next]_vars => IInv'
  <2> SUFFICES ASSUME IInv, [Next]_vars PROVE IInv'
    OBVIOUS
  <2>1. CASE Next
    BY <2>1, NextSteps DEF Steps
  <2>2. CASE UNCHANGED vars
    BY <2>2, StutterKeeps
  <2> QED BY <2>1, <2>2
<1> QED BY <1>1, InitSound, PTL DEF Spec

---------------------------------------------------------------------------
\* The theorems.

\* Every variable has its type: no entry of a directory or word of a table ever names what
\* is not memory, and no break leaves user space (vmm.c:88-119, syscall.c:158-171).
THEOREM TypeCorrect == MemoryBelowHeap => (Spec => []TypeOK)
<1>1. IInv => TypeOK
  BY DEF IInv
<1> QED BY <1>1, Invariance, PTL

\* A page has one owner, whatever processes and the kernel call and whichever of the calls
\* fail, until a space takes pages of others with it (vmm.c:103-119, 222-239,
\* syscall.c:110-211).
THEOREM PagesHaveOneOwner == MemoryBelowHeap => (Spec => []OneOwner)
<1>1. IInv => OneOwner
  <2> SUFFICES ASSUME IInv, ~spoiled
               PROVE  Cardinality(Held) = Cardinality(Owners) /\ Held \cap free = {}
    BY Zenon DEF OneOwner
  <2>1. Sound
    BY GoingIs DEF Going
  <2>2. \A x : x \in Held <=> \E h \in Owners : h[4] = x
    BY DEF Held
  <2>3. \A g, h \in Owners : g[4] = h[4] => g = h
    BY <2>1, Zenon DEF Sound, Apart
  <2>4. \A h \in Owners : h[4] \in Frames /\ h[4] \notin free
    BY <2>1, OwnerIs, Zenon DEF Sound, Apart
  <2> HIDE DEF Held, Owners
  <2> DEFINE F == [h \in Owners |-> h[4]]
  <2>5. F \in [Owners -> Held] /\ \A h \in Owners : F[h] = h[4]
    BY <2>2
  <2> HIDE DEF F
  <2>6. F \in Bijection(Owners, Held)
    <3>1. \A a, b \in Owners : F[a] = F[b] => a = b
      BY <2>3, <2>5
    <3>2. \A t \in Held : \E s \in Owners : F[s] = t
      BY <2>2, <2>5
    <3> QED BY <2>5, <3>1, <3>2, Fun_IsBij
  <2>7. ExistsBijection(Held, Owners)
    <3>1. ExistsBijection(Owners, Held)
      BY <2>6, Fun_ExistsBij, Zenon
    <3> QED BY <3>1, Fun_ExistsBijSymmetric
  <2>8. Held \subseteq Frames
    BY <2>2, <2>4
  <2>9. IsFiniteSet(Held)
    BY <2>8, PageAssumption, FS_Subset
  <2>10. Cardinality(Held) = Cardinality(Owners)
    BY <2>7, <2>9, FS_Bijection
  <2>11. Held \cap free = {}
    BY <2>2, <2>4
  <2> QED BY <2>10, <2>11
<1> QED BY <1>1, Invariance, PTL

\* A page gets lost in no way but the four (syscall.c:115-120, vmm.c:26, 94, 110,
\* proc.c:94-98).
THEOREM LostInFourWays == MemoryBelowHeap => (Spec => LostOnlyBy)
<1> SUFFICES ASSUME MemoryBelowHeap PROVE Spec => LostOnlyBy
  OBVIOUS
<1>1. IInv /\ [Next]_vars => [~spoiled' => Lost' \ Lost \subseteq MayBeLost]_vars
  <2> DEFINE A == ~spoiled' => Lost' \ Lost \subseteq MayBeLost
  <2>1. IInv /\ Next => A
    BY NextSteps, Zenon DEF Steps
  <2> HIDE DEF A
  <2>2. IInv /\ [Next]_vars => [A]_vars
    BY <2>1
  <2> QED BY <2>2 DEF A
<1> QED BY <1>1, Invariance, PTL DEF Spec, LostOnlyBy

\* Only a death takes a process that runs.
LEMMA OnlyDie ==
  ASSUME MemoryBelowHeap, IInv, Next, NEW p \in Procs, Alive(p), ~Alive(p)'
  PROVE  Die(p)
<1>1. Sound /\ EmptyInv /\ CallInv /\ proc \in [Procs -> SUBSET Frames]
  BY NextSteps, GoingIs, TypesAre
<1>2. proc'[p] # proc[p] /\ proc[p] # {}
  BY AliveIs DEF Alive, NoProc
<1>3. ASSUME NEW q \in Procs, Create(q) PROVE FALSE
  <2>1. q = p
    BY <1>1, <1>2, <1>3 DEF Create
  <2> QED BY <1>2, <1>3, <2>1 DEF Create, NoProc
<1>4. ASSUME NEW q \in Procs, Space(q) PROVE FALSE
  <2>1. q = p
    BY <1>1, <1>2, <1>4 DEF Space
  <2>2. call.name = "space" /\ call.p = p
    BY <1>4, <2>1 DEF Space, In
  <2>3. \E k \in Frames : proc[p] = {k}
    BY <1>1, <2>2 DEF EmptyInv
  <2>4. Cardinality(proc[p]) = 1
    BY <2>3, FS_Singleton
  <2> QED BY <2>4 DEF Alive
<1>5. ASSUME NEW q \in Procs, Die(q) PROVE q = p
  BY <1>1, <1>2, <1>5 DEF Die
<1>6. ASSUME NEW q \in Procs, LoadFails(q) \/ Exit(q) PROVE Die(p)
  <2>1. Die(q)
    BY <1>6 DEF LoadFails, Exit
  <2> QED BY <1>5, <2>1
<1>7. ASSUME NoMemory PROVE Die(p)
  <2>1. In("load") /\ Die(call.p)
    BY <1>2, <1>7 DEF NoMemory, procVars
  <2>2. call.p \in Procs
    BY <1>1, <2>1 DEF CallInv, In, Mapping
  <2> SUFFICES ASSUME NEW q, q = call.p PROVE Die(p)
    OBVIOUS
  <2> QED BY <1>5, <2>1, <2>2
<1>8. ASSUME NEW q \in Procs, Mmap(q) \/ Munmap(q) \/ Malloc(q) \/ Read(q) \/ Open(q) \/ Close(q)
      PROVE  FALSE
  <2>1. UNCHANGED proc
    BY <1>8 DEF Mmap, Munmap, Malloc, Read, Open, Close, procVars
  <2> QED BY <1>2, <2>1
<1>9. ASSUME Loaded \/ MapNext \/ Done \/ AllocPages \/ AllocNext \/ Allocated \/ AllocFails
             \/ FreePages
      PROVE  FALSE
  <2>1. UNCHANGED proc
    BY <1>9 DEF Loaded, MapNext, Done, AllocPages, AllocNext, Allocated, AllocFails, FreePages,
                procVars
  <2> QED BY <1>2, <2>1
<1> QED BY <1>3, <1>4, <1>6, <1>7, <1>8, <1>9, Zenon DEF Next

\* A space that is destroyed gives back all that its process had but for its open files, and
\* nothing of others, as long as no page that begins a 4 MB page was handed out
\* (vmm.c:222-239).
THEOREM SpacesTakeTheirOwn == MemoryBelowHeap => (Spec => DestroyTakesOwn)
<1> SUFFICES ASSUME MemoryBelowHeap PROVE Spec => DestroyTakesOwn
  OBVIOUS
<1> DEFINE A == \A p \in Procs :
                  /\ Alive(p) /\ ~Alive(p)'
                  /\ \A b \in Frames : Begins(b) => b \in free /\ mem[b] = Blank
                  => free' = free \cup HeldBy(p)
<1>1. ASSUME IInv, Next PROVE A
  <2> SUFFICES ASSUME NEW p \in Procs, Alive(p), ~Alive(p)',
                      \A b \in Frames : Begins(b) => b \in free /\ mem[b] = Blank
               PROVE  free' = free \cup HeldBy(p)
    OBVIOUS
  <2>1. Die(p) /\ Sound
    BY <1>1, OnlyDie, NextSteps, GoingIs
  <2>2. PICK gone \in SUBSET Frames :
          free' = free \cup gone /\ Destroy(p) \subseteq gone /\ gone \subseteq free \cup Destroy(p)
    <3> DEFINE unused == \A b \in Frames : Begins(b) => b \in free /\ mem[b] = Blank
    <3>1. unused
      OBVIOUS
    <3>2. \E gone \in SUBSET Frames :
            /\ free' = free \cup gone /\ Destroy(p) \subseteq gone
            /\ unused => gone \subseteq free \cup Destroy(p)
      BY <2>1, DieIs
    <3> HIDE DEF unused
    <3> QED BY <3>1, <3>2
  <2>3. HeldBy(p) = Destroy(p)
    <3>1. \A f : f \in HeldBy(p) <=> \E g \in Owners : g[1] = p /\ g[2] # "file" /\ g[4] = f
      <4> HIDE DEF Owners
      <4> QED BY DEF HeldBy
    <3>2. \A f \in Destroy(p) : \E g \in Owners : g[1] = p /\ g[2] # "file" /\ g[4] = f
      BY <2>1, DestroyIs
    <3>3. \A g \in Owners : g[1] = p /\ g[2] # "file" => g[4] \in Destroy(p)
      BY <2>1, DestroyIs
    <3> QED BY <3>1, <3>2, <3>3
  <2> QED BY <2>2, <2>3
<1>2. IInv /\ [Next]_vars => [A]_vars
  <2> HIDE DEF A
  <2> QED BY <1>1
<1>3. DestroyTakesOwn <=> [][A]_vars
  BY DEF DestroyTakesOwn
<1> HIDE DEF A
<1> QED BY <1>2, <1>3, Invariance, PTL DEF Spec

\* A break moves up when a call of brk is done, and not otherwise.
LEMMA OnlyDone ==
  ASSUME MemoryBelowHeap, IInv, Next, NEW p \in Procs, heap_brk[p] < heap_brk'[p]
  PROVE  Done /\ In("brk") /\ call.p = p /\ heap_brk'[p] = call.to
<1>1. Rest /\ CallInv
  BY NextSteps, GoingIs
<1>2. heap_brk \in [Procs -> HeapBase * Unit .. MaxBrk] /\ HeapBase * Unit \in Nat /\ MaxBrk \in Nat
  <2>1. HeapBase \in Nat /\ MaxBrk \in Nat /\ Unit \in Nat
    BY LayoutAssumption, PageAssumption
  <2>2. HeapBase * Unit \in Nat
    BY <2>1
  <2> QED BY <1>1, <2>1, <2>2 DEF Rest
<1>3. heap_brk'[p] # heap_brk[p]
  BY <1>2
<1>4. ASSUME NEW q \in Procs, Die(q) PROVE FALSE
  <2> DEFINE h == HeapBase * Unit
  <2>1. heap_brk' = [heap_brk EXCEPT ![q] = h] /\ heap_brk[p] \in h .. MaxBrk
    BY <1>2, <1>4 DEF Die
  <2>2. h \in Nat /\ MaxBrk \in Nat /\ heap_brk \in [Procs -> h .. MaxBrk]
    BY <1>2
  <2> HIDE DEF h
  <2>3. heap_brk'[p] = h \/ heap_brk'[p] = heap_brk[p]
    BY <2>1, <2>2
  <2> QED BY <2>1, <2>2, <2>3
<1>5. ASSUME NEW q \in Procs, LoadFails(q) \/ Exit(q) PROVE FALSE
  BY <1>4, <1>5 DEF LoadFails, Exit
<1>6. ASSUME NoMemory PROVE FALSE
  <2>1. In("load") /\ Die(call.p)
    BY <1>3, <1>6 DEF NoMemory, procVars
  <2>2. call.p \in Procs
    BY <1>1, <2>1 DEF CallInv, In, Mapping
  <2> SUFFICES ASSUME NEW q, q = call.p PROVE FALSE
    OBVIOUS
  <2> QED BY <1>4, <2>1, <2>2
<1>7. ASSUME NEW q \in Procs, Create(q) \/ Space(q) \/ Mmap(q) \/ Munmap(q) \/ Malloc(q) \/ Read(q)
                             \/ Open(q) \/ Close(q)
      PROVE  FALSE
  <2>1. UNCHANGED heap_brk
    BY <1>7 DEF Create, Space, Mmap, Munmap, Malloc, Read, Open, Close, procVars
  <2> QED BY <1>3, <2>1
<1>8. ASSUME Loaded \/ MapNext \/ AllocPages \/ AllocNext \/ Allocated \/ AllocFails \/ FreePages
      PROVE  FALSE
  <2>1. UNCHANGED heap_brk
    BY <1>8 DEF Loaded, MapNext, AllocPages, AllocNext, Allocated, AllocFails, FreePages, procVars
  <2> QED BY <1>3, <2>1
<1>9. Done
  BY <1>5, <1>6, <1>7, <1>8, Zenon DEF Next
<1>10. heap_brk' = IF In("brk") THEN [heap_brk EXCEPT ![call.p] = call.to] ELSE heap_brk
  BY <1>9 DEF Done
<1>11. In("brk")
  BY <1>3, <1>10
<1>12. call.p = p /\ heap_brk'[p] = call.to
  BY <1>2, <1>3, <1>10, <1>11
<1> QED BY <1>9, <1>11, <1>12

\* What malloc returns is mapped, unless there was no table for it (syscall.c:162-171,
\* libc.c:110-119).
THEOREM MallocMaps == MemoryBelowHeap => (Spec => MallocIsMapped)
<1> SUFFICES ASSUME MemoryBelowHeap PROVE Spec => MallocIsMapped
  OBVIOUS
<1> DEFINE A == \A p \in Procs : heap_brk[p] < heap_brk'[p] =>
                  \A v \in HeapBase .. MaxBrk :
                    heap_brk[p] <= v * Unit /\ v * Unit < heap_brk'[p] =>
                      Maps(p, v)' \/ TableOf(p, v)' = Big
<1>1. ASSUME IInv, Next PROVE A
  <2> SUFFICES ASSUME NEW p \in Procs, heap_brk[p] < heap_brk'[p], NEW v \in HeapBase .. MaxBrk,
                      heap_brk[p] <= v * Unit, v * Unit < heap_brk'[p]
               PROVE  Maps(p, v)' \/ TableOf(p, v)' = Big
    OBVIOUS
  <2>1. Done /\ In("brk") /\ call.p = p /\ heap_brk'[p] = call.to
    BY <1>1, OnlyDone
  <2>2. call.name = "brk" /\ call.todo = <<>> /\ UNCHANGED memory
    BY <2>1 DEF Done, In
  <2>3. Rest /\ BrkInv
    BY <1>1, <2>2, NextSteps, GoingIs DEF CallInv
  <2>4. v \in Nat /\ heap_brk[p] \in Nat /\ call.to \in Nat /\ Upto(heap_brk[p]) \in Nat
        /\ v * Unit \in Nat
    BY <2>3, BrkType, PageAssumption DEF BrkInv
  <2>5. Upto(heap_brk[p]) <= v
    BY <2>4, UptoIs
  <2>6. ~(Upto(call.to) <= v) /\ Upto(call.to) \in Nat
    BY <2>1, <2>4, UptoIs, UptoType
  <2>7. NextBrk = Upto(call.to)
    BY <2>2, <2>6 DEF NextBrk, Left
  <2>8. v \in Upto(heap_brk[call.p]) .. NextBrk - 1
    BY <2>1, <2>4, <2>5, <2>6, <2>7
  <2>9. Maps(p, v) \/ TableOf(p, v) = Big
    BY <2>1, <2>3, <2>8 DEF BrkInv
  <2> QED BY <2>2, <2>9 DEF Maps, TableOf, memory
<1>2. IInv /\ [Next]_vars => [A]_vars
  <2> HIDE DEF A
  <2> QED BY <1>1
<1>3. MallocIsMapped <=> [][A]_vars
  BY DEF MallocIsMapped
<1> HIDE DEF A
<1> QED BY <1>2, <1>3, Invariance, PTL DEF Spec
=============================================================================
