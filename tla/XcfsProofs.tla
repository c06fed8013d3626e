----------------------------- MODULE XcfsProofs -----------------------------
(***************************************************************************)
(* Xcfs, for every table, every layout of the disk, any paths and sizes,   *)
(* and any number of calls, power failures and starts: the types, the tree *)
(* and, as long as the entries in use are not stored in data sectors, the  *)
(* names in memory and on the disk, and what the sectors of the files hold.*)
(***************************************************************************)
EXTENDS Xcfs, FiniteSetTheorems, SequenceTheorems, TLAPS

---------------------------------------------------------------------------
\* The least of a set of numbers, from the well-foundedness of the finite sets under
\* inclusion; and what it gives, induction up to a number.
LEMMA LeastNumber ==
  ASSUME NEW S, S \subseteq Nat, S # {}
  PROVE  \E n \in S : \A m \in S : n <= m
<1> DEFINE T == {0 .. n : n \in S}
<1>1. T \subseteq FiniteSubsetsOf(Nat) /\ T # {}
  <2>1. ASSUME NEW n \in S PROVE 0 .. n \in FiniteSubsetsOf(Nat)
    <3>1. 0 \in Int /\ n \in Int /\ 0 .. n \in SUBSET Nat
      OBVIOUS
    <3> QED BY <3>1, FS_Interval, Zenon DEF FiniteSubsetsOf
  <2> QED BY <2>1
<1>2. PICK x \in T : \A y \in T : ~(<<y, x>> \in StrictSubsetOrdering(Nat))
  BY <1>1, FS_StrictSubsetOrderingWellFounded, WFMin, Zenon
<1>3. PICK n \in S : x = 0 .. n
  OBVIOUS
<1>4. ASSUME NEW m \in S, m < n PROVE FALSE
  <2>1. 0 .. m \in T /\ 0 .. m \subseteq 0 .. n /\ 0 .. m # 0 .. n /\ 0 .. n \subseteq Nat
    BY <1>4
  <2> QED BY <1>2, <1>3, <2>1 DEF StrictSubsetOrdering
<1> QED BY <1>4

LEMMA UpToNumber ==
  ASSUME NEW n \in Nat, NEW Good, 0 \in Good, \A k \in 1 .. n : k - 1 \in Good => k \in Good
  PROVE  0 .. n \subseteq Good
<1> DEFINE Bad == (0 .. n) \ Good
<1>1. SUFFICES ASSUME Bad # {} PROVE FALSE
  OBVIOUS
<1>2. PICK k \in Bad : \A j \in Bad : k <= j
  <2>1. Bad \subseteq Nat
    OBVIOUS
  <2> QED BY <1>1, <2>1, LeastNumber
<1>3. k \in 1 .. n /\ k - 1 \in 0 .. n /\ k - 1 \notin Bad
  BY <1>2
<1> QED BY <1>3

---------------------------------------------------------------------------
\* A function that is defined by recursion on the numbers up to n exists, and keeps what
\* each step keeps.
IsRecursion(h, n, base, g) ==
  /\ h = [k \in 0 .. n |-> h[k]] /\ h[0] = base
  /\ \A k \in 1 .. n : h[k] = g[<<k, h[k - 1]>>]

LEMMA Recursion ==
  ASSUME NEW n \in Nat, NEW base, NEW g
  PROVE  \E h : IsRecursion(h, n, base, g)
<1> DEFINE Is(h, m) == h = [k \in 0 .. m |-> IF k = 0 THEN base ELSE g[<<k, h[k - 1]>>]]
           Good == {m \in 0 .. n : \E h : Is(h, m)}
<1>1. 0 \in Good
  <2>1. Is([k \in 0 .. 0 |-> base], 0)
    OBVIOUS
  <2> HIDE DEF Is
  <2> QED BY <2>1
<1>2. ASSUME NEW m \in 1 .. n, m - 1 \in Good PROVE m \in Good
  <2>1. PICK f : Is(f, m - 1)
    BY <1>2
  <2> DEFINE h == [k \in 0 .. m |-> IF k = m THEN g[<<m, f[m - 1]>>] ELSE f[k]]
  <2>2. ASSUME NEW k \in 0 .. m
        PROVE  h[k] = IF k = 0 THEN base ELSE g[<<k, h[k - 1]>>]
    <3>1. CASE k = m
      <4>1. k # 0 /\ k - 1 \in 0 .. m /\ k - 1 # m
        BY <3>1
      <4> QED BY <3>1, <4>1
    <3>2. CASE k # m
      <4>1. k \in 0 .. m - 1
        BY <3>2
      <4>2. f[k] = IF k = 0 THEN base ELSE g[<<k, f[k - 1]>>]
        BY <2>1, <4>1
      <4>3. k # 0 => k - 1 \in 0 .. m /\ k - 1 # m
        BY <3>2
      <4> QED BY <3>2, <4>2, <4>3
    <3> QED BY <3>1, <3>2
  <2>3. Is(h, m)
    BY <2>2
  <2> HIDE DEF Is, h
  <2> QED BY <2>3
<1>3. n \in Good
  <2> HIDE DEF Good
  <2>1. 0 .. n \subseteq Good
    BY <1>1, <1>2, UpToNumber
  <2> QED BY <2>1
<1>4. PICK h : Is(h, n)
  BY <1>3
<1>5. \A k \in 0 .. n : h[k] = IF k = 0 THEN base ELSE g[<<k, h[k - 1]>>]
  BY <1>4
<1>6. h = [k \in 0 .. n |-> h[k]]
  BY <1>4
<1>7. 0 \in 0 .. n /\ \A k \in 1 .. n : k \in 0 .. n /\ k # 0
  OBVIOUS
<1>8. h[0] = base /\ \A k \in 1 .. n : h[k] = g[<<k, h[k - 1]>>]
  BY <1>5, <1>7, Zenon
<1> QED BY <1>6, <1>8 DEF IsRecursion

LEMMA RecursionKeeps ==
  ASSUME NEW n \in Nat, NEW base, NEW c, NEW Inv, base \in Inv[0], c[0] = base,
         \A k \in 1 .. n : c[k - 1] \in Inv[k - 1] => c[k] \in Inv[k]
  PROVE  \A k \in 0 .. n : c[k] \in Inv[k]
<1> DEFINE Good == {k \in 0 .. n : c[k] \in Inv[k]}
<1>1. 0 \in Good /\ \A k \in 1 .. n : k - 1 \in Good => k \in Good
  OBVIOUS
<1> HIDE DEF Good
<1>2. 0 .. n \subseteq Good
  BY <1>1, UpToNumber
<1> QED BY <1>2 DEF Good

---------------------------------------------------------------------------
\* The layout, and what the sectors hold.

\* An entry of the table, wherever it says that its file lies, and one that lies in the
\* data, or is neither a file nor a directory and then has no path.
Record == [path : Paths \cup {NoPath}, type : {"none", "dir", "file"}, start : Int,
           size : Sizes \cup {0}, parent : Slots]
Placed == {e \in EntryType : /\ e.type = "file" => Extent(e) \subseteq Data
                             /\ e.type = "none" => e.path = NoPath}
Content == [kind : {"zero"}] \cup [kind : {"header"}, count : 0 .. MaxFiles]
           \cup [kind : {"entry"}, entry : Placed]
           \cup [kind : {"bitmap"}, bits : SUBSET Data]
           \cup [kind : {"data"}, of : Paths, part : Nat]

LEMMA Layout ==
  /\ 0 \in Slots /\ 0 \in Sectors /\ 0 \notin Data /\ Data \subseteq Sectors
  /\ \A i \in Slots : i \in Nat /\ EntrySector(i) \in Sectors \ {0, BitmapSector}
  /\ BitmapSector \in Sectors \ {0}
  /\ Sectors \subseteq Int
  /\ \A i, j \in Slots : EntrySector(i) = EntrySector(j) => i = j
  BY LayoutAssumption DEF Slots, Sectors, Data, EntrySector, BitmapSector

LEMMA PlacedIs ==
  /\ Placed \subseteq Record /\ Cleared \in Placed /\ RootEntry \in Placed
  /\ Cleared.path = NoPath /\ Cleared.type = "none" /\ Cleared.size = 0
  /\ RootEntry.path = Root /\ RootEntry.type = "dir" /\ RootEntry.size = 0
<1>1. 0 \in Slots /\ 0 .. Total \subseteq Int /\ 0 \in 0 .. Total
  BY Layout, LayoutAssumption
<1>2. Cleared \in EntryType /\ Cleared.type = "none"
  BY <1>1 DEF Cleared, EntryType
<1>3. RootEntry \in EntryType /\ RootEntry.type = "dir" /\ RootEntry.path = Root /\ RootEntry.size = 0
  BY <1>1, PathAssumption DEF Cleared, RootEntry, EntryType
<1>4. EntryType \subseteq Record
  BY <1>1 DEF EntryType, Record
<1>5. Cleared.path = NoPath /\ Cleared.size = 0
  BY DEF Cleared
<1> QED BY <1>2, <1>3, <1>4, <1>5 DEF Placed

LEMMA ContentIs ==
  ASSUME NEW x \in Content
  PROVE  /\ x.kind \in {"zero", "header", "entry", "bitmap", "data"}
         /\ x.kind = "header" => x.count \in 0 .. MaxFiles
         /\ x.kind = "entry" => x.entry \in Placed
         /\ x.kind = "bitmap" => x.bits \in SUBSET Data
  BY DEF Content

LEMMA ContentMade ==
  /\ Zero \in Content
  /\ \A n \in 0 .. MaxFiles : Header(n) \in Content
  /\ \A e \in Placed : Entry(e) \in Content
  /\ \A b \in SUBSET Data : Bitmap(b) \in Content
  /\ \A p \in Paths, k \in Nat : Part(p, k) \in Content
  BY DEF Content, Zero, Header, Entry, Bitmap, Part

\* What a sector is when it is read back.
LEMMA ReadBack ==
  /\ \A n : Header(n).kind = "header" /\ Header(n).count = n
  /\ \A e : Entry(e).kind = "entry" /\ Entry(e).entry = e
  /\ Zero.kind = "zero"
  BY DEF Header, Entry, Zero

LEMMA OnDisk ==
  ASSUME NEW d \in [Sectors -> Content]
  PROVE  /\ CountOn(d) \in 0 .. MaxFiles
         /\ \A i \in Slots : EntryOn(d, i) \in Placed
         /\ BitmapOn(d) \in SUBSET Data
<1>1. d[0] \in Content /\ d[BitmapSector] \in Content /\ \A i \in Slots : d[EntrySector(i)] \in Content
  BY Layout
<1>2. CountOn(d) \in 0 .. MaxFiles
  BY <1>1, ContentIs, LayoutAssumption DEF CountOn
<1>3. ASSUME NEW i \in Slots PROVE EntryOn(d, i) \in Placed
  BY <1>1, ContentIs, PlacedIs DEF EntryOn
<1>4. BitmapOn(d) \in SUBSET Data
  BY <1>1, ContentIs DEF BitmapOn
<1> QED BY <1>2, <1>3, <1>4

LEMMA BlocksAre ==
  ASSUME NEW e \in Record
  PROVE  /\ Blocks(e.size) \in Nat \ {0} /\ e.start \in Int
         /\ Extent(e) = e.start .. e.start + Blocks(e.size) - 1
         /\ e.start \in Extent(e)
<1>0. e.size \in Sizes \cup {0} /\ e.start \in Int
  BY DEF Record
<1>a. \A z \in Sizes \cup {0} : z \in Nat
  BY SizeAssumption
<1>1. e.size \in Nat /\ e.start \in Int
  BY <1>0, <1>a, Zenon
<1>2. Blocks(e.size) \in Nat \ {0}
  BY <1>1 DEF Blocks
<1> HIDE DEF Blocks
<1>3. Extent(e) = e.start .. e.start + Blocks(e.size) - 1
  BY DEF Extent, Run
<1> QED BY <1>1, <1>2, <1>3

---------------------------------------------------------------------------
\* The moves of a delete.

\* What the loop may have done: S has the sectors that it may have written to.
Work(S) == [ents : [Slots -> Record], bitmap : SUBSET Data, disk : [Sectors -> Content],
            todo : Seq(S \X Content)]

LEMMA WriteToType ==
  ASSUME NEW S \in SUBSET Int, NEW m \in Work(S), NEW s \in S, NEW x \in Content
  PROVE  /\ WriteTo(m, s, x) \in Work(S)
         /\ WriteTo(m, s, x).ents = m.ents /\ WriteTo(m, s, x).bitmap = m.bitmap
<1> DEFINE disk1 == [m.disk EXCEPT ![s] = x]
           todo1 == Append(m.todo, <<s, x>>)
<1>1. m.disk \in [Sectors -> Content] /\ m.todo \in Seq(S \X Content)
  BY DEF Work
<1>2. disk1 \in [Sectors -> Content] /\ todo1 \in Seq(S \X Content)
  <2>1. disk1 \in [Sectors -> Content]
    BY <1>1
  <2>2. <<s, x>> \in S \X Content
    OBVIOUS
  <2> DEFINE w == <<s, x>>
  <2> HIDE DEF w
  <2>3. todo1 \in Seq(S \X Content)
    BY <1>1, <2>2, AppendProperties DEF w
  <2> QED BY <2>1, <2>3
<1>3. WriteTo(m, s, x) = [m EXCEPT !.disk = disk1, !.todo = todo1]
  BY DEF WriteTo, Work
<1> HIDE DEF disk1, todo1
<1> QED BY <1>2, <1>3 DEF Work

IsCopying(c, m, from, to, n, S) ==
  /\ c[0] = m /\ Copy(m, from, to, n) = c[n]
  /\ \A k \in 1 .. n : c[k] = WriteTo(c[k - 1], to + k - 1, c[k - 1].disk[from + k - 1])
  /\ \A k \in 0 .. n : c[k] \in Work(S) /\ c[k].ents = m.ents /\ c[k].bitmap = m.bitmap

\* A copy of sectors that exist is made sector by sector, and leaves the entries and the
\* bitmap alone.
LEMMA CopySteps ==
  ASSUME NEW S \in SUBSET Int, NEW m \in Work(S), NEW from \in Int, NEW to \in Int,
         NEW n \in Nat, Run(from, n) \subseteq Data, Run(to, n) \subseteq S
  PROVE  \E c : IsCopying(c, m, from, to, n, S)
<1> DEFINE One(x, k) == WriteTo(x, to + k - 1, x.disk[from + k - 1])
           Body(c) == [k \in 0 .. n |-> IF k = 0 THEN m ELSE One(c[k - 1], k)]
           Same == {x \in Work(S) : x.ents = m.ents /\ x.bitmap = m.bitmap}
           Inv == [k \in 0 .. n |-> Same]
           g == [z \in (1 .. n) \X Work(S) |-> One(z[2], z[1])]
           c == CHOOSE c : c = Body(c)
<1>1. ASSUME NEW k \in 1 .. n, NEW x \in Same PROVE One(x, k) \in Same
  <2>1. to + k - 1 \in S /\ from + k - 1 \in Sectors
    <3>1. to + k - 1 \in Run(to, n) /\ from + k - 1 \in Run(from, n)
      BY DEF Run
    <3> QED BY <3>1, Layout
  <2>2. x.disk[from + k - 1] \in Content
    BY <2>1 DEF Work
  <2>3. x \in Work(S) /\ x.ents = m.ents /\ x.bitmap = m.bitmap
    OBVIOUS
  <2> QED BY <2>1, <2>2, <2>3, WriteToType, Zenon
<1>2. PICK h : IsRecursion(h, n, m, g)
  <2> HIDE DEF g
  <2> QED BY Recursion
<1>3. m \in Same
  OBVIOUS
<1>4. h[0] = m /\ \A k \in 1 .. n : h[k] = g[<<k, h[k - 1]>>]
  BY <1>2, Zenon DEF IsRecursion
<1>5. \A k \in 1 .. n, x \in Same : g[<<k, x>>] = One(x, k)
  <2> HIDE DEF One
  <2> QED OBVIOUS
<1>6. \A k \in 0 .. n : h[k] \in Same
  <2>1. Inv[0] = Same /\ \A k \in 1 .. n : Inv[k - 1] = Same /\ Inv[k] = Same
    <3> HIDE DEF Same
    <3> QED OBVIOUS
  <2>2. ASSUME NEW k \in 1 .. n, h[k - 1] \in Inv[k - 1] PROVE h[k] \in Inv[k]
    <3> HIDE DEF g, Inv, One, Same
    <3>1. h[k - 1] \in Same
      BY <2>1, <2>2
    <3>2. One(h[k - 1], k) \in Same
      BY <3>1, <1>1
    <3>3. h[k] = One(h[k - 1], k)
      BY <3>1, <1>4, <1>5
    <3> QED BY <2>1, <3>2, <3>3
  <2> HIDE DEF g, Inv, One, Same
  <2>3. \A k \in 0 .. n : h[k] \in Inv[k]
    BY <2>1, <2>2, <1>3, <1>4, RecursionKeeps
  <2>4. \A k \in 0 .. n : Inv[k] = Same
    BY DEF Inv
  <2> QED BY <2>3, <2>4
<1>7. h = Body(h)
  <2> HIDE DEF g, One, Same
  <2>1. ASSUME NEW k \in 1 .. n PROVE h[k] = One(h[k - 1], k)
    <3>1. k - 1 \in 0 .. n
      OBVIOUS
    <3> QED BY <3>1, <1>4, <1>5, <1>6
  <2>2. h = [k \in 0 .. n |-> h[k]]
    BY <1>2, Zenon DEF IsRecursion
  <2>3. \A k \in 0 .. n : h[k] = IF k = 0 THEN m ELSE One(h[k - 1], k)
    BY <2>1, <1>4
  <2>4. [k \in 0 .. n |-> h[k]] = Body(h)
    BY <2>3, Zenon
  <2> QED BY <2>2, <2>4, Zenon
<1>8. c = Body(c)
  <2> HIDE DEF Body
  <2> QED BY <1>7, Zenon
<1>9. c[0] = m /\ \A k \in 1 .. n : c[k] = One(c[k - 1], k)
  <2> HIDE DEF c, One
  <2> QED BY <1>8
<1>10. \A k \in 0 .. n : c[k] \in Same
  <2> HIDE DEF c, One, Same
  <2>1. ASSUME NEW k \in 1 .. n, c[k - 1] \in Inv[k - 1] PROVE c[k] \in Inv[k]
    <3>1. Inv[k - 1] = Same /\ Inv[k] = Same
      OBVIOUS
    <3> HIDE DEF Inv
    <3> QED BY <2>1, <3>1, <1>1, <1>9
  <2>2. Inv[0] = Same /\ \A k \in 0 .. n : Inv[k] = Same
    OBVIOUS
  <2> HIDE DEF Inv
  <2>3. \A k \in 0 .. n : c[k] \in Inv[k]
    BY <2>1, <2>2, <1>3, <1>9, RecursionKeeps
  <2> QED BY <2>2, <2>3
<1>11. Copy(m, from, to, n) = c[n]
  BY Zenon DEF Copy
<1>12. \A k \in 0 .. n : c[k] \in Work(S) /\ c[k].ents = m.ents /\ c[k].bitmap = m.bitmap
  <2> HIDE DEF c
  <2> QED BY <1>10
<1> HIDE DEF c
<1> QED BY <1>9, <1>11, <1>12, Zenon DEF IsCopying

LEMMA CopyType ==
  ASSUME NEW S \in SUBSET Int, NEW m \in Work(S), NEW from \in Int, NEW to \in Int,
         NEW n \in Nat, Run(from, n) \subseteq Data, Run(to, n) \subseteq S
  PROVE  /\ Copy(m, from, to, n) \in Work(S)
         /\ Copy(m, from, to, n).ents = m.ents /\ Copy(m, from, to, n).bitmap = m.bitmap
<1>1. PICK c : IsCopying(c, m, from, to, n, S)
  BY CopySteps, Zenon
<1>2. n \in 0 .. n
  OBVIOUS
<1> QED BY <1>1, <1>2, Zenon DEF IsCopying

\* The move of a file changes where its entry says it starts, and nothing else of the
\* table.
Lowered(e, by) == [e EXCEPT !.start = @ - by]

LEMMA LoweredIs ==
  ASSUME NEW e \in Record, NEW by \in Int
  PROVE  /\ Lowered(e, by) \in Record
         /\ Lowered(e, by).path = e.path /\ Lowered(e, by).type = e.type
         /\ Lowered(e, by).size = e.size /\ Lowered(e, by).parent = e.parent
         /\ Lowered(e, by).start = e.start - by
         /\ Extent(Lowered(e, by)) = Run(e.start - by, Blocks(e.size))
<1>1. e.start \in Int
  BY DEF Record
<1> DEFINE low == e.start - by
<1>2. low \in Int
  BY <1>1
<1>3. Lowered(e, by) = [e EXCEPT !.start = low]
  BY DEF Lowered, Record
<1> HIDE DEF low
<1>4. /\ Lowered(e, by) \in Record
      /\ Lowered(e, by).path = e.path /\ Lowered(e, by).type = e.type
      /\ Lowered(e, by).size = e.size /\ Lowered(e, by).parent = e.parent
      /\ Lowered(e, by).start = low
  BY <1>2, <1>3 DEF Record
<1>5. Extent(Lowered(e, by)) = Run(low, Blocks(e.size))
  BY <1>4, Zenon DEF Extent
<1> QED BY <1>4, <1>5 DEF low

LEMMA MoveDownType ==
  ASSUME NEW S \in SUBSET Int, NEW m \in Work(S), NEW f \in Slots, NEW by \in Int,
         Extent(m.ents[f]) \subseteq Data,
         Run(m.ents[f].start - by, Blocks(m.ents[f].size)) \subseteq S
  PROVE  /\ MoveDown(m, f, by) \in Work(S)
         /\ MoveDown(m, f, by).ents = [m.ents EXCEPT ![f] = Lowered(m.ents[f], by)]
<1> DEFINE e == m.ents[f]
           new == Lowered(e, by)
           x == Copy(m, e.start, e.start - by, Blocks(e.size))
           ents1 == [m.ents EXCEPT ![f] = new]
           bits1 == (m.bitmap \ Extent(e)) \cup (Extent(new) \cap Data)
<1>1. m.ents \in [Slots -> Record] /\ e \in Record /\ m.bitmap \in SUBSET Data
  BY DEF Work
<1>2. e.start \in Int /\ e.start - by \in Int /\ Blocks(e.size) \in Nat
  BY <1>1, BlocksAre
<1>3. Run(e.start, Blocks(e.size)) \subseteq Data
  BY DEF Extent
<1>4. x \in Work(S) /\ x.ents = m.ents /\ x.bitmap = m.bitmap
  <2> DEFINE from == e.start
             to == e.start - by
             n == Blocks(e.size)
  <2>1. Run(to, n) \subseteq S /\ Run(from, n) \subseteq Data
    BY <1>3
  <2>2. from \in Int /\ to \in Int /\ n \in Nat
    BY <1>2
  <2> HIDE DEF from, to, n
  <2>3. /\ Copy(m, from, to, n) \in Work(S)
        /\ Copy(m, from, to, n).ents = m.ents /\ Copy(m, from, to, n).bitmap = m.bitmap
    BY <2>1, <2>2, CopyType
  <2> QED BY <2>3 DEF from, to, n
<1>5. new \in Record
  BY <1>1, LoweredIs
<1>6. ents1 \in [Slots -> Record] /\ bits1 \in SUBSET Data
  <2> HIDE DEF new, e
  <2> QED BY <1>1, <1>5
<1>7. MoveDown(m, f, by) = [x EXCEPT !.ents = ents1, !.bitmap = bits1]
  <2>1. new = [e EXCEPT !.start = @ - by] /\ new.start = e.start - by
    BY <1>1, LoweredIs DEF Lowered
  <2>2. MoveDown(m, f, by) = [Copy(m, e.start, new.start, Blocks(e.size)) EXCEPT
                                !.ents = [@ EXCEPT ![f] = new],
                                !.bitmap = (@ \ Extent(e)) \cup (Extent(new) \cap Data)]
    BY Zenon DEF MoveDown, Lowered
  <2>3. MoveDown(m, f, by) = [x EXCEPT !.ents = [@ EXCEPT ![f] = new],
                                       !.bitmap = (@ \ Extent(e)) \cup (Extent(new) \cap Data)]
    BY <2>1, <2>2, Zenon
  <2> HIDE DEF x, new
  <2>4. MoveDown(m, f, by) = [x EXCEPT !.ents = [x.ents EXCEPT ![f] = new],
                                       !.bitmap = (x.bitmap \ Extent(e)) \cup (Extent(new) \cap Data)]
    BY <2>3, <1>4 DEF Work
  <2> QED BY <2>4, <1>4
<1> HIDE DEF x, ents1, bits1
<1>8. MoveDown(m, f, by) \in Work(S) /\ MoveDown(m, f, by).ents = ents1
  BY <1>4, <1>6, <1>7 DEF Work
<1> QED BY <1>8 DEF ents1

Same(e, f) == /\ e.path = f.path /\ e.type = f.type /\ e.size = f.size
              /\ e.parent = f.parent

LEMMA LoweredPlaced ==
  ASSUME NEW e \in Record, e.type = "file",
         NEW by \in Int, Run(e.start - by, Blocks(e.size)) \subseteq Data
  PROVE  Lowered(e, by) \in Placed
<1> DEFINE new == Lowered(e, by)
<1>1. new \in Record /\ Extent(new) \subseteq Data /\ new.type = "file"
  BY LoweredIs
<1>2. new.start \in Data
  BY <1>1, BlocksAre
<1>3. Data \subseteq 0 .. Total
  BY LayoutAssumption DEF Data
<1> HIDE DEF new
<1>4. new \in EntryType
  <2>1. new.start \in 0 .. Total
    BY <1>2, <1>3
  <2> QED BY <1>1, <2>1 DEF Record, EntryType
<1>5. new \in Placed
  BY <1>1, <1>4 DEF Placed
<1> QED BY <1>5 DEF new

\* What the loop starts from, and a turn of it.
Begun(gone) == [ents |-> ents, bitmap |-> bitmap \ Extent(gone), disk |-> disk, todo |-> <<>>]
Turn(x, f, gone, at) ==
  IF f - 1 # at /\ Moves(x.ents[f - 1], gone) THEN MoveDown(x, f - 1, Blocks(gone.size)) ELSE x

IsCompaction(c, gone, at, S) ==
  /\ c[0] = Begun(gone) /\ Compact(gone, at) = c[file_count]
  /\ \A f \in 1 .. file_count : c[f] = Turn(c[f - 1], f, gone, at)
  /\ \A f \in 0 .. file_count :
       /\ c[f] \in Work(S)
       /\ \A j \in Slots : Same(c[f].ents[j], ents[j])
       /\ \A j \in Slots : f <= j => c[f].ents[j] = ents[j]
       /\ S \subseteq Data => \A j \in Slots : c[f].ents[j] \in Placed

\* After any number of turns of the loop the entries behind are as they were, and no
\* entry has changed but in its start.
LEMMA CompactSteps ==
  ASSUME file_count \in 0 .. MaxFiles, ents \in [Slots -> Placed], bitmap \in SUBSET Data,
         disk \in [Sectors -> Content], NEW gone \in Placed, NEW at,
         NEW S \in SUBSET Int,
         \A f \in Live \ {at} : Moves(ents[f], gone) =>
           Run(ents[f].start - Blocks(gone.size), Blocks(ents[f].size)) \subseteq S
  PROVE  \E c : IsCompaction(c, gone, at, S)
<1> DEFINE n == file_count
           by == Blocks(gone.size)
           m0 == [ents |-> ents, bitmap |-> bitmap \ Extent(gone), disk |-> disk, todo |-> <<>>]
           One(x, f) == IF f - 1 # at /\ Moves(x.ents[f - 1], gone)
                        THEN MoveDown(x, f - 1, by) ELSE x
           Body(m) == [f \in 0 .. n |-> IF f = 0 THEN m0 ELSE One(m[f - 1], f)]
           Fine(x, f) == /\ \A j \in Slots : Same(x.ents[j], ents[j])
                         /\ \A j \in Slots : f <= j => x.ents[j] = ents[j]
                         /\ S \subseteq Data => \A j \in Slots : x.ents[j] \in Placed
           Stage(f) == {x \in Work(S) : Fine(x, f)}
           Inv == [f \in 0 .. n |-> Stage(f)]
           g == [z \in (1 .. n) \X Work(S) |-> One(z[2], z[1])]
           m == CHOOSE m : m = Body(m)
<1>1. n \in Nat /\ by \in Int /\ \A f \in 1 .. n : f - 1 \in Slots /\ f - 1 \in Live
  <2>1. gone \in Record
    BY PlacedIs
  <2>2. by \in Int
    BY <2>1, BlocksAre
  <2> QED BY <2>2, LayoutAssumption DEF Slots, Live
<1>2. m0 \in Stage(0)
  <2>1. ents \in [Slots -> Record]
    BY PlacedIs
  <2>2. bitmap \ Extent(gone) \in SUBSET Data
    OBVIOUS
  <2> DEFINE none == <<>>
             bits == bitmap \ Extent(gone)
  <2>3. none \in Seq(S \X Content)
    OBVIOUS
  <2> HIDE DEF none, bits
  <2>4. [ents |-> ents, bitmap |-> bits, disk |-> disk, todo |-> none] \in Work(S)
    BY <2>1, <2>2, <2>3 DEF Work, bits
  <2>5. m0 \in Work(S) /\ m0.ents = ents
    BY <2>4 DEF none, bits
  <2> HIDE DEF m0
  <2>6. Fine(m0, 0)
    BY <2>5, Zenon DEF Same
  <2> HIDE DEF Fine
  <2> QED BY <2>5, <2>6
<1>3. ASSUME NEW f \in 1 .. n, NEW x \in Stage(f - 1) PROVE One(x, f) \in Stage(f)
  <2> DEFINE k == f - 1
             e == ents[k]
             ents1 == [x.ents EXCEPT ![k] = Lowered(x.ents[k], by)]
  <2>1. x \in Work(S) /\ Fine(x, k) /\ k \in Slots /\ k \in Live /\ k \in Nat /\ f = k + 1
    BY <1>1
  <2>2. x.ents[k] = e /\ e \in Placed /\ e \in Record /\ x.ents \in [Slots -> Record]
    BY <2>1, PlacedIs DEF Work
  <2>3. CASE k # at /\ Moves(e, gone)
    <3>1. Run(e.start - by, Blocks(e.size)) \subseteq S
      BY <2>1, <2>3
    <3>2. Extent(e) \subseteq Data
      BY <2>2, <2>3 DEF Moves, Placed
    <3>3. /\ MoveDown(x, k, by) \in Work(S)
          /\ MoveDown(x, k, by).ents = ents1
      <4> HIDE DEF by, e, k, Fine
      <4> QED BY <1>1, <2>1, <2>2, <3>1, <3>2, MoveDownType
    <3>4. One(x, f) = MoveDown(x, k, by)
      <4> HIDE DEF by
      <4> QED BY <2>2, <2>3
    <3>5. ASSUME NEW j \in Slots
          PROVE  /\ Same(ents1[j], ents[j])
                 /\ f <= j => ents1[j] = ents[j]
                 /\ S \subseteq Data => ents1[j] \in Placed
      <4>1. CASE j = k
        <5>1. ents1[j] = Lowered(e, by)
          BY <4>1, <2>2
        <5> HIDE DEF by, ents1
        <5>2. Same(ents1[j], ents[j])
          BY <5>1, <4>1, <1>1, <2>2, LoweredIs DEF Same
        <5>3. S \subseteq Data => ents1[j] \in Placed
          <6>1. e.type = "file"
            BY <2>3 DEF Moves
          <6> QED BY <5>1, <6>1, <1>1, <2>2, <3>1, LoweredPlaced
        <5>4. ~(f <= j)
          BY <4>1, <2>1
        <5> QED BY <5>2, <5>3, <5>4
      <4>2. CASE j # k
        <5>1. ents1[j] = x.ents[j]
          BY <4>2, <2>2
        <5>2. f <= j => k <= j
          BY <2>1 DEF Slots
        <5> HIDE DEF ents1, k
        <5> QED BY <2>1, <5>1, <5>2
      <4> QED BY <4>1, <4>2
    <3>6. Fine(MoveDown(x, k, by), f)
      <4> HIDE DEF ents1, k
      <4> QED BY <3>3, <3>5
    <3> HIDE DEF Fine
    <3> QED BY <3>3, <3>4, <3>6
  <2>4. CASE ~(k # at /\ Moves(e, gone))
    <3>1. One(x, f) = x
      <4> HIDE DEF by
      <4> QED BY <2>2, <2>4
    <3>2. \A j \in Slots : f <= j => k <= j
      BY <2>1 DEF Slots
    <3>3. Fine(x, f)
      <4> HIDE DEF k
      <4> QED BY <2>1, <3>2
    <3> HIDE DEF Fine
    <3> QED BY <2>1, <3>1, <3>3
  <2> QED BY <2>3, <2>4
<1>4. PICK h : IsRecursion(h, n, m0, g)
  <2> HIDE DEF g, m0, n
  <2> QED BY <1>1, Recursion
<1>5. h[0] = m0 /\ (\A f \in 1 .. n : h[f] = g[<<f, h[f - 1]>>]) /\ h = [f \in 0 .. n |-> h[f]]
  BY <1>4, Zenon DEF IsRecursion
<1>6. \A f \in 1 .. n, x \in Work(S) : g[<<f, x>>] = One(x, f)
  <2> HIDE DEF One
  <2> QED OBVIOUS
<1>7. \A f \in 0 .. n : Inv[f] = Stage(f)
  <2> HIDE DEF Stage
  <2> QED OBVIOUS
<1>8. Inv[0] = Stage(0) /\ (\A f \in 1 .. n : Inv[f - 1] = Stage(f - 1) /\ Inv[f] = Stage(f))
      /\ n \in 0 .. n
  <2> HIDE DEF Stage, Inv
  <2>1. 0 \in 0 .. n /\ n \in 0 .. n /\ \A f \in 1 .. n : f - 1 \in 0 .. n /\ f \in 0 .. n
    BY <1>1
  <2> HIDE DEF n
  <2> QED BY <1>7, <2>1, Zenon
<1>9. \A f : Stage(f) \subseteq Work(S)
  OBVIOUS
<1>10. \A f \in 0 .. n : h[f] \in Inv[f]
  <2> HIDE DEF g, Inv, One, Stage, n, m0
  <2>1. ASSUME NEW f \in 1 .. n, h[f - 1] \in Inv[f - 1] PROVE h[f] \in Inv[f]
    <3>1. h[f - 1] \in Stage(f - 1)
      BY <2>1, <1>8
    <3>2. One(h[f - 1], f) \in Stage(f)
      BY <3>1, <1>3
    <3>3. h[f] = One(h[f - 1], f)
      BY <3>1, <1>5, <1>6, <1>9
    <3> QED BY <1>8, <3>2, <3>3
  <2>2. n \in Nat /\ m0 \in Inv[0] /\ h[0] = m0
    BY <1>1, <1>2, <1>5, <1>8
  <2> QED BY <2>1, <2>2, RecursionKeeps
<1>11. h = Body(h)
  <2> HIDE DEF g, One, Stage, Inv, m0, n
  <2>1. ASSUME NEW f \in 1 .. n PROVE h[f] = One(h[f - 1], f)
    <3>1. f - 1 \in 0 .. n
      BY <1>1
    <3>2. h[f - 1] \in Work(S)
      BY <3>1, <1>7, <1>9, <1>10
    <3> QED BY <3>2, <1>5, <1>6
  <2>2. \A f \in 0 .. n : h[f] = IF f = 0 THEN m0 ELSE One(h[f - 1], f)
    <3>1. \A f \in 0 .. n : f = 0 \/ f \in 1 .. n
      BY <1>1
    <3>2. \A f \in 1 .. n : f # 0
      OBVIOUS
    <3>3. h[0] = m0
      BY <1>5
    <3> QED BY <2>1, <3>1, <3>2, <3>3, Zenon
  <2>3. [f \in 0 .. n |-> h[f]] = Body(h)
    BY <2>2, Zenon
  <2> QED BY <1>5, <2>3, Zenon
<1>12. m = Body(m)
  <2> HIDE DEF Body
  <2> QED BY <1>11, Zenon
<1>13. m[0] = m0 /\ \A f \in 1 .. n : m[f] = One(m[f - 1], f)
  <2> HIDE DEF m, One, m0
  <2> QED BY <1>1, <1>12
<1>14. \A f \in 0 .. n : m[f] \in Stage(f)
  <2> HIDE DEF m, One, Stage, Inv, m0, n
  <2>1. ASSUME NEW f \in 1 .. n, m[f - 1] \in Inv[f - 1] PROVE m[f] \in Inv[f]
    <3>1. m[f - 1] \in Stage(f - 1)
      BY <2>1, <1>8
    <3>2. One(m[f - 1], f) \in Stage(f)
      BY <3>1, <1>3
    <3> QED BY <1>8, <1>13, <3>2
  <2>2. \A f \in 0 .. n : m[f] \in Inv[f]
    BY <1>1, <1>2, <1>13, <1>8, <2>1, RecursionKeeps
  <2> QED BY <2>2, <1>7, <1>8
<1>15. Compact(gone, at) = m[n]
  BY Zenon DEF Compact
<1>16. \A f \in 0 .. n : m[f] \in Work(S) /\ Fine(m[f], f)
  <2> HIDE DEF m, n, Fine
  <2> QED BY <1>14
<1>17. m[0] = Begun(gone) /\ \A f \in 1 .. n : m[f] = Turn(m[f - 1], f, gone, at)
  <2> HIDE DEF m
  <2> QED BY <1>13, Zenon DEF Begun, Turn
<1> HIDE DEF m
<1> QED BY <1>15, <1>16, <1>17, Zenon DEF IsCompaction

LEMMA CompactType ==
  ASSUME file_count \in 0 .. MaxFiles, ents \in [Slots -> Placed], bitmap \in SUBSET Data,
         disk \in [Sectors -> Content], NEW gone \in Placed, NEW at,
         NEW S \in SUBSET Int,
         \A f \in Live \ {at} : Moves(ents[f], gone) =>
           Run(ents[f].start - Blocks(gone.size), Blocks(ents[f].size)) \subseteq S
  PROVE  /\ Compact(gone, at) \in Work(S)
         /\ \A j \in Slots : Same(Compact(gone, at).ents[j], ents[j])
         /\ S \subseteq Data => Compact(gone, at).ents \in [Slots -> Placed]
<1>1. PICK c : IsCompaction(c, gone, at, S)
  BY CompactSteps, Zenon
<1> DEFINE x == Compact(gone, at)
<1>2. file_count \in 0 .. file_count
  BY LayoutAssumption
<1>3. /\ x \in Work(S) /\ \A j \in Slots : Same(x.ents[j], ents[j])
      /\ S \subseteq Data => \A j \in Slots : x.ents[j] \in Placed
  BY <1>1, <1>2, Zenon DEF IsCompaction
<1> HIDE DEF x
<1>4. x.ents \in [Slots -> Record]
  BY <1>3 DEF Work
<1>5. S \subseteq Data => x.ents \in [Slots -> Placed]
  BY <1>3, <1>4
<1> QED BY <1>3, <1>5 DEF x

---------------------------------------------------------------------------
\* What a call has still to write.
Elems(s) == {s[k] : k \in DOMAIN s}

LEMMA ElemsOfConcat ==
  ASSUME NEW T, NEW s \in Seq(T), NEW t \in Seq(T)
  PROVE  s \o t \in Seq(T) /\ Elems(s \o t) = Elems(s) \cup Elems(t)
<1>1. s \o t \in Seq(T) /\ Len(s \o t) = Len(s) + Len(t) /\ Len(s) \in Nat /\ Len(t) \in Nat
  BY ConcatProperties, LenProperties
<1>2. DOMAIN s = 1 .. Len(s) /\ DOMAIN t = 1 .. Len(t) /\ DOMAIN (s \o t) = 1 .. Len(s) + Len(t)
  BY <1>1, LenProperties
<1>3. \A k \in 1 .. Len(s) + Len(t) : (s \o t)[k] = IF k <= Len(s) THEN s[k] ELSE t[k - Len(s)]
  BY ConcatProperties
<1>4. ASSUME NEW x \in Elems(s \o t) PROVE x \in Elems(s) \cup Elems(t)
  <2>1. PICK k \in 1 .. Len(s) + Len(t) : x = (s \o t)[k]
    BY <1>2 DEF Elems
  <2>2. k <= Len(s) => k \in 1 .. Len(s)
    BY <1>1
  <2>3. ~(k <= Len(s)) => k - Len(s) \in 1 .. Len(t)
    BY <1>1
  <2> QED BY <1>2, <1>3, <2>1, <2>2, <2>3 DEF Elems
<1>5. ASSUME NEW x \in Elems(s) PROVE x \in Elems(s \o t)
  <2>1. PICK k \in 1 .. Len(s) : x = s[k]
    BY <1>2 DEF Elems
  <2>2. k \in 1 .. Len(s) + Len(t) /\ k <= Len(s)
    BY <1>1
  <2> QED BY <1>2, <1>3, <2>1, <2>2 DEF Elems
<1>6. ASSUME NEW x \in Elems(t) PROVE x \in Elems(s \o t)
  <2>1. PICK k \in 1 .. Len(t) : x = t[k]
    BY <1>2 DEF Elems
  <2>2. Len(s) + k \in 1 .. Len(s) + Len(t) /\ ~(Len(s) + k <= Len(s)) /\ (Len(s) + k) - Len(s) = k
    BY <1>1
  <2>3. (s \o t)[Len(s) + k] = x
    BY <1>3, <2>1, <2>2
  <2> QED BY <1>2, <2>2, <2>3 DEF Elems
<1> QED BY <1>1, <1>4, <1>5, <1>6

LEMMA ElemsOfTail ==
  ASSUME NEW T, NEW s \in Seq(T), s # <<>>
  PROVE  /\ Tail(s) \in Seq(T) /\ Head(s) \in Elems(s)
         /\ Elems(s) = {Head(s)} \cup Elems(Tail(s))
<1>1. /\ Len(s) \in Nat \ {0} /\ DOMAIN s = 1 .. Len(s) /\ Head(s) = s[1]
      /\ Tail(s) \in Seq(T) /\ Len(Tail(s)) = Len(s) - 1
      /\ \A k \in 1 .. Len(s) - 1 : Tail(s)[k] = s[k + 1]
  BY HeadTailProperties, EmptySeq, LenProperties
<1>2. DOMAIN Tail(s) = 1 .. Len(s) - 1
  BY <1>1, LenProperties
<1>3. 1 \in 1 .. Len(s) /\ \A k \in 1 .. Len(s) - 1 : k + 1 \in 1 .. Len(s)
  BY <1>1
<1>4. Head(s) \in Elems(s) /\ Elems(Tail(s)) \subseteq Elems(s)
  BY <1>1, <1>2, <1>3 DEF Elems
<1>5. ASSUME NEW x \in Elems(s), x # Head(s) PROVE x \in Elems(Tail(s))
  <2>1. PICK k \in 1 .. Len(s) : x = s[k]
    BY <1>1 DEF Elems
  <2>2. k # 1
    BY <1>1, <1>5, <2>1
  <2>3. k - 1 \in 1 .. Len(s) - 1 /\ (k - 1) + 1 = k
    BY <1>1, <2>2
  <2>4. Tail(s)[k - 1] = x
    BY <1>1, <2>1, <2>3
  <2> QED BY <1>2, <2>3, <2>4 DEF Elems
<1> QED BY <1>1, <1>4, <1>5

LEMMA ElemsTyped ==
  ASSUME NEW T, NEW s \in Seq(T)
  PROVE  Elems(s) \subseteq T
  BY DEF Elems

IsList(s, n) == s = [k \in 1 .. n |-> s[k]]

LEMMA SeqOf ==
  ASSUME NEW T, NEW n \in Nat, NEW s, IsList(s, n), \A k \in 1 .. n : s[k] \in T
  PROVE  s \in Seq(T) /\ Elems(s) = {s[k] : k \in 1 .. n}
<1>1. s \in [1 .. n -> T] /\ DOMAIN s = 1 .. n
  BY DEF IsList
<1>2. s \in Seq(T)
  BY <1>1, SeqDef
<1> QED BY <1>1, <1>2 DEF Elems

LEMMA OneElem ==
  ASSUME NEW T, NEW w \in T
  PROVE  <<w>> \in Seq(T) /\ Elems(<<w>>) = {w}
  BY DEF Elems

LEMMA NoElem ==
  ASSUME NEW T
  PROVE  <<>> \in Seq(T) /\ Elems(<<>>) = {}
  BY DEF Elems

\* A part of the table, with the sectors it is saved in.
Row(es, i) == <<EntrySector(i), Entry(es[i])>>
RowsOf(es, from, to) == {Row(es, i) : i \in from .. to - 1}

LEMMA RowIs ==
  ASSUME NEW es, NEW from, NEW to, NEW w \in RowsOf(es, from, to)
  PROVE  \E j \in from .. to - 1 : w = <<EntrySector(j), Entry(es[j])>>
  BY DEF RowsOf, Row

LEMMA RowTyped ==
  ASSUME NEW es \in [Slots -> Placed]
  PROVE  \A i \in Slots : Row(es, i) \in Sectors \X Content
<1>1. ASSUME NEW i \in Slots PROVE Row(es, i) \in Sectors \X Content
  <2>1. Entry(es[i]) \in Content /\ EntrySector(i) \in Sectors
    BY ContentMade, Layout
  <2> QED BY <2>1 DEF Row
<1> QED BY <1>1

LEMMA SaveEntriesIs ==
  ASSUME NEW es, NEW from \in Nat, NEW to \in Nat,
         from <= to, to <= MaxFiles, NEW U, \A i \in Slots : Row(es, i) \in U
  PROVE  /\ SaveEntries(es, from, to) \in Seq(U)
         /\ Elems(SaveEntries(es, from, to)) = RowsOf(es, from, to)
<1> DEFINE at(k) == from + k - 1
           n == to - from
           s == SaveEntries(es, from, to)
<1>1. n \in Nat /\ \A k \in 1 .. n : at(k) \in Slots /\ at(k) \in from .. to - 1
  BY LayoutAssumption DEF Slots
<1>2. \A i \in from .. to - 1 : i - from + 1 \in 1 .. n /\ at(i - from + 1) = i
  OBVIOUS
<1>4. s = [k \in 1 .. n |-> Row(es, at(k))]
  BY DEF SaveEntries, Row
<1> HIDE DEF n, s
<1>5. \A k \in 1 .. n : s[k] = Row(es, at(k))
  BY <1>4
<1>6. IsList(s, n)
  BY <1>4 DEF IsList
<1>7. s \in Seq(U) /\ Elems(s) = {s[k] : k \in 1 .. n}
  <2>1. \A k \in 1 .. n : s[k] \in U
    BY <1>1, <1>5
  <2> HIDE DEF at
  <2> QED BY <1>1, <1>6, <2>1, SeqOf
<1>8. {s[k] : k \in 1 .. n} = {Row(es, i) : i \in from .. to - 1}
  <2> HIDE DEF at
  <2>1. {s[k] : k \in 1 .. n} \subseteq {Row(es, i) : i \in from .. to - 1}
    BY <1>1, <1>5
  <2>2. ASSUME NEW i \in from .. to - 1 PROVE Row(es, i) \in {s[k] : k \in 1 .. n}
    <3>1. i - from + 1 \in 1 .. n /\ s[i - from + 1] = Row(es, i)
      BY <1>2, <1>5
    <3> QED BY <3>1
  <2> QED BY <2>1, <2>2
<1> QED BY <1>7, <1>8 DEF s, RowsOf

LEMMA SavesAre ==
  ASSUME NEW U
  PROVE  /\ \A n : <<0, Header(n)>> \in U =>
              /\ SaveHeader(n) \in Seq(U) /\ Elems(SaveHeader(n)) = {<<0, Header(n)>>}
         /\ \A b : <<BitmapSector, Bitmap(b)>> \in U =>
              /\ SaveBitmap(b) \in Seq(U)
              /\ Elems(SaveBitmap(b)) = {<<BitmapSector, Bitmap(b)>>}
<1>1. \A n : <<0, Header(n)>> \in U =>
        SaveHeader(n) \in Seq(U) /\ Elems(SaveHeader(n)) = {<<0, Header(n)>>}
  BY OneElem, Zenon DEF SaveHeader
<1>2. \A b : <<BitmapSector, Bitmap(b)>> \in U =>
        SaveBitmap(b) \in Seq(U) /\ Elems(SaveBitmap(b)) = {<<BitmapSector, Bitmap(b)>>}
  BY OneElem, Zenon DEF SaveBitmap
<1> QED BY <1>1, <1>2

LEMMA SavesTyped ==
  /\ \A n \in 0 .. MaxFiles : <<0, Header(n)>> \in Sectors \X Content
  /\ \A b \in SUBSET Data : <<BitmapSector, Bitmap(b)>> \in Sectors \X Content
  BY ContentMade, Layout

\* The data that create and write save.
LEMMA SaveDataIs ==
  ASSUME NEW s \in Int, NEW n \in Nat, Run(s, n) \subseteq Data, NEW p \in Paths
  PROVE  /\ SaveData(s, n, LAMBDA k : Zero) \in Seq(Data \X Content)
         /\ SaveData(s, n, LAMBDA k : Part(p, k)) \in Seq(Data \X Content)
<1>1. \A k \in 1 .. n : s + k - 1 \in Data /\ k \in Nat
  <2>1. \A k \in 1 .. n : s + k - 1 \in s .. s + n - 1 /\ k \in Nat
    OBVIOUS
  <2> QED BY <2>1 DEF Run
<1>2. SaveData(s, n, LAMBDA k : Zero) = [k \in 1 .. n |-> <<s + k - 1, Zero>>]
  BY DEF SaveData
<1>3. SaveData(s, n, LAMBDA k : Part(p, k)) = [k \in 1 .. n |-> <<s + k - 1, Part(p, k)>>]
  BY DEF SaveData
<1>4. \A k \in 1 .. n : <<s + k - 1, Zero>> \in Data \X Content
  BY <1>1, ContentMade
<1>5. \A k \in 1 .. n : <<s + k - 1, Part(p, k)>> \in Data \X Content
  BY <1>1, ContentMade
<1>6. [k \in 1 .. n |-> <<s + k - 1, Zero>>] \in Seq(Data \X Content)
  <2> DEFINE f == [k \in 1 .. n |-> <<s + k - 1, Zero>>]
             T == Data \X Content
  <2>1. f \in [1 .. n -> T]
    BY <1>4
  <2> HIDE DEF f, T
  <2>2. f \in Seq(T)
    BY <2>1, SeqDef
  <2> QED BY <2>2 DEF f, T
<1>7. [k \in 1 .. n |-> <<s + k - 1, Part(p, k)>>] \in Seq(Data \X Content)
  <2> DEFINE f == [k \in 1 .. n |-> <<s + k - 1, Part(p, k)>>]
             T == Data \X Content
  <2>1. f \in [1 .. n -> T]
    BY <1>5
  <2> HIDE DEF f, T
  <2>2. f \in Seq(T)
    BY <2>1, SeqDef
  <2> QED BY <2>2 DEF f, T
<1> QED BY <1>2, <1>3, <1>6, <1>7

---------------------------------------------------------------------------
\* The types.  A delete that moves a file out of the data ends the model, and leaves an
\* entry that is no longer one of a file in the data.
TypeInv ==
  /\ file_count \in 0 .. MaxFiles
  /\ ents \in [Slots -> Record] /\ bitmap \in SUBSET Data
  /\ disk \in [Sectors -> Content]
  /\ up \in BOOLEAN /\ clean \in BOOLEAN /\ strayed \in BOOLEAN
  /\ boots \in 0 .. MaxBoots /\ calls \in 0 .. MaxCalls
  /\ call \in {"off", "init", "mkdir", "create", "write", "delete"}
  /\ written \in SUBSET Paths
  /\ ~up => todo = <<>>
  /\ ~strayed => ents \in [Slots -> Placed] /\ todo \in Seq(Sectors \X Content)
  /\ strayed => todo # <<>> /\ up

LEMMA IndexOfIs ==
  ASSUME file_count \in 0 .. MaxFiles, NEW p, Has(p)
  PROVE  IndexOf(p) \in Live /\ IndexOf(p) \in Slots /\ ents[IndexOf(p)].path = p
<1> DEFINE S == {i \in Live : ents[i].path = p}
<1>1. S \subseteq Nat /\ S # {} /\ Live \subseteq Slots
  BY LayoutAssumption DEF Has, Live, Slots
<1>2. PICK i \in S : \A j \in S : i <= j
  <2> HIDE DEF S
  <2> QED BY <1>1, LeastNumber
<1>3. i \in Live /\ ents[i].path = p /\ \A j \in Live : ents[j].path = p => i <= j
  BY <1>2
<1>4. IndexOf(p) \in Live /\ ents[IndexOf(p)].path = p
  BY <1>3, Zenon DEF IndexOf
<1> QED BY <1>1, <1>4

LEMMA NewDirPlaced ==
  ASSUME file_count \in 0 .. MaxFiles, NEW p \in Paths, MayAdd(p)
  PROVE  NewEntry(p, "dir", 0, 0) \in Placed
<1>1. IndexOf(ParentOf[p]) \in Slots
  BY IndexOfIs DEF MayAdd
<1>2. 0 \in 0 .. Total
  BY LayoutAssumption
<1>3. NewEntry(p, "dir", 0, 0) \in EntryType /\ NewEntry(p, "dir", 0, 0).type = "dir"
  BY <1>1, <1>2 DEF NewEntry, EntryType
<1> QED BY <1>3 DEF Placed

LEMMA NewFilePlaced ==
  ASSUME file_count \in 0 .. MaxFiles, NEW p \in Paths, MayAdd(p), NEW size \in Sizes,
         NEW s \in Data, FirstFit(s, Blocks(size))
  PROVE  /\ NewEntry(p, "file", s, size) \in Placed
         /\ Blocks(size) \in Nat /\ s \in Int /\ Run(s, Blocks(size)) \subseteq Data
<1> DEFINE e == NewEntry(p, "file", s, size)
<1>1. IndexOf(ParentOf[p]) \in Slots
  BY IndexOfIs DEF MayAdd
<1>2. s \in 0 .. Total /\ s \in Int
  BY LayoutAssumption DEF Data
<1>3. e \in EntryType /\ e.start = s /\ e.size = size /\ e.type = "file"
  BY <1>1, <1>2 DEF NewEntry, EntryType
<1>4. Run(s, Blocks(size)) \subseteq Data
  BY DEF FirstFit, Fits
<1>5. Extent(e) \subseteq Data
  BY <1>3, <1>4, Zenon DEF Extent
<1>6. size \in Nat
  BY SizeAssumption
<1>7. Blocks(size) \in Nat
  BY <1>6 DEF Blocks
<1> HIDE DEF e
<1>8. e \in Placed
  BY <1>3, <1>5 DEF Placed
<1> QED BY <1>2, <1>4, <1>7, <1>8 DEF e

\* The last entry in the place of the deleted one.
Follow(e, i) == [e EXCEPT !.parent = i]

LEMMA FollowIs ==
  ASSUME NEW e \in Record, NEW i \in Slots
  PROVE  /\ Follow(e, i) \in Record /\ (e \in Placed => Follow(e, i) \in Placed)
         /\ Follow(e, i).path = e.path /\ Follow(e, i).type = e.type
         /\ Follow(e, i).size = e.size /\ Follow(e, i).parent = i
         /\ Follow(e, i).start = e.start
<1>1. /\ Follow(e, i) \in Record
      /\ Follow(e, i).path = e.path /\ Follow(e, i).type = e.type
      /\ Follow(e, i).size = e.size /\ Follow(e, i).parent = i
      /\ Follow(e, i).start = e.start
  BY DEF Record, Follow
<1>2. e \in EntryType => Follow(e, i) \in EntryType
  BY DEF EntryType, Follow
<1>3. Extent(Follow(e, i)) = Extent(e)
  BY <1>1, Zenon DEF Extent
<1>4. e \in Placed => Follow(e, i) \in Placed
  <2> DEFINE new == Follow(e, i)
  <2> HIDE DEF new
  <2>1. /\ new.type = e.type /\ new.path = e.path
        /\ Extent(new) = Extent(e) /\ (e \in EntryType => new \in EntryType)
    BY <1>1, <1>2, <1>3 DEF new
  <2>2. e \in Placed => new \in Placed
    BY <2>1 DEF Placed
  <2> QED BY <2>2 DEF new
<1> QED BY <1>1, <1>4

LEMMA FillIs ==
  ASSUME NEW es \in [Slots -> Record], NEW i \in Slots, NEW last \in Slots
  PROVE  /\ Fill(es, i, last) \in [Slots -> Record]
         /\ es \in [Slots -> Placed] => Fill(es, i, last) \in [Slots -> Placed]
         /\ Fill(es, i, last)[last] = Cleared
         /\ \A j \in Slots \ {last} : LET e == es[IF j = i THEN last ELSE j] IN
              /\ Fill(es, i, last)[j].path = e.path /\ Fill(es, i, last)[j].type = e.type
              /\ Fill(es, i, last)[j].size = e.size /\ Fill(es, i, last)[j].start = e.start
              /\ Fill(es, i, last)[j].parent =
                   IF i # last /\ j < last /\ e.parent = last THEN i ELSE e.parent
<1> DEFINE of(j) == es[IF j = i THEN last ELSE j]
           new(j) == IF i # last /\ j < last /\ of(j).parent = last THEN Follow(of(j), i) ELSE of(j)
<1>1. \A j \in Slots : Fill(es, i, last)[j] = IF j = last THEN Cleared ELSE new(j)
  BY DEF Fill, Follow
<1>2. Fill(es, i, last) = [j \in Slots |-> Fill(es, i, last)[j]]
  BY DEF Fill
<1>3. ASSUME NEW j \in Slots
      PROVE  /\ of(j) \in Record
             /\ new(j) \in Record /\ (of(j) \in Placed => new(j) \in Placed)
             /\ new(j).path = of(j).path /\ new(j).type = of(j).type
             /\ new(j).size = of(j).size /\ new(j).start = of(j).start
             /\ new(j).parent = IF i # last /\ j < last /\ of(j).parent = last
                                THEN i ELSE of(j).parent
  <2>1. of(j) \in Record
    OBVIOUS
  <2> HIDE DEF of
  <2>2. CASE i # last /\ j < last /\ of(j).parent = last
    <3>1. new(j) = Follow(of(j), i)
      BY <2>2
    <3> HIDE DEF new
    <3>2. /\ Follow(of(j), i) \in Record /\ (of(j) \in Placed => Follow(of(j), i) \in Placed)
          /\ Follow(of(j), i).path = of(j).path /\ Follow(of(j), i).type = of(j).type
          /\ Follow(of(j), i).size = of(j).size /\ Follow(of(j), i).parent = i
          /\ Follow(of(j), i).start = of(j).start
      BY <2>1, FollowIs
    <3> QED BY <2>1, <2>2, <3>1, <3>2, Zenon
  <2>3. CASE ~(i # last /\ j < last /\ of(j).parent = last)
    <3>1. new(j) = of(j)
      BY <2>3
    <3> HIDE DEF new
    <3> QED BY <2>1, <2>3, <3>1
  <2> QED BY <2>2, <2>3
<1>4. es \in [Slots -> Placed] => \A j \in Slots : of(j) \in Placed
  OBVIOUS
<1> HIDE DEF new
<1>5. Fill(es, i, last) \in [Slots -> Record]
  <2>1. \A j \in Slots : Fill(es, i, last)[j] \in Record
    <3> HIDE DEF of
    <3> QED BY <1>1, <1>3, PlacedIs
  <2> QED BY <1>2, <2>1
<1>6. es \in [Slots -> Placed] => Fill(es, i, last) \in [Slots -> Placed]
  <2>1. es \in [Slots -> Placed] => \A j \in Slots : Fill(es, i, last)[j] \in Placed
    <3> HIDE DEF of
    <3> QED BY <1>1, <1>3, <1>4, PlacedIs
  <2> QED BY <1>2, <2>1
<1>7. Fill(es, i, last)[last] = Cleared
  BY <1>1
<1>8. \A j \in Slots \ {last} :
        /\ Fill(es, i, last)[j].path = of(j).path /\ Fill(es, i, last)[j].type = of(j).type
        /\ Fill(es, i, last)[j].size = of(j).size /\ Fill(es, i, last)[j].start = of(j).start
        /\ Fill(es, i, last)[j].parent =
             IF i # last /\ j < last /\ of(j).parent = last THEN i ELSE of(j).parent
  <2> HIDE DEF of
  <2> QED BY <1>1, <1>3
<1> QED BY <1>5, <1>6, <1>7, <1>8

\* What a delete writes: what it moved, the header, its part of the table, the bitmap.
DeleteWrites(t, es, i, last, b, type) ==
  t \o SaveHeader(last) \o SaveFrom(es, i, last)
    \o (IF type = "file" THEN SaveBitmap(b) ELSE <<>>)

LEMMA DeleteTodo ==
  ASSUME NEW U, NEW es, NEW t \in Seq(U), NEW i \in Nat, NEW last \in Nat,
         i <= last, last < MaxFiles, NEW b, NEW type,
         <<0, Header(last)>> \in U, <<BitmapSector, Bitmap(b)>> \in U,
         \A j \in Slots : Row(es, j) \in U
  PROVE  LET rows == RowsOf(es, i, last + 1)
             all  == DeleteWrites(t, es, i, last, b, type)
         IN  /\ all \in Seq(U)
             /\ Elems(all) \subseteq Elems(t) \cup {<<0, Header(last)>>} \cup rows
                                       \cup {<<BitmapSector, Bitmap(b)>>}
             /\ {<<0, Header(last)>>} \cup rows \subseteq Elems(all)
<1> DEFINE rows == RowsOf(es, i, last + 1)
           s1 == SaveHeader(last)
           s2 == SaveFrom(es, i, last)
           s3 == IF type = "file" THEN SaveBitmap(b) ELSE <<>>
<1>2. s1 \in Seq(U) /\ Elems(s1) = {<<0, Header(last)>>}
  BY SavesAre
<1>3. s2 \in Seq(U) /\ Elems(s2) = rows
  <2> DEFINE to == last + 1
  <2>1. to \in Nat /\ i <= to /\ to <= MaxFiles
    BY LayoutAssumption
  <2>2. s2 = SaveEntries(es, i, to) /\ rows = RowsOf(es, i, to)
    BY DEF SaveFrom
  <2> HIDE DEF to, s2, rows
  <2>3. SaveEntries(es, i, to) \in Seq(U) /\ Elems(SaveEntries(es, i, to)) = RowsOf(es, i, to)
    BY <2>1, SaveEntriesIs
  <2> QED BY <2>2, <2>3
<1>4. s3 \in Seq(U) /\ Elems(s3) \subseteq {<<BitmapSector, Bitmap(b)>>}
  <2>1. CASE type = "file"
    <3>1. SaveBitmap(b) \in Seq(U) /\ Elems(SaveBitmap(b)) = {<<BitmapSector, Bitmap(b)>>}
      BY SavesAre
    <3> QED BY <2>1, <3>1
  <2>2. CASE type # "file"
    <3>1. s3 = <<>>
      BY <2>2
    <3> HIDE DEF s3
    <3> QED BY <3>1, NoElem
  <2> QED BY <2>1, <2>2
<1> DEFINE all == t \o s1 \o s2 \o s3
<1>5. all \in Seq(U) /\ Elems(all) = Elems(t) \cup {<<0, Header(last)>>} \cup rows \cup Elems(s3)
  <2> t \in Seq(U)
    OBVIOUS
  <2> HIDE DEF s1, s2, s3, rows
  <2>1. t \o s1 \in Seq(U) /\ Elems(t \o s1) = Elems(t) \cup Elems(s1)
    BY <1>2, ElemsOfConcat
  <2> DEFINE a == t \o s1
  <2>5. a \in Seq(U)
    BY <2>1
  <2> HIDE DEF a
  <2>2. a \o s2 \in Seq(U) /\ Elems(a \o s2) = Elems(a) \cup Elems(s2)
    BY <1>3, <2>5, ElemsOfConcat
  <2> DEFINE c == a \o s2
  <2>6. c \in Seq(U)
    BY <2>2
  <2> HIDE DEF c
  <2>3. c \o s3 \in Seq(U) /\ Elems(c \o s3) = Elems(c) \cup Elems(s3)
    BY <1>4, <2>6, ElemsOfConcat
  <2>4. all = c \o s3
    BY DEF a, c
  <2> HIDE DEF all
  <2> QED BY <1>2, <1>3, <2>1, <2>2, <2>3, <2>4 DEF a, c
<1> HIDE DEF rows, s1, s2, s3, all
<1>7. Elems(all) \subseteq Elems(t) \cup {<<0, Header(last)>>} \cup rows \cup {<<BitmapSector, Bitmap(b)>>}
  BY <1>4, <1>5
<1>8. {<<0, Header(last)>>} \cup rows \subseteq Elems(all)
  BY <1>5
<1>9. all = DeleteWrites(t, es, i, last, b, type)
  BY Zenon DEF DeleteWrites, all, s1, s2, s3
<1> QED BY <1>5, <1>7, <1>8, <1>9, Zenon DEF rows

LEMMA DeleteWritesSome ==
  ASSUME NEW es, NEW t, NEW T, t \in Seq(T), NEW i \in Nat,
         NEW last \in Nat, i <= last, last < MaxFiles, NEW b, NEW type
  PROVE  DeleteWrites(t, es, i, last, b, type) # <<>>
<1> DEFINE U == T \cup {<<0, Header(last)>>} \cup {<<BitmapSector, Bitmap(b)>>}
                  \cup {Row(es, j) : j \in Slots}
<1>1. /\ <<0, Header(last)>> \in U /\ <<BitmapSector, Bitmap(b)>> \in U
      /\ \A j \in Slots : Row(es, j) \in U
  OBVIOUS
<1>2. t \in Seq(U)
  <2>1. T \subseteq U
    OBVIOUS
  <2> HIDE DEF U
  <2> QED BY <2>1, SeqMonotonic
<1> HIDE DEF U
<1>3. /\ DeleteWrites(t, es, i, last, b, type) \in Seq(U)
      /\ {<<0, Header(last)>>} \cup RowsOf(es, i, last + 1)
           \subseteq Elems(DeleteWrites(t, es, i, last, b, type))
  BY <1>1, <1>2, DeleteTodo
<1> QED BY <1>3, NoElem

Moved(gone, i) == IF gone.type = "dir"
                  THEN [ents |-> ents, bitmap |-> bitmap, todo |-> <<>>] ELSE Compact(gone, i)
Strays(gone, i) == gone.type # "dir" /\ \E f \in Live \ {i} : Astray(ents[f], gone)

LEMMA MovedIs ==
  ASSUME TypeInv, ~strayed, NEW i \in Live
  PROVE  LET m == Moved(ents[i], i) IN
         /\ m.ents \in [Slots -> Record] /\ m.bitmap \in SUBSET Data
         /\ m.todo \in Seq(Int \X Content)
         /\ \A j \in Slots : Same(m.ents[j], ents[j])
         /\ ~Strays(ents[i], i) => m.ents \in [Slots -> Placed] /\ m.todo \in Seq(Data \X Content)
<1> DEFINE gone == ents[i]
           by == Blocks(gone.size)
           m == Moved(gone, i)
<1>1. /\ file_count \in 0 .. MaxFiles /\ ents \in [Slots -> Placed] /\ bitmap \in SUBSET Data
      /\ disk \in [Sectors -> Content]
  BY DEF TypeInv
<1>2. Live \subseteq Slots /\ gone \in Placed /\ ents \in [Slots -> Record]
  BY <1>1, PlacedIs, LayoutAssumption DEF Live, Slots
<1>3. CASE gone.type = "dir"
  <2>1. m = [ents |-> ents, bitmap |-> bitmap, todo |-> <<>>]
    BY <1>3, Zenon DEF Moved
  <2> DEFINE none == <<>>
  <2>2. none \in Seq(Int \X Content) /\ none \in Seq(Data \X Content)
    OBVIOUS
  <2> HIDE DEF none
  <2>3. m.ents = ents /\ m.bitmap = bitmap /\ m.todo = none
    BY <2>1 DEF none
  <2> HIDE DEF m
  <2>4. \A j \in Slots : Same(m.ents[j], ents[j])
    BY <2>3, Zenon DEF Same
  <2>5. /\ m.ents \in [Slots -> Record] /\ m.bitmap \in SUBSET Data
        /\ m.todo \in Seq(Int \X Content)
        /\ m.ents \in [Slots -> Placed] /\ m.todo \in Seq(Data \X Content)
    BY <1>1, <1>2, <2>2, <2>3, Zenon
  <2> QED BY <2>4, <2>5, Zenon DEF m
<1>4. CASE gone.type # "dir"
  <2>1. m = Compact(gone, i)
    BY <1>4, Zenon DEF Moved
  <2> HIDE DEF m
  <2>2. /\ m \in Work(Int) /\ \A j \in Slots : Same(m.ents[j], ents[j])
    <3>1. \A f \in Live \ {i} : Moves(ents[f], gone) => Run(ents[f].start - by, Blocks(ents[f].size)) \subseteq Int
      BY DEF Run
    <3> DEFINE S == Int
    <3> HIDE DEF S, gone
    <3>2. S \in SUBSET Int
      BY DEF S
    <3>3. \A f \in Live \ {i} : Moves(ents[f], gone) => Run(ents[f].start - Blocks(gone.size), Blocks(ents[f].size)) \subseteq S
      BY <3>1 DEF S
    <3>4. Compact(gone, i) \in Work(S) /\ \A j \in Slots : Same(Compact(gone, i).ents[j], ents[j])
      BY <1>1, <1>2, <3>2, <3>3, CompactType
    <3> QED BY <2>1, <3>4, Zenon DEF S
  <2>3. ~Strays(gone, i) => m \in Work(Data) /\ m.ents \in [Slots -> Placed]
    <3> SUFFICES ASSUME ~Strays(gone, i) PROVE m \in Work(Data) /\ m.ents \in [Slots -> Placed]
      OBVIOUS
    <3>1. ASSUME NEW f \in Live \ {i}, Moves(ents[f], gone)
          PROVE  Run(ents[f].start - by, Blocks(ents[f].size)) \subseteq Data
      <4> DEFINE e == ents[f]
                 from == e.start
                 n == Blocks(e.size)
      <4>1. e \in Placed /\ e \in Record /\ e.type = "file" /\ gone \in Record
        <5>1. f \in Slots /\ e.type = "file"
          BY <1>2, <3>1, Zenon DEF Moves
        <5>2. e \in Placed
          BY <1>1, <5>1
        <5> QED BY <1>2, <5>1, <5>2, PlacedIs
      <4>2. from \in Int /\ n \in Nat \ {0} /\ by \in Nat \ {0}
        BY <4>1, BlocksAre
      <4>3. Run(from, n) \subseteq Data
        BY <4>1, Zenon DEF Placed, Extent
      <4>4. ~(from - by < DataStart)
        BY <3>1, <1>4, Zenon DEF Strays, Astray
      <4> HIDE DEF from, n, by
      <4>5. from + n - 1 \in Run(from, n)
        BY <4>2 DEF Run
      <4>6. from + n - 1 <= Total - 1
        BY <4>3, <4>5 DEF Data
      <4>7. Run(from - by, n) \subseteq Data
        BY <4>2, <4>4, <4>6, LayoutAssumption DEF Data, Run
      <4> QED BY <4>7 DEF from, n
    <3> HIDE DEF gone
    <3>2. Data \in SUBSET Int
      BY LayoutAssumption DEF Data
    <3> DEFINE S == Data
    <3> HIDE DEF S
    <3>3. \A f \in Live \ {i} : Moves(ents[f], gone) => Run(ents[f].start - Blocks(gone.size), Blocks(ents[f].size)) \subseteq S
      BY <3>1 DEF S
    <3>4. S \in SUBSET Int /\ S \subseteq Data
      BY <3>2 DEF S
    <3>5. Compact(gone, i) \in Work(S) /\ Compact(gone, i).ents \in [Slots -> Placed]
      BY <1>1, <1>2, <3>3, <3>4, CompactType
    <3> QED BY <2>1, <3>5, Zenon DEF S
  <2>4. m.ents \in [Slots -> Record] /\ m.bitmap \in SUBSET Data /\ m.todo \in Seq(Int \X Content)
    BY <2>2 DEF Work
  <2>5. ~Strays(gone, i) => m.ents \in [Slots -> Placed] /\ m.todo \in Seq(Data \X Content)
    BY <2>3 DEF Work
  <2> QED BY <2>2, <2>4, <2>5, Zenon DEF m
<1> QED BY <1>3, <1>4

\* What is still to be written of the header and of the table is what they are in the
\* memory.
Quiet(w) == w[1] = BitmapSector \/ w[1] \in Data
TodoInv == ~strayed => \A w \in Elems(todo) :
             \/ Quiet(w) \/ w = <<0, Header(file_count)>>
             \/ \E j \in Slots : w = <<EntrySector(j), Entry(ents[j])>>

LEMMA QuietBitmap ==
  ASSUME NEW b
  PROVE  Quiet(<<BitmapSector, Bitmap(b)>>)
  BY DEF Quiet

LEMMA QuietData ==
  ASSUME NEW T, NEW s \in Seq(Data \X T), NEW w \in Elems(s)
  PROVE  Quiet(w)
<1>1. w \in Data \X T
  BY ElemsTyped
<1> QED BY <1>1 DEF Quiet

LEMMA MkdirIs ==
  ASSUME TypeInv, Mkdir
  PROVE  \E p \in Paths : LET e == NewEntry(p, "dir", 0, 0) IN
           /\ MayAdd(p) /\ e \in Placed /\ ents' = [ents EXCEPT ![file_count] = e]
           /\ todo' \in Seq(Sectors \X Content)
           /\ Elems(todo') = {<<0, Header(file_count')>>, <<EntrySector(file_count), Entry(e)>>}
<1>1. PICK p \in NewDirs :
        /\ MayAdd(p) /\ ents' = [ents EXCEPT ![file_count] = NewEntry(p, "dir", 0, 0)]
        /\ file_count' = file_count + 1
        /\ Do("mkdir", SaveHeader(file_count + 1) \o SaveEntries(ents', file_count, file_count + 1))
  BY Zenon DEF Mkdir, NewSlot
<1> DEFINE i == file_count
           n == file_count + 1
           e == NewEntry(p, "dir", 0, 0)
           s1 == SaveHeader(n)
           es == ents'
           s2 == SaveEntries(es, i, n)
           T == Sectors \X Content
<1>2. p \in Paths /\ e \in Placed
  BY <1>1, NewDirPlaced, PathAssumption DEF TypeInv
<1>3. i \in Nat /\ n \in Nat /\ i <= n /\ n <= MaxFiles /\ n \in 0 .. MaxFiles /\ i \in Slots
      /\ i .. n - 1 = {i}
  BY <1>1, LayoutAssumption DEF MayAdd, TypeInv, Slots
<1>4. es \in [Slots -> Placed] /\ es[i] = e
  <2>1. ents \in [Slots -> Placed]
    BY DEF TypeInv, Mkdir, May
  <2>2. ents' = [ents EXCEPT ![i] = e]
    BY <1>1
  <2> HIDE DEF e
  <2> QED BY <1>2, <1>3, <2>1, <2>2
<1>5. s1 \in Seq(T) /\ Elems(s1) = {<<0, Header(n)>>}
  <2>1. <<0, Header(n)>> \in T
    BY <1>3, SavesTyped
  <2> HIDE DEF n, T
  <2> QED BY <2>1, SavesAre
<1>6. s2 \in Seq(T) /\ Elems(s2) = {<<EntrySector(i), Entry(e)>>}
  <2>1. \A j \in Slots : Row(es, j) \in T
    <3> HIDE DEF es
    <3> QED BY <1>4, RowTyped
  <2>2. RowsOf(es, i, n) = {<<EntrySector(i), Entry(e)>>}
    <3> HIDE DEF es, i, n, e
    <3> QED BY <1>3, <1>4 DEF RowsOf, Row
  <2> HIDE DEF es, i, n, e, T
  <2> QED BY <1>3, <2>1, <2>2, SaveEntriesIs
<1>7. todo' = s1 \o s2
  BY <1>1 DEF Do
<1>8. n = file_count'
  BY <1>1
<1>9. todo' \in Seq(T) /\ Elems(todo') = {<<0, Header(n)>>, <<EntrySector(i), Entry(e)>>}
  <2> HIDE DEF s1, s2, T, e, n, i
  <2>1. s1 \o s2 \in Seq(T) /\ Elems(s1 \o s2) = Elems(s1) \cup Elems(s2)
    BY <1>5, <1>6, ElemsOfConcat
  <2> QED BY <1>5, <1>6, <1>7, <2>1
<1> HIDE DEF n, e, T
<1> QED BY <1>1, <1>2, <1>8, <1>9, Zenon DEF e, T

LEMMA CreateIs ==
  ASSUME TypeInv, Create
  PROVE  \E p \in Paths : \E size \in Sizes, s \in Data : LET e == NewEntry(p, "file", s, size) IN
           /\ MayAdd(p) /\ e \in Placed /\ ents' = [ents EXCEPT ![file_count] = e]
           /\ bitmap' \in SUBSET Data
           /\ todo' \in Seq(Sectors \X Content)
           /\ {<<0, Header(file_count')>>, <<EntrySector(file_count), Entry(e)>>} \subseteq Elems(todo')
           /\ \A w \in Elems(todo') :
                \/ Quiet(w) \/ w = <<0, Header(file_count')>>
                \/ w = <<EntrySector(file_count), Entry(e)>>
           /\ written' = written \ {p}
<1>1. PICK p \in NewFiles, size \in Sizes, s \in Data :
        /\ MayAdd(p) /\ FirstFit(s, Blocks(size))
        /\ ents' = [ents EXCEPT ![file_count] = NewEntry(p, "file", s, size)]
        /\ bitmap' = bitmap \cup Run(s, Blocks(size))
        /\ file_count' = file_count + 1
        /\ Do("create", SaveHeader(file_count + 1) \o SaveEntries(ents', file_count, file_count + 1)
                          \o SaveBitmap(bitmap') \o SaveData(s, Blocks(size), LAMBDA k : Zero))
        /\ written' = written \ {p}
  BY Zenon DEF Create, NewSlot
<1> DEFINE i == file_count
           n == file_count + 1
           e == NewEntry(p, "file", s, size)
           s1 == SaveHeader(n)
           es == ents'
           s2 == SaveEntries(es, i, n)
           b == bitmap'
           s3 == SaveBitmap(b)
           s4 == SaveData(s, Blocks(size), LAMBDA k : Zero)
           T == Sectors \X Content
<1>2. p \in Paths /\ e \in Placed /\ Blocks(size) \in Nat /\ s \in Int /\ Run(s, Blocks(size)) \subseteq Data
  BY <1>1, NewFilePlaced, PathAssumption DEF TypeInv
<1>3. i \in Nat /\ n \in Nat /\ i <= n /\ n <= MaxFiles /\ n \in 0 .. MaxFiles /\ i \in Slots
      /\ i .. n - 1 = {i}
  BY <1>1, LayoutAssumption DEF MayAdd, TypeInv, Slots
<1>4. es \in [Slots -> Placed] /\ es[i] = e
  <2>1. ents \in [Slots -> Placed]
    BY DEF TypeInv, Create, May
  <2>2. ents' = [ents EXCEPT ![i] = e]
    BY <1>1
  <2> HIDE DEF e
  <2> QED BY <1>2, <1>3, <2>1, <2>2
<1>5. s1 \in Seq(T) /\ Elems(s1) = {<<0, Header(n)>>}
  <2>1. <<0, Header(n)>> \in T
    BY <1>3, SavesTyped
  <2> HIDE DEF n, T
  <2> QED BY <2>1, SavesAre
<1>6. s2 \in Seq(T) /\ Elems(s2) = {<<EntrySector(i), Entry(e)>>}
  <2>1. \A j \in Slots : Row(es, j) \in T
    <3> HIDE DEF es
    <3> QED BY <1>4, RowTyped
  <2>2. RowsOf(es, i, n) = {<<EntrySector(i), Entry(e)>>}
    <3> HIDE DEF es, i, n, e
    <3> QED BY <1>3, <1>4 DEF RowsOf, Row
  <2> HIDE DEF es, i, n, e, T
  <2> QED BY <1>3, <2>1, <2>2, SaveEntriesIs
<1>7. b \in SUBSET Data
  BY <1>1, <1>2 DEF TypeInv
<1>8. s3 \in Seq(T) /\ \A w \in Elems(s3) : Quiet(w)
  <2>1. <<BitmapSector, Bitmap(b)>> \in T
    <3> HIDE DEF b
    <3> QED BY <1>7, SavesTyped
  <2>2. s3 \in Seq(T) /\ Elems(s3) = {<<BitmapSector, Bitmap(b)>>}
    <3> HIDE DEF b, T
    <3> QED BY <2>1, SavesAre
  <2> HIDE DEF s3, T
  <2> QED BY <2>2, QuietBitmap
<1>9. s4 \in Seq(T) /\ \A w \in Elems(s4) : Quiet(w)
  <2>1. s4 \in Seq(Data \X Content)
    BY <1>2, SaveDataIs
  <2>2. Data \X Content \subseteq T
    BY Layout
  <2> HIDE DEF s4, T
  <2> QED BY <2>1, <2>2, SeqMonotonic, QuietData
<1>10. todo' = s1 \o s2 \o s3 \o s4
  BY <1>1, Zenon DEF Do
<1>11. n = file_count'
  BY <1>1
<1>12. /\ todo' \in Seq(T)
       /\ Elems(todo') = {<<0, Header(n)>>} \cup {<<EntrySector(i), Entry(e)>>} \cup Elems(s3) \cup Elems(s4)
  <2> DEFINE a == s1 \o s2
             c == a \o s3
  <2>1. a \in Seq(T) /\ Elems(a) = Elems(s1) \cup Elems(s2)
    <3> HIDE DEF s1, s2, T
    <3> QED BY <1>5, <1>6, ElemsOfConcat
  <2>2. c \in Seq(T) /\ Elems(c) = Elems(a) \cup Elems(s3)
    <3> HIDE DEF a, s3, T
    <3> QED BY <1>8, <2>1, ElemsOfConcat
  <2>3. c \o s4 \in Seq(T) /\ Elems(c \o s4) = Elems(c) \cup Elems(s4)
    <3> HIDE DEF c, s4, T
    <3> QED BY <1>9, <2>2, ElemsOfConcat
  <2>4. todo' = c \o s4
    BY <1>10
  <2> HIDE DEF a, c, s1, s2, s3, s4, T, e, n, i
  <2> QED BY <1>5, <1>6, <2>1, <2>2, <2>3, <2>4
<1>13. \A w \in Elems(todo') : Quiet(w) \/ w = <<0, Header(n)>> \/ w = <<EntrySector(i), Entry(e)>>
  <2> HIDE DEF s3, s4, e, n, i
  <2> QED BY <1>8, <1>9, <1>12
<1>14. {<<0, Header(n)>>, <<EntrySector(i), Entry(e)>>} \subseteq Elems(todo')
  <2> HIDE DEF s3, s4, e, n, i
  <2> QED BY <1>12
<1> HIDE DEF n, e, T, s3, s4
<1>15. /\ MayAdd(p) /\ e \in Placed /\ ents' = [ents EXCEPT ![file_count] = e]
       /\ bitmap' \in SUBSET Data
       /\ todo' \in Seq(Sectors \X Content)
       /\ {<<0, Header(file_count')>>, <<EntrySector(file_count), Entry(e)>>} \subseteq Elems(todo')
       /\ \A w \in Elems(todo') :
            \/ Quiet(w) \/ w = <<0, Header(file_count')>>
            \/ w = <<EntrySector(file_count), Entry(e)>>
       /\ written' = written \ {p}
  BY <1>1, <1>2, <1>7, <1>11, <1>12, <1>13, <1>14, Zenon DEF T, e
<1> QED BY <1>2, <1>15, Zenon DEF e

LEMMA DeleteIs ==
  ASSUME TypeInv, Delete
  PROVE  \E i \in Live : \E es \in [Slots -> Record] : LET last == file_count - 1 IN
           /\ i \in Slots /\ i <= last /\ last \in Slots
           /\ ents[i].path \in Paths \ {Root}
           /\ ents[i].type = "dir" => Childless(i)
           /\ \A j \in Slots : Same(es[j], ents[j])
           /\ ents' = Fill(es, i, last) /\ file_count' = last
           /\ ents' \in [Slots -> Record] /\ bitmap' \in SUBSET Data
           /\ todo' # <<>> /\ strayed' \in BOOLEAN /\ written' \in SUBSET Paths
           /\ ~strayed' =>
                /\ ents' \in [Slots -> Placed] /\ todo' \in Seq(Sectors \X Content)
                /\ \A w \in Elems(todo') :
                     Quiet(w) \/ w = <<0, Header(last)>> \/ w \in RowsOf(ents', i, last + 1)
                /\ {<<0, Header(last)>>} \cup RowsOf(ents', i, last + 1) \subseteq Elems(todo')
<1>1. PICK p \in Paths \ {Root} : LET i == IndexOf(p)
                                      last == file_count - 1
                                      m == Moved(ents[i], i)
                                  IN
        /\ Has(p) /\ (ents[i].type = "dir" => Childless(i))
        /\ ents' = Fill(m.ents, i, last)
        /\ bitmap' = m.bitmap
        /\ file_count' = last
        /\ Do("delete", m.todo \o SaveHeader(last) \o SaveFrom(ents', i, last)
                          \o (IF ents[i].type = "file" THEN SaveBitmap(bitmap') ELSE <<>>))
        /\ written' = written \ {p}
        /\ strayed' = Strays(ents[i], i)
  BY Zenon DEF Delete, Moved, Strays
<1> DEFINE i == IndexOf(p)
           last == file_count - 1
           m == Moved(ents[i], i)
           es == m.ents
           new == ents'
           b == bitmap'
           type == ents[i].type
           all == DeleteWrites(m.todo, new, i, last, b, type)
<1>2. ~strayed /\ file_count \in 0 .. MaxFiles /\ written \in SUBSET Paths
  BY DEF Delete, May, TypeInv
<1>3. i \in Live /\ i \in Slots /\ ents[i].path = p
  BY <1>1, <1>2, IndexOfIs
<1>4. i \in Nat /\ i <= last /\ last \in Nat /\ last \in Slots /\ last < MaxFiles /\ last + 1 = file_count
  BY <1>2, <1>3, LayoutAssumption DEF Live, Slots
<1>5. /\ es \in [Slots -> Record] /\ m.bitmap \in SUBSET Data
      /\ m.todo \in Seq(Int \X Content)
      /\ \A j \in Slots : Same(es[j], ents[j])
      /\ ~Strays(ents[i], i) => es \in [Slots -> Placed] /\ m.todo \in Seq(Data \X Content)
  <2> HIDE DEF i
  <2> QED BY <1>2, <1>3, MovedIs, Zenon
<1>6. /\ new \in [Slots -> Record]
      /\ es \in [Slots -> Placed] => new \in [Slots -> Placed]
  <2>1. new = Fill(es, i, last)
    BY <1>1, Zenon
  <2> HIDE DEF new, es, i, last
  <2> QED BY <1>3, <1>4, <1>5, <2>1, FillIs
<1>7. b = m.bitmap /\ b \in SUBSET Data
  BY <1>1, <1>5, Zenon
<1>8. todo' = all
  BY <1>1, Zenon DEF Do, DeleteWrites
<1>9. todo' # <<>>
  <2>1. DeleteWrites(m.todo, new, i, last, b, type) # <<>>
    <3> DEFINE t == m.todo
    <3>1. t \in Seq(Int \X Content)
      BY <1>5
    <3> HIDE DEF t, i, last, new, b, type
    <3> QED BY <1>4, <3>1, DeleteWritesSome DEF t
  <2> QED BY <1>8, <2>1
<1>10. ~strayed' =>
         /\ new \in [Slots -> Placed] /\ todo' \in Seq(Sectors \X Content)
         /\ \A w \in Elems(todo') :
              Quiet(w) \/ w = <<0, Header(last)>> \/ w \in RowsOf(new, i, last + 1)
         /\ {<<0, Header(last)>>} \cup RowsOf(new, i, last + 1) \subseteq Elems(todo')
  <2> SUFFICES ASSUME ~strayed'
               PROVE  /\ new \in [Slots -> Placed] /\ todo' \in Seq(Sectors \X Content)
                      /\ \A w \in Elems(todo') :
                           Quiet(w) \/ w = <<0, Header(last)>> \/ w \in RowsOf(new, i, last + 1)
                      /\ {<<0, Header(last)>>} \cup RowsOf(new, i, last + 1) \subseteq Elems(todo')
    OBVIOUS
  <2>1. new \in [Slots -> Placed] /\ m.todo \in Seq(Data \X Content)
    BY <1>1, <1>5, <1>6, Zenon
  <2> DEFINE t == m.todo
  <2>2. t \in Seq(Sectors \X Content) /\ \A w \in Elems(t) : Quiet(w)
    <3>1. Data \X Content \subseteq Sectors \X Content
      BY Layout
    <3> HIDE DEF m
    <3> QED BY <2>1, <3>1, SeqMonotonic, QuietData
  <2> DEFINE U == Sectors \X Content
  <2>3. /\ \A j \in Slots : Row(new, j) \in U
        /\ <<0, Header(last)>> \in U /\ <<BitmapSector, Bitmap(b)>> \in U
    <3>1. \A j \in Slots : Row(new, j) \in U
      <4> HIDE DEF new
      <4> QED BY <2>1, RowTyped
    <3>2. last \in 0 .. MaxFiles
      BY <1>4, LayoutAssumption
    <3> HIDE DEF last, b
    <3> QED BY <1>7, <3>1, <3>2, SavesTyped
  <2> DEFINE rows == RowsOf(new, i, last + 1)
  <2>4. /\ all \in Seq(U)
        /\ Elems(all) \subseteq Elems(t) \cup {<<0, Header(last)>>} \cup rows
                                  \cup {<<BitmapSector, Bitmap(b)>>}
        /\ {<<0, Header(last)>>} \cup rows \subseteq Elems(all)
    <3>1. all = DeleteWrites(t, new, i, last, b, type)
      OBVIOUS
    <3> HIDE DEF t, i, last, new, b, type, all
    <3>2. b \in SUBSET Data /\ i \in Nat /\ last \in Nat
      BY <1>4, <1>7
    <3>3. t \in Seq(U)
      BY <2>2
    <3> HIDE DEF m, U
    <3> QED BY <1>4, <2>3, <3>1, <3>2, <3>3, DeleteTodo
  <2> HIDE DEF rows, all, t, last, b
  <2>5. \A w \in Elems(todo') : Quiet(w) \/ w = <<0, Header(last)>> \/ w \in rows
    BY <1>8, <2>2, <2>4, QuietBitmap
  <2>6. todo' \in Seq(Sectors \X Content) /\ {<<0, Header(last)>>} \cup rows \subseteq Elems(todo')
    BY <1>8, <2>4
  <2> QED BY <2>1, <2>5, <2>6, Zenon DEF rows
<1>11. /\ ents[i].path \in Paths \ {Root} /\ (ents[i].type = "dir" => Childless(i))
       /\ ents' = Fill(es, i, last) /\ file_count' = last
       /\ strayed' \in BOOLEAN /\ written' \in SUBSET Paths
  <2>1. strayed' \in BOOLEAN
    <3>1. strayed' = Strays(ents[i], i) /\ Strays(ents[i], i) \in BOOLEAN
      BY <1>1, Zenon DEF Strays
    <3> QED BY <3>1
  <2>2. written' \in SUBSET Paths
    BY <1>1, <1>2
  <2> QED BY <1>1, <1>3, <2>1, <2>2, Zenon
<1> HIDE DEF i, last, m, es, all
<1> QED BY <1>3, <1>4, <1>5, <1>6, <1>7, <1>9, <1>10, <1>11, Zenon DEF last

LEMMA WriteIs ==
  ASSUME TypeInv, Write
  PROVE  /\ \E i \in Slots : \A w \in Elems(todo') :
              Quiet(w) \/ w = <<EntrySector(i), Entry(ents[i])>>
         /\ todo' \in Seq(Sectors \X Content) /\ written' \in SUBSET Paths
<1>1. PICK p \in Paths : LET i == IndexOf(p)
                             e == ents[i]
                         IN
           /\ Has(p) /\ e.type = "file"
           /\ Do("write", SaveData(e.start, Blocks(e.size), LAMBDA k : Part(p, k))
                            \o SaveEntries(ents, i, i + 1))
           /\ written' = written \cup {p}
  BY Zenon DEF Write
<1> DEFINE i == IndexOf(p)
           n == i + 1
           e == ents[i]
           s1 == SaveData(e.start, Blocks(e.size), LAMBDA k : Part(p, k))
           s2 == SaveEntries(ents, i, n)
           T == Sectors \X Content
<1>2. i \in Slots
  BY <1>1, IndexOfIs DEF TypeInv
<1>3. i \in Nat /\ n \in Nat /\ i <= n /\ n <= MaxFiles /\ i .. n - 1 = {i}
  <2> HIDE DEF i
  <2> QED BY <1>2, LayoutAssumption DEF Slots
<1>4. ents \in [Slots -> Placed] /\ e \in Placed /\ e \in Record /\ e.type = "file"
  <2>1. ents \in [Slots -> Placed]
    BY DEF TypeInv, Write, May
  <2>2. e.type = "file"
    BY <1>1, Zenon
  <2> HIDE DEF i
  <2> QED BY <1>2, <2>1, <2>2, PlacedIs
<1>5. s1 \in Seq(T) /\ \A w \in Elems(s1) : Quiet(w)
  <2> DEFINE from == e.start
             len == Blocks(e.size)
  <2>1. from \in Int /\ len \in Nat
    BY <1>4, BlocksAre
  <2>2. Run(from, len) \subseteq Data
    BY <1>4, Zenon DEF Placed, Extent
  <2> HIDE DEF from, len
  <2>3. SaveData(from, len, LAMBDA k : Part(p, k)) \in Seq(Data \X Content)
    BY <2>1, <2>2, SaveDataIs
  <2>4. s1 \in Seq(Data \X Content)
    BY <2>3 DEF from, len
  <2>5. Data \X Content \subseteq T
    BY Layout
  <2> HIDE DEF s1, T
  <2> QED BY <2>4, <2>5, SeqMonotonic, QuietData
<1>6. s2 \in Seq(T) /\ Elems(s2) = {<<EntrySector(i), Entry(e)>>}
  <2>1. \A j \in Slots : Row(ents, j) \in T
    BY <1>4, RowTyped
  <2>2. RowsOf(ents, i, n) = {<<EntrySector(i), Entry(e)>>}
    <3> HIDE DEF i, n
    <3> QED BY <1>3, <1>4 DEF RowsOf, Row
  <2> HIDE DEF i, n, e, T
  <2> QED BY <1>3, <2>1, <2>2, SaveEntriesIs
<1>7. todo' = s1 \o s2
  BY <1>1, Zenon DEF Do
<1>8. todo' \in Seq(T) /\ Elems(todo') = Elems(s1) \cup Elems(s2)
  <2> HIDE DEF s1, s2, T
  <2> QED BY <1>5, <1>6, <1>7, ElemsOfConcat
<1>9. \A w \in Elems(todo') : Quiet(w) \/ w = <<EntrySector(i), Entry(e)>>
  <2> HIDE DEF s1, s2, i, e
  <2> QED BY <1>5, <1>6, <1>8
<1>10. written' \in SUBSET Paths
  BY <1>1 DEF TypeInv
<1> HIDE DEF i, T
<1> QED BY <1>2, <1>8, <1>9, <1>10, Zenon DEF T

LEMMA FormatIs ==
  ASSUME TypeInv, Format
  PROVE  /\ ents' \in [Slots -> Placed] /\ ents'[0] = RootEntry
         /\ \A i \in Slots \ {0} : ents'[i] = Cleared
         /\ todo' \in Seq(Sectors \X Content)
         /\ {<<0, Header(file_count')>>, <<EntrySector(0), Entry(RootEntry)>>} \subseteq Elems(todo')
         /\ \A w \in Elems(todo') :
              \/ Quiet(w) \/ w = <<0, Header(file_count')>>
              \/ w = <<EntrySector(0), Entry(RootEntry)>>
<1> DEFINE n == 1
           z == 0
           none == {}
           es == ents'
           s1 == SaveHeader(n)
           s2 == SaveEntries(es, z, n)
           s3 == SaveBitmap(none)
           T == Sectors \X Content
<1>1. file_count' = n /\ todo' = s1 \o s2 \o s3
  BY Zenon DEF Format
<1>2. es = [i \in Slots |-> IF i = 0 THEN RootEntry ELSE Cleared]
  BY Zenon DEF Format
<1>3. es \in [Slots -> Placed] /\ es[0] = RootEntry /\ \A i \in Slots \ {0} : es[i] = Cleared
  BY <1>2, PlacedIs, Layout
<1>4. z \in Nat /\ n \in Nat /\ z <= n /\ n <= MaxFiles /\ n \in 0 .. MaxFiles /\ z .. n - 1 = {z}
  BY LayoutAssumption
<1>5. s1 \in Seq(T) /\ Elems(s1) = {<<0, Header(n)>>}
  <2>1. <<0, Header(n)>> \in T
    BY <1>4, SavesTyped
  <2> HIDE DEF n, T
  <2> QED BY <2>1, SavesAre
<1>6. s2 \in Seq(T) /\ Elems(s2) = {<<EntrySector(z), Entry(RootEntry)>>}
  <2>1. \A j \in Slots : Row(es, j) \in T
    <3> HIDE DEF es
    <3> QED BY <1>3, RowTyped
  <2>2. RowsOf(es, z, n) = {<<EntrySector(z), Entry(RootEntry)>>}
    <3>1. es[z] = RootEntry
      BY <1>3
    <3> HIDE DEF es, z, n
    <3> QED BY <1>4, <3>1 DEF RowsOf, Row
  <2> HIDE DEF es, z, n, T
  <2> QED BY <1>4, <2>1, <2>2, SaveEntriesIs
<1>7. s3 \in Seq(T) /\ \A w \in Elems(s3) : Quiet(w)
  <2>1. <<BitmapSector, Bitmap(none)>> \in T
    BY SavesTyped
  <2> HIDE DEF none, T
  <2>2. s3 \in Seq(T) /\ Elems(s3) = {<<BitmapSector, Bitmap(none)>>}
    BY <2>1, SavesAre
  <2> HIDE DEF s3, T
  <2> QED BY <2>2, QuietBitmap
<1>8. todo' \in Seq(T) /\ Elems(todo') = Elems(s1) \cup Elems(s2) \cup Elems(s3)
  <2> DEFINE a == s1 \o s2
  <2>1. a \in Seq(T) /\ Elems(a) = Elems(s1) \cup Elems(s2)
    <3> HIDE DEF s1, s2, T
    <3> QED BY <1>5, <1>6, ElemsOfConcat
  <2>2. todo' = a \o s3
    BY <1>1
  <2> HIDE DEF a, s3, T
  <2> QED BY <1>7, <2>1, <2>2, ElemsOfConcat
<1> HIDE DEF s1, s2, s3, T, n, z, es
<1>9. \A w \in Elems(todo') : Quiet(w) \/ w = <<0, Header(n)>> \/ w = <<EntrySector(z), Entry(RootEntry)>>
  BY <1>5, <1>6, <1>7, <1>8
<1>10. {<<0, Header(n)>>, <<EntrySector(z), Entry(RootEntry)>>} \subseteq Elems(todo')
  BY <1>5, <1>6, <1>8
<1> QED BY <1>1, <1>3, <1>8, <1>9, <1>10, Zenon DEF T, z, es

LEMMA LoadIs ==
  ASSUME TypeInv, Load
  PROVE  /\ file_count' \in 0 .. MaxFiles /\ file_count' = CountOn(disk)
         /\ ents' \in [Slots -> Placed] /\ bitmap' \in SUBSET Data /\ todo' = <<>>
         /\ \A i \in Slots : ents'[i] = IF i < CountOn(disk) THEN EntryOn(disk, i) ELSE Cleared
<1>1. /\ CountOn(disk) \in 0 .. MaxFiles /\ BitmapOn(disk) \in SUBSET Data
      /\ \A i \in Slots : EntryOn(disk, i) \in Placed
  BY OnDisk DEF TypeInv
<1>2. /\ file_count' = CountOn(disk) /\ bitmap' = BitmapOn(disk) /\ todo' = <<>>
      /\ ents' = [i \in Slots |-> IF i < CountOn(disk) THEN EntryOn(disk, i) ELSE Cleared]
  BY Zenon DEF Load
<1> QED BY <1>1, <1>2, PlacedIs


---------------------------------------------------------------------------
\* The invariant of the types, and what is still to be written.
LEMMA TypeInit ==
  ASSUME Init
  PROVE  TypeInv /\ TodoInv
<1>1. \A i \in Slots : Cleared \in Placed /\ Cleared \in Record
  BY PlacedIs
<1>2. ents \in [Slots -> Placed] /\ ents \in [Slots -> Record]
  BY <1>1 DEF Init
<1>3. disk \in [Sectors -> Content]
  BY ContentMade DEF Init
<1>4. todo = <<>> /\ todo \in Seq(Sectors \X Content) /\ Elems(todo) = {}
  <2>1. todo = <<>>
    BY DEF Init
  <2> QED BY <2>1, NoElem
<1>5. /\ file_count \in 0 .. MaxFiles /\ bitmap \in SUBSET Data
      /\ up = FALSE /\ clean \in BOOLEAN /\ strayed = FALSE
      /\ boots \in 0 .. MaxBoots /\ calls \in 0 .. MaxCalls
      /\ call = "off" /\ written \in SUBSET Paths
  BY LayoutAssumption, SizeAssumption DEF Init
<1>6. TypeInv
  BY <1>2, <1>3, <1>4, <1>5 DEF TypeInv
<1>7. TodoInv
  BY <1>4 DEF TodoInv
<1> QED BY <1>6, <1>7

LEMMA TypeBoot ==
  ASSUME TypeInv, TodoInv, Boot
  PROVE  TypeInv' /\ TodoInv'
<1>1. /\ ~up /\ ~strayed /\ up' = TRUE /\ boots' \in 0 .. MaxBoots /\ call' = "init"
      /\ UNCHANGED <<disk, calls, clean, written, strayed>>
  BY SizeAssumption DEF Boot, TypeInv
<1>2. CASE Load
  <2>1. /\ file_count' \in 0 .. MaxFiles /\ ents' \in [Slots -> Placed]
        /\ bitmap' \in SUBSET Data /\ todo' = <<>>
    BY <1>2, LoadIs
  <2>2. todo' \in Seq(Sectors \X Content) /\ Elems(todo') = {}
    BY <2>1, NoElem
  <2>3. ents' \in [Slots -> Record]
    BY <2>1, PlacedIs
  <2>4. TypeInv'
    BY <1>1, <2>1, <2>2, <2>3 DEF TypeInv
  <2> QED BY <2>2, <2>4 DEF TodoInv
<1>3. CASE Format
  <2>1. /\ ents' \in [Slots -> Placed] /\ ents'[0] = RootEntry
        /\ todo' \in Seq(Sectors \X Content)
        /\ \A w \in Elems(todo') :
              \/ Quiet(w) \/ w = <<0, Header(file_count')>>
              \/ w = <<EntrySector(0), Entry(RootEntry)>>
    BY <1>3, FormatIs
  <2>2. ents' \in [Slots -> Record] /\ 0 \in Slots
    BY <2>1, PlacedIs, Layout
  <2>3. file_count' \in 0 .. MaxFiles /\ bitmap' \in SUBSET Data
    BY <1>3, LayoutAssumption DEF Format
  <2>4. TypeInv'
    BY <1>1, <2>1, <2>2, <2>3 DEF TypeInv
  <2>5. TodoInv'
    BY <2>1, <2>2 DEF TodoInv, Quiet
  <2> QED BY <2>4, <2>5
<1> QED BY <1>2, <1>3 DEF Boot

LEMMA TypeFlush ==
  ASSUME TypeInv, TodoInv, Flush
  PROVE  /\ TypeInv' /\ TodoInv'
         /\ Head(todo) \in Elems(todo) /\ Elems(todo) = {Head(todo)} \cup Elems(todo')
         /\ Head(todo)[1] \in Sectors /\ disk' = [disk EXCEPT ![Head(todo)[1]] = Head(todo)[2]]
<1> DEFINE T == Sectors \X Content
           w == Head(todo)
           s == w[1]
           x == w[2]
           rest == Tail(todo)
<1>1. /\ todo # <<>> /\ ~strayed /\ todo \in Seq(T) /\ up
      /\ disk' = [disk EXCEPT ![s] = x] /\ todo' = rest
      /\ UNCHANGED <<memory, up, boots, calls, clean, call, written, strayed>>
  BY DEF Flush, TypeInv
<1>2. rest \in Seq(T) /\ w \in Elems(todo) /\ Elems(todo) = {w} \cup Elems(rest)
  <2> HIDE DEF T
  <2> QED BY <1>1, ElemsOfTail
<1>3. w \in T
  <2> HIDE DEF T, w
  <2> QED BY <1>1, <1>2, ElemsTyped
<1>4. s \in Sectors /\ x \in Content
  BY <1>3
<1> HIDE DEF s, x, w, rest
<1>5. disk' \in [Sectors -> Content]
  BY <1>1, <1>4 DEF TypeInv
<1>6. todo' \in Seq(Sectors \X Content)
  BY <1>1, <1>2
<1>7. UNCHANGED <<file_count, ents, bitmap>>
  BY <1>1 DEF memory
<1>8. TypeInv'
  BY <1>1, <1>5, <1>6, <1>7 DEF TypeInv
<1>9. TodoInv'
  <2>1. \A v \in Elems(todo') : v \in Elems(todo)
    BY <1>1, <1>2
  <2> QED BY <1>1, <1>7, <2>1 DEF TodoInv, Quiet
<1> QED BY <1>1, <1>2, <1>4, <1>8, <1>9 DEF s, x, w

LEMMA TypePowerOff ==
  ASSUME TypeInv, TodoInv, PowerOff
  PROVE  TypeInv' /\ TodoInv'
<1>1. /\ up' = FALSE /\ todo' = <<>> /\ call' = "off" /\ ~strayed /\ clean' \in BOOLEAN
      /\ file_count' = 0 /\ bitmap' = {}
      /\ UNCHANGED <<disk, boots, calls, written, strayed>>
  BY DEF PowerOff, TypeInv
<1>2. ents' \in [Slots -> Placed] /\ ents' \in [Slots -> Record]
  BY PlacedIs DEF PowerOff
<1>3. todo' \in Seq(Sectors \X Content) /\ Elems(todo') = {}
  BY <1>1, NoElem
<1>4. file_count' \in 0 .. MaxFiles /\ bitmap' \in SUBSET Data
  BY <1>1, LayoutAssumption
<1>5. TypeInv'
  BY <1>1, <1>2, <1>3, <1>4 DEF TypeInv
<1> QED BY <1>3, <1>5 DEF TodoInv

\* What every call leaves alone.
LEMMA CallIs ==
  ASSUME TypeInv, May, NEW name \in {"mkdir", "create", "write", "delete"}, NEW w, Do(name, w)
  PROVE  /\ up /\ up' /\ todo = <<>> /\ Elems(todo) = {} /\ ~strayed
         /\ call' = name /\ calls' \in 0 .. MaxCalls /\ ents \in [Slots -> Placed]
         /\ UNCHANGED <<disk, up, boots, clean>>
<1>1. /\ up /\ up' /\ todo = <<>> /\ ~strayed
      /\ call' = name /\ UNCHANGED <<disk, up, boots, clean>> /\ ents \in [Slots -> Placed]
  BY DEF May, Ready, Do, TypeInv
<1>2. calls' \in 0 .. MaxCalls
  BY SizeAssumption DEF May, Do, TypeInv
<1> QED BY <1>1, <1>2, NoElem

LEMMA MkdirCall ==
  ASSUME TypeInv, Mkdir
  PROVE  /\ May /\ \E w : Do("mkdir", w)
         /\ file_count < MaxFiles /\ file_count' = file_count + 1
         /\ UNCHANGED <<bitmap, written, strayed>>
<1>1. May /\ UNCHANGED <<bitmap, written, strayed>>
  BY Zenon DEF Mkdir
<1>2. PICK p \in NewDirs : /\ MayAdd(p) /\ file_count' = file_count + 1
                           /\ \E w : Do("mkdir", w)
  BY Zenon DEF Mkdir
<1> QED BY <1>1, <1>2 DEF MayAdd

LEMMA CreateCall ==
  ASSUME TypeInv, Create
  PROVE  /\ May /\ \E w : Do("create", w)
         /\ file_count < MaxFiles /\ file_count' = file_count + 1
         /\ UNCHANGED strayed
<1>1. May /\ UNCHANGED strayed
  BY Zenon DEF Create
<1>2. PICK p \in NewFiles, size \in Sizes, s \in Data :
         /\ MayAdd(p) /\ file_count' = file_count + 1
         /\ \E w : Do("create", w)
  BY Zenon DEF Create
<1> QED BY <1>1, <1>2 DEF MayAdd

LEMMA WriteCall ==
  ASSUME TypeInv, Write
  PROVE  May /\ (\E w : Do("write", w)) /\ UNCHANGED <<file_count, ents, bitmap, strayed>>
<1>1. May /\ UNCHANGED <<file_count, ents, bitmap, strayed>>
  BY Zenon DEF Write, memory
<1>2. PICK p \in Paths : \E w : Do("write", w)
  BY Zenon DEF Write
<1> QED BY <1>1, <1>2

LEMMA DeleteCall ==
  ASSUME TypeInv, Delete
  PROVE  May /\ \E w : Do("delete", w)
<1>1. May
  BY Zenon DEF Delete
<1>2. PICK p \in Paths \ {Root} : \E w : Do("delete", w)
  BY Zenon DEF Delete
<1> QED BY <1>1, <1>2

LEMMA TypeAdd ==
  ASSUME TypeInv, NEW name \in {"mkdir", "create"}, May, \E w : Do(name, w),
         file_count < MaxFiles, file_count' = file_count + 1, UNCHANGED strayed,
         NEW e \in Placed, ents' = [ents EXCEPT ![file_count] = e],
         bitmap' \in SUBSET Data, written' \in SUBSET Paths,
         todo' \in Seq(Sectors \X Content),
         \A w \in Elems(todo') : \/ Quiet(w) \/ w = <<0, Header(file_count')>>
                                 \/ w = <<EntrySector(file_count), Entry(e)>>
  PROVE  TypeInv' /\ TodoInv'
<1>1. /\ up /\ up' /\ ~strayed /\ ~strayed' /\ call' = name /\ calls' \in 0 .. MaxCalls
      /\ ents \in [Slots -> Placed] /\ UNCHANGED <<disk, up, boots, clean>>
  <2>1. PICK w : Do(name, w)
    OBVIOUS
  <2> QED BY <2>1, CallIs
<1>2. file_count \in Slots /\ file_count' \in 0 .. MaxFiles
  BY LayoutAssumption DEF TypeInv, Slots
<1>3. ents' \in [Slots -> Placed] /\ ents'[file_count] = e
  BY <1>1, <1>2
<1>4. ents' \in [Slots -> Record]
  BY <1>3, PlacedIs
<1>5. TypeInv'
  BY <1>1, <1>2, <1>3, <1>4 DEF TypeInv
<1>6. TodoInv'
  BY <1>2, <1>3 DEF TodoInv, Quiet
<1> QED BY <1>5, <1>6

LEMMA TypeMkdir ==
  ASSUME TypeInv, Mkdir
  PROVE  TypeInv' /\ TodoInv'
<1>1. /\ May /\ \E w : Do("mkdir", w)
      /\ file_count < MaxFiles /\ file_count' = file_count + 1
      /\ UNCHANGED <<bitmap, written, strayed>>
  BY MkdirCall
<1>2. PICK p \in Paths : LET e == NewEntry(p, "dir", 0, 0) IN
           /\ MayAdd(p) /\ e \in Placed /\ ents' = [ents EXCEPT ![file_count] = e]
           /\ todo' \in Seq(Sectors \X Content)
           /\ Elems(todo') = {<<0, Header(file_count')>>, <<EntrySector(file_count), Entry(e)>>}
  BY MkdirIs, Zenon
<1> DEFINE e == NewEntry(p, "dir", 0, 0)
           name == "mkdir"
           mine(w) == \/ Quiet(w) \/ w = <<0, Header(file_count')>>
                      \/ w = <<EntrySector(file_count), Entry(e)>>
<1>3. e \in Placed /\ ents' = [ents EXCEPT ![file_count] = e]
  BY <1>2
<1>4. \A w \in Elems(todo') : mine(w)
  <2> HIDE DEF e
  <2> QED BY <1>2 DEF e
<1>5. bitmap' \in SUBSET Data /\ written' \in SUBSET Paths
  BY <1>1 DEF TypeInv
<1>6. name \in {"mkdir", "create"} /\ \E w : Do(name, w)
  BY <1>1
<1> HIDE DEF e, name
<1> QED BY <1>1, <1>2, <1>3, <1>4, <1>5, <1>6, TypeAdd

LEMMA TypeCreate ==
  ASSUME TypeInv, Create
  PROVE  TypeInv' /\ TodoInv'
<1>1. /\ May /\ \E w : Do("create", w)
      /\ file_count < MaxFiles /\ file_count' = file_count + 1
      /\ UNCHANGED strayed
  BY CreateCall
<1>2. PICK p \in Paths : \E size \in Sizes, s \in Data : LET e == NewEntry(p, "file", s, size) IN
           /\ MayAdd(p) /\ e \in Placed /\ ents' = [ents EXCEPT ![file_count] = e]
           /\ bitmap' \in SUBSET Data
           /\ todo' \in Seq(Sectors \X Content)
           /\ {<<0, Header(file_count')>>, <<EntrySector(file_count), Entry(e)>>} \subseteq Elems(todo')
           /\ \A w \in Elems(todo') :
                \/ Quiet(w) \/ w = <<0, Header(file_count')>>
                \/ w = <<EntrySector(file_count), Entry(e)>>
           /\ written' = written \ {p}
  BY CreateIs, Zenon
<1>3. PICK e \in Placed :
           /\ ents' = [ents EXCEPT ![file_count] = e]
           /\ bitmap' \in SUBSET Data
           /\ todo' \in Seq(Sectors \X Content)
           /\ \A w \in Elems(todo') :
                \/ Quiet(w) \/ w = <<0, Header(file_count')>>
                \/ w = <<EntrySector(file_count), Entry(e)>>
           /\ written' = written \ {p}
  BY <1>2, Zenon
<1>4. written' \in SUBSET Paths
  BY <1>3 DEF TypeInv
<1> DEFINE name == "create"
<1>5. name \in {"mkdir", "create"} /\ \E w : Do(name, w)
  BY <1>1
<1> HIDE DEF name
<1> QED BY <1>1, <1>3, <1>4, <1>5, TypeAdd

LEMMA TypeWrite ==
  ASSUME TypeInv, Write
  PROVE  TypeInv' /\ TodoInv'
<1>1. /\ up /\ up' /\ ~strayed /\ call' = "write" /\ calls' \in 0 .. MaxCalls
      /\ UNCHANGED <<disk, up, boots, clean, file_count, ents, bitmap, strayed>>
  <2>1. PICK w : May /\ Do("write", w) /\ UNCHANGED <<file_count, ents, bitmap, strayed>>
    BY WriteCall
  <2> QED BY <2>1, CallIs
<1>2. PICK i \in Slots : \A w \in Elems(todo') : Quiet(w) \/ w = <<EntrySector(i), Entry(ents[i])>>
  BY WriteIs
<1>3. todo' \in Seq(Sectors \X Content) /\ written' \in SUBSET Paths
  BY WriteIs
<1>4. TypeInv'
  BY <1>1, <1>3 DEF TypeInv
<1>5. TodoInv'
  BY <1>1, <1>2 DEF TodoInv, Quiet
<1> QED BY <1>4, <1>5

LEMMA TypeDelete ==
  ASSUME TypeInv, Delete
  PROVE  TypeInv' /\ TodoInv'
<1>1. /\ up /\ up' /\ ~strayed /\ call' = "delete" /\ calls' \in 0 .. MaxCalls
      /\ UNCHANGED <<disk, up, boots, clean>>
  <2>1. PICK w : May /\ Do("delete", w)
    BY DeleteCall
  <2> QED BY <2>1, CallIs
<1> DEFINE last == file_count - 1
<1>2. PICK i \in Slots :
           /\ i <= last /\ last \in Slots /\ file_count' = last
           /\ ents' \in [Slots -> Record] /\ bitmap' \in SUBSET Data
           /\ todo' # <<>> /\ strayed' \in BOOLEAN /\ written' \in SUBSET Paths
           /\ ~strayed' =>
                /\ ents' \in [Slots -> Placed] /\ todo' \in Seq(Sectors \X Content)
                /\ \A w \in Elems(todo') :
                     Quiet(w) \/ w = <<0, Header(last)>> \/ w \in RowsOf(ents', i, last + 1)
  BY DeleteIs, Zenon
<1>3. file_count' \in 0 .. MaxFiles
  BY <1>2, LayoutAssumption DEF Slots
<1>4. TypeInv'
  BY <1>1, <1>2, <1>3 DEF TypeInv
<1>5. ASSUME NEW w, w \in RowsOf(ents', i, last + 1)
      PROVE  \E j \in Slots : w = <<EntrySector(j), Entry(ents'[j])>>
  <2>1. PICK j \in i .. (last + 1) - 1 : w = <<EntrySector(j), Entry(ents'[j])>>
    <3> DEFINE es == ents'
               to == last + 1
    <3>1. w \in RowsOf(es, i, to)
      BY <1>5
    <3> HIDE DEF es, to
    <3> QED BY <3>1, RowIs DEF es, to
  <2>2. j \in Slots
    BY <1>2, LayoutAssumption DEF Slots
  <2> QED BY <2>1, <2>2
<1> HIDE DEF last
<1>6. TodoInv'
  BY <1>2, <1>5 DEF TodoInv, Quiet
<1> QED BY <1>4, <1>6

LEMMA TypeInvariance == Spec => [](TypeInv /\ TodoInv)
<1>1. Init => TypeInv /\ TodoInv
  BY TypeInit
<1>2. TypeInv /\ TodoInv /\ [Next]_vars => TypeInv' /\ TodoInv'
  <2> SUFFICES ASSUME TypeInv, TodoInv, [Next]_vars PROVE TypeInv' /\ TodoInv'
    OBVIOUS
  <2>1. CASE Next
    BY <2>1, TypeBoot, TypeFlush, TypePowerOff, TypeMkdir, TypeCreate, TypeWrite, TypeDelete DEF Next
  <2>2. CASE UNCHANGED vars
    BY <2>2 DEF vars, memory, TypeInv, TodoInv, Quiet
  <2> QED BY <2>1, <2>2
<1> QED BY <1>1, <1>2, PTL DEF Spec

\* Every variable keeps its type, through any calls, power failures and starts: no entry
\* says that its file lies outside the disk, the bitmap marks data only, and a call
\* writes to sectors of the disk only, up to a delete that moves a file to before the
\* data (xcfs.c:318-333).
THEOREM TypeCorrect == Spec => []TypeOK
<1>1. TypeInv => TypeOK
  <2> SUFFICES ASSUME TypeInv PROVE TypeOK
    OBVIOUS
  <2>1. ~strayed => ents \in [Slots -> EntryType]
    BY DEF TypeInv, Placed
  <2>2. ASSUME ~strayed, NEW k \in DOMAIN todo PROVE todo[k][1] \in Sectors
    <3> DEFINE T == Sectors \X Content
               w == todo[k]
    <3>1. todo \in Seq(T)
      BY <2>2 DEF TypeInv
    <3>2. w \in T
      <4> HIDE DEF T
      <4> QED BY <3>1, ElemsTyped DEF Elems
    <3> HIDE DEF w
    <3>3. w[1] \in Sectors
      BY <3>2
    <3> QED BY <3>3 DEF w
  <2>3. \A s \in Sectors : disk[s].kind \in {"zero", "header", "entry", "bitmap", "data"}
    BY ContentIs DEF TypeInv
  <2>4. /\ file_count \in 0 .. MaxFiles /\ bitmap \subseteq Data
        /\ up \in BOOLEAN /\ clean \in BOOLEAN /\ strayed \in BOOLEAN /\ boots \in 0 .. MaxBoots
        /\ calls \in 0 .. MaxCalls /\ written \subseteq Paths
        /\ call \in {"off", "init", "mkdir", "create", "write", "delete"}
    BY DEF TypeInv
  <2> QED BY <2>1, <2>2, <2>3, <2>4 DEF TypeOK
<1> QED BY <1>1, TypeInvariance, PTL

---------------------------------------------------------------------------
\* The names.  Rows has the entries that are not stored in a sector of the data; Room
\* says that the entries in use are among them.
Rows == {i \in Slots : EntrySector(i) < DataStart}
Room == file_count < DataStart

Alike(e, f) == e.path = f.path /\ e.type = f.type /\ e.size = f.size

\* A table with one entry to a path, and no left-overs behind the last of them.
Table(count, es) ==
  /\ count \in 1 .. MaxFiles /\ es[0].path = Root
  /\ \A i \in 0 .. count - 1 : es[i].path \in Paths
  /\ \A i, j \in 0 .. count - 1 : i # j => es[i].path # es[j].path
  /\ \A i \in Rows : i >= count => Alike(es[i], Cleared)
On(d) == [i \in Slots |-> EntryOn(d, i)]
Writes(t, s) == \E w \in Elems(t) : w[1] = s

\* In memory; on the disk of a machine that is off; while it is on, where it is not
\* about to be written; and on the disk in a call that adds an entry.
MemInv == up => Table(file_count, ents)
OffInv == ~up => IF disk[0].kind = "header"
                 THEN Table(CountOn(disk), On(disk)) /\ CountOn(disk) < DataStart
                 ELSE \A i \in Rows : Alike(EntryOn(disk, i), Cleared)
DiskInv == up /\ ~strayed =>
  /\ CountOn(disk) = file_count \/ Writes(todo, 0)
  /\ \A i \in Rows : Alike(EntryOn(disk, i), ents[i]) \/ Writes(todo, EntrySector(i))
CallInv == up /\ ~strayed /\ call # "delete" =>
  /\ CountOn(disk) <= file_count
  /\ \A i \in Rows : Alike(EntryOn(disk, i), ents[i]) \/ Alike(EntryOn(disk, i), Cleared)
NamesInv == clean => MemInv /\ OffInv /\ DiskInv /\ CallInv

LEMMA RowsAre ==
  /\ Rows \subseteq Slots /\ Slots \subseteq Nat
  /\ \A i \in Rows : /\ EntrySector(i) \in Sectors \ {0, BitmapSector}
                     /\ EntrySector(i) \notin Data
  /\ \A i \in Slots, j \in Slots : EntrySector(i) = EntrySector(j) => i = j
  /\ \A n \in 0 .. MaxFiles : n < DataStart => 0 .. n - 1 \subseteq Rows
<1>1. \A i \in Rows : EntrySector(i) \notin Data
  BY LayoutAssumption DEF Rows, Data
<1>2. \A n \in 0 .. MaxFiles : n < DataStart => 0 .. n - 1 \subseteq Rows
  BY LayoutAssumption DEF Rows, Slots, EntrySector
<1> QED BY <1>1, <1>2, Layout DEF Rows

LEMMA WritesIs ==
  /\ ~Writes(<<>>, 0) /\ \A i : ~Writes(<<>>, EntrySector(i))
  /\ \A t, s, x : <<s, x>> \in Elems(t) => Writes(t, s)
<1>1. \A t, s, x : <<s, x>> \in Elems(t) => Writes(t, s)
  BY DEF Writes
<1>2. Elems(<<>>) = {}
  BY NoElem
<1>3. \A s : ~Writes(<<>>, s)
  BY <1>2, Zenon DEF Writes
<1> QED BY <1>1, <1>3

LEMMA AlikeIs ==
  /\ \A e : Alike(e, e)
  /\ \A e, f : Alike(e, f) => Alike(f, e)
  /\ \A e, f, g : Alike(e, f) /\ Alike(f, g) => Alike(e, g)
  BY DEF Alike

\* What a flush does to the header and to the rows.
LEMMA FlushIs ==
  ASSUME TypeInv, TodoInv, Flush
  PROVE  /\ up /\ ~strayed /\ UNCHANGED <<file_count, ents, up, clean, call, strayed>>
         /\ \/ CountOn(disk') = file_count
            \/ CountOn(disk') = CountOn(disk) /\ (Writes(todo, 0) => Writes(todo', 0))
         /\ \A i \in Rows :
              \/ EntryOn(disk', i) = ents[i]
              \/ /\ EntryOn(disk', i) = EntryOn(disk, i)
                 /\ Writes(todo, EntrySector(i)) => Writes(todo', EntrySector(i))
<1> DEFINE w == Head(todo)
           s == w[1]
           x == w[2]
<1>1. up /\ ~strayed /\ UNCHANGED <<file_count, ents, up, clean, call, strayed>>
  BY DEF Flush, memory, TypeInv
<1>2. /\ w \in Elems(todo) /\ Elems(todo) = {w} \cup Elems(todo')
      /\ s \in Sectors /\ disk' = [disk EXCEPT ![s] = x]
  BY TypeFlush
<1>3. \/ Quiet(w) \/ w = <<0, Header(file_count)>>
      \/ \E j \in Slots : w = <<EntrySector(j), Entry(ents[j])>>
  <2> HIDE DEF w
  <2> QED BY <1>1, <1>2 DEF TodoInv
<1>4. \A t : t # s /\ Writes(todo, t) => Writes(todo', t)
  <2> HIDE DEF w
  <2> QED BY <1>2 DEF Writes
<1>5. s = 0 => x = Header(file_count)
  <2>1. CASE Quiet(w)
    BY <2>1, Layout DEF Quiet
  <2>2. CASE w = <<0, Header(file_count)>>
    BY <2>2
  <2>3. ASSUME NEW j \in Slots, w = <<EntrySector(j), Entry(ents[j])>>, s = 0 PROVE FALSE
    <3>1. s = EntrySector(j)
      BY <2>3
    <3> QED BY <2>3, <3>1, Layout
  <2> QED BY <1>3, <2>1, <2>2, <2>3
<1>6. ASSUME NEW i \in Rows, s = EntrySector(i) PROVE x = Entry(ents[i])
  <2> HIDE DEF s, x
  <2>1. CASE Quiet(w)
    BY <1>6, <2>1, RowsAre DEF Quiet, s
  <2>2. CASE w = <<0, Header(file_count)>>
    <3>1. s = 0
      BY <2>2 DEF s
    <3> QED BY <1>6, <3>1, RowsAre
  <2>3. ASSUME NEW j \in Slots, w = <<EntrySector(j), Entry(ents[j])>> PROVE x = Entry(ents[i])
    <3>1. s = EntrySector(j) /\ x = Entry(ents[j])
      BY <2>3 DEF s, x
    <3>2. i = j
      BY <1>6, <3>1, RowsAre
    <3> QED BY <3>1, <3>2
  <2> QED BY <1>3, <2>1, <2>2, <2>3
<1> HIDE DEF w, s, x
<1>7. \A t \in Sectors : disk'[t] = IF t = s THEN x ELSE disk[t]
  BY <1>2 DEF TypeInv
<1>8. CASE s = 0
  <2>1. disk'[0] = Header(file_count)
    BY <1>5, <1>7, <1>8, Layout
  <2>2. CountOn(disk') = file_count
    BY <2>1, ReadBack, Zenon DEF CountOn
  <2>3. \A i \in Rows : EntrySector(i) # s /\ disk'[EntrySector(i)] = disk[EntrySector(i)]
    BY <1>7, <1>8, RowsAre
  <2>4. \A i \in Rows : EntryOn(disk', i) = EntryOn(disk, i)
    BY <2>3, Zenon DEF EntryOn
  <2> QED BY <1>1, <1>4, <2>2, <2>3, <2>4
<1>9. CASE s # 0
  <2>1. disk'[0] = disk[0]
    BY <1>7, <1>9, Layout
  <2>2. CountOn(disk') = CountOn(disk) /\ (Writes(todo, 0) => Writes(todo', 0))
    BY <1>4, <1>9, <2>1, Zenon DEF CountOn
  <2>3. ASSUME NEW i \in Rows
        PROVE  \/ EntryOn(disk', i) = ents[i]
               \/ /\ EntryOn(disk', i) = EntryOn(disk, i)
                  /\ Writes(todo, EntrySector(i)) => Writes(todo', EntrySector(i))
    <3>1. CASE s = EntrySector(i)
      <4>1. disk'[EntrySector(i)] = Entry(ents[i])
        BY <1>6, <1>7, <3>1, RowsAre
      <4> QED BY <4>1, ReadBack, Zenon DEF EntryOn
    <3>2. CASE s # EntrySector(i)
      <4>1. disk'[EntrySector(i)] = disk[EntrySector(i)]
        BY <1>7, <3>2, RowsAre
      <4> QED BY <1>4, <3>2, <4>1, Zenon DEF EntryOn
    <3> QED BY <3>1, <3>2
  <2> QED BY <1>1, <2>2, <2>3
<1> QED BY <1>8, <1>9

LEMMA TableCopied ==
  ASSUME NEW count, NEW es, NEW fs, Table(count, es),
         \A i \in 0 .. count - 1 : fs[i].path = es[i].path,
         \A i \in Rows : i >= count => Alike(fs[i], Cleared)
  PROVE  Table(count, fs)
<1>1. count \in 1 .. MaxFiles /\ 0 \in 0 .. count - 1
  BY DEF Table
<1> QED BY <1>1 DEF Table

LEMMA NamesInit ==
  ASSUME Init
  PROVE  NamesInv
<1>1. ~up /\ disk = [s \in Sectors |-> Zero]
  BY DEF Init
<1>2. disk[0] = Zero /\ \A i \in Rows : disk[EntrySector(i)] = Zero
  BY <1>1, Layout, RowsAre
<1>3. "zero" # "header" /\ "zero" # "entry"
  OBVIOUS
<1>4. disk[0].kind # "header" /\ \A i \in Rows : EntryOn(disk, i) = Cleared
  BY <1>2, <1>3, ReadBack, Zenon DEF EntryOn
<1>5. OffInv
  BY <1>4, AlikeIs, Zenon DEF OffInv
<1> QED BY <1>1, <1>5 DEF NamesInv, MemInv, DiskInv, CallInv

LEMMA NamesBoot ==
  ASSUME TypeInv, NamesInv, Boot, clean
  PROVE  MemInv' /\ OffInv' /\ DiskInv' /\ CallInv'
<1>1. ~up /\ up' /\ UNCHANGED <<disk, strayed>> /\ OffInv
  BY DEF Boot, NamesInv
<1>2. OffInv'
  BY <1>1 DEF OffInv
<1>3. CASE disk[0].kind = "header"
  <2>1. Load /\ Table(CountOn(disk), On(disk))
    BY <1>1, <1>3 DEF Boot, OffInv
  <2>2. /\ file_count' = CountOn(disk) /\ todo' = <<>> /\ file_count' \in 0 .. MaxFiles
        /\ \A i \in Slots : ents'[i] = IF i < CountOn(disk) THEN EntryOn(disk, i) ELSE Cleared
    BY <2>1, LoadIs
  <2> DEFINE n == CountOn(disk)
  <2>3. n \in 1 .. MaxFiles /\ \A i \in 0 .. n - 1 : i \in Slots /\ i < n
    <3>1. n \in 1 .. MaxFiles
      BY <2>1 DEF Table
    <3> HIDE DEF n
    <3> QED BY <3>1, LayoutAssumption DEF Slots
  <2>4. /\ \A i \in Slots : On(disk)[i] = EntryOn(disk, i)
        /\ \A i \in 0 .. n - 1 : ents'[i] = On(disk)[i]
    <3>1. \A i \in Slots : On(disk)[i] = EntryOn(disk, i)
      BY DEF On
    <3> HIDE DEF n
    <3> QED BY <2>2, <2>3, <3>1 DEF n
  <2>5. \A i \in Rows : i >= n => ents'[i] = Cleared /\ Alike(EntryOn(disk, i), Cleared)
    <3>1. ASSUME NEW i \in Rows, i >= n
          PROVE  ents'[i] = Cleared /\ Alike(EntryOn(disk, i), Cleared)
      <4>1. i \in Slots /\ i \in Nat /\ ~(i < n)
        BY <2>3, <3>1, RowsAre
      <4>2. ents'[i] = Cleared
        BY <2>2, <4>1
      <4>3. Alike(On(disk)[i], Cleared)
        BY <2>1, <3>1 DEF Table
      <4> QED BY <2>4, <4>1, <4>2, <4>3
    <3> QED BY <3>1
  <2> HIDE DEF n
  <2>6. Table(file_count', ents')
    <3> DEFINE old == On(disk)
               new == ents'
    <3>1. file_count' = n /\ Table(n, old)
      BY <2>1, <2>2 DEF n
    <3>2. \A i \in 0 .. n - 1 : new[i].path = old[i].path
      BY <2>4
    <3>3. \A i \in Rows : i >= n => Alike(new[i], Cleared)
      BY <2>5, AlikeIs
    <3> HIDE DEF old, new
    <3>4. Table(n, new)
      BY <3>1, <3>2, <3>3, TableCopied
    <3> QED BY <3>1, <3>4 DEF new
  <2>7. \A i \in Rows : Alike(EntryOn(disk', i), ents'[i])
    <3>1. ASSUME NEW i \in Rows PROVE Alike(EntryOn(disk, i), ents'[i])
      <4>1. i \in Nat /\ i \in Slots
        BY RowsAre
      <4>2. CASE i < n
        BY <2>2, <4>1, <4>2, AlikeIs DEF n
      <4>3. CASE ~(i < n)
        BY <2>3, <2>5, <4>1, <4>3
      <4> QED BY <4>2, <4>3
    <3> QED BY <1>1, <3>1
  <2>8. CountOn(disk') = file_count' /\ CountOn(disk') <= file_count'
    BY <1>1, <2>2, <2>3 DEF n
  <2> QED BY <1>2, <2>6, <2>7, <2>8 DEF MemInv, DiskInv, CallInv
<1>4. CASE disk[0].kind # "header"
  <2>1. Format /\ \A i \in Rows : Alike(EntryOn(disk, i), Cleared)
    BY <1>1, <1>4 DEF Boot, OffInv
  <2>2. /\ ents'[0] = RootEntry /\ \A i \in Slots \ {0} : ents'[i] = Cleared
        /\ {<<0, Header(file_count')>>, <<EntrySector(0), Entry(RootEntry)>>} \subseteq Elems(todo')
    BY <2>1, FormatIs
  <2>3. file_count' = 1 /\ CountOn(disk') = 0
    <3>1. file_count' = 1
      BY <2>1, Zenon DEF Format
    <3>2. CountOn(disk) = 0
      BY <1>4, Zenon DEF CountOn
    <3> QED BY <1>1, <3>1, <3>2
  <2>4. Writes(todo', 0) /\ Writes(todo', EntrySector(0))
    BY <2>2, WritesIs
  <2>5. Table(file_count', ents')
    <3> DEFINE es == ents'
    <3>1. es[0].path = Root /\ \A i \in Rows : i >= 1 => Alike(es[i], Cleared)
      <4>1. \A i \in Rows : i >= 1 => i \in Slots \ {0}
        BY RowsAre
      <4>2. \A i \in Rows : i >= 1 => es[i] = Cleared
        BY <2>2, <4>1
      <4> QED BY <2>2, <4>2, AlikeIs, PlacedIs
    <3>2. 0 .. 1 - 1 = {0} /\ 1 \in 1 .. MaxFiles
      BY LayoutAssumption
    <3> HIDE DEF es
    <3>3. Table(1, es)
      BY <3>1, <3>2, PathAssumption DEF Table
    <3> QED BY <2>3, <3>3 DEF es
  <2>6. \A i \in Rows : Alike(EntryOn(disk', i), Cleared)
    BY <1>1, <2>1
  <2>7. \A i \in Rows : Alike(EntryOn(disk', i), ents'[i]) \/ Writes(todo', EntrySector(i))
    <3>1. ASSUME NEW i \in Rows, i # 0 PROVE Alike(EntryOn(disk', i), ents'[i])
      <4>1. ents'[i] = Cleared
        BY <2>2, <3>1, RowsAre
      <4> QED BY <2>6, <4>1
    <3> QED BY <2>4, <3>1
  <2> QED BY <1>2, <2>3, <2>4, <2>5, <2>6, <2>7 DEF MemInv, DiskInv, CallInv
<1> QED BY <1>3, <1>4

LEMMA NamesFlush ==
  ASSUME TypeInv, TodoInv, NamesInv, Flush, clean
  PROVE  MemInv' /\ OffInv' /\ DiskInv' /\ CallInv'
<1>1. /\ up /\ ~strayed /\ UNCHANGED <<file_count, ents, up, clean, call, strayed>>
      /\ \/ CountOn(disk') = file_count
         \/ CountOn(disk') = CountOn(disk) /\ (Writes(todo, 0) => Writes(todo', 0))
      /\ \A i \in Rows :
            \/ EntryOn(disk', i) = ents[i]
            \/ /\ EntryOn(disk', i) = EntryOn(disk, i)
               /\ Writes(todo, EntrySector(i)) => Writes(todo', EntrySector(i))
  BY FlushIs
<1>2. MemInv' /\ OffInv'
  BY <1>1 DEF NamesInv, MemInv, OffInv
<1>3. DiskInv /\ CallInv
  BY DEF NamesInv
<1>4. DiskInv'
  <2>1. \A i \in Rows : Alike(EntryOn(disk', i), ents[i]) \/ Writes(todo', EntrySector(i))
    BY <1>1, <1>3, AlikeIs DEF DiskInv
  <2>2. CountOn(disk') = file_count \/ Writes(todo', 0)
    BY <1>1, <1>3 DEF DiskInv
  <2> QED BY <1>1, <2>1, <2>2 DEF DiskInv
<1>5. CallInv'
  <2> SUFFICES ASSUME call # "delete"
               PROVE  /\ CountOn(disk') <= file_count
                      /\ \A i \in Rows : \/ Alike(EntryOn(disk', i), ents[i])
                                         \/ Alike(EntryOn(disk', i), Cleared)
    BY <1>1 DEF CallInv
  <2>1. file_count \in 0 .. MaxFiles /\ file_count <= file_count
    BY LayoutAssumption DEF TypeInv
  <2> QED BY <1>1, <1>3, <2>1, AlikeIs DEF CallInv
<1> QED BY <1>2, <1>4, <1>5

LEMMA NamesPowerOff ==
  ASSUME TypeInv, NamesInv, Room, PowerOff, clean'
  PROVE  MemInv' /\ OffInv' /\ DiskInv' /\ CallInv'
<1>1. /\ up /\ ~up' /\ ~strayed /\ clean /\ todo = <<>> /\ UNCHANGED <<disk, strayed>>
  BY DEF PowerOff
<1>2. /\ Table(file_count, ents) /\ CountOn(disk) = file_count
      /\ \A i \in Rows : Alike(EntryOn(disk, i), ents[i])
  BY <1>1, WritesIs DEF NamesInv, MemInv, DiskInv
<1> DEFINE n == file_count
           new == On(disk)
           old == ents
<1>3. n \in 1 .. MaxFiles /\ n < DataStart /\ 0 .. n - 1 \subseteq Rows
  <2>1. n \in 1 .. MaxFiles /\ n \in 0 .. MaxFiles /\ n < DataStart
    BY <1>2 DEF Table, Room, TypeInv
  <2> HIDE DEF n
  <2> QED BY <2>1, RowsAre
<1>4. \A i \in Rows : new[i] = EntryOn(disk, i)
  BY RowsAre DEF On
<1>5. Table(n, new)
  <2>1. \A i \in 0 .. n - 1 : new[i].path = old[i].path
    BY <1>2, <1>3, <1>4 DEF Alike
  <2>2. \A i \in Rows : i >= n => Alike(new[i], Cleared)
    <3>1. \A i \in Rows : i >= n => Alike(old[i], Cleared)
      BY <1>2 DEF Table
    <3> QED BY <1>2, <1>4, <3>1, AlikeIs
  <2>3. Table(n, old)
    BY <1>2
  <2> HIDE DEF n, new, old
  <2> QED BY <2>1, <2>2, <2>3, TableCopied
<1>6. disk[0].kind = "header"
  <2>1. CountOn(disk) # 0
    BY <1>2, <1>3
  <2> QED BY <2>1, Zenon DEF CountOn
<1>7. OffInv'
  BY <1>1, <1>2, <1>3, <1>5, <1>6 DEF OffInv
<1> QED BY <1>1, <1>7 DEF MemInv, DiskInv, CallInv

\* Before a call that may run, nothing is to be written: the disk has what the memory has.
LEMMA SettledBefore ==
  ASSUME TypeInv, NamesInv, clean, up, ~strayed, todo = <<>>
  PROVE  /\ Table(file_count, ents) /\ CountOn(disk) = file_count
         /\ \A i \in Rows : Alike(EntryOn(disk, i), ents[i])
  BY WritesIs DEF NamesInv, MemInv, DiskInv

LEMMA NamesAdd ==
  ASSUME TypeInv, NamesInv, clean, up, up', ~strayed, todo = <<>>, UNCHANGED disk,
         NEW p \in Paths, ~Has(p), NEW e \in Placed, e.path = p,
         file_count < MaxFiles, file_count' = file_count + 1,
         ents' = [ents EXCEPT ![file_count] = e],
         <<0, Header(file_count')>> \in Elems(todo'),
         <<EntrySector(file_count), Entry(e)>> \in Elems(todo')
  PROVE  MemInv' /\ OffInv' /\ DiskInv' /\ CallInv'
<1> DEFINE n == file_count
           old == ents
           new == ents'
<1>1. /\ Table(n, old) /\ CountOn(disk) = n
      /\ \A i \in Rows : Alike(EntryOn(disk, i), old[i])
  BY SettledBefore
<1>2. n \in 1 .. MaxFiles /\ n + 1 \in 1 .. MaxFiles /\ n \in Slots /\ n # 0
  <2>1. n \in 1 .. MaxFiles
    BY <1>1 DEF Table
  <2> QED BY <2>1, LayoutAssumption DEF Slots
<1>3. new[n] = e /\ \A i \in Slots \ {n} : new[i] = old[i]
  BY <1>2 DEF TypeInv
<1>4. \A i \in 0 .. n - 1 : i \in Slots \ {n} /\ new[i] = old[i] /\ old[i].path # p
  <2>1. \A i \in 0 .. n - 1 : i \in Slots \ {n}
    <3> HIDE DEF n
    <3> QED BY <1>2, LayoutAssumption DEF Slots
  <2>2. \A i \in 0 .. n - 1 : old[i].path # p
    BY DEF Has, Live
  <2> QED BY <1>3, <2>1, <2>2
<1>5. Table(n + 1, new)
  <2> HIDE DEF n, new, old
  <2>1. 0 \in 0 .. n - 1 /\ new[0].path = Root
    BY <1>1, <1>2, <1>4 DEF Table
  <2>2. 0 .. (n + 1) - 1 = (0 .. n - 1) \cup {n}
    BY <1>2
  <2>3. \A i \in 0 .. (n + 1) - 1 : new[i].path \in Paths
    BY <1>1, <1>3, <1>4, <2>2 DEF Table
  <2>4. \A i, j \in 0 .. (n + 1) - 1 : i # j => new[i].path # new[j].path
    <3>1. \A i, j \in 0 .. n - 1 : i # j => new[i].path # new[j].path
      BY <1>1, <1>4 DEF Table
    <3>2. \A i \in 0 .. n - 1 : new[i].path # new[n].path
      BY <1>3, <1>4
    <3> QED BY <2>2, <3>1, <3>2
  <2>5. ASSUME NEW i \in Rows, i >= n + 1 PROVE Alike(new[i], Cleared)
    <3>1. i \in Slots \ {n} /\ i >= n
      BY <1>2, <2>5, RowsAre
    <3> QED BY <1>1, <1>3, <3>1 DEF Table
  <2> QED BY <1>2, <2>1, <2>3, <2>4, <2>5 DEF Table
<1>6. MemInv' /\ OffInv'
  BY <1>5 DEF MemInv, OffInv
<1>7. Writes(todo', 0) /\ Writes(todo', EntrySector(n))
  BY WritesIs
<1>8. ASSUME NEW i \in Rows
      PROVE  /\ Alike(EntryOn(disk, i), new[i]) \/ Writes(todo', EntrySector(i))
             /\ Alike(EntryOn(disk, i), new[i]) \/ Alike(EntryOn(disk, i), Cleared)
  <2>1. CASE i = n
    <3>1. Alike(old[i], Cleared)
      <4>1. i >= n
        BY <1>2, <2>1
      <4> QED BY <1>1, <4>1 DEF Table
    <3> QED BY <1>1, <1>7, <2>1, <3>1, AlikeIs
  <2>2. CASE i # n
    <3>1. new[i] = old[i]
      BY <1>3, <2>2, RowsAre
    <3> QED BY <1>1, <3>1
  <2> QED BY <2>1, <2>2
<1>9. DiskInv'
  BY <1>7, <1>8 DEF DiskInv
<1>10. CallInv'
  <2>1. CountOn(disk') <= file_count'
    BY <1>1, <1>2
  <2> QED BY <1>8, <2>1 DEF CallInv
<1> QED BY <1>6, <1>9, <1>10

LEMMA NewEntryPath ==
  \A p, type, s, size : /\ NewEntry(p, type, s, size).path = p
                        /\ NewEntry(p, type, s, size).type = type
                        /\ NewEntry(p, type, s, size).parent = IndexOf(ParentOf[p])
  BY DEF NewEntry

LEMMA NamesMkdir ==
  ASSUME TypeInv, NamesInv, clean, Mkdir
  PROVE  MemInv' /\ OffInv' /\ DiskInv' /\ CallInv'
<1>1. /\ up /\ up' /\ todo = <<>> /\ ~strayed /\ UNCHANGED disk
      /\ file_count < MaxFiles /\ file_count' = file_count + 1
  <2>1. PICK w : May /\ Do("mkdir", w)
    BY MkdirCall
  <2> QED BY <2>1, CallIs, MkdirCall
<1>2. PICK p \in Paths : LET e == NewEntry(p, "dir", 0, 0) IN
           /\ MayAdd(p) /\ e \in Placed /\ ents' = [ents EXCEPT ![file_count] = e]
           /\ todo' \in Seq(Sectors \X Content)
           /\ Elems(todo') = {<<0, Header(file_count')>>, <<EntrySector(file_count), Entry(e)>>}
  BY MkdirIs, Zenon
<1> DEFINE e == NewEntry(p, "dir", 0, 0)
<1>3. e \in Placed /\ ents' = [ents EXCEPT ![file_count] = e] /\ ~Has(p) /\ e.path = p
  BY <1>2, NewEntryPath, ZenonT(60) DEF MayAdd
<1>4. Elems(todo') = {<<0, Header(file_count')>>, <<EntrySector(file_count), Entry(e)>>}
  BY <1>2, Zenon
<1> HIDE DEF e
<1>5. /\ <<0, Header(file_count')>> \in Elems(todo')
      /\ <<EntrySector(file_count), Entry(e)>> \in Elems(todo')
  BY <1>4
<1> QED BY <1>1, <1>3, <1>5, NamesAdd

LEMMA NamesCreate ==
  ASSUME TypeInv, NamesInv, clean, Create
  PROVE  MemInv' /\ OffInv' /\ DiskInv' /\ CallInv'
<1>1. /\ up /\ up' /\ todo = <<>> /\ ~strayed /\ UNCHANGED disk
      /\ file_count < MaxFiles /\ file_count' = file_count + 1
  <2>1. PICK w : May /\ Do("create", w)
    BY CreateCall
  <2> QED BY <2>1, CallIs, CreateCall
<1>2. PICK p \in Paths : \E size \in Sizes, s \in Data : LET e == NewEntry(p, "file", s, size) IN
           /\ MayAdd(p) /\ e \in Placed /\ ents' = [ents EXCEPT ![file_count] = e]
           /\ bitmap' \in SUBSET Data
           /\ todo' \in Seq(Sectors \X Content)
           /\ {<<0, Header(file_count')>>, <<EntrySector(file_count), Entry(e)>>} \subseteq Elems(todo')
           /\ \A w \in Elems(todo') :
                \/ Quiet(w) \/ w = <<0, Header(file_count')>>
                \/ w = <<EntrySector(file_count), Entry(e)>>
           /\ written' = written \ {p}
  BY CreateIs, Zenon
<1>3. PICK e \in Placed :
           /\ ~Has(p) /\ e.path = p /\ ents' = [ents EXCEPT ![file_count] = e]
           /\ {<<0, Header(file_count')>>, <<EntrySector(file_count), Entry(e)>>} \subseteq Elems(todo')
  <2>1. PICK size \in Sizes, s \in Data : LET e == NewEntry(p, "file", s, size) IN
           /\ MayAdd(p) /\ e \in Placed /\ ents' = [ents EXCEPT ![file_count] = e]
           /\ {<<0, Header(file_count')>>, <<EntrySector(file_count), Entry(e)>>} \subseteq Elems(todo')
    BY <1>2, Zenon
  <2> DEFINE e == NewEntry(p, "file", s, size)
  <2>2. e.path = p
    BY NewEntryPath
  <2> HIDE DEF e
  <2>3. /\ MayAdd(p) /\ e \in Placed /\ ents' = [ents EXCEPT ![file_count] = e]
        /\ {<<0, Header(file_count')>>, <<EntrySector(file_count), Entry(e)>>} \subseteq Elems(todo')
    BY <2>1, Zenon DEF e
  <2> QED BY <2>2, <2>3, Zenon DEF MayAdd
<1>5. /\ <<0, Header(file_count')>> \in Elems(todo')
      /\ <<EntrySector(file_count), Entry(e)>> \in Elems(todo')
  BY <1>3
<1> QED BY <1>1, <1>3, <1>5, NamesAdd

LEMMA NamesWrite ==
  ASSUME TypeInv, NamesInv, clean, Write
  PROVE  MemInv' /\ OffInv' /\ DiskInv' /\ CallInv'
<1>1. /\ up /\ up' /\ todo = <<>> /\ ~strayed /\ UNCHANGED <<disk, file_count, ents>>
  <2>1. PICK w : May /\ Do("write", w) /\ UNCHANGED <<file_count, ents, bitmap, strayed>>
    BY WriteCall
  <2> QED BY <2>1, CallIs
<1>2. /\ Table(file_count, ents) /\ CountOn(disk) = file_count
      /\ \A i \in Rows : Alike(EntryOn(disk, i), ents[i])
  BY <1>1, SettledBefore
<1>3. file_count <= file_count
  BY LayoutAssumption DEF TypeInv
<1> QED BY <1>1, <1>2, <1>3 DEF MemInv, OffInv, DiskInv, CallInv

\* The table that the delete of entry i leaves: the last entry in its place.
LEMMA TableFilled ==
  ASSUME NEW count, NEW old, NEW i, NEW es, NEW new,
         Table(count, old), i \in 0 .. count - 1, old[i].path # Root,
         \A j \in Slots : Same(es[j], old[j]),
         new[count - 1] = Cleared,
         \A j \in Slots \ {count - 1} :
            Alike(new[j], es[IF j = i THEN count - 1 ELSE j])
  PROVE  /\ Table(count - 1, new)
         /\ \A j \in Slots : j < i \/ j > count - 1 => Alike(new[j], old[j])
<1> DEFINE last == count - 1
           of(j) == IF j = i THEN last ELSE j
<1>1. /\ count \in 1 .. MaxFiles /\ old[0].path = Root /\ i \in Nat /\ i <= last /\ last \in Nat
      /\ i # 0 /\ last \in Slots /\ last \in 1 .. MaxFiles /\ count = last + 1
  BY LayoutAssumption DEF Table, Slots
<1>2. \A j \in 0 .. last - 1 : j \in Slots \ {last} /\ of(j) \in 0 .. count - 1 /\ of(j) \in Slots
  <2> HIDE DEF last
  <2> QED BY <1>1, LayoutAssumption DEF Slots
<1>3. \A j \in 0 .. last - 1, k \in 0 .. last - 1 : j # k => of(j) # of(k)
  <2> HIDE DEF last
  <2> QED BY <1>1
<1>4. \A j \in Slots : Alike(es[j], old[j])
  BY DEF Same, Alike
<1>5. \A j \in 0 .. last - 1 : Alike(new[j], old[of(j)])
  <2>1. \A j \in 0 .. last - 1 : Alike(new[j], es[of(j)])
    BY <1>2
  <2> HIDE DEF of
  <2> QED BY <1>2, <1>4, <2>1, AlikeIs
<1>6. \A j \in Slots : j < i \/ j > last => Alike(new[j], old[j])
  <2>1. ASSUME NEW j \in Slots, j < i \/ j > last PROVE Alike(new[j], old[j])
    <3>1. j \in Slots \ {last} /\ of(j) = j
      BY <1>1, <2>1, RowsAre
    <3>2. Alike(new[j], es[of(j)])
      BY <3>1
    <3> QED BY <1>4, <3>1, <3>2, AlikeIs
  <2> QED BY <2>1
<1>7. new[0].path = Root
  <2>1. 0 \in Slots /\ 0 < i
    BY <1>1, Layout
  <2>2. Alike(new[0], old[0])
    BY <1>6, <2>1
  <2> QED BY <1>1, <2>2 DEF Alike
<1>8. \A j \in Rows : j >= last => Alike(new[j], Cleared)
  <2>1. ASSUME NEW j \in Rows, j >= last PROVE Alike(new[j], Cleared)
    <3>1. CASE j = last
      BY <3>1, AlikeIs
    <3>2. CASE j # last
      <4>1. j \in Slots /\ j > last /\ j >= count
        BY <1>1, <2>1, <3>2, RowsAre
      <4>2. Alike(old[j], Cleared) /\ Alike(new[j], old[j])
        BY <1>6, <4>1 DEF Table
      <4> QED BY <4>2, AlikeIs
    <3> QED BY <3>1, <3>2
  <2> QED BY <2>1
<1> HIDE DEF of
<1>9. \A j \in 0 .. last - 1 : new[j].path \in Paths
  BY <1>2, <1>5 DEF Table, Alike
<1>10. \A j, k \in 0 .. last - 1 : j # k => new[j].path # new[k].path
  <2>1. \A j \in 0 .. last - 1 : new[j].path = old[of(j)].path
    BY <1>5 DEF Alike
  <2> QED BY <1>2, <1>3, <2>1 DEF Table
<1>11. Table(last, new)
  <2> HIDE DEF last
  <2> QED BY <1>1, <1>7, <1>8, <1>9, <1>10 DEF Table
<1> QED BY <1>6, <1>11

LEMMA NamesDelete ==
  ASSUME TypeInv, NamesInv, clean, Delete
  PROVE  MemInv' /\ OffInv' /\ DiskInv' /\ CallInv'
<1>1. /\ up /\ up' /\ todo = <<>> /\ ~strayed /\ UNCHANGED disk /\ call' = "delete"
  <2>1. PICK w : May /\ Do("delete", w)
    BY DeleteCall
  <2> QED BY <2>1, CallIs
<1>2. /\ Table(file_count, ents) /\ CountOn(disk) = file_count
      /\ \A i \in Rows : Alike(EntryOn(disk, i), ents[i])
  BY <1>1, SettledBefore
<1> DEFINE count == file_count
           last == count - 1
           old == ents
           new == ents'
<1>3. PICK i \in Live : \E es \in [Slots -> Record] :
           /\ i \in Slots /\ i <= last /\ last \in Slots
           /\ ents[i].path \in Paths \ {Root}
           /\ \A j \in Slots : Same(es[j], ents[j])
           /\ ents' = Fill(es, i, last) /\ file_count' = last
           /\ ~strayed' => {<<0, Header(last)>>} \cup RowsOf(ents', i, last + 1) \subseteq Elems(todo')
  BY DeleteIs, Zenon
<1>4. PICK es \in [Slots -> Record] :
           /\ i \in Slots /\ i <= last /\ last \in Slots
           /\ ents[i].path \in Paths \ {Root}
           /\ \A j \in Slots : Same(es[j], ents[j])
           /\ ents' = Fill(es, i, last) /\ file_count' = last
           /\ ~strayed' => {<<0, Header(last)>>} \cup RowsOf(ents', i, last + 1) \subseteq Elems(todo')
  BY <1>3, Zenon
<1>5. /\ new[last] = Cleared
      /\ \A j \in Slots \ {last} : Alike(new[j], es[IF j = i THEN last ELSE j])
  <2>1. new = Fill(es, i, last)
    BY <1>4
  <2> HIDE DEF last, new
  <2>2. /\ Fill(es, i, last)[last] = Cleared
        /\ \A j \in Slots \ {last} : LET e == es[IF j = i THEN last ELSE j] IN
              /\ Fill(es, i, last)[j].path = e.path /\ Fill(es, i, last)[j].type = e.type
              /\ Fill(es, i, last)[j].size = e.size
    BY <1>4, FillIs
  <2> QED BY <2>1, <2>2 DEF Alike
<1>6. /\ Table(last, new)
      /\ \A j \in Slots : j < i \/ j > last => Alike(new[j], old[j])
  <2>1. Table(count, old) /\ i \in 0 .. count - 1 /\ old[i].path # Root
    BY <1>2, <1>3 DEF Live
  <2>2. new[count - 1] = Cleared /\ \A j \in Slots \ {count - 1} : Alike(new[j], es[IF j = i THEN count - 1 ELSE j])
    BY <1>5
  <2>3. \A j \in Slots : Same(es[j], old[j])
    BY <1>4
  <2> HIDE DEF count, old, new
  <2> QED BY <2>1, <2>2, <2>3, TableFilled
<1>7. file_count' = last
  BY <1>4
<1>8. MemInv' /\ OffInv' /\ CallInv'
  BY <1>1, <1>6, <1>7 DEF MemInv, OffInv, CallInv
<1>9. DiskInv'
  <2> SUFFICES ASSUME ~strayed'
               PROVE  /\ Writes(todo', 0)
                      /\ \A j \in Rows : \/ Alike(EntryOn(disk, j), new[j])
                                         \/ Writes(todo', EntrySector(j))
    BY <1>1 DEF DiskInv
  <2>1. Writes(todo', 0)
    BY <1>4, WritesIs
  <2>2. ASSUME NEW j \in Rows
        PROVE  Alike(EntryOn(disk, j), new[j]) \/ Writes(todo', EntrySector(j))
    <3>1. j \in Slots /\ j \in Nat /\ i \in Nat /\ last \in Nat
      BY <1>4, RowsAre
    <3>2. CASE j < i \/ j > last
      BY <1>2, <1>6, <3>1, <3>2, AlikeIs
    <3>3. CASE ~(j < i \/ j > last)
      <4> DEFINE to == last + 1
      <4>1. j \in i .. to - 1
        BY <3>1, <3>3
      <4> HIDE DEF new, to
      <4>2. Row(new, j) \in RowsOf(new, i, to)
        BY <4>1 DEF RowsOf
      <4>3. <<EntrySector(j), Entry(new[j])>> \in Elems(todo')
        BY <1>4, <4>2 DEF Row, new, to
      <4> QED BY <4>3, WritesIs
    <3> QED BY <3>2, <3>3
  <2> QED BY <2>1, <2>2
<1> QED BY <1>8, <1>9

\* A stutter.
LEMMA NamesStutter ==
  ASSUME NamesInv, UNCHANGED vars
  PROVE  NamesInv'
  BY DEF NamesInv, vars, memory, MemInv, OffInv, DiskInv, CallInv

LEMMA NamesStep ==
  ASSUME TypeInv, TodoInv, NamesInv, Room, [Next]_vars
  PROVE  NamesInv'
<1>1. CASE UNCHANGED vars
  BY <1>1, NamesStutter
<1>2. CASE Next
  <2> SUFFICES ASSUME clean' PROVE MemInv' /\ OffInv' /\ DiskInv' /\ CallInv'
    BY DEF NamesInv
  <2>1. CASE PowerOff
    BY <2>1, NamesPowerOff
  <2>2. CASE Boot
    BY <2>2, NamesBoot DEF Boot
  <2>3. CASE Flush
    BY <2>3, NamesFlush DEF Flush
  <2>4. CASE Mkdir
    <3>1. clean
      BY <2>4, MkdirCall DEF Do
    <3> QED BY <2>4, <3>1, NamesMkdir
  <2>5. CASE Create
    <3>1. clean
      BY <2>5, CreateCall DEF Do
    <3> QED BY <2>5, <3>1, NamesCreate
  <2>6. CASE Write
    <3>1. clean
      BY <2>6, WriteCall DEF Do
    <3> QED BY <2>6, <3>1, NamesWrite
  <2>7. CASE Delete
    <3>1. clean
      BY <2>7, DeleteCall DEF Do
    <3> QED BY <2>7, <3>1, NamesDelete
  <2> QED BY <1>2, <2>1, <2>2, <2>3, <2>4, <2>5, <2>6, <2>7 DEF Next
<1> QED BY <1>1, <1>2

LEMMA NamesInvariance == Spec /\ []Room => []NamesInv
<1>1. Init => NamesInv
  BY NamesInit
<1>2. TypeInv /\ TodoInv /\ Room /\ NamesInv /\ [Next]_vars => NamesInv'
  BY NamesStep
<1> QED BY <1>1, <1>2, TypeInvariance, PTL DEF Spec

\* As long as the entries in use are not stored in data sectors, and unless the power has
\* failed within a call, every path has one entry and the root is the first, across
\* deletes that move entries and across restarts (xcfs.c:74-94, 351-358).
THEOREM OneEntryToAPath == Spec /\ []Room => []NamesUnique
<1>1. TypeInv /\ NamesInv => NamesUnique
  BY DEF NamesInv, MemInv, Table, NamesUnique, Live
<1> QED BY <1>1, TypeInvariance, NamesInvariance, PTL

\* Likewise, between two calls the disk knows every entry of the memory by its name, type
\* and size, although a delete saves a part of the table only (xcfs.c:360-363).
THEOREM DiskKnowsAll == Spec /\ []Room => []NamesSurvive
<1>1. TypeInv /\ NamesInv /\ Room => NamesSurvive
  <2> SUFFICES ASSUME TypeInv, NamesInv, Room, Ready, clean
               PROVE  NamedOn(disk) = Named(file_count, ents)
    BY DEF NamesSurvive
  <2>1. up /\ todo = <<>> /\ ~strayed
    BY DEF Ready, TypeInv
  <2>2. /\ CountOn(disk) = file_count
        /\ \A i \in Rows : Alike(EntryOn(disk, i), ents[i])
    BY <2>1, SettledBefore
  <2> DEFINE n == file_count
             new == [i \in Slots |-> EntryOn(disk, i)]
  <2>3. \A i \in 0 .. n - 1 : new[i].path = ents[i].path /\ new[i].type = ents[i].type /\ new[i].size = ents[i].size
    <3>1. 0 .. n - 1 \subseteq Rows
      BY RowsAre DEF TypeInv, Room
    <3>2. \A i \in Rows : new[i] = EntryOn(disk, i)
      BY RowsAre
    <3> HIDE DEF n, new
    <3> QED BY <2>2, <3>1, <3>2 DEF Alike
  <2>4. NamedOn(disk) = Named(n, new)
    BY <2>2, Zenon DEF NamedOn
  <2> HIDE DEF n, new
  <2>5. Named(n, new) = Named(n, ents)
    BY <2>3 DEF Named
  <2> QED BY <2>4, <2>5 DEF n
<1> QED BY <1>1, TypeInvariance, NamesInvariance, PTL

\* Likewise, whenever the power fails in a call other than a delete, the disk has lost no
\* entry that it had (xcfs.c:259-260, 289-295, 408-412).
THEOREM LosesNoName == Spec /\ []Room => CrashLosesNoName
<1>1. /\ TypeInv /\ TodoInv /\ NamesInv /\ Room /\ [Next]_vars
      => [clean /\ call # "delete" =>
            NamedOn(disk) \ {<<NoPath, "none", 0>>} \subseteq NamedOn(disk')]_disk
  <2> SUFFICES ASSUME TypeInv, TodoInv, NamesInv, Room, [Next]_vars, disk' # disk,
                      clean, call # "delete",
                      NEW x \in NamedOn(disk), x # <<NoPath, "none", 0>>
               PROVE  x \in NamedOn(disk')
    OBVIOUS
  <2>1. Flush
    <3>1. Next
      BY DEF vars
    <3>2. ~Boot /\ ~PowerOff
      BY DEF Boot, PowerOff
    <3>3. ~Mkdir /\ ~Create /\ ~Write /\ ~Delete
      BY MkdirCall, CreateCall, WriteCall, DeleteCall DEF Do
    <3> QED BY <3>1, <3>2, <3>3 DEF Next
  <2>2. /\ up /\ ~strayed
        /\ CountOn(disk') = file_count \/ CountOn(disk') = CountOn(disk)
        /\ \A i \in Rows : EntryOn(disk', i) = ents[i] \/ EntryOn(disk', i) = EntryOn(disk, i)
    BY <2>1, FlushIs
  <2>3. /\ CountOn(disk) <= file_count
        /\ \A i \in Rows : \/ Alike(EntryOn(disk, i), ents[i])
                           \/ Alike(EntryOn(disk, i), Cleared)
    BY <2>2 DEF NamesInv, CallInv
  <2>4. CountOn(disk) \in 0 .. MaxFiles /\ file_count \in 0 .. MaxFiles
    BY OnDisk DEF TypeInv
  <2> DEFINE n == CountOn(disk)
             n1 == CountOn(disk')
             old == [i \in Slots |-> EntryOn(disk, i)]
             new == [i \in Slots |-> EntryOn(disk', i)]
             name(e) == <<e.path, e.type, e.size>>
  <2>5. PICK i \in 0 .. n - 1 : x = name(old[i])
    BY DEF NamedOn, Named
  <2>6. i \in Rows /\ i \in 0 .. n1 - 1
    <3>1. 0 .. file_count - 1 \subseteq Rows
      BY <2>4, RowsAre DEF Room
    <3>2. i \in 0 .. file_count - 1 /\ (n1 = file_count \/ n1 = n)
      BY <2>2, <2>3, <2>4
    <3> HIDE DEF n, n1
    <3> QED BY <3>1, <3>2
  <2>7. old[i] = EntryOn(disk, i) /\ new[i] = EntryOn(disk', i)
    BY <2>6, RowsAre
  <2>8. Alike(EntryOn(disk, i), ents[i])
    <3>1. name(Cleared) = <<NoPath, "none", 0>>
      BY PlacedIs
    <3>2. ~Alike(EntryOn(disk, i), Cleared)
      BY <2>5, <2>7, <3>1 DEF Alike
    <3> QED BY <2>3, <2>6, <3>2
  <2>9. Alike(new[i], old[i])
    BY <2>2, <2>6, <2>7, <2>8, AlikeIs
  <2>10. x = name(new[i])
    <3> HIDE DEF new, old
    <3> QED BY <2>5, <2>9 DEF Alike
  <2> HIDE DEF n, n1, old, new
  <2>11. x \in {<<new[j].path, new[j].type, new[j].size>> : j \in 0 .. n1 - 1}
    BY <2>6, <2>10
  <2> QED BY <2>11, Zenon DEF NamedOn, Named, n1, new
<1> QED BY <1>1, TypeInvariance, NamesInvariance, PTL DEF Spec, CrashLosesNoName

---------------------------------------------------------------------------
\* The tree.
HangsFrom(count, es, i) ==
  /\ es[i].path \in Paths /\ es[i].parent \in 0 .. count - 1
  /\ es[es[i].parent].path = ParentOf[es[i].path]

LEMMA RootedIs == Rooted <=> \A i \in 0 .. file_count - 1 : HangsFrom(file_count, ents, i)
  BY DEF Rooted, Live, HangsFrom

LEMMA TreeAdd ==
  ASSUME TypeInv, ents \in [Slots -> Placed], Rooted, NEW p \in Paths, MayAdd(p),
         NEW e \in Placed, e.path = p, e.parent = IndexOf(ParentOf[p]),
         file_count < MaxFiles, file_count' = file_count + 1,
         ents' = [ents EXCEPT ![file_count] = e]
  PROVE  Rooted'
<1> DEFINE n == file_count
           old == ents
           new == ents'
<1>1. n \in Nat /\ n \in Slots /\ Live = 0 .. n - 1 /\ Live \subseteq Slots \ {n}
  BY LayoutAssumption DEF TypeInv, Slots, Live
<1>2. new[n] = e /\ \A i \in Slots \ {n} : new[i] = old[i]
  BY <1>1 DEF TypeInv
<1>3. /\ e.parent \in 0 .. n - 1 /\ old[e.parent].path = ParentOf[p]
  <2>1. Has(ParentOf[p]) /\ file_count \in 0 .. MaxFiles
    BY DEF MayAdd, TypeInv
  <2>2. IndexOf(ParentOf[p]) \in Live /\ ents[IndexOf(ParentOf[p])].path = ParentOf[p]
    BY <2>1, IndexOfIs
  <2> QED BY <1>1, <2>2
<1>4. \A i \in 0 .. n - 1 : HangsFrom(n, old, i)
  BY RootedIs
<1> HIDE DEF n, old, new
<1>5. 0 .. (n + 1) - 1 = (0 .. n - 1) \cup {n}
  BY <1>1
<1>6. HangsFrom(n + 1, new, n)
  <2>1. e.parent \in 0 .. (n + 1) - 1 /\ new[e.parent] = old[e.parent]
    BY <1>1, <1>2, <1>3, <1>5
  <2> QED BY <1>2, <1>3, <2>1 DEF HangsFrom
<1>7. ASSUME NEW i \in 0 .. n - 1 PROVE HangsFrom(n + 1, new, i)
  <2>1. /\ old[i].path \in Paths /\ old[i].parent \in 0 .. n - 1
        /\ old[old[i].parent].path = ParentOf[old[i].path]
    BY <1>4 DEF HangsFrom
  <2>2. new[i] = old[i] /\ new[old[i].parent] = old[old[i].parent]
    BY <1>1, <1>2, <2>1
  <2>3. old[i].parent \in 0 .. (n + 1) - 1
    BY <1>5, <2>1
  <2> QED BY <2>1, <2>2, <2>3 DEF HangsFrom
<1>8. file_count' = n + 1 /\ ents' = new
  BY DEF n, new
<1>9. \A i \in 0 .. (n + 1) - 1 : HangsFrom(n + 1, new, i)
  BY <1>5, <1>6, <1>7
<1> QED BY <1>8, <1>9 DEF Rooted, Live, HangsFrom

LEMMA TreeDelete ==
  ASSUME TypeInv, Tree, Delete
  PROVE  Rooted'
<1> DEFINE count == file_count
           last == count - 1
           old == ents
           new == ents'
<1>1. PICK i \in Live : \E es \in [Slots -> Record] :
           /\ i \in Slots /\ i <= last /\ last \in Slots
           /\ ents[i].type = "dir" => Childless(i)
           /\ \A j \in Slots : Same(es[j], ents[j])
           /\ ents' = Fill(es, i, last) /\ file_count' = last
  BY DeleteIs, Zenon
<1>2. PICK es \in [Slots -> Record] :
           /\ i \in Slots /\ i <= last /\ last \in Slots
           /\ ents[i].type = "dir" => Childless(i)
           /\ \A j \in Slots : Same(es[j], ents[j])
           /\ ents' = Fill(es, i, last) /\ file_count' = last
  BY <1>1, Zenon
<1> DEFINE of(j) == IF j = i THEN last ELSE j
<1>3. /\ i \in Nat /\ last \in Nat /\ count = last + 1 /\ Live = 0 .. last
      /\ 0 .. last \subseteq Slots
  BY <1>2, LayoutAssumption DEF Slots, Live, TypeInv
<1>4. \A j \in Slots \ {last} :
        /\ new[j].path = es[of(j)].path
        /\ new[j].parent = IF i # last /\ j < last /\ es[of(j)].parent = last
                           THEN i ELSE es[of(j)].parent
  <2>1. new = Fill(es, i, last)
    BY <1>2
  <2> HIDE DEF last, new
  <2>2. \A j \in Slots \ {last} : LET e == es[of(j)] IN
              /\ Fill(es, i, last)[j].path = e.path
              /\ Fill(es, i, last)[j].parent =
                   IF i # last /\ j < last /\ e.parent = last THEN i ELSE e.parent
    <3>1. last \in Slots /\ i \in Slots /\ es \in [Slots -> Record]
      BY <1>2
    <3>2. ASSUME NEW j \in Slots \ {last}
          PROVE  LET e == es[of(j)] IN
                   /\ Fill(es, i, last)[j].path = e.path
                   /\ Fill(es, i, last)[j].parent =
                        IF i # last /\ j < last /\ e.parent = last THEN i ELSE e.parent
      BY <3>1, FillIs, SMTT(60)
    <3> QED BY <3>2, Zenon
  <2> QED BY <2>1, <2>2
<1>5. \A j \in Slots : es[j].path = old[j].path /\ es[j].parent = old[j].parent
  BY <1>2 DEF Same
<1>6. \A j \in 0 .. last : /\ HangsFrom(count, old, j) /\ old[j].parent \in 0 .. last
                           /\ j # i => old[j].parent # i
  <2>1. /\ \A j \in 0 .. last : HangsFrom(count, old, j)
        /\ \A j \in 0 .. last : old[old[j].parent].type = "dir"
    BY <1>3, RootedIs DEF Tree
  <2>2. \A j \in 0 .. last : old[j].parent \in 0 .. last
    <3>1. 0 .. last = 0 .. count - 1
      OBVIOUS
    <3> QED BY <2>1, <3>1 DEF HangsFrom
  <2>3. ASSUME NEW j \in 0 .. last, j # i PROVE old[j].parent # i
    <3>1. CASE old[i].type = "dir"
      BY <1>2, <1>3, <2>3, <3>1 DEF Childless
    <3>2. CASE old[i].type # "dir"
      BY <2>1, <3>2
    <3> QED BY <3>1, <3>2
  <2> QED BY <2>1, <2>2, <2>3
<1>7. ASSUME NEW j \in 0 .. last - 1 PROVE HangsFrom(last, new, j)
  <2> DEFINE k == of(j)
             par == old[k].parent
  <2> HIDE DEF last, new, old, count
  <2>1. k \in 0 .. last /\ k # i /\ k \in Slots /\ j \in Slots \ {last} /\ j < last
    BY <1>2, <1>3
  <2> HIDE DEF of, k
  <2>2. /\ new[j].path = old[k].path
        /\ new[j].parent = IF i # last /\ par = last THEN i ELSE par
    BY <1>4, <1>5, <2>1 DEF k
  <2>3. /\ old[k].path \in Paths /\ par \in 0 .. last /\ par # i
        /\ old[par].path = ParentOf[old[k].path]
    BY <1>6, <2>1 DEF HangsFrom
  <2>4. CASE i # last /\ par = last
    <3>1. new[j].parent = i /\ i \in 0 .. last - 1 /\ i \in Slots \ {last}
      BY <1>2, <1>3, <2>2, <2>4
    <3>2. of(i) = last /\ last \in Slots
      BY <1>2 DEF of
    <3>3. new[i].path = old[last].path
      BY <1>4, <1>5, <3>1, <3>2
    <3> QED BY <2>2, <2>3, <2>4, <3>1, <3>3 DEF HangsFrom
  <2>5. CASE ~(i # last /\ par = last)
    <3>1. new[j].parent = par /\ par # last
      BY <2>2, <2>3, <2>5
    <3>2. par \in 0 .. last - 1 /\ par \in Slots \ {last} /\ of(par) = par
      BY <1>3, <2>3, <3>1 DEF of
    <3>3. new[par].path = old[par].path
      BY <1>4, <1>5, <3>2
    <3> QED BY <2>2, <2>3, <3>1, <3>2, <3>3 DEF HangsFrom
  <2> QED BY <2>4, <2>5
<1>8. file_count' = last /\ ents' = new
  BY <1>2
<1> HIDE DEF last, new
<1> QED BY <1>7, <1>8 DEF Rooted, Live, HangsFrom

\* A call leaves every parent_idx the index of the entry of the parent's path if it was
\* before and nothing lies below a file (xcfs.c:257, 283, 351-356).
THEOREM TreeIsKept == Spec => TreeKept
<1>1. TypeInv /\ [Next]_vars => [up /\ up' /\ Tree => Rooted']_ents
  <2> SUFFICES ASSUME TypeInv, Next, ents' # ents, up, up', Tree PROVE Rooted'
    BY DEF vars, memory
  <2>1. Rooted /\ (Mkdir \/ Create \/ Delete)
    BY DEF Next, Boot, Flush, PowerOff, Write, memory, Tree
  <2>2. CASE Mkdir
    <3>1. May /\ file_count < MaxFiles /\ file_count' = file_count + 1
      BY <2>2, MkdirCall
    <3>2. PICK p \in Paths : LET e == NewEntry(p, "dir", 0, 0) IN
           MayAdd(p) /\ e \in Placed /\ ents' = [ents EXCEPT ![file_count] = e]
      BY <2>2, MkdirIs, Zenon
    <3> DEFINE e == NewEntry(p, "dir", 0, 0)
    <3>3. MayAdd(p) /\ e \in Placed /\ ents' = [ents EXCEPT ![file_count] = e]
      BY <3>2
    <3>4. e.path = p /\ e.parent = IndexOf(ParentOf[p])
      BY NewEntryPath
    <3>5. ents \in [Slots -> Placed]
      BY <3>1 DEF May, TypeInv
    <3> HIDE DEF e
    <3> QED BY <2>1, <3>1, <3>3, <3>4, <3>5, TreeAdd
  <2>3. CASE Create
    <3>1. May /\ file_count < MaxFiles /\ file_count' = file_count + 1
      BY <2>3, CreateCall
    <3>2. PICK p \in Paths : \E size \in Sizes, s \in Data : LET e == NewEntry(p, "file", s, size) IN
           MayAdd(p) /\ e \in Placed /\ ents' = [ents EXCEPT ![file_count] = e]
      BY <2>3, CreateIs, Zenon
    <3>3. PICK size \in Sizes, s \in Data : LET e == NewEntry(p, "file", s, size) IN
           MayAdd(p) /\ e \in Placed /\ ents' = [ents EXCEPT ![file_count] = e]
      BY <3>2, Zenon
    <3> DEFINE e == NewEntry(p, "file", s, size)
    <3>4. MayAdd(p) /\ e \in Placed /\ ents' = [ents EXCEPT ![file_count] = e]
      BY <3>3
    <3>5. e.path = p /\ e.parent = IndexOf(ParentOf[p])
      BY NewEntryPath
    <3>6. ents \in [Slots -> Placed]
      BY <3>1 DEF May, TypeInv
    <3> HIDE DEF e
    <3> QED BY <2>1, <3>1, <3>4, <3>5, <3>6, TreeAdd
  <2>4. CASE Delete
    BY <2>4, TreeDelete
  <2> QED BY <2>1, <2>2, <2>3, <2>4
<1> QED BY <1>1, TypeInvariance, PTL DEF Spec, TreeKept

---------------------------------------------------------------------------
\* The contents of the disk d once the writes t have been made, and what a file holds.
After(d, t) ==
  LET last(s) == {k \in DOMAIN t : t[k][1] = s}
  IN  [s \in Sectors |-> IF last(s) = {} THEN d[s]
                         ELSE t[CHOOSE k \in last(s) : \A j \in last(s) : j <= k][2]]

\* The last of the writes t that are to sector s is write k.
LastWrite(t, s, k) == /\ k \in 1 .. Len(t) /\ t[k][1] = s
                      /\ \A j \in 1 .. Len(t) : t[j][1] = s => j <= k
Missed(t, s) == \A k \in 1 .. Len(t) : t[k][1] # s

LEMMA LastIs ==
  ASSUME NEW T, NEW t \in Seq(T), NEW s
  PROVE  Missed(t, s) \/ \E k : LastWrite(t, s, k)
<1> DEFINE n == Len(t)
           K == {k \in 1 .. n : t[k][1] = s}
           Mirror == {n - k : k \in K}
<1>1. n \in Nat
  BY LenProperties
<1>2. CASE K = {}
  BY <1>2 DEF Missed
<1>3. CASE K # {}
  <2>1. Mirror \subseteq Nat /\ Mirror # {}
    <3> HIDE DEF n
    <3> QED BY <1>1, <1>3
  <2>2. PICK x \in Mirror : \A y \in Mirror : x <= y
    <3> HIDE DEF Mirror
    <3> QED BY <2>1, LeastNumber
  <2>3. PICK k \in K : x = n - k
    OBVIOUS
  <2>4. ASSUME NEW j \in 1 .. n, t[j][1] = s PROVE j <= k
    <3>1. n - k <= n - j
      BY <2>2, <2>3, <2>4
    <3> HIDE DEF n
    <3> QED BY <1>1, <3>1
  <2>5. LastWrite(t, s, k)
    BY <2>4 DEF LastWrite
  <2> QED BY <2>5
<1> QED BY <1>2, <1>3

LEMMA AfterIs ==
  ASSUME NEW T, NEW t \in Seq(T), NEW d, NEW s \in Sectors
  PROVE  /\ Missed(t, s) => After(d, t)[s] = d[s]
         /\ \A k : LastWrite(t, s, k) => After(d, t)[s] = t[k][2]
<1> DEFINE K == {k \in DOMAIN t : t[k][1] = s}
           top == CHOOSE k \in K : \A j \in K : j <= k
<1>1. DOMAIN t = 1 .. Len(t) /\ Len(t) \in Nat
  BY LenProperties
<1>2. After(d, t)[s] = IF K = {} THEN d[s] ELSE t[top][2]
  BY DEF After
<1>3. Missed(t, s) => After(d, t)[s] = d[s]
  <2> HIDE DEF top
  <2> QED BY <1>1, <1>2 DEF Missed
<1>4. ASSUME NEW k, LastWrite(t, s, k) PROVE After(d, t)[s] = t[k][2]
  <2>1. k \in K /\ \A j \in K : j <= k
    BY <1>1, <1>4 DEF LastWrite
  <2>2. top \in K /\ \A j \in K : j <= top
    <3> HIDE DEF K
    <3> QED BY <2>1
  <2>3. K \subseteq Nat
    BY <1>1
  <2>4. top = k
    <3> HIDE DEF K, top
    <3> QED BY <2>1, <2>2, <2>3
  <2> HIDE DEF top
  <2> QED BY <1>2, <2>1, <2>4
<1> QED BY <1>3, <1>4

LEMMA AfterType ==
  ASSUME NEW d, NEW t
  PROVE  After(d, t) = [s \in Sectors |-> After(d, t)[s]]
  BY DEF After

\* Writes to a sector that all have the same contents.
LEMMA AfterWrites ==
  ASSUME NEW T, NEW t \in Seq(T), NEW d, NEW s \in Sectors
  PROVE  (\A w \in Elems(t) : w[1] # s) => After(d, t)[s] = d[s]
<1>1. Elems(t) = {t[k] : k \in 1 .. Len(t)}
  BY LenProperties DEF Elems
<1>2. (\A w \in Elems(t) : w[1] # s) => Missed(t, s)
  BY <1>1 DEF Missed
<1> QED BY <1>2, AfterIs

WritesOnly(t, s, x) == (\E w \in Elems(t) : w[1] = s) /\ \A w \in Elems(t) : w[1] = s => w[2] = x

LEMMA AfterWritten ==
  ASSUME NEW T, NEW t \in Seq(T), NEW d, NEW s \in Sectors, NEW x, WritesOnly(t, s, x)
  PROVE  After(d, t)[s] = x
<1>1. Elems(t) = {t[k] : k \in 1 .. Len(t)}
  BY LenProperties DEF Elems
<1>2. ~Missed(t, s)
  BY <1>1 DEF Missed, WritesOnly
<1>3. \A k : LastWrite(t, s, k) => t[k] \in Elems(t) /\ t[k][1] = s
  BY <1>1 DEF LastWrite
<1> QED BY <1>2, <1>3, LastIs, AfterIs DEF WritesOnly

LEMMA AfterConcat ==
  ASSUME NEW T, NEW t \in Seq(T), NEW u \in Seq(T), NEW d
  PROVE  After(d, t \o u) = After(After(d, t), u)
<1> DEFINE tu == t \o u
           n == Len(t)
           m == Len(u)
<1>1. n \in Nat /\ m \in Nat /\ tu \in Seq(T) /\ Len(tu) = n + m
  BY ConcatProperties, LenProperties
<1>2. \A k \in 1 .. n + m : tu[k] = IF k <= n THEN t[k] ELSE u[k - n]
  BY ConcatProperties
<1> HIDE DEF tu, n, m
<1>3. ASSUME NEW s \in Sectors PROVE After(d, tu)[s] = After(After(d, t), u)[s]
  <2>1. ASSUME NEW k, LastWrite(u, s, k) PROVE After(d, tu)[s] = After(After(d, t), u)[s]
    <3>1. k \in 1 .. m /\ u[k][1] = s /\ \A j \in 1 .. m : u[j][1] = s => j <= k
      BY <2>1 DEF LastWrite, m
    <3>2. n + k \in 1 .. n + m /\ ~(n + k <= n) /\ (n + k) - n = k
      BY <1>1, <3>1
    <3>3. tu[n + k] = u[k]
      BY <1>2, <3>2
    <3>4. ASSUME NEW j \in 1 .. n + m, tu[j][1] = s PROVE j <= n + k
      <4>1. CASE j <= n
        BY <1>1, <3>1, <4>1
      <4>2. CASE ~(j <= n)
        <5>1. j - n \in 1 .. m /\ tu[j] = u[j - n]
          BY <1>1, <1>2, <4>2
        <5>2. j - n <= k
          BY <3>1, <3>4, <5>1
        <5> QED BY <1>1, <3>1, <5>1, <5>2
      <4> QED BY <4>1, <4>2
    <3>5. LastWrite(tu, s, n + k)
      BY <1>1, <3>1, <3>2, <3>3, <3>4 DEF LastWrite
    <3> QED BY <1>1, <2>1, <3>3, <3>5, AfterIs
  <2>2. ASSUME Missed(u, s), NEW k, LastWrite(t, s, k)
        PROVE  After(d, tu)[s] = After(After(d, t), u)[s]
    <3>1. k \in 1 .. n /\ t[k][1] = s /\ \A j \in 1 .. n : t[j][1] = s => j <= k
      BY <2>2 DEF LastWrite, n
    <3>2. k \in 1 .. n + m /\ k <= n
      BY <1>1, <3>1
    <3>3. tu[k] = t[k]
      BY <1>2, <3>2
    <3>4. ASSUME NEW j \in 1 .. n + m, tu[j][1] = s PROVE j <= k
      <4>1. CASE j <= n
        BY <1>1, <1>2, <3>1, <3>4, <4>1
      <4>2. CASE ~(j <= n)
        <5>1. j - n \in 1 .. m /\ tu[j] = u[j - n]
          BY <1>1, <1>2, <4>2
        <5> QED BY <2>2, <3>4, <5>1 DEF Missed, m
      <4> QED BY <4>1, <4>2
    <3>5. LastWrite(tu, s, k)
      BY <1>1, <3>1, <3>2, <3>3, <3>4 DEF LastWrite
    <3>6. After(d, tu)[s] = t[k][2]
      BY <1>1, <3>3, <3>5, AfterIs
    <3>7. After(d, t)[s] = t[k][2]
      BY <2>2, AfterIs
    <3>8. After(After(d, t), u)[s] = After(d, t)[s]
      BY <2>2, AfterIs
    <3> QED BY <3>6, <3>7, <3>8
  <2>3. ASSUME Missed(u, s), Missed(t, s) PROVE After(d, tu)[s] = After(After(d, t), u)[s]
    <3>1. ASSUME NEW j \in 1 .. n + m PROVE tu[j][1] # s
      <4>1. CASE j <= n
        BY <1>1, <1>2, <2>3, <4>1 DEF Missed, n
      <4>2. CASE ~(j <= n)
        <5>1. j - n \in 1 .. m /\ tu[j] = u[j - n]
          BY <1>1, <1>2, <4>2
        <5> QED BY <2>3, <5>1 DEF Missed, m
      <4> QED BY <4>1, <4>2
    <3>2. Missed(tu, s)
      BY <1>1, <3>1 DEF Missed
    <3>3. After(d, tu)[s] = d[s]
      BY <1>1, <3>2, AfterIs
    <3>4. After(d, t)[s] = d[s] /\ After(After(d, t), u)[s] = After(d, t)[s]
      BY <2>3, AfterIs
    <3> QED BY <3>3, <3>4
  <2> QED BY <2>1, <2>2, <2>3, LastIs
<1>4. /\ After(d, tu) = [s \in Sectors |-> After(d, tu)[s]]
      /\ After(After(d, t), u) = [s \in Sectors |-> After(After(d, t), u)[s]]
  BY AfterType, Zenon
<1>5. After(d, tu) = After(After(d, t), u)
  BY <1>3, <1>4
<1> QED BY <1>5 DEF tu

\* No write and one.
LEMMA AfterOne ==
  ASSUME NEW d \in [Sectors -> Content], NEW s \in Sectors, NEW x
  PROVE  /\ After(d, <<>>) = d
         /\ After(d, <<<<s, x>>>>) = [d EXCEPT ![s] = x]
<1>1. After(d, <<>>) = d
  <2> DEFINE none == <<>>
  <2>1. none \in Seq({}) /\ \A r : Missed(none, r)
    BY DEF Missed
  <2> HIDE DEF none
  <2>2. \A r \in Sectors : After(d, none)[r] = d[r]
    BY <2>1, AfterIs
  <2>3. After(d, none) = [r \in Sectors |-> After(d, none)[r]]
    BY AfterType
  <2>4. After(d, none) = d
    BY <2>2, <2>3
  <2> QED BY <2>4 DEF none
<1> DEFINE w == <<s, x>>
           t == <<w>>
<1>2. t \in Seq({w}) /\ Len(t) = 1 /\ t[1] = w /\ w[1] = s /\ w[2] = x
  OBVIOUS
<1> HIDE DEF t, w
<1>3. LastWrite(t, s, 1) /\ \A r : r # s => Missed(t, r)
  BY <1>2 DEF LastWrite, Missed
<1>4. \A r \in Sectors : After(d, t)[r] = IF r = s THEN x ELSE d[r]
  BY <1>2, <1>3, AfterIs
<1>5. After(d, t) = [r \in Sectors |-> After(d, t)[r]]
  BY AfterType
<1>6. After(d, t) = [d EXCEPT ![s] = x]
  BY <1>4, <1>5
<1> QED BY <1>1, <1>6 DEF t, w

\* A write that has been made is no longer to be made.
LEMMA AfterFlush ==
  ASSUME NEW t \in Seq(Sectors \X Content), t # <<>>, NEW d \in [Sectors -> Content]
  PROVE  After([d EXCEPT ![Head(t)[1]] = Head(t)[2]], Tail(t)) = After(d, t)
<1> DEFINE T == Sectors \X Content
           w == Head(t)
<1>1. w \in T /\ Tail(t) \in Seq(T) /\ t = <<w>> \o Tail(t) /\ <<w>> \in Seq(T)
  <2>1. t \in Seq(T)
    OBVIOUS
  <2> HIDE DEF T
  <2> QED BY <2>1
<1>2. PICK s \in Sectors, x \in Content : w = <<s, x>>
  BY <1>1
<1> HIDE DEF w, T
<1>3. After(d, <<w>>) = [d EXCEPT ![w[1]] = w[2]]
  <2>1. After(d, <<<<s, x>>>>) = [d EXCEPT ![s] = x]
    BY AfterOne
  <2>2. w[1] = s /\ w[2] = x
    BY <1>2
  <2> QED BY <1>2, <2>1, <2>2, Zenon
<1>4. After(d, <<w>> \o Tail(t)) = After(After(d, <<w>>), Tail(t))
  BY <1>1, AfterConcat
<1> QED BY <1>1, <1>3, <1>4 DEF w
---------------------------------------------------------------------------
\* A copy to lower sectors, in ascending order, copies every sector although the two runs
\* may overlap, changes no other, and lists what it wrote.
LEMMA WriteToIs ==
  ASSUME NEW S \in SUBSET Int, NEW m \in Work(S), NEW s, NEW x
  PROVE  /\ WriteTo(m, s, x).disk = [m.disk EXCEPT ![s] = x]
         /\ WriteTo(m, s, x).todo = Append(m.todo, <<s, x>>)
  BY DEF WriteTo, Work

Copied(x, m, from, to, k) ==
  /\ \A i \in 1 .. k : x.disk[to + i - 1] = m.disk[from + i - 1]
  /\ \A s \in Sectors \ Run(to, k) : x.disk[s] = m.disk[s]
Told(x, d) == x.disk = After(d, x.todo)

LEMMA CopyTurn ==
  ASSUME NEW S \in SUBSET Sectors, NEW m \in Work(S), NEW from \in Int, NEW to \in Int,
         NEW k \in Nat, to < from, Run(to, k + 1) \subseteq S, from + k \in Sectors,
         NEW x \in Work(S), Copied(x, m, from, to, k), NEW d \in [Sectors -> Content]
  PROVE  LET y == WriteTo(x, to + k, x.disk[from + k]) IN
         Copied(y, m, from, to, k + 1) /\ (Told(x, d) => Told(y, d))
<1> DEFINE s0 == to + k
           v == x.disk[from + k]
           y == WriteTo(x, s0, v)
<1>0. \A i \in 1 .. k + 1 : to + i - 1 \in S
  BY DEF Run
<1>1. /\ S \in SUBSET Int /\ s0 \in Sectors /\ s0 \in Int /\ x.disk \in [Sectors -> Content]
      /\ v \in Content /\ x.todo \in Seq(S \X Content) /\ s0 \in S
  <2>1. s0 \in S
    <3>1. k + 1 \in 1 .. k + 1 /\ to + (k + 1) - 1 = s0
      OBVIOUS
    <3> HIDE DEF s0
    <3> QED BY <1>0, <3>1
  <2> QED BY <2>1, Layout DEF Work
<1>2. y.disk = [x.disk EXCEPT ![s0] = v] /\ y.todo = Append(x.todo, <<s0, v>>)
  <2> HIDE DEF s0, v
  <2> QED BY <1>1, WriteToIs
<1>3. v = m.disk[from + k]
  <2>1. from + k \notin Run(to, k)
    BY DEF Run
  <2> QED BY <2>1 DEF Copied
<1> HIDE DEF y, v
<1>4. \A s \in Sectors : y.disk[s] = IF s = s0 THEN v ELSE x.disk[s]
  <2> HIDE DEF s0
  <2> QED BY <1>1, <1>2
<1>5. ASSUME NEW i \in 1 .. k + 1 PROVE y.disk[to + i - 1] = m.disk[from + i - 1]
  <2>1. CASE i = k + 1
    <3>1. to + i - 1 = s0 /\ from + i - 1 = from + k
      BY <2>1
    <3> HIDE DEF s0
    <3> QED BY <1>1, <1>3, <1>4, <3>1
  <2>2. CASE i # k + 1
    <3>1. i \in 1 .. k /\ to + i - 1 # s0
      BY <2>2
    <3>2. x.disk[to + i - 1] = m.disk[from + i - 1]
      BY <3>1 DEF Copied
    <3>3. to + i - 1 \in Sectors
      BY <1>0, <3>1
    <3> QED BY <1>4, <3>1, <3>2, <3>3
  <2> QED BY <2>1, <2>2
<1>6. ASSUME NEW s \in Sectors \ Run(to, k + 1) PROVE y.disk[s] = m.disk[s]
  <2>1. s # s0 /\ s \notin Run(to, k)
    BY Layout DEF Run
  <2> QED BY <1>4, <2>1 DEF Copied
<1>7. ASSUME Told(x, d) PROVE Told(y, d)
  <2>1. After(d, x.todo) \in [Sectors -> Content] /\ s0 \in S
    BY <1>1, <1>7 DEF Told
  <2> DEFINE T == S \X Content
             t == x.todo
             w == <<s0, v>>
  <2>2. w \in T /\ t \in Seq(T)
    BY <1>1
  <2>3. After(After(d, t), <<w>>) = [After(d, t) EXCEPT ![s0] = v]
    BY <1>1, <2>1, AfterOne
  <2> HIDE DEF s0, T, t, w
  <2>4. Append(t, w) = t \o <<w>> /\ <<w>> \in Seq(T)
    BY <2>2
  <2>5. After(d, t \o <<w>>) = After(After(d, t), <<w>>)
    BY <2>2, <2>4, AfterConcat
  <2>6. After(d, t) = x.disk /\ y.todo = Append(t, w) /\ y.disk = [x.disk EXCEPT ![s0] = v]
    BY <1>2, <1>7 DEF Told, t, w
  <2> QED BY <2>3, <2>4, <2>5, <2>6 DEF Told
<1>8. Copied(y, m, from, to, k + 1)
  BY <1>5, <1>6 DEF Copied
<1> QED BY <1>7, <1>8 DEF y, v

LEMMA CopyIs ==
  ASSUME NEW S \in SUBSET Sectors, NEW m \in Work(S), NEW from \in Int, NEW to \in Int,
         NEW n \in Nat, to < from, Run(from, n) \subseteq Data, Run(to, n) \subseteq S,
         NEW d \in [Sectors -> Content]
  PROVE  LET x == Copy(m, from, to, n) IN
         /\ Copied(x, m, from, to, n) /\ (Told(m, d) => Told(x, d))
         /\ x \in Work(S) /\ x.ents = m.ents /\ x.bitmap = m.bitmap
<1> DEFINE Fine(x, k) == Copied(x, m, from, to, k) /\ (Told(m, d) => Told(x, d))
           Inv == [k \in 0 .. n |-> {x \in Work(S) : Fine(x, k)}]
<1>1. S \in SUBSET Int
  BY Layout
<1>0. PICK c : IsCopying(c, m, from, to, n, S)
  BY <1>1, CopySteps
<1>2. /\ c[0] = m /\ Copy(m, from, to, n) = c[n]
      /\ \A k \in 1 .. n : c[k] = WriteTo(c[k - 1], to + k - 1, c[k - 1].disk[from + k - 1])
      /\ \A k \in 0 .. n : c[k] \in Work(S) /\ c[k].ents = m.ents /\ c[k].bitmap = m.bitmap
  BY <1>0, Zenon DEF IsCopying
<1>3. ASSUME NEW k \in 1 .. n, NEW x \in Work(S), Fine(x, k - 1)
      PROVE  Fine(WriteTo(x, to + k - 1, x.disk[from + k - 1]), k)
  <2> DEFINE j == k - 1
  <2>1. j \in Nat /\ to + k - 1 = to + j /\ from + k - 1 = from + j /\ k = j + 1
    OBVIOUS
  <2>2. Run(to, j + 1) \subseteq S /\ from + j \in Sectors
    <3>1. from + j \in Run(from, n) /\ Run(to, j + 1) \subseteq Run(to, n)
      BY DEF Run
    <3> QED BY <3>1, Layout
  <2>3. Fine(x, j)
    BY <1>3
  <2> HIDE DEF j
  <2>4. /\ Copied(WriteTo(x, to + j, x.disk[from + j]), m, from, to, j + 1)
        /\ Told(x, d) => Told(WriteTo(x, to + j, x.disk[from + j]), d)
    BY <2>1, <2>2, <2>3, CopyTurn
  <2> QED BY <2>1, <2>3, <2>4, Zenon
<1> HIDE DEF Fine
<1>4. Fine(m, 0)
  BY DEF Fine, Copied
<1>5. \A k \in 0 .. n : c[k] \in Inv[k]
  <2>1. m \in Inv[0] /\ c[0] = m
    BY <1>2, <1>4
  <2>2. ASSUME NEW k \in 1 .. n, c[k - 1] \in Inv[k - 1] PROVE c[k] \in Inv[k]
    <3>1. Fine(c[k - 1], k - 1) /\ c[k - 1] \in Work(S) /\ c[k] \in Work(S)
      BY <1>2, <2>2
    <3>2. Fine(c[k], k)
      BY <1>2, <1>3, <3>1
    <3> QED BY <3>1, <3>2
  <2> HIDE DEF Inv
  <2> QED BY <2>1, <2>2, RecursionKeeps
<1>6. n \in 0 .. n
  OBVIOUS
<1>7. c[n] \in Work(S) /\ Fine(c[n], n)
  BY <1>5, <1>6
<1> QED BY <1>2, <1>6, <1>7, Zenon DEF Fine

\* So a file moves down with its contents, and marks the sectors it moves to.
LEMMA MoveDownIs ==
  ASSUME NEW S \in SUBSET Sectors, NEW m \in Work(S), NEW f \in Slots, NEW by \in Nat \ {0},
         Extent(m.ents[f]) \subseteq Data,
         Run(m.ents[f].start - by, Blocks(m.ents[f].size)) \subseteq S,
         NEW d \in [Sectors -> Content]
  PROVE  LET e == m.ents[f]
             x == MoveDown(m, f, by)
         IN  /\ x.ents = [m.ents EXCEPT ![f] = Lowered(e, by)]
             /\ x.bitmap = (m.bitmap \ Extent(e)) \cup (Extent(Lowered(e, by)) \cap Data)
             /\ Copied(x, m, e.start, e.start - by, Blocks(e.size))
             /\ Told(m, d) => Told(x, d)
<1> DEFINE e == m.ents[f]
           new == Lowered(e, by)
           n == Blocks(e.size)
           to == e.start - by
           y == Copy(m, e.start, to, n)
           x == MoveDown(m, f, by)
<1>1. e \in Record
  BY DEF Work
<1>2. n \in Nat /\ e.start \in Int /\ to \in Int /\ to < e.start /\ new.start = to
  <2>1. n \in Nat /\ e.start \in Int
    BY <1>1, BlocksAre
  <2>2. new.start = to
    BY <1>1 DEF Lowered, Record
  <2> HIDE DEF n, e, new
  <2> QED BY <2>1, <2>2
<1>3. Run(e.start, n) \subseteq Data /\ Run(to, n) \subseteq S
  BY DEF Extent
<1> HIDE DEF to
<1>4. /\ Copied(y, m, e.start, to, n) /\ (Told(m, d) => Told(y, d))
      /\ y \in Work(S) /\ y.ents = m.ents /\ y.bitmap = m.bitmap
  <2> HIDE DEF e, n
  <2> QED BY <1>2, <1>3, CopyIs
<1>5. x = [y EXCEPT !.ents = [@ EXCEPT ![f] = new],
                    !.bitmap = (@ \ Extent(e)) \cup (Extent(new) \cap Data)]
  BY <1>2, Zenon DEF MoveDown, Lowered
<1> HIDE DEF x, y, e, n, new
<1>6. /\ x.ents = [m.ents EXCEPT ![f] = new]
      /\ x.bitmap = (m.bitmap \ Extent(e)) \cup (Extent(new) \cap Data)
      /\ x.disk = y.disk /\ x.todo = y.todo
  BY <1>4, <1>5 DEF Work
<1>7. Copied(x, m, e.start, to, n) /\ (Told(m, d) => Told(x, d))
  BY <1>4, <1>6 DEF Copied, Told
<1> QED BY <1>6, <1>7 DEF x, e, n, new, to
---------------------------------------------------------------------------
\* Where the loop of a delete has put the files.
Apart == \A i, j \in Files : i # j => Extent(ents[i]) \cap Extent(ents[j]) = {}
Marked == \A i \in Files : Extent(ents[i]) \subseteq bitmap

LEMMA RunsApart ==
  ASSUME NEW a \in Int, NEW m \in Nat, NEW b \in Int, NEW n \in Nat, a + m <= b
  PROVE  Run(a, m) \cap Run(b, n) = {}
  BY DEF Run

LEMMA FilesAre ==
  ASSUME TypeInv, ~strayed
  PROVE  /\ Live \subseteq Slots /\ Files \subseteq Live /\ Live \subseteq Nat
         /\ \A j \in Files : /\ j \in Nat /\ ents[j].type = "file"
                             /\ ents[j].start \in Int /\ Blocks(ents[j].size) \in Nat \ {0}
                             /\ Extent(ents[j]) = Run(ents[j].start, Blocks(ents[j].size))
                             /\ Extent(ents[j]) \subseteq Data /\ ents[j].start \in Extent(ents[j])
<1>1. Live \subseteq Slots /\ Files \subseteq Live /\ Live \subseteq Nat
  BY LayoutAssumption DEF TypeInv, Live, Slots, Files
<1>2. ASSUME NEW j \in Files
      PROVE  /\ j \in Nat /\ ents[j].type = "file"
             /\ ents[j].start \in Int /\ Blocks(ents[j].size) \in Nat \ {0}
             /\ Extent(ents[j]) = Run(ents[j].start, Blocks(ents[j].size))
             /\ Extent(ents[j]) \subseteq Data /\ ents[j].start \in Extent(ents[j])
  <2>1. ents[j] \in Placed /\ ents[j].type = "file" /\ j \in Nat
    BY <1>1 DEF Files, TypeInv
  <2>2. ents[j] \in Record /\ Extent(ents[j]) \subseteq Data
    BY <2>1, PlacedIs DEF Placed
  <2>3. Extent(ents[j]) = Run(ents[j].start, Blocks(ents[j].size))
    BY DEF Extent
  <2> QED BY <2>1, <2>2, <2>3, BlocksAre
<1> QED BY <1>1, <1>2

LEMMA FilesInOrder ==
  ASSUME TypeInv, ~strayed, InOrder, Apart, NEW i \in Files, NEW j \in Files, i < j
  PROVE  ents[i].start + Blocks(ents[i].size) <= ents[j].start
<1>1. ents[i].start < ents[j].start /\ i # j
  BY FilesAre DEF InOrder
<1>2. ents[j].start \notin Run(ents[i].start, Blocks(ents[i].size))
  BY <1>1, FilesAre DEF Apart
<1> DEFINE a == ents[i].start
           b == ents[j].start
           n == Blocks(ents[i].size)
<1>3. a \in Int /\ b \in Int /\ n \in Nat
  BY FilesAre
<1> HIDE DEF a, b, n
<1>4. a < b /\ b \notin Run(a, n)
  BY <1>1, <1>2 DEF a, b, n
<1>5. a + n <= b
  BY <1>3, <1>4 DEF Run
<1> QED BY <1>5 DEF a, b, n

\* The start of file j after f turns, when the file of entry at is deleted.
Pos(j, f, at) == IF at < j /\ j < f THEN ents[j].start - Blocks(ents[at].size) ELSE ents[j].start

LEMMA PosOrdered ==
  ASSUME TypeInv, ~strayed, InOrder, Apart, NEW at \in Files, NEW f \in Nat,
         NEW i \in Files \ {at}, NEW j \in Files \ {at}, i < j
  PROVE  Pos(i, f, at) + Blocks(ents[i].size) <= Pos(j, f, at)
<1> DEFINE a == ents[i].start
           b == ents[j].start
           g == ents[at].start
           n == Blocks(ents[i].size)
           by == Blocks(ents[at].size)
<1>1. a \in Int /\ b \in Int /\ g \in Int /\ n \in Nat /\ by \in Nat /\ i \in Nat /\ j \in Nat /\ at \in Nat
  BY FilesAre
<1>2. a + n <= b /\ (i < at => a + n <= g) /\ (at < j => g + by <= b)
  BY FilesInOrder
<1>3. /\ Pos(i, f, at) = IF at < i /\ i < f THEN a - by ELSE a
      /\ Pos(j, f, at) = IF at < j /\ j < f THEN b - by ELSE b
  BY DEF Pos
<1> HIDE DEF a, b, g, n, by
<1>4. i # at /\ j # at
  OBVIOUS
<1>5. Pos(i, f, at) + n <= Pos(j, f, at)
  <2>1. CASE at < i
    BY <1>1, <1>2, <1>3, <2>1
  <2>2. CASE i < at /\ at < j
    BY <1>1, <1>2, <1>3, <2>2
  <2>3. CASE j < at
    BY <1>1, <1>2, <1>3, <2>3
  <2> QED BY <1>1, <1>4, <2>1, <2>2, <2>3
<1> QED BY <1>5 DEF n

LEMMA MovesIs ==
  ASSUME TypeInv, ~strayed, InOrder, Apart, NEW at \in Files, NEW j \in Files \ {at}
  PROVE  /\ Moves(ents[j], ents[at]) <=> at < j
         /\ at < j => /\ ents[at].start <= ents[j].start - Blocks(ents[at].size)
                      /\ Run(ents[j].start - Blocks(ents[at].size), Blocks(ents[j].size)) \subseteq Data
<1> DEFINE a == ents[j].start
           g == ents[at].start
           n == Blocks(ents[j].size)
           by == Blocks(ents[at].size)
<1>1. /\ a \in Int /\ g \in Int /\ n \in Nat \ {0} /\ by \in Nat \ {0} /\ j \in Nat /\ at \in Nat /\ j # at
      /\ Run(a, n) \subseteq Data /\ g \in Data /\ ents[j].type = "file"
  BY FilesAre
<1>2. (at < j => g + by <= a) /\ (j < at => a < g)
  BY FilesInOrder, FilesAre DEF InOrder
<1>3. Moves(ents[j], ents[at]) <=> a > g
  BY <1>1 DEF Moves
<1> HIDE DEF a, g, n, by
<1>4. a > g <=> at < j
  BY <1>1, <1>2
<1>5. ASSUME at < j PROVE g <= a - by /\ Run(a - by, n) \subseteq Data
  <2>1. g <= a - by
    BY <1>1, <1>2, <1>5
  <2>2. a + n - 1 \in Data
    <3>1. a + n - 1 \in Run(a, n)
      BY <1>1 DEF Run
    <3> QED BY <1>1, <3>1
  <2>3. Run(a - by, n) \subseteq Data
    BY <1>1, <2>1, <2>2, LayoutAssumption DEF Run, Data
  <2> QED BY <2>1, <2>3
<1> QED BY <1>3, <1>4, <1>5 DEF a, g, n, by

\* What the loop has done after f turns: the files are where they should be, with their
\* sectors marked and what was in them.
Brought(x, j, from, to, n) ==
  Run(to, n) \subseteq x.bitmap /\ \A k \in 1 .. n : x.disk[to + k - 1] = disk[from + k - 1]
Stage(x, f, at) ==
  /\ \A j \in Files \ {at} :
       /\ x.ents[j].start = Pos(j, f, at)
       /\ Brought(x, j, ents[j].start, Pos(j, f, at), Blocks(ents[j].size))
  /\ Told(x, disk)

LEMMA TurnIs ==
  ASSUME TypeInv, ~strayed, InOrder, Apart, NEW at \in Files, NEW f \in 1 .. file_count,
         NEW x \in Work(Data), \A j \in Slots : Same(x.ents[j], ents[j]),
         x.ents[f - 1] = ents[f - 1], Stage(x, f - 1, at)
  PROVE  Stage(Turn(x, f, ents[at], at), f, at)
<1> DEFINE i == f - 1
           gone == ents[at]
           by == Blocks(gone.size)
           y == Turn(x, f, gone, at)
<1> SUFFICES Stage(y, f, at)
  OBVIOUS
<1>1. i \in Live /\ i \in Nat /\ i \in Slots /\ f \in Nat /\ f = i + 1
  <2>1. i \in Live /\ i \in Nat /\ f \in Nat /\ f = i + 1
    BY DEF Live, TypeInv
  <2> QED BY <2>1, FilesAre
<1>2. y = IF i # at /\ Moves(ents[i], gone) THEN MoveDown(x, i, by) ELSE x
  BY DEF Turn
<1>3. \A j \in Files \ {at} : j # i => Pos(j, f, at) = Pos(j, i, at)
  BY <1>1, FilesAre DEF Pos
<1>4. CASE ~(i # at /\ Moves(ents[i], gone))
  <2>1. y = x
    BY <1>2, <1>4
  <2>2. \A j \in Files \ {at} : Pos(j, f, at) = Pos(j, i, at)
    <3>1. i \in Files \ {at} => ~(at < i)
      BY <1>4, MovesIs
    <3>2. i \in Files \ {at} => Pos(i, f, at) = Pos(i, i, at)
      BY <3>1 DEF Pos
    <3> QED BY <1>3, <3>2
  <2> HIDE DEF y
  <2> QED BY <2>1, <2>2 DEF Stage
<1>5. CASE i # at /\ Moves(ents[i], gone)
  <2> DEFINE e == ents[i]
             n == Blocks(e.size)
             from == e.start
             to == from - by
  <2>1. i \in Files \ {at} /\ at < i
    <3>1. i \in Files \ {at}
      BY <1>1, <1>5 DEF Moves, Files
    <3> QED BY <1>5, <3>1, MovesIs
  <2>2. /\ from \in Int /\ n \in Nat \ {0} /\ by \in Nat \ {0} /\ to \in Int
        /\ Extent(e) = Run(from, n) /\ Run(from, n) \subseteq Data /\ Run(to, n) \subseteq Data
    <3>1. /\ from \in Int /\ n \in Nat \ {0} /\ by \in Nat \ {0}
          /\ Extent(e) = Run(from, n) /\ Run(from, n) \subseteq Data
      BY <2>1, FilesAre
    <3>2. Run(to, n) \subseteq Data
      BY <2>1, MovesIs
    <3>3. to \in Int
      <4> HIDE DEF from, by
      <4> QED BY <3>1
    <3> QED BY <3>1, <3>2, <3>3
  <2>3. Pos(i, i, at) = from /\ Pos(i, f, at) = to
    BY <1>1, <2>1, FilesAre DEF Pos
  <2>4. ASSUME NEW j \in Files \ {at}, j # i
        PROVE  LET r == Run(Pos(j, i, at), Blocks(ents[j].size)) IN
               r \cap Run(from, n) = {} /\ r \cap Run(to, n) = {}
    <3> DEFINE p == Pos(j, i, at)
               m == Blocks(ents[j].size)
    <3>1. p \in Int /\ m \in Nat
      BY <2>2, FilesAre DEF Pos
    <3>2. (j < i => p + m <= to) /\ (i < j => from + n <= p)
      <4>1. i < j => Pos(i, i, at) + n <= p
        BY <1>1, <2>1, PosOrdered
      <4>2. j < i => Pos(j, f, at) + m <= Pos(i, f, at)
        BY <1>1, <2>1, PosOrdered
      <4> HIDE DEF p, n, from, to, m
      <4> QED BY <1>3, <2>3, <2>4, <4>1, <4>2 DEF p
    <3>3. j < i \/ i < j
      BY <1>1, <2>4, FilesAre
    <3>4. to <= from
      <4> HIDE DEF from, by
      <4> QED BY <2>2
    <3> HIDE DEF p, n, from, to, m
    <3>5. CASE j < i
      <4>1. p + m <= to /\ p + m <= from
        BY <2>2, <3>1, <3>2, <3>4, <3>5
      <4> QED BY <2>2, <3>1, <4>1, RunsApart DEF p, m
    <3>6. CASE i < j
      <4>1. from + n <= p /\ to + n <= p
        BY <2>2, <3>1, <3>2, <3>4, <3>6
      <4>2. Run(from, n) \cap Run(p, m) = {} /\ Run(to, n) \cap Run(p, m) = {}
        BY <2>2, <3>1, <4>1, RunsApart
      <4> QED BY <4>2 DEF p, m
    <3> QED BY <3>3, <3>5, <3>6
  <2>5. /\ y.ents = [x.ents EXCEPT ![i] = Lowered(e, by)]
        /\ y.bitmap = (x.bitmap \ Run(from, n)) \cup (Run(to, n) \cap Data)
        /\ Copied(y, x, from, to, n)
        /\ Told(x, disk) => Told(y, disk)
    <3>1. Data \in SUBSET Sectors /\ disk \in [Sectors -> Content]
      BY Layout DEF TypeInv
    <3>2. x.ents[i] = e
      OBVIOUS
    <3>3. Extent(Lowered(e, by)) = Run(to, n)
      <4>1. e \in Record
        BY <1>1 DEF TypeInv
      <4>2. Lowered(e, by).start = to /\ Lowered(e, by).size = e.size
        BY <4>1 DEF Lowered, Record
      <4> QED BY <4>2, Zenon DEF Extent
    <3> HIDE DEF e, n, from, by
    <3>4. /\ MoveDown(x, i, by).ents = [x.ents EXCEPT ![i] = Lowered(x.ents[i], by)]
          /\ MoveDown(x, i, by).bitmap = (x.bitmap \ Extent(x.ents[i])) \cup (Extent(Lowered(x.ents[i], by)) \cap Data)
          /\ Copied(MoveDown(x, i, by), x, x.ents[i].start, x.ents[i].start - by, Blocks(x.ents[i].size))
          /\ Told(x, disk) => Told(MoveDown(x, i, by), disk)
      <4>1. /\ Extent(x.ents[i]) \subseteq Data
            /\ Run(x.ents[i].start - by, Blocks(x.ents[i].size)) \subseteq Data
        BY <2>2, <3>2 DEF from, n
      <4> QED BY <1>1, <2>2, <3>1, <4>1, MoveDownIs
    <3>5. x.ents[i].start = from /\ Blocks(x.ents[i].size) = n
      BY <3>2 DEF from, n
    <3> HIDE DEF y
    <3> QED BY <1>2, <1>5, <2>2, <3>2, <3>3, <3>4, <3>5
  <2> HIDE DEF y
  <2>6. Told(y, disk)
    BY <2>5 DEF Stage
  <2>7. ASSUME NEW j \in Files \ {at}, j # i
        PROVE  /\ y.ents[j].start = Pos(j, f, at)
               /\ Brought(y, j, ents[j].start, Pos(j, f, at), Blocks(ents[j].size))
    <3> DEFINE p == Pos(j, i, at)
               m == Blocks(ents[j].size)
    <3>1. p = Pos(j, f, at) /\ p \in Int /\ m \in Nat
      BY <1>3, <2>2, <2>7, FilesAre DEF Pos
    <3>2. Run(p, m) \cap Run(from, n) = {} /\ Run(p, m) \cap Run(to, n) = {}
      BY <2>4, <2>7
    <3>3. x.ents[j].start = p /\ Brought(x, j, ents[j].start, p, m)
      BY DEF Stage
    <3>4. y.ents[j] = x.ents[j]
      <4>1. j \in Slots /\ x.ents \in [Slots -> Record]
        BY FilesAre DEF Work
      <4> HIDE DEF i
      <4> QED BY <2>5, <2>7, <4>1
    <3> HIDE DEF p, m, n, from, to
    <3>5. Run(p, m) \subseteq y.bitmap
      BY <2>5, <3>2, <3>3 DEF Brought
    <3>6. ASSUME NEW k \in 1 .. m PROVE y.disk[p + k - 1] = x.disk[p + k - 1]
      <4>1. p + k - 1 \in Run(p, m)
        BY <3>1 DEF Run
      <4>2. Run(p, m) \subseteq Sectors
        <5>1. x.bitmap \subseteq Data /\ Data \subseteq Sectors
          BY Layout DEF Work
        <5> QED BY <3>3, <5>1 DEF Brought
      <4> QED BY <2>5, <3>2, <4>1, <4>2 DEF Copied
    <3>7. Brought(y, j, ents[j].start, p, m)
      BY <3>3, <3>5, <3>6 DEF Brought
    <3> QED BY <3>1, <3>3, <3>4, <3>7 DEF m
  <2>8. y.ents[i].start = Pos(i, f, at) /\ Brought(y, i, ents[i].start, Pos(i, f, at), Blocks(ents[i].size))
    <3>1. y.ents[i] = Lowered(e, by)
      <4>1. x.ents \in [Slots -> Record]
        BY DEF Work
      <4> HIDE DEF i, e, by
      <4> QED BY <1>1, <2>5, <4>1
    <3>2. y.ents[i].start = to
      <4>1. e \in Record
        BY <1>1 DEF TypeInv
      <4> HIDE DEF e, by
      <4> QED BY <3>1, <4>1 DEF Lowered, Record
    <3>3. Run(to, n) \subseteq y.bitmap
      <4> HIDE DEF to, n, from
      <4> QED BY <2>2, <2>5
    <3>4. ASSUME NEW k \in 1 .. n PROVE y.disk[to + k - 1] = disk[from + k - 1]
      <4>1. y.disk[to + k - 1] = x.disk[from + k - 1]
        <5> HIDE DEF to, n, from
        <5> QED BY <2>5 DEF Copied
      <4>2. x.disk[from + k - 1] = disk[from + k - 1]
        <5>1. Brought(x, i, from, Pos(i, i, at), n)
          BY <2>1 DEF Stage
        <5> HIDE DEF from, n, i
        <5> QED BY <2>3, <5>1 DEF Brought
      <4> QED BY <4>1, <4>2
    <3>5. Brought(y, i, from, to, n)
      <4> HIDE DEF to, n, from
      <4> QED BY <3>3, <3>4 DEF Brought
    <3> QED BY <2>3, <3>2, <3>5
  <2> QED BY <2>6, <2>7, <2>8 DEF Stage
<1> QED BY <1>4, <1>5

\* A delete of one of the files, when they are in order, moves none of them out of the data,
\* and keeps the others apart, marked, and with their contents.
LEMMA CompactIs ==
  ASSUME TypeInv, ~strayed, InOrder, Apart, Marked, NEW at \in Files
  PROVE  LET m == Compact(ents[at], at) IN
         /\ ~Strays(ents[at], at)
         /\ m \in Work(Data) /\ Stage(m, file_count, at)
<1> DEFINE gone == ents[at]
<1>1. ASSUME NEW j \in Live \ {at}, Moves(ents[j], gone)
      PROVE  /\ Run(ents[j].start - Blocks(gone.size), Blocks(ents[j].size)) \subseteq Data
             /\ ~Astray(ents[j], gone)
  <2>1. j \in Files \ {at} /\ at < j
    <3>1. j \in Files \ {at}
      BY <1>1 DEF Moves, Files
    <3> QED BY <1>1, <3>1, MovesIs
  <2>2. /\ Run(ents[j].start - Blocks(gone.size), Blocks(ents[j].size)) \subseteq Data
        /\ gone.start <= ents[j].start - Blocks(gone.size)
    BY <2>1, MovesIs
  <2>3. /\ gone.start \in Data /\ gone.start \in Int /\ ents[j].start \in Int
        /\ Blocks(gone.size) \in Nat
    BY <2>1, FilesAre
  <2>4. ~(ents[j].start - Blocks(gone.size) < DataStart)
    <3> DEFINE g == gone.start
               a == ents[j].start
               by == Blocks(gone.size)
    <3>1. g <= a - by /\ g \in Data /\ g \in Int /\ a \in Int /\ by \in Nat
      BY <2>2, <2>3
    <3> HIDE DEF g, a, by
    <3>2. ~(a - by < DataStart)
      BY <3>1, LayoutAssumption DEF Data
    <3> QED BY <3>2 DEF a, by
  <2> QED BY <2>2, <2>4 DEF Astray
<1>2. ~Strays(gone, at)
  <2>1. \A j \in Live \ {at} : ~Astray(ents[j], gone)
    BY <1>1 DEF Astray
  <2> QED BY <2>1, Zenon DEF Strays
<1>3. /\ file_count \in 0 .. MaxFiles /\ ents \in [Slots -> Placed] /\ bitmap \in SUBSET Data
      /\ disk \in [Sectors -> Content] /\ gone \in Placed /\ Data \in SUBSET Int
  <2>1. at \in Slots
    BY FilesAre
  <2>2. Data \in SUBSET Int
    BY Layout
  <2> QED BY <2>1, <2>2 DEF TypeInv
<1>4. PICK c : IsCompaction(c, gone, at, Data)
  <2>1. \A j \in Live \ {at} : Moves(ents[j], gone) =>
          Run(ents[j].start - Blocks(gone.size), Blocks(ents[j].size)) \subseteq Data
    BY <1>1
  <2> HIDE DEF gone
  <2> QED BY <1>3, <2>1, CompactSteps
<1> DEFINE n == file_count
           Inv == [f \in 0 .. n |-> {x \in Work(Data) : Stage(x, f, at)}]
<1>5. /\ c[0] = Begun(gone) /\ Compact(gone, at) = c[n]
      /\ \A f \in 1 .. n : c[f] = Turn(c[f - 1], f, gone, at)
      /\ \A f \in 0 .. n : /\ c[f] \in Work(Data)
                           /\ \A j \in Slots : Same(c[f].ents[j], ents[j])
                           /\ \A j \in Slots : f <= j => c[f].ents[j] = ents[j]
  BY <1>4, Zenon DEF IsCompaction
<1>6. n \in Nat /\ 0 \in 0 .. n /\ n \in 0 .. n
      /\ \A f \in 1 .. n : f - 1 \in 0 .. n /\ f \in 0 .. n /\ f - 1 \in Slots /\ f - 1 <= f - 1
  BY <1>3, LayoutAssumption DEF Slots
<1>7. Stage(c[0], 0, at)
  <2>1. /\ c[0].ents = ents /\ c[0].bitmap = bitmap \ Extent(gone) /\ c[0].disk = disk
        /\ c[0].todo = <<>>
    BY <1>5 DEF Begun
  <2>2. ASSUME NEW j \in Files \ {at}
        PROVE  /\ c[0].ents[j].start = Pos(j, 0, at)
               /\ Brought(c[0], j, ents[j].start, Pos(j, 0, at), Blocks(ents[j].size))
    <3>1. Pos(j, 0, at) = ents[j].start
      BY FilesAre DEF Pos
    <3>2. Extent(ents[j]) = Run(ents[j].start, Blocks(ents[j].size))
      BY FilesAre
    <3>3. Extent(ents[j]) \subseteq c[0].bitmap
      BY <2>1 DEF Marked, Apart
    <3> QED BY <2>1, <3>1, <3>2, <3>3 DEF Brought
  <2>3. Told(c[0], disk)
    <3>1. After(disk, <<>>) = disk
      BY <1>3, Layout, AfterOne
    <3> QED BY <2>1, <3>1 DEF Told
  <2> QED BY <2>2, <2>3 DEF Stage
<1> HIDE DEF gone, n
<1>8. \A f \in 0 .. n : c[f] \in Inv[f]
  <2>1. c[0] \in Inv[0]
    BY <1>5, <1>6, <1>7
  <2>2. ASSUME NEW f \in 1 .. n, c[f - 1] \in Inv[f - 1] PROVE c[f] \in Inv[f]
    <3>1. c[f - 1] \in Work(Data) /\ Stage(c[f - 1], f - 1, at)
      BY <1>6, <2>2
    <3>2. \A j \in Slots : Same(c[f - 1].ents[j], ents[j])
      BY <1>5, <1>6
    <3>3. c[f - 1].ents[f - 1] = ents[f - 1]
      BY <1>5, <1>6
    <3>4. Stage(Turn(c[f - 1], f, gone, at), f, at)
      BY <3>1, <3>2, <3>3, TurnIs DEF n, gone
    <3> QED BY <1>5, <1>6, <3>4
  <2> HIDE DEF Inv
  <2> QED BY <1>6, <2>1, <2>2, RecursionKeeps
<1>9. c[n] \in Work(Data) /\ Stage(c[n], n, at)
  BY <1>6, <1>8
<1> QED BY <1>2, <1>5, <1>9 DEF gone, n
---------------------------------------------------------------------------
\* Sound, of any table, bitmap and contents.
Filled(e, w, d) ==
  \A k \in 1 .. Blocks(e.size) :
    d[e.start + k - 1] = IF e.path \in w THEN Part(e.path, k) ELSE Zero
Alone(n, es) == \A i, j \in 0 .. n - 1 : i # j /\ es[i].path \in Paths => es[i].path # es[j].path
InFull(n, es, b, w, d) ==
  \A i \in 0 .. n - 1 : es[i].type = "file" => Extent(es[i]) \subseteq b /\ Filled(es[i], w, d)
Disjoint(n, es) ==
  \A i, j \in 0 .. n - 1 :
    es[i].type = "file" /\ es[j].type = "file" /\ i # j => Extent(es[i]) \cap Extent(es[j]) = {}
Kept(n, es, b, w, d) == Alone(n, es) /\ InFull(n, es, b, w, d) /\ Disjoint(n, es)

LEMMA SoundIs ==
  /\ Sound <=> Kept(file_count, ents, bitmap, written, After(disk, todo))
  /\ Sound' <=> Kept(file_count', ents', bitmap', written', After(disk', todo'))
<1>1. Settled = After(disk, todo) /\ Settled' = After(disk', todo')
  BY Zenon DEF Settled, After
<1>2. Distinct <=> Alone(file_count, ents)
  BY DEF Distinct, Live, Alone
<1>3. Distinct' <=> Alone(file_count', ents')
  BY DEF Distinct, Live, Alone
<1>4. \A e : Holds(e) <=> Filled(e, written, After(disk, todo))
  BY <1>1, Zenon DEF Holds, Filled
<1>5. \A e : Holds(e)' <=> Filled(e, written', After(disk', todo'))
  BY <1>1, Zenon DEF Holds, Filled
<1>6. (\A i \in Files : Extent(ents[i]) \subseteq bitmap /\ Holds(ents[i]))
      <=> InFull(file_count, ents, bitmap, written, After(disk, todo))
  BY <1>4, Zenon DEF Files, Live, InFull
<1>7. (\A i \in Files : Extent(ents[i]) \subseteq bitmap /\ Holds(ents[i]))'
      <=> InFull(file_count', ents', bitmap', written', After(disk', todo'))
  BY <1>1, Zenon DEF Files, Live, InFull, Holds, Filled
<1>8. (\A i, j \in Files : i # j => Extent(ents[i]) \cap Extent(ents[j]) = {})
      <=> Disjoint(file_count, ents)
  BY Zenon DEF Files, Live, Disjoint
<1>9. (\A i, j \in Files : i # j => Extent(ents[i]) \cap Extent(ents[j]) = {})'
      <=> Disjoint(file_count', ents')
  BY Zenon DEF Files, Live, Disjoint
<1>10. Sound <=> Kept(file_count, ents, bitmap, written, After(disk, todo))
  BY <1>2, <1>6, <1>8, Zenon DEF Sound, Kept
<1>11. Sound' <=> Kept(file_count', ents', bitmap', written', After(disk', todo'))
  BY <1>3, <1>7, <1>9, Zenon DEF Sound, Kept
<1> QED BY <1>10, <1>11

\* It only depends on what the sectors of the files hold.
LEMMA SectorsOf ==
  ASSUME NEW e \in Record
  PROVE  \A k \in 1 .. Blocks(e.size) : e.start + k - 1 \in Extent(e)
<1> DEFINE n == Blocks(e.size)
           s == e.start
<1>1. n \in Nat /\ s \in Int /\ Extent(e) = s .. s + n - 1
  BY BlocksAre
<1> HIDE DEF n, s
<1>2. \A k \in 1 .. n : s + k - 1 \in s .. s + n - 1
  BY <1>1
<1> QED BY <1>1, <1>2 DEF n, s

LEMMA KeptSame ==
  ASSUME NEW n \in 0 .. MaxFiles, NEW es \in [Slots -> Record], NEW b, NEW w, NEW d, NEW d2,
         Kept(n, es, b, w, d),
         \A i \in 0 .. n - 1 : es[i].type = "file" => \A s \in Extent(es[i]) : d2[s] = d[s]
  PROVE  Kept(n, es, b, w, d2)
<1>1. ASSUME NEW i \in 0 .. n - 1, es[i].type = "file" PROVE Filled(es[i], w, d2)
  <2>1. es[i] \in Record
    BY LayoutAssumption DEF Slots
  <2>2. Filled(es[i], w, d)
    BY <1>1 DEF Kept, InFull
  <2>3. \A k \in 1 .. Blocks(es[i].size) : d2[es[i].start + k - 1] = d[es[i].start + k - 1]
    BY <1>1, <2>1, SectorsOf
  <2> QED BY <2>2, <2>3, Zenon DEF Filled
<1>2. InFull(n, es, b, w, d2)
  BY <1>1 DEF Kept, InFull
<1> QED BY <1>2 DEF Kept

\* An entry is added.
LEMMA KeptAdd ==
  ASSUME NEW n \in 0 .. MaxFiles, n < MaxFiles, NEW es \in [Slots -> Record], NEW b, NEW w, NEW d,
         Kept(n, es, b, w, d),
         NEW e \in Record, \A i \in 0 .. n - 1 : es[i].path # e.path,
         NEW b2, b \subseteq b2, NEW w2, NEW d2,
         \A p : p # e.path => (p \in w2 <=> p \in w),
         \A i \in 0 .. n - 1 : es[i].type = "file" => \A s \in Extent(es[i]) : d2[s] = d[s],
         e.type = "file" => /\ Extent(e) \subseteq b2 /\ Extent(e) \cap b = {}
                            /\ Filled(e, w2, d2)
  PROVE  Kept(n + 1, [es EXCEPT ![n] = e], b2, w2, d2)
<1> DEFINE new == [es EXCEPT ![n] = e]
           m == n + 1
<1>1. /\ new[n] = e /\ \A i \in 0 .. n - 1 : new[i] = es[i]
      /\ \A i \in 0 .. m - 1 : i = n \/ i \in 0 .. n - 1
  BY LayoutAssumption DEF Slots
<1>2. Kept(n, es, b, w, d2)
  BY KeptSame
<1> HIDE DEF new, m
<1>3. Alone(m, new)
  BY <1>1, <1>2 DEF Kept, Alone
<1>4. ASSUME NEW i \in 0 .. n - 1, es[i].type = "file"
      PROVE  Extent(es[i]) \subseteq b /\ Filled(es[i], w2, d2)
  <2>1. Extent(es[i]) \subseteq b /\ Filled(es[i], w, d2)
    BY <1>2, <1>4 DEF Kept, InFull
  <2>2. es[i].path \in w2 <=> es[i].path \in w
    OBVIOUS
  <2> QED BY <2>1, <2>2, Zenon DEF Filled
<1>5. InFull(m, new, b2, w2, d2)
  <2> SUFFICES ASSUME NEW i \in 0 .. m - 1, new[i].type = "file"
               PROVE  Extent(new[i]) \subseteq b2 /\ Filled(new[i], w2, d2)
    BY DEF InFull
  <2>1. CASE i = n
    BY <1>1, <2>1
  <2>2. CASE i \in 0 .. n - 1
    <3>1. new[i] = es[i]
      BY <1>1, <2>2
    <3> QED BY <1>4, <2>2, <3>1
  <2> QED BY <1>1, <2>1, <2>2
<1>6. Disjoint(m, new)
  <2>1. ASSUME NEW i \in 0 .. n - 1, es[i].type = "file", e.type = "file"
        PROVE  Extent(es[i]) \cap Extent(e) = {}
    BY <1>4, <2>1
  <2>2. Disjoint(n, es)
    BY <1>2 DEF Kept
  <2> SUFFICES ASSUME NEW i \in 0 .. m - 1, NEW j \in 0 .. m - 1, i # j,
                      new[i].type = "file", new[j].type = "file"
               PROVE  Extent(new[i]) \cap Extent(new[j]) = {}
    BY DEF Disjoint
  <2>3. CASE i \in 0 .. n - 1 /\ j \in 0 .. n - 1
    <3>1. new[i] = es[i] /\ new[j] = es[j]
      BY <1>1, <2>3
    <3> QED BY <2>2, <2>3, <3>1 DEF Disjoint
  <2>4. CASE i = n /\ j \in 0 .. n - 1
    <3>1. new[i] = e /\ new[j] = es[j]
      BY <1>1, <2>4
    <3>2. Extent(es[j]) \cap Extent(e) = {}
      BY <2>1, <2>4, <3>1
    <3> QED BY <3>1, <3>2
  <2>5. CASE j = n /\ i \in 0 .. n - 1
    <3>1. new[j] = e /\ new[i] = es[i]
      BY <1>1, <2>5
    <3> QED BY <2>1, <2>5, <3>1
  <2> QED BY <1>1, <2>3, <2>4, <2>5
<1> QED BY <1>3, <1>5, <1>6 DEF Kept, new, m

\* An entry is deleted, after the files have moved, and the last takes its place.
Relocated(n, es, at, mid, b, d, d2) ==
  /\ \A j \in (0 .. n - 1) \ {at} : es[j].type = "file" =>
       /\ Extent(mid[j]) \subseteq b
       /\ \A k \in 1 .. Blocks(es[j].size) : d2[mid[j].start + k - 1] = d[es[j].start + k - 1]
  /\ \A i, j \in (0 .. n - 1) \ {at} :
       es[i].type = "file" /\ es[j].type = "file" /\ i # j => Extent(mid[i]) \cap Extent(mid[j]) = {}
SameTable(mid, es) == \A j \in Slots : Same(mid[j], es[j])

LEMMA KeptDelete ==
  ASSUME NEW n \in 1 .. MaxFiles, NEW es \in [Slots -> Record], NEW b, NEW w, NEW d,
         Kept(n, es, b, w, d), NEW at \in 0 .. n - 1, es[at].path \in Paths,
         NEW mid \in [Slots -> Record], SameTable(mid, es), NEW b2, NEW d2,
         Relocated(n, es, at, mid, b2, d, d2)
  PROVE  Kept(n - 1, Fill(mid, at, n - 1), b2, w \ {es[at].path}, d2)
<1> DEFINE last == n - 1
           of(j) == IF j = at THEN last ELSE j
           new == Fill(mid, at, last)
           p == es[at].path
           w2 == w \ {p}
<1>1. /\ last \in Slots /\ at \in Slots /\ 0 .. last - 1 \subseteq Slots \ {last}
      /\ \A j \in 0 .. last - 1 : of(j) \in (0 .. n - 1) \ {at} /\ of(j) \in Slots
      /\ \A i, j \in 0 .. last - 1 : i # j => of(i) # of(j)
  BY LayoutAssumption DEF Slots
<1>2. \A j \in 0 .. last - 1 :
        /\ new[j].path = es[of(j)].path /\ new[j].type = es[of(j)].type
        /\ new[j].size = es[of(j)].size /\ new[j].start = mid[of(j)].start
        /\ Extent(new[j]) = Extent(mid[of(j)])
  <2>1. \A j \in Slots \ {last} : LET e == mid[of(j)] IN
           /\ new[j].path = e.path /\ new[j].type = e.type
           /\ new[j].size = e.size /\ new[j].start = e.start
    <3>1. last \in Slots /\ at \in Slots
      BY <1>1
    <3> HIDE DEF last
    <3>2. \A j \in Slots \ {last} : LET e == mid[IF j = at THEN last ELSE j] IN
             /\ Fill(mid, at, last)[j].path = e.path /\ Fill(mid, at, last)[j].type = e.type
             /\ Fill(mid, at, last)[j].size = e.size /\ Fill(mid, at, last)[j].start = e.start
      BY <3>1, FillIs
    <3> QED BY <3>2
  <2>2. \A j \in 0 .. last - 1 : j \in Slots \ {last} /\ of(j) \in Slots
    BY <1>1
  <2> HIDE DEF new, of, last
  <2>3. \A j \in 0 .. last - 1 : Extent(new[j]) = Extent(mid[of(j)])
    BY <2>1, <2>2, Zenon DEF Extent
  <2> QED BY <2>1, <2>2, <2>3 DEF Same, SameTable
<1>3. \A j \in (0 .. n - 1) \ {at} : es[j].path # p
  BY DEF Kept, Alone
<1> HIDE DEF new, of, last
<1>4. Alone(last, new)
  <2> SUFFICES ASSUME NEW i \in 0 .. last - 1, NEW j \in 0 .. last - 1, i # j, new[i].path \in Paths
               PROVE  new[i].path # new[j].path
    BY DEF Alone
  <2>1. of(i) # of(j) /\ of(i) \in 0 .. n - 1 /\ of(j) \in 0 .. n - 1
    BY <1>1
  <2>2. new[i].path = es[of(i)].path /\ new[j].path = es[of(j)].path
    BY <1>2
  <2> QED BY <2>1, <2>2 DEF Kept, Alone
<1>5. InFull(last, new, b2, w2, d2)
  <2> SUFFICES ASSUME NEW j \in 0 .. last - 1, new[j].type = "file"
               PROVE  Extent(new[j]) \subseteq b2 /\ Filled(new[j], w2, d2)
    BY DEF InFull
  <2> DEFINE i == of(j)
  <2>1. i \in (0 .. n - 1) \ {at} /\ i \in Slots
    BY <1>1
  <2>2. /\ new[j].path = es[i].path /\ new[j].type = es[i].type
        /\ new[j].size = es[i].size /\ new[j].start = mid[i].start
        /\ Extent(new[j]) = Extent(mid[i])
    BY <1>2
  <2> HIDE DEF i
  <2>3. /\ es[i].type = "file" /\ Extent(mid[i]) \subseteq b2
        /\ \A k \in 1 .. Blocks(es[i].size) : d2[mid[i].start + k - 1] = d[es[i].start + k - 1]
    BY <2>1, <2>2 DEF Relocated
  <2>4. Filled(es[i], w, d)
    BY <2>1, <2>3 DEF Kept, InFull
  <2>5. es[i].path \in w2 <=> es[i].path \in w
    BY <1>3, <2>1
  <2> HIDE DEF w2
  <2>6. Filled(new[j], w2, d2)
    BY <2>2, <2>3, <2>4, <2>5, Zenon DEF Filled
  <2> QED BY <2>2, <2>3, <2>6
<1>6. Disjoint(last, new)
  <2> SUFFICES ASSUME NEW i \in 0 .. last - 1, NEW j \in 0 .. last - 1, i # j,
                      new[i].type = "file", new[j].type = "file"
               PROVE  Extent(new[i]) \cap Extent(new[j]) = {}
    BY DEF Disjoint
  <2>1. of(i) # of(j) /\ of(i) \in (0 .. n - 1) \ {at} /\ of(j) \in (0 .. n - 1) \ {at}
    BY <1>1
  <2>2. /\ new[i].type = es[of(i)].type /\ new[j].type = es[of(j)].type
        /\ Extent(new[i]) = Extent(mid[of(i)]) /\ Extent(new[j]) = Extent(mid[of(j)])
    BY <1>2
  <2> QED BY <2>1, <2>2 DEF Relocated
<1> QED BY <1>4, <1>5, <1>6 DEF Kept, new, last
---------------------------------------------------------------------------
\* What the calls write to the sectors of the files.
Spared == ~strayed => \A i \in Files : BitmapSector \notin Extent(ents[i])

IsData(t, s, n, x) ==
  IsList(t, n) /\ \A k \in 1 .. n : t[k] = <<s + k - 1, x[k]>> /\ x[k] \in Content
Landed(d2, d, s, n, x) ==
  /\ \A k \in 1 .. n : d2[s + k - 1] = x[k]
  /\ \A r \in Sectors \ Run(s, n) : d2[r] = d[r]

LEMMA DataWritten ==
  ASSUME NEW s \in Int, NEW n \in Nat, Run(s, n) \subseteq Data, NEW x,
         NEW t, IsData(t, s, n, x), NEW d
  PROVE  t \in Seq(Sectors \X Content) /\ Landed(After(d, t), d, s, n, x)
<1> DEFINE T == Sectors \X Content
<1>1. \A k \in 1 .. n : s + k - 1 \in Run(s, n) /\ s + k - 1 \in Sectors
  <2>1. \A k \in 1 .. n : s + k - 1 \in s .. s + n - 1
    OBVIOUS
  <2> QED BY <2>1, Layout DEF Run
<1>2. t \in Seq(T) /\ \A w : w \in Elems(t) <=> \E k \in 1 .. n : w = t[k]
  <2>1. \A k \in 1 .. n : <<s + k - 1, x[k]>> \in T
    BY <1>1 DEF IsData
  <2> HIDE DEF T
  <2>2. IsList(t, n) /\ \A k \in 1 .. n : t[k] \in T
    BY <2>1 DEF IsData
  <2>3. t \in Seq(T)
    BY <2>2, SeqOf
  <2>4. DOMAIN t = 1 .. n
    BY <2>2 DEF IsList
  <2> QED BY <2>3, <2>4 DEF Elems
<1>3. \A k \in 1 .. n : t[k][1] = s + k - 1 /\ t[k][2] = x[k]
  BY DEF IsData
<1> HIDE DEF T
<1>4. ASSUME NEW k \in 1 .. n PROVE After(d, t)[s + k - 1] = x[k]
  <2>1. t[k] \in Elems(t) /\ t[k][1] = s + k - 1
    BY <1>2, <1>3
  <2>2. ASSUME NEW w \in Elems(t), w[1] = s + k - 1 PROVE w[2] = x[k]
    <3>1. PICK j \in 1 .. n : w = t[j]
      BY <1>2
    <3>2. s + j - 1 = s + k - 1
      BY <1>3, <2>2, <3>1
    <3>3. j = k
      BY <3>2
    <3> QED BY <1>3, <3>1, <3>3
  <2> DEFINE r == s + k - 1
  <2>3. r \in Sectors
    BY <1>1
  <2>4. (\E w \in Elems(t) : w[1] = r) /\ (\A w \in Elems(t) : w[1] = r => w[2] = x[k])
    BY <2>1, <2>2
  <2>5. WritesOnly(t, r, x[k])
    BY <2>4 DEF WritesOnly
  <2> HIDE DEF r
  <2>7. After(d, t)[r] = x[k]
    BY <1>2, <2>3, <2>5, AfterWritten
  <2> QED BY <2>7 DEF r
<1>5. ASSUME NEW r \in Sectors \ Run(s, n) PROVE After(d, t)[r] = d[r]
  <2>1. ASSUME NEW w \in Elems(t) PROVE w[1] # r
    <3>1. PICK k \in 1 .. n : w = t[k]
      BY <1>2
    <3>2. w[1] = s + k - 1 /\ s + k - 1 \in Run(s, n)
      BY <1>1, <1>3, <3>1
    <3> QED BY <3>2
  <2>2. r \in Sectors
    OBVIOUS
  <2> QED BY <1>2, <2>1, <2>2, AfterWrites
<1> QED BY <1>2, <1>4, <1>5 DEF T, Landed

\* A call keeps what the table, the bitmap and the sectors of the files are.
LEMMA KeepsFlush ==
  ASSUME TypeInv, TodoInv, Flush, Sound
  PROVE  Sound'
<1>1. /\ todo # <<>> /\ todo \in Seq(Sectors \X Content) /\ disk \in [Sectors -> Content]
      /\ disk' = [disk EXCEPT ![Head(todo)[1]] = Head(todo)[2]] /\ todo' = Tail(todo)
      /\ UNCHANGED <<file_count, ents, bitmap, written>>
  BY DEF Flush, memory, TypeInv
<1>2. After(disk', todo') = After(disk, todo)
  BY <1>1, AfterFlush
<1> QED BY <1>1, <1>2, SoundIs

LEMMA SettledNow ==
  ASSUME TypeInv, May
  PROVE  /\ After(disk, todo) = disk /\ ~strayed /\ up /\ todo = <<>>
         /\ ents \in [Slots -> Placed] /\ ents \in [Slots -> Record]
         /\ file_count \in 0 .. MaxFiles /\ disk \in [Sectors -> Content] /\ bitmap \in SUBSET Data
         /\ written \in SUBSET Paths
         /\ Sound <=> Kept(file_count, ents, bitmap, written, disk)
<1>1. /\ todo = <<>> /\ ~strayed /\ up /\ disk \in [Sectors -> Content]
      /\ ents \in [Slots -> Placed] /\ ents \in [Slots -> Record] /\ bitmap \in SUBSET Data
      /\ file_count \in 0 .. MaxFiles /\ written \in SUBSET Paths
  BY DEF May, Ready, TypeInv
<1>2. After(disk, <<>>) = disk
  BY <1>1, Layout, AfterOne
<1> QED BY <1>1, <1>2, SoundIs

LEMMA KeepsMkdir ==
  ASSUME TypeInv, Room', Mkdir, Sound
  PROVE  Sound'
<1> DEFINE n == file_count
           d == disk
           d2 == After(disk', todo')
<1>1. /\ May /\ UNCHANGED disk
      /\ n < MaxFiles /\ file_count' = n + 1 /\ UNCHANGED <<bitmap, written>>
  BY MkdirCall DEF Do
<1>2. /\ ents \in [Slots -> Record] /\ n \in 0 .. MaxFiles /\ Kept(n, ents, bitmap, written, d) /\ ~strayed
  BY <1>1, SettledNow
<1>3. PICK p \in Paths : LET e == NewEntry(p, "dir", 0, 0) IN
           /\ MayAdd(p) /\ e \in Placed /\ ents' = [ents EXCEPT ![file_count] = e]
           /\ todo' \in Seq(Sectors \X Content)
           /\ Elems(todo') = {<<0, Header(file_count')>>, <<EntrySector(file_count), Entry(e)>>}
  BY MkdirIs, Zenon
<1> DEFINE e == NewEntry(p, "dir", 0, 0)
<1>4. /\ e \in Record /\ e.path = p /\ e.type # "file" /\ ents' = [ents EXCEPT ![n] = e]
      /\ todo' \in Seq(Sectors \X Content)
      /\ Elems(todo') = {<<0, Header(file_count')>>, <<EntrySector(n), Entry(e)>>}
  <2>1. e.path = p /\ e.type = "dir"
    BY NewEntryPath
  <2> HIDE DEF e
  <2> QED BY <1>3, <2>1, PlacedIs DEF e
<1>5. \A i \in 0 .. n - 1 : ents[i].path # p
  BY <1>3, Zenon DEF MayAdd, Has, Live
<1> HIDE DEF e
<1>6. \A r \in Data : d2[r] = d[r]
  <2>1. n \in Rows
    BY <1>1, <1>2, LayoutAssumption DEF Room, Rows, Slots, EntrySector
  <2>2. \A r \in Data : r \in Sectors /\ r # 0 /\ r # EntrySector(n)
    BY <2>1, RowsAre, Layout
  <2>3. \A w \in Elems(todo') : w[1] = 0 \/ w[1] = EntrySector(n)
    BY <1>4
  <2> QED BY <1>1, <1>4, <2>2, <2>3, AfterWrites
<1>7. \A i \in 0 .. n - 1 : ents[i].type = "file" => \A s \in Extent(ents[i]) : d2[s] = d[s]
  <2>1. \A i \in Files : Extent(ents[i]) \subseteq Data
    BY <1>2, FilesAre
  <2> QED BY <1>6, <2>1 DEF Files, Live
<1> HIDE DEF n, d, d2
<1>8. Kept(n + 1, [ents EXCEPT ![n] = e], bitmap, written, d2)
  BY <1>1, <1>2, <1>4, <1>5, <1>7, KeptAdd
<1> QED BY <1>1, <1>4, <1>8, SoundIs DEF n, d2

LEMMA KeepsWrite ==
  ASSUME TypeInv, Room, Write, Sound
  PROVE  Sound'
<1>1. PICK p \in Paths : LET i == IndexOf(p)
                             e == ents[i]
                         IN
           /\ Has(p) /\ e.type = "file"
           /\ Do("write", SaveData(e.start, Blocks(e.size), LAMBDA k : Part(p, k))
                            \o SaveEntries(ents, i, i + 1))
           /\ written' = written \cup {p}
  BY Zenon DEF Write
<1> DEFINE i == IndexOf(p)
           e == ents[i]
           m == i + 1
           s == e.start
           n == Blocks(e.size)
           t1 == SaveData(s, n, LAMBDA k : Part(p, k))
           t2 == SaveEntries(ents, i, m)
           T == Sectors \X Content
           d == disk
           d1 == After(d, t1)
           d2 == After(d, t1 \o t2)
<1>2. May /\ UNCHANGED <<file_count, ents, bitmap, disk>>
  BY WriteCall DEF Do
<1>3. /\ ents \in [Slots -> Placed] /\ file_count \in 0 .. MaxFiles /\ ~strayed
      /\ Kept(file_count, ents, bitmap, written, d)
  BY <1>2, SettledNow
<1>4. i \in Live /\ i \in Slots /\ e.path = p /\ e.type = "file" /\ i \in Files
  <2>1. i \in Live /\ i \in Slots /\ e.path = p
    BY <1>1, <1>3, IndexOfIs
  <2> QED BY <1>1, <2>1 DEF Files
<1> HIDE DEF i
<1>5. /\ s \in Int /\ n \in Nat /\ Extent(e) = Run(s, n) /\ Run(s, n) \subseteq Data
  BY <1>3, <1>4, FilesAre
<1>6. \A r \in Data : r \in Sectors /\ r # EntrySector(i)
  <2>1. i \in Rows
    BY <1>3, <1>4, RowsAre DEF Room, Live
  <2> QED BY <2>1, RowsAre, Layout
<1> HIDE DEF s, n
<1>7. /\ t1 \in Seq(T)
      /\ \A k \in 1 .. n : d1[s + k - 1] = Part(p, k)
      /\ \A r \in Sectors \ Run(s, n) : d1[r] = d[r]
  <2> DEFINE x == [k \in 1 .. n |-> Part(p, k)]
  <2>1. (\A k \in 1 .. n : x[k] = Part(p, k)) /\ \A k \in 1 .. n : x[k] \in Content
    BY <1>5, ContentMade
  <2> HIDE DEF x
  <2>2. IsData(t1, s, n, x)
    BY <2>1 DEF SaveData, IsList, IsData
  <2> HIDE DEF t1, d
  <2>3. t1 \in Seq(Sectors \X Content) /\ Landed(After(d, t1), d, s, n, x)
    BY <1>5, <2>2, DataWritten, Zenon
  <2> QED BY <2>1, <2>3 DEF Landed
<1>8. t2 \in Seq(T) /\ \A w \in Elems(t2) : w[1] = EntrySector(i)
  <2>1. i \in Nat /\ m \in Nat /\ i <= m /\ m <= MaxFiles /\ i .. m - 1 = {i}
    BY <1>4, LayoutAssumption DEF Slots
  <2>2. \A j \in Slots : Row(ents, j) \in T
    BY <1>3, RowTyped
  <2>3. \A w \in RowsOf(ents, i, m) : w[1] = EntrySector(i)
    <3> HIDE DEF m
    <3> QED BY <2>1 DEF RowsOf, Row
  <2> HIDE DEF m, T
  <2>4. t2 \in Seq(T) /\ Elems(t2) = RowsOf(ents, i, m)
    BY <2>1, <2>2, SaveEntriesIs
  <2> QED BY <2>3, <2>4
<1>9. todo' = t1 \o t2 /\ written' = written \cup {p}
  BY <1>1, Zenon DEF Do, i, s, n
<1> HIDE DEF t1, t2, T
<1>10. d2 = After(d1, t2)
  BY <1>7, <1>8, AfterConcat
<1>11. \A r \in Data : d2[r] = d1[r]
  BY <1>6, <1>8, <1>10, AfterWrites
<1> HIDE DEF d1, d2, d, e
<1>12. ASSUME NEW j \in Files PROVE Filled(ents[j], written \cup {p}, d2)
  <2>1. CASE j = i
    <3>1. \A k \in 1 .. n : d2[s + k - 1] = Part(p, k)
      <4>1. \A k \in 1 .. n : s + k - 1 \in Run(s, n)
        BY <1>5 DEF Run
      <4> QED BY <1>5, <1>7, <1>11, <4>1
    <3>2. ents[j].path = p /\ ents[j].start = s /\ Blocks(ents[j].size) = n
      BY <1>4, <2>1 DEF s, n, e
    <3> QED BY <3>1, <3>2 DEF Filled
  <2>2. CASE j # i
    <3>1. j \in 0 .. file_count - 1 /\ i \in 0 .. file_count - 1 /\ ents[j].type = "file" /\ ents[i].type = "file"
      BY <1>4 DEF Files, Live, e
    <3>2. ents[j].path # p
      BY <1>3, <1>4, <2>2, <3>1 DEF Kept, Alone, e
    <3>3. Extent(ents[j]) \cap Run(s, n) = {} /\ Extent(ents[j]) \subseteq Data
      <4>1. Extent(ents[j]) \cap Extent(e) = {}
        BY <1>3, <2>2, <3>1 DEF Kept, Disjoint, e
      <4> QED BY <1>3, <1>5, <4>1, FilesAre
    <3>4. \A r \in Extent(ents[j]) : d2[r] = d[r]
      BY <1>6, <1>7, <1>11, <3>3
    <3>5. Filled(ents[j], written, d)
      BY <1>3, <3>1 DEF Kept, InFull
    <3>6. \A k \in 1 .. Blocks(ents[j].size) : ents[j].start + k - 1 \in Extent(ents[j])
      <4>1. ents[j] \in Record
        BY <1>3, FilesAre, PlacedIs
      <4> QED BY <4>1, SectorsOf
    <3> QED BY <3>2, <3>4, <3>5, <3>6 DEF Filled
  <2> QED BY <2>1, <2>2
<1>13. Kept(file_count, ents, bitmap, written \cup {p}, d2)
  <2>1. InFull(file_count, ents, bitmap, written \cup {p}, d2)
    BY <1>3, <1>12 DEF Kept, InFull, Files, Live
  <2> QED BY <1>3, <2>1 DEF Kept
<1>14. After(disk', todo') = d2
  BY <1>2, <1>9 DEF d2, d
<1> QED BY <1>2, <1>9, <1>13, <1>14, SoundIs

LEMMA KeepsCreate ==
  ASSUME TypeInv, Room', Spared, Create, Sound
  PROVE  Sound'
<1>1. PICK p \in NewFiles, size \in Sizes, s \in Data :
        /\ MayAdd(p) /\ FirstFit(s, Blocks(size))
        /\ ents' = [ents EXCEPT ![file_count] = NewEntry(p, "file", s, size)]
        /\ bitmap' = bitmap \cup Run(s, Blocks(size))
        /\ file_count' = file_count + 1
        /\ Do("create", SaveHeader(file_count + 1) \o SaveEntries(ents', file_count, file_count + 1)
                          \o SaveBitmap(bitmap') \o SaveData(s, Blocks(size), LAMBDA k : Zero))
        /\ written' = written \ {p}
  BY Zenon DEF Create, NewSlot
<1> DEFINE i == file_count
           m == i + 1
           n == Blocks(size)
           e == NewEntry(p, "file", s, size)
           es == ents'
           b == bitmap'
           s1 == SaveHeader(m)
           s2 == SaveEntries(es, i, m)
           s3 == SaveBitmap(b)
           t1 == s1 \o s2 \o s3
           t2 == SaveData(s, n, LAMBDA k : Zero)
           T == Sectors \X Content
           d == disk
           d1 == After(d, t1)
           d2 == After(d, t1 \o t2)
<1>2. May /\ UNCHANGED disk
  BY CreateCall DEF Do
<1>3. /\ ents \in [Slots -> Placed] /\ ents \in [Slots -> Record] /\ file_count \in 0 .. MaxFiles
      /\ ~strayed /\ Kept(file_count, ents, bitmap, written, d)
      /\ bitmap \in SUBSET Data
  BY <1>2, SettledNow
<1>4. e \in Placed /\ e \in Record /\ n \in Nat /\ s \in Int /\ Run(s, n) \subseteq Data /\ p \in Paths
  <2>1. p \in Paths
    BY PathAssumption
  <2> HIDE DEF e, n
  <2>2. e \in Placed /\ n \in Nat /\ s \in Int /\ Run(s, n) \subseteq Data
    BY <1>1, <1>3, <2>1, NewFilePlaced DEF e, n
  <2> QED BY <2>1, <2>2, PlacedIs
<1>5. e.path = p /\ e.type = "file" /\ e.start = s /\ e.size = size /\ Extent(e) = Run(s, n)
  <2>1. e.path = p /\ e.type = "file" /\ e.start = s /\ e.size = size
    BY DEF NewEntry
  <2> HIDE DEF e
  <2> QED BY <2>1, Zenon DEF Extent
<1>6. /\ i \in Nat /\ m \in Nat /\ i <= m /\ m <= MaxFiles /\ m \in 0 .. MaxFiles /\ i \in Slots
      /\ i .. m - 1 = {i} /\ i < MaxFiles
  BY <1>1, <1>3, LayoutAssumption DEF MayAdd, Slots
<1>7. es \in [Slots -> Placed] /\ es = [ents EXCEPT ![i] = e]
  <2>1. es = [ents EXCEPT ![i] = e]
    BY <1>1
  <2> HIDE DEF e, es
  <2> QED BY <1>3, <1>4, <1>6, <2>1
<1>8. b \in SUBSET Data /\ b = bitmap \cup Run(s, n)
  BY <1>1, <1>3, <1>4
<1>9. Run(s, n) \cap bitmap = {}
  BY <1>1 DEF FirstFit, Fits
<1>10. written' = written \ {p} /\ todo' = t1 \o t2 /\ file_count' = m
  BY <1>1, Zenon DEF Do
<1> HIDE DEF e, n, es, b
<1>11. s1 \in Seq(T) /\ \A w \in Elems(s1) : w[1] = 0
  <2>1. <<0, Header(m)>> \in T
    BY <1>6, SavesTyped
  <2> HIDE DEF m, T
  <2>2. s1 \in Seq(T) /\ Elems(s1) = {<<0, Header(m)>>}
    BY <2>1, SavesAre
  <2> QED BY <2>2
<1>12. s2 \in Seq(T) /\ \A w \in Elems(s2) : w[1] = EntrySector(i)
  <2>1. \A j \in Slots : Row(es, j) \in T
    BY <1>7, RowTyped
  <2>2. \A w \in RowsOf(es, i, m) : w[1] = EntrySector(i)
    <3> HIDE DEF i, m
    <3> QED BY <1>6 DEF RowsOf, Row
  <2> HIDE DEF i, m, T
  <2>3. s2 \in Seq(T) /\ Elems(s2) = RowsOf(es, i, m)
    BY <1>6, <2>1, SaveEntriesIs
  <2> QED BY <2>2, <2>3
<1>13. s3 \in Seq(T) /\ \A w \in Elems(s3) : w[1] = BitmapSector
  <2>1. <<BitmapSector, Bitmap(b)>> \in T
    BY <1>8, SavesTyped
  <2> HIDE DEF T
  <2>2. s3 \in Seq(T) /\ Elems(s3) = {<<BitmapSector, Bitmap(b)>>}
    BY <2>1, SavesAre
  <2> QED BY <2>2
<1>14. t1 \in Seq(T) /\ \A w \in Elems(t1) : w[1] = 0 \/ w[1] = EntrySector(i) \/ w[1] = BitmapSector
  <2> HIDE DEF s1, s2, s3, T, i
  <2> DEFINE a == s1 \o s2
  <2>1. a \in Seq(T) /\ Elems(a) = Elems(s1) \cup Elems(s2)
    BY <1>11, <1>12, ElemsOfConcat
  <2> HIDE DEF a
  <2>2. a \o s3 \in Seq(T) /\ Elems(a \o s3) = Elems(a) \cup Elems(s3)
    BY <1>13, <2>1, ElemsOfConcat
  <2>3. t1 = a \o s3
    BY DEF a
  <2> HIDE DEF t1
  <2> QED BY <1>11, <1>12, <1>13, <2>1, <2>2, <2>3
<1> HIDE DEF t1
<1>15. /\ t2 \in Seq(T)
       /\ \A k \in 1 .. n : After(d1, t2)[s + k - 1] = Zero
       /\ \A r \in Sectors \ Run(s, n) : After(d1, t2)[r] = d1[r]
  <2> DEFINE x == [k \in 1 .. n |-> Zero]
  <2>1. \A k \in 1 .. n : x[k] = Zero
    OBVIOUS
  <2>5. \A k \in 1 .. n : x[k] \in Content
    BY ContentMade
  <2> HIDE DEF x
  <2>2. IsData(t2, s, n, x)
    BY <2>1, <2>5 DEF SaveData, IsList, IsData
  <2> HIDE DEF t2, d1
  <2>3. t2 \in Seq(Sectors \X Content) /\ Landed(After(d1, t2), d1, s, n, x)
    BY <1>4, <2>2, DataWritten, Zenon
  <2> QED BY <2>1, <2>3 DEF Landed
<1>16. d2 = After(d1, t2)
  <2> HIDE DEF t2, T
  <2> QED BY <1>14, <1>15, AfterConcat
<1>17. \A r \in Data : r \in Sectors /\ r # 0 /\ r # EntrySector(i)
  <2>1. i \in Rows
    BY <1>6, <1>10, LayoutAssumption DEF Room, Rows, EntrySector
  <2> QED BY <2>1, RowsAre, Layout
<1>18. \A r \in Data : r # BitmapSector => d1[r] = d[r]
  <2> HIDE DEF T, i
  <2> QED BY <1>14, <1>17, AfterWrites
<1>19. ASSUME NEW j \in 0 .. i - 1, ents[j].type = "file" PROVE \A r \in Extent(ents[j]) : d2[r] = d[r]
  <2>1. j \in Files
    BY <1>19 DEF Files, Live
  <2>2. Extent(ents[j]) \subseteq bitmap /\ Extent(ents[j]) \subseteq Data
    BY <1>3, <1>19, <2>1, FilesAre DEF Kept, InFull
  <2>3. BitmapSector \notin Extent(ents[j])
    BY <1>3, <2>1 DEF Spared
  <2> HIDE DEF d2, d1, t2, d
  <2> QED BY <1>9, <1>15, <1>16, <1>17, <1>18, <2>2, <2>3
<1>20. Filled(e, written \ {p}, d2)
  <2>1. \A k \in 1 .. n : d2[s + k - 1] = Zero
    BY <1>15, <1>16
  <2> HIDE DEF d2
  <2> QED BY <1>5, <2>1 DEF Filled, n
<1>21. \A j \in 0 .. i - 1 : ents[j].path # e.path
  BY <1>1, <1>5, Zenon DEF MayAdd, Has, Live
<1>22. Kept(m, [ents EXCEPT ![i] = e], b, written \ {p}, d2)
  <2> DEFINE w == written
             w2 == written \ {p}
             b1 == bitmap
             es1 == ents
  <2>1. \A q : q # e.path => (q \in w2 <=> q \in w)
    BY <1>5
  <2>2. /\ b1 \subseteq b /\ Extent(e) \subseteq b /\ Extent(e) \cap b1 = {} /\ Filled(e, w2, d2)
    BY <1>5, <1>8, <1>9, <1>20
  <2>3. /\ Kept(i, es1, b1, w, d) /\ es1 \in [Slots -> Record] /\ i \in 0 .. MaxFiles /\ i < MaxFiles
        /\ \A j \in 0 .. i - 1 : es1[j].path # e.path
        /\ \A j \in 0 .. i - 1 : es1[j].type = "file" => \A r \in Extent(es1[j]) : d2[r] = d[r]
    BY <1>3, <1>6, <1>19, <1>21
  <2> HIDE DEF w, w2, b1, es1, i, d, d2
  <2>4. Kept(i + 1, [es1 EXCEPT ![i] = e], b, w2, d2)
    BY <1>4, <2>1, <2>2, <2>3, KeptAdd
  <2> QED BY <2>4 DEF w2, es1
<1>23. After(disk', todo') = d2
  BY <1>2, <1>10
<1> HIDE DEF d2, m, i
<1> QED BY <1>7, <1>10, <1>22, <1>23, SoundIs DEF es, b

\* What the loop of a delete has done to the files, in one form for directories and files.
MovesFiles(m, i) ==
  Relocated(file_count, ents, i, m.ents, m.bitmap, disk, After(disk, m.todo))

LEMMA MovedKeeps ==
  ASSUME TypeInv, May, Sound, InOrder, NEW i \in Live, ents[i].path \in Paths
  PROVE  ~Strays(ents[i], i) /\ MovesFiles(Moved(ents[i], i), i)
<1> DEFINE n == file_count
           m == Moved(ents[i], i)
<1>1. /\ ~strayed /\ ents \in [Slots -> Placed] /\ disk \in [Sectors -> Content] /\ n \in 0 .. MaxFiles
      /\ Kept(n, ents, bitmap, written, disk)
  BY SettledNow
<1>2. Apart /\ Marked
  BY <1>1 DEF Kept, Disjoint, InFull, Apart, Marked, Files, Live
<1>3. i \in Slots /\ Live \subseteq Slots
  BY <1>1, FilesAre
<1>4. ents[i].type = "dir" \/ ents[i].type = "file"
  <2>1. ents[i] \in Placed
    BY <1>1, <1>3
  <2> QED BY <2>1, PathAssumption DEF Placed, EntryType
<1>5. CASE ents[i].type = "dir"
  <2>1. m.ents = ents /\ m.bitmap = bitmap /\ m.todo = <<>>
    BY <1>5 DEF Moved
  <2>2. After(disk, m.todo) = disk
    BY <1>1, <2>1, Layout, AfterOne
  <2>3. ~Strays(ents[i], i)
    BY <1>5 DEF Strays
  <2> HIDE DEF m
  <2>4. MovesFiles(m, i)
    BY <1>1, <2>1, <2>2 DEF MovesFiles, Relocated, Kept, InFull, Disjoint, Live
  <2> QED BY <2>3, <2>4 DEF m
<1>6. CASE ents[i].type = "file"
  <2>1. i \in Files /\ m = Compact(ents[i], i)
    BY <1>6 DEF Files, Moved
  <2>2. ~Strays(ents[i], i) /\ m \in Work(Data) /\ Stage(m, n, i)
    BY <1>1, <1>2, <2>1, CompactIs
  <2>3. \A j \in Slots : Same(m.ents[j], ents[j])
    BY <1>1, MovedIs
  <2> HIDE DEF m
  <2>4. After(disk, m.todo) = m.disk
    BY <2>2 DEF Stage, Told
  <2>5. ASSUME NEW j \in Live \ {i}, ents[j].type = "file"
        PROVE  /\ Extent(m.ents[j]) = Run(Pos(j, n, i), Blocks(ents[j].size))
               /\ m.ents[j].start = Pos(j, n, i) /\ j \in Files \ {i}
               /\ Brought(m, j, ents[j].start, Pos(j, n, i), Blocks(ents[j].size))
    <3>1. j \in Files \ {i} /\ j \in Slots
      BY <1>3, <2>5 DEF Files
    <3>2. /\ m.ents[j].start = Pos(j, n, i)
          /\ Brought(m, j, ents[j].start, Pos(j, n, i), Blocks(ents[j].size))
      BY <2>2, <3>1 DEF Stage
    <3>3. m.ents[j].size = ents[j].size
      BY <2>3, <3>1 DEF Same
    <3> QED BY <3>1, <3>2, <3>3, Zenon DEF Extent
  <2>6. ASSUME NEW j \in Files \ {i}, NEW k \in Files \ {i}, j < k
        PROVE  Run(Pos(j, n, i), Blocks(ents[j].size)) \cap Run(Pos(k, n, i), Blocks(ents[k].size)) = {}
    <3> DEFINE a == Pos(j, n, i)
               b == Pos(k, n, i)
               x == Blocks(ents[j].size)
               y == Blocks(ents[k].size)
    <3>1. a + x <= b
      BY <1>1, <1>2, <2>1, <2>6, PosOrdered
    <3>2. a \in Int /\ b \in Int /\ x \in Nat /\ y \in Nat
      <4>1. /\ ents[j].start \in Int /\ ents[k].start \in Int /\ Blocks(ents[i].size) \in Nat
            /\ x \in Nat /\ y \in Nat
        BY <1>1, <2>1, FilesAre
      <4> QED BY <4>1 DEF Pos
    <3> HIDE DEF a, b, x, y
    <3>3. Run(a, x) \cap Run(b, y) = {}
      BY <3>1, <3>2, RunsApart
    <3> QED BY <3>3 DEF a, b, x, y
  <2>7. \A j \in Files : j \in Nat
    BY <1>1, FilesAre
  <2>8. ASSUME NEW j \in Live \ {i}, NEW k \in Live \ {i},
               ents[j].type = "file", ents[k].type = "file", j # k
        PROVE  Extent(m.ents[j]) \cap Extent(m.ents[k]) = {}
    <3>1. j \in Files \ {i} /\ k \in Files \ {i} /\ (j < k \/ k < j)
      BY <2>5, <2>7, <2>8
    <3>2. Run(Pos(j, n, i), Blocks(ents[j].size)) \cap Run(Pos(k, n, i), Blocks(ents[k].size)) = {}
      BY <2>6, <3>1
    <3> QED BY <2>5, <2>8, <3>2
  <2>9. ASSUME NEW j \in Live \ {i}, ents[j].type = "file"
        PROVE  /\ Extent(m.ents[j]) \subseteq m.bitmap
               /\ \A k \in 1 .. Blocks(ents[j].size) :
                    After(disk, m.todo)[m.ents[j].start + k - 1] = disk[ents[j].start + k - 1]
    BY <2>4, <2>5, <2>9 DEF Brought
  <2>10. MovesFiles(m, i)
    BY <2>8, <2>9, Zenon DEF MovesFiles, Relocated, Live
  <2> QED BY <2>2, <2>10 DEF m
<1> QED BY <1>4, <1>5, <1>6

\* The metadata that a delete saves last changes no sector of a file.
SavedApart(d2, d) == \A r \in Data \ {BitmapSector} : d2[r] = d[r]

LEMMA DeleteSaves ==
  ASSUME NEW t \in Seq(Sectors \X Content), NEW es \in [Slots -> Placed], NEW i \in Slots,
         NEW last \in Slots, i <= last, last + 1 < DataStart, NEW b \in SUBSET Data, NEW type, NEW d
  PROVE  SavedApart(After(d, DeleteWrites(t, es, i, last, b, type)), After(d, t))
<1> DEFINE T == Sectors \X Content
           to == last + 1
           s1 == SaveHeader(last)
           s2 == SaveFrom(es, i, last)
           s3 == IF type = "file" THEN SaveBitmap(b) ELSE <<>>
<1>1. /\ i \in Nat /\ last \in Nat /\ to \in Nat /\ i <= to /\ to <= MaxFiles
      /\ last \in 0 .. MaxFiles
  BY LayoutAssumption DEF Slots
<1>2. s1 \in Seq(T) /\ \A w \in Elems(s1) : w[1] = 0
  <2>1. <<0, Header(last)>> \in T
    BY <1>1, SavesTyped
  <2> HIDE DEF T
  <2>2. s1 \in Seq(T) /\ Elems(s1) = {<<0, Header(last)>>}
    BY <2>1, SavesAre
  <2> QED BY <2>2
<1>3. s2 \in Seq(T) /\ \A w \in Elems(s2) : \E j \in i .. to - 1 : w[1] = EntrySector(j)
  <2>1. \A j \in Slots : Row(es, j) \in T
    BY RowTyped
  <2>2. \A w \in RowsOf(es, i, to) : \E j \in i .. to - 1 : w[1] = EntrySector(j)
    <3> HIDE DEF to
    <3> QED BY DEF RowsOf, Row
  <2>3. s2 = SaveEntries(es, i, to)
    BY DEF SaveFrom
  <2> HIDE DEF T, to, s2
  <2>4. SaveEntries(es, i, to) \in Seq(T) /\ Elems(SaveEntries(es, i, to)) = RowsOf(es, i, to)
    BY <1>1, <2>1, SaveEntriesIs
  <2> QED BY <2>2, <2>3, <2>4
<1>4. s3 \in Seq(T) /\ \A w \in Elems(s3) : w[1] = BitmapSector
  <2>1. CASE type = "file"
    <3>1. <<BitmapSector, Bitmap(b)>> \in T
      BY SavesTyped
    <3> HIDE DEF T
    <3>2. SaveBitmap(b) \in Seq(T) /\ Elems(SaveBitmap(b)) = {<<BitmapSector, Bitmap(b)>>}
      BY <3>1, SavesAre
    <3> QED BY <2>1, <3>2
  <2>2. CASE type # "file"
    <3>1. s3 = <<>>
      BY <2>2
    <3> HIDE DEF s3
    <3> QED BY <3>1, NoElem
  <2> QED BY <2>1, <2>2
<1>5. \A r \in Data : r \in Sectors /\ r # 0 /\ \A j \in i .. to - 1 : r # EntrySector(j)
  <2>1. \A j \in i .. to - 1 : j \in Rows
    BY <1>1, LayoutAssumption DEF Rows, Slots, EntrySector
  <2> HIDE DEF to
  <2> QED BY <2>1, RowsAre, Layout
<1> DEFINE a == t \o s1
           c == a \o s2
           all == c \o s3
<1>6. all = DeleteWrites(t, es, i, last, b, type)
  BY Zenon DEF DeleteWrites
<1> HIDE DEF s1, s2, s3, to, T
<1>7. t \in Seq(T)
  BY DEF T
<1>8. /\ a \in Seq(T) /\ c \in Seq(T)
      /\ After(d, a) = After(After(d, t), s1) /\ After(d, c) = After(After(d, a), s2)
      /\ After(d, all) = After(After(d, c), s3)
  <2>1. a \in Seq(T) /\ After(d, a) = After(After(d, t), s1)
    BY <1>2, <1>7, ElemsOfConcat, AfterConcat
  <2> HIDE DEF a
  <2>2. c \in Seq(T) /\ After(d, c) = After(After(d, a), s2)
    BY <1>3, <2>1, ElemsOfConcat, AfterConcat
  <2> HIDE DEF c
  <2>3. After(d, all) = After(After(d, c), s3)
    BY <1>4, <2>2, AfterConcat
  <2> QED BY <2>1, <2>2, <2>3
<1> HIDE DEF a, c, all
<1>9. ASSUME NEW r \in Data \ {BitmapSector} PROVE After(d, all)[r] = After(d, t)[r]
  <2>1. After(d, a)[r] = After(d, t)[r]
    <3>1. r \in Sectors /\ \A w \in Elems(s1) : w[1] # r
      BY <1>2, <1>5
    <3> QED BY <1>2, <1>8, <3>1, AfterWrites
  <2>2. After(d, c)[r] = After(d, a)[r]
    <3>1. r \in Sectors /\ \A w \in Elems(s2) : w[1] # r
      BY <1>3, <1>5
    <3> QED BY <1>3, <1>8, <3>1, AfterWrites
  <2>3. After(d, all)[r] = After(d, c)[r]
    <3>1. r \in Sectors /\ \A w \in Elems(s3) : w[1] # r
      BY <1>4, <1>5
    <3> QED BY <1>4, <1>8, <3>1, AfterWrites
  <2> QED BY <2>1, <2>2, <2>3
<1> QED BY <1>6, <1>9 DEF SavedApart

LEMMA KeepsDelete ==
  ASSUME TypeInv, Room, Spared', Delete, Sound, InOrder
  PROVE  Sound'
<1>1. PICK p \in Paths \ {Root} : LET i == IndexOf(p)
                                      last == file_count - 1
                                      m == Moved(ents[i], i)
                                  IN
        /\ Has(p) /\ (ents[i].type = "dir" => Childless(i))
        /\ ents' = Fill(m.ents, i, last)
        /\ bitmap' = m.bitmap
        /\ file_count' = last
        /\ Do("delete", m.todo \o SaveHeader(last) \o SaveFrom(ents', i, last)
                          \o (IF ents[i].type = "file" THEN SaveBitmap(bitmap') ELSE <<>>))
        /\ written' = written \ {p}
        /\ strayed' = Strays(ents[i], i)
  BY Zenon DEF Delete, Moved, Strays
<1> DEFINE i == IndexOf(p)
           n == file_count
           last == n - 1
           m == Moved(ents[i], i)
           es == m.ents
           t == m.todo
           new == ents'
           b == bitmap'
           type == ents[i].type
           d == disk
           d1 == After(d, t)
           d2 == After(d, DeleteWrites(t, new, i, last, b, type))
<1>2. May /\ UNCHANGED disk
  BY DeleteCall DEF Do
<1>3. /\ ents \in [Slots -> Record] /\ n \in 0 .. MaxFiles /\ ~strayed
      /\ Kept(n, ents, bitmap, written, d)
  BY <1>2, SettledNow
<1>4. i \in Live /\ i \in Slots /\ ents[i].path = p /\ p \in Paths
  BY <1>1, <1>3, IndexOfIs
<1>5. /\ new = Fill(es, i, last) /\ b = m.bitmap /\ file_count' = last /\ written' = written \ {p}
      /\ strayed' = Strays(ents[i], i)
      /\ todo' = DeleteWrites(t, new, i, last, b, type)
  BY <1>1, Zenon DEF Do, DeleteWrites
<1> HIDE DEF i
<1>6. /\ i \in Nat /\ i <= last /\ last \in Slots /\ last + 1 < DataStart /\ n \in 1 .. MaxFiles
      /\ i \in 0 .. n - 1 /\ 0 .. last - 1 \subseteq Slots
  BY <1>3, <1>4, LayoutAssumption DEF Live, Slots, Room
<1>7. ~Strays(ents[i], i) /\ MovesFiles(m, i)
  BY <1>2, <1>4, MovedKeeps
<1>8. /\ es \in [Slots -> Placed] /\ es \in [Slots -> Record] /\ b \in SUBSET Data
      /\ t \in Seq(Data \X Content) /\ \A j \in Slots : Same(es[j], ents[j])
  BY <1>3, <1>4, <1>5, <1>7, MovedIs, Zenon
<1>9. t \in Seq(Sectors \X Content)
  <2>1. Data \X Content \subseteq Sectors \X Content
    BY Layout
  <2> HIDE DEF t
  <2> QED BY <1>8, <2>1, SeqMonotonic
<1>10. new \in [Slots -> Placed] /\ new \in [Slots -> Record]
  <2> HIDE DEF es, new, last
  <2>1. new \in [Slots -> Placed]
    BY <1>4, <1>5, <1>6, <1>8, FillIs
  <2> QED BY <1>4, <1>5, <1>6, <1>8, <2>1, FillIs
<1>11. Relocated(n, ents, i, es, b, d, d1) /\ SameTable(es, ents)
  BY <1>5, <1>7, <1>8, Zenon DEF MovesFiles, SameTable
<1> HIDE DEF m, es, t, new, b, d1, d2, type
<1>12. Kept(last, new, b, written \ {p}, d1)
  <2> DEFINE w == written
             es1 == ents
             b1 == bitmap
  <2>1. /\ Kept(n, es1, b1, w, d) /\ es1 \in [Slots -> Record] /\ es1[i].path = p
        /\ Relocated(n, es1, i, es, b, d, d1) /\ SameTable(es, es1)
    BY <1>3, <1>4, <1>11
  <2> HIDE DEF w, es1, b1, d, n
  <2>2. Kept(n - 1, Fill(es, i, n - 1), b, w \ {es1[i].path}, d1)
    <3>1. n \in 1 .. MaxFiles /\ i \in 0 .. n - 1 /\ es1[i].path \in Paths /\ es \in [Slots -> Record]
      BY <1>4, <1>6, <1>8, <2>1
    <3> QED BY <2>1, <3>1, KeptDelete
  <2> QED BY <1>5, <2>1, <2>2 DEF w
<1>13. \A r \in Data \ {BitmapSector} : d2[r] = d1[r]
  <2>1. i \in Slots /\ last \in Slots /\ i <= last /\ last + 1 < DataStart
    BY <1>4, <1>6
  <2> HIDE DEF last, d
  <2>2. SavedApart(After(d, DeleteWrites(t, new, i, last, b, type)), After(d, t))
    <3>1. new \in [Slots -> Placed] /\ b \in SUBSET Data
      BY <1>8, <1>10
    <3> QED BY <1>9, <2>1, <3>1, DeleteSaves
  <2> QED BY <2>2 DEF d1, d2, SavedApart
<1>14. \A j \in 0 .. last - 1 : new[j].type = "file" => \A r \in Extent(new[j]) : d2[r] = d1[r]
  <2> SUFFICES ASSUME NEW j \in 0 .. last - 1, new[j].type = "file"
               PROVE  \A r \in Extent(new[j]) : d2[r] = d1[r]
    OBVIOUS
  <2>1. Extent(new[j]) \subseteq Data
    <3>1. new[j] \in Placed
      BY <1>6, <1>10
    <3> QED BY <3>1 DEF Placed
  <2>2. BitmapSector \notin Extent(new[j])
    <3>1. j \in Files'
      BY <1>5 DEF Files, Live, new
    <3>2. \A k \in Files' : BitmapSector \notin Extent(new[k])
      BY <1>5, <1>7 DEF Spared, new
    <3> QED BY <3>1, <3>2
  <2> QED BY <1>13, <2>1, <2>2
<1>15. Kept(last, new, b, written \ {p}, d2)
  <2>1. last \in 0 .. MaxFiles
    BY <1>6, LayoutAssumption DEF Slots
  <2> HIDE DEF last
  <2> QED BY <1>10, <1>12, <1>14, <2>1, KeptSame
<1>16. After(disk', todo') = d2
  BY <1>2, <1>5 DEF d2, d
<1> QED BY <1>5, <1>15, <1>16, SoundIs DEF new, b

LEMMA KeepsFiles ==
  ASSUME TypeInv, TodoInv, Room, Room', Spared, Spared', Next,
         up, up', Sound, call' = "delete" => InOrder
  PROVE  Sound'
<1>1. ~Boot /\ ~PowerOff
  BY DEF Boot, PowerOff
<1>2. CASE Delete
  <2>1. call' = "delete"
    BY <1>2, DeleteCall DEF Do
  <2> QED BY <1>2, <2>1, KeepsDelete
<1> QED BY <1>1, <1>2, KeepsFlush, KeepsMkdir, KeepsCreate, KeepsWrite DEF Next

\* As long as the entries in use are not stored in data sectors, nor the bitmap in a sector
\* of a file, a call keeps every other file's contents, and its sectors its own and marked,
\* if no path has two entries; of a delete this is only so while the table lists the files
\* in the order in which they lie on the disk (xcfs.c:275, 287-295, 322-345).
THEOREM FilesAreKept == Spec /\ []Room /\ []Spared => FilesKept
<1>1. /\ TypeInv /\ TodoInv /\ Room /\ Room' /\ Spared /\ Spared' /\ [Next]_vars
      => [up /\ up' /\ Sound /\ (call' = "delete" => InOrder) => Sound']_vars
  <2> SUFFICES ASSUME TypeInv, TodoInv, Room, Room', Spared, Spared', [Next]_vars, vars' # vars,
                      up, up', Sound, call' = "delete" => InOrder
               PROVE  Sound'
    OBVIOUS
  <2>1. Next
    OBVIOUS
  <2> QED BY <2>1, KeepsFiles
<1> QED BY <1>1, TypeInvariance, PTL DEF Spec, FilesKept

\* On a disk whose data begins behind the sectors of the header, the table and the bitmap,
\* as long as the table fits, both hold: what is kept needs no more than this layout.
THEOREM FilesAreKeptApart == MaxFiles + 1 < DataStart => (Spec => FilesKept)
<1> SUFFICES ASSUME MaxFiles + 1 < DataStart PROVE Spec => FilesKept
  OBVIOUS
<1>1. TypeInv => Room /\ Spared
  <2> SUFFICES ASSUME TypeInv PROVE Room /\ Spared
    OBVIOUS
  <2>1. Room
    BY LayoutAssumption DEF TypeInv, Room
  <2>2. BitmapSector \notin Data
    BY LayoutAssumption DEF BitmapSector, Data
  <2>3. Spared
    BY <2>2, FilesAre DEF Spared
  <2> QED BY <2>1, <2>3
<1> QED BY <1>1, TypeInvariance, FilesAreKept, PTL
=============================================================================
