-------------------------------- MODULE Xcfs --------------------------------
(***************************************************************************)
(* The file system, src/src/drivers/fs/xcfs.c: a header, a table of        *)
(* entries and a bitmap, in memory and on the disk, and files that are     *)
(* runs of sectors.                                                        *)
(*                                                                         *)
(* Sectors are counted from the header on and sizes in sectors.  A call    *)
(* changes the memory at once and leaves in todo the sectors it writes, in *)
(* their order; the power may fail before any of them.  There is an entry  *)
(* to a sector, as in the code, and the bitmap fits in one.                *)
(***************************************************************************)
EXTENDS Integers, Sequences, FiniteSets

CONSTANTS Paths, Root, ParentOf,  \* normalized paths; the path before the last /
          MaxFiles,               \* max_files
          DataStart, Total,       \* data_start and the sectors in all
          NewDirs, NewFiles,      \* the paths given to mkdir and to create
          Sizes,                  \* sizes of files
          MaxBoots, MaxCalls,     \* bounds: starts of the machine, and calls
          NoPath                  \* the path of a cleared entry

ASSUME PathAssumption == /\ Root \in Paths /\ NoPath \notin Paths
                         /\ ParentOf \in [Paths -> Paths]
                         /\ NewDirs \cup NewFiles \subseteq Paths
ASSUME LayoutAssumption == /\ MaxFiles \in Nat \ {0} /\ Total \in Nat
                           /\ DataStart \in 1 .. Total /\ MaxFiles + 1 < Total
ASSUME SizeAssumption == Sizes \subseteq Nat /\ MaxBoots \in Nat /\ MaxCalls \in Nat

VARIABLES file_count, ents, bitmap,    \* the memory: g_hdr, g_ent, g_ctx
          disk,
          todo,       \* the writes still to be made: <<sector, contents>>
          up,         \* initialized
          boots, calls, \* starts and calls so far
          clean,      \* whether the power never failed in a call
          call,       \* the call that made the writes of todo
          written,    \* the files whose last contents came from a write
          strayed     \* a delete moved a file out of the data: the model stops

memory == <<file_count, ents, bitmap>>
vars   == <<memory, disk, todo, up, boots, calls, clean, call, written, strayed>>

Sectors == 0 .. Total - 1
Data    == DataStart .. Total - 1
Slots   == 0 .. MaxFiles - 1
EntrySector(i) == 1 + i
BitmapSector   == 1 + MaxFiles

Cleared == [path |-> NoPath, type |-> "none", start |-> 0, size |-> 0, parent |-> 0]
RootEntry == [Cleared EXCEPT !.path = Root, !.type = "dir"]

\* What a sector holds.
Zero       == [kind |-> "zero"]
Header(n)  == [kind |-> "header", count |-> n]
Entry(e)   == [kind |-> "entry", entry |-> e]
Bitmap(b)  == [kind |-> "bitmap", bits |-> b]
Part(p, i) == [kind |-> "data", of |-> p, part |-> i]

Blocks(size) == IF size = 0 THEN 1 ELSE size
Run(start, n) == start .. start + n - 1
Extent(e) == Run(e.start, Blocks(e.size))

---------------------------------------------------------------------------
\* fe, fp and bmp_find.

Live == 0 .. file_count - 1
Has(p) == \E i \in Live : ents[i].path = p
IndexOf(p) == CHOOSE i \in Live : /\ ents[i].path = p
                                  /\ \A j \in Live : ents[j].path = p => i <= j
FitsAnywhere(s, n) == Run(s, n) \cap bitmap = {}      \* mutant: past the end
Fits(s, n) == Run(s, n) \subseteq Data \ bitmap
FirstFit(s, n) == Fits(s, n) /\ \A t \in Data : Fits(t, n) => s <= t

\* Writes, in order.
SaveHeader(n) == <<<<0, Header(n)>>>>
SaveEntries(es, from, to) ==
  [k \in 1 .. to - from |-> <<EntrySector(from + k - 1), Entry(es[from + k - 1])>>]
SaveBitmap(b) == <<<<BitmapSector, Bitmap(b)>>>>
SaveData(start, n, x(_)) == [k \in 1 .. n |-> <<start + k - 1, x(k)>>]

Ready == up /\ todo = <<>>
May   == Ready /\ calls < MaxCalls /\ ~strayed
Do(name, writes) ==
  /\ todo' = writes /\ call' = name /\ calls' = calls + 1
  /\ UNCHANGED <<disk, up, boots, clean>>

---------------------------------------------------------------------------
\* xcfs_init and xcfs_format.

EntryOn(d, i) == IF d[EntrySector(i)].kind = "entry" THEN d[EntrySector(i)].entry ELSE Cleared
CountOn(d) == IF d[0].kind = "header" THEN d[0].count ELSE 0
BitmapOn(d) == IF d[BitmapSector].kind = "bitmap" THEN d[BitmapSector].bits ELSE {}

Format ==
  /\ file_count' = 1
  /\ ents' = [i \in Slots |-> IF i = 0 THEN RootEntry ELSE Cleared]
  /\ bitmap' = {}
  /\ todo' = SaveHeader(1) \o SaveEntries(ents', 0, 1) \o SaveBitmap({})
Load ==
  /\ file_count' = CountOn(disk)
  /\ ents' = [i \in Slots |-> IF i < CountOn(disk) THEN EntryOn(disk, i) ELSE Cleared]
  /\ bitmap' = BitmapOn(disk)
  /\ todo' = <<>>

Boot ==
  /\ ~up /\ boots < MaxBoots
  /\ IF disk[0].kind = "header" THEN Load ELSE Format
  /\ up' = TRUE /\ boots' = boots + 1 /\ call' = "init"
  /\ UNCHANGED <<disk, calls, clean, written, strayed>>

\* The disk takes the next write.
Flush ==
  /\ todo # <<>> /\ ~strayed
  /\ disk' = [disk EXCEPT ![Head(todo)[1]] = Head(todo)[2]]
  /\ todo' = Tail(todo)
  /\ UNCHANGED <<memory, up, boots, calls, clean, call, written, strayed>>

PowerOff ==
  /\ up /\ ~strayed
  /\ up' = FALSE /\ todo' = <<>> /\ call' = "off"
  /\ clean' = (clean /\ todo = <<>>)
  /\ file_count' = 0 /\ ents' = [i \in Slots |-> Cleared] /\ bitmap' = {}
  /\ UNCHANGED <<disk, boots, calls, written, strayed>>

---------------------------------------------------------------------------
\* xcfs_mkdir and xcfs_create: a new last entry.

SlotBefore(n) == n - 1                 \* mutant: the entry of another file
NewSlot(n) == n
NewEntry(p, type, start, size) ==
  [path |-> p, type |-> type, start |-> start, size |-> size,
   parent |-> IndexOf(ParentOf[p])]

\* The parent need not be a directory.
MayAddAnyway(p) == file_count < MaxFiles /\ Has(ParentOf[p])    \* mutant: no look-up
MayAdd(p) == file_count < MaxFiles /\ ~Has(p) /\ Has(ParentOf[p])

Mkdir ==
  /\ May
  /\ \E p \in NewDirs : LET i == NewSlot(file_count) IN
       /\ MayAdd(p)
       /\ ents' = [ents EXCEPT ![i] = NewEntry(p, "dir", 0, 0)]
       /\ file_count' = file_count + 1
       /\ Do("mkdir", SaveHeader(file_count + 1) \o SaveEntries(ents', i, i + 1))
  /\ UNCHANGED <<bitmap, written, strayed>>

Create ==
  /\ May
  /\ \E p \in NewFiles, size \in Sizes, s \in Data :
       LET i == NewSlot(file_count)
           n == Blocks(size)
       IN  /\ MayAdd(p) /\ FirstFit(s, n)
           /\ ents' = [ents EXCEPT ![i] = NewEntry(p, "file", s, size)]
           /\ bitmap' = bitmap \cup Run(s, n)
           /\ file_count' = file_count + 1
           /\ Do("create", SaveHeader(file_count + 1) \o SaveEntries(ents', i, i + 1)
                             \o SaveBitmap(bitmap') \o SaveData(s, n, LAMBDA k : Zero))
           /\ written' = written \ {p}
  /\ UNCHANGED strayed

\* xcfs_write of the whole file, as its callers do.
Write ==
  /\ May
  /\ \E p \in Paths : LET i == IndexOf(p)
                          e == ents[i]
       IN  /\ Has(p) /\ e.type = "file"
           /\ Do("write", SaveData(e.start, Blocks(e.size), LAMBDA k : Part(p, k))
                            \o SaveEntries(ents, i, i + 1))
           /\ written' = written \cup {p}
  /\ UNCHANGED <<memory, strayed>>

---------------------------------------------------------------------------
\* xcfs_delete.

\* The files that start behind the deleted one move down by its length, in the
\* order of the table.  m is what the loop has done so far: to the entries, the
\* bitmap and the disk.
WriteTo(m, s, x) ==
  [m EXCEPT !.disk = [@ EXCEPT ![s] = x], !.todo = Append(@, <<s, x>>)]
CopyBackwards(m, from, to, n) ==      \* mutant: the last sector first
  LET c[k \in 0 .. n] ==
        IF k = 0 THEN m ELSE WriteTo(c[k - 1], to + n - k, c[k - 1].disk[from + n - k])
  IN  c[n]
Copy(m, from, to, n) ==
  LET c[k \in 0 .. n] ==
        IF k = 0 THEN m ELSE WriteTo(c[k - 1], to + k - 1, c[k - 1].disk[from + k - 1])
  IN  c[n]
MoveDown(m, f, by) ==
  LET e   == m.ents[f]
      new == [e EXCEPT !.start = @ - by]
  IN  [Copy(m, e.start, new.start, Blocks(e.size)) EXCEPT
         !.ents = [@ EXCEPT ![f] = new],
         !.bitmap = (@ \ Extent(e)) \cup (Extent(new) \cap Data)]
Moves(e, gone) == e.type = "file" /\ e.start > gone.start
\* One that starts inside the deleted file moves to before where that began; there
\* may be no data there.
Astray(e, gone) == Moves(e, gone) /\ e.start - Blocks(gone.size) < DataStart
Compact(gone, at) ==
  LET m[f \in 0 .. file_count] ==
        IF f = 0 THEN [ents |-> ents, bitmap |-> bitmap \ Extent(gone),
                       disk |-> disk, todo |-> <<>>]
        ELSE IF f - 1 # at /\ Moves(m[f - 1].ents[f - 1], gone)
             THEN MoveDown(m[f - 1], f - 1, Blocks(gone.size))
             ELSE m[f - 1]
  IN  m[file_count]

\* The last entry takes the place of the deleted one, and its children follow it.
FillNoFollow(es, i, last) ==           \* mutant: the children do not follow
  [[es EXCEPT ![i] = es[last]] EXCEPT ![last] = Cleared]
Fill(es, i, last) ==
  [j \in Slots |->
     IF j = last THEN Cleared
     ELSE LET e == IF j = i THEN es[last] ELSE es[j]
          IN  IF i # last /\ j < last /\ e.parent = last THEN [e EXCEPT !.parent = i] ELSE e]

Childless(i) == \A j \in Live \ {i} : ents[j].parent # i

\* Of the entries, those from the deleted one on are saved.
SaveOne(es, i, last) == SaveEntries(es, last, last + 1)   \* mutant: the last one only
SaveFrom(es, i, last) == SaveEntries(es, i, last + 1)

Delete ==
  /\ May
  /\ \E p \in Paths \ {Root} :
       LET i    == IndexOf(p)
           gone == ents[i]
           last == file_count - 1
           m    == IF gone.type = "dir"
                   THEN [ents |-> ents, bitmap |-> bitmap, todo |-> <<>>]
                   ELSE Compact(gone, i)
       IN  /\ Has(p) /\ (gone.type = "dir" => Childless(i))
           /\ ents' = Fill(m.ents, i, last)
           /\ bitmap' = m.bitmap
           /\ file_count' = last
           /\ Do("delete", m.todo \o SaveHeader(last) \o SaveFrom(ents', i, last)
                             \o (IF gone.type = "file" THEN SaveBitmap(bitmap') ELSE <<>>))
           /\ written' = written \ {p}
           /\ strayed' = (gone.type # "dir" /\ \E f \in Live \ {i} : Astray(ents[f], gone))

---------------------------------------------------------------------------
Init ==
  /\ file_count = 0 /\ ents = [i \in Slots |-> Cleared] /\ bitmap = {}
  /\ disk = [s \in Sectors |-> Zero]
  /\ todo = <<>> /\ up = FALSE /\ boots = 0 /\ calls = 0 /\ clean = TRUE /\ call = "off"
  /\ written = {} /\ strayed = FALSE

Next == Boot \/ Flush \/ PowerOff \/ Mkdir \/ Create \/ Write \/ Delete
Spec == Init /\ [][Next]_vars

---------------------------------------------------------------------------
\* Properties.

EntryType == [path : Paths \cup {NoPath}, type : {"none", "dir", "file"},
              start : 0 .. Total, size : Sizes \cup {0}, parent : Slots]

TypeOK ==
  /\ file_count \in 0 .. MaxFiles
  /\ ~strayed => /\ ents \in [Slots -> EntryType]
                 /\ \A k \in DOMAIN todo : todo[k][1] \in Sectors
  /\ bitmap \subseteq Data
  /\ \A s \in Sectors : disk[s].kind \in {"zero", "header", "entry", "bitmap", "data"}
  /\ up \in BOOLEAN /\ clean \in BOOLEAN /\ strayed \in BOOLEAN /\ boots \in 0 .. MaxBoots /\ calls \in 0 .. MaxCalls
  /\ call \in {"off", "init", "mkdir", "create", "write", "delete"}
  /\ written \subseteq Paths

\* Unless the power has failed within a call, every path has one entry and the
\* root is the first, across deletes that move entries and across restarts: fe and
\* fp find the one entry there is (xcfs.c:74-94, 351-358).
NamesUnique ==
  up /\ clean => /\ ents[0].path = Root
                 /\ \A i \in Live : ents[i].path \in Paths
                 /\ \A i, j \in Live : i # j => ents[i].path # ents[j].path

Named(count, es) == {<<es[i].path, es[i].type, es[i].size>> : i \in 0 .. count - 1}
NamedOn(d) == Named(CountOn(d), [i \in Slots |-> EntryOn(d, i)])

\* Between two calls the disk knows every entry of the memory by its name, type and
\* size, although a delete saves a part of the table only (xcfs.c:360-363).
NamesSurvive == Ready /\ clean => NamedOn(disk) = Named(file_count, ents)

\* Whenever the power fails in a call other than a delete, the disk has lost no
\* entry that it had (xcfs.c:259-260, 289-295, 408-412).
CrashLosesNoName ==
  [][clean /\ call # "delete" =>
       NamedOn(disk) \ {<<NoPath, "none", 0>>} \subseteq NamedOn(disk')]_disk

\* A call leaves every parent_idx the index of the entry of the parent's path if
\* it was before and nothing lies below a file (xcfs.c:257, 283, 351-356).
Rooted == \A i \in Live : LET par == ents[i].parent IN
            /\ ents[i].path \in Paths /\ par \in Live
            /\ ents[par].path = ParentOf[ents[i].path]
Tree == Rooted /\ \A i \in Live : ents[ents[i].parent].type = "dir"
TreeKept == [][up /\ up' /\ Tree => Rooted']_ents

\* The disk once todo has been written.
Settled ==
  LET last(s) == {k \in DOMAIN todo : todo[k][1] = s}
  IN  [s \in Sectors |-> IF last(s) = {} THEN disk[s]
                         ELSE todo[CHOOSE k \in last(s) : \A j \in last(s) : j <= k][2]]
Files == {i \in Live : ents[i].type = "file"}
Holds(e) == \A k \in 1 .. Blocks(e.size) :
              Settled[e.start + k - 1] = IF e.path \in written THEN Part(e.path, k) ELSE Zero
Distinct == \A i, j \in Live : i # j /\ ents[i].path \in Paths => ents[i].path # ents[j].path
Sound ==
  /\ Distinct
  /\ \A i \in Files : Extent(ents[i]) \subseteq bitmap /\ Holds(ents[i])
  /\ \A i, j \in Files : i # j => Extent(ents[i]) \cap Extent(ents[j]) = {}
InOrder == \A i, j \in Files : i < j => ents[i].start < ents[j].start

\* A call keeps every other file's contents, and its sectors its own and marked, as
\* long as no path has two entries, which power failures in two calls may bring about;
\* of a delete this is only so while the table lists the files in the order in which
\* they lie on the disk (xcfs.c:275, 287-295, 322-345).
FilesKept ==
  [][up /\ up' /\ Sound /\ (call' = "delete" => InOrder) => Sound']_vars

\* extra/xcfs_inject.py:175-180 checks an image and reports an error for a sector
\* of a file that is not marked in the bitmap; here, of an image that is left
\* between two calls and was never cut off in one.
CheckFindsNothing ==
  Ready /\ clean =>
    \A i \in 0 .. CountOn(disk) - 1 : LET e == EntryOn(disk, i) IN
      e.type = "file" => Extent(e) \subseteq BitmapOn(disk)

\* Makefile:180-181 prints where the metadata of the file system ends and its data
\* begins: no sector of the data holds metadata.
LayoutApart == \A s \in Data : disk[s].kind \in {"zero", "data"}
=============================================================================
