------------------------------- MODULE Files --------------------------------
(***************************************************************************)
(* The file system as its callers see it: the calls of                     *)
(* src/src/drivers/fs/xcfs.c on the table of entries in memory.  Xcfs is   *)
(* the same code with its sectors, its bitmap and its crashes; here an     *)
(* entry carries the data of its file, and the free sectors are one run,   *)
(* as Xcfs keeps them.  Numbered from 1, the root is entry 1.              *)
(*                                                                         *)
(* A path is a sequence of names, <<>> the root.  What a caller passes is  *)
(* a sequence of parts, from the root or from the working directory; its   *)
(* length is counted in parts.                                             *)
(***************************************************************************)
EXTENDS Integers, SequencesExt

CONSTANTS Names, Chars,        \* the parts of paths; the characters of files
          MaxPath,             \* XCFS_MAX_PATH - 1, in parts
          MaxFiles,            \* max_files: entries, the root among them
          Sectors, SectorSize, \* the data area, and characters in a sector
          Disks                \* the tables a disk may be mounted with

ASSUME FilesAssumption == /\ MaxPath \in Nat /\ MaxFiles \in Nat /\ Sectors \in Nat
                          /\ SectorSize \in Nat \ {0} /\ {"0", "x", "\n"} \subseteq Chars

VARIABLES ents, cwd     \* g_ent with file_count, g_ctx.cwd

filesVars == <<ents, cwd>>

Root == <<>>
NoPath == <<"">>        \* what is no path of an entry
Up(p) == IF p = Root THEN p ELSE Front(p)
Zeros(n) == [k \in 1 .. n |-> "0"]

-----------------------------------------------------------------------------
(* Paths. *)

Joined(arg) == IF arg.abs THEN arg.parts ELSE cwd \o arg.parts
TooLong(arg) == Len(Joined(arg)) > MaxPath
Into(at, part) == CASE part = "."  -> at
                    [] part = ".." -> Up(at)
                    [] OTHER       -> Append(at, part)
Normal(arg) == FoldLeft(Into, Root, Joined(arg))

\* np returns without an answer when the path is too long, and its caller
\* reads what its stack holds: a path that some call left there, or none.
Norms(arg) == IF TooLong(arg) THEN {ents[i].path : i \in DOMAIN ents} \cup {NoPath}
              ELSE {Normal(arg)}

Find(e, p) == IF \E i \in DOMAIN e : e[i].path = p
              THEN CHOOSE i \in DOMAIN e : /\ e[i].path = p
                                           /\ \A j \in 1 .. i - 1 : e[j].path # p
              ELSE 0
Parent(e, p) == CASE p = NoPath -> 0
                  [] p = Root   -> 1
                  [] OTHER      -> Find(e, Front(p))

IsFile(e, i) == i # 0 /\ ~e[i].dir
IsDir(e, i)  == i # 0 /\ e[i].dir

-----------------------------------------------------------------------------
(* The calls: what they make of the table e. *)

SectorsOf(n) == IF n = 0 THEN 1 ELSE (n + SectorSize - 1) \div SectorSize
Used(e) == FoldLeft(LAMBDA n, f : IF f.dir THEN n ELSE n + SectorsOf(Len(f.data)), 0, e)

MayAdd(e, p)       == Len(e) < MaxFiles /\ Find(e, p) = 0 /\ Parent(e, p) # 0
MayCreate(e, p, n) == MayAdd(e, p) /\ Used(e) + SectorsOf(n) <= Sectors

Entry(e, p, dir, data) == [path |-> p, dir |-> dir, parent |-> Parent(e, p), data |-> data]
MadeDir(e, p)     == Append(e, Entry(e, p, TRUE, <<>>))
Created(e, p, n)  == Append(e, Entry(e, p, FALSE, Zeros(n)))

MayDelete(e, i) == /\ i > 1
                   /\ e[i].dir => \A j \in DOMAIN e \ {i} : e[j].parent # i
DropLast(e, i) == Front(e)                 \* mutant: the last entry goes instead
\* The last entry takes the slot, and its children follow it.
Drop(e, i) == LET last == Len(e)
                  fill == [e EXCEPT ![i] = e[last]]
                  Follow(f) == IF i # last /\ f.parent = last
                               THEN [f EXCEPT !.parent = i] ELSE f
              IN  [k \in 1 .. last - 1 |-> Follow(fill[k])]
Chdir(e, p) == IF IsDir(e, Find(e, p)) THEN p ELSE cwd
Deleted(e, p) == LET i == Find(e, p) IN IF MayDelete(e, i) THEN Drop(e, i) ELSE e

\* A read or a write ends at the first sector that the disk fails.
Upto(s, n) == SubSeq(s, 1, n)
Reads(e, p, n) ==
  LET i == Find(e, p)
      m == IF n < Len(e[i].data) THEN n ELSE Len(e[i].data)
  IN  IF ~IsFile(e, i) THEN {[ok |-> FALSE, data |-> <<>>]}
      ELSE {[ok |-> TRUE, data |-> Upto(e[i].data, m)]} \cup
           {[ok |-> FALSE, data |-> Upto(e[i].data, k)] :
               k \in {k \in 0 .. m - 1 : k % SectorSize = 0}}

Written(old, new, k) == Upto(new, k) \o SubSeq(old, k + 1, Len(old))
Writes(e, p, d) ==
  LET i == Find(e, p)
      Left(k) == [e EXCEPT ![i].data = Written(@, d, k)]
  IN  IF ~IsFile(e, i) \/ Len(d) > Len(e[i].data) THEN {[ok |-> FALSE, ents |-> e]}
      ELSE {[ok |-> TRUE, ents |-> Left(Len(d))]} \cup
           {[ok |-> FALSE, ents |-> Left(k)] :
               k \in {k \in 0 .. Len(d) - 1 : k % SectorSize = 0}}

\* A table that some disk may hold.
Table == Seq([path : Seq(Names), dir : BOOLEAN, parent : 1 .. MaxFiles, data : Seq(Chars)])
ASSUME DisksAssumption ==
  \A e \in Disks : /\ e \in Table /\ Len(e) \in 1 .. MaxFiles /\ Used(e) <= Sectors
                   /\ \A i \in DOMAIN e : Len(e[i].path) <= MaxPath /\ e[i].path # NoPath
                   /\ e[1].dir /\ \A i, j \in DOMAIN e : e[i].path = e[j].path => i = j

FilesInit == ents \in Disks /\ cwd = Root
=============================================================================
