------------------------------ MODULE Commands ------------------------------
(***************************************************************************)
(* The commands of src/src/kernel/cmd.c that reach files and memory, each  *)
(* a job whose steps are its calls: between two of them a process may look *)
(* at the files and the power may fail.  The save of the editor is a job   *)
(* of the same steps.                                                      *)
(***************************************************************************)
EXTENDS Files, FiniteSets

CONSTANTS Args,      \* paths on a command line
          Texts,     \* what echo is given to write
          Tests      \* num_tests: the blocks that memtest asks for

ASSUME ArgsAssumption == /\ Args \subseteq [abs : BOOLEAN, parts : Seq(Names)]
                         /\ Texts \subseteq Seq(Chars) /\ Tests \in Nat

VARIABLES job,       \* the command that runs
          held       \* blocks of the heap that it and its arguments hold

jobVars == <<job, held>>

NoArg == [abs |-> TRUE, parts |-> <<>>]
Idle == [cmd |-> "none", argc |-> 0, src |-> NoArg, dst |-> NoArg, data |-> <<>>,
         step |-> "none", ok |-> TRUE]

Step(s) == job.step = s
Goto(s) == job' = [job EXCEPT !.step = s]
End == job' = Idle /\ held' = held - job.argc         \* free_args of the shell
Job(cmd, argc, src, dst, step) ==
  [Idle EXCEPT !.cmd = cmd, !.argc = argc, !.src = src, !.dst = dst, !.step = step]
Start(j) == job' = j /\ held' = held + j.argc /\ UNCHANGED filesVars

-----------------------------------------------------------------------------
(* What a line starts.  A command without its arguments says how it is     *)
(* used, and so does one whose arguments found no memory.                  *)

Cat   == \E a \in Args : Start(Job("cat", 1, a, NoArg, "load"))
Cp    == \E a, b \in Args : Start(Job("cp", 2, a, b, "load"))
Mv    == \E a, b \in Args : Start(Job("mv", 2, a, b, "load"))
Echo  == \E b \in Args, t \in Texts : Start([Job("echo", 3, NoArg, b, "clear") EXCEPT !.data = t])
Touch == \E b \in Args : Start(Job("touch", 1, NoArg, b, "make"))
Rm    == \E a \in Args : Start(Job("rm", 1, a, NoArg, "remove"))
\* ls needs a table to list into; memtest and bench try the memory itself.
Ls      == \E a \in Args : Start(Job("ls", 1, a, NoArg, "take"))
Memtest == Start(Job("memtest", 0, NoArg, NoArg, "take"))
Bench   == Start(Job("bench", 0, NoArg, NoArg, "take"))

Cd == \E a \in Args \cup {NoArg} : \E p \in Norms(a) :
        /\ cwd' = Chdir(ents, p)
        /\ UNCHANGED <<ents, jobVars>>
Mkdir == \E a \in Args : \E p \in Norms(a) :
        /\ ents' = IF MayAdd(ents, p) THEN MadeDir(ents, p) ELSE ents
        /\ UNCHANGED <<cwd, jobVars>>
\* pwd, tree, uname, usage, an unknown name: what is printed is all there is.
Show == UNCHANGED <<filesVars, jobVars>>

-----------------------------------------------------------------------------
(* The steps. *)

\* The copy is over; mv goes on, whatever came of it.
After(ok, blocks) ==
  IF job.cmd = "mv"
  THEN job' = [job EXCEPT !.step = "remove", !.ok = ok, !.data = <<>>] /\ held' = held - blocks
  ELSE job' = Idle /\ held' = held - blocks - job.argc

KeepsBlock(ok) == After(ok, -1)            \* mutant: the buffer is not freed
GiveUp(ok) == After(ok, 0)

\* cat and cp: look, take a buffer, read.  An empty file is copied as one of
\* a character, which is what the buffer happened to hold.
Load ==
  /\ Step("load")
  /\ \E p, q \in Norms(job.src) :
       LET i == Find(ents, p)
           n == IF i # 0 /\ ents[i].data # <<>> THEN Len(ents[i].data) ELSE 1
       IN  \/ GiveUp(FALSE)                               \* no memory
           \/ i = 0 /\ GiveUp(FALSE)
           \/ /\ i # 0
              /\ \E r \in Reads(ents, q, n) :
                   \/ ~r.ok /\ GiveUp(FALSE)
                   \/ r.ok /\ job.cmd = "cat" /\ End
                   \/ /\ r.ok /\ job.cmd # "cat"
                      /\ \E junk \in [Len(r.data) + 1 .. n -> {"0", "x"}] :
                           job' = [job EXCEPT !.step = "clear", !.data =
                                     [k \in 1 .. n |-> IF k \in DOMAIN r.data THEN r.data[k]
                                                       ELSE junk[k]]]
                      /\ held' = held + 1
  /\ UNCHANGED filesVars

\* cp, echo and the save of the editor delete what bears the name.
Clear ==
  /\ Step("clear") /\ Goto("make")
  /\ \E p \in Norms(job.dst) : ents' = Deleted(ents, p)
  /\ UNCHANGED <<cwd, held>>

Buffer == IF job.cmd \in {"cp", "mv"} THEN 1 ELSE 0

\* The editor writes even if it could not create; the others do not.
Make ==
  /\ Step("make")
  /\ \E p \in Norms(job.dst) :
       LET may == MayCreate(ents, p, Len(job.data)) IN
       /\ ents' = IF may THEN Created(ents, p, Len(job.data)) ELSE ents
       /\ \/ /\ job.cmd = "save" \/ (may /\ job.cmd # "touch")
             /\ job' = [job EXCEPT !.step = "put", !.ok = may]
             /\ UNCHANGED held
          \/ /\ job.cmd # "save" /\ (~may \/ job.cmd = "touch")
             /\ After(may, Buffer)
  /\ UNCHANGED cwd

Put ==
  /\ Step("put")
  /\ \E p \in Norms(job.dst) : \E w \in Writes(ents, p, job.data) :
       /\ ents' = w.ents
       /\ IF job.cmd = "save"
          THEN job' = [job EXCEPT !.step = "saved", !.ok = @ /\ w.ok] /\ UNCHANGED held
          ELSE After(w.ok, Buffer)
  /\ UNCHANGED cwd

Unlink ==
  /\ Step("remove") /\ End
  /\ \E p \in Norms(job.src) : ents' = Deleted(ents, p)
  /\ UNCHANGED cwd

\* Each block may be refused; those that were given are used and freed.
Asked == IF job.cmd = "memtest" THEN Tests ELSE 1
Take ==
  /\ Step("take")
  /\ \E n \in 0 .. Asked :
       job' = [job EXCEPT !.step = "give", !.data = Zeros(n)] /\ held' = held + n
  /\ UNCHANGED filesVars
Give ==
  /\ Step("give")
  /\ job' = Idle /\ held' = held - Len(job.data) - job.argc
  /\ UNCHANGED filesVars

Begin   == Cat \/ Cp \/ Mv \/ Echo \/ Touch \/ Rm \/ Ls \/ Memtest \/ Bench
AtOnce  == Cd \/ Mkdir \/ Show
JobStep == Load \/ Clear \/ Make \/ Put \/ Unlink \/ Take \/ Give

CommandsInit == FilesInit /\ job = Idle /\ held = 0
=============================================================================
