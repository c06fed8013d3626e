-------------------------------- MODULE Shell -------------------------------
(***************************************************************************)
(* The shell, src/src/kernel/shell.c, with what it runs: a prompt, a line, *)
(* and the command the line names.  The words of a line are abstracted: it *)
(* may name any command with any arguments.                                *)
(***************************************************************************)
EXTENDS Editor, Console

CONSTANTS Outputs      \* what a command may print: none erases what it printed

ASSUME OutputsAssumption == /\ Outputs \subseteq Seq(Glyphs)
                            /\ \A out \in Outputs : \A k \in DOMAIN out : out[k] # "bs"

vars == <<filesVars, jobVars, editorVars, consoleVars>>

AtPrompt == job = Idle /\ ~editing
Prompt   == [k \in 1 .. 1 + Len(cwd') |-> "$"]     \* the longer the path, the longer it is

Init == /\ EditorInit
        /\ line = <<>> /\ pen = 1
        /\ screen = [Fill(" ") EXCEPT ![1] = "$"]

Typed == AtPrompt /\ (Type \/ Erase) /\ UNCHANGED <<filesVars, jobVars, editorVars>>

Entered == Printed(Con, <<"\n">>)
EmptyLine == /\ AtPrompt /\ line = <<>>
             /\ UNCHANGED <<filesVars, jobVars, editorVars>>
             /\ Prompted(Entered, Prompt)

May == AtPrompt /\ line # <<>>
RunAtOnce == /\ May /\ AtOnce /\ UNCHANGED editorVars
             /\ \E out \in Outputs : Prompted(Printed(Entered, out), Prompt)
ClearScreen == /\ May
               /\ UNCHANGED <<filesVars, jobVars, editorVars>>
               /\ Prompted(BlankCon, Prompt)
RunJob == /\ May /\ Begin /\ UNCHANGED editorVars
          /\ OnScreen(Entered) /\ line' = <<>>
DoJob == /\ JobStep /\ UNCHANGED editorVars
         /\ IF job' = Idle
            THEN \E out \in Outputs : Prompted(Printed(Con, out), Prompt)
            ELSE UNCHANGED consoleVars

\* The editor draws over the screen, and clears it when it is left.
Nano == May /\ Open /\ OnScreen(BlankCon) /\ line' = <<>>
Edit == Key /\ UNCHANGED consoleVars
DoSaved == Saved /\ UNCHANGED consoleVars
Leave == Quit /\ Prompted(BlankCon, Prompt)

\* reboot, or the power goes: what was written stays.
Restart == /\ cwd' = Root /\ job' = Idle /\ held' = 0 /\ Close
           /\ UNCHANGED ents
           /\ Prompted(BlankCon, Prompt)

Next == Typed \/ EmptyLine \/ RunAtOnce \/ ClearScreen \/ RunJob \/ DoJob
        \/ Nano \/ Edit \/ DoSaved \/ Leave \/ Restart
Spec == Init /\ [][Next]_vars

-----------------------------------------------------------------------------

(* The types; the table has its root and fits on the disk; and the line of *)
(* the editor's cursor is on the screen (editor.c:112-115).                *)
TypeOK ==
  /\ \A i \in DOMAIN ents : ents[i].parent \in 1 .. MaxFiles /\ ents[i].dir \in BOOLEAN
  /\ Len(ents) \in 1 .. MaxFiles /\ Used(ents) <= Sectors
  /\ Len(cwd) <= MaxPath
  /\ job.step \in {"none", "load", "clear", "make", "put", "saved", "remove", "take", "give"}
  /\ held \in Nat
  /\ Len(buf) <= MaxText /\ cursor \in 0 .. Len(buf)
  /\ dirty \in BOOLEAN /\ cmd_mode \in BOOLEAN
  /\ LinesBefore(buf, cursor) \in top_line .. top_line + Rows - 1
  /\ DOMAIN screen = Cells /\ pen \in 0 .. Width * Height - 1
  /\ Len(line) <= MaxLine

(* What a file holds is lost only by a command that was told to lose it,   *)
(* rm or what replaces a file, or by a move: onto the file itself, of one  *)
(* that could not be copied, or along a path too long to be looked up      *)
(* (cmd.c:99-118, 140-192, editor.c:144-151).                              *)
Kept == {ents[i].data : i \in {i \in DOMAIN ents : ~ents[i].dir}}
Holds(arg, c) == \E p \in Norms(arg) :
                   LET i == Find(ents, p) IN IsFile(ents, i) /\ ents[i].data = c
ToldTo(c) == \/ job.cmd = "rm" /\ Holds(job.src, c)
             \/ Step("clear") /\ Holds(job.dst, c)
             \/ Step("put") /\ TooLong(job.dst) /\ Holds(job.dst, c)
MovedAstray == /\ job.cmd = "mv" /\ Step("remove")
               /\ \/ Normal(job.src) = Normal(job.dst)
                  \/ TooLong(job.src) \/ TooLong(job.dst)
                  \/ ~job.ok
LostOnlyBy ==
  [][\A c \in Kept \ Kept' : c = Zeros(Len(c)) \/ ToldTo(c) \/ MovedAstray]_vars

(* An editor that shows no change holds what its file holds, unless the    *)
(* file could not be read or written whole (editor.c:53-72, 144-151,       *)
(* 181-185).                                                               *)
CleanMeansSaved ==
  editing /\ job = Idle /\ ~dirty /\ ~doubt =>
    LET i == Find(ents, Normal(filepath)) IN IsFile(ents, i) /\ ents[i].data = buf

(* Whenever the shell waits for a line, no command holds memory, whichever *)
(* of its calls failed (shell.c:73-85, 148; cmd.c:64-80, 163-180, 329-366; *)
(* xcfs.c:474-513).                                                        *)
MemoryReturned == AtPrompt => held = 0

(* The line on the screen is the line that Enter will run, as far as it    *)
(* is still on it, unless a character was erased at the left edge          *)
(* (text.c:80-107, keyboard.c:267-288).                                    *)
LineShown ==
  /\ \A k \in 1 .. Len(line) : k <= pen => screen[pen - k + 1] = line[Len(line) - k + 1]
  /\ Len(line) < pen => screen[pen - Len(line)] = "$"
  /\ \A i \in Cells : i > pen => screen[i] = " "
ErasedAtEdge == line # <<>> /\ line' = Front(line) /\ pen % Width = 0
LineStaysShown ==
  [][AtPrompt' /\ ~LineShown' =>
       AtPrompt /\ (ErasedAtEdge \/ ~LineShown)]_vars
=============================================================================
