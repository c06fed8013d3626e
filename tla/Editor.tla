------------------------------- MODULE Editor -------------------------------
(***************************************************************************)
(* The editor, src/src/kernel/editor.c: a text, a cursor in it, the first  *)
(* line on the screen, and a line of commands of its own.  What is typed   *)
(* on that line is abstracted to what it says: save, quit or neither.      *)
(***************************************************************************)
EXTENDS Commands

CONSTANTS MaxText,     \* ED_BUF_MAX - 1
          Rows         \* content_rows

ASSUME EditorAssumption == MaxText \in Nat /\ Rows \in Nat \ {0}

VARIABLES editing, filepath, buf, cursor, dirty, top_line, cmd_mode,
          argc,        \* arguments of the nano command, freed when it ends
          doubt        \* no telling what the file holds: it could not be read
                       \* or written whole, or there is none

text == <<buf, cursor>>
editorVars == <<editing, filepath, text, dirty, top_line, cmd_mode, argc, doubt>>

-----------------------------------------------------------------------------
(* Lines: the positions of a text are 0 .. Len(buf). *)

Newline(b, i) == b[i] = "\n"
Latest(S) == CHOOSE m \in S : \A n \in S : n <= m
First(S)  == CHOOSE m \in S : \A n \in S : m <= n
LineStart(b, pos) == Latest({s \in 0 .. pos : s = 0 \/ Newline(b, s)})
LineEnd(b, pos) == First({e \in pos .. Len(b) : e = Len(b) \/ Newline(b, e + 1)})
LinesBefore(b, pos) == Cardinality({i \in 1 .. pos : Newline(b, i)})
AtMost(n, max) == IF n < max THEN n ELSE max

\* Drawing moves the first line so that the cursor's is on the screen.
ScrollOneWay(b, pos) == AtMost(top_line, LinesBefore(b, pos))  \* mutant: never down
Scroll(b, pos) ==
  LET cl == LinesBefore(b, pos) IN
  CASE cl < top_line         -> cl
    [] cl >= top_line + Rows -> cl - Rows + 1
    [] OTHER                 -> top_line
Render == top_line' = Scroll(buf', cursor')

-----------------------------------------------------------------------------
(* The keys. *)

SetClean(b, c) ==              \* mutant: typing leaves the text clean
  buf' = b /\ cursor' = c /\ Render /\ UNCHANGED dirty
Set(b, c) == buf' = b /\ cursor' = c /\ Render /\ dirty' = TRUE
Move(c) == UNCHANGED <<buf, dirty>> /\ cursor' = c /\ Render

Ins == /\ Len(buf) < MaxText
       /\ \E c \in {"x", "\n"} :
            Set(Upto(buf, cursor) \o <<c>> \o SubSeq(buf, cursor + 1, Len(buf)), cursor + 1)
Delb == /\ cursor > 0
        /\ Set(RemoveAt(buf, cursor), cursor - 1)
Delf == /\ cursor < Len(buf)
        /\ Set(RemoveAt(buf, cursor + 1), cursor)
KeyLeft  == cursor > 0 /\ Move(cursor - 1)
KeyRight == cursor < Len(buf) /\ Move(cursor + 1)
KeyUp ==
  LET s  == LineStart(buf, cursor)
      ps == LineStart(buf, s - 1)
  IN  IF s = 0 THEN Move(0) ELSE Move(ps + AtMost(cursor - s, s - 1 - ps))
KeyDown ==
  LET end == LineEnd(buf, cursor)
      ne  == LineEnd(buf, end + 1)
  IN  IF end >= Len(buf) THEN Move(Len(buf))
      ELSE Move(end + 1 + AtMost(cursor - LineStart(buf, cursor), ne - end - 1))

TextKey == /\ ~cmd_mode
           /\ Ins \/ Delb \/ Delf \/ KeyLeft \/ KeyRight \/ KeyUp \/ KeyDown
           /\ UNCHANGED <<cmd_mode, job>>
Colon == ~cmd_mode /\ cmd_mode' = TRUE /\ UNCHANGED <<text, dirty, top_line, job>>
Other == cmd_mode /\ cmd_mode' = FALSE /\ Move(cursor) /\ UNCHANGED job
Save  == /\ cmd_mode /\ cmd_mode' = FALSE
         /\ job' = [Job("save", 0, NoArg, filepath, "clear") EXCEPT !.data = buf]
         /\ UNCHANGED <<text, dirty, top_line>>
\* sav looks at no result.
Saved == /\ Step("saved") /\ job' = Idle
         /\ dirty' = FALSE /\ doubt' = (~job.ok \/ TooLong(filepath))
         /\ UNCHANGED text /\ Render
         /\ UNCHANGED <<editing, filepath, cmd_mode, argc, held, filesVars>>

Key == /\ editing /\ job = Idle
       /\ TextKey \/ Colon \/ Other \/ Save
       /\ UNCHANGED <<editing, filepath, argc, doubt, held, filesVars>>

-----------------------------------------------------------------------------

\* The first MaxText characters of the file; zeros where it could not be read.
Open ==
  \E a \in Args : \E p, q \in Norms(a) :
    LET i  == Find(ents, p)
        n  == IF i = 0 THEN 0 ELSE AtMost(Len(ents[i].data), MaxText)
    IN  /\ \E r \in IF n = 0 THEN {[ok |-> TRUE, data |-> <<>>]} ELSE Reads(ents, q, n) :
             LET got == AtMost(Len(r.data), n) IN
             /\ buf' = Upto(r.data, got) \o Zeros(n - got)
             /\ doubt' = (~r.ok \/ ~IsFile(ents, i) \/ n # Len(ents[i].data) \/ TooLong(a))
        /\ editing' = TRUE /\ filepath' = a
        /\ cursor' = 0 /\ dirty' = FALSE /\ top_line' = 0 /\ cmd_mode' = FALSE
        /\ argc' = 1 /\ held' = held + 1
        /\ UNCHANGED <<filesVars, job>>

\* The variables of a closed editor keep their values in the code, and the
\* next one to open sets them all: here they are cleared.
Blank == /\ editing = FALSE /\ filepath = NoArg /\ buf = <<>> /\ cursor = 0
         /\ dirty = FALSE /\ top_line = 0 /\ cmd_mode = FALSE /\ argc = 0 /\ doubt = FALSE
Close == /\ editing' = FALSE /\ filepath' = NoArg /\ buf' = <<>> /\ cursor' = 0
         /\ dirty' = FALSE /\ top_line' = 0 /\ cmd_mode' = FALSE /\ argc' = 0 /\ doubt' = FALSE
Quit == /\ editing /\ job = Idle /\ cmd_mode
        /\ Close /\ held' = held - argc
        /\ UNCHANGED <<filesVars, job>>

EditorInit == CommandsInit /\ Blank
=============================================================================
