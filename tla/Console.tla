------------------------------ MODULE Console -------------------------------
(***************************************************************************)
(* The text on the screen, src/src/drivers/text/text.c, and the line that  *)
(* is typed on it, keyboard_input.  The screen is one sequence of cells,   *)
(* row after row, and the pen a place in it.  What was there before the    *)
(* last prompt is history, whatever it was.                                *)
(***************************************************************************)
EXTENDS Integers, SequencesExt

CONSTANTS Glyphs,          \* what is printed
          Width, Height,   \* of the screen, in characters
          MaxLine          \* sizeof(line_buffer) - 1

ASSUME ConsoleAssumption == Width \in Nat \ {0, 1} /\ Height \in Nat \ {0}
                            /\ MaxLine \in Nat /\ {" ", "h", "$", "x", "bs", "\n"} \subseteq Glyphs

VARIABLES screen, pen,     \* the cells; xpos and ypos
          line             \* line_buffer up to index

consoleVars == <<screen, pen, line>>

Cells == 1 .. Width * Height
Fill(c) == [i \in Cells |-> c]
Con == [screen |-> screen, pen |-> pen]
BlankCon == [screen |-> Fill(" "), pen |-> 0]

\* Below the last row the screen is scrolled up by one.
Scrolled(con) ==
  IF con.pen < Width * Height THEN con
  ELSE [screen |-> [i \in Cells |-> IF i + Width \in Cells THEN con.screen[i + Width] ELSE " "],
        pen    |-> con.pen - Width]

pc(con, c) ==
  CASE c = "\n" -> Scrolled([con EXCEPT !.pen = (@ \div Width + 1) * Width])
    [] c = "bs" -> IF con.pen % Width # 0 THEN [con EXCEPT !.pen = @ - 1] ELSE con
    [] OTHER    -> Scrolled([screen |-> [con.screen EXCEPT ![con.pen + 1] = c],
                             pen    |-> con.pen + 1])
Printed(con, s) == FoldLeft(pc, con, s)

OnScreen(con) == screen' = con.screen /\ pen' = con.pen

\* What was printed so far is history; the prompt comes after it.
Prompted(con, prompt) ==
  LET old == [con EXCEPT !.screen = [i \in Cells |-> IF i <= con.pen THEN "h" ELSE @[i]]]
  IN  OnScreen(Printed(old, prompt)) /\ line' = <<>>

Type == /\ Len(line) < MaxLine
        /\ line' = Append(line, "x")
        /\ OnScreen(Printed(Con, <<"x">>))
NoBlank == <<"bs">>                        \* mutant: the character stays on the screen
Rubout  == <<"bs", " ", "bs">>
Erase == /\ line # <<>>
         /\ line' = Front(line)
         /\ OnScreen(Printed(Con, Rubout))
=============================================================================
