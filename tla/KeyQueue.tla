------------------------------ MODULE KeyQueue ------------------------------
(***************************************************************************)
(* What the keyboard buffer promises its readers, with nothing said of how *)
(* it is stored: a queue of at most Capacity characters.  A key pressed    *)
(* while the queue is full is lost, every other one is handed out once, in *)
(* the order of the key presses.                                           *)
(***************************************************************************)
EXTENDS Naturals, Sequences

CONSTANTS Chars,      \* the characters a key press can produce
          NoChar,     \* what a reader holds before its first character
          Capacity    \* how many characters can wait

VARIABLES q,          \* the characters waiting, oldest first
          last        \* the character handed out last

Init == q = <<>> /\ last = NoChar

Put(c) == /\ q' = IF Len(q) < Capacity THEN Append(q, c) ELSE q
          /\ UNCHANGED last

Get == /\ q # <<>>
       /\ last' = Head(q)
       /\ q' = Tail(q)

Reset == q' = <<>> /\ last' = NoChar

Next == Get \/ Reset \/ \E c \in Chars : Put(c)

Spec == Init /\ [][Next]_<<q, last>>
=============================================================================
