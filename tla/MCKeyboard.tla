----------------------------- MODULE MCKeyboard -----------------------------
(* A ring of three slots (two characters) and a line of three (two           *)
(* characters), one letter key: the ring wraps, fills and drops, and a line   *)
(* fills and is erased, within a few key presses.                            *)
EXTENDS Keyboard
=============================================================================
