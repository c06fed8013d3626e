---------------------------- MODULE MCInterrupts ----------------------------
(* As MCSched, with three processes in all: the shell and two programs.         *)
EXTENDS Interrupts
============================================================================
