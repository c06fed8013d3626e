------------------------------ MODULE MCSched ------------------------------
(* Three slots, so that the queue wraps and slots are used again; seven        *)
(* processes over the life of the system: the shell and six programs.          *)
EXTENDS Sched
============================================================================
