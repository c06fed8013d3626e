----------------------------- MODULE Interrupts -----------------------------
(***************************************************************************)
(* Whether the scheduler's ticks come: Sched with the interrupt controller *)
(* and the interrupt flag (isr_handler and pic_init of                     *)
(* src/src/kernel/interrupts/idt.c, isr.asm, and the stub of int 0x80 in   *)
(* src/src/kernel/syscall/syscall.asm).                                    *)
(*                                                                         *)
(* The controller is not in the automatic mode: it delivers nothing more,  *)
(* of the timer or of the keyboard behind it, until it is told that the    *)
(* tick is over.  isr_handler does so when sched_tick has returned to it.  *)
(***************************************************************************)
EXTENDS Sched

VARIABLES in_service,      \* the controller waits for the end of a tick
          int_flag         \* IF, while no handler runs

allVars == <<vars, in_service, int_flag>>

IrqInit == Init /\ in_service = FALSE /\ int_flag = TRUE

\* isr_handler for IRQ 0.  A tick that enters a user process for the first time
\* does not come back to say that it is over.
FirstEntry == \E p \in Slots : ~proc[p].started /\ proc'[p].started
TimerIrq ==
  /\ ~in_service /\ int_flag
  /\ Tick
  /\ in_service' = FirstEntry
  /\ UNCHANGED int_flag

\* sys_exit: the stub has cleared IF, and the call halts for ever.
SysExit ==
  /\ TaskExit
  /\ int_flag' = FALSE
  /\ UNCHANGED in_service

\* A ring-3 fault: the handler returns to the faulting instruction, with IF set.
Fault ==
  /\ cur # NoProc
  /\ TaskExit
  /\ UNCHANGED <<in_service, int_flag>>

Code ==
  /\ TaskYield \/ TaskSleep \/ AllocProc \/ Build
  /\ UNCHANGED <<in_service, int_flag>>

IrqNext == TimerIrq \/ SysExit \/ Fault \/ Code

\* The timer interrupts as long as it can, and the shell gets on with the process it
\* is building as long as it has the processor.
IrqSpec == IrqInit /\ [][IrqNext]_allVars
             /\ WF_allVars(TimerIrq) /\ SF_allVars(Build /\ UNCHANGED <<in_service, int_flag>>)

---------------------------------------------------------------------------
\* Properties.

\* cmd.c:716 tells the user who starts a program: PID queued, output will appear
\* on next tick.  That is, a program that was handed to sched_add does not wait for
\* ever while the shell alone has the processor.
Queued(p) == Enters(p) /\ proc[p].state = "ready" /\ job.slot # p
ShellRuns == on_cpu # NoProc /\ proc[on_cpu].kind = "kernel"
QueuedRuns == \A p \in Slots : ~<>[](Queued(p) /\ ShellRuns)

\* kit/examples/hello.c:18-19 sleeps for half a second and then says goodbye: a
\* process that sleeps leaves the processor.
SleepGivesUp == \A p \in Slots :
  (proc[p].state = "blocked" /\ on_cpu = p) ~> (on_cpu # p)
=============================================================================
