-------------------------- MODULE InterruptsProofs --------------------------
(***************************************************************************)
(* What Sched promises with ticks at any time holds of the machine, where  *)
(* the interrupt controller decides when they come.                        *)
(***************************************************************************)
EXTENDS Interrupts, SchedProofs

\* A step of the machine is a step of the scheduler or none of its business.
LEMMA IrqImplements == IrqSpec => Spec
<1>1. IrqInit => Init
  BY DEF IrqInit
<1>2. [IrqNext]_allVars => [Next]_vars
  BY DEF IrqNext, TimerIrq, SysExit, Fault, Code, Next, allVars
<1> QED BY <1>1, <1>2, PTL DEF IrqSpec, Spec

\* On the machine, too, the kernel runs on the stack and in the space of the current
\* process only.
THEOREM MachineContext == IrqSpec => []ContextLoaded
BY IrqImplements, ContextIsCurrent

\* On the machine, too, only the dead are freed, and no tick leaves them in place.
THEOREM MachineFreesTheDead == IrqSpec => OnlyTheDeadAreFreed /\ DeadLeave
BY IrqImplements, FreesOnlyTheDead, TheDeadLeave
=============================================================================
