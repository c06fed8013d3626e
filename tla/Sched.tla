------------------------------- MODULE Sched -------------------------------
(***************************************************************************)
(* Processes and their scheduler: src/src/kernel/proc/proc.c and           *)
(* src/src/kernel/scheduler/sched.c, with the calls made of them by the    *)
(* boot code (startup.c), by the shell (cmd_exec and cmd_ring3test of      *)
(* cmd.c, elf_load of elf.c) and by user processes (syscall.c, and the     *)
(* ring-3 faults of idt.c).                                                *)
(*                                                                         *)
(* A process is known by its slot in pool, which is what the pointers of   *)
(* the queue are.  sched_tick runs in the timer interrupt with interrupts  *)
(* off: one action.  The shell builds a process with interrupts on: each   *)
(* step that the tick can see is an action of its own.                     *)
(*                                                                         *)
(* A tick may come here at any time when the code runs.  Whether the next  *)
(* one does come is up to the interrupt controller: see Interrupts.        *)
(***************************************************************************)
EXTENDS Naturals, FiniteSets

CONSTANTS ProcMax,                             \* PROC_MAX
          SliceHigh, SliceNormal, SliceLow,    \* TIME_SLICE_*
          SleepTimes,                          \* the arguments of sys_sleep
          MaxPid,                              \* bound: processes created in all
          NoProc, Kernel                       \* a null pointer; no user space

ASSUME ProcMaxAssumption == ProcMax \in Nat \ {0}
ASSUME SliceAssumption == {SliceHigh, SliceNormal, SliceLow} \subseteq Nat \ {0}
ASSUME SleepAssumption == SleepTimes \subseteq Nat
ASSUME MaxPidAssumption == MaxPid \in Nat
ASSUME NullAssumption == NoProc \notin 0 .. ProcMax - 1 /\ Kernel \notin Nat

VARIABLES proc,                         \* pool
          next_pid,
          queue, q_head, q_tail, q_cnt,
          cur, need_resched,
          cr3,     \* whose address space is loaded: the pid of its owner, or Kernel
          tss,     \* whose kernel stack the TSS names, by pid; 0 for none
          on_cpu,  \* the process whose code the processor executes
          job      \* the process being built, and how far that is

queueVars == <<queue, q_head, q_tail, q_cnt>>
cpuVars   == <<cur, need_resched, cr3, tss, on_cpu>>
vars      == <<proc, next_pid, queueVars, cpuVars, job>>

Slots  == 0 .. ProcMax - 1
High   == 0
Normal == 1
Low    == 2
States == {"free", "ready", "running", "blocked", "zombie"}

\* A slot after memset.
Blank == [state |-> "free", pid |-> 0, priority |-> High, ticks |-> 0,
          started |-> FALSE, kind |-> "none"]
NoJob == [pc |-> "idle", slot |-> NoProc]

Init ==
  /\ proc = [p \in Slots |-> Blank]
  /\ next_pid = 1
  /\ queue = [i \in Slots |-> NoProc]
  /\ q_head = 0 /\ q_tail = 0 /\ q_cnt = 0
  /\ cur = NoProc /\ need_resched = FALSE
  /\ cr3 = Kernel /\ tss = 0
  /\ on_cpu = NoProc
  /\ job = NoJob

---------------------------------------------------------------------------
\* The queue: what the scheduler sees of it is the window of q_cnt entries that
\* starts at q_head.

At(i)    == (q_head + i) % ProcMax
Window   == 0 .. q_cnt - 1
Entry(i) == queue[At(i)]

SchedAddNoWrap(p) ==                 \* mutant: the tail leaves the queue
  IF q_cnt >= ProcMax THEN UNCHANGED queueVars
  ELSE /\ queue' = [queue EXCEPT ![q_tail] = p]
       /\ q_tail' = q_tail + 1
       /\ q_cnt' = q_cnt + 1
       /\ UNCHANGED q_head
SchedAdd(p) ==
  IF q_cnt >= ProcMax THEN UNCHANGED queueVars
  ELSE /\ queue' = [queue EXCEPT ![q_tail] = p]
       /\ q_tail' = (q_tail + 1) % ProcMax
       /\ q_cnt' = q_cnt + 1
       /\ UNCHANGED q_head

\* sched_remove, in the window that starts at h.
Hit(h, i, who) == LET p == queue[(h + i) % ProcMax] IN p # NoProc /\ proc[p].pid = who
Closed(h, k) ==
  [x \in Slots |->
     LET d == (x + ProcMax - h) % ProcMax
     IN  IF d < k \/ d >= q_cnt THEN queue[x]
         ELSE IF d = q_cnt - 1 THEN NoProc ELSE queue[(x + 1) % ProcMax]]
SchedRemove(h, who) ==
  \/ \E k \in Window : /\ Hit(h, k, who) /\ \A i \in Window : Hit(h, i, who) => k <= i
                       /\ queue' = Closed(h, k)
                       /\ q_cnt' = q_cnt - 1
  \/ /\ \A i \in Window : ~Hit(h, i, who)
     /\ UNCHANGED <<queue, q_cnt>>

---------------------------------------------------------------------------
\* sched_tick.

\* The sleepers of the window lose one tick for each entry they have in it.
Times(p) == Cardinality({i \in Window : Entry(i) = p})
Wakes(p) == proc[p].state = "blocked" /\ proc[p].ticks > 0 /\ proc[p].ticks <= Times(p)
Woken ==
  [p \in Slots |->
     IF Wakes(p) THEN [proc[p] EXCEPT !.state = "ready", !.ticks = 0]
     ELSE IF proc[p].state = "blocked" /\ proc[p].ticks > 0
          THEN [proc[p] EXCEPT !.ticks = @ - Times(p)]
          ELSE proc[p]]

\* next_ready: of the ready processes of the window the first of the highest
\* priority.  The head moves past it, and it stays where it is in the queue.
Ready(pool, i) == Entry(i) # NoProc /\ pool[Entry(i)].state = "ready"
Before(pool, i, j) == \/ pool[Entry(i)].priority < pool[Entry(j)].priority
                      \/ pool[Entry(i)].priority = pool[Entry(j)].priority /\ i <= j
NextReady(pool, n) ==
  \/ \E i \in Window : /\ Ready(pool, i)
                       /\ \A j \in Window : Ready(pool, j) => Before(pool, i, j)
                       /\ n = Entry(i)
                       /\ q_head' = (At(i) + 1) % ProcMax
  \/ /\ \A i \in Window : ~Ready(pool, i)
     /\ n = NoProc
     /\ UNCHANGED q_head

Slice(p) == CASE proc[p].priority = High -> SliceHigh
              [] proc[p].priority = Low -> SliceLow
              [] OTHER -> SliceNormal

\* A user process that never ran is entered by proc_enter_user, which does not
\* return to switch_to.
Enters(p) == proc[p].kind = "user" /\ ~proc[p].started
Space(p) == IF proc[p].kind = "user" THEN proc[p].pid ELSE Kernel

\* switch_to(n), on the pool as the tick has left it so far.
Switched(pool, n) ==
  [p \in Slots |->
     IF p = n THEN [pool[p] EXCEPT !.state = "running", !.started = @ \/ Enters(p)]
     ELSE IF p = cur /\ pool[p].state = "running" THEN [pool[p] EXCEPT !.state = "ready"]
     ELSE pool[p]]
LoadSpaceOfUsers(n) ==               \* mutant: a kernel process keeps the space
  cr3' = IF proc[n].kind = "user" THEN proc[n].pid ELSE cr3
LoadSpace(n) == cr3' = Space(n)
Load(n) ==
  /\ cur' = n /\ on_cpu' = n
  /\ tss' = proc[n].pid
  /\ LoadSpace(n)

\* No process is current: the tick starts one if it can.
TickIdle(n) ==
  /\ cur = NoProc
  /\ IF n = NoProc
     THEN proc' = Woken /\ UNCHANGED cpuVars
     ELSE proc' = Switched(Woken, n) /\ Load(n) /\ UNCHANGED need_resched
  /\ UNCHANGED <<queue, q_tail, q_cnt>>

\* The current process died or gave the processor up.  If there is no other the
\* kernel forgets it, and the interrupt returns to its code all the same.
KeepTicks(pool, p)  == pool          \* mutant: ticks is not reset
ClearTicks(pool, p) == [pool EXCEPT ![p].ticks = 0]
Unload ==
  /\ cur' = NoProc /\ cr3' = Kernel
  /\ UNCHANGED <<tss, on_cpu>>
UnloadNothing == UNCHANGED <<cur, cr3, tss, on_cpu>>   \* mutant: an early return
UnloadDead ==
  /\ cur' = NoProc /\ cr3' = Kernel /\ on_cpu' = NoProc
  /\ UNCHANGED tss

\* A dead process is freed once its stack is no longer in use, if switch_to came
\* back to do it.
ReapsAnyway(dying, n) == n = NoProc \/ ~Enters(n)      \* mutant: reaps the living
Reaps(dying, n)       == dying /\ (n = NoProc \/ ~Enters(n))

TickResched(n) ==
  LET dying == Woken[cur].state = "zombie"
      pool  == ClearTicks(Woken, cur)
      after == IF n = NoProc THEN pool ELSE Switched(pool, n)
  IN  /\ cur # NoProc /\ (dying \/ need_resched)
      /\ need_resched' = FALSE
      /\ IF n # NoProc THEN Load(n) ELSE IF dying THEN UnloadDead ELSE Unload
      /\ IF Reaps(dying, n)
         THEN SchedRemove(q_head', proc[cur].pid) /\ proc' = [after EXCEPT ![cur] = Blank]
         ELSE UNCHANGED <<queue, q_cnt>> /\ proc' = after
      /\ UNCHANGED q_tail

\* The current process goes on until its slice is used up.
TickSlice(n) ==
  LET used == Woken[cur].ticks + 1 >= Slice(cur)
  IN  /\ cur # NoProc /\ Woken[cur].state # "zombie" /\ ~need_resched
      /\ IF used /\ n # NoProc
         THEN proc' = Switched(ClearTicks(Woken, cur), n) /\ Load(n)
         ELSE /\ proc' = [Woken EXCEPT ![cur].ticks = IF used THEN 0 ELSE @ + 1]
              /\ UNCHANGED <<cur, cr3, tss, on_cpu>>
      /\ UNCHANGED <<need_resched, queue, q_tail, q_cnt>>

Tick ==
  /\ \E n \in Slots \cup {NoProc} :
       NextReady(Woken, n) /\ (TickIdle(n) \/ TickResched(n) \/ TickSlice(n))
  /\ UNCHANGED <<next_pid, job>>

---------------------------------------------------------------------------
\* What a user process asks for.  It keeps the processor until the next tick,
\* sleeping or not; a dead one only waits for that tick.

UserRuns == /\ on_cpu # NoProc
            /\ proc[on_cpu].kind = "user" /\ proc[on_cpu].state # "zombie"

TaskYield ==
  /\ UserRuns
  /\ need_resched' = TRUE
  /\ UNCHANGED <<proc, next_pid, queueVars, cur, cr3, tss, on_cpu, job>>

TaskSleepOn ==                       \* mutant: need_resched is not set
  /\ UserRuns /\ cur # NoProc
  /\ \E ms \in SleepTimes :
       proc' = [proc EXCEPT ![cur].ticks = ms, ![cur].state = "blocked"]
  /\ UNCHANGED <<need_resched, next_pid, queueVars, cur, cr3, tss, on_cpu, job>>
TaskSleep ==
  /\ UserRuns /\ cur # NoProc
  /\ \E ms \in SleepTimes :
       proc' = [proc EXCEPT ![cur].ticks = ms, ![cur].state = "blocked"]
  /\ need_resched' = TRUE
  /\ UNCHANGED <<next_pid, queueVars, cur, cr3, tss, on_cpu, job>>

\* sys_exit, or a fault.  A process the kernel has forgotten is not marked: it
\* only halts.
TaskExit ==
  /\ UserRuns
  /\ IF cur = NoProc
     THEN on_cpu' = NoProc /\ UNCHANGED <<proc, need_resched>>
     ELSE /\ proc' = [proc EXCEPT ![cur].state = "zombie"]
          /\ need_resched' = TRUE
          /\ UNCHANGED on_cpu
  /\ UNCHANGED <<next_pid, queueVars, cur, cr3, tss, job>>

---------------------------------------------------------------------------
\* The making of a process: the shell by the boot code, a user process by the
\* shell.

Booting == next_pid = 1 \/ (job.pc # "idle" /\ proc[job.slot].kind = "kernel")
Builder == IF Booting THEN on_cpu = NoProc
           ELSE on_cpu # NoProc /\ proc[on_cpu].kind = "kernel"

\* alloc_proc: the first free slot.  Its state stays free for now.
AllocProc ==
  /\ Builder /\ job.pc = "idle" /\ next_pid <= MaxPid
  /\ \E s \in Slots :
       /\ proc[s].state = "free" /\ \A t \in Slots : t < s => proc[t].state # "free"
       /\ proc' = [proc EXCEPT ![s] =
                     [Blank EXCEPT !.pid = next_pid,
                                   !.kind = IF Booting THEN "kernel" ELSE "user"]]
       /\ job' = [pc |-> "alloc", slot |-> s]
  /\ next_pid' = next_pid + 1
  /\ UNCHANGED <<queueVars, cpuVars>>

\* The end of proc_create_kernel and proc_create_user.
MakeReady ==
  /\ Builder /\ job.pc = "alloc"
  /\ proc' = [proc EXCEPT ![job.slot].state = "ready"]
  /\ job' = [job EXCEPT !.pc = "ready"]
  /\ UNCHANGED <<next_pid, queueVars, cpuVars>>

\* No memory for the stack, the space or a page: the slot is free again.
CreateFails ==
  /\ Builder /\ job.pc = "alloc"
  /\ job' = NoJob
  /\ UNCHANGED <<proc, next_pid, queueVars, cpuVars>>

\* elf_load: a segment does not fit or there is no memory for it.
LoadFails ==
  /\ Builder /\ job.pc = "ready" /\ proc[job.slot].kind = "user"
  /\ proc' = [proc EXCEPT ![job.slot] = Blank]
  /\ job' = NoJob
  /\ UNCHANGED <<next_pid, queueVars, cpuVars>>

SetPriority ==
  /\ Builder /\ job.pc = "ready"
  /\ proc' = [proc EXCEPT ![job.slot].priority = Normal]
  /\ job' = [job EXCEPT !.pc = "add"]
  /\ UNCHANGED <<next_pid, queueVars, cpuVars>>

Enqueue ==
  /\ Builder /\ job.pc = "add"
  /\ SchedAdd(job.slot)
  /\ job' = NoJob
  /\ UNCHANGED <<proc, next_pid, cpuVars>>

Build == MakeReady \/ CreateFails \/ LoadFails \/ SetPriority \/ Enqueue
Next == Tick \/ TaskYield \/ TaskSleep \/ TaskExit \/ AllocProc \/ Build

Spec == Init /\ [][Next]_vars

---------------------------------------------------------------------------
\* Properties.

Record == [state : States, pid : 0 .. MaxPid, priority : {High, Normal, Low},
           ticks : Nat, started : BOOLEAN, kind : {"none", "kernel", "user"}]

TypeOK ==
  /\ proc \in [Slots -> Record]
  /\ next_pid \in 1 .. MaxPid + 1
  /\ queue \in [Slots -> Slots \cup {NoProc}]
  /\ q_head \in Slots /\ q_tail \in Slots /\ q_cnt \in 0 .. ProcMax
  /\ cur \in Slots \cup {NoProc} /\ need_resched \in BOOLEAN
  /\ cr3 \in (0 .. MaxPid) \cup {Kernel} /\ tss \in 0 .. MaxPid
  /\ on_cpu \in Slots \cup {NoProc}
  /\ job \in [pc : {"idle", "alloc", "ready", "add"}, slot : Slots \cup {NoProc}]

\* Whatever the order in which processes die and slots are used again, the kernel
\* never runs on what it freed: the current process is alive and is the one the
\* processor executes, the TSS names its stack and CR3 its space, and with no
\* current process the kernel's own space is loaded (sched.c:89-97, 153-162).
ContextLoaded ==
  IF cur = NoProc THEN cr3 = Kernel
  ELSE /\ proc[cur].state \in {"running", "blocked", "zombie"}
       /\ on_cpu = cur
       /\ tss = proc[cur].pid
       /\ cr3 = Space(cur)

\* The field ticks counts the slice of a running process and the sleep of a
\* blocked one: a process that waits for the processor has none left over from
\* either, so it starts with a whole slice (sched.c:138, 151, 168).
FreshSlice == \A p \in Slots : proc[p].state = "ready" => proc[p].ticks = 0

\* A process that sleeps is always about to be taken off the processor: no tick
\* counts its sleep as a part of its slice (sched.c:149, 183-187).
SleeperLeaves ==
  cur # NoProc /\ proc[cur].state \in {"blocked", "zombie"} => need_resched

\* A slot is freed when its process has died and another, or none, is current; or
\* while the process is still being built (sched.c:159-162, elf.c:43, 55, 62).
OnlyTheDeadAreFreed ==
  [][\A p \in Slots :
       proc[p].state # "free" /\ proc'[p].state = "free" =>
         \/ p = cur /\ p # cur' /\ proc[p].state = "zombie"
         \/ p = job.slot /\ p # cur]_vars

\* No tick leaves a process that has died in place, whether or not another is ready
\* and whatever it asked for before it died (sched.c:149-158).
DeadLeave ==
  [][Tick /\ cur # NoProc /\ proc[cur].state = "zombie" => cur' # cur]_vars
=============================================================================
