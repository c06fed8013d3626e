---------------------------- MODULE SchedProofs ----------------------------
(***************************************************************************)
(* Sched, for every size of the process table, every slice and every sleep:*)
(* the types, the context of the current process, fresh slices, and who    *)
(* may be freed.                                                           *)
(***************************************************************************)
EXTENDS Sched, FiniteSetTheorems, TLAPS

\* A process that is being built is not in use yet: while its slot has only been
\* taken, nothing has been counted in it and no tick touches it.
JobInv ==
  /\ job.pc # "idle" => job.slot \in Slots
  /\ job.pc = "alloc" => /\ proc[job.slot].state = "free"
                         /\ proc[job.slot].ticks = 0

IInv == TypeOK /\ ContextLoaded /\ FreshSlice /\ SleeperLeaves /\ JobInv

---------------------------------------------------------------------------
\* An index of the queue, taken modulo its size, is an index of the queue.
LEMMA ModSlot ==
  ASSUME NEW n \in Nat
  PROVE  n % ProcMax \in Slots
BY ProcMaxAssumption DEF Slots

LEMMA TimesType ==
  ASSUME NEW p, q_cnt \in Nat
  PROVE  Times(p) \in Nat
<1>1. IsFiniteSet(0 .. q_cnt - 1)
  BY FS_Interval, 0 \in Int, q_cnt - 1 \in Int
<1>2. IsFiniteSet({i \in Window : Entry(i) = p})
  BY <1>1, FS_Subset DEF Window
<1> QED BY <1>2, FS_CardinalityType DEF Times

LEMMA TicksType ==
  ASSUME NEW r \in Record, NEW t \in Nat
  PROVE  [r EXCEPT !.ticks = t] \in Record
BY DEF Record

\* What the wake-up loop of a tick leaves: records, of which only sleepers have
\* changed, and those only in their state and their ticks.
LEMMA WokenProperties ==
  ASSUME TypeOK, FreshSlice
  PROVE  /\ Woken \in [Slots -> Record]
         /\ \A p \in Slots :
              /\ Woken[p].pid = proc[p].pid /\ Woken[p].kind = proc[p].kind
              /\ Woken[p].started = proc[p].started
              /\ Woken[p].priority = proc[p].priority
              /\ Woken[p].state = "ready" => Woken[p].ticks = 0
              /\ proc[p].state # "blocked" => Woken[p] = proc[p]
              /\ proc[p].state = "blocked" => Woken[p].state \in {"ready", "blocked"}
<1> SUFFICES ASSUME NEW p \in Slots
             PROVE  /\ Woken[p] \in Record
                    /\ Woken[p].pid = proc[p].pid /\ Woken[p].kind = proc[p].kind
                    /\ Woken[p].started = proc[p].started
                    /\ Woken[p].priority = proc[p].priority
                    /\ Woken[p].state = "ready" => Woken[p].ticks = 0
                    /\ proc[p].state # "blocked" => Woken[p] = proc[p]
                    /\ proc[p].state = "blocked" => Woken[p].state \in {"ready", "blocked"}
  BY DEF Woken
<1>1. proc[p] \in Record /\ Times(p) \in Nat
  BY TimesType DEF TypeOK
<1>2. CASE Wakes(p)
  <2>1. Woken[p] = [proc[p] EXCEPT !.state = "ready", !.ticks = 0]
    BY <1>2 DEF Woken
  <2>2. Woken[p] \in Record
    <3>1. /\ [proc[p] EXCEPT !.state = "ready"] \in Record
          /\ Woken[p] = [[proc[p] EXCEPT !.state = "ready"] EXCEPT !.ticks = 0]
      BY <1>1, <2>1 DEF Record, States
    <3> QED BY <3>1, TicksType, 0 \in Nat
  <2>3. /\ Woken[p].pid = proc[p].pid /\ Woken[p].kind = proc[p].kind
        /\ Woken[p].started = proc[p].started
        /\ Woken[p].priority = proc[p].priority
        /\ Woken[p].ticks = 0 /\ Woken[p].state = "ready"
    BY <1>1, <2>1 DEF Record
  <2>4. proc[p].state = "blocked"
    BY <1>2 DEF Wakes
  <2> QED BY <2>2, <2>3, <2>4
<1>3. CASE ~Wakes(p) /\ proc[p].state = "blocked" /\ proc[p].ticks > 0
  <2>1. Woken[p] = [proc[p] EXCEPT !.ticks = proc[p].ticks - Times(p)]
    BY <1>3 DEF Woken
  <2>2. proc[p].ticks - Times(p) \in Nat
    BY <1>1, <1>3 DEF Wakes, Record
  <2> QED BY <1>1, <1>3, <2>1, <2>2 DEF Record
<1>4. CASE ~Wakes(p) /\ ~(proc[p].state = "blocked" /\ proc[p].ticks > 0)
  <2>1. Woken[p] = proc[p]
    BY <1>4 DEF Woken
  <2> QED BY <1>1, <2>1 DEF FreshSlice
<1> QED BY <1>2, <1>3, <1>4

\* next_ready returns a ready process, or none.
LEMMA NextReadyType ==
  ASSUME TypeOK, NEW n \in Slots \cup {NoProc}, NextReady(Woken, n)
  PROVE  /\ n # NoProc => n \in Slots /\ Woken[n].state = "ready"
         /\ q_head' \in Slots
<1>1. CASE q_head' = q_head /\ n = NoProc
  BY <1>1 DEF TypeOK
<1>2. ASSUME NEW i \in Window, Ready(Woken, i), n = Entry(i),
             q_head' = (At(i) + 1) % ProcMax
      PROVE  /\ n # NoProc => n \in Slots /\ Woken[n].state = "ready"
             /\ q_head' \in Slots
  <2>1. i \in Nat /\ q_head \in Nat
    BY DEF Window, TypeOK, Slots
  <2>2. At(i) \in Slots
    BY <2>1, ModSlot DEF At
  <2>3. q_head' \in Slots
    BY <1>2, <2>2, ModSlot DEF Slots
  <2> QED BY <1>2, <2>3 DEF Ready
<1> QED BY <1>1, <1>2 DEF NextReady

LEMMA SchedRemoveType ==
  ASSUME TypeOK, NEW h \in Slots, NEW who, SchedRemove(h, who)
  PROVE  queue' \in [Slots -> Slots \cup {NoProc}] /\ q_cnt' \in 0 .. ProcMax
<1>1. ASSUME NEW k \in Window, queue' = Closed(h, k), q_cnt' = q_cnt - 1
      PROVE  queue' \in [Slots -> Slots \cup {NoProc}] /\ q_cnt' \in 0 .. ProcMax
  <2>1. \A x \in Slots : (x + 1) % ProcMax \in Slots
    BY ModSlot DEF Slots
  <2>2. Closed(h, k) \in [Slots -> Slots \cup {NoProc}]
    BY <2>1 DEF Closed, TypeOK
  <2>3. q_cnt - 1 \in 0 .. ProcMax
    BY ProcMaxAssumption DEF Window, TypeOK
  <2> QED BY <1>1, <2>2, <2>3
<1>2. CASE UNCHANGED <<queue, q_cnt>>
  BY <1>2 DEF TypeOK
<1> QED BY <1>1, <1>2 DEF SchedRemove

\* switch_to leaves records; the next process runs, the current one, if it was
\* running, is ready, and nothing else has changed.
LEMMA SwitchedProperties ==
  ASSUME NEW pool \in [Slots -> Record], NEW n \in Slots
  PROVE  /\ Switched(pool, n) \in [Slots -> Record]
         /\ \A p \in Slots :
              /\ Switched(pool, n)[p].pid = pool[p].pid
              /\ Switched(pool, n)[p].kind = pool[p].kind
              /\ Switched(pool, n)[p].ticks = pool[p].ticks
              /\ Switched(pool, n)[p].state =
                   IF p = n THEN "running"
                   ELSE IF p = cur /\ pool[p].state = "running" THEN "ready"
                   ELSE pool[p].state
<1> SUFFICES ASSUME NEW p \in Slots
             PROVE  /\ Switched(pool, n)[p] \in Record
                    /\ Switched(pool, n)[p].pid = pool[p].pid
                    /\ Switched(pool, n)[p].kind = pool[p].kind
                    /\ Switched(pool, n)[p].ticks = pool[p].ticks
                    /\ Switched(pool, n)[p].state =
                         IF p = n THEN "running"
                         ELSE IF p = cur /\ pool[p].state = "running" THEN "ready"
                         ELSE pool[p].state
  BY DEF Switched
<1>1. pool[p] \in Record /\ Enters(p) \in BOOLEAN /\ pool[p].started \in BOOLEAN
  BY DEF Enters, Record
<1>2. CASE p = n
  <2>1. Switched(pool, n)[p] =
          [pool[p] EXCEPT !.state = "running", !.started = pool[p].started \/ Enters(p)]
    BY <1>2 DEF Switched
  <2>2. (pool[p].started \/ Enters(p)) \in BOOLEAN
    BY <1>1
  <2> QED BY <1>1, <1>2, <2>1, <2>2 DEF Record, States
<1>3. CASE p # n /\ p = cur /\ pool[p].state = "running"
  <2>1. Switched(pool, n)[p] = [pool[p] EXCEPT !.state = "ready"]
    BY <1>3 DEF Switched
  <2> QED BY <1>1, <1>3, <2>1 DEF Record, States
<1>4. CASE p # n /\ ~(p = cur /\ pool[p].state = "running")
  <2>1. Switched(pool, n)[p] = pool[p]
    BY <1>4 DEF Switched
  <2> QED BY <1>1, <1>4, <2>1
<1> QED BY <1>2, <1>3, <1>4
---------------------------------------------------------------------------
LEMMA InitInv == Init => IInv
<1> SUFFICES ASSUME Init PROVE IInv
  OBVIOUS
<1>1. Blank \in Record
  BY MaxPidAssumption DEF Blank, Record, States, High
<1>2. 0 \in Slots
  BY ProcMaxAssumption DEF Slots
<1>3. TypeOK
  <2>1. /\ proc \in [Slots -> Record]
        /\ queue \in [Slots -> Slots \cup {NoProc}]
    BY <1>1 DEF Init
  <2>2. next_pid \in 1 .. MaxPid + 1 /\ q_cnt \in 0 .. ProcMax
    BY ProcMaxAssumption, MaxPidAssumption DEF Init
  <2>3. job \in [pc : {"idle", "alloc", "ready", "add"}, slot : Slots \cup {NoProc}]
    BY DEF Init, NoJob
  <2>4. 0 \in 0 .. MaxPid
    BY MaxPidAssumption
  <2> QED BY <1>2, <2>1, <2>2, <2>3, <2>4 DEF Init, TypeOK
<1>4. ContextLoaded /\ FreshSlice /\ SleeperLeaves /\ JobInv
  BY DEF Init, ContextLoaded, FreshSlice, SleeperLeaves, JobInv, Blank, NoJob
<1> QED BY <1>3, <1>4 DEF IInv

\* After switch_to(n) from a pool that has the pids and kinds of proc, the context
\* of n is loaded.
LEMMA LoadContext ==
  ASSUME TypeOK, NEW n \in Slots, Load(n),
         proc'[n].state = "running", proc'[n].pid = proc[n].pid,
         proc'[n].kind = proc[n].kind
  PROVE  ContextLoaded' /\ SleeperLeaves'
         /\ cur' = n /\ on_cpu' = n /\ tss' \in 0 .. MaxPid
         /\ cr3' \in (0 .. MaxPid) \cup {Kernel}
<1>1. n # NoProc /\ proc[n].pid \in 0 .. MaxPid
  BY NullAssumption DEF TypeOK, Slots, Record
<1>2. cr3' = Space(n) /\ Space(n)' = Space(n)
  BY DEF Load, LoadSpace, Space
<1> QED BY <1>1, <1>2 DEF Load, ContextLoaded, SleeperLeaves, Space

LEMMA TickIdleInv ==
  ASSUME IInv, NEW n \in Slots \cup {NoProc}, NextReady(Woken, n), TickIdle(n),
         UNCHANGED <<next_pid, job>>
  PROVE  /\ IInv'
         /\ \A p \in Slots : proc[p].state # "free" => proc'[p].state # "free"
<1> USE DEF IInv
<1>1. /\ Woken \in [Slots -> Record]
      /\ \A p \in Slots :
           /\ Woken[p].pid = proc[p].pid /\ Woken[p].kind = proc[p].kind
           /\ Woken[p].state = "ready" => Woken[p].ticks = 0
           /\ proc[p].state # "blocked" => Woken[p] = proc[p]
           /\ proc[p].state = "blocked" => Woken[p].state \in {"ready", "blocked"}
  BY WokenProperties
<1>2. /\ n # NoProc => n \in Slots /\ Woken[n].state = "ready"
      /\ q_head' \in Slots
  BY NextReadyType
<1>3. /\ cur = NoProc /\ UNCHANGED <<queue, q_tail, q_cnt, next_pid, job>>
  BY DEF TickIdle
<1>4. CASE n = NoProc
  <2>1. proc' = Woken /\ UNCHANGED cpuVars
    BY <1>4 DEF TickIdle
  <2>2. TypeOK'
    BY <1>1, <1>2, <1>3, <2>1 DEF TypeOK, cpuVars
  <2>3. ContextLoaded' /\ SleeperLeaves'
    BY <1>3, <2>1 DEF ContextLoaded, SleeperLeaves, cpuVars
  <2>4. FreshSlice'
    BY <1>1, <2>1 DEF FreshSlice
  <2>5. JobInv'
    BY <1>1, <1>3, <2>1 DEF JobInv
  <2> QED BY <1>1, <2>1, <2>2, <2>3, <2>4, <2>5
<1>5. CASE n # NoProc
  <2>1. /\ proc' = Switched(Woken, n) /\ Load(n) /\ UNCHANGED need_resched
        /\ n \in Slots /\ Woken[n].state = "ready"
    BY <1>2, <1>5 DEF TickIdle
  <2>2. /\ proc' \in [Slots -> Record]
        /\ \A p \in Slots :
             /\ proc'[p].pid = proc[p].pid /\ proc'[p].kind = proc[p].kind
             /\ proc'[p].ticks = Woken[p].ticks
             /\ proc'[p].state = IF p = n THEN "running" ELSE Woken[p].state
    <3>1. /\ Switched(Woken, n) \in [Slots -> Record]
          /\ \A p \in Slots :
               /\ Switched(Woken, n)[p].pid = Woken[p].pid
               /\ Switched(Woken, n)[p].kind = Woken[p].kind
               /\ Switched(Woken, n)[p].ticks = Woken[p].ticks
               /\ Switched(Woken, n)[p].state =
                    IF p = n THEN "running"
                    ELSE IF p = cur /\ Woken[p].state = "running" THEN "ready"
                    ELSE Woken[p].state
      BY <1>1, <2>1, SwitchedProperties
    <3>2. \A p \in Slots : p # cur
      BY <1>3, NullAssumption DEF Slots
    <3> QED BY <1>1, <2>1, <3>1, <3>2
  <2>3. ContextLoaded' /\ SleeperLeaves'
        /\ cur' = n /\ on_cpu' = n /\ tss' \in 0 .. MaxPid
        /\ cr3' \in (0 .. MaxPid) \cup {Kernel}
    BY <2>1, <2>2, LoadContext
  <2>4. TypeOK'
    BY <1>2, <1>3, <2>1, <2>2, <2>3 DEF TypeOK
  <2>5. FreshSlice'
    BY <1>1, <2>2 DEF FreshSlice
  <2>6. JobInv'
    BY <1>1, <1>3, <2>1, <2>2 DEF JobInv
  <2> QED BY <1>1, <2>2, <2>3, <2>4, <2>5, <2>6
<1> QED BY <1>4, <1>5

LEMMA ClearTicksProperties ==
  ASSUME NEW pool \in [Slots -> Record], NEW q \in Slots
  PROVE  /\ ClearTicks(pool, q) \in [Slots -> Record]
         /\ \A p \in Slots :
              /\ ClearTicks(pool, q)[p].state = pool[p].state
              /\ ClearTicks(pool, q)[p].pid = pool[p].pid
              /\ ClearTicks(pool, q)[p].kind = pool[p].kind
              /\ ClearTicks(pool, q)[p].ticks = IF p = q THEN 0 ELSE pool[p].ticks
<1>1. ClearTicks(pool, q) = [pool EXCEPT ![q] = [pool[q] EXCEPT !.ticks = 0]]
  BY DEF ClearTicks
<1>2. [pool[q] EXCEPT !.ticks = 0] \in Record
  BY TicksType, 0 \in Nat
<1>3. /\ [pool[q] EXCEPT !.ticks = 0].state = pool[q].state
      /\ [pool[q] EXCEPT !.ticks = 0].pid = pool[q].pid
      /\ [pool[q] EXCEPT !.ticks = 0].kind = pool[q].kind
      /\ [pool[q] EXCEPT !.ticks = 0].ticks = 0
  <2>1. pool[q] \in Record
    OBVIOUS
  <2> QED BY <2>1 DEF Record
<1> QED BY <1>1, <1>2, <1>3

LEMMA TickReschedInv ==
  ASSUME IInv, NEW n \in Slots \cup {NoProc}, NextReady(Woken, n), TickResched(n),
         UNCHANGED <<next_pid, job>>
  PROVE  /\ IInv'
         /\ \A p \in Slots : proc[p].state # "free" /\ proc'[p].state = "free" =>
                              p = cur /\ p # cur' /\ proc[p].state = "zombie"
<1> USE DEF IInv
<1> DEFINE dying == Woken[cur].state = "zombie"
           pool  == ClearTicks(Woken, cur)
           after == IF n = NoProc THEN pool ELSE Switched(pool, n)
           reaps == dying /\ (n = NoProc \/ ~Enters(n))
<1>1. /\ Woken \in [Slots -> Record]
      /\ \A p \in Slots :
           /\ Woken[p].pid = proc[p].pid /\ Woken[p].kind = proc[p].kind
           /\ Woken[p].state = "ready" => Woken[p].ticks = 0
           /\ proc[p].state # "blocked" => Woken[p] = proc[p]
           /\ proc[p].state = "blocked" => Woken[p].state \in {"ready", "blocked"}
  BY WokenProperties
<1>2. /\ n # NoProc => n \in Slots /\ Woken[n].state = "ready"
      /\ q_head' \in Slots
  BY NextReadyType
<1>3. cur # NoProc /\ cur \in Slots /\ UNCHANGED <<q_tail, next_pid, job>>
  BY DEF TickResched, Reaps, TypeOK
<1>4. /\ pool \in [Slots -> Record]
      /\ \A p \in Slots :
           /\ pool[p].state = Woken[p].state /\ pool[p].pid = proc[p].pid
           /\ pool[p].kind = proc[p].kind
           /\ pool[p].ticks = IF p = cur THEN 0 ELSE Woken[p].ticks
  BY <1>1, <1>3, ClearTicksProperties
<1> HIDE DEF pool
<1>5. /\ after \in [Slots -> Record]
      /\ \A p \in Slots :
           /\ after[p].pid = proc[p].pid /\ after[p].kind = proc[p].kind
           /\ after[p].ticks = IF p = cur THEN 0 ELSE Woken[p].ticks
           /\ after[p].state = IF p = n THEN "running"
                               ELSE IF n # NoProc /\ p = cur /\ Woken[p].state = "running"
                               THEN "ready" ELSE Woken[p].state
  <2>1. CASE n = NoProc
    BY <1>4, <2>1, NullAssumption DEF Slots
  <2>2. CASE n # NoProc
    <3>1. n \in Slots
      BY <1>2, <2>2
    <3>2. /\ Switched(pool, n) \in [Slots -> Record]
          /\ \A p \in Slots :
               /\ Switched(pool, n)[p].pid = pool[p].pid
               /\ Switched(pool, n)[p].kind = pool[p].kind
               /\ Switched(pool, n)[p].ticks = pool[p].ticks
               /\ Switched(pool, n)[p].state =
                    IF p = n THEN "running"
                    ELSE IF p = cur /\ pool[p].state = "running" THEN "ready"
                    ELSE pool[p].state
      BY <1>4, <3>1, SwitchedProperties
    <3> QED BY <1>4, <2>2, <3>2
  <2> QED BY <2>1, <2>2
<1>6. /\ need_resched' = FALSE
      /\ IF n # NoProc THEN Load(n) ELSE IF dying THEN UnloadDead ELSE Unload
      /\ IF reaps
         THEN SchedRemove(q_head', proc[cur].pid) /\ proc' = [after EXCEPT ![cur] = Blank]
         ELSE UNCHANGED <<queue, q_cnt>> /\ proc' = after
  BY DEF TickResched, Reaps, pool
<1> HIDE DEF after, reaps
<1>7. dying => n # cur /\ proc[cur].state = "zombie"
  BY <1>1, <1>2, <1>3
<1>8. reaps => dying
  BY DEF reaps
<1>9. Blank \in Record /\ Blank.state = "free" /\ Blank.ticks = 0
  BY MaxPidAssumption DEF Blank, Record, States, High
<1>10. /\ proc' \in [Slots -> Record]
       /\ \A p \in Slots : ~(reaps /\ p = cur) => proc'[p] = after[p]
       /\ reaps => proc'[cur] = Blank
  BY <1>3, <1>5, <1>6, <1>9
<1>11. queue' \in [Slots -> Slots \cup {NoProc}] /\ q_cnt' \in 0 .. ProcMax
  BY <1>2, <1>6, SchedRemoveType DEF TypeOK
<1>12. /\ ContextLoaded' /\ SleeperLeaves'
       /\ cur' \in Slots \cup {NoProc} /\ on_cpu' \in Slots \cup {NoProc}
       /\ tss' \in 0 .. MaxPid
       /\ cr3' \in (0 .. MaxPid) \cup {Kernel}
  <2>1. CASE n # NoProc
    <3>1. Load(n) /\ n \in Slots
      BY <1>2, <1>6, <2>1
    <3>2. proc'[n] = after[n]
      BY <1>7, <1>8, <1>10, <3>1
    <3> QED BY <1>5, <3>1, <3>2, LoadContext
  <2>2. CASE n = NoProc
    BY <1>6, <2>2 DEF Unload, UnloadDead, ContextLoaded, SleeperLeaves, TypeOK
  <2> QED BY <2>1, <2>2
<1>13. TypeOK'
  BY <1>2, <1>3, <1>6, <1>10, <1>11, <1>12 DEF TypeOK
<1>14. FreshSlice'
  BY <1>1, <1>5, <1>9, <1>10 DEF FreshSlice
<1>15. JobInv'
  <2> SUFFICES ASSUME job.pc = "alloc"
               PROVE  proc'[job.slot].state = "free" /\ proc'[job.slot].ticks = 0
    BY <1>3 DEF JobInv
  <2>1. job.slot \in Slots /\ proc[job.slot].state = "free" /\ proc[job.slot].ticks = 0
    BY DEF JobInv
  <2>2. job.slot # n
    BY <1>1, <1>2, <2>1, NullAssumption DEF Slots
  <2> QED BY <1>1, <1>5, <1>9, <1>10, <2>1, <2>2
<1>16. ASSUME NEW p \in Slots, proc[p].state # "free", proc'[p].state = "free"
       PROVE  p = cur /\ p # cur' /\ proc[p].state = "zombie"
  <2>1. reaps /\ p = cur
    BY <1>1, <1>5, <1>10, <1>16
  <2>2. cur' # cur
    BY <1>3, <1>6, <1>7, <1>8, <2>1 DEF Load, UnloadDead
  <2> QED BY <1>7, <1>8, <2>1, <2>2
<1> QED BY <1>12, <1>13, <1>14, <1>15, <1>16
LEMMA TickSliceInv ==
  ASSUME IInv, NEW n \in Slots \cup {NoProc}, NextReady(Woken, n), TickSlice(n),
         UNCHANGED <<next_pid, job>>
  PROVE  /\ IInv'
         /\ \A p \in Slots : proc[p].state # "free" => proc'[p].state # "free"
<1> USE DEF IInv
<1>1. /\ Woken \in [Slots -> Record]
      /\ \A p \in Slots :
           /\ Woken[p].pid = proc[p].pid /\ Woken[p].kind = proc[p].kind
           /\ Woken[p].state = "ready" => Woken[p].ticks = 0
           /\ proc[p].state # "blocked" => Woken[p] = proc[p]
           /\ proc[p].state = "blocked" => Woken[p].state \in {"ready", "blocked"}
  BY WokenProperties
<1>2. /\ n # NoProc => n \in Slots /\ Woken[n].state = "ready"
      /\ q_head' \in Slots
  BY NextReadyType
<1>3. /\ cur # NoProc /\ cur \in Slots
      /\ UNCHANGED <<queue, q_tail, q_cnt, need_resched, next_pid, job>>
      /\ ~need_resched
  BY DEF TickSlice, TypeOK
<1>4. proc[cur].state = "running" /\ Woken[cur].state = "running"
  BY <1>1, <1>3 DEF ContextLoaded, SleeperLeaves
<1>5. CASE n # NoProc /\ proc' = Switched(ClearTicks(Woken, cur), n) /\ Load(n)
  <2>1. n \in Slots /\ n # cur
    BY <1>2, <1>4, <1>5
  <2>2. /\ ClearTicks(Woken, cur) \in [Slots -> Record]
        /\ \A p \in Slots :
             /\ ClearTicks(Woken, cur)[p].state = Woken[p].state
             /\ ClearTicks(Woken, cur)[p].pid = Woken[p].pid
             /\ ClearTicks(Woken, cur)[p].kind = Woken[p].kind
             /\ ClearTicks(Woken, cur)[p].ticks = IF p = cur THEN 0 ELSE Woken[p].ticks
    BY <1>1, <1>3, ClearTicksProperties
  <2> DEFINE pool == ClearTicks(Woken, cur)
  <2> HIDE DEF pool
  <2>3. /\ Switched(pool, n) \in [Slots -> Record]
        /\ \A p \in Slots :
             /\ Switched(pool, n)[p].pid = pool[p].pid
             /\ Switched(pool, n)[p].kind = pool[p].kind
             /\ Switched(pool, n)[p].ticks = pool[p].ticks
             /\ Switched(pool, n)[p].state =
                  IF p = n THEN "running"
                  ELSE IF p = cur /\ pool[p].state = "running" THEN "ready"
                  ELSE pool[p].state
    BY <2>1, <2>2, SwitchedProperties DEF pool
  <2>4. /\ proc' \in [Slots -> Record]
        /\ \A p \in Slots :
             /\ proc'[p].pid = proc[p].pid /\ proc'[p].kind = proc[p].kind
             /\ proc'[p].ticks = IF p = cur THEN 0 ELSE Woken[p].ticks
             /\ proc'[p].state = IF p = n THEN "running"
                                 ELSE IF p = cur THEN "ready" ELSE Woken[p].state
    BY <1>1, <1>4, <1>5, <2>2, <2>3 DEF pool
  <2>5. ContextLoaded' /\ SleeperLeaves'
        /\ cur' = n /\ on_cpu' = n /\ tss' \in 0 .. MaxPid
        /\ cr3' \in (0 .. MaxPid) \cup {Kernel}
    BY <1>5, <2>1, <2>4, LoadContext
  <2>6. TypeOK'
    BY <1>2, <1>3, <2>1, <2>4, <2>5 DEF TypeOK
  <2>7. FreshSlice'
    BY <1>1, <2>4 DEF FreshSlice
  <2>8. JobInv'
    BY <1>1, <1>2, <1>3, <1>4, <1>5, <2>1, <2>4 DEF JobInv
  <2> QED BY <1>1, <2>4, <2>5, <2>6, <2>7, <2>8
<1>6. CASE /\ proc' = [Woken EXCEPT ![cur].ticks =
                         IF Woken[cur].ticks + 1 >= Slice(cur) THEN 0 ELSE @ + 1]
           /\ UNCHANGED <<cur, cr3, tss, on_cpu>>
  <2>1. PICK t \in Nat : proc' = [Woken EXCEPT ![cur] = [Woken[cur] EXCEPT !.ticks = t]]
    <3>1. Woken[cur].ticks + 1 \in Nat /\ 0 \in Nat
      BY <1>1, <1>3 DEF Record
    <3>2. (IF Woken[cur].ticks + 1 >= Slice(cur) THEN 0 ELSE Woken[cur].ticks + 1) \in Nat
      BY <3>1
    <3> QED BY <1>6, <3>2
  <2>2. [Woken[cur] EXCEPT !.ticks = t] \in Record
    BY <1>1, <1>3, TicksType
  <2>3. /\ proc' \in [Slots -> Record]
        /\ \A p \in Slots :
             /\ proc'[p].pid = proc[p].pid /\ proc'[p].kind = proc[p].kind
             /\ proc'[p].state = Woken[p].state
             /\ p # cur => proc'[p].ticks = Woken[p].ticks
    <3>1. /\ [Woken[cur] EXCEPT !.ticks = t].state = Woken[cur].state
          /\ [Woken[cur] EXCEPT !.ticks = t].pid = Woken[cur].pid
          /\ [Woken[cur] EXCEPT !.ticks = t].kind = Woken[cur].kind
      BY <1>1, <1>3 DEF Record
    <3> QED BY <1>1, <1>3, <2>1, <2>2, <3>1
  <2>4. TypeOK'
    BY <1>2, <1>3, <1>6, <2>3 DEF TypeOK
  <2>5. ContextLoaded' /\ SleeperLeaves'
    BY <1>3, <1>4, <1>6, <2>3 DEF ContextLoaded, SleeperLeaves, Space
  <2>6. FreshSlice'
    BY <1>1, <1>4, <2>3 DEF FreshSlice
  <2>7. JobInv'
    BY <1>1, <1>3, <1>4, <2>3 DEF JobInv
  <2> QED BY <1>1, <2>3, <2>4, <2>5, <2>6, <2>7
<1> QED BY <1>5, <1>6 DEF TickSlice
---------------------------------------------------------------------------
\* A change to one record that leaves its pid and kind alone.
LEMMA StateType ==
  ASSUME NEW r \in Record, NEW st \in States
  PROVE  /\ [r EXCEPT !.state = st] \in Record
         /\ [r EXCEPT !.state = st].state = st
         /\ [r EXCEPT !.state = st].ticks = r.ticks
         /\ [r EXCEPT !.state = st].pid = r.pid
         /\ [r EXCEPT !.state = st].kind = r.kind
BY DEF Record, States

LEMMA TaskInv ==
  ASSUME IInv, TaskYield \/ TaskSleep \/ TaskExit
  PROVE  /\ IInv'
         /\ \A p \in Slots : proc[p].state # "free" => proc'[p].state # "free"
<1>1. TypeOK /\ ContextLoaded /\ FreshSlice /\ SleeperLeaves /\ JobInv
  BY DEF IInv
\* The current process is put to sleep or killed.
<1>2. ASSUME cur # NoProc, need_resched' = TRUE, NEW r \in Record,
             r.state \in {"blocked", "zombie"},
             r.pid = proc[cur].pid, r.kind = proc[cur].kind,
             proc' = [proc EXCEPT ![cur] = r],
             UNCHANGED <<next_pid, queueVars, cur, cr3, tss, on_cpu, job>>
      PROVE  /\ IInv'
             /\ \A p \in Slots : proc[p].state # "free" => proc'[p].state # "free"
  <2>1. cur \in Slots /\ proc[cur].state # "free"
    BY <1>1, <1>2 DEF TypeOK, ContextLoaded
  <2>2. /\ proc' \in [Slots -> Record] /\ proc'[cur] = r
        /\ \A p \in Slots : p # cur => proc'[p] = proc[p]
    BY <1>1, <1>2, <2>1 DEF TypeOK
  <2>3. TypeOK'
    BY <1>1, <1>2, <2>2 DEF TypeOK, queueVars
  <2>4. ContextLoaded'
    BY <1>1, <1>2, <2>1, <2>2 DEF ContextLoaded, Space
  <2>5. FreshSlice'
    BY <1>1, <1>2, <2>2 DEF FreshSlice
  <2>6. SleeperLeaves'
    BY <1>2 DEF SleeperLeaves
  <2>7. JobInv'
    BY <1>1, <1>2, <2>1, <2>2 DEF JobInv
  <2> QED BY <1>2, <2>2, <2>3, <2>4, <2>5, <2>6, <2>7 DEF IInv
\* The pool does not change.
<1>3. ASSUME UNCHANGED <<proc, next_pid, queueVars, cur, cr3, tss, job>>,
             need_resched' \in BOOLEAN, SleeperLeaves',
             on_cpu' \in Slots \cup {NoProc}, cur # NoProc => on_cpu' = on_cpu
      PROVE  IInv'
  <2>1. TypeOK'
    BY <1>1, <1>3 DEF TypeOK, queueVars
  <2>2. ContextLoaded'
    BY <1>1, <1>3 DEF ContextLoaded, Space
  <2>3. FreshSlice' /\ JobInv'
    BY <1>1, <1>3 DEF FreshSlice, JobInv
  <2> QED BY <1>3, <2>1, <2>2, <2>3 DEF IInv
<1>4. CASE TaskYield
  <2>1. /\ UNCHANGED <<proc, next_pid, queueVars, cur, cr3, tss, on_cpu, job>>
        /\ need_resched' = TRUE
    BY <1>4 DEF TaskYield
  <2>2. need_resched' \in BOOLEAN /\ SleeperLeaves' /\ on_cpu' \in Slots \cup {NoProc}
    BY <1>1, <2>1 DEF TypeOK, SleeperLeaves
  <2>3. IInv'
    BY <1>3, <2>1, <2>2
  <2> QED BY <2>1, <2>3
<1>5. CASE TaskSleep
  <2>1. PICK ms \in SleepTimes :
          proc' = [proc EXCEPT ![cur].ticks = ms, ![cur].state = "blocked"]
    BY <1>5 DEF TaskSleep
  <2>2. /\ cur # NoProc /\ cur \in Slots /\ need_resched' = TRUE
        /\ UNCHANGED <<next_pid, queueVars, cur, cr3, tss, on_cpu, job>>
    BY <1>1, <1>5 DEF TaskSleep, TypeOK
  <2>3. ms \in Nat /\ "blocked" \in States
    BY SleepAssumption DEF States
  <2>4. proc[cur] \in Record
    BY <1>1, <2>2 DEF TypeOK
  <2> DEFINE r == [proc[cur] EXCEPT !.ticks = ms]
             q == [r EXCEPT !.state = "blocked"]
  <2>5. r \in Record /\ r.pid = proc[cur].pid /\ r.kind = proc[cur].kind
    <3>1. r \in Record
      BY <2>3, <2>4, TicksType
    <3> QED BY <2>4, <3>1 DEF Record
  <2>6. proc' = [proc EXCEPT ![cur] = q]
    BY <1>1, <2>1, <2>2 DEF TypeOK
  <2> HIDE DEF r
  <2>7. /\ q \in Record /\ q.state = "blocked"
        /\ q.pid = proc[cur].pid /\ q.kind = proc[cur].kind
    BY <2>3, <2>5, StateType
  <2> HIDE DEF q
  <2> QED BY <1>2, <2>2, <2>6, <2>7
<1>6. CASE TaskExit
  <2>1. CASE cur = NoProc
    <3>1. /\ UNCHANGED <<proc, next_pid, queueVars, cur, cr3, tss, job, need_resched>>
          /\ on_cpu' = NoProc
      BY <1>6, <2>1 DEF TaskExit
    <3>2. need_resched' \in BOOLEAN /\ SleeperLeaves' /\ on_cpu' \in Slots \cup {NoProc}
      BY <1>1, <2>1, <3>1 DEF TypeOK, SleeperLeaves
    <3>3. IInv'
      BY <1>3, <2>1, <3>1, <3>2
    <3> QED BY <3>1, <3>3
  <2>2. CASE cur # NoProc
    <3> DEFINE q == [proc[cur] EXCEPT !.state = "zombie"]
    <3>1. /\ need_resched' = TRUE
          /\ proc' = [proc EXCEPT ![cur] = q]
          /\ UNCHANGED <<next_pid, queueVars, cur, cr3, tss, on_cpu, job>>
      BY <1>6, <2>2 DEF TaskExit
    <3>2. proc[cur] \in Record /\ "zombie" \in States
      BY <1>1, <2>2 DEF TypeOK, States
    <3>3. /\ q \in Record /\ q.state = "zombie"
          /\ q.pid = proc[cur].pid /\ q.kind = proc[cur].kind
      BY <3>2, StateType
    <3> HIDE DEF q
    <3> QED BY <1>2, <2>2, <3>1, <3>3
  <2> QED BY <2>1, <2>2
<1> QED BY <1>4, <1>5, <1>6

\* Who builds a process is not the process that is built, nor is that current.
LEMMA BuilderApart ==
  ASSUME IInv, Builder, job.pc # "idle"
  PROVE  job.slot \in Slots /\ job.slot # cur
<1>1. job.slot \in Slots
  BY DEF IInv, JobInv
<1>2. CASE Booting
  BY <1>1, <1>2, NullAssumption DEF IInv, Builder, ContextLoaded, TypeOK, Slots
<1>3. CASE ~Booting
  <2>1. on_cpu # NoProc /\ proc[on_cpu].kind = "kernel"
    BY <1>3 DEF Builder
  <2>2. proc[job.slot].kind # "kernel"
    BY <1>3 DEF Booting
  <2>3. cur # NoProc => on_cpu = cur
    BY DEF IInv, ContextLoaded
  <2> QED BY <1>1, <2>1, <2>2, <2>3, NullAssumption DEF Slots
<1> QED BY <1>1, <1>2, <1>3

\* The new owner of a slot.
LEMMA OwnerType ==
  ASSUME NEW r \in Record, NEW i \in 0 .. MaxPid, NEW k \in {"none", "kernel", "user"}
  PROVE  /\ [r EXCEPT !.pid = i, !.kind = k] \in Record
         /\ [r EXCEPT !.pid = i, !.kind = k].state = r.state
         /\ [r EXCEPT !.pid = i, !.kind = k].ticks = r.ticks
<1> DEFINE r1 == [r EXCEPT !.pid = i]
<1>1. r1 \in Record /\ r1.state = r.state /\ r1.ticks = r.ticks
  BY DEF Record
<1>2. [r EXCEPT !.pid = i, !.kind = k] = [r1 EXCEPT !.kind = k]
  OBVIOUS
<1> HIDE DEF r1
<1>3. /\ [r1 EXCEPT !.kind = k] \in Record
      /\ [r1 EXCEPT !.kind = k].state = r1.state
      /\ [r1 EXCEPT !.kind = k].ticks = r1.ticks
  BY <1>1 DEF Record
<1> QED BY <1>1, <1>2, <1>3

LEMMA AllocInv ==
  ASSUME IInv, AllocProc
  PROVE  /\ IInv'
         /\ \A p \in Slots : proc[p].state # "free" => proc'[p].state # "free"
<1> USE DEF IInv
<1>1. PICK s \in Slots :
        /\ proc[s].state = "free"
        /\ proc' = [proc EXCEPT ![s] =
                      [Blank EXCEPT !.pid = next_pid,
                                    !.kind = IF Booting THEN "kernel" ELSE "user"]]
        /\ job' = [pc |-> "alloc", slot |-> s]
  BY DEF AllocProc
<1>2. /\ next_pid' = next_pid + 1 /\ next_pid <= MaxPid
      /\ UNCHANGED <<queueVars, cpuVars>>
  BY DEF AllocProc
<1> DEFINE k == IF Booting THEN "kernel" ELSE "user"
           r == [Blank EXCEPT !.pid = next_pid, !.kind = k]
<1>3. r \in Record /\ r.state = "free" /\ r.ticks = 0
  <2>1. k \in {"none", "kernel", "user"} /\ next_pid \in 0 .. MaxPid
    BY <1>2 DEF TypeOK
  <2>2. Blank \in Record /\ Blank.state = "free" /\ Blank.ticks = 0
    BY MaxPidAssumption DEF Blank, Record, States, High
  <2> HIDE DEF k
  <2> QED BY <2>1, <2>2, OwnerType
<1> HIDE DEF r
<1>4. /\ proc' \in [Slots -> Record] /\ proc'[s] = r
      /\ \A p \in Slots : p # s => proc'[p] = proc[p]
  BY <1>1, <1>3 DEF TypeOK, r
<1>5. cur # s /\ cur \in Slots \cup {NoProc}
  BY <1>1, NullAssumption DEF ContextLoaded, TypeOK, Slots
<1>6. TypeOK'
  <2>1. next_pid' \in 1 .. MaxPid + 1
    BY <1>2, MaxPidAssumption DEF TypeOK
  <2>2. job' \in [pc : {"idle", "alloc", "ready", "add"}, slot : Slots \cup {NoProc}]
    BY <1>1
  <2> QED BY <1>2, <1>4, <2>1, <2>2 DEF TypeOK, queueVars, cpuVars
<1>7. ContextLoaded' /\ SleeperLeaves'
  BY <1>2, <1>4, <1>5 DEF ContextLoaded, SleeperLeaves, Space, cpuVars
<1>8. FreshSlice' /\ JobInv'
  BY <1>1, <1>3, <1>4 DEF FreshSlice, JobInv
<1> QED BY <1>1, <1>4, <1>6, <1>7, <1>8

LEMMA BuildInv ==
  ASSUME IInv, Build
  PROVE  /\ IInv'
         /\ \A p \in Slots : proc[p].state # "free" /\ proc'[p].state = "free" =>
                              p = job.slot /\ p # cur
<1> USE DEF IInv
<1>1. job.slot \in Slots /\ job.slot # cur /\ job.pc # "idle"
  BY BuilderApart DEF Build, MakeReady, CreateFails, LoadFails, SetPriority, Enqueue
<1>2. ASSUME NEW r \in Record, r.state = "ready" => r.ticks = 0,
             proc' = [proc EXCEPT ![job.slot] = r],
             job' = NoJob \/ job' = [job EXCEPT !.pc = "ready"]
                         \/ job' = [job EXCEPT !.pc = "add"],
             UNCHANGED <<next_pid, queueVars, cpuVars>>
      PROVE  IInv' /\ \A p \in Slots : p # job.slot => proc'[p] = proc[p]
  <2>1. /\ proc' \in [Slots -> Record] /\ proc'[job.slot] = r
        /\ \A p \in Slots : p # job.slot => proc'[p] = proc[p]
    BY <1>1, <1>2 DEF TypeOK
  <2>2. /\ job' \in [pc : {"idle", "alloc", "ready", "add"}, slot : Slots \cup {NoProc}]
        /\ job'.pc # "alloc" /\ (job'.pc # "idle" => job'.slot \in Slots)
    BY <1>1, <1>2 DEF TypeOK, NoJob
  <2>3. TypeOK'
    BY <1>2, <2>1, <2>2 DEF TypeOK, queueVars, cpuVars
  <2>4. ContextLoaded' /\ SleeperLeaves'
    BY <1>1, <1>2, <2>1 DEF ContextLoaded, SleeperLeaves, Space, cpuVars, TypeOK
  <2>5. FreshSlice' /\ JobInv'
    BY <1>2, <2>1, <2>2 DEF FreshSlice, JobInv
  <2> QED BY <2>1, <2>3, <2>4, <2>5
<1>3. proc[job.slot] \in Record
  BY <1>1 DEF TypeOK
<1>4. CASE MakeReady
  <2>1. /\ [proc[job.slot] EXCEPT !.state = "ready"] \in Record
        /\ [proc[job.slot] EXCEPT !.state = "ready"].ticks = 0
    BY <1>3, <1>4, StateType, "ready" \in States DEF MakeReady, JobInv, States
  <2>2. proc' = [proc EXCEPT ![job.slot] = [proc[job.slot] EXCEPT !.state = "ready"]]
    BY <1>4 DEF MakeReady
  <2> QED BY <1>2, <1>4, <2>1, <2>2, <1>1 DEF MakeReady
<1>5. CASE LoadFails
  <2>1. Blank \in Record /\ Blank.state = "free"
    BY MaxPidAssumption DEF Blank, Record, States, High
  <2> QED BY <1>1, <1>2, <1>5, <2>1 DEF LoadFails
<1>6. CASE SetPriority
  <2>1. /\ [proc[job.slot] EXCEPT !.priority = Normal] \in Record
        /\ [proc[job.slot] EXCEPT !.priority = Normal].state = proc[job.slot].state
        /\ [proc[job.slot] EXCEPT !.priority = Normal].ticks = proc[job.slot].ticks
    BY <1>3 DEF Record
  <2>2. proc' = [proc EXCEPT ![job.slot] = [proc[job.slot] EXCEPT !.priority = Normal]]
    BY <1>6 DEF SetPriority
  <2>3. IInv' /\ \A p \in Slots : p # job.slot => proc'[p] = proc[p]
    BY <1>1, <1>2, <1>6, <2>1, <2>2 DEF SetPriority, FreshSlice
  <2> QED BY <1>1, <2>3
<1>7. CASE CreateFails
  <2>1. UNCHANGED <<proc, next_pid, queueVars, cpuVars>> /\ job' = NoJob
    BY <1>7 DEF CreateFails
  <2> QED BY <2>1 DEF NoJob, queueVars, cpuVars, TypeOK, ContextLoaded, FreshSlice,
                      SleeperLeaves, JobInv, Space
<1>8. CASE Enqueue
  <2>1. UNCHANGED <<proc, next_pid, cpuVars>> /\ job' = NoJob
    BY <1>8 DEF Enqueue
  <2>2. /\ queue' \in [Slots -> Slots \cup {NoProc}]
        /\ q_head' \in Slots /\ q_tail' \in Slots /\ q_cnt' \in 0 .. ProcMax
    <3>1. (q_tail + 1) % ProcMax \in Slots
      BY ModSlot, q_tail + 1 \in Nat DEF TypeOK, Slots
    <3> QED BY <1>1, <1>8, <3>1, ProcMaxAssumption DEF Enqueue, SchedAdd, queueVars, TypeOK
  <2>3. TypeOK'
    BY <2>1, <2>2 DEF TypeOK, cpuVars, NoJob
  <2> QED BY <2>1, <2>3 DEF NoJob, cpuVars, ContextLoaded, FreshSlice, SleeperLeaves,
                           JobInv, Space
<1> QED BY <1>4, <1>5, <1>6, <1>7, <1>8 DEF Build

---------------------------------------------------------------------------
\* One step, and what it may free.
LEMMA NextInv ==
  IInv /\ [Next]_vars =>
    /\ IInv'
    /\ \A p \in Slots :
         proc[p].state # "free" /\ proc'[p].state = "free" =>
           \/ p = cur /\ p # cur' /\ proc[p].state = "zombie"
           \/ p = job.slot /\ p # cur
<1> SUFFICES ASSUME IInv, [Next]_vars
             PROVE  /\ IInv'
                    /\ \A p \in Slots :
                         proc[p].state # "free" /\ proc'[p].state = "free" =>
                           \/ p = cur /\ p # cur' /\ proc[p].state = "zombie"
                           \/ p = job.slot /\ p # cur
  OBVIOUS
<1>1. CASE UNCHANGED vars
  BY <1>1 DEF vars, queueVars, cpuVars, IInv, TypeOK, ContextLoaded, FreshSlice,
              SleeperLeaves, JobInv, Space
<1>2. CASE Tick
  <2>1. PICK n \in Slots \cup {NoProc} :
          NextReady(Woken, n) /\ (TickIdle(n) \/ TickResched(n) \/ TickSlice(n))
    BY <1>2 DEF Tick
  <2>2. UNCHANGED <<next_pid, job>>
    BY <1>2 DEF Tick
  <2>3. CASE TickIdle(n)
    BY <2>1, <2>2, <2>3, TickIdleInv
  <2>4. CASE TickResched(n)
    BY <2>1, <2>2, <2>4, TickReschedInv
  <2>5. CASE TickSlice(n)
    BY <2>1, <2>2, <2>5, TickSliceInv
  <2> QED BY <2>1, <2>3, <2>4, <2>5
<1>3. CASE TaskYield \/ TaskSleep \/ TaskExit
  BY <1>3, TaskInv
<1>4. CASE AllocProc
  BY <1>4, AllocInv
<1>5. CASE Build
  BY <1>5, BuildInv
<1> QED BY <1>1, <1>2, <1>3, <1>4, <1>5 DEF Next

LEMMA InvHolds == Spec => []IInv
<1>1. IInv /\ [Next]_vars => IInv'
  BY NextInv
<1> QED BY <1>1, InitInv, PTL DEF Spec

\* Every reachable state is well typed: no index leaves the queue, the queue never
\* counts more entries than it has, and no tick counts below zero.
THEOREM TypeCorrect == Spec => []TypeOK
<1>1. IInv => TypeOK
  BY DEF IInv
<1> QED BY <1>1, InvHolds, PTL

\* The kernel never runs on the stack or in the address space of another process
\* than the current one, nor of one it has freed.
THEOREM ContextIsCurrent == Spec => []ContextLoaded
<1>1. IInv => ContextLoaded
  BY DEF IInv
<1> QED BY <1>1, InvHolds, PTL

\* Every process that waits for the processor will get a whole slice (sched.c:149-171).
THEOREM SlicesAreFresh == Spec => []FreshSlice
<1>1. IInv => FreshSlice
  BY DEF IInv
<1> QED BY <1>1, InvHolds, PTL

\* A process that sleeps or has died is not current, or about to leave the processor
\* (sched.c:155-163, 183-195).
THEOREM SleepersLeave == Spec => []SleeperLeaves
<1>1. IInv => SleeperLeaves
  BY DEF IInv
<1> QED BY <1>1, InvHolds, PTL

\* Only a dead process that leaves the processor, or one that is still being built
\* by another, is ever freed.
THEOREM FreesOnlyTheDead == Spec => OnlyTheDeadAreFreed
<1>1. IInv /\ [Next]_vars =>
        [\A p \in Slots :
           proc[p].state # "free" /\ proc'[p].state = "free" =>
             \/ p = cur /\ p # cur' /\ proc[p].state = "zombie"
             \/ p = job.slot /\ p # cur]_vars
  BY NextInv
<1> QED BY <1>1, InvHolds, PTL DEF Spec, OnlyTheDeadAreFreed

\* A tick takes a dead process off the processor: the process it starts instead was
\* ready, so it is another one, and with none the kernel goes back to itself.
LEMMA TickLeavesTheDead ==
  ASSUME IInv, Tick, cur # NoProc, proc[cur].state = "zombie"
  PROVE  cur' # cur
<1> USE DEF IInv
<1>1. PICK n \in Slots \cup {NoProc} :
        NextReady(Woken, n) /\ (TickIdle(n) \/ TickResched(n) \/ TickSlice(n))
  BY DEF Tick
<1>2. cur \in Slots /\ Woken[cur] = proc[cur]
  BY WokenProperties DEF TypeOK
<1>3. n # cur
  BY <1>1, <1>2, NextReadyType
<1>4. ~TickIdle(n) /\ ~TickSlice(n)
  BY <1>2 DEF TickIdle, TickSlice
<1>5. IF n # NoProc THEN Load(n) ELSE UnloadDead
  BY <1>1, <1>2, <1>4 DEF TickResched
<1> QED BY <1>3, <1>5 DEF Load, UnloadDead

\* No tick leaves a dead process in place.
THEOREM TheDeadLeave == Spec => DeadLeave
<1>1. IInv /\ [Next]_vars =>
        [Tick /\ cur # NoProc /\ proc[cur].state = "zombie" => cur' # cur]_vars
  BY TickLeavesTheDead
<1> QED BY <1>1, InvHolds, PTL DEF Spec, DeadLeave
=============================================================================
