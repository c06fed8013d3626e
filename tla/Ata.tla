-------------------------------- MODULE Ata ---------------------------------
(***************************************************************************)
(* The driver of the disk, src/src/drivers/storage/ata.c: it sends a       *)
(* command, waits for an interrupt by looking at a flag that the handler   *)
(* sets, and moves the data.                                               *)
(*                                                                         *)
(* Two call it: the shell, which the timer interrupts and which is         *)
(* interrupted by the drive, and a system call of a process (sys_open, by  *)
(* xcfs_read), all of which runs with interrupts off.  A call for one      *)
(* sector is a call for a run of one.  Drive 0 is the disk; the drive and  *)
(* the controller of the interrupts are external.                          *)
(***************************************************************************)
EXTENDS Naturals, Sequences

CONSTANTS Drives,          \* the drives looked for, a sequence; the first is the disk
          Shell, User,     \* who calls
          MaxLba, Values,  \* sectors of the disk; what a sector may hold
          MaxSectors,      \* sectors in a call
          MaxCalls, MaxOpens, \* bounds: calls of the shell and of the process
          None

ASSUME SizeAssumption == /\ MaxLba \in Nat \ {0} /\ MaxSectors \in Nat
                         /\ MaxCalls \in Nat /\ MaxOpens \in Nat
                         /\ Values # {} /\ Len(Drives) \in Nat
ASSUME NameAssumption == Shell # User /\ None \notin {Shell, User} \cup Values

VARIABLES kinds, detected,  \* what answers as which drive; drives looked at so far
          invoked, error,   \* ata_irq_invoked, ata_irq_error
          lock,             \* ata_lock: who holds it
          op,               \* the call of each
          running,          \* User while a system call of the process runs
          calls, opens,
          dev,              \* the drive: its state, command and error
          held, platter,    \* the sectors as read back, and as on the platter
          pending,          \* the controller has an interrupt of the drive
          late,             \* a call has given up on the drive
          erred,            \* the drive failed in the call that holds the lock
          synced            \* some call began with nothing left over

flags == <<invoked, error>>
drive == <<dev, held, platter, pending>>
vars  == <<kinds, detected, flags, lock, op, running, calls, opens, drive,
           late, erred, synced>>

Callers == {Shell, User}
Lbas  == 0 .. MaxLba - 1
Quiet == [st |-> "idle", cmd |-> "none", lba |-> 0, left |-> 0, val |-> None,
          err |-> FALSE]
NoOp  == [pc |-> "idle", kind |-> "none", lba |-> 0, n |-> 0, val |-> None,
          done |-> 0, got |-> <<>>, fresh |-> FALSE]
Blank == CHOOSE v \in Values : TRUE

Init ==
  /\ kinds \in {k \in [1 .. Len(Drives) -> {"disk", "packet", "none"}] : k[1] = "disk"}
  /\ detected = 0
  /\ invoked = FALSE /\ error = FALSE
  /\ lock = None /\ op = [c \in Callers |-> NoOp] /\ running = Shell
  /\ calls = 0 /\ opens = 0
  /\ dev = Quiet /\ pending = FALSE
  /\ held = [l \in Lbas |-> Blank] /\ platter = held
  /\ late = FALSE /\ erred = FALSE /\ synced = FALSE

---------------------------------------------------------------------------
\* ata_init and ata_detect_device.  The interrupts that ata_init turns off are on again
\* after ata_reset_bus, which writes the same register; so the answer to IDENTIFY
\* sets the flag, and the refusal of a drive that is no disk sets the error.
Detect ==
  /\ detected < Len(Drives)
  /\ detected' = detected + 1
  /\ LET kind == kinds[detected + 1] IN
       /\ invoked' = (invoked \/ kind # "none")
       /\ error' = (error \/ kind = "packet")
  /\ UNCHANGED <<kinds, lock, op, running, calls, opens, drive, late, erred, synced>>

---------------------------------------------------------------------------
\* The drive.  It ends what it does with an interrupt; a command that it gets while it
\* is busy or has data to move is ignored, or takes the place of the one that runs.

Sent(cmd, lba, n) ==
  [st |-> IF cmd = "write" THEN "drq" ELSE "busy", cmd |-> cmd, lba |-> lba, left |-> n,
   val |-> None, err |-> FALSE]
Send(cmd, lba, n) == \/ dev' = Sent(cmd, lba, n)
                     \/ dev.st # "idle" /\ dev' = dev
After(st) == IF dev.left > 1 THEN [dev EXCEPT !.st = st, !.lba = @ + 1, !.left = @ - 1]
             ELSE Quiet

Work ==
  /\ dev.st = "busy" /\ pending' = TRUE
  /\ \/ dev.cmd = "read" /\ dev' = [dev EXCEPT !.st = "drq"] /\ UNCHANGED <<held, platter>>
     \/ /\ dev.cmd = "write" /\ dev' = After("drq")
        /\ held' = [held EXCEPT ![dev.lba] = dev.val] /\ UNCHANGED platter
     \/ dev.cmd = "flush" /\ platter' = held /\ dev' = Quiet /\ UNCHANGED held
  /\ UNCHANGED erred
Fail ==
  /\ dev.st = "busy" /\ pending' = TRUE
  /\ dev' = [Quiet EXCEPT !.err = TRUE] /\ erred' = TRUE
  /\ UNCHANGED <<held, platter>>
Drive ==
  /\ Work \/ Fail
  /\ UNCHANGED <<kinds, detected, flags, lock, op, running, calls, opens, late, synced>>

\* The handlers.  Interrupts are off in a system call, and code that runs with them on
\* is interrupted before its next step.
Irq ==
  /\ pending /\ running = Shell
  /\ pending' = FALSE /\ invoked' = TRUE /\ error' = (error \/ dev.err)
  /\ UNCHANGED <<kinds, detected, lock, op, running, calls, opens, dev, held, platter,
                 late, erred, synced>>
Runs(c, pc) == running = c /\ op[c].pc = pc /\ (c = Shell => ~pending)

---------------------------------------------------------------------------
\* A call.

Begin(c, kind, lba, n, val) ==
  op' = [op EXCEPT ![c] = [pc |-> "lock", kind |-> kind, lba |-> lba, n |-> n, val |-> val,
                           done |-> 0, got |-> <<>>, fresh |-> FALSE]]
Requests == {r \in Lbas \X (1 .. MaxSectors) : r[1] + r[2] <= MaxLba}

\* The file system calls for the shell.
Call ==
  /\ detected = Len(Drives) /\ Runs(Shell, "idle") /\ calls < MaxCalls
  /\ \E r \in Requests :
       \/ Begin(Shell, "read", r[1], r[2], None)
       \/ \E v \in Values : Begin(Shell, "write", r[1], r[2], v)
  /\ calls' = calls + 1
  /\ UNCHANGED <<kinds, detected, flags, lock, running, opens, drive, late, erred, synced>>

\* The timer lets a process run, and it calls sys_open.  The first call was that of
\* xcfs_init, before there were processes.
Open ==
  /\ running = Shell /\ ~pending /\ opens < MaxOpens
  /\ calls > 1 \/ (calls = 1 /\ op[Shell].pc = "idle")
  /\ \E l \in Lbas : Begin(User, "read", l, 1, None)
  /\ running' = User /\ opens' = opens + 1
  /\ UNCHANGED <<kinds, detected, flags, lock, calls, drive, late, erred, synced>>

\* ata_spin_lock.
NotLeftOver == ~invoked /\ ~pending /\ dev.st = "idle"
SpinLock(c) ==
  /\ Runs(c, "lock") /\ lock = None
  /\ lock' = c /\ erred' = FALSE
  /\ op' = [op EXCEPT ![c].pc = "ready", ![c].fresh = NotLeftOver]
  /\ synced' = (synced \/ NotLeftOver)
  /\ UNCHANGED <<kinds, detected, flags, running, calls, opens, drive, late>>
Spin(c) == Runs(c, "lock") /\ lock # None /\ UNCHANGED vars

SendCommand(c) ==
  /\ Runs(c, "ready") /\ dev.st # "busy"
  /\ Send(op[c].kind, op[c].lba, op[c].n)
  /\ op' = [op EXCEPT ![c].pc = IF op[c].kind = "read" THEN "irq" ELSE "drq"]
  /\ UNCHANGED <<kinds, detected, flags, lock, running, calls, opens,
                 held, platter, pending, late, erred, synced>>

\* ata_wait_irq, once the flag is set.  With an error the call gives up, though the drive
\* may still be at its command: the error is the one that start-up left.
EndOfCall(c) == [op EXCEPT ![c] = NoOp]
Unlock(c) == lock' = None /\ running' = Shell /\ op' = EndOfCall(c)
OneMore(c) == IF op[c].kind = "write" THEN "drq" ELSE "end"  \* mutant: never counts
AfterIrq(c) ==
  CASE op[c].kind = "read"       -> "drq"
    [] op[c].kind = "flush"      -> "end"
    [] op[c].done < op[c].n      -> "drq"
    [] OTHER                     -> "flush"
ErrorKept == invoked' = FALSE /\ UNCHANGED error                  \* mutant: the error stays
Taken == invoked' = FALSE /\ error' = FALSE
TakeIrq(c) ==
  /\ Runs(c, "irq") /\ invoked
  /\ Taken
  /\ IF error THEN Unlock(c)
     ELSE op' = [op EXCEPT ![c].pc = AfterIrq(c)] /\ UNCHANGED <<lock, running>>
  /\ late' = (late \/ (error /\ dev.st # "idle"))
  /\ UNCHANGED <<kinds, detected, calls, opens, drive, erred, synced>>

\* The data of a sector.  A drive that got another command has no use for it.
MoveAtOnce == TRUE                                     \* mutant: no wait for the data
MayMove == dev.st = "drq"
Transfer(c) ==
  /\ Runs(c, "drq") /\ MayMove
  /\ \/ /\ op[c].kind = "read"
        /\ op' = [op EXCEPT ![c].done = @ + 1, ![c].got = Append(@, held[dev.lba]),
                            ![c].pc = IF op[c].done + 1 < op[c].n THEN "irq" ELSE "end"]
        /\ dev' = IF dev.cmd = "read" /\ dev.st = "drq" THEN After("busy") ELSE dev
     \/ /\ op[c].kind = "write"
        /\ op' = [op EXCEPT ![c].done = @ + 1, ![c].pc = "irq"]
        /\ dev' = IF dev.cmd = "write" THEN [dev EXCEPT !.st = "busy", !.val = op[c].val]
                  ELSE dev
  /\ UNCHANGED <<kinds, detected, flags, lock, running, calls, opens,
                 held, platter, pending, late, erred, synced>>

Unawaited == "end"                                     \* mutant: the last wait is left out
Awaited   == "irq"
FlushCache(c) ==
  /\ Runs(c, "flush")
  /\ Send("flush", 0, 0)
  /\ op' = [op EXCEPT ![c].pc = Awaited, ![c].kind = "flush"]
  /\ UNCHANGED <<kinds, detected, flags, lock, running, calls, opens,
                 held, platter, pending, late, erred, synced>>

\* A wait gives up: ata_wait for the drive, ata_wait_irq for the flag.
WaitsInVain(c) == \/ Runs(c, "ready") /\ dev.st = "busy"
                  \/ Runs(c, "drq") /\ dev.st # "drq"
                  \/ Runs(c, "irq") /\ ~invoked
Forever(c) == FALSE                                    \* mutant: it waits for ever
MayGiveUp(c) == WaitsInVain(c)
TimeOut(c) ==
  /\ MayGiveUp(c)
  /\ Unlock(c) /\ late' = TRUE
  /\ UNCHANGED <<kinds, detected, flags, calls, opens, drive, erred, synced>>

\* The last ata_wait, whatever comes of it.
Finish(c) ==
  /\ Runs(c, "end")
  /\ Unlock(c)
  /\ UNCHANGED <<kinds, detected, flags, calls, opens, drive, late, erred, synced>>

---------------------------------------------------------------------------
Step(c) == SpinLock(c) \/ SendCommand(c) \/ TakeIrq(c) \/ Transfer(c) \/ FlushCache(c)
             \/ TimeOut(c) \/ Finish(c)
Next == \/ Detect \/ Drive \/ Irq \/ Call \/ Open
        \/ \E c \in Callers : Step(c) \/ Spin(c)

\* The code gets on, and the processor takes its interrupts.  Of the drive nothing is
\* assumed.  The bounds end the process's calls, so the shell runs again for good.
Spec == Init /\ [][Next]_vars /\ WF_vars(Irq) /\ \A c \in Callers : WF_vars(Step(c))

---------------------------------------------------------------------------
\* Properties.

TypeOK ==
  /\ detected \in 0 .. Len(Drives)
  /\ {invoked, error, pending, late, erred, synced} \subseteq BOOLEAN
  /\ lock \in Callers \cup {None} /\ running \in Callers
  /\ \A c \in Callers :
       /\ op[c].pc \in {"idle", "lock", "ready", "irq", "drq", "flush", "end"}
       /\ op[c].kind \in {"none", "read", "write", "flush"}
       /\ op[c].done <= op[c].n /\ Len(op[c].got) <= op[c].n
  /\ dev.st \in {"idle", "busy", "drq"} /\ dev.lba \in Lbas
  /\ held \in [Lbas -> Values] /\ platter \in [Lbas -> Values]
  /\ calls \in 0 .. MaxCalls /\ opens \in 0 .. MaxOpens

\* What a read that succeeds has in its buffer are the sectors that were asked for, in
\* their order, even if the flag that it took was left by another command, until a call
\* gives up: the wait for the data makes up for it (ata.c:205-210, 277-284).
ReadIsTrue ==
  \A c \in Callers : op[c].pc = "end" /\ op[c].kind = "read" /\ ~late =>
    op[c].got = [k \in 1 .. op[c].n |-> held[op[c].lba + k - 1]]

\* A write that is reported done is on the platter, if no interrupt and no command was
\* left over when it began and no call has given up (ata.c:245-252, 313-328).
WriteIsFlushed ==
  \A c \in Callers : op[c].pc = "end" /\ op[c].kind = "flush" /\ op[c].fresh /\ ~late =>
    \A k \in 1 .. op[c].n : platter[op[c].lba + k - 1] = op[c].val

\* A call that begins with no flag, interrupt or command left over leaves none, whether
\* it succeeds or the drive fails in it: from then on a command takes its own interrupt
\* and no other, until one gives up (ata.c:50-63, 205, 245-252, 278, 320-324).
InSync == synced /\ ~late /\ lock = None => NotLeftOver

\* A call that begins with nothing left over fails only because the drive failed in it,
\* until a call gives up: it does not take the error of another (ata.c:24, 31, 54-57).
FailsOnlyBy ==
  [][\A c \in Callers :
       /\ lock = c /\ lock' = None /\ op[c].pc # "end"
       /\ op[c].fresh /\ ~late'
       => erred]_vars

\* Whatever the drive does or leaves undone a call returns and gives the lock back; it
\* does not if a process enters the driver while the shell is in it: the process spins
\* with interrupts off (ata.c:12-16, 40-63; syscall.asm:6).
Stuck == running = User /\ lock = Shell
CallReturns == op[Shell].pc # "idle" ~> op[Shell].pc = "idle" \/ Stuck
=============================================================================
