------------------------------ MODULE AtaProofs ------------------------------
(***************************************************************************)
(* Ata, for every disk, every run of sectors and any number of calls: what *)
(* a read returns, what a write leaves on the platter, and that a call     *)
(* which begins with nothing left over leaves nothing.                     *)
(***************************************************************************)
EXTENDS Ata, TLAPS

\* The inductive invariant.  Its first part is about the calls: how far each is, by its
\* pc, and that it holds the lock from ready to end.
Pcs   == {"idle", "lock", "ready", "irq", "drq", "flush", "end"}
Kinds == {"none", "read", "write", "flush"}
OpType == [pc : Pcs, kind : Kinds, lba : Nat, n : Nat, val : Values \cup {None},
           done : Nat, got : Seq(Values), fresh : BOOLEAN]
Progress(o) ==
  /\ o.pc # "idle" => o.n >= 1 /\ o.lba + o.n <= MaxLba
  /\ o.pc \in {"idle", "lock", "ready"} => o.done = 0 /\ o.got = <<>>
  /\ o.pc \in {"lock", "ready"} => o.kind \in {"read", "write"}
  /\ o.pc \in {"irq", "end"} => o.kind \in {"read", "write", "flush"}
  /\ o.pc = "drq" => o.kind \in {"read", "write"} /\ o.done < o.n
  /\ o.pc = "flush" => o.kind = "write" /\ o.done = o.n
  /\ o.pc = "end" => o.kind # "write" /\ o.done = o.n
  /\ o.kind = "read" /\ o.pc = "irq" => o.done < o.n
  /\ o.kind = "write" /\ o.pc = "irq" => o.done >= 1
  /\ o.kind = "flush" => o.done = o.n
  /\ o.kind \in {"write", "flush"} => o.val \in Values
  /\ o.done <= o.n /\ Len(o.got) <= o.done
CallInv == /\ op \in [Callers -> OpType]
           /\ \A c \in Callers : Progress(op[c])
LockInv == /\ \A c \in Callers : lock = c <=> op[c].pc \notin {"idle", "lock"}
           /\ lock \in Callers \cup {None}
           /\ running = IF op[User].pc = "idle" THEN Shell ELSE User

\* The second is about the drive on its own: the rest of its command is on the disk.
DevType == [st : {"idle", "busy", "drq"}, cmd : Kinds, lba : Lbas, left : Nat,
            val : Values \cup {None}, err : BOOLEAN]
DevInv ==
  /\ dev \in DevType /\ dev.lba + dev.left <= MaxLba
  /\ dev.st = "busy" /\ dev.cmd = "write" => dev.val \in Values
  /\ dev.err => dev.st = "idle"
FlagInv == /\ {invoked, error, pending, late, erred, synced} \subseteq BOOLEAN
           /\ error => invoked
DiskInv == held \in [Lbas -> Values] /\ platter \in [Lbas -> Values]
CountInv == /\ detected \in 0 .. Len(Drives)
            /\ calls \in 0 .. MaxCalls /\ opens \in 0 .. MaxOpens
            /\ detected # Len(Drives) => calls = 0
            /\ calls = 0 => ~synced /\ \A c \in Callers : op[c].pc = "idle"

\* The third relates the two until a call gives up: the drive is at the sector the call
\* is at, or one behind it while it writes, or it has failed; and between two calls it
\* may at most be at its last sector or at a flush.
AtRest == \/ dev.st = "idle"
          \/ dev.st = "busy" /\ dev.cmd # "read" /\ dev.left <= 1
Reading(o) == dev.cmd = "read" /\ dev.left = o.n - o.done /\ dev.lba = o.lba + o.done
Writing(o) ==
  /\ dev.cmd = "write"
  /\ \/ /\ dev.st = "drq" /\ o.done < o.n
        /\ dev.left = o.n - o.done /\ dev.lba = o.lba + o.done
     \/ /\ dev.st = "busy" /\ o.done >= 1 /\ dev.val = o.val
        /\ dev.left = o.n - o.done + 1 /\ dev.lba = o.lba + o.done - 1
Serves(o) ==
  /\ o.pc = "ready" \/ o.kind = "flush" => AtRest
  /\ o.kind = "read" /\ o.pc = "end" => dev.st = "idle"
  /\ o.kind = "read" /\ o.pc \in {"irq", "drq"} => dev.st = "idle" \/ Reading(o)
  /\ o.kind = "write" /\ o.pc \in {"irq", "drq", "flush"} => dev.st = "idle" \/ Writing(o)
  /\ o.kind = "read" => o.got = [k \in 1 .. o.done |-> held[o.lba + k - 1]]
ServeInv == ~late => /\ \A c \in Callers : lock = c => Serves(op[c])
                     /\ lock = None => AtRest

\* The fourth is about a call that began with nothing left over: its command, and no
\* other, has the one interrupt that is on its way or has come.
Silent == ~pending /\ ~invoked
OneIrq == pending = ~invoked
Wrote(disk, o, d) == \A k \in 1 .. d : disk[o.lba + k - 1] = o.val
Awaits(o) == /\ dev.st = "busy" /\ dev.cmd = o.kind /\ Silent
             /\ o.kind = "write" => Wrote(held, o, o.done - 1)
             /\ o.kind = "flush" => Wrote(held, o, o.n)
Failed == dev.st = "idle" /\ dev.err /\ erred /\ OneIrq /\ error = invoked
Worked(o) == /\ OneIrq /\ ~error /\ ~dev.err
             /\ dev.st = IF o.kind = "read" \/ o.done < o.n THEN "drq" ELSE "idle"
             /\ o.kind = "write" => Wrote(held, o, o.done)
             /\ o.kind = "flush" => Wrote(platter, o, o.n)
Exact(o) ==
  /\ o.pc \in {"ready", "flush", "end"} => NotLeftOver
  /\ o.pc = "drq" => Silent /\ dev.st = "drq"
  /\ o.pc = "irq" => Awaits(o) \/ Failed \/ Worked(o)
  /\ o.kind = "write" /\ o.pc \in {"drq", "flush"} => Wrote(held, o, o.done)
  /\ o.kind = "flush" /\ o.pc = "end" => Wrote(platter, o, o.n)
SyncInv ==
  ~late => /\ \A c \in Callers : lock = c /\ op[c].fresh => Exact(op[c])
           /\ synced => /\ lock = None => NotLeftOver
                        /\ \A c \in Callers : lock = c => op[c].fresh

IInv == CallInv /\ LockInv /\ DevInv /\ FlagInv /\ DiskInv /\ CountInv /\ ServeInv /\ SyncInv

---------------------------------------------------------------------------
LEMMA InitInv == Init => IInv
<1> SUFFICES ASSUME Init PROVE IInv
  OBVIOUS
<1> USE SizeAssumption, NameAssumption DEF Init
<1>1. Blank \in Values /\ 0 \in Lbas
  BY DEF Blank, Lbas
<1>2. CallInv /\ LockInv
  BY DEF CallInv, LockInv, Progress, OpType, Pcs, Kinds, NoOp, Callers
<1>3. DevInv
  BY <1>1 DEF DevInv, DevType, Quiet, Kinds, Lbas
<1>4. FlagInv
  BY <1>1 DEF FlagInv, Quiet
<1>5. DiskInv
  BY <1>1 DEF DiskInv
<1>6. CountInv
  BY DEF CountInv, NoOp
<1>7. ServeInv /\ SyncInv
  BY DEF ServeInv, SyncInv, AtRest, Quiet, Callers
<1> QED BY <1>2, <1>3, <1>4, <1>5, <1>6, <1>7 DEF IInv

\* A drive that is set up or gives its interrupt: the calls do not move.
LEMMA DetectInv == IInv /\ Detect => IInv'
<1> SUFFICES ASSUME IInv, Detect PROVE IInv'
  OBVIOUS
<1> USE SizeAssumption, NameAssumption DEF IInv, Detect, flags, drive
<1>1. (CallInv /\ LockInv /\ DevInv /\ DiskInv)'
  BY DEF CallInv, LockInv, DevInv, DiskInv
<1>2. (FlagInv /\ CountInv)'
  BY DEF FlagInv, CountInv
<1>3. lock = None /\ ~synced
  BY DEF CountInv, LockInv, Callers
<1>4. (ServeInv /\ SyncInv)'
  BY <1>3 DEF ServeInv, SyncInv, AtRest, Callers
<1> QED BY <1>1, <1>2, <1>4 DEF IInv

\* The drive at work moves to its next sector, or ends; a call that began with nothing
\* left over awaits just that.
LEMMA AfterType ==
  ASSUME DevInv, dev.st \in {"busy", "drq"}, NEW st \in {"busy", "drq"},
         st = "busy" => dev.cmd # "write"
  PROVE  /\ After(st) \in DevType
         /\ After(st).lba + After(st).left <= MaxLba
         /\ After(st).st = "busy" => After(st).cmd # "write"
         /\ After(st).st \in {st, "idle"} /\ ~After(st).err
         /\ dev.left > 1 => After(st) = [dev EXCEPT !.st = st, !.lba = dev.lba + 1,
                                                    !.left = dev.left - 1]
         /\ ~(dev.left > 1) => After(st) = Quiet
<1> USE SizeAssumption DEF DevType, Lbas, Kinds
<1>1. /\ dev \in DevType /\ dev.lba \in 0 .. MaxLba - 1 /\ dev.left \in Nat /\ ~dev.err
      /\ dev.lba + dev.left <= MaxLba
  BY DEF DevInv
<1> DEFINE Good(d) == /\ d \in DevType /\ d.lba + d.left <= MaxLba /\ ~d.err
                      /\ d.st = "busy" => d.cmd # "write"
                      /\ d.st \in {st, "idle"}
           Moved == [dev EXCEPT !.st = st, !.lba = dev.lba + 1, !.left = dev.left - 1]
<1>2. dev.left > 1 => Good(Moved)
  <2> SUFFICES ASSUME dev.left > 1 PROVE Good(Moved)
    OBVIOUS
  <2>1. dev.lba + 1 \in Lbas /\ dev.left - 1 \in Nat /\ dev.lba + 1 + (dev.left - 1) <= MaxLba
    BY <1>1
  <2>2. /\ Moved \in DevType /\ Moved.lba = dev.lba + 1 /\ Moved.left = dev.left - 1
        /\ Moved.st = st /\ Moved.cmd = dev.cmd /\ Moved.err = dev.err
    BY <1>1, <2>1
  <2> HIDE DEF Moved
  <2> QED BY <1>1, <2>1, <2>2
<1>3. Good(Quiet)
  BY DEF Quiet
<1>4. /\ dev.left > 1 => After(st) = Moved
      /\ ~(dev.left > 1) => After(st) = Quiet
  BY DEF After
<1> HIDE DEF Moved
<1>5. Good(After(st))
  BY <1>2, <1>3, <1>4, Zenon
<1> HIDE DEF Good
<1>6. /\ After(st) \in DevType /\ After(st).lba + After(st).left <= MaxLba /\ ~After(st).err
      /\ After(st).st = "busy" => After(st).cmd # "write"
      /\ After(st).st \in {st, "idle"}
  BY <1>5, Zenon DEF Good
<1> QED BY <1>4, <1>6, Zenon DEF Moved

LEMMA BusyAwaits ==
  ASSUME IInv, dev.st = "busy", ~late
  PROVE  /\ \A c \in Callers : lock = c /\ op[c].fresh => op[c].pc = "irq" /\ Awaits(op[c])
         /\ lock = None => ~synced
<1>1. ASSUME NEW c \in Callers, lock = c, op[c].fresh
      PROVE  op[c].pc = "irq" /\ Awaits(op[c])
  <2>1. Exact(op[c]) /\ op[c].pc \in Pcs \ {"idle", "lock"}
    BY <1>1 DEF IInv, SyncInv, LockInv, CallInv, OpType
  <2>2. op[c].pc = "irq"
    BY <2>1 DEF Exact, NotLeftOver, Pcs
  <2> QED BY <2>1, <2>2 DEF Exact, Failed, Worked
<1> QED BY <1>1 DEF IInv, SyncInv, NotLeftOver

\* The synchrony of the drive and a call, from what becomes of the call that awaits it.
LEMMA SyncOfAwaits ==
  ASSUME IInv, dev.st = "busy", UNCHANGED <<lock, op, synced, late>>,
         \A c \in Callers : ~late /\ lock = c /\ op[c].fresh /\ op[c].pc = "irq" /\ Awaits(op[c])
                              => Failed' \/ Worked(op[c])'
  PROVE  SyncInv'
<1> SUFFICES ASSUME ~late PROVE SyncInv'
  BY DEF SyncInv
<1>1. ASSUME NEW c \in Callers, lock = c, op[c].fresh PROVE Exact(op[c])'
  BY <1>1, BusyAwaits DEF Exact
<1> QED BY <1>1, BusyAwaits DEF SyncInv, IInv

LEMMA WorkInv == IInv /\ Drive /\ Work => IInv'
<1> SUFFICES ASSUME IInv, Drive, Work PROVE IInv'
  OBVIOUS
<1> USE SizeAssumption, NameAssumption DEF IInv, flags
<1>1. /\ UNCHANGED <<kinds, detected, invoked, error, lock, op, running, calls, opens, late,
                      synced, erred>>
      /\ dev.st = "busy" /\ pending' = TRUE
  BY DEF Drive, Work
<1>2. (CallInv /\ LockInv /\ CountInv /\ FlagInv)'
  BY <1>1 DEF CallInv, LockInv, CountInv, FlagInv
<1>3. Silent => OneIrq' /\ ~error'
  BY <1>1 DEF Silent, OneIrq, FlagInv
<1>4. CASE dev.cmd = "read" /\ dev' = [dev EXCEPT !.st = "drq"] /\ UNCHANGED <<held, platter>>
  <2>1. (DevInv /\ DiskInv)'
    BY <1>1, <1>4 DEF DevInv, DevType, DiskInv
  <2>2. ServeInv'
    BY <1>1, <1>4 DEF ServeInv, Serves, AtRest, Reading, Writing, DevInv, DevType
  <2>3. dev'.st = "drq" /\ ~dev'.err
    BY <1>1, <1>4 DEF DevInv, DevType
  <2>4. \A c \in Callers : op[c].pc = "irq" /\ Awaits(op[c]) => Worked(op[c])'
    BY <1>1, <1>3, <1>4, <2>3 DEF Awaits, Worked
  <2>5. SyncInv'
    BY <1>1, <2>4, SyncOfAwaits
  <2> QED BY <1>2, <2>1, <2>2, <2>5
<1>5. CASE dev.cmd = "write" /\ dev' = After("drq") /\ UNCHANGED platter
             /\ held' = [held EXCEPT ![dev.lba] = dev.val]
  <2>1. /\ dev' \in DevType /\ dev'.lba + dev'.left <= MaxLba
        /\ dev'.st \in {"drq", "idle"} /\ ~dev'.err
        /\ dev.left > 1 => dev' = [dev EXCEPT !.st = "drq", !.lba = dev.lba + 1, !.left = dev.left - 1]
        /\ ~(dev.left > 1) => dev' = Quiet
    <3>1. DevInv /\ dev.st \in {"busy", "drq"} /\ "drq" # "busy"
      BY <1>1
    <3> QED BY <1>5, <3>1, AfterType, Zenon
  <2>2. dev.lba \in Lbas /\ dev.val \in Values /\ dev \in DevType
    BY <1>1, <1>5 DEF DevInv, DevType
  <2>3. (DevInv /\ DiskInv)'
    BY <1>5, <2>1, <2>2 DEF DevInv, DiskInv
  <2>4. dev.left > 1 => /\ dev'.st = "drq" /\ dev'.cmd = "write" /\ dev'.lba = dev.lba + 1
                        /\ dev'.left = dev.left - 1
    BY <1>5, <2>1, <2>2 DEF DevType
  <2>5. ~(dev.left > 1) => dev'.st = "idle"
    BY <2>1 DEF Quiet
  <2>6. dev.left \in Nat /\ dev.lba \in Nat
    BY <2>2 DEF DevType, Lbas
  <2>7. ASSUME NEW c \in Callers, ~late, lock = c PROVE Serves(op[c])'
    <3> DEFINE o == op[c]
    <3>1. Serves(o) /\ Progress(o) /\ o \in OpType
      BY <2>7 DEF ServeInv, CallInv
    <3>2. o.pc = "ready" \/ o.kind = "flush" => AtRest'
      BY <1>1, <2>5, <2>6, <3>1 DEF Serves, AtRest
    <3>3. o.kind = "read" => o.pc = "ready"
      BY <1>1, <1>5, <2>7, <3>1 DEF Serves, Reading, LockInv, OpType, Pcs, Progress
    <3>4. o.kind = "write" /\ o.pc \in {"irq", "drq", "flush"} => dev'.st = "idle" \/ Writing(o)'
      <4>1. SUFFICES ASSUME o.kind = "write", o.pc \in {"irq", "drq", "flush"}, dev.left > 1
                     PROVE Writing(o)'
        BY <2>5, <2>6
      <4>2. o.n \in Nat /\ o.done \in Nat /\ o.lba \in Nat
        BY <3>1 DEF OpType
      <4>3. dev.left = o.n - o.done + 1 /\ dev.lba = o.lba + o.done - 1
        BY <1>1, <3>1, <4>1 DEF Serves, Writing
      <4>4. dev'.left = o.n - o.done /\ dev'.lba = o.lba + o.done
        BY <2>4, <4>1, <4>2, <4>3
      <4>5. o.done < o.n
        BY <4>1, <4>2, <4>3
      <4> QED BY <1>1, <2>4, <4>1, <4>4, <4>5 DEF Writing
    <3>5. o.kind = "read" => o.got = [k \in 1 .. o.done |-> held'[o.lba + k - 1]]
      BY <3>1, <3>3 DEF Serves, Progress
    <3> QED BY <1>1, <3>1, <3>2, <3>3, <3>4, <3>5 DEF Serves
  <2>8. ServeInv'
    BY <1>1, <2>5, <2>6, <2>7 DEF ServeInv, AtRest
  <2>9. ASSUME NEW c \in Callers, ~late, lock = c, op[c].fresh, op[c].pc = "irq", Awaits(op[c])
        PROVE  Worked(op[c])'
    <3> DEFINE o == op[c]
    <3>1. Serves(o) /\ Progress(o) /\ o \in OpType
      BY <2>9 DEF ServeInv, CallInv
    <3>2. o.n \in Nat /\ o.done \in Nat /\ o.lba \in Nat /\ o.done <= o.n
      BY <3>1 DEF OpType, Progress
    <3>3. /\ o.kind = "write" /\ o.done >= 1 /\ dev.left = o.n - o.done + 1
          /\ dev.val = o.val /\ dev.lba = o.lba + o.done - 1
      BY <1>1, <1>5, <2>9, <3>1 DEF Awaits, Serves, Writing
    <3>4. ASSUME NEW k \in 1 .. o.done PROVE held'[o.lba + k - 1] = o.val
      <4>1. CASE k = o.done
        BY <1>5, <2>2, <3>3, <4>1 DEF DiskInv
      <4>2. CASE k # o.done
        <5>1. k \in 1 .. o.done - 1 /\ o.lba + k - 1 # dev.lba
          BY <3>2, <3>3, <4>2
        <5>2. held[o.lba + k - 1] = o.val
          BY <2>9, <3>3, <5>1 DEF Awaits, Wrote
        <5> QED BY <1>5, <5>1, <5>2 DEF DiskInv
      <4> QED BY <4>1, <4>2
    <3>5. dev'.st = IF o.done < o.n THEN "drq" ELSE "idle"
      BY <2>4, <2>5, <3>2, <3>3
    <3>6. Wrote(held', o, o.done)
      BY <3>4 DEF Wrote
    <3> QED BY <1>1, <1>3, <2>1, <2>9, <3>3, <3>5, <3>6 DEF Worked, Awaits, Wrote
  <2>10. SyncInv'
    BY <1>1, <2>9, SyncOfAwaits
  <2> QED BY <1>2, <2>3, <2>8, <2>10
<1>6. CASE dev.cmd = "flush" /\ platter' = held /\ dev' = Quiet /\ UNCHANGED held
  <2>1. dev' \in DevType /\ dev'.lba + dev'.left <= MaxLba /\ dev'.st = "idle" /\ ~dev'.err
    BY <1>6 DEF Quiet, DevType, Kinds, Lbas
  <2>2. (DevInv /\ DiskInv)'
    BY <1>6, <2>1 DEF DevInv, DiskInv
  <2>3. ServeInv'
    BY <1>1, <1>6, <2>1 DEF ServeInv, Serves, AtRest
  <2>4. \A c \in Callers : op[c].pc = "irq" /\ Awaits(op[c]) => Worked(op[c])'
    BY <1>1, <1>3, <1>6, <2>1 DEF Awaits, Worked, Wrote, CallInv, Progress, OpType
  <2>5. SyncInv'
    BY <1>1, <2>4, SyncOfAwaits
  <2> QED BY <1>2, <2>2, <2>3, <2>5
<1> QED BY <1>1, <1>4, <1>5, <1>6 DEF Work

LEMMA FailInv == IInv /\ Drive /\ Fail => IInv'
<1> SUFFICES ASSUME IInv, Drive, Fail PROVE IInv'
  OBVIOUS
<1> USE SizeAssumption, NameAssumption DEF IInv, flags
<1>1. /\ UNCHANGED <<kinds, detected, invoked, error, lock, op, running, calls, opens, late,
                      synced, held, platter>>
      /\ dev.st = "busy" /\ pending' = TRUE /\ erred' = TRUE
  BY DEF Drive, Fail
<1>2. (CallInv /\ LockInv /\ CountInv /\ FlagInv /\ DiskInv)'
  BY <1>1 DEF CallInv, LockInv, CountInv, FlagInv, DiskInv
<1>3. /\ dev' \in DevType /\ dev'.st = "idle" /\ dev'.err
      /\ dev'.lba = 0 /\ dev'.left = 0
  <2>1. dev' = [Quiet EXCEPT !.err = TRUE]
    BY DEF Fail
  <2>2. Quiet \in DevType /\ Quiet.st = "idle" /\ Quiet.lba = 0 /\ Quiet.left = 0
    BY DEF Quiet, DevType, Kinds, Lbas
  <2> QED BY <2>1, <2>2 DEF DevType
<1>4. DevInv'
  BY <1>3 DEF DevInv
<1>5. ServeInv'
  BY <1>1, <1>3 DEF ServeInv, Serves, AtRest
<1>6. \A c \in Callers : op[c].pc = "irq" /\ Awaits(op[c]) => Failed'
  BY <1>1, <1>3 DEF Awaits, Failed, OneIrq, Silent, FlagInv
<1>7. SyncInv'
  BY <1>1, <1>6, SyncOfAwaits
<1> QED BY <1>2, <1>4, <1>5, <1>7

LEMMA IrqInv == IInv /\ Irq => IInv'
<1> SUFFICES ASSUME IInv, Irq PROVE IInv'
  OBVIOUS
<1> USE DEF IInv
<1>1. /\ UNCHANGED <<kinds, detected, lock, op, running, calls, opens, dev, late, erred,
                      synced, held, platter>>
      /\ pending = TRUE /\ pending' = FALSE /\ invoked' = TRUE /\ error' = (error \/ dev.err)
  BY DEF Irq, FlagInv
<1>2. (CallInv /\ LockInv /\ DevInv /\ DiskInv /\ CountInv)'
  BY <1>1 DEF CallInv, LockInv, DevInv, DiskInv, CountInv
<1>3. dev.err \in BOOLEAN
  BY DEF DevInv, DevType
<1>4. FlagInv'
  BY <1>1, <1>3 DEF FlagInv
<1>5. ServeInv'
  BY <1>1 DEF ServeInv, Serves, AtRest, Reading, Writing
<1>6. ASSUME NEW c \in Callers, ~late, lock = c, op[c].fresh PROVE Exact(op[c])'
  <2>1. Exact(op[c]) /\ op[c].pc \in Pcs \ {"idle", "lock"}
    BY <1>6 DEF SyncInv, LockInv, CallInv, OpType
  <2>2. op[c].pc = "irq" /\ (Failed \/ Worked(op[c])) /\ ~invoked
    BY <1>1, <2>1 DEF Exact, NotLeftOver, Silent, Awaits, Failed, Worked, OneIrq, FlagInv, Pcs
  <2>3. CASE Failed
    BY <1>1, <2>2, <2>3 DEF Failed, OneIrq, Exact
  <2>4. CASE Worked(op[c])
    BY <1>1, <2>2, <2>4 DEF Worked, OneIrq, Exact, Wrote
  <2> QED BY <2>2, <2>3, <2>4
<1>7. SyncInv'
  BY <1>1, <1>6 DEF SyncInv, NotLeftOver
<1> QED BY <1>2, <1>4, <1>5, <1>7

\* One call moves on: what it takes for the invariant of both.
LEMMA OneCall ==
  ASSUME IInv, NEW c \in Callers, NEW o \in OpType, Progress(o), op' = [op EXCEPT ![c] = o],
         o.pc \in {"idle", "lock"} <=> op[c].pc \in {"idle", "lock"},
         c = User => running' = IF o.pc = "idle" THEN Shell ELSE User,
         c # User => running' = running, UNCHANGED lock
  PROVE  /\ (CallInv /\ LockInv)'
         /\ op'[c] = o /\ \A d \in Callers : d # c => op'[d] = op[d]
<1>1. op'[c] = o /\ (\A d \in Callers : d # c => op'[d] = op[d]) /\ op' \in [Callers -> OpType]
  BY DEF IInv, CallInv
<1>2. CallInv'
  BY <1>1 DEF CallInv, IInv
<1>3. \A d \in Callers : lock' = d <=> op'[d].pc \notin {"idle", "lock"}
  BY <1>1 DEF LockInv, IInv
<1>4. running' = IF op'[User].pc = "idle" THEN Shell ELSE User
  BY <1>1 DEF LockInv, IInv, Callers
<1>5. LockInv'
  BY <1>3, <1>4 DEF LockInv, IInv
<1> QED BY <1>1, <1>2, <1>5

\* A call returns and gives the lock back.
LEMMA Unlocks ==
  ASSUME IInv, NEW c \in Callers, lock = c, running = c, Unlock(c)
  PROVE  /\ (CallInv /\ LockInv)' /\ lock' = None
         /\ \A d \in Callers : op'[d].pc \in {"idle", "lock"}
<1>1. NoOp \in OpType /\ Progress(NoOp) /\ NoOp.pc = "idle"
  BY DEF NoOp, OpType, Progress, Pcs, Kinds
<1>2. /\ op'[c] = NoOp /\ (\A d \in Callers : d # c => op'[d] = op[d])
      /\ op' \in [Callers -> OpType]
  BY <1>1 DEF IInv, CallInv, Unlock, EndOfCall
<1>3. CallInv'
  BY <1>1, <1>2 DEF CallInv, IInv
<1>4. \A d \in Callers : d # c => op[d].pc \in {"idle", "lock"}
  BY NameAssumption DEF LockInv, IInv
<1>5. lock' = None /\ running' = Shell
  BY DEF Unlock
<1>6. op'[User].pc = "idle"
  BY <1>1, <1>2, NameAssumption DEF LockInv, IInv, Callers
<1>7. LockInv'
  BY <1>1, <1>2, <1>4, <1>5, <1>6, NameAssumption DEF LockInv, Callers
<1> QED BY <1>1, <1>2, <1>3, <1>4, <1>5, <1>7

\* A call that begins waits for the lock, and disturbs no other.
LEMMA Begins ==
  ASSUME IInv, NEW c \in Callers, op[c].pc = "idle",
         NEW kind \in {"read", "write"}, NEW lba \in Lbas, NEW n \in Nat \ {0},
         lba + n <= MaxLba, NEW val \in Values \cup {None}, kind = "write" => val \in Values,
         Begin(c, kind, lba, n, val), UNCHANGED <<lock, dev, held, platter, pending, flags,
                                                   late, erred, synced, detected>>,
         calls' \in 1 .. MaxCalls, opens' \in 0 .. MaxOpens, calls = 0 => detected = Len(Drives),
         c = User => running' = User, c # User => running' = running
  PROVE  IInv'
<1> DEFINE o == [pc |-> "lock", kind |-> kind, lba |-> lba, n |-> n, val |-> val, done |-> 0,
                 got |-> <<>>, fresh |-> FALSE]
<1>1. /\ o \in OpType /\ o.pc = "lock" /\ o.kind = kind /\ o.lba = lba /\ o.n = n
      /\ o.val = val /\ o.done = 0 /\ o.got = <<>>
  <2>2. lba \in Nat /\ <<>> \in Seq(Values)
    BY SizeAssumption DEF Lbas
  <2> QED BY <2>2 DEF OpType, Pcs, Kinds
<1>2. op' = [op EXCEPT ![c] = o]
  BY DEF Begin
<1> HIDE DEF o
<1>3. Progress(o)
  BY <1>1 DEF Progress
<1>4. /\ (CallInv /\ LockInv)'
      /\ op'[c] = o /\ \A d \in Callers : d # c => op'[d] = op[d]
  BY <1>1, <1>2, <1>3, OneCall
<1>5. lock # c
  BY DEF IInv, LockInv
<1>6. (DevInv /\ FlagInv /\ DiskInv)'
  BY DEF IInv, DevInv, FlagInv, DiskInv, flags
<1>7. CountInv'
  BY DEF IInv, CountInv
<1>8. ServeInv'
  BY <1>4, <1>5 DEF IInv, ServeInv, Serves, AtRest, Reading, Writing, flags
<1>9. SyncInv'
  BY <1>4, <1>5 DEF IInv, SyncInv, Exact, Awaits, Failed, Worked, Wrote, Silent, OneIrq,
                    NotLeftOver, flags
<1> QED BY <1>4, <1>6, <1>7, <1>8, <1>9 DEF IInv

LEMMA CallsInv == IInv /\ Call => IInv'
<1> SUFFICES ASSUME IInv, Call PROVE IInv'
  OBVIOUS
<1>1. PICK r \in Requests : \/ Begin(Shell, "read", r[1], r[2], None)
                            \/ \E v \in Values : Begin(Shell, "write", r[1], r[2], v)
  BY DEF Call
<1>2. r[1] \in Lbas /\ r[2] \in Nat \ {0} /\ r[1] + r[2] <= MaxLba
  BY DEF Requests
<1>3. /\ UNCHANGED <<lock, dev, held, platter, pending, flags, late, erred, synced, detected>>
      /\ calls' \in 1 .. MaxCalls /\ opens' \in 0 .. MaxOpens /\ detected = Len(Drives)
      /\ op[Shell].pc = "idle" /\ running' = running /\ Shell \in Callers /\ Shell # User
  BY SizeAssumption, NameAssumption DEF Call, Runs, drive, IInv, CountInv, Callers
<1>4. CASE Begin(Shell, "read", r[1], r[2], None)
  BY <1>2, <1>3, <1>4, Begins
<1>5. CASE \E v \in Values : Begin(Shell, "write", r[1], r[2], v)
  BY <1>2, <1>3, <1>5, Begins
<1> QED BY <1>1, <1>4, <1>5

LEMMA OpensInv == IInv /\ Open => IInv'
<1> SUFFICES ASSUME IInv, Open PROVE IInv'
  OBVIOUS
<1>1. PICK l \in Lbas : Begin(User, "read", l, 1, None)
  BY DEF Open
<1>2. l + 1 <= MaxLba /\ 1 \in Nat \ {0}
  BY SizeAssumption DEF Lbas
<1>3. op[User].pc = "idle"
  BY NameAssumption DEF Open, IInv, LockInv
<1>4. /\ UNCHANGED <<lock, dev, held, platter, pending, flags, late, erred, synced, detected>>
      /\ calls' \in 1 .. MaxCalls /\ opens' \in 0 .. MaxOpens /\ calls # 0
      /\ running' = User /\ User \in Callers
  BY SizeAssumption DEF Open, drive, IInv, CountInv, Callers
<1> QED BY <1>1, <1>2, <1>3, <1>4, Begins

\* ata_spin_lock: the call is fresh if nothing is left over, and the drive is at rest.
LEMMA SpinLockInv == ASSUME IInv, NEW c \in Callers, SpinLock(c) PROVE IInv'
<1> USE DEF IInv
<1> DEFINE o == op[c]
<1>1. /\ op[c].pc = "lock" /\ lock = None /\ lock' = c /\ erred' = FALSE
      /\ op' = [op EXCEPT ![c].pc = "ready", ![c].fresh = NotLeftOver]
      /\ synced' = (synced \/ NotLeftOver)
      /\ UNCHANGED <<kinds, detected, invoked, error, running, calls, opens, dev, held, platter,
                      pending, late>>
  BY DEF SpinLock, Runs, flags, drive
<1>2. op[c] \in OpType /\ Progress(op[c]) /\ NotLeftOver \in BOOLEAN
  BY DEF CallInv, NotLeftOver
<1>3. /\ o' = [op[c] EXCEPT !.pc = "ready", !.fresh = NotLeftOver]
      /\ \A d \in Callers : d # c => op'[d] = op[d]
  BY <1>1 DEF CallInv
<1>4. /\ o' \in OpType /\ o'.pc = "ready" /\ o'.kind = op[c].kind /\ o'.n = op[c].n
      /\ o'.lba = op[c].lba /\ o'.val = op[c].val /\ o'.done = op[c].done /\ o'.got = op[c].got
      /\ o'.fresh = NotLeftOver
  BY <1>2, <1>3 DEF OpType, Pcs
<1> HIDE DEF o
<1>5. Progress(o')
  BY <1>1, <1>2, <1>4 DEF Progress
<1>6. op' \in [Callers -> OpType]
  BY <1>1, <1>3, <1>4 DEF CallInv, o
<1>7. CallInv'
  BY <1>3, <1>5, <1>6 DEF CallInv, o
<1>8. LockInv'
  BY <1>1, <1>3, <1>4, NameAssumption DEF LockInv, Callers, o
<1>9. (DevInv /\ FlagInv /\ DiskInv)'
  BY <1>1, <1>2 DEF DevInv, FlagInv, DiskInv
<1>10. CountInv'
  BY <1>1 DEF CountInv
<1>11. ServeInv'
  <2>1. <<>> = [k \in 1 .. 0 |-> held'[o'.lba + k - 1]]
    OBVIOUS
  <2>2. ~late => AtRest'
    BY <1>1 DEF ServeInv, AtRest
  <2>3. o'.done = 0 /\ o'.got = <<>> /\ o'.kind # "flush"
    BY <1>4, <1>5 DEF Progress
  <2>4. ~late => Serves(o)'
    BY <1>4, <2>1, <2>2, <2>3 DEF Serves, o
  <2> QED BY <1>1, <2>4, NameAssumption DEF ServeInv, Callers, o
<1>12. SyncInv'
  BY <1>1, <1>2, <1>4, <1>5 DEF SyncInv, Exact, NotLeftOver, Progress, o
<1> QED BY <1>7, <1>8, <1>9, <1>10, <1>11, <1>12

\* The end of a call: the drive is at rest, and if the call began with nothing left over
\* nothing is left over, or a call has given up.
LEMMA Returns ==
  ASSUME IInv, NEW c \in Callers, lock = c, running = c, Unlock(c), FlagInv',
         UNCHANGED <<detected, calls, opens, dev, held, platter, pending, synced>>,
         ~late' => ~late /\ AtRest /\ (op[c].fresh => NotLeftOver')
  PROVE  IInv'
<1>1. /\ (CallInv /\ LockInv)' /\ lock' = None
      /\ \A d \in Callers : op'[d].pc \in {"idle", "lock"}
  BY Unlocks
<1>2. (DevInv /\ DiskInv)'
  BY DEF IInv, DevInv, DiskInv
<1>3. op[c].pc # "idle" /\ c # None
  BY NameAssumption DEF IInv, LockInv, Callers
<1>4. CountInv'
  BY <1>3 DEF IInv, CountInv
<1>5. \A d \in Callers : lock' # d
  BY <1>1, NameAssumption DEF Callers
<1>6. ServeInv'
  BY <1>5 DEF IInv, ServeInv, AtRest
<1>7. SyncInv'
  BY <1>5 DEF IInv, SyncInv
<1> QED BY <1>1, <1>2, <1>4, <1>6, <1>7 DEF IInv

LEMMA FinishInv == ASSUME IInv, NEW c \in Callers, Finish(c) PROVE IInv'
<1>1. /\ op[c].pc = "end" /\ running = c /\ Unlock(c)
      /\ UNCHANGED <<invoked, error, detected, calls, opens, dev, held, platter, pending, late,
                      erred, synced>>
  BY DEF Finish, Runs, flags, drive
<1>2. lock = c /\ Progress(op[c])
  BY <1>1 DEF IInv, LockInv, CallInv
<1>3. ~late => AtRest /\ (op[c].fresh => NotLeftOver)
  BY <1>1, <1>2 DEF IInv, ServeInv, SyncInv, Serves, Exact, Progress, AtRest
<1>4. FlagInv'
  BY <1>1 DEF IInv, FlagInv
<1> QED BY <1>1, <1>2, <1>3, <1>4, Returns DEF NotLeftOver

LEMMA TimeOutInv == ASSUME IInv, NEW c \in Callers, TimeOut(c) PROVE IInv'
<1>1. /\ op[c].pc \in {"ready", "drq", "irq"} /\ running = c /\ Unlock(c) /\ late' = TRUE
      /\ UNCHANGED <<invoked, error, detected, calls, opens, dev, held, platter, pending,
                      erred, synced>>
  BY DEF TimeOut, MayGiveUp, WaitsInVain, Runs, flags, drive
<1>2. lock = c
  BY <1>1 DEF IInv, LockInv
<1>3. FlagInv'
  BY <1>1 DEF IInv, FlagInv
<1> QED BY <1>1, <1>2, <1>3, Returns

\* A call that holds the lock gets on, and keeps it.
LEMMA Advances ==
  ASSUME IInv, NEW c \in Callers, lock = c,
         op' \in [Callers -> OpType], \A d \in Callers : d # c => op'[d] = op[d],
         Progress(op'[c]), op'[c].pc \notin {"idle", "lock"}, op'[c].fresh = op[c].fresh,
         UNCHANGED <<detected, lock, running, calls, opens, late, synced>>,
         DevInv', FlagInv', DiskInv',
         ~late => Serves(op[c])', ~late /\ op[c].fresh => Exact(op[c])'
  PROVE  IInv'
<1>1. CallInv'
  BY DEF IInv, CallInv
<1>2. op[c].pc # "idle" /\ c # None
  BY NameAssumption DEF IInv, LockInv, Callers
<1>3. LockInv'
  BY <1>2 DEF IInv, LockInv, Callers
<1>4. CountInv'
  BY <1>2 DEF IInv, CountInv
<1>5. ServeInv'
  BY <1>2 DEF IInv, ServeInv
<1>6. SyncInv'
  BY <1>2 DEF IInv, SyncInv
<1> QED BY <1>1, <1>3, <1>4, <1>5, <1>6 DEF IInv

LEMMA SentType ==
  ASSUME NEW cmd \in {"read", "write", "flush"}, NEW lba \in Lbas, NEW n \in Nat,
         lba + n <= MaxLba
  PROVE  LET d == Sent(cmd, lba, n) IN
         /\ d \in DevType /\ d.lba = lba /\ d.left = n /\ d.cmd = cmd /\ ~d.err
         /\ d.st = IF cmd = "write" THEN "drq" ELSE "busy"
BY DEF Sent, DevType, Kinds

LEMMA SendCommandInv == ASSUME IInv, NEW c \in Callers, SendCommand(c) PROVE IInv'
<1> USE DEF IInv
<1> DEFINE o == op[c]
           pc == IF o.kind = "read" THEN "irq" ELSE "drq"
<1>1. /\ o.pc = "ready" /\ dev.st # "busy" /\ Send(o.kind, o.lba, o.n)
      /\ op' = [op EXCEPT ![c].pc = pc]
      /\ UNCHANGED <<detected, invoked, error, lock, running, calls, opens, held, platter,
                      pending, late, erred, synced>>
  BY DEF SendCommand, Runs, flags
<1>2. o \in OpType /\ Progress(o) /\ lock = c
  BY <1>1 DEF CallInv, LockInv
<1>3. /\ o.kind \in {"read", "write"} /\ o.lba \in Nat /\ o.n \in Nat /\ o.n >= 1
      /\ o.lba + o.n <= MaxLba /\ o.done = 0 /\ o.got = <<>>
  BY <1>1, <1>2 DEF OpType, Progress
<1>4. /\ o' = [o EXCEPT !.pc = pc] /\ op' \in [Callers -> OpType]
      /\ \A d \in Callers : d # c => op'[d] = op[d]
  BY <1>1, <1>2 DEF CallInv, OpType, Pcs
<1>5. /\ o'.pc = pc /\ o'.kind = o.kind /\ o'.lba = o.lba /\ o'.n = o.n /\ o'.val = o.val
      /\ o'.done = o.done /\ o'.got = o.got /\ o'.fresh = o.fresh
  BY <1>2, <1>4 DEF OpType
<1>6. Progress(o')
  BY <1>2, <1>3, <1>5 DEF Progress
<1> DEFINE d == Sent(o.kind, o.lba, o.n)
<1>7. /\ d \in DevType /\ d.lba = o.lba /\ d.left = o.n /\ d.cmd = o.kind /\ ~d.err
      /\ d.st = IF o.kind = "write" THEN "drq" ELSE "busy"
  BY <1>3, SentType, SizeAssumption DEF Lbas
<1>8. dev' = d \/ (dev.st # "idle" /\ dev' = dev)
  BY <1>1 DEF Send
<1> HIDE DEF d
<1>9. DevInv'
  BY <1>3, <1>7, <1>8 DEF DevInv
<1>10. (FlagInv /\ DiskInv)'
  BY <1>1 DEF FlagInv, DiskInv
<1>11. ~late => dev' = d
  BY <1>1, <1>2, <1>8 DEF ServeInv, Serves, AtRest
<1>12. ASSUME ~late PROVE Serves(op[c])'
  <2>1. o'.got = [k \in 1 .. o'.done |-> held'[o'.lba + k - 1]]
    BY <1>3, <1>5
  <2>2. o.kind = "read" => Reading(o)'
    BY <1>3, <1>5, <1>7, <1>11, <1>12 DEF Reading
  <2>3. o.kind = "write" => Writing(o)'
    BY <1>3, <1>5, <1>7, <1>11, <1>12 DEF Writing
  <2> QED BY <1>3, <1>5, <2>1, <2>2, <2>3 DEF Serves
<1>13. ASSUME ~late, op[c].fresh PROVE Exact(op[c])'
  <2>1. NotLeftOver
    BY <1>1, <1>2, <1>13 DEF SyncInv, Exact
  <2>2. Silent'
    BY <1>1, <2>1 DEF NotLeftOver, Silent
  <2>3. Wrote(held', o', o'.done) /\ Wrote(held', o', o'.done - 1)
    BY <1>3, <1>5 DEF Wrote
  <2> QED BY <1>3, <1>5, <1>7, <1>11, <1>13, <2>2, <2>3 DEF Exact, Awaits, Wrote
<1>14. op'[c].pc \notin {"idle", "lock"}
  BY <1>5
<1> QED BY <1>1, <1>2, <1>4, <1>5, <1>6, <1>9, <1>10, <1>12, <1>13, <1>14, Advances

LEMMA TakeIrqInv == ASSUME IInv, NEW c \in Callers, TakeIrq(c) PROVE IInv'
<1> USE DEF IInv
<1> DEFINE o == op[c]
           pc == AfterIrq(c)
<1>1. /\ o.pc = "irq" /\ running = c /\ invoked = TRUE /\ invoked' = FALSE /\ error' = FALSE
      /\ IF error THEN Unlock(c)
         ELSE op' = [op EXCEPT ![c].pc = pc] /\ UNCHANGED <<lock, running>>
      /\ late' = (late \/ (error /\ dev.st # "idle"))
      /\ UNCHANGED <<detected, calls, opens, dev, held, platter, pending, erred, synced>>
  BY DEF TakeIrq, Taken, Runs, drive, FlagInv
<1>2. o \in OpType /\ Progress(o) /\ lock = c
  BY <1>1 DEF CallInv, LockInv
<1>3. FlagInv'
  BY <1>1 DEF FlagInv
<1>4. ~late /\ o.fresh => Failed \/ Worked(o)
  BY <1>1, <1>2 DEF SyncInv, Exact, Awaits, Silent
<1>5. CASE error
  <2>1. ~late' => ~late /\ AtRest
    BY <1>1, <1>5 DEF FlagInv, AtRest
  <2>2. ~late' /\ o.fresh => NotLeftOver'
    BY <1>1, <1>4, <1>5, <2>1 DEF Failed, Worked, OneIrq, NotLeftOver, FlagInv
  <2> QED BY <1>1, <1>2, <1>3, <1>5, <2>1, <2>2, Returns
<1>6. CASE ~error
  <2>1. /\ o.kind \in {"read", "write", "flush"} /\ o.done \in Nat /\ o.n \in Nat /\ o.done <= o.n
        /\ o.kind = "read" => o.done < o.n
        /\ o.kind = "flush" => ~(o.done < o.n)
    BY <1>1, <1>2 DEF OpType, Progress
  <2>2. pc = IF o.kind = "read" THEN "drq" ELSE IF o.kind = "flush" THEN "end"
             ELSE IF o.done < o.n THEN "drq" ELSE "flush"
    <3>1. CASE o.kind = "read"
      BY <3>1 DEF AfterIrq
    <3>2. CASE o.kind = "flush"
      BY <2>1, <3>2 DEF AfterIrq
    <3>3. CASE o.kind = "write" /\ o.done < o.n
      BY <3>3 DEF AfterIrq
    <3>4. CASE o.kind = "write" /\ ~(o.done < o.n)
      BY <3>4 DEF AfterIrq
    <3> QED BY <2>1, <3>1, <3>2, <3>3, <3>4
  <2> HIDE DEF pc
  <2>3. pc \in Pcs
    BY <2>2 DEF Pcs
  <2>4. op' = [op EXCEPT ![c].pc = pc] /\ UNCHANGED <<lock, running>>
    BY <1>1, <1>6, Zenon
  <2>5. /\ o' = [o EXCEPT !.pc = pc] /\ op' \in [Callers -> OpType]
        /\ \A d \in Callers : d # c => op'[d] = op[d]
    BY <1>2, <2>3, <2>4 DEF CallInv, OpType
  <2>6. /\ o'.pc = pc /\ o'.kind = o.kind /\ o'.lba = o.lba /\ o'.n = o.n /\ o'.val = o.val
        /\ o'.done = o.done /\ o'.got = o.got /\ o'.fresh = o.fresh
    BY <1>2, <2>5 DEF OpType
  <2>7. Progress(o')
    BY <1>1, <1>2, <2>1, <2>2, <2>6 DEF Progress
  <2>8. (DevInv /\ DiskInv)'
    BY <1>1 DEF DevInv, DiskInv
  <2>9. ASSUME ~late PROVE Serves(op[c])'
    <3>1. Serves(o)
      BY <1>2, <2>9 DEF ServeInv
    <3>2. /\ AtRest' <=> AtRest
          /\ Reading(o)' <=> Reading(o)
          /\ Writing(o)' <=> Writing(o)
      BY <1>1, <2>6 DEF AtRest, Reading, Writing
    <3> QED BY <1>1, <2>1, <2>2, <2>6, <3>1, <3>2 DEF Serves
  <2>10. ASSUME ~late, op[c].fresh PROVE Exact(op[c])'
    <3>1. Worked(o) /\ ~pending
      BY <1>1, <1>4, <1>6, <2>10 DEF Failed, Worked, OneIrq, FlagInv
    <3>2. Silent' /\ (dev'.st = "idle" => NotLeftOver')
      BY <1>1, <3>1 DEF Silent, NotLeftOver
    <3>3. dev'.st = IF o.kind = "read" \/ o.done < o.n THEN "drq" ELSE "idle"
      BY <1>1, <3>1 DEF Worked
    <3>4. /\ o.kind = "write" => Wrote(held', o', o'.done)
          /\ o.kind = "flush" => Wrote(platter', o', o'.n)
      BY <1>1, <2>6, <3>1 DEF Worked, Wrote
    <3> QED BY <2>1, <2>2, <2>6, <3>2, <3>3, <3>4 DEF Exact, Wrote
  <2>11. op'[c].pc \notin {"idle", "lock"}
    BY <2>2, <2>6
  <2>12. late' = late
    BY <1>1, <1>6 DEF FlagInv
  <2> QED BY <1>1, <1>2, <1>3, <1>6, <2>5, <2>6, <2>7, <2>8, <2>9, <2>10, <2>11, <2>12, Advances
<1> QED BY <1>5, <1>6

LEMMA FlushCacheInv == ASSUME IInv, NEW c \in Callers, FlushCache(c) PROVE IInv'
<1> USE DEF IInv
<1> DEFINE o == op[c]
<1>1. /\ o.pc = "flush" /\ Send("flush", 0, 0)
      /\ op' = [op EXCEPT ![c].pc = "irq", ![c].kind = "flush"]
      /\ UNCHANGED <<detected, invoked, error, lock, running, calls, opens, held, platter,
                      pending, late, erred, synced>>
  BY DEF FlushCache, Awaited, Runs, flags
<1>2. o \in OpType /\ Progress(o) /\ lock = c
  BY <1>1 DEF CallInv, LockInv
<1>3. /\ o' = [o EXCEPT !.pc = "irq", !.kind = "flush"] /\ op' \in [Callers -> OpType]
      /\ \A d \in Callers : d # c => op'[d] = op[d]
  BY <1>1, <1>2 DEF CallInv, OpType, Pcs, Kinds
<1>4. /\ o'.pc = "irq" /\ o'.kind = "flush" /\ o'.lba = o.lba /\ o'.n = o.n /\ o'.val = o.val
      /\ o'.done = o.done /\ o'.got = o.got /\ o'.fresh = o.fresh
  BY <1>2, <1>3 DEF OpType
<1>5. o.kind = "write" /\ o.done = o.n /\ o.n \in Nat /\ o.lba \in Nat
  BY <1>1, <1>2 DEF Progress, OpType
<1>6. Progress(o')
  BY <1>1, <1>2, <1>4, <1>5 DEF Progress
<1> DEFINE d == Sent("flush", 0, 0)
<1>7. /\ d \in DevType /\ d.lba = 0 /\ d.left = 0 /\ d.cmd = "flush" /\ ~d.err /\ d.st = "busy"
  BY SentType, SizeAssumption DEF Lbas
<1>8. dev' = d \/ (dev.st # "idle" /\ dev' = dev)
  BY <1>1 DEF Send
<1> HIDE DEF d
<1>9. DevInv'
  BY <1>7, <1>8, SizeAssumption DEF DevInv
<1>10. (FlagInv /\ DiskInv)'
  BY <1>1 DEF FlagInv, DiskInv
<1>11. ASSUME ~late PROVE Serves(op[c])'
  <2>1. dev.st = "idle" \/ Writing(o)
    BY <1>1, <1>2, <1>5, <1>11 DEF ServeInv, Serves
  <2>2. AtRest'
    BY <1>5, <1>7, <1>8, <2>1 DEF Writing, AtRest
  <2> QED BY <1>4, <2>2 DEF Serves
<1>12. ASSUME ~late, op[c].fresh PROVE Exact(op[c])'
  <2>1. NotLeftOver /\ Wrote(held, o, o.n)
    BY <1>1, <1>2, <1>5, <1>12 DEF SyncInv, Exact
  <2>2. Silent' /\ dev' = d /\ Wrote(held', o', o'.n)
    BY <1>1, <1>4, <1>8, <2>1 DEF NotLeftOver, Silent, Wrote
  <2> QED BY <1>4, <1>7, <2>2 DEF Exact, Awaits, Wrote
<1>13. op'[c].pc \notin {"idle", "lock"}
  BY <1>4
<1> QED BY <1>1, <1>2, <1>3, <1>4, <1>6, <1>9, <1>10, <1>11, <1>12, <1>13, Advances

\* One more sector of a read.
LEMMA AppendRun ==
  ASSUME NEW S, NEW f, NEW d \in Nat, NEW l, NEW v \in S,
         NEW got \in Seq(S), got = [k \in 1 .. d |-> f[l + k - 1]], v = f[l + (d + 1) - 1]
  PROVE  Append(got, v) = [k \in 1 .. d + 1 |-> f[l + k - 1]]
<1>1. Len(got) = d
  <2>1. DOMAIN got = 1 .. d
    OBVIOUS
  <2> QED BY <2>1
<1>2. Append(got, v) = [k \in 1 .. Len(got) + 1 |-> IF k = Len(got) + 1 THEN v ELSE got[k]]
  OBVIOUS
<1> QED BY <1>1, <1>2

LEMMA TransferInv == ASSUME IInv, NEW c \in Callers, Transfer(c) PROVE IInv'
<1> USE DEF IInv
<1> DEFINE o == op[c]
<1>1. /\ o.pc = "drq" /\ dev.st = "drq"
      /\ UNCHANGED <<detected, invoked, error, lock, running, calls, opens, held, platter,
                      pending, late, erred, synced>>
  BY DEF Transfer, MayMove, Runs, flags
<1>2. o \in OpType /\ Progress(o) /\ lock = c
  BY <1>1 DEF CallInv, LockInv
<1>3. /\ o.n \in Nat /\ o.done \in Nat /\ o.lba \in Nat /\ o.done < o.n
      /\ o.lba + o.n <= MaxLba
  BY <1>1, <1>2 DEF OpType, Progress
<1>4. (FlagInv /\ DiskInv)'
  BY <1>1 DEF FlagInv, DiskInv
<1>5. ~late => Serves(o)
  BY <1>2 DEF ServeInv
<1>6. ~late /\ o.fresh => Silent
  BY <1>1, <1>2 DEF SyncInv, Exact
<1>7. CASE o.kind = "read"
  <2> DEFINE pc == IF o.done + 1 < o.n THEN "irq" ELSE "end"
             got == Append(o.got, held[dev.lba])
  <2>1. /\ op' = [op EXCEPT ![c].done = o.done + 1, ![c].got = got, ![c].pc = pc]
        /\ dev' = IF dev.cmd = "read" /\ dev.st = "drq" THEN After("busy") ELSE dev
    BY <1>7 DEF Transfer
  <2>2. got \in Seq(Values) /\ Len(got) = Len(o.got) + 1
    BY <1>2 DEF OpType, DevInv, DevType, DiskInv
  <2> HIDE DEF got
  <2>3. /\ o' = [o EXCEPT !.done = o.done + 1, !.got = got, !.pc = pc]
        /\ op' \in [Callers -> OpType]
        /\ \A d \in Callers : d # c => op'[d] = op[d]
    BY <1>2, <1>3, <2>1, <2>2 DEF CallInv, OpType, Pcs
  <2>4. /\ o'.pc = pc /\ o'.kind = "read" /\ o'.lba = o.lba /\ o'.n = o.n /\ o'.val = o.val
        /\ o'.done = o.done + 1 /\ o'.got = got /\ o'.fresh = o.fresh
    BY <1>2, <1>7, <2>3 DEF OpType
  <2>5. Progress(o')
    <3>1. Len(o.got) <= o.done /\ Len(o.got) \in Nat /\ o.n >= 1
      BY <1>2, <1>3 DEF Progress, OpType
    <3>2. Len(o'.got) <= o'.done /\ o'.done <= o'.n /\ o'.n >= 1 /\ o'.lba + o'.n <= MaxLba
      BY <1>3, <2>2, <2>4, <3>1
    <3>3. /\ pc = "irq" => o'.done < o'.n
          /\ pc = "end" => o'.done = o'.n
      BY <1>3, <2>4
    <3> QED BY <2>4, <3>2, <3>3 DEF Progress
  <2>6. CASE dev.cmd # "read"
    <3>1. dev' = dev
      BY <2>1, <2>6
    <3>2. DevInv'
      BY <3>1 DEF DevInv
    <3>3. late
      BY <1>1, <1>5, <1>7, <2>6 DEF Serves, Reading, FlagInv
    <3> QED BY <1>1, <1>2, <1>4, <2>3, <2>4, <2>5, <3>2, <3>3, Advances
  <2>7. CASE dev.cmd = "read"
    <3>1. dev' = After("busy")
      BY <1>1, <2>1, <2>7
    <3>2. DevInv /\ dev.st \in {"busy", "drq"} /\ dev.cmd # "write"
      BY <1>1, <2>7
    <3>3. /\ dev' \in DevType /\ dev'.lba + dev'.left <= MaxLba /\ ~dev'.err
          /\ dev'.st = "busy" => dev'.cmd # "write"
          /\ dev.left > 1 => dev' = [dev EXCEPT !.st = "busy", !.lba = dev.lba + 1,
                                                !.left = dev.left - 1]
          /\ ~(dev.left > 1) => dev' = Quiet
      BY <3>1, <3>2, AfterType, Zenon
    <3>4. DevInv'
      BY <3>3 DEF DevInv
    <3>5. ~late => dev.left = o.n - o.done /\ dev.lba = o.lba + o.done
      BY <1>1, <1>5, <1>7 DEF Serves, Reading
    <3>6. ~late => IF o.done + 1 < o.n
                   THEN /\ dev'.st = "busy" /\ dev'.cmd = "read" /\ dev'.lba = o.lba + (o.done + 1)
                        /\ dev'.left = o.n - (o.done + 1)
                   ELSE dev'.st = "idle"
      <4>1. dev.left > 1 => /\ dev'.st = "busy" /\ dev'.cmd = "read" /\ dev'.lba = dev.lba + 1
                            /\ dev'.left = dev.left - 1
        BY <2>7, <3>3 DEF DevInv, DevType
      <4>2. ~(dev.left > 1) => dev'.st = "idle"
        BY <3>3 DEF Quiet
      <4> QED BY <1>3, <3>5, <4>1, <4>2
    <3>7. ASSUME ~late PROVE Serves(op[c])'
      <4>1. got = [k \in 1 .. o.done + 1 |-> held[o.lba + k - 1]]
        <5>1. o.got = [k \in 1 .. o.done |-> held[o.lba + k - 1]]
          BY <1>5, <1>7, <3>7 DEF Serves
        <5>2. held[dev.lba] = held[o.lba + (o.done + 1) - 1] /\ held[dev.lba] \in Values
          BY <1>3, <3>5, <3>7 DEF DiskInv, DevInv, DevType
        <5>3. o.got \in Seq(Values)
          BY <1>2 DEF OpType
        <5> HIDE DEF o
        <5> QED BY <1>3, <5>1, <5>2, <5>3, AppendRun DEF got
      <4>2. o'.got = [k \in 1 .. o'.done |-> held'[o'.lba + k - 1]]
        BY <1>1, <2>4, <4>1
      <4>3. pc = "irq" => Reading(o)'
        BY <2>4, <3>6, <3>7 DEF Reading
      <4>4. pc = "end" => dev'.st = "idle"
        BY <3>6, <3>7
      <4> QED BY <2>4, <4>2, <4>3, <4>4 DEF Serves
    <3>8. ASSUME ~late, op[c].fresh PROVE Exact(op[c])'
      <4>1. Silent' /\ (dev'.st = "idle" => NotLeftOver')
        BY <1>1, <1>6, <3>8 DEF Silent, NotLeftOver
      <4>2. pc = "irq" => dev'.st = "busy" /\ dev'.cmd = "read"
        BY <3>6, <3>8
      <4>3. pc = "end" => dev'.st = "idle"
        BY <3>6, <3>8
      <4> QED BY <2>4, <4>1, <4>2, <4>3 DEF Exact, Awaits
    <3> QED BY <1>1, <1>2, <1>4, <2>3, <2>4, <2>5, <3>4, <3>7, <3>8, Advances
  <2> QED BY <2>6, <2>7
<1>8. CASE o.kind = "write"
  <2>1. /\ op' = [op EXCEPT ![c].done = o.done + 1, ![c].pc = "irq"]
        /\ dev' = IF dev.cmd = "write" THEN [dev EXCEPT !.st = "busy", !.val = o.val] ELSE dev
    BY <1>8 DEF Transfer
  <2>2. /\ o' = [o EXCEPT !.done = o.done + 1, !.pc = "irq"]
        /\ op' \in [Callers -> OpType]
        /\ \A d \in Callers : d # c => op'[d] = op[d]
    <3>1. /\ o' = [o EXCEPT !.done = o.done + 1, !.pc = "irq"]
          /\ \A d \in Callers : d # c => op'[d] = op[d]
      BY <2>1 DEF CallInv
    <3>2. o.done + 1 \in Nat /\ "irq" \in Pcs
      BY <1>3 DEF Pcs
    <3>3. o' \in OpType
      BY <1>2, <3>1, <3>2 DEF OpType
    <3> QED BY <2>1, <3>1, <3>3 DEF CallInv
  <2>3. /\ o'.pc = "irq" /\ o'.kind = "write" /\ o'.lba = o.lba /\ o'.n = o.n /\ o'.val = o.val
        /\ o'.done = o.done + 1 /\ o'.got = o.got /\ o'.fresh = o.fresh
    BY <1>2, <1>8, <2>2 DEF OpType
  <2>4. o.val \in Values /\ Len(o.got) \in Nat /\ Len(o.got) <= o.done
    BY <1>2, <1>8 DEF Progress, OpType
  <2>5. Progress(o')
    <3>1. /\ Len(o'.got) <= o'.done /\ o'.done <= o'.n /\ o'.n >= 1 /\ o'.lba + o'.n <= MaxLba
          /\ o'.done >= 1
      BY <1>3, <2>3, <2>4
    <3> QED BY <2>3, <2>4, <3>1 DEF Progress
  <2>6. /\ dev' \in DevType /\ dev'.lba = dev.lba /\ dev'.left = dev.left /\ ~dev'.err
        /\ IF dev.cmd = "write" THEN dev'.st = "busy" /\ dev'.cmd = "write" /\ dev'.val = o.val
           ELSE dev' = dev
    BY <1>1, <2>1, <2>4 DEF DevInv, DevType
  <2>7. DevInv'
    BY <1>1, <2>4, <2>6 DEF DevInv
  <2>8. ~late => /\ dev.cmd = "write" /\ dev.left = o.n - o.done /\ dev.lba = o.lba + o.done
    BY <1>1, <1>5, <1>8 DEF Serves, Writing
  <2>9. ASSUME ~late PROVE Serves(op[c])'
    <3>1. dev'.left = o'.n - o'.done + 1 /\ dev'.lba = o'.lba + o'.done - 1 /\ o'.done >= 1
      BY <1>3, <2>3, <2>6, <2>8, <2>9
    <3>2. Writing(o)'
      BY <2>3, <2>6, <2>8, <2>9, <3>1 DEF Writing
    <3> QED BY <2>3, <3>2 DEF Serves
  <2>10. ASSUME ~late, op[c].fresh PROVE Exact(op[c])'
    <3>1. Silent'
      BY <1>1, <1>6, <2>10 DEF Silent
    <3>2. Wrote(held', o', o'.done - 1)
      <4>1. Wrote(held, o, o.done)
        BY <1>1, <1>2, <1>8, <2>10 DEF SyncInv, Exact
      <4>2. o'.done - 1 = o.done
        BY <1>3, <2>3
      <4> QED BY <1>1, <2>3, <4>1, <4>2 DEF Wrote
    <3> QED BY <2>3, <2>6, <2>8, <2>10, <3>1, <3>2 DEF Exact, Awaits, Wrote
  <2>11. op'[c].pc \notin {"idle", "lock"}
    BY <2>3
  <2> QED BY <1>1, <1>2, <1>4, <2>2, <2>3, <2>5, <2>7, <2>9, <2>10, <2>11, Advances
<1> QED BY <1>7, <1>8 DEF Transfer

---------------------------------------------------------------------------
LEMMA NextInv == IInv /\ [Next]_vars => IInv'
<1> SUFFICES ASSUME IInv, [Next]_vars PROVE IInv'
  OBVIOUS
<1>1. CASE UNCHANGED vars
  BY <1>1 DEF vars, flags, drive, IInv, CallInv, LockInv, DevInv, FlagInv, DiskInv, CountInv,
     ServeInv, SyncInv, Serves, AtRest, Reading, Writing, Exact, Awaits, Failed, Worked, Wrote,
     Silent, OneIrq, NotLeftOver
<1>2. ASSUME NEW c \in Callers, Step(c) \/ Spin(c) PROVE IInv'
  BY <1>1, <1>2, SpinLockInv, SendCommandInv, TakeIrqInv, TransferInv, FlushCacheInv, TimeOutInv,
     FinishInv DEF Step, Spin
<1> QED
  BY <1>1, <1>2, DetectInv, WorkInv, FailInv, IrqInv, CallsInv, OpensInv DEF Next, Drive

LEMMA Invariance == Spec => []IInv
BY InitInv, NextInv, PTL DEF Spec

\* The state keeps its type whatever the drive does and whoever gives up: no call moves more
\* sectors than it was asked for, and the drive stays on the disk (ata.c:183-331).
THEOREM TypeCorrect == Spec => []TypeOK
<1>1. IInv => TypeOK
  <2> SUFFICES ASSUME IInv PROVE TypeOK
    OBVIOUS
  <2>1. /\ {invoked, error, pending, late, erred, synced} \subseteq BOOLEAN
        /\ lock \in Callers \cup {None} /\ running \in Callers
    BY DEF IInv, FlagInv, LockInv, Callers
  <2>2. ASSUME NEW c \in Callers
        PROVE  /\ op[c].pc \in {"idle", "lock", "ready", "irq", "drq", "flush", "end"}
               /\ op[c].kind \in {"none", "read", "write", "flush"}
               /\ op[c].done <= op[c].n /\ Len(op[c].got) <= op[c].n
    <3>1. op[c] \in OpType /\ Progress(op[c])
      BY DEF IInv, CallInv
    <3>2. op[c].done \in Nat /\ op[c].n \in Nat /\ Len(op[c].got) \in Nat
      BY <3>1 DEF OpType
    <3> QED BY <3>1, <3>2 DEF OpType, Pcs, Kinds, Progress
  <2>3. /\ dev.st \in {"idle", "busy", "drq"} /\ dev.lba \in Lbas
        /\ held \in [Lbas -> Values] /\ platter \in [Lbas -> Values]
    BY DEF IInv, DevInv, DevType, DiskInv
  <2> QED BY <2>1, <2>2, <2>3 DEF IInv, CountInv, TypeOK
<1> QED BY <1>1, Invariance, PTL

\* A read that succeeds has the sectors that were asked for, in their order, whatever flag
\* was left over when it began, until a call gives up (ata.c:205-210, 277-284).
THEOREM ReadsAreTrue == Spec => []ReadIsTrue
<1>1. IInv => ReadIsTrue
  <2> SUFFICES ASSUME IInv, NEW c \in Callers, op[c].pc = "end", op[c].kind = "read", ~late
               PROVE  op[c].got = [k \in 1 .. op[c].n |-> held[op[c].lba + k - 1]]
    BY DEF ReadIsTrue
  <2>1. Serves(op[c]) /\ Progress(op[c])
    BY DEF IInv, ServeInv, LockInv, CallInv
  <2> QED BY <2>1 DEF Serves, Progress
<1> QED BY <1>1, Invariance, PTL

\* A write that is reported done, and began with nothing left over, is on the platter as
\* long as no call has given up (ata.c:245-252, 313-328).
THEOREM WritesAreFlushed == Spec => []WriteIsFlushed
<1>1. IInv => WriteIsFlushed
  BY DEF IInv, WriteIsFlushed, LockInv, SyncInv, Exact, Wrote
<1> QED BY <1>1, Invariance, PTL

\* From the first call that begins with nothing left over, every call leaves nothing, even
\* if the drive fails in it, until one gives up (ata.c:50-63, 245-252, 320-324).
THEOREM StaysInSync == Spec => []InSync
<1>1. IInv => InSync
  BY DEF IInv, InSync, SyncInv
<1> QED BY <1>1, Invariance, PTL

\* A call that began with nothing left over fails only if the drive failed in it, or a call
\* gives up (ata.c:24, 31, 54-57).
THEOREM FailsOnlyByDrive == Spec => FailsOnlyBy
<1>1. IInv /\ [Next]_vars =>
        [\A c \in Callers :
           /\ lock = c /\ lock' = None /\ op[c].pc # "end"
           /\ op[c].fresh /\ ~late'
           => erred]_vars
  <2> SUFFICES ASSUME IInv, Next, NEW c \in Callers, lock = c, lock' = None,
                      op[c].pc # "end", op[c].fresh, ~late'
               PROVE  erred
    BY DEF vars
  <2>1. c # None
    BY NameAssumption DEF Callers
  <2>2. PICK d \in Callers : Step(d)
    BY <2>1 DEF Next, Drive, Detect, Irq, Call, Open, Spin, vars
  <2>3. /\ ~SpinLock(d) /\ ~SendCommand(d) /\ ~Transfer(d) /\ ~FlushCache(d)
    BY <2>1 DEF SpinLock, SendCommand, Transfer, FlushCache
  <2>4. ~TimeOut(d)
    BY DEF TimeOut
  <2>5. ~Finish(d)
    BY DEF Finish, Runs, IInv, LockInv
  <2>6. TakeIrq(d)
    BY <2>2, <2>3, <2>4, <2>5 DEF Step
  <2>7. op[d].pc = "irq" /\ invoked /\ error /\ late' = (late \/ (error /\ dev.st # "idle"))
    BY <2>1, <2>6 DEF TakeIrq, Runs
  <2>8. d = c /\ ~late
    BY <2>7 DEF IInv, LockInv, FlagInv
  <2>9. Exact(op[c])
    BY <2>8 DEF IInv, SyncInv
  <2> QED BY <2>7, <2>8, <2>9 DEF Exact, Awaits, Silent, Failed, Worked
<1> QED BY <1>1, Invariance, PTL DEF Spec, FailsOnlyBy
=============================================================================
