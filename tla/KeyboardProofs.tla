--------------------------- MODULE KeyboardProofs ---------------------------
(***************************************************************************)
(* Keyboard, for every ring size and every set of keys: its state keeps    *)
(* its type, a key press never disturbs a read in progress, and the ring   *)
(* with its indices is the bounded queue of KeyQueue.                      *)
(***************************************************************************)
EXTENDS Keyboard, SequenceTheorems, TLAPS

\* The inductive invariant: the type and the stable read need each other, since
\* a reader that found the ring empty in mid-read would take NoChar for a key;
\* and a backspace may shorten the screen because the line it shortens is on it.
IInv == TypeOK /\ ReadIsStable /\ EchoIsLine

---------------------------------------------------------------------------
\* The arithmetic of the ring, without the modulo.
LEMMA NextIndexValue ==
  ASSUME NEW i \in Index
  PROVE  /\ NextIndex(i) = (IF i + 1 = Size THEN 0 ELSE i + 1)
         /\ NextIndex(i) \in Index
<1>1. Size \in Nat /\ Size >= 2 /\ i \in Nat /\ i + 1 <= Size
  BY SizeAssumption DEF Index
<1>2. CASE i + 1 = Size
  BY <1>1, <1>2 DEF NextIndex, Index
<1>3. CASE i + 1 # Size
  BY <1>1, <1>3 DEF NextIndex, Index
<1> QED BY <1>2, <1>3

\* Dropping the last character of a line leaves a line.
LEMMA FrontType ==
  ASSUME NEW S, NEW s \in Seq(S), s # <<>>
  PROVE  Front(s) \in Seq(S) /\ Len(Front(s)) = Len(s) - 1
<1>1. Len(s) \in Nat /\ Len(s) # 0
  BY EmptySeq, LenProperties
<1>2. \A i \in 1 .. Len(s) - 1 : s[i] \in S
  BY <1>1, ElementOfSeq
<1>3. /\ SubSeq(s, 1, Len(s) - 1) \in Seq(S)
      /\ Len(SubSeq(s, 1, Len(s) - 1)) = (IF 1 <= Len(s) - 1 THEN Len(s) - 1 - 1 + 1 ELSE 0)
  BY <1>1, <1>2, SubSeqProperties, 1 \in Int, Len(s) - 1 \in Int
<1>4. \A n \in Nat \ {0} : (IF 1 <= n - 1 THEN n - 1 - 1 + 1 ELSE 0) = n - 1
  OBVIOUS
<1>5. (IF 1 <= Len(s) - 1 THEN Len(s) - 1 - 1 + 1 ELSE 0) = Len(s) - 1
  BY <1>1, <1>4, Zenon
<1>6. Len(SubSeq(s, 1, Len(s) - 1)) = Len(s) - 1
  BY <1>3, <1>5
<1> QED BY <1>3, <1>6, Zenon DEF Front

\* A key is a character and never NoChar.
LEMMA CharOfType ==
  ASSUME NEW k \in Keys \cup {Backspace, Newline}, caps_lock \in BOOLEAN
  PROVE  CharOf(k) \in Chars /\ CharOf(k) # NoChar
<1>1. ("shift" \in mods \/ (caps_lock /\ k \in Letters)) \in BOOLEAN
  OBVIOUS
<1>2. CharOf(k) \in Chars
  BY <1>1, Zenon DEF CharOf, Chars, Printable
<1> QED BY <1>2, KeysAssumption DEF Chars, Printable

---------------------------------------------------------------------------
LEMMA InitInv == Init => IInv
BY SizeAssumption, EmptySeq
DEF Init, IInv, TypeOK, ReadIsStable, EchoIsLine, Index, InRing, ring, Printable

\* What a key press does to the ring keeps the type, the keys in the ring and
\* the slot under a read in progress.
LEMMA EnqueueInv ==
  ASSUME IInv, NEW ch \in Chars, ch # NoChar, Enqueue(ch)
  PROVE  /\ input_buffer' \in [Index -> Chars \cup {NoChar}]
         /\ buffer_head' \in Index /\ buffer_tail' \in Index
         /\ \A j \in Index : InRing(j)' => input_buffer'[j] # NoChar
         /\ buffer_head # buffer_tail => /\ buffer_head' # buffer_tail'
                                         /\ input_buffer'[buffer_tail'] = input_buffer[buffer_tail]
<1> USE DEF IInv, TypeOK, ReadIsStable, EchoIsLine
<1>1. CASE NextIndex(buffer_head) # buffer_tail /\ EnqueueOverFull(ch)
  <2>1. /\ NextIndex(buffer_head) = (IF buffer_head + 1 = Size THEN 0 ELSE buffer_head + 1)
        /\ NextIndex(buffer_head) \in Index
    BY NextIndexValue
  <2>2. /\ input_buffer' = [input_buffer EXCEPT ![buffer_head] = ch]
        /\ buffer_head' = NextIndex(buffer_head)
        /\ buffer_tail' = buffer_tail
    BY <1>1 DEF EnqueueOverFull
  <2> QED BY <1>1, <2>1, <2>2, SizeAssumption DEF InRing, Index
<1>2. CASE UNCHANGED ring
  BY <1>2 DEF ring, InRing
<1> QED BY <1>1, <1>2 DEF Enqueue

LEMMA NextInv == IInv /\ [Next]_vars => IInv'
<1> SUFFICES ASSUME IInv, [Next]_vars PROVE IInv'
  OBVIOUS
<1> USE DEF IInv, TypeOK, ReadIsStable, EchoIsLine, ring, keys, reader
<1>1. CASE UNCHANGED vars
  BY <1>1 DEF vars, InRing
<1>2. ASSUME NEW k \in Keys \cup {Backspace, Newline}, KeyIrq(k) PROVE IInv'
  <2>1. CharOf(k) \in Chars /\ CharOf(k) # NoChar
    BY CharOfType
  <2>2. Enqueue(CharOf(k))
    BY <1>2 DEF KeyIrq
  <2>3. /\ input_buffer' \in [Index -> Chars \cup {NoChar}]
        /\ buffer_head' \in Index /\ buffer_tail' \in Index
        /\ \A j \in Index : InRing(j)' => input_buffer'[j] # NoChar
        /\ buffer_head # buffer_tail => /\ buffer_head' # buffer_tail'
                                        /\ input_buffer'[buffer_tail'] = input_buffer[buffer_tail]
    BY <2>1, <2>2, EnqueueInv
  <2> QED BY <1>2, <2>3 DEF KeyIrq, Woken
<1>3. ASSUME NEW m \in ModKeys, ModifierIrq(m) PROVE IInv'
  BY <1>3 DEF ModifierIrq, Woken, InRing
<1>4. CASE CapsIrq
  BY <1>4 DEF CapsIrq, Woken, InRing
<1>5. CASE ShutdownIrq
  BY <1>5 DEF ShutdownIrq, InRing
<1>6. CASE RebootIrq
  BY <1>6, SizeAssumption, EmptySeq DEF RebootIrq, InRing, Index
<1>7. CASE OtherIrq
  BY <1>7 DEF OtherIrq, Woken, InRing
<1>8. CASE Call
  BY <1>8, EmptySeq, SizeAssumption DEF Call, InRing
<1>9. CASE Test
  BY <1>9 DEF Test, InRing
<1>10. CASE Halt
  BY <1>10 DEF Halt, InRing
<1>11. CASE Load
  BY <1>11 DEF Load, InRing
<1>12. CASE Advance
  <2>1. /\ NextIndex(buffer_tail) = (IF buffer_tail + 1 = Size THEN 0 ELSE buffer_tail + 1)
        /\ NextIndex(buffer_tail) \in Index
    BY NextIndexValue
  <2>2. \A j \in Index : InRing(j)' => input_buffer'[j] # NoChar
    BY <1>12, <2>1, SizeAssumption DEF Advance, InRing, Index
  <2>3. ret' # NoChar /\ ret' \in Chars
    BY <1>12, SizeAssumption DEF Advance, InRing, Index
  <2> QED BY <1>12, <2>1, <2>2, <2>3 DEF Advance
<1>13. CASE Edit
  <2>1. line' \in Seq(Printable) /\ screen' = line' /\ Len(line') < LineSize
    <3>1. CASE Erase
      BY <3>1, FrontType, LenProperties, SizeAssumption DEF Erase
    <3>2. CASE UNCHANGED <<line, screen>>
      BY <3>2
    <3>3. CASE ret \notin {Backspace, Newline} /\ Echo(ret)
      <4>1. ret \in Printable
        BY <1>13, <3>3 DEF Edit, Chars
      <4>2. CASE Len(line) < LineSize - 1
        <5>1. line' = Append(line, ret) /\ screen' = line'
          BY <3>3, <4>2 DEF Echo
        <5>2. line' \in Seq(Printable) /\ Len(line') = Len(line) + 1
          BY <5>1, <4>1, AppendProperties
        <5> QED BY <4>2, <5>1, <5>2, LenProperties, SizeAssumption
      <4>3. CASE ~(Len(line) < LineSize - 1)
        BY <3>3, <4>3 DEF Echo
      <4> QED BY <4>2, <4>3
    <3> QED BY <1>13, <3>1, <3>2, <3>3 DEF Edit
  <2> QED BY <1>13, <2>1 DEF Edit, InRing
<1>14. CASE Halted
  BY <1>14 DEF Halted, vars, InRing
<1> QED BY <1>1, <1>2, <1>3, <1>4, <1>5, <1>6, <1>7, <1>8, <1>9, <1>10, <1>11, <1>12,
           <1>13, <1>14 DEF Next, Reader, Irq

LEMMA InvHolds == Spec => []IInv
<1> QED BY InitInv, NextInv, PTL DEF Spec

\* Every reachable state is well typed (keyboard.c:11-17).
THEOREM TypeCorrect == Spec => []TypeOK
<1>1. IInv => TypeOK
  BY DEF IInv
<1> QED BY <1>1, InvHolds, PTL

\* No key press ever overwrites or withdraws the character a reader is about
\* to take (keyboard.c:165-171 against 257-260).
THEOREM ReadStable == Spec => []ReadIsStable
<1>1. IInv => ReadIsStable
  BY DEF IInv
<1> QED BY <1>1, InvHolds, PTL

---------------------------------------------------------------------------
\* The refinement.  A step of the ring is a step of the queue or none.

\* The waiting characters are a sequence of keys.
LEMMA PendingType ==
  IInv => /\ Waiting \in 0 .. Size - 1
          /\ \A i \in 1 .. Waiting : SlotOf(i) \in Index /\ InRing(SlotOf(i))
          /\ Pending \in Seq(Chars)
          /\ Len(Pending) = Waiting
<1> HAVE IInv
<1>1. /\ Size \in Nat /\ Size >= 2
      /\ buffer_head \in Nat /\ buffer_head < Size
      /\ buffer_tail \in Nat /\ buffer_tail < Size
  BY SizeAssumption DEF IInv, TypeOK, Index
<1>2. Waiting \in 0 .. Size - 1
  BY <1>1 DEF Waiting
<1>3. \A i \in 1 .. Waiting : SlotOf(i) \in Index /\ InRing(SlotOf(i))
  BY <1>1 DEF SlotOf, Waiting, InRing, Index
<1>4. \A i \in 1 .. Waiting : input_buffer[SlotOf(i)] \in Chars
  BY <1>3 DEF IInv, TypeOK, ReadIsStable
<1> QED BY <1>2, <1>3, <1>4, IsASeq DEF Pending

LEMMA EnqueuePut ==
  ASSUME IInv, NEW ch \in Chars, Enqueue(ch), IInv'
  PROVE  Pending' = IF Len(Pending) < Size - 1 THEN Append(Pending, ch) ELSE Pending
<1>1. /\ Size \in Nat /\ Size >= 2
      /\ buffer_head \in Nat /\ buffer_head < Size
      /\ buffer_tail \in Nat /\ buffer_tail < Size
      /\ buffer_head \in Index
  BY SizeAssumption DEF IInv, TypeOK, Index
<1>2. NextIndex(buffer_head) = (IF buffer_head + 1 = Size THEN 0 ELSE buffer_head + 1)
  BY <1>1, NextIndexValue
<1>3. /\ Waiting \in 0 .. Size - 1 /\ Pending \in Seq(Chars) /\ Len(Pending) = Waiting
      /\ \A i \in 1 .. Waiting : SlotOf(i) \in Index /\ InRing(SlotOf(i))
  BY PendingType
<1>4. Waiting < Size - 1 <=> NextIndex(buffer_head) # buffer_tail
  BY <1>1, <1>2 DEF Waiting
<1>5. CASE Waiting < Size - 1
  <2>1. /\ input_buffer' = [input_buffer EXCEPT ![buffer_head] = ch]
        /\ buffer_head' = NextIndex(buffer_head)
        /\ buffer_tail' = buffer_tail
    BY <1>4, <1>5 DEF Enqueue, EnqueueOverFull
  <2>2. Waiting' = Waiting + 1
    BY <1>1, <1>2, <1>4, <1>5, <2>1 DEF Waiting
  <2>3. \A i \in 1 .. Waiting : SlotOf(i)' = SlotOf(i) /\ SlotOf(i) # buffer_head
    BY <1>1, <1>3, <2>1 DEF SlotOf, Waiting
  <2>4. \A i \in 1 .. Waiting + 1 : i = Waiting + 1 => SlotOf(i)' = buffer_head
    BY <1>1, <2>1 DEF SlotOf, Waiting
  <2>5. input_buffer' \in [Index -> Chars \cup {NoChar}]
        /\ input_buffer \in [Index -> Chars \cup {NoChar}]
    BY DEF IInv, TypeOK
  <2>6. Pending' = [i \in 1 .. Waiting + 1 |-> input_buffer'[SlotOf(i)']]
    BY <2>2 DEF Pending
  <2>7. \A i \in 1 .. Waiting + 1 :
          Pending'[i] = IF i <= Waiting THEN Pending[i] ELSE ch
    <3> TAKE i \in 1 .. Waiting + 1
    <3>1. CASE i <= Waiting
      <4>1. i \in 1 .. Waiting
        BY <1>3, <3>1
      <4> QED BY <1>3, <2>1, <2>3, <2>5, <2>6, <3>1, <4>1 DEF Pending
    <3>2. CASE i = Waiting + 1
      BY <1>1, <1>3, <2>1, <2>4, <2>5, <2>6, <3>2
    <3> QED BY <1>3, <3>1, <3>2
  <2>8. Pending' \in Seq(Chars) /\ Len(Pending') = Waiting + 1
    <3>1. (IInv => Pending \in Seq(Chars) /\ Len(Pending) = Waiting)'
      BY PendingType, PTL
    <3> QED BY <2>2, <3>1
  <2>9. /\ Append(Pending, ch) \in Seq(Chars)
        /\ Len(Append(Pending, ch)) = Waiting + 1
        /\ \A i \in 1 .. Waiting + 1 :
             Append(Pending, ch)[i] = IF i <= Waiting THEN Pending[i] ELSE ch
    BY <1>3, AppendProperties
  <2>10. Pending' = Append(Pending, ch)
    BY <2>7, <2>8, <2>9, SeqEqual
  <2> QED BY <1>3, <1>5, <2>10
<1>6. CASE ~(Waiting < Size - 1)
  <2>1. UNCHANGED ring
    BY <1>4, <1>6 DEF Enqueue
  <2> QED BY <1>3, <1>6, <2>1 DEF ring, Pending, Waiting, SlotOf
<1> QED BY <1>5, <1>6

LEMMA AdvanceGet ==
  ASSUME IInv, Advance, IInv'
  PROVE  Queue!Get
<1>1. /\ Size \in Nat /\ Size >= 2
      /\ buffer_head \in Nat /\ buffer_head < Size
      /\ buffer_tail \in Nat /\ buffer_tail < Size
      /\ buffer_tail \in Index
      /\ buffer_head # buffer_tail
      /\ c = input_buffer[buffer_tail]
  BY SizeAssumption DEF IInv, TypeOK, ReadIsStable, Advance, Index
<1>2. NextIndex(buffer_tail) = (IF buffer_tail + 1 = Size THEN 0 ELSE buffer_tail + 1)
  BY <1>1, NextIndexValue
<1>3. /\ Waiting \in 0 .. Size - 1 /\ Pending \in Seq(Chars) /\ Len(Pending) = Waiting
      /\ \A i \in 1 .. Waiting : SlotOf(i) \in Index /\ InRing(SlotOf(i))
  BY PendingType
<1>4. /\ UNCHANGED <<input_buffer, buffer_head>>
      /\ buffer_tail' = NextIndex(buffer_tail)
      /\ ret' = c
  BY DEF Advance
<1>5. Waiting # 0 /\ Waiting' = Waiting - 1
  BY <1>1, <1>2, <1>4 DEF Waiting
<1>6. SlotOf(1) = buffer_tail
  BY <1>1 DEF SlotOf
<1>7. \A i \in 1 .. Waiting - 1 : SlotOf(i)' = SlotOf(i + 1)
  BY <1>1, <1>2, <1>3, <1>4 DEF SlotOf
<1>8. Pending # <<>> /\ Pending[1] = c
  <2>1. 1 \in 1 .. Waiting
    BY <1>3, <1>5
  <2> QED BY <1>1, <1>3, <1>6, <2>1, EmptySeq DEF Pending
<1>9. Head(Pending) = c
  BY <1>3, <1>8
<1>10. Pending' \in Seq(Chars) /\ Len(Pending') = Waiting - 1
  <2>1. (IInv => Pending \in Seq(Chars) /\ Len(Pending) = Waiting)'
    BY PendingType, PTL
  <2> QED BY <1>5, <2>1
<1>11. /\ Tail(Pending) \in Seq(Chars) /\ Len(Tail(Pending)) = Waiting - 1
       /\ \A i \in 1 .. Waiting - 1 : Tail(Pending)[i] = Pending[i + 1]
  BY <1>3, <1>8, HeadTailProperties
<1>12. \A i \in 1 .. Waiting - 1 : Pending'[i] = Pending[i + 1]
  <2> TAKE i \in 1 .. Waiting - 1
  <2>1. i \in 1 .. Waiting' /\ i + 1 \in 1 .. Waiting
    BY <1>3, <1>5
  <2>2. Pending'[i] = input_buffer'[SlotOf(i)']
    BY <2>1 DEF Pending
  <2>3. Pending[i + 1] = input_buffer[SlotOf(i + 1)]
    BY <2>1 DEF Pending
  <2> QED BY <1>4, <1>7, <2>2, <2>3
<1>13. Pending' = Tail(Pending)
  BY <1>10, <1>11, <1>12, SeqEqual
<1> QED BY <1>4, <1>8, <1>9, <1>13 DEF Queue!Get

LEMMA NextRefines ==
  IInv /\ IInv' /\ [Next]_vars => [Queue!Next]_<<Pending, ret>>
<1> SUFFICES ASSUME IInv, IInv', [Next]_vars
             PROVE  Queue!Next \/ UNCHANGED <<Pending, ret>>
  OBVIOUS
<1>0. ASSUME UNCHANGED ring, UNCHANGED ret PROVE UNCHANGED <<Pending, ret>>
  BY <1>0 DEF ring, Pending, Waiting, SlotOf
<1>1. ASSUME NEW k \in Keys \cup {Backspace, Newline}, KeyIrq(k) PROVE Queue!Next
  <2>1. CharOf(k) \in Chars
    BY CharOfType DEF IInv, TypeOK
  <2>2. Enqueue(CharOf(k)) /\ ret' = ret
    BY <1>1 DEF KeyIrq, reader
  <2>3. Queue!Put(CharOf(k))
    BY <2>1, <2>2, EnqueuePut DEF Queue!Put
  <2> QED BY <2>1, <2>3 DEF Queue!Next
<1>2. CASE RebootIrq
  <2>1. Pending' = <<>>
    BY <1>2 DEF RebootIrq, Pending, Waiting
  <2> QED BY <1>2, <2>1 DEF RebootIrq, Queue!Next, Queue!Reset
<1>3. CASE Advance
  BY <1>3, AdvanceGet DEF Queue!Next
<1>4. ASSUME NEW m \in ModKeys, ModifierIrq(m) PROVE UNCHANGED ring /\ UNCHANGED ret
  BY <1>4 DEF ModifierIrq, reader
<1>5. CASE CapsIrq \/ ShutdownIrq \/ OtherIrq \/ Halted \/ UNCHANGED vars
  BY <1>0, <1>5 DEF CapsIrq, ShutdownIrq, OtherIrq, Halted, vars, reader
<1>6. CASE Call \/ Test \/ Halt \/ Load \/ Edit
  BY <1>0, <1>6 DEF Call, Test, Halt, Load, Edit, reader
<1> QED BY <1>0, <1>1, <1>2, <1>3, <1>4, <1>5, <1>6 DEF Next, Reader, Irq

\* The ring with its two indices is a queue of Size - 1 characters: every key
\* comes out once and in order, and only a key pressed at a full ring is lost.
THEOREM RefinesQueue == Spec => QueueSpec
<1>1. Init => Queue!Init
  BY DEF Init, Queue!Init, Pending, Waiting
<1>2. IInv /\ IInv' /\ [Next]_vars => [Queue!Next]_<<Pending, ret>>
  BY NextRefines
<1> QED BY <1>1, <1>2, InvHolds, PTL DEF Spec, QueueSpec, Queue!Spec

\* What a reader sees on its screen is the line it is going to be given, whatever
\* was typed beyond the end of the line or erased (keyboard.c:269-287).
THEOREM EchoFaithful == Spec => []EchoIsLine
<1>1. IInv => EchoIsLine
  BY DEF IInv
<1> QED BY <1>1, InvHolds, PTL
=============================================================================
