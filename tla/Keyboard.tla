------------------------------ MODULE Keyboard ------------------------------
(***************************************************************************)
(* The PS/2 keyboard driver, src/src/drivers/input/keyboard.c: the IRQ1    *)
(* handler that translates scan codes and fills a ring of characters, and  *)
(* the reader that empties it, either one character at a time              *)
(* (keyboard_getchar_raw) or a line at a time with echo (keyboard_input).  *)
(*                                                                         *)
(* The handler runs with interrupts off, so it is one action.  The reader  *)
(* runs with interrupts on: the test of the ring, the hlt, the load of the *)
(* character and the move of the tail are steps of their own, and any      *)
(* interrupt may come between two of them.  It is the shell that reads,    *)
(* and it has the processor: no program has been entered.                  *)
(***************************************************************************)
EXTENDS Naturals, Sequences

CONSTANTS Size,        \* KEYBOARD_BUFFER_SIZE
          LineSize,    \* sizeof(line_buffer)
          Keys,        \* the printable keys
          Letters,     \* those of them the keymap gives a letter
          ModKeys,     \* the modifiers in use: shift, ctrl, alt
          Backspace, Newline, NoChar

ASSUME SizeAssumption == Size \in Nat /\ Size >= 2 /\ LineSize \in Nat \ {0}
ASSUME KeysAssumption == /\ Letters \subseteq Keys
                         /\ ModKeys \subseteq {"shift", "ctrl", "alt"}
                         /\ NoChar \notin [key : Keys, up : BOOLEAN] \cup {Backspace, Newline}

VARIABLES input_buffer, buffer_head, buffer_tail,   \* the ring
          mods,        \* the modifiers seen as pressed (shift_pressed, ...)
          caps_lock,
          power,       \* "off" once F1 has stopped the machine
          pc,          \* where the reader is
          mode,        \* which of the two readers it is: "line" or "raw"
          c, ret,      \* the local of keyboard_getchar, and what it returned
          line,        \* line_buffer, up to index
          screen       \* what the echo of this line has left on the screen

ring   == <<input_buffer, buffer_head, buffer_tail>>
keys   == <<mods, caps_lock>>
reader == <<mode, c, ret, line, screen>>
vars   == <<ring, keys, power, pc, reader>>

Index == 0 .. Size - 1
Printable == [key : Keys, up : BOOLEAN]
Chars == Printable \cup {Backspace, Newline}

Init ==
  /\ input_buffer = [i \in Index |-> NoChar]
  /\ buffer_head = 0 /\ buffer_tail = 0
  /\ mods = {} /\ caps_lock = FALSE
  /\ power = "on"
  /\ pc = "busy" /\ mode = "raw" /\ c = NoChar /\ ret = NoChar
  /\ line = <<>> /\ screen = <<>>

---------------------------------------------------------------------------
\* The interrupt handler.

\* Any interrupt ends the reader's hlt, which then tests the ring again.
Woken == pc' = IF pc = "asleep" THEN "test" ELSE pc

\* The character of a key: keymap_up under shift, whatever caps lock says, and
\* otherwise keymap with the letters raised under caps lock.
CharOf(k) ==
  IF k \in {Backspace, Newline} THEN k
  ELSE [key |-> k, up |-> "shift" \in mods \/ (caps_lock /\ k \in Letters)]

NextIndexNoWrap(i) == i + 1
NextIndex(i) == (i + 1) % Size

\* One slot stays empty: a ring with head = tail is empty, never full.
EnqueueOverFull(ch) ==
  /\ input_buffer' = [input_buffer EXCEPT ![buffer_head] = ch]
  /\ buffer_head' = NextIndex(buffer_head)
  /\ UNCHANGED buffer_tail
Enqueue(ch) ==
  IF NextIndex(buffer_head) # buffer_tail
  THEN EnqueueOverFull(ch)
  ELSE UNCHANGED ring

KeyIrq(k) ==
  /\ power = "on"
  /\ Enqueue(CharOf(k))
  /\ Woken
  /\ UNCHANGED <<keys, power, reader>>

ModifierIrq(m) ==
  /\ power = "on"
  /\ \E down \in BOOLEAN : mods' = IF down THEN mods \cup {m} ELSE mods \ {m}
  /\ Woken
  /\ UNCHANGED <<ring, caps_lock, power, reader>>

CapsIrq ==
  /\ power = "on"
  /\ caps_lock' = ~caps_lock
  /\ Woken
  /\ UNCHANGED <<ring, mods, power, reader>>

\* F1: cli, hlt, and nothing more.
ShutdownIrq ==
  /\ power = "on"
  /\ power' = "off"
  /\ UNCHANGED <<ring, keys, pc, reader>>

\* F2: the keyboard controller resets the machine, which boots again.
RebootIrq ==
  /\ power = "on"
  /\ input_buffer' = [i \in Index |-> NoChar]
  /\ buffer_head' = 0 /\ buffer_tail' = 0
  /\ mods' = {} /\ caps_lock' = FALSE
  /\ pc' = "busy" /\ mode' = "raw" /\ c' = NoChar /\ ret' = NoChar
  /\ line' = <<>> /\ screen' = <<>>
  /\ UNCHANGED power

\* The timer, a key release, a dead key: nothing of the driver's state changes,
\* but a halted reader goes on.
OtherIrqNone ==
  /\ power = "on"
  /\ UNCHANGED vars
OtherIrq ==
  /\ power = "on"
  /\ Woken
  /\ UNCHANGED <<ring, keys, power, reader>>

---------------------------------------------------------------------------
\* The reader.

Call ==
  /\ power = "on" /\ pc = "busy"
  /\ pc' = "test"
  /\ mode' \in {"line", "raw"}
  /\ line' = <<>> /\ screen' = <<>>
  /\ UNCHANGED <<ring, keys, power, c, ret>>

\* while (buffer_head == buffer_tail) hlt: the test, and then the hlt.
Test ==
  /\ power = "on" /\ pc = "test"
  /\ pc' = IF buffer_head = buffer_tail THEN "hlt" ELSE "load"
  /\ UNCHANGED <<ring, keys, power, reader>>

Halt ==
  /\ power = "on" /\ pc = "hlt"
  /\ pc' = "asleep"
  /\ UNCHANGED <<ring, keys, power, reader>>

LoadLater ==
  /\ power = "on" /\ pc = "load"
  /\ c' = input_buffer[NextIndex(buffer_tail)]
  /\ pc' = "advance"
  /\ UNCHANGED <<ring, keys, power, mode, ret, line, screen>>
Load ==
  /\ power = "on" /\ pc = "load"
  /\ c' = input_buffer[buffer_tail]
  /\ pc' = "advance"
  /\ UNCHANGED <<ring, keys, power, mode, ret, line, screen>>

Advance ==
  /\ power = "on" /\ pc = "advance"
  /\ buffer_tail' = NextIndex(buffer_tail)
  /\ ret' = c
  /\ pc' = IF mode = "line" THEN "edit" ELSE "busy"
  /\ UNCHANGED <<input_buffer, buffer_head, keys, power, mode, c, line, screen>>

\* What keyboard_input does with a character, and what it prints.
Front(s) == SubSeq(s, 1, Len(s) - 1)

EchoAlways(ch) ==
  /\ line' = IF Len(line) < LineSize - 1 THEN Append(line, ch) ELSE line
  /\ screen' = Append(screen, ch)
Echo(ch) ==
  IF Len(line) < LineSize - 1
  THEN line' = Append(line, ch) /\ screen' = Append(screen, ch)
  ELSE UNCHANGED <<line, screen>>

Erase ==
  IF line # <<>>
  THEN line' = Front(line) /\ screen' = Front(screen)
  ELSE UNCHANGED <<line, screen>>

Edit ==
  /\ power = "on" /\ pc = "edit"
  /\ \/ ret = Backspace /\ Erase /\ pc' = "test"
     \/ ret = Newline /\ UNCHANGED <<line, screen>> /\ pc' = "busy"
     \/ ret \notin {Backspace, Newline} /\ Echo(ret) /\ pc' = "test"
  /\ UNCHANGED <<ring, keys, power, mode, c, ret>>

Halted == power = "off" /\ UNCHANGED vars

Reader == Call \/ Test \/ Halt \/ Load \/ Advance \/ Edit
Irq == \/ \E k \in Keys \cup {Backspace, Newline} : KeyIrq(k)
       \/ \E m \in ModKeys : ModifierIrq(m)
       \/ CapsIrq \/ ShutdownIrq \/ RebootIrq \/ OtherIrq
Next == Reader \/ Irq \/ Halted

\* The processor executes the reader whenever it is not halted, and the timer
\* interrupts a thousand times a second.
Spec == Init /\ [][Next]_vars /\ WF_vars(Reader) /\ WF_vars(OtherIrq)

---------------------------------------------------------------------------
\* Properties.

TypeOK ==
  /\ input_buffer \in [Index -> Chars \cup {NoChar}]
  /\ buffer_head \in Index /\ buffer_tail \in Index
  /\ mods \in SUBSET ModKeys /\ caps_lock \in BOOLEAN
  /\ power \in {"on", "off"}
  /\ pc \in {"busy", "test", "hlt", "asleep", "load", "advance", "edit"}
  /\ mode \in {"line", "raw"}
  /\ c \in Chars \cup {NoChar} /\ ret \in Chars \cup {NoChar}
  /\ line \in Seq(Printable) /\ screen \in Seq(Printable)

\* The characters waiting: from the tail up to the head, around the ring.
Waiting == IF buffer_tail <= buffer_head
           THEN buffer_head - buffer_tail
           ELSE buffer_head + Size - buffer_tail
SlotOf(i) == IF buffer_tail + i - 1 < Size
             THEN buffer_tail + i - 1
             ELSE buffer_tail + i - 1 - Size
Pending == [i \in 1 .. Waiting |-> input_buffer[SlotOf(i)]]

\* The slots from the tail up to the head, around the ring.
InRing(j) == IF buffer_tail <= buffer_head
             THEN buffer_tail <= j /\ j < buffer_head
             ELSE buffer_tail <= j \/ j < buffer_head

\* The reader's half-finished read: between its test of the ring and its move of
\* the tail, the ring is not empty and the slot at the tail still holds what it
\* loaded, whatever keys were pressed in between (keyboard.c:167 keeps the
\* handler off that slot); and every slot in use holds a key.
ReadIsStable ==
  /\ \A j \in Index : InRing(j) => input_buffer[j] # NoChar
  /\ pc \in {"load", "advance"} => buffer_head # buffer_tail
  /\ pc = "advance" => c = input_buffer[buffer_tail]
  /\ pc = "edit" => ret # NoChar

\* The driver is the bounded queue of KeyQueue: no character twice, none out of
\* order, none lost but to a full ring of Size - 1 characters.
Queue == INSTANCE KeyQueue WITH q <- Pending, last <- ret, Capacity <- Size - 1
QueueSpec == Queue!Spec

\* What is on the screen is the line that will be returned: a character the full
\* line refused was not echoed, a backspace erased only what is there.
EchoIsLine == screen = line /\ Len(line) < LineSize

\* A character that waits is read, though the test of the ring and the hlt
\* are two steps and the key may come between them (keyboard.c:253); only a
\* reboot empties the ring otherwise.
KeyIsRead ==
  \A i \in Index :
    (buffer_tail = i /\ buffer_head # i)
      ~> (buffer_tail # i \/ buffer_head = i \/ power = "off")
=============================================================================
