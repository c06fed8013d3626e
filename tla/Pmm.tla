-------------------------------- MODULE Pmm ---------------------------------
(***************************************************************************)
(* The allocator of physical pages, src/src/drivers/memory/pmm.c: a buddy  *)
(* system over the memory above HEAP_START.                                *)
(*                                                                         *)
(* Memory is counted in pages (MIN_BLOCK_SIZE) and a block is known by the *)
(* number of its first page, from HEAP_START on, as in the code.  Which of *)
(* the blocks of a list is its head is left open.                          *)
(*                                                                         *)
(* The shell calls with interrupts on and may be left at any point for a   *)
(* timer tick, which frees the dead, or for a process and its system       *)
(* calls; both call with interrupts off (isr.asm, syscall.asm): a call of  *)
(* Irq runs to its end before Shell goes on.  If it needs a lock that the  *)
(* shell holds, it spins for ever.                                         *)
(***************************************************************************)
EXTENDS Naturals, FiniteSets

CONSTANTS MaxOrder,      \* MAX_ORDER
          Size,          \* order_to_size, in pages: [Orders -> Nat]
          Base,          \* the page at HEAP_START
          Regions,       \* the usable regions of the memory map, in pages:
                         \* records with the fields first and limit
          Requests,      \* the sizes asked for, in pages
          Shell, Irq,    \* the two contexts that call
          None           \* no lock held, or no block

Orders == 0 .. MaxOrder - 1

ASSUME OrderAssumption ==
  /\ MaxOrder \in Nat \ {0}
  /\ Size \in [Orders -> Nat] /\ Size[0] = 1
  /\ \A k \in Orders \ {0} : Size[k] = 2 * Size[k - 1]
ASSUME MapAssumption ==
  /\ Base \in Nat
  /\ \A r \in Regions : r.first \in Nat /\ r.limit \in Nat
  /\ \A r, s \in Regions : r # s => r.limit <= s.first \/ s.limit <= r.first
  /\ Regions # {} => \E s \in Regions : \A r \in Regions : r.limit <= s.limit
ASSUME RequestAssumption == Requests \subseteq Nat \ {0}
ASSUME ContextAssumption == /\ Shell # Irq /\ None \notin Nat
                            /\ {Shell, Irq} \cap {"list", "caller"} = {}

VARIABLES free_lists, bitmap, order_map, used_memory,
          lock,      \* the list whose lock each context holds
          op,        \* the call each context makes and how far it is
          live       \* what the callers own: <<block, order>>

shared == <<free_lists, bitmap, order_map, used_memory>>
vars   == <<shared, lock, op, live>>

Contexts == {Shell, Irq}
Extent(b, k) == b .. b + Size[k] - 1

---------------------------------------------------------------------------
\* init_pmm.

Above(r) == {p \in Base .. r.limit - 1 : p >= r.first}
Usable == {p - Base : p \in UNION {Above(r) : r \in Regions}}
MaxBlocks == IF Usable = {} THEN 0
             ELSE 1 + CHOOSE p \in Usable : \A q \in Usable : q <= p
Pages == 0 .. MaxBlocks - 1

\* The loop takes from a region, from its start on, the largest block that fits
\* and is aligned: that cuts it into the aligned blocks that lie in it and in no
\* larger one that does.  It is the address that is aligned.
AlignedIn(r, a, k) == a % Size[k] = 0 /\ Extent(a, k) \subseteq Above(r)
Carved(r, k) ==
  {a \in Above(r) :
     /\ AlignedIn(r, a, k)
     /\ k + 1 \in Orders => ~AlignedIn(r, a - (a % Size[k + 1]), k + 1)}

Idle == [pc |-> "idle", order |-> 0, cur |-> 0, block |-> None]

Init ==
  /\ free_lists = [k \in Orders |-> {a - Base : a \in UNION {Carved(r, k) : r \in Regions}}]
  /\ bitmap = {}
  /\ order_map = [b \in Pages |-> 0]
  /\ used_memory = 0
  /\ lock = [c \in Contexts |-> None]
  /\ op = [c \in Contexts |-> Idle]
  /\ live = {}

---------------------------------------------------------------------------
\* get_order: the least order that is large enough, or the largest one.
GetOrder(n) == CHOOSE k \in Orders : /\ Size[k] >= n \/ k = MaxOrder - 1
                                     /\ \A j \in Orders : j < k => Size[j] < n

\* get_buddy: block ^ (1 << order).
Buddy(b, k) == IF (b \div Size[k]) % 2 = 0 THEN b + Size[k] ELSE b - Size[k]
KeepFirst(b, c) == b             \* mutant: a merged block starts at either half
Least(b, c) == IF b < c THEN b ELSE c

\* is_buddy_free
BuddyFree(b, k) == /\ Extent(Buddy(b, k), k) \subseteq Pages
                   /\ Extent(Buddy(b, k), k) \cap bitmap = {}

\* The shell does not run while a call of Irq does.
Turn(c) == c = Irq \/ op[Irq] = Idle
At(c, pc) == Turn(c) /\ op[c].pc = pc
Goto(c, new) == op' = [op EXCEPT ![c] = new]
Return(c) == Goto(c, Idle)

\* The list that the next step of c changes, and with its lock.
ListOf(c) ==
  CASE op[c].pc = "split" /\ Buddy(op[c].block, op[c].cur - 1) < MaxBlocks -> op[c].cur - 1
    [] OTHER -> op[c].cur
Changes(c) == \/ op[c].pc \in {"take", "join", "put"}
              \/ op[c].pc = "split" /\ op[c].cur > op[c].order
Lock(c) ==
  /\ Turn(c) /\ Changes(c) /\ lock[c] = None
  /\ \A d \in Contexts : lock[d] # ListOf(c)
  /\ lock' = [lock EXCEPT ![c] = ListOf(c)]
  /\ UNCHANGED <<shared, op, live>>
Locked(c) == lock[c] = ListOf(c)
NoUnlock(c) == UNCHANGED lock                       \* mutant: never unlocks
Unlock(c) == lock' = [lock EXCEPT ![c] = None]
Add(k, b) == free_lists' = [free_lists EXCEPT ![k] = @ \cup {b}]
Remove(k, b) == free_lists' = [free_lists EXCEPT ![k] = @ \ {b}]

---------------------------------------------------------------------------
\* pmm_malloc.

Malloc(c) ==
  /\ At(c, "idle")
  /\ \E n \in Requests : LET k == GetOrder(n) IN
       Goto(c, [pc |-> "scan", order |-> k, cur |-> k, block |-> None])
  /\ UNCHANGED <<shared, lock, live>>

\* The lists are looked at without their locks.
Scan(c) ==
  /\ At(c, "scan")
  /\ IF op[c].cur = MaxOrder THEN Return(c)
     ELSE Goto(c, IF free_lists[op[c].cur] = {} THEN [op[c] EXCEPT !.cur = @ + 1]
                  ELSE [op[c] EXCEPT !.pc = "take"])
  /\ UNCHANGED <<shared, lock, live>>

\* The list may be empty by now; then there is no memory.
Take(c) ==
  /\ At(c, "take") /\ Locked(c)
  /\ IF free_lists[op[c].cur] = {} THEN Return(c) /\ UNCHANGED free_lists
     ELSE \E b \in free_lists[op[c].cur] :
            /\ Remove(op[c].cur, b)
            /\ Goto(c, [op[c] EXCEPT !.pc = "split", !.block = b])
  /\ Unlock(c)
  /\ UNCHANGED <<bitmap, order_map, used_memory, live>>

\* The half that is not wanted goes to its list.  If it has no number the block
\* goes back and there is no memory.
SplitLosing(c) ==                           \* mutant: the other half is not listed
  /\ At(c, "split") /\ op[c].cur > op[c].order /\ Locked(c)
  /\ Goto(c, [op[c] EXCEPT !.cur = @ - 1])
  /\ Unlock(c)
  /\ UNCHANGED <<shared, live>>
Split(c) ==
  LET k     == op[c].cur - 1
      b     == op[c].block
      buddy == Buddy(b, k)
  IN  /\ At(c, "split") /\ op[c].cur > op[c].order /\ Locked(c)
      /\ IF buddy < MaxBlocks
         THEN /\ Add(k, buddy)
              /\ Goto(c, [pc |-> "split", order |-> op[c].order, cur |-> k,
                          block |-> Least(b, buddy)])
         ELSE Add(k + 1, b) /\ Return(c)
      /\ Unlock(c)
      /\ UNCHANGED <<bitmap, order_map, used_memory, live>>

\* The caller gets the block.
MarkFirst(b, k) == bitmap' = bitmap \cup {b}        \* mutant: marks one page
Mark(b, k) == bitmap' = bitmap \cup Extent(b, k)
Grant(c) ==
  LET b == op[c].block
      k == op[c].order
  IN  /\ At(c, "split") /\ op[c].cur = k
      /\ IF Extent(b, k) \subseteq Pages
         THEN /\ Mark(b, k)
              /\ order_map' = [order_map EXCEPT ![b] = k]
              /\ used_memory' = used_memory + Size[k]
              /\ live' = live \cup {<<b, k>>}
              /\ Return(c)
         ELSE /\ Goto(c, [op[c] EXCEPT !.pc = "put"])
              /\ UNCHANGED <<bitmap, order_map, used_memory, live>>
      /\ UNCHANGED <<free_lists, lock>>

---------------------------------------------------------------------------
\* pmm_free, of what somebody owns.

FreeAsAsked(b) == Size[0]                           \* mutant: subtracts one page
Freed(b) == Size[order_map[b]]
Free(c) ==
  /\ At(c, "idle")
  /\ \E e \in live : LET b == e[1]
                         k == order_map[b]
       IN  /\ live' = live \ {e}
           /\ IF b \in bitmap
              THEN /\ bitmap' = bitmap \ Extent(b, k)
                   /\ order_map' = [order_map EXCEPT ![b] = 0]
                   /\ used_memory' = used_memory - Freed(b)
                   /\ Goto(c, [pc |-> "merge", order |-> 0, cur |-> k, block |-> b])
              ELSE UNCHANGED <<bitmap, order_map, used_memory, op>>
  /\ UNCHANGED <<free_lists, lock>>

\* A buddy with no bit set may be free, or in the hands of another call.
Merge(c) ==
  /\ At(c, "merge")
  /\ Goto(c, [op[c] EXCEPT !.pc =
                IF op[c].cur < MaxOrder - 1 /\ BuddyFree(op[c].block, op[c].cur)
                THEN "join" ELSE "put"])
  /\ UNCHANGED <<shared, lock, live>>

ListedIfFree(b, k) == TRUE        \* mutant: trusts the bitmap, as pmm_defragment does
Listed(b, k) == b \in free_lists[k]
Join(c) ==
  LET k     == op[c].cur
      buddy == Buddy(op[c].block, k)
  IN  /\ At(c, "join") /\ Locked(c)
      /\ IF Listed(buddy, k)
         THEN /\ Remove(k, buddy)
              /\ Goto(c, [pc |-> "merge", order |-> 0, cur |-> k + 1,
                          block |-> Least(op[c].block, buddy)])
         ELSE Goto(c, [op[c] EXCEPT !.pc = "put"]) /\ UNCHANGED free_lists
      /\ Unlock(c)
      /\ UNCHANGED <<bitmap, order_map, used_memory, live>>

Put(c) ==
  /\ At(c, "put") /\ Locked(c)
  /\ Add(op[c].cur, op[c].block)
  /\ Return(c)
  /\ Unlock(c)
  /\ UNCHANGED <<bitmap, order_map, used_memory, live>>

---------------------------------------------------------------------------
Call(c) == Malloc(c) \/ Free(c)
Go(c) == Lock(c) \/ Scan(c) \/ Take(c) \/ Split(c) \/ Grant(c) \/ Merge(c) \/ Join(c) \/ Put(c)
Next == \E c \in Contexts : Call(c) \/ Go(c)

\* Code that has the processor goes on: Irq in its calls, and otherwise the shell.
Spec == Init /\ [][Next]_vars /\ WF_vars(Go(Irq)) /\ WF_vars(Go(Shell))

---------------------------------------------------------------------------
\* Properties.

Call_ == [pc : {"idle", "scan", "take", "split", "merge", "join", "put"},
          order : Orders, cur : 0 .. MaxOrder, block : Pages \cup {None}]

TypeOK ==
  /\ free_lists \in [Orders -> SUBSET Pages]
  /\ bitmap \subseteq Pages
  /\ order_map \in [Pages -> Orders]
  /\ used_memory \in 0 .. MaxBlocks
  /\ lock \in [Contexts -> Orders \cup {None}]
  /\ op \in [Contexts -> Call_]
  /\ live \subseteq Pages \X Orders

\* Every piece of memory and who has it: a list, a caller, or a call on its way.
InHand(c) == op[c].block # None
Pieces == {<<"list", b, k>> : b \in Pages, k \in Orders}
Held ==
  {x \in Pieces : x[2] \in free_lists[x[3]]}
    \cup {<<"caller", e[1], e[2]>> : e \in live}
    \cup {<<c, op[c].block, op[c].cur>> : c \in {d \in Contexts : InHand(d)}}

\* No page is in two places: not handed out twice, not handed out while it is on a
\* list, not on two lists, however the calls of the two contexts interleave
\* (pmm.c:253-301, 306-348).
NoOverlap ==
  \A x, y \in Held : x # y => Extent(x[2], x[3]) \cap Extent(y[2], y[3]) = {}

\* No page is lost: all the memory of the map stays on a list, with a caller, or
\* with a call, which puts it back when it fails (pmm.c:266, 273, 289, 341-348).
NoneLost == UNION {Extent(x[2], x[3]) : x \in Held} = Usable

\* What pmm_free reads is true of what pmm_malloc gave out: the bitmap marks the
\* pages that have an owner and no other, and order_map knows how many the owner of
\* a block has (pmm.c:293-295, 317-327).
BitmapIsTrue ==
  /\ bitmap = UNION {Extent(e[1], e[2]) : e \in live}
  /\ \A e \in live : order_map[e[1]] = e[2]

\* pmm_get_used_memory counts the pages that have an owner (pmm.c:298, 332).
UsedIsTrue == used_memory = Cardinality(UNION {Extent(e[1], e[2]) : e \in live})

\* To its callers the allocator is a Heap.
HeapOfCallers == INSTANCE Heap WITH owned <- {Extent(e[1], e[2]) : e \in live}
HeapSpec == HeapOfCallers!Spec

\* A call returns, unless the shell is interrupted in it, or it spins on the lock of
\* the list that the code it interrupted was changing (pmm.c:21-27).
Spins == Changes(Irq) /\ lock[Irq] = None /\ lock[Shell] = ListOf(Irq)
CallReturns ==
  /\ (op[Irq] # Idle) ~> (op[Irq] = Idle \/ Spins)
  /\ (op[Shell] # Idle) ~> (op[Shell] = Idle \/ op[Irq] # Idle)

\* cmd_memtest (cmd.c:338-360) writes to the blocks it was given and reads each of
\* them back: what the owner of a block writes there stays, so the blocks are apart.
BlocksApart ==
  \A e, f \in live : e # f => Extent(e[1], e[2]) \cap Extent(f[1], f[2]) = {}
=============================================================================
