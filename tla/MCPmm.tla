------------------------------- MODULE MCPmm -------------------------------
EXTENDS Pmm
MCSize == [k \in 0 .. MaxOrder - 1 |-> 2 ^ k]
\* A machine with so little memory that no block is larger than HEAP_START is
\* aligned: two regions with a hole between them.
SmallMap == {[first |-> 2, limit |-> 9], [first |-> 10, limit |-> 12]}
\* The memory that begins at HEAP_START and goes on: as on any larger machine, the
\* second block carved from it is twice as large as the first.
LargeMap == {[first |-> 2, limit |-> 8]}

\* The carving loop of init_pmm, step by step.
LoopBlocks(r) ==
  LET Fit(a) == CHOOSE k \in Orders :
                  /\ AlignedIn(r, a, k)
                  /\ \A j \in Orders : AlignedIn(r, a, j) => j <= k
      From[a \in 0 .. r.limit] ==
        IF a >= r.limit THEN {} ELSE {<<a, Fit(a)>>} \cup From[a + Size[Fit(a)]]
  IN  From[IF r.first < Base THEN Base ELSE r.first]
\* Carved is what the loop leaves, for every region of up to 20 pages.
ASSUME CarvedIsTheLoop ==
  \A first \in Base .. 10, limit \in 0 .. 20 : first < limit =>
    LET r == [first |-> first, limit |-> limit]
    IN  LoopBlocks(r) = {<<a, k>> \in (0 .. limit) \X Orders : a \in Carved(r, k)}
============================================================================
