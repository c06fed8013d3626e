-------------------------------- MODULE Heap --------------------------------
(***************************************************************************)
(* What an allocator of pages promises to its callers: what it hands out is *)
(* memory, and no one else's.                                               *)
(***************************************************************************)
CONSTANT Usable
VARIABLE owned          \* what the callers own: sets of pages

Init == owned = {}
Allocate == \E e \in (SUBSET (Usable \ UNION owned)) \ {{}} : owned' = owned \cup {e}
Release == \E e \in owned : owned' = owned \ {e}
Spec == Init /\ [][Allocate \/ Release]_owned
=============================================================================
