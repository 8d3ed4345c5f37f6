----------------------------- MODULE FreeMemory -----------------------------
(***************************************************************************)
(* What the RAM manager promises: memory leaves the free list only by      *)
(* being allocated, and what was allocated never becomes free again.       *)
(***************************************************************************)
VARIABLES free, held

Init == free = {} /\ held = {}

Step ==
    /\ held \subseteq held'            \* nothing is given back
    /\ free' \cap held' = {}           \* allocated memory is not free
    /\ free \ free' \subseteq held'    \* and nothing else is lost

Spec == Init /\ [][Step]_<<free, held>>
=============================================================================
