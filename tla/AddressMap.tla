----------------------------- MODULE AddressMap -----------------------------
(***************************************************************************)
(* What a caller of aarch64_map() counts on: one flat map from pages to    *)
(* frames.  A call at a given address replaces exactly the pages of that   *)
(* range; a call that leaves the address to startup (~0) gets pages nobody *)
(* maps.  Nothing else ever changes.                                       *)
(***************************************************************************)
EXTENDS Integers, TLC

CONSTANT Calls      \* [anywhere, page, n, frame, rights]

VARIABLES
    view,    \* page -> [frame, rights], the pages mapped so far
    call     \* the call served last, << >> before the first

Served(c) ==
    [p \in c.page .. c.page + c.n - 1 |-> [frame |-> c.frame + p - c.page, rights |-> c.rights]]

Init == view = << >> /\ call = << >>

\* The caller names the address.
MapAt ==
    /\ call' \in Calls /\ ~call'.anywhere
    /\ view' = Served(call') @@ view

\* Startup chooses the address.
MapAnywhere ==
    /\ call' \in Calls /\ call'.anywhere
    /\ DOMAIN view \cap DOMAIN Served(call') = {}
    /\ view' = Served(call') @@ view

Next == MapAt \/ MapAnywhere

Spec == Init /\ [][Next]_<<view, call>>
=============================================================================
