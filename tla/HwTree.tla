------------------------------- MODULE HwTree -------------------------------
(***************************************************************************)
(* What the hwinfo section is for: a list of items, each owned by an       *)
(* earlier one, each with its tags.  Items are only added; tags can only   *)
(* be given to the last item; an existing tag may be assigned a value.     *)
(***************************************************************************)
EXTENDS Naturals, Sequences

VARIABLE items     \* sequence of [kind, name, owner, value, tags]

Root == [kind |-> "group", name |-> "hw", owner |-> 0, value |-> 0, tags |-> <<>>]
UnknownBus == [kind |-> "bus", name |-> "unknown", owner |-> 1, value |-> 0, tags |-> <<>>]

Init == items = <<Root, UnknownBus>>

\* New items leave the old ones alone and belong to an item before them.
Add ==
    /\ Len(items') > Len(items)
    /\ SubSeq(items', 1, Len(items)) = items
    /\ \A k \in Len(items) + 1 .. Len(items') : items'[k].owner \in 1 .. k - 1

\* The last item gains tags.
Tag ==
    LET last == Len(items)
    IN  /\ Len(items') = last
        /\ Len(items'[last].tags) > Len(items[last].tags)
        /\ items' = [items EXCEPT ![last].tags = items'[last].tags]
        /\ SubSeq(items'[last].tags, 1, Len(items[last].tags)) = items[last].tags

\* One tag of one item takes a value.
Assign ==
    \E k \in 1 .. Len(items) : \E t \in 1 .. Len(items[k].tags) :
        /\ Len(items') = Len(items)
        /\ Len(items'[k].tags) = Len(items[k].tags)
        /\ items' = [items EXCEPT ![k].tags[t].value = items'[k].tags[t].value]

Next == Add \/ Tag \/ Assign

Spec == Init /\ [][Next]_items
=============================================================================
