-------------------------------- MODULE Lease --------------------------------
(* A set of items that clients lease one at a time: what a pool promises. *)

CONSTANTS Client, Item, None

VARIABLE holder    \* the client that has each item, or None

Init == holder = [x \in Item |-> None]

Acquire(c, x) == holder[x] = None /\ holder' = [holder EXCEPT ![x] = c]

Release(c, x) == holder[x] = c /\ holder' = [holder EXCEPT ![x] = None]

Next == \E c \in Client, x \in Item : Acquire(c, x) \/ Release(c, x)

Spec == Init /\ [][Next]_holder
=============================================================================
