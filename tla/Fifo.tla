-------------------------------- MODULE Fifo --------------------------------
(***************************************************************************)
(* What cyclequeue.h promises to one pushing and one popping caller: an    *)
(* element that is accepted goes to the tail, eg_cq_pop removes and        *)
(* returns the head element, and a push may be refused (malloc failed) in  *)
(* which case nothing changes.                                             *)
(***************************************************************************)
EXTENDS Sequences

CONSTANT Elem        \* the values that may be pushed

VARIABLE q           \* the elements in the queue, the oldest first

Init == q = <<>>

Push == \E e \in Elem : q' = Append(q, e)

Pop == q # <<>> /\ q' = Tail(q)

Next == Push \/ Pop

Spec == Init /\ [][Next]_q
=============================================================================
