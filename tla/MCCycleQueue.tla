---------------------------- MODULE MCCycleQueue ----------------------------
(* Instances of the cyclic queue for TLC; see the cfg files. *)
EXTENDS CycleQueue

\* State constraint: nothing is claimed of a queue beyond repair, so TLC need
\* not follow it further.
Undamaged == ~stray /\ ~wrapped
=============================================================================
