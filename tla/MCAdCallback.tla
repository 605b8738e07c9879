---------------------------- MODULE MCAdCallback ----------------------------
(* Ads served to one user; a3 is paid by clicks, the others by shows. *)
EXTENDS AdCallback, TLC

CONSTANTS a1, a2, a3, u1, w1, w2

MCUserOf == [a \in Ads |-> u1]
MCPaidOn == [a \in Ads |-> IF a = a3 THEN "click" ELSE "show"]
MCFre == [k \in {"show", "click"} |-> IF k = "show" THEN 2 ELSE 1]
Symmetry == Permutations({w1, w2})

\* Bound: with faults, only the callbacks of a2 and a3 are followed.
FaultsOnTwo == faults = 0 \/ served \subseteq {a2, a3}
=============================================================================
