---------------------------- MODULE MCSearchSync ----------------------------
(***************************************************************************)
(* Instances of SearchSync: two assets, two builders, any five events.     *)
(***************************************************************************)
EXTENDS SearchSync, TLC

CONSTANTS u1, u2, b1, b2

Five == [k \in Kind |-> CASE k = "any" -> 5 [] k \in {"build", "scan"} -> 2 [] OTHER -> 1]

Symmetry == Permutations({u1, u2}) \cup Permutations({b1, b2})
=============================================================================
