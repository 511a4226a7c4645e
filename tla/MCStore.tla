------------------------------ MODULE MCStore ------------------------------
(***************************************************************************)
(* Instances of Store: the application's thread and two workers, any two *)
(* faults or outside events, and a stop at any moment.                      *)
(***************************************************************************)
EXTENDS Store, TLC

CONSTANTS main, c1, c2

Few == (main :> 2) @@ (c1 :> 2) @@ (c2 :> 1)

Kinds == (c1 :> {"write"}) @@ (c2 :> {"checkpoint"})

Two == [k \in Kind |-> IF k = "any" THEN 2 ELSE 1]
=============================================================================
