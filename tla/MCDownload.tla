---------------------------- MODULE MCDownload -----------------------------
(***************************************************************************)
(* Instances of Download: a target and one sibling name; a version of two  *)
(* chunks and one of three.                                                *)
(***************************************************************************)
EXTENDS Download, TLC

CONSTANTS t, sib, v1, v2

TwoAndThree == v1 :> 2 @@ v2 :> 3

Hashed == {{"sha256"}, {"size", "sha256"}}

Budgets(fault, stop, publish, foreign) ==
    [k \in Kind |-> CASE k = "fault" -> fault
                      [] k \in {"cancel", "crash"} -> stop
                      [] k = "publish" -> publish
                      [] k = "foreign" -> foreign
                      [] k = "race" -> 0]

Rough == Budgets(1, 1, 1, 2)
=============================================================================
