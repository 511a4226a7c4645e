--------------------------- MODULE MCEnableQueue ---------------------------
(***************************************************************************)
(* Instances of EnableQueue: two items, two threads, one or two callers.   *)
(***************************************************************************)
EXTENDS EnableQueue, TLC

CONSTANTS i1, i2, t1, t2, c1, c2

ThreadsAndCallers == Permutations({t1, t2}) \cup Permutations({c1, c2})

Budgets(fetch, cancel, stop) ==
    [k \in Kind |-> CASE k = "fetch" -> fetch
                      [] k = "cancel" -> cancel
                      [] k = "stop" -> stop]

Everything == Budgets(2, 1, 1)
=============================================================================
