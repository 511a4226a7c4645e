---------------------------- MODULE MCHashQueue ----------------------------
(***************************************************************************)
(* Instances of HashQueue: two files that may hold the same bytes, two     *)
(* worker threads, one or two callers.                                     *)
(***************************************************************************)
EXTENDS HashQueue, FiniteSetsExt, TLC

CONSTANTS f1, f2, w1, w2, c1, c2, a, b

Symmetric == Permutations({w1, w2}) \cup Permutations({f1, f2}) \cup Permutations({a, b})

Events(enq, can, siz, rew, sto) ==
    [k \in Kind |-> CASE k = "enqueue" -> enq [] k = "cancel" -> can
                      [] k = "resize" -> siz [] k = "rewrite" -> rew
                      [] k = "stop" -> sto]

Every == Events(2, 1, 1, 1, 1)
Calls == Events(2, 1, 0, 0, 1)

\* Any three outside events of those in Every, in any order.
ThreeEvents == MapThenSumSet(LAMBDA k : Budget[k] - left[k], Kind) <= 3
=============================================================================
