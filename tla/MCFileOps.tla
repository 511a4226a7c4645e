----------------------------- MODULE MCFileOps -----------------------------
(* Two requests beside each other on a library of two paths and two files. *)
EXTENDS FileOps, TLC

Times(any, requests, overwrites, tags, saves, truncations, overlaps, crashes) ==
    "any" :> any @@ "request" :> requests @@ "overwrite" :> overwrites
    @@ "tag" :> tags @@ "save" :> saves @@ "truncate" :> truncations @@ "overlap" :> overlaps
    @@ "crash" :> crashes
    @@ [mark \in {"prune", "race", "sweep", "clash", "shared"} |-> 1]

SafetyBudget == Times(4, 3, 1, 1, 1, 0, 1, 1)
=============================================================================
