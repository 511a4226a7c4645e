---------------------------- MODULE SerialStore ----------------------------
(***************************************************************************)
(* What the database promises its callers (ARCHITECTURE.md 2.2): each unit *)
(* of work they hand in takes effect as a whole, once or never, one after  *)
(* the other; an answer says truly which; one that is given up on may      *)
(* still take effect later, but only while the process lives.              *)
(***************************************************************************)
EXTENDS Naturals, Sequences

CONSTANT Client

VARIABLES
    log,        \* the units that took effect, in that order: <<client, number>>
    open,       \* the units that may still take effect
    asked,      \* per client, how many units it has handed in
    answer      \* what it knows of the last: "none", "pending", "ok", "error" or "unknown"

vars == <<log, open, asked, answer>>

Init ==
    /\ log = <<>> /\ open = {}
    /\ asked = [c \in Client |-> 0] /\ answer = [c \in Client |-> "none"]

Last(c) == <<c, asked[c]>>
TookEffect(u) == \E i \in 1..Len(log) : log[i] = u

Ask(c) ==
    /\ answer[c] # "pending"
    /\ asked' = [asked EXCEPT ![c] = @ + 1]
    /\ answer' = [answer EXCEPT ![c] = "pending"]
    /\ open' = open \cup {<<c, asked[c] + 1>>}
    /\ UNCHANGED log

Take(u) ==
    /\ u \in open
    /\ log' = Append(log, u)
    /\ open' = open \ {u}
    /\ UNCHANGED <<asked, answer>>

Refuse(u) ==
    /\ u \in open
    /\ open' = open \ {u}
    /\ UNCHANGED <<log, asked, answer>>

Answer(c) ==
    /\ answer[c] = "pending" /\ Last(c) \notin open
    /\ answer' = [answer EXCEPT ![c] = IF TookEffect(Last(c)) THEN "ok" ELSE "error"]
    /\ UNCHANGED <<log, open, asked>>

GiveUp(c) ==
    /\ answer[c] = "pending"
    /\ answer' = [answer EXCEPT ![c] = "unknown"]
    /\ UNCHANGED <<log, open, asked>>

\* The process ends: nothing is open any more, and whoever waited knows nothing.
End ==
    /\ open' = {}
    /\ answer' = [c \in Client |-> "none"]
    /\ UNCHANGED <<log, asked>>

Next ==
    \/ \E c \in Client : Ask(c) \/ Answer(c) \/ GiveUp(c)
    \/ \E u \in open : Take(u) \/ Refuse(u)
    \/ End

Spec == Init /\ [][Next]_vars
=============================================================================
