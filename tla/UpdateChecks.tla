---------------------------- MODULE UpdateChecks ----------------------------
(***************************************************************************)
(* Looking for updates of node packages: requests mark packages and see    *)
(* to it that one batch thread drains them, single checks run beside it,   *)
(* and scans change the rows between the steps of a check.                 *)
(*                                                                         *)
(* Abstractions.  A commit is a number, 0 when none is recorded; the       *)
(* remote's answer is what resolve_revision makes of it (GitFetch's side   *)
(* of the enable plans).                                                   *)
(***************************************************************************)
EXTENDS Naturals, FiniteSets

CONSTANTS
    Package,        \* ids of node packages, numbers
    Caller,         \* requests
    MaxAsk,         \* bounds of the model
    MaxScan

VARIABLES
    package,    \* the rows of node_packages
    running,    \* _batch_running
    batch,      \* what the batch thread is doing, or "none"
    callers,    \* what the requests are doing
    checksOn,    \* online_enabled
    seen,       \* what was compared: the package, its commit, the remote's
    late,       \* packages marked too late for a batch that was leaving
    rounds       \* requests and scans so far, bounded

updatesVars == <<package, running, batch, callers, checksOn, seen, late, rounds>>

Commit == 1..2
None == [at |-> "none"]
Rest == [at |-> "rest"]

Init ==
    /\ package = [p \in Package |->
         [state |-> "none", url |-> "right", commit |-> 1, update |-> FALSE, latest |-> 0]]
    /\ running = FALSE /\ batch = None
    /\ callers = [c \in Caller |-> Rest]
    /\ checksOn = TRUE
    /\ seen = {} /\ late = {}
    /\ rounds = [asks |-> 0, scans |-> 0]

Pending == {p \in Package : package[p].state = "pending"}
Ask == rounds.asks < MaxAsk /\ rounds' = [rounds EXCEPT !.asks = @ + 1]

-----------------------------------------------------------------------------
(* enqueue_checks: one write, then a look at the flag.                     *)

Mark(c, ids) ==
    /\ callers[c] = Rest /\ Ask
    /\ LET marked == {p \in ids : package[p].url = "right"}
       IN  /\ package' = [p \in Package |->
                IF p \in marked THEN [package[p] EXCEPT !.state = "pending"] ELSE package[p]]
           /\ callers' = [callers EXCEPT ![c] = [at |-> "marked", queued |-> marked]]
    /\ UNCHANGED <<running, batch, checksOn, seen, late>>

\* One thread at a time; nobody tells one that is leaving.
Start(c) ==
    /\ callers[c].at = "marked"
    /\ IF callers[c].queued # {} /\ ~running
       THEN running' = TRUE /\ batch' = [at |-> "look"]
       ELSE UNCHANGED <<running, batch>>
    /\ late' = IF batch.at = "leave" THEN late \cup callers[c].queued ELSE late
    /\ callers' = [callers EXCEPT ![c] = Rest]
    /\ UNCHANGED <<package, checksOn, seen, rounds>>

-----------------------------------------------------------------------------
(* check_package: the row is read, the remote asked, the result written.   *)

\* _persist: what is not given keeps its value.
Persist(p, state) ==
    package' = [package EXCEPT ![p].state = state]

\* What becomes of the row that was read: nothing, a result at once, or a question.
Verdict(r) ==
    IF r.url = "suspect" THEN "suspect_remote"
    ELSE IF r.url = "none" THEN "nothing"
    ELSE IF r.commit = 0 THEN "error" ELSE "ask"

Asking(p) == [at |-> "ask", of |-> p, commit |-> package[p].commit]

Read(p) ==
    LET v == Verdict(package[p])
    IN  IF v \in {"ask", "nothing"} THEN UNCHANGED package ELSE Persist(p, v)

\* mutant of Compare: an answer without a tip counts as another commit
CompareAny(p, commit, tip) ==
    package' = [package EXCEPT ![p] = [@ EXCEPT !.state = "ok", !.update = tip # commit, !.latest = tip]]
\* resolve_revision found a tip, or it did not.
Compare(p, commit, tip) ==
    package' = [package EXCEPT ![p] =
        IF tip = 0 THEN [@ EXCEPT !.state = "error"]
        ELSE [@ EXCEPT !.state = "ok", !.update = tip # commit, !.latest = tip]]

Answer(check) ==
    \E tip \in Commit \cup {0} :
        /\ Compare(check.of, check.commit, tip)
        /\ seen' = IF tip = 0 THEN seen ELSE seen \cup {<<check.of, check.commit, tip>>}

\* POST /nodes/packages/{id}/check-update: a check of its own.
Check(c, p) ==
    /\ callers[c] = Rest /\ Ask
    /\ Read(p)
    /\ callers' = IF Verdict(package[p]) = "ask" THEN [callers EXCEPT ![c] = Asking(p)] ELSE callers
    /\ UNCHANGED <<running, batch, checksOn, seen, late>>

Checked(c) ==
    /\ callers[c].at = "ask"
    /\ Answer(callers[c])
    /\ callers' = [callers EXCEPT ![c] = Rest]
    /\ UNCHANGED <<running, batch, checksOn, late, rounds>>

-----------------------------------------------------------------------------
(* _batch_worker.                                                          *)

\* The first that waits, as long as there is one.
Look ==
    /\ batch.at = "look"
    /\ batch' = IF Pending = {} THEN [at |-> "leave"]
                ELSE [at |-> "take", of |-> CHOOSE p \in Pending : \A q \in Pending : p <= q]
    /\ UNCHANGED <<package, running, callers, checksOn, seen, late, rounds>>

\* The switch is looked at for each; a row whose address went away keeps waiting.
Take ==
    /\ batch.at = "take"
    /\ IF ~checksOn
       THEN Persist(batch.of, "offline") /\ batch' = [at |-> "look"]
       ELSE /\ Read(batch.of)
            /\ batch' = IF Verdict(package[batch.of]) = "ask" THEN Asking(batch.of) ELSE [at |-> "look"]
    /\ UNCHANGED <<running, callers, checksOn, seen, late, rounds>>

Conclude ==
    /\ batch.at = "ask"
    /\ Answer(batch)
    /\ batch' = [at |-> "look"]
    /\ UNCHANGED <<running, callers, checksOn, late, rounds>>

\* mutant of Leave: the flag is left up
LeaveRunning ==
    /\ batch.at = "leave"
    /\ batch' = None
    /\ UNCHANGED <<package, running, callers, checksOn, seen, late, rounds>>
Leave ==
    /\ batch.at = "leave"
    /\ batch' = None /\ running' = FALSE
    /\ UNCHANGED <<package, callers, checksOn, seen, late, rounds>>

-----------------------------------------------------------------------------
(* The rest of the application.                                            *)

\* A scan reads another address or another commit from .git; the results stay.
Scan(p) ==
    /\ rounds.scans < MaxScan
    /\ rounds' = [rounds EXCEPT !.scans = @ + 1]
    /\ \E u \in {"right", "suspect", "none"}, commit \in Commit \cup {0} :
          package' = [package EXCEPT ![p] = [@ EXCEPT !.url = u, !.commit = commit]]
    /\ UNCHANGED <<running, batch, callers, checksOn, seen, late>>

Switch ==
    /\ checksOn /\ checksOn' = FALSE
    /\ UNCHANGED <<package, running, batch, callers, seen, late, rounds>>

\* The application is started again: what waited has nobody.
Restart ==
    /\ batch # None
    /\ running' = FALSE /\ batch' = None
    /\ callers' = [c \in Caller |-> Rest]
    /\ late' = late \cup Pending
    /\ UNCHANGED <<package, checksOn, seen, rounds>>

Next ==
    \/ \E c \in Caller : \/ \E ids \in SUBSET Package \ {{}} : Mark(c, ids)
                         \/ \E p \in Package : Check(c, p)
                         \/ Start(c) \/ Checked(c)
    \/ Look \/ Take \/ Conclude \/ Leave
    \/ \E p \in Package : Scan(p)
    \/ Switch \/ Restart

-----------------------------------------------------------------------------
\* An update is announced only for a commit that was recorded when the remote showed
\* another (check_package, _persist: "has_update" is a fact of one ls-remote).
UpdatesSeen ==
    \A p \in Package : package[p].update =>
        \E c \in Commit : c # package[p].latest /\ <<p, c, package[p].latest>> \in seen

\* What was asked for has a thread that will look at it, or a request about to start one,
\* unless it came while the thread was leaving or before a restart (_batch_worker,
\* enqueue_checks).
NobodyForgotten ==
    \A p \in Pending : batch # None \/ p \in late \/ \E c \in Caller :
        callers[c].at = "marked" /\ p \in callers[c].queued
=============================================================================
