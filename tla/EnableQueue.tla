---------------------------- MODULE EnableQueue ----------------------------
(***************************************************************************)
(* The Enable fetch queue (backend/app/enable/service.py): API requests    *)
(* put batches of items into enable_jobs and cancel them, one thread works *)
(* them off, one scan_jobs row per batch carries its errors, and the       *)
(* process stops, crashes and restarts.                                    *)
(*                                                                         *)
(* A database operation is one step, like in HashQueue.  What a fetch does *)
(* to the disk is module Download; here it is the state it returns.        *)
(*                                                                         *)
(* Abstractions.  The claim order (enqueued_at, id) is dropped, a plan and *)
(* its refusals happen before fetch begins, and bytes_done, attempts and   *)
(* published messages are left out.  The scan that a worker asks for after *)
(* it placed something is external; the thread lives on until it asked.    *)
(* Database writes succeed.                                                *)
(***************************************************************************)
EXTENDS Naturals, FiniteSets

CONSTANTS
    Item,     \* rows of enable_jobs (a row is never used twice)
    Thread,   \* threads running _run
    Caller,   \* concurrent API requests
    Budget,   \* how often each kind of outside event may happen
    None

Kind == {"fetch", "cancel", "stop"}

ASSUME EnableOK ==
    /\ Budget \in [Kind -> Nat]
    /\ None \notin Item \cup Thread

VARIABLES
    \* enable_jobs, scan_jobs and scan_errors
    state, batch_id, scanJob, scanErrors,
    \* EnableService
    phase,        \* "up", "stopping" (_stopping is set), "down" (no process)
    cancelSet,    \* self._cancel.is_set()
    batchCancel,  \* self._batch_cancel
    registered,   \* the batches in self._scan_job_ids
    worker,       \* self._worker
    \* threads
    pc, job, event, touched, result,
    \* API callers
    call, callBatch, callItems,
    \* bounds
    left

dbVars     == <<state, batch_id, scanJob, scanErrors>>
poolVars   == <<phase, cancelSet, batchCancel, registered, worker>>
threadVars == <<pc, job, event, touched, result>>
callVars   == <<call, callBatch, callItems>>
vars == <<dbVars, poolVars, threadVars, callVars, left>>

-----------------------------------------------------------------------------
Settled  == {"done", "skipped", "quarantined", "failed", "cancelled"}
JobState == {"absent", "queued", "running"} \cup Settled
Batch    == 0 .. Budget["fetch"]

\* Where a thread is: "top" the loop head, "claim" before _claim, "begin" before
\* the look at _batch_cancel, "run" in _run_one, "finish" before _finish, "close"
\* closing the touched batches, "rescan" after self._worker = None.
ThreadPc == {"off", "top", "claim", "begin", "run", "finish", "close", "rescan"}
Working  == {"top", "claim", "begin", "run", "finish", "close"}

\* Where a caller is: fetch is before _enqueue ("enqueue") or before
\* _ensure_worker ("wake"); cancel is before its database operation ("sweep").
CallPc == {"idle", "enqueue", "wake", "sweep"}

TypeOK ==
    /\ state \in [Item -> JobState]
    /\ batch_id \in [Item -> Batch]
    /\ scanJob \in [Batch -> {"none", "running", "completed", "failed", "interrupted"}]
    /\ scanErrors \subseteq Item
    /\ phase \in {"up", "stopping", "down"}
    /\ cancelSet \in BOOLEAN
    /\ batchCancel \subseteq Batch
    /\ registered \subseteq Batch
    /\ worker \in Thread \cup {None}
    /\ pc \in [Thread -> ThreadPc]
    /\ job \in [Thread -> Item \cup {None}]
    /\ event \in [Thread -> {"live", "replaced"}]
    /\ touched \in [Thread -> SUBSET Batch]
    /\ result \in [Thread -> Settled]
    /\ call \in [Caller -> CallPc]
    /\ callBatch \in [Caller -> Batch]
    /\ callItems \in [Caller -> SUBSET Item]
    /\ left \in [Kind -> Nat]
    /\ \A k \in Kind : left[k] <= Budget[k]

Init ==
    /\ state = [i \in Item |-> "absent"]
    /\ batch_id = [i \in Item |-> 0]
    /\ scanJob = [b \in Batch |-> "none"]
    /\ scanErrors = {}
    /\ phase = "up" /\ cancelSet = FALSE
    /\ batchCancel = {} /\ registered = {} /\ worker = None
    /\ pc = [t \in Thread |-> "off"]
    /\ job = [t \in Thread |-> None]
    /\ event = [t \in Thread |-> "live"]
    /\ touched = [t \in Thread |-> {}]
    /\ result = [t \in Thread |-> "cancelled"]
    /\ call = [c \in Caller |-> "idle"]
    /\ callBatch = [c \in Caller |-> 0]
    /\ callItems = [c \in Caller |-> {}]
    /\ left = Budget

-----------------------------------------------------------------------------
Spend(k) == left[k] > 0 /\ left' = [left EXCEPT ![k] = @ - 1]

AliveUnlessClosing(t) == pc[t] \in Working \ {"close"}
Alive(t) == pc[t] # "off"

\* running(): the referenced thread is alive.
Running == worker # None /\ Alive(worker)

\* A set cancel event is replaced by a new one.
RearmedNever == cancelSet
Rearmed == FALSE

\* _ensure_worker: nothing while stopping; the event is rearmed (a download keeps
\* the old, set one); a thread starts unless the referenced one is alive.
EnsureWorker ==
    IF phase = "stopping"
    THEN UNCHANGED <<cancelSet, worker, pc, event>>
    ELSE /\ cancelSet' = Rearmed
         /\ event' = [t \in Thread |->
                        IF cancelSet /\ pc[t] = "run" THEN "replaced" ELSE event[t]]
         /\ \/ /\ Running
               /\ UNCHANGED <<worker, pc>>
            \/ /\ ~Running
               /\ \E t \in Thread :
                    /\ pc[t] = "off"
                    /\ worker' = t
                    /\ pc' = [pc EXCEPT ![t] = "top"]

-----------------------------------------------------------------------------
(* API callers *)

\* fetch: the running check, then _open_scan_job.
Fetch(c, items) ==
    /\ phase # "down" /\ call[c] = "idle" /\ Spend("fetch")
    /\ ~Running
    /\ \A i \in items : state[i] = "absent" /\ \A d \in Caller : i \notin callItems[d]
    /\ call' = [call EXCEPT ![c] = "enqueue"]
    /\ callBatch' = [callBatch EXCEPT ![c] = left["fetch"]]
    /\ callItems' = [callItems EXCEPT ![c] = items]
    /\ scanJob' = [scanJob EXCEPT ![left["fetch"]] = "running"]
    /\ UNCHANGED <<state, batch_id, scanErrors, poolVars, threadVars>>

\* _enqueue.
FetchEnqueue(c) ==
    /\ phase # "down" /\ call[c] = "enqueue"
    /\ state' = [i \in Item |-> IF i \in callItems[c] THEN "queued" ELSE state[i]]
    /\ batch_id' = [i \in Item |->
                      IF i \in callItems[c] THEN callBatch[c] ELSE batch_id[i]]
    /\ call' = [call EXCEPT ![c] = "wake"]
    /\ callItems' = [callItems EXCEPT ![c] = {}]
    /\ UNCHANGED <<scanJob, scanErrors, poolVars, threadVars, callBatch, left>>

\* The rest of fetch: _batch_cancel.discard, _scan_job_ids, _ensure_worker.
FetchWake(c) ==
    /\ phase # "down" /\ call[c] = "wake"
    /\ batchCancel' = batchCancel \ {callBatch[c]}
    /\ registered' = registered \cup {callBatch[c]}
    /\ EnsureWorker
    /\ call' = [call EXCEPT ![c] = "idle"]
    /\ callBatch' = [callBatch EXCEPT ![c] = 0]
    /\ UNCHANGED <<dbVars, phase, job, touched, result, callItems, left>>

\* cancel(batch_id) marks the batch, cancel() sets the event; batch 0 is "all".
Cancel(c, b) ==
    /\ phase # "down" /\ call[c] = "idle" /\ Spend("cancel")
    /\ IF b = 0
       THEN cancelSet' = TRUE /\ UNCHANGED batchCancel
       ELSE batchCancel' = batchCancel \cup {b} /\ UNCHANGED cancelSet
    /\ call' = [call EXCEPT ![c] = "sweep"]
    /\ callBatch' = [callBatch EXCEPT ![c] = b]
    /\ UNCHANGED <<dbVars, phase, registered, worker, threadVars, callItems>>

\* What cancel gives up.
CancellableUnplaced == JobState \ {"absent", "done"}
Cancellable == {"queued", "running"}

\* ... then its database operation.
CancelSweep(c) ==
    /\ phase # "down" /\ call[c] = "sweep"
    /\ state' = [i \in Item |->
                   IF /\ state[i] \in Cancellable
                      /\ callBatch[c] \in {0, batch_id[i]}
                   THEN "cancelled" ELSE state[i]]
    /\ call' = [call EXCEPT ![c] = "idle"]
    /\ callBatch' = [callBatch EXCEPT ![c] = 0]
    /\ UNCHANGED <<batch_id, scanJob, scanErrors, poolVars, threadVars, callItems,
                   left>>

-----------------------------------------------------------------------------
(* The worker thread *)

\* The loop condition.
LoopHead(t) ==
    /\ phase # "down" /\ pc[t] = "top"
    /\ pc' = [pc EXCEPT ![t] = IF cancelSet \/ phase = "stopping" THEN "close" ELSE "claim"]
    /\ UNCHANGED <<dbVars, poolVars, job, event, touched, result, callVars, left>>

\* What _claim may take.
Claimable == {"queued"}

Claim(t, i) ==
    /\ phase # "down" /\ pc[t] = "claim"
    /\ state[i] \in Claimable
    /\ state' = [state EXCEPT ![i] = "running"]
    /\ pc' = [pc EXCEPT ![t] = "begin"]
    /\ job' = [job EXCEPT ![t] = i]
    /\ touched' = [touched EXCEPT ![t] = @ \cup {batch_id[i]}]
    /\ UNCHANGED <<batch_id, scanJob, scanErrors, poolVars, event, result, callVars,
                   left>>

\* Nothing to claim.
ClaimNothing(t) ==
    /\ phase # "down" /\ pc[t] = "claim"
    /\ \A i \in Item : state[i] \notin Claimable
    /\ pc' = [pc EXCEPT ![t] = "close"]
    /\ UNCHANGED <<dbVars, poolVars, job, event, touched, result, callVars, left>>

\* A cancelled batch is not started; a download keeps the event it starts with.
Begin(t) ==
    /\ phase # "down" /\ pc[t] = "begin"
    /\ IF batch_id[job[t]] \in batchCancel
       THEN /\ result' = [result EXCEPT ![t] = "cancelled"]
            /\ pc' = [pc EXCEPT ![t] = "finish"]
       ELSE /\ pc' = [pc EXCEPT ![t] = "run"]
            /\ UNCHANGED result
    /\ event' = [event EXCEPT ![t] = "live"]
    /\ UNCHANGED <<dbVars, poolVars, job, touched, callVars, left>>

\* _run_one: a download or clone ends somehow; it is cancelled only if its event
\* is set.  _record_error writes for a quarantine, and for the failures that
\* download.fetch returns; those it raises (a conflict, no space) leave no row.
Run(t, out) ==
    /\ phase # "down" /\ pc[t] = "run"
    /\ out = "cancelled" => cancelSet \/ event[t] = "replaced"
    /\ result' = [result EXCEPT ![t] = out]
    /\ pc' = [pc EXCEPT ![t] = "finish"]
    /\ \/ /\ out \in {"quarantined", "failed"} /\ batch_id[job[t]] \in registered
          /\ scanErrors' = scanErrors \cup {job[t]}
       \/ /\ out = "quarantined" => batch_id[job[t]] \notin registered
          /\ UNCHANGED scanErrors
    /\ UNCHANGED <<state, batch_id, scanJob, poolVars, job, event, touched, callVars,
                   left>>

\* _finish, by row id: it does not look at the state it overwrites.
FinishUnlessSkipped(old, out) == IF out = "skipped" THEN old ELSE out
Finished(old, out) == out

Finish(t) ==
    /\ phase # "down" /\ pc[t] = "finish"
    /\ state' = [state EXCEPT ![job[t]] = Finished(@, result[t])]
    /\ pc' = [pc EXCEPT ![t] = "top"]
    /\ job' = [job EXCEPT ![t] = None]
    /\ event' = [event EXCEPT ![t] = "live"]
    /\ result' = [result EXCEPT ![t] = "cancelled"]
    /\ UNCHANGED <<batch_id, scanJob, scanErrors, poolVars, touched, callVars, left>>

\* _close_scan_job of one touched batch, if it has a job id by now; these item
\* states count as errors.
CountedUnlessQuarantined == {"failed"}
Counted == {"failed", "quarantined"}

CloseScanJob(t, b) ==
    /\ phase # "down" /\ pc[t] = "close" /\ b \in touched[t]
    /\ scanJob' =
         IF b \notin registered THEN scanJob
         ELSE [scanJob EXCEPT ![b] =
                 IF \E i \in Item : batch_id[i] = b /\ state[i] \in Counted
                 THEN "failed" ELSE "completed"]
    /\ touched' = [touched EXCEPT ![t] = @ \ {b}]
    /\ UNCHANGED <<state, batch_id, scanErrors, poolVars, pc, job, event, result,
                   callVars, left>>

\* self._worker = None; the thread goes on to _schedule_rescan.
Clear(t) ==
    /\ phase # "down" /\ pc[t] = "close" /\ touched[t] = {}
    /\ worker' = None
    /\ pc' = [pc EXCEPT ![t] = "rescan"]
    /\ UNCHANGED <<dbVars, phase, cancelSet, batchCancel, registered, job, event,
                   touched, result, callVars, left>>

End(t) ==
    /\ phase # "down" /\ pc[t] = "rescan"
    /\ pc' = [pc EXCEPT ![t] = "off"]
    /\ UNCHANGED <<dbVars, poolVars, job, event, touched, result, callVars, left>>

-----------------------------------------------------------------------------
(* The life of the process *)

\* EnableService.shutdown; the rest of the process closes meanwhile.
Shutdown ==
    /\ phase = "up" /\ Spend("stop")
    /\ phase' = "stopping"
    /\ cancelSet' = TRUE
    /\ UNCHANGED <<dbVars, batchCancel, registered, worker, threadVars, callVars>>

Gone ==
    /\ phase' = "down" /\ cancelSet' = FALSE
    /\ batchCancel' = {} /\ registered' = {} /\ worker' = None
    /\ pc' = [t \in Thread |-> "off"]
    /\ job' = [t \in Thread |-> None]
    /\ event' = [t \in Thread |-> "live"]
    /\ touched' = [t \in Thread |-> {}]
    /\ result' = [t \in Thread |-> "cancelled"]
    /\ call' = [c \in Caller |-> "idle"]
    /\ callBatch' = [c \in Caller |-> 0]
    /\ callItems' = [c \in Caller |-> {}]
    /\ UNCHANGED dbVars

Crash     == phase = "up" /\ Spend("stop") /\ Gone
Terminate == phase = "stopping" /\ UNCHANGED left /\ Gone

\* resume_pending, on a row; and when it starts the worker.
Resumed(s) == IF s = "running" THEN "queued" ELSE s
WorkRequeued == \E i \in Item : state[i] = "running"

\* startup: mark_interrupted on the scan_jobs rows, then resume_pending.
Resume ==
    /\ phase = "down"
    /\ phase' = "up"
    /\ scanJob' = [b \in Batch |->
                     IF scanJob[b] = "running" THEN "interrupted" ELSE scanJob[b]]
    /\ state' = [i \in Item |-> Resumed(state[i])]
    /\ IF WorkRequeued
       THEN EnsureWorker
       ELSE UNCHANGED <<cancelSet, worker, pc, event>>
    /\ UNCHANGED <<batch_id, scanErrors, batchCancel, registered, job, touched, result,
                   callVars, left>>

-----------------------------------------------------------------------------
ThreadStep(t) ==
    \/ LoopHead(t)
    \/ \E i \in Item : Claim(t, i)
    \/ ClaimNothing(t)
    \/ Begin(t)
    \/ \E out \in Settled : Run(t, out)
    \/ Finish(t)
    \/ \E b \in Batch : CloseScanJob(t, b)
    \/ Clear(t)
    \/ End(t)

CallBegin(c) ==
    \/ \E items \in SUBSET Item \ {{}} : Fetch(c, items)
    \/ \E b \in Batch : Cancel(c, b)

CallEnd(c) == FetchEnqueue(c) \/ FetchWake(c) \/ CancelSweep(c)

Process == Shutdown \/ Crash \/ Terminate \/ Resume

Next ==
    \/ \E t \in Thread : ThreadStep(t)
    \/ \E c \in Caller : CallBegin(c) \/ CallEnd(c)
    \/ Process

Spec == Init /\ [][Next]_vars

\* A started thread keeps running (httpx has timeouts, so a download ends) and a
\* request that was begun is finished, unless the process dies.
Fairness ==
    /\ \A t \in Thread : WF_vars(ThreadStep(t))
    /\ \A c \in Caller : WF_vars(CallEnd(c))

FairSpec == Spec /\ Fairness

-----------------------------------------------------------------------------
(* Properties *)

\* Two requests that both passed the running check, a replaced cancel event and
\* a worker that is just leaving never give two threads in the loop: the .part
\* file of a target has one writer (_ensure_worker, the end of _run).
SoleWorker ==
    \A t, u \in Thread : pc[t] \in Working /\ pc[u] \in Working => t = u

\* An item that is marked running is in the hands of a live thread, after any
\* cancel and restart (_claim, _finish, resume_pending).
RunningOwned ==
    phase # "down" =>
        \A i \in Item : state[i] = "running" => \E t \in Thread : job[t] = i

\* What a fetch achieved is never rewritten or done again: a cancel, a late
\* _finish and the restart leave an item with a result alone.
ResultIsFinal ==
    [][\A i \in Item : state[i] \in Settled \ {"cancelled"} => state'[i] = state[i]]_vars

\* No outside event of this kind has happened so far.
Untouched(k) == left[k] = Budget[k]

\* Until the process stops, a batch one of whose items failed or was quarantined
\* does not stay "completed": whichever worker closes it, and however early, a
\* later close corrects it (_finish, _close_scan_job, touched).
FailuresAreReported ==
    Untouched("stop") =>
        \A i \in Item :
            state[i] \in {"failed", "quarantined"} /\ scanJob[batch_id[i]] = "completed"
                => \E t \in Thread : batch_id[i] \in touched[t]

\* Until the process stops, a scan_errors row belongs to an item that failed or is
\* just about to be recorded as failed; no cancel that comes in between leaves the
\* two tables contradicting each other (_record_error, _finish, cancel).
ErrorsMatchResults ==
    Untouched("stop") =>
        \A i \in scanErrors :
            \/ state[i] \in {"failed", "quarantined"}
            \/ \E t \in Thread : job[t] = i /\ result[t] \in {"failed", "quarantined"}

\* Whatever is started, cancelled and stopped side by side, one thread at most works,
\* and every item marked running is its own (_ensure_worker, _claim, _run).
WorkersSound == TypeOK /\ SoleWorker /\ RunningOwned

\* What the scan job and the errors of a batch report, its items say too: no failure is
\* closed as a success, no error contradicts a result (_finish, _close_scan_job).
BatchReported == FailuresAreReported /\ ErrorsMatchResults

\* A running item always gets a result, or the process goes down.
RunningSettles ==
    \A i \in Item : state[i] = "running" ~> (state[i] # "running" \/ phase = "down")

\* With one request at a time, and until the process stops, every queued item is
\* run or cancelled: a worker that leaves because of a cancel or an empty queue
\* never leaves an item behind (the running check, _ensure_worker, _run).
QueuedServed ==
    \A i \in Item : state[i] = "queued" ~> (state[i] # "queued" \/ ~Untouched("stop"))

=============================================================================
