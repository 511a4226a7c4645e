----------------------------- MODULE HashQueue -----------------------------
(***************************************************************************)
(* The background hashing queue (backend/app/jobs/hash_service.py): a      *)
(* table-backed queue of full-file SHA-256 jobs, a pool of worker threads, *)
(* API callers that enqueue, cancel and resize the pool, the scan that     *)
(* refreshes a file's fingerprint (indexing/phases/models.py, _upsert) and *)
(* the shutdown, crash and restart of the process.                         *)
(*                                                                         *)
(* Every database operation runs alone on the writer thread, so each is    *)
(* one step; what a caller or a worker does before or after it is a step   *)
(* of its own, and all of them interleave.                                 *)
(*                                                                         *)
(* Abstractions.  A file's bytes are a member of Content, and so are its   *)
(* digest and its (size, probe) fingerprint: equal fingerprints mean equal *)
(* bytes.  The claim order (priority, enqueued_at) is dropped: a claim     *)
(* takes any queued job, which includes the one the code takes.  Progress  *)
(* reporting, throttling and the models/civitai columns are left out.      *)
(***************************************************************************)
EXTENDS Naturals, FiniteSets

CONSTANTS
    File,         \* rows of model_files (hash_jobs is UNIQUE on the file)
    Worker,       \* thread slots of the pool
    Caller,       \* concurrent API requests
    Content,      \* the possible contents of a file
    MaxAttempts,  \* MAX_ATTEMPTS
    MaxPool,      \* upper end of the concurrency setting (8 in the code)
    Budget,       \* how often each kind of outside event may happen
    None          \* NULL

Kind == {"enqueue", "cancel", "resize", "rewrite", "stop"}

ASSUME ConstantsOK ==
    /\ MaxAttempts \in Nat \ {0}
    /\ MaxPool \in Nat \ {0}
    /\ Budget \in [Kind -> Nat]
    /\ None \notin File \cup Content

VARIABLES
    \* hash_jobs
    state, attempts, batch_id,
    \* model_files: the last scanned fingerprint and the hash columns
    fingerprint, hash_state, sha256,
    \* the file on disk
    disk,
    \* HashService
    phase,        \* "up", "stopping" (_stopping is set), "down" (no process)
    cancelSet,    \* self._cancel.is_set()
    batchCancel,  \* self._batch_cancel
    concurrency,  \* the hash_concurrency setting
    \* worker threads
    pc, held, ctx, res, event,
    \* API callers
    call, callBatch,
    \* bounds, and whether no call was made since the last start
    left, calm

jobVars    == <<state, attempts, batch_id>>
fileVars   == <<fingerprint, hash_state, sha256>>
poolVars   == <<phase, cancelSet, batchCancel, concurrency>>
workerVars == <<pc, held, ctx, res, event>>
callVars   == <<call, callBatch>>
vars == <<jobVars, fileVars, disk, poolVars, workerVars, callVars, left, calm>>

-----------------------------------------------------------------------------
JobState  == {"absent", "queued", "running", "done", "failed", "cancelled"}
HashState == {"unhashed", "queued", "hashing", "done", "failed", "stale"}
Outcome   == {"queued", "done", "failed", "cancelled"}

\* Where a worker thread is: "off" no thread, "top" the loop head, "claim"
\* before _claim, "begin" in _process_job before reading, "read" inside
\* compute_sha256, "finish" before _finish, "exit" after the loop.
WorkerPc == {"off", "top", "claim", "begin", "read", "finish", "exit"}

\* Where a caller is: "wake" between enqueue's database operation and
\* _ensure_workers, "sweep" between _batch_cancel.add and cancel's database
\* operation, "signal" between that operation and _cancel.set(), "refresh"
\* between saving the setting and refresh_workers.
CallPc == {"idle", "wake", "sweep", "signal", "refresh"}

Batch == 0 .. Budget["enqueue"]

\* What _claim returns to the worker: a copy of the row as it was claimed.
Claimed == [attempts : 0 .. (MaxAttempts - 1), batch : Batch, key : Content \cup {None}]

\* What _process_job hands to _finish, and whether the worker then stops.
Result == [out : Outcome, sha : Content \cup {None},
           attempts : 0 .. MaxAttempts, reused : BOOLEAN, stop : BOOLEAN]

NoClaim  == [attempts |-> 0, batch |-> 0, key |-> None]
NoResult == [out |-> "cancelled", sha |-> None, attempts |-> 0,
             reused |-> FALSE, stop |-> FALSE]

TypeOK ==
    /\ state \in [File -> JobState]
    /\ attempts \in [File -> 0 .. MaxAttempts]
    /\ batch_id \in [File -> Batch]
    /\ fingerprint \in [File -> Content]
    /\ hash_state \in [File -> HashState]
    /\ sha256 \in [File -> Content \cup {None}]
    /\ disk \in [File -> Content]
    /\ phase \in {"up", "stopping", "down"}
    /\ cancelSet \in BOOLEAN
    /\ batchCancel \subseteq Batch
    /\ concurrency \in 1 .. MaxPool
    /\ pc \in [Worker -> WorkerPc]
    /\ held \in [Worker -> File \cup {None}]
    /\ ctx \in [Worker -> Claimed]
    /\ res \in [Worker -> Result]
    /\ event \in [Worker -> {"live", "replaced"}]
    /\ call \in [Caller -> CallPc]
    /\ callBatch \in [Caller -> Batch]
    /\ left \in [Kind -> Nat]
    /\ \A k \in Kind : left[k] <= Budget[k]
    /\ calm \in BOOLEAN

Init ==
    /\ state = [f \in File |-> "absent"]
    /\ attempts = [f \in File |-> 0]
    /\ batch_id = [f \in File |-> 0]
    /\ disk \in [File -> Content]
    /\ fingerprint = disk
    /\ hash_state = [f \in File |-> "unhashed"]
    /\ sha256 = [f \in File |-> None]
    /\ phase = "up" /\ cancelSet = FALSE /\ batchCancel = {}
    /\ concurrency \in 1 .. MaxPool
    /\ pc = [w \in Worker |-> "off"]
    /\ held = [w \in Worker |-> None]
    /\ ctx = [w \in Worker |-> NoClaim]
    /\ res = [w \in Worker |-> NoResult]
    /\ event = [w \in Worker |-> "live"]
    /\ call = [c \in Caller |-> "idle"]
    /\ callBatch = [c \in Caller |-> 0]
    /\ left = Budget
    /\ calm = FALSE

-----------------------------------------------------------------------------
(* The pool.  A thread is listed in self._workers from its start until it  *)
(* removes itself, so the list is the set of slots that are not "off".     *)

Listed == {w \in Worker : pc[w] # "off"}
Queued == {f \in File : state[f] = "queued"}

Spend(k) == left[k] > 0 /\ left' = [left EXCEPT ![k] = @ - 1]

\* _ensure_workers: nothing while stopping; a set cancel event is replaced by a
\* new one (a reader keeps the old, set one); threads start up to the setting.
EnsureWorkers ==
    IF phase = "stopping"
    THEN UNCHANGED <<cancelSet, pc, event>>
    ELSE /\ cancelSet' = FALSE
         /\ event' = [w \in Worker |->
                        IF cancelSet /\ pc[w] = "read" THEN "replaced" ELSE event[w]]
         /\ \E new \in SUBSET (Worker \ Listed) :
              /\ Cardinality(new) =
                   IF Cardinality(Listed) < concurrency
                   THEN concurrency - Cardinality(Listed) ELSE 0
              /\ pc' = [w \in Worker |-> IF w \in new THEN "top" ELSE pc[w]]

-----------------------------------------------------------------------------
(* API callers *)

\* ON CONFLICT keeps these states of hash_jobs.
Kept == {"running", "done"}

\* cancel resets these hash states where the job is cancelled.
InProgress == {"queued", "hashing"}

\* enqueue, its database operation.  Every scope selects some set of files, and
\* the set was read before this step, so any non-empty set may arrive here.  A
\* job that is running or done keeps its state; the rest become queued.
Enqueue(c, files) ==
    /\ phase # "down" /\ call[c] = "idle" /\ Spend("enqueue")
    /\ state' = [f \in File |->
                   IF f \in files /\ state[f] \notin Kept
                   THEN "queued" ELSE state[f]]
    /\ attempts' = [f \in File |-> IF f \in files THEN 0 ELSE attempts[f]]
    /\ batch_id' = [f \in File |->
                      IF f \in files THEN left["enqueue"] ELSE batch_id[f]]
    /\ hash_state' = [f \in File |->
                        IF f \in files /\ hash_state[f] \notin {"done", "hashing"}
                        THEN "queued" ELSE hash_state[f]]
    /\ call' = [call EXCEPT ![c] = "wake"]
    /\ callBatch' = [callBatch EXCEPT ![c] = left["enqueue"]]
    /\ calm' = FALSE
    /\ UNCHANGED <<fingerprint, sha256, disk, poolVars, workerVars>>

\* enqueue, after its operation: _batch_cancel.discard and _ensure_workers.
EnqueueWake(c) ==
    /\ phase # "down" /\ call[c] = "wake"
    /\ batchCancel' = batchCancel \ {callBatch[c]}
    /\ EnsureWorkers
    /\ call' = [call EXCEPT ![c] = "idle"]
    /\ callBatch' = [callBatch EXCEPT ![c] = 0]
    /\ UNCHANGED <<jobVars, fileVars, disk, phase, concurrency, held, ctx, res,
                   left, calm>>

\* The UPDATE statements of cancel: queued and running jobs of the chosen files
\* become cancelled, and every file still marked as work in progress whose job
\* is cancelled goes back to unhashed.
CancelRows(files) ==
    /\ state' = [f \in File |->
                   IF f \in files /\ state[f] \in {"queued", "running"}
                   THEN "cancelled" ELSE state[f]]
    /\ hash_state' = [f \in File |->
                        IF hash_state[f] \in InProgress /\ state'[f] = "cancelled"
                        THEN "unhashed" ELSE hash_state[f]]
    /\ UNCHANGED <<attempts, batch_id, fingerprint, sha256>>

\* cancel(uids).
CancelFiles(c, files) ==
    /\ phase # "down" /\ call[c] = "idle" /\ Spend("cancel")
    /\ CancelRows(files)
    /\ calm' = FALSE
    /\ UNCHANGED <<disk, poolVars, workerVars, callVars>>

\* cancel(batch_id), first the in-memory mark ...
CancelBatch(c, b) ==
    /\ phase # "down" /\ call[c] = "idle" /\ Spend("cancel")
    /\ batchCancel' = batchCancel \cup {b}
    /\ call' = [call EXCEPT ![c] = "sweep"]
    /\ callBatch' = [callBatch EXCEPT ![c] = b]
    /\ calm' = FALSE
    /\ UNCHANGED <<jobVars, fileVars, disk, phase, cancelSet, concurrency, workerVars>>

\* ... then the rows of the batch.
CancelBatchRows(c) ==
    /\ phase # "down" /\ call[c] = "sweep"
    /\ CancelRows({f \in File : batch_id[f] = callBatch[c]})
    /\ call' = [call EXCEPT ![c] = "idle"]
    /\ callBatch' = [callBatch EXCEPT ![c] = 0]
    /\ UNCHANGED <<disk, poolVars, workerVars, left, calm>>

\* cancel() of everything, first the rows ...
CancelAll(c) ==
    /\ phase # "down" /\ call[c] = "idle" /\ Spend("cancel")
    /\ CancelRows(File)
    /\ call' = [call EXCEPT ![c] = "signal"]
    /\ calm' = FALSE
    /\ UNCHANGED <<disk, poolVars, workerVars, callBatch>>

\* ... then the event the workers poll.
CancelSignal(c) ==
    /\ phase # "down" /\ call[c] = "signal"
    /\ cancelSet' = TRUE
    /\ call' = [call EXCEPT ![c] = "idle"]
    /\ UNCHANGED <<jobVars, fileVars, disk, phase, batchCancel, concurrency,
                   workerVars, callBatch, left, calm>>

\* POST /hash/settings saves the concurrency, then calls refresh_workers.
SetConcurrency(c, n) ==
    /\ phase # "down" /\ call[c] = "idle" /\ Spend("resize")
    /\ concurrency' = n
    /\ call' = [call EXCEPT ![c] = "refresh"]
    /\ calm' = FALSE
    /\ UNCHANGED <<jobVars, fileVars, disk, phase, cancelSet, batchCancel,
                   workerVars, callBatch>>

RefreshWorkers(c) ==
    /\ phase # "down" /\ call[c] = "refresh"
    /\ call' = [call EXCEPT ![c] = "idle"]
    /\ IF Listed # {} \/ Queued # {}
       THEN EnsureWorkers
       ELSE UNCHANGED <<cancelSet, pc, event>>
    /\ UNCHANGED <<jobVars, fileVars, disk, phase, batchCancel, concurrency,
                   held, ctx, res, callBatch, left, calm>>

-----------------------------------------------------------------------------
(* Worker threads *)

\* The loop condition, then _retire_if_over_capacity.
LoopHead(w) ==
    /\ phase # "down" /\ pc[w] = "top"
    /\ pc' = [pc EXCEPT ![w] =
                IF cancelSet \/ phase = "stopping" THEN "exit"
                ELSE IF Cardinality(Listed) > concurrency THEN "off" ELSE "claim"]
    /\ UNCHANGED <<jobVars, fileVars, disk, poolVars, held, ctx, res, event,
                   callVars, left, calm>>

\* _claim takes a queued job.
Claim(w, f) ==
    /\ phase # "down" /\ pc[w] = "claim"
    /\ state[f] = "queued"
    /\ state' = [state EXCEPT ![f] = "running"]
    /\ hash_state' = [hash_state EXCEPT ![f] = "hashing"]
    /\ pc' = [pc EXCEPT ![w] = "begin"]
    /\ held' = [held EXCEPT ![w] = f]
    /\ ctx' = [ctx EXCEPT ![w] = [attempts |-> attempts[f], batch |-> batch_id[f],
                                  key |-> fingerprint[f]]]
    /\ UNCHANGED <<attempts, batch_id, fingerprint, sha256, disk, poolVars, res,
                   event, callVars, left, calm>>

\* _claim finds nothing, and the worker leaves its loop.
ClaimNothing(w) ==
    /\ phase # "down" /\ pc[w] = "claim" /\ Queued = {}
    /\ pc' = [pc EXCEPT ![w] = "exit"]
    /\ UNCHANGED <<jobVars, fileVars, disk, poolVars, held, ctx, res, event,
                   callVars, left, calm>>

\* _reuse: the digests of other rows with the same size and probe.
ReusableAny(w) == {sha256[g] : g \in {h \in File : h # held[w] /\ sha256[h] # None}}
Reusable(w) == {sha256[g] : g \in {h \in File : /\ h # held[w]
                                               /\ fingerprint[h] = ctx[w].key
                                               /\ sha256[h] # None}}

Decide(w, out, sha, att, reused, stop) ==
    /\ res' = [res EXCEPT ![w] = [out |-> out, sha |-> sha, attempts |-> att,
                                  reused |-> reused, stop |-> stop]]
    /\ pc' = [pc EXCEPT ![w] = "finish"]

\* _process_job before reading: a cancelled batch, a digest to reuse, or open
\* the file, which pins the bytes it has now, and keep the current event.  An
\* exception here or in the read is recorded as a failure by _worker.
Begin(w) ==
    /\ phase # "down" /\ pc[w] = "begin"
    /\ \/ /\ ctx[w].batch \in batchCancel
          /\ Decide(w, "cancelled", None, ctx[w].attempts, FALSE, FALSE)
          /\ UNCHANGED event
       \/ /\ ctx[w].batch \notin batchCancel
          /\ \E sha \in Reusable(w) :
               Decide(w, "done", sha, ctx[w].attempts, TRUE, FALSE)
          /\ UNCHANGED event
       \/ /\ ctx[w].batch \notin batchCancel
          /\ Reusable(w) = {}
          /\ res' = [res EXCEPT ![w].sha = disk[held[w]]]
          /\ pc' = [pc EXCEPT ![w] = "read"]
          /\ event' = [event EXCEPT ![w] = "live"]
       \/ /\ Decide(w, "failed", None, ctx[w].attempts + 1, FALSE, FALSE)
          /\ UNCHANGED event
    /\ UNCHANGED <<jobVars, fileVars, disk, poolVars, held, ctx, callVars, left, calm>>

\* A locked file is tried again.
TryAgain(att) == att < MaxAttempts

\* compute_sha256 returns a digest, sees its event set, meets a locked file
\* (a retry until MAX_ATTEMPTS), or fails with any other error code.
Read(w) ==
    /\ phase # "down" /\ pc[w] = "read"
    /\ LET att == ctx[w].attempts + 1 IN
       \/ Decide(w, "done", res[w].sha, ctx[w].attempts, FALSE, FALSE)
       \/ /\ event[w] = "replaced" \/ cancelSet
          /\ Decide(w, "cancelled", None, ctx[w].attempts, FALSE, TRUE)
       \/ /\ TryAgain(att)
          /\ Decide(w, "queued", None, att, FALSE, FALSE)
       \/ Decide(w, "failed", None, att, FALSE, FALSE)
    /\ UNCHANGED <<jobVars, fileVars, disk, poolVars, held, ctx, event, callVars,
                   left, calm>>

\* The state _finish writes over the row.
RecordedUnlessFailed(old, out) == IF out = "failed" THEN old ELSE out
Recorded(old, out) == out

\* _finish, by job and file id: it does not look at the state it overwrites.
Finish(w) ==
    LET f == held[w]
        r == res[w]
    IN
    /\ phase # "down" /\ pc[w] = "finish"
    /\ state' = [state EXCEPT ![f] = Recorded(@, r.out)]
    /\ attempts' = [attempts EXCEPT ![f] =
                      IF r.out \in {"queued", "failed"} THEN r.attempts ELSE @]
    /\ hash_state' = [hash_state EXCEPT ![f] =
                        IF r.out = "cancelled"
                        THEN IF @ = "done" THEN @ ELSE "unhashed"
                        ELSE r.out]
    /\ sha256' = [sha256 EXCEPT ![f] = IF r.out = "done" THEN r.sha ELSE @]
    /\ pc' = [pc EXCEPT ![w] = IF r.stop THEN "exit" ELSE "top"]
    /\ held' = [held EXCEPT ![w] = None]
    /\ ctx' = [ctx EXCEPT ![w] = NoClaim]
    /\ res' = [res EXCEPT ![w] = NoResult]
    /\ event' = [event EXCEPT ![w] = "live"]
    /\ UNCHANGED <<batch_id, fingerprint, disk, poolVars, callVars, left, calm>>

\* The worker takes itself off the list.
Exit(w) ==
    /\ phase # "down" /\ pc[w] = "exit"
    /\ pc' = [pc EXCEPT ![w] = "off"]
    /\ UNCHANGED <<jobVars, fileVars, disk, poolVars, held, ctx, res, event,
                   callVars, left, calm>>

-----------------------------------------------------------------------------
(* The files, the scan, and the life of the process *)

\* Another program rewrites a file.
Rewrite(f, bytes) ==
    /\ Spend("rewrite") /\ bytes # disk[f]
    /\ disk' = [disk EXCEPT ![f] = bytes]
    /\ UNCHANGED <<jobVars, fileVars, poolVars, workerVars, callVars, calm>>

\* A scan meets the file with a changed fingerprint: a cached digest turns
\* stale, but the digest column keeps its value.
Rescan(f) ==
    /\ phase = "up" /\ fingerprint[f] # disk[f]
    /\ fingerprint' = [fingerprint EXCEPT ![f] = disk[f]]
    /\ hash_state' = [hash_state EXCEPT ![f] =
                        IF @ = "done" /\ sha256[f] # None THEN "stale" ELSE @]
    /\ UNCHANGED <<jobVars, sha256, disk, poolVars, workerVars, callVars, left, calm>>

\* HashService.shutdown: the workers see _stopping or the event and wind down
\* while the rest of the process closes.
Shutdown ==
    /\ phase = "up" /\ Spend("stop")
    /\ phase' = "stopping"
    /\ cancelSet' = TRUE
    /\ calm' = FALSE
    /\ UNCHANGED <<jobVars, fileVars, disk, batchCancel, concurrency, workerVars, callVars>>

\* The process is gone, at any point: daemon threads and memory with it.
Gone ==
    /\ phase' = "down"
    /\ cancelSet' = FALSE
    /\ batchCancel' = {}
    /\ pc' = [w \in Worker |-> "off"]
    /\ held' = [w \in Worker |-> None]
    /\ ctx' = [w \in Worker |-> NoClaim]
    /\ res' = [w \in Worker |-> NoResult]
    /\ event' = [w \in Worker |-> "live"]
    /\ call' = [c \in Caller |-> "idle"]
    /\ callBatch' = [c \in Caller |-> 0]
    /\ calm' = FALSE
    /\ UNCHANGED <<jobVars, fileVars, disk, concurrency>>

Crash    == phase = "up" /\ Spend("stop") /\ Gone
Terminate == phase = "stopping" /\ UNCHANGED left /\ Gone

\* resume_pending, on a row of hash_jobs.
ResumedNever(s) == s
Resumed(s) == IF s = "running" THEN "queued" ELSE s

\* resume_pending starts the pool when anything is queued.
WorkInterrupted == \E f \in File : state[f] = "running"
WorkWaiting == \E f \in File : state'[f] = "queued"

\* startup: resume_pending requeues what a dead process was running, and starts
\* the pool when anything is queued.
Resume ==
    /\ phase = "down"
    /\ phase' = "up"
    /\ state' = [f \in File |-> Resumed(state[f])]
    /\ hash_state' = [f \in File |->
                        IF hash_state[f] = "hashing" THEN "queued" ELSE hash_state[f]]
    /\ IF WorkWaiting
       THEN EnsureWorkers
       ELSE UNCHANGED <<cancelSet, pc, event>>
    /\ calm' = TRUE
    /\ UNCHANGED <<attempts, batch_id, fingerprint, sha256, disk, batchCancel,
                   concurrency, held, ctx, res, callVars, left>>

-----------------------------------------------------------------------------
WorkerStep(w) ==
    \/ LoopHead(w)
    \/ \E f \in File : Claim(w, f)
    \/ ClaimNothing(w)
    \/ Begin(w)
    \/ Read(w)
    \/ Finish(w)
    \/ Exit(w)

CallBegin(c) ==
    \/ \E files \in SUBSET File \ {{}} : Enqueue(c, files)
    \/ \E files \in SUBSET File \ {{}} : CancelFiles(c, files)
    \/ \E b \in Batch \ {0} : CancelBatch(c, b)
    \/ CancelAll(c)
    \/ \E n \in 1 .. MaxPool : SetConcurrency(c, n)

CallEnd(c) ==
    \/ EnqueueWake(c)
    \/ CancelBatchRows(c)
    \/ CancelSignal(c)
    \/ RefreshWorkers(c)

Outside ==
    \/ \E f \in File, bytes \in Content : Rewrite(f, bytes)
    \/ \E f \in File : Rescan(f)
    \/ Shutdown
    \/ Crash
    \/ Terminate
    \/ Resume

Next ==
    \/ \E w \in Worker : WorkerStep(w)
    \/ \E c \in Caller : CallBegin(c) \/ CallEnd(c)
    \/ Outside

Spec == Init /\ [][Next]_vars

\* A started thread keeps running and a request that was begun is finished,
\* unless the process dies; nobody has to call, scan, stop or restart.
Fairness ==
    /\ \A w \in Worker : WF_vars(WorkerStep(w))
    /\ \A c \in Caller : WF_vars(CallEnd(c))

FairSpec == Spec /\ Fairness

-----------------------------------------------------------------------------
(* Properties *)

Holds(w, f) == held[w] = f

\* A job that is marked running is in the hands of a live worker: neither a
\* cancel, a repeated enqueue, a locked-file retry nor a restart leaves a row
\* that claims to be running and that nobody will ever finish (_claim, _finish,
\* resume_pending).
RunningOwned ==
    phase # "down" =>
        \A f \in File : state[f] = "running" => \E w \in Worker : Holds(w, f)

\* The two tables agree on what is being hashed: model_files says "hashing"
\* exactly while hash_jobs says "running", whichever of two workers, a cancel
\* or the restart wrote last.
TablesAgree ==
    \A f \in File : hash_state[f] = "hashing" <=> state[f] = "running"

\* A job that can still run has tries left, so a file that stays locked reaches
\* "failed" instead of being retried for ever (MAX_ATTEMPTS).
RetryBudget ==
    \A f \in File : state[f] \in {"queued", "running"} => attempts[f] < MaxAttempts

\* No outside event of this kind has happened so far.
Untouched(k) == left[k] = Budget[k]

OneReader ==
    \A v, w \in Worker : held[v] # None /\ held[v] = held[w] => v = w

\* Until somebody cancels, one file is read by one worker at a time, re-enqueueing,
\* retries, shutdowns and restarts included (enqueue keeps a running job running,
\* resume_pending finds no live worker).
SoleReader == Untouched("cancel") => OneReader

\* The two tables and the pool tell one story: every job marked running is held by a
\* live worker, its file is the one shown as hashing, no file has two readers until a
\* cancel, and a job that may still run has tries left (_claim, _finish, enqueue,
\* resume_pending).
QueueSound == TypeOK /\ RunningOwned /\ TablesAgree /\ RetryBudget /\ SoleReader

\* Until some file is rewritten, a digest presented as done is the digest of the
\* file's bytes, be it computed, reused from another row, computed twice after a
\* cancel, or recomputed after a restart.
DoneIsDigest ==
    Untouched("rewrite") => \A f \in File : hash_state[f] = "done" => sha256[f] = disk[f]

\* A running job always leaves that state: the worker that holds it finishes, or
\* the process goes down and may never come back.
RunningSettles ==
    \A f \in File : state[f] = "running" ~> (state[f] # "running" \/ phase = "down")

\* After a restart the queue drains by itself: unless somebody calls the service
\* or it stops again, every queued job is eventually worked off.
DrainsAfterRestart ==
    \A f \in File : (calm /\ state[f] = "queued") ~> (~calm \/ state[f] # "queued")

=============================================================================
