-------------------------- MODULE HashQueueProofs --------------------------
(***************************************************************************)
(* Proofs about HashQueue, for any files, workers, callers, contents and   *)
(* bounds.  The invariants the runs check are proved in two layers: Typed  *)
(* (types, who may hold what, the retry budget) is inductive by itself;    *)
(* Owned (the two tables and the workers agree) is inductive given Typed.  *)
(***************************************************************************)
EXTENDS HashQueue, TLAPS

Busy == {"begin", "read", "finish"}

\* A worker holds a file exactly while it is working on a job.
Holding == \A w \in Worker : held[w] # None <=> pc[w] \in Busy

\* A retry is only ever decided while tries are left.
RetryOutcome == \A w \in Worker : res[w].out = "queued" => res[w].attempts < MaxAttempts

Typed == TypeOK /\ Holding /\ RetryOutcome /\ RetryBudget

Owned == RunningOwned /\ TablesAgree

-----------------------------------------------------------------------------
\* _ensure_workers only starts threads at the loop head, and keeps every other
\* thread where it is.
LEMMA EnsureStarts ==
    ASSUME TypeOK, EnsureWorkers
    PROVE  /\ cancelSet' \in BOOLEAN
           /\ pc' \in [Worker -> WorkerPc]
           /\ event' \in [Worker -> {"live", "replaced"}]
           /\ \A w \in Worker : pc'[w] = pc[w] \/ (pc[w] = "off" /\ pc'[w] = "top")
<1>1. CASE phase = "stopping"
    BY <1>1 DEF EnsureWorkers, TypeOK
<1>2. CASE phase # "stopping"
    BY <1>2 DEF EnsureWorkers, TypeOK, WorkerPc, Listed
<1> QED BY <1>1, <1>2

LEMMA SpendTyped ==
    ASSUME TypeOK, NEW k \in Kind, Spend(k)
    PROVE  left' \in [Kind -> Nat] /\ \A j \in Kind : left'[j] <= Budget[j]
BY ConstantsOK DEF Spend, TypeOK, Kind

LEMMA Defaults == NoClaim \in Claimed /\ NoResult \in Result /\ 0 \in Batch
<1>1. Budget["enqueue"] \in Nat
    BY ConstantsOK DEF Kind
<1>2. 0 \in Batch
    BY <1>1 DEF Batch
<1>3. NoClaim \in Claimed
    BY <1>2, ConstantsOK DEF NoClaim, Claimed
<1>4. NoResult \in Result
    BY ConstantsOK DEF NoResult, Result, Outcome
<1> QED BY <1>2, <1>3, <1>4

\* What holds before any step: every type and budget is respected at the start.
LEMMA TypedInit == Init => Typed
<1> SUFFICES ASSUME Init PROVE Typed
    OBVIOUS
<1>1. TypeOK
  <2>1. /\ state \in [File -> JobState] /\ attempts \in [File -> 0 .. MaxAttempts]
        /\ batch_id \in [File -> Batch]
      BY Defaults, ConstantsOK DEF Init, JobState
  <2>2. /\ fingerprint \in [File -> Content] /\ hash_state \in [File -> HashState]
        /\ sha256 \in [File -> Content \cup {None}] /\ disk \in [File -> Content]
      BY DEF Init, HashState
  <2>3. /\ phase \in {"up", "stopping", "down"} /\ cancelSet \in BOOLEAN
        /\ batchCancel \subseteq Batch /\ concurrency \in 1 .. MaxPool
      BY DEF Init
  <2>4. /\ pc \in [Worker -> WorkerPc] /\ held \in [Worker -> File \cup {None}]
        /\ event \in [Worker -> {"live", "replaced"}]
      BY DEF Init, WorkerPc
  <2>5. ctx \in [Worker -> Claimed] /\ res \in [Worker -> Result]
      BY Defaults DEF Init
  <2>6. call \in [Caller -> CallPc] /\ callBatch \in [Caller -> Batch]
      BY Defaults DEF Init, CallPc
  <2>7. /\ left \in [Kind -> Nat] /\ \A k \in Kind : left[k] <= Budget[k]
        /\ calm \in BOOLEAN
    <3>1. left = Budget /\ calm = FALSE
        BY DEF Init
    <3>2. \A k \in Kind : Budget[k] \in Nat
        BY ConstantsOK
    <3>3. \A k \in Kind : left[k] <= Budget[k]
        BY <3>1, <3>2
    <3> QED BY <3>1, <3>3, ConstantsOK
  <2> QED BY <2>1, <2>2, <2>3, <2>4, <2>5, <2>6, <2>7 DEF TypeOK
<1>2. Holding /\ RetryOutcome /\ RetryBudget
    BY DEF Init, Holding, RetryOutcome, RetryBudget, Busy, NoResult
<1> QED BY <1>1, <1>2 DEF Typed

-----------------------------------------------------------------------------
\* Each step keeps the types, the holders and the retry budget.

LEMMA BudgetFacts ==
    /\ MaxAttempts \in Nat /\ MaxAttempts > 0
    /\ \A k \in Kind : Budget[k] \in Nat
    /\ {"enqueue", "cancel", "resize", "rewrite", "stop"} = Kind
BY ConstantsOK DEF Kind

LEMMA EnqueueTyped ==
    ASSUME Typed, NEW c \in Caller, NEW files \in SUBSET File, Enqueue(c, files)
    PROVE  Typed'
<1>1. left["enqueue"] \in Batch
    BY BudgetFacts DEF Typed, TypeOK, Enqueue, Batch
<1>2. left' \in [Kind -> Nat] /\ \A j \in Kind : left'[j] <= Budget[j]
    BY SpendTyped, BudgetFacts DEF Typed, Enqueue
<1>3. /\ state' \in [File -> JobState] /\ attempts' \in [File -> 0 .. MaxAttempts]
      /\ batch_id' \in [File -> Batch] /\ hash_state' \in [File -> HashState]
    BY <1>1, BudgetFacts DEF Typed, TypeOK, Enqueue, JobState, HashState
<1>4. call' \in [Caller -> CallPc] /\ callBatch' \in [Caller -> Batch]
    BY <1>1 DEF Typed, TypeOK, Enqueue, CallPc
<1>5. TypeOK'
    BY <1>2, <1>3, <1>4 DEF Typed, TypeOK, Enqueue, fileVars, poolVars, workerVars
<1>6. RetryBudget'
    BY BudgetFacts DEF Typed, TypeOK, RetryBudget, Enqueue
<1> QED BY <1>5, <1>6 DEF Typed, Holding, RetryOutcome, Enqueue, workerVars

LEMMA CancelRowsTyped ==
    ASSUME Typed, NEW files, CancelRows(files)
    PROVE  /\ state' \in [File -> JobState] /\ attempts' = attempts
           /\ batch_id' = batch_id /\ hash_state' \in [File -> HashState]
           /\ RetryBudget'
BY DEF Typed, TypeOK, CancelRows, JobState, HashState, RetryBudget

LEMMA CallTyped ==
    ASSUME Typed, NEW c \in Caller, CallBegin(c) \/ CallEnd(c)
    PROVE  Typed'
<1>1. ASSUME NEW files \in SUBSET File \ {{}}, Enqueue(c, files) PROVE Typed'
    BY <1>1, EnqueueTyped
<1>2. ASSUME NEW files \in SUBSET File \ {{}}, CancelFiles(c, files) PROVE Typed'
  <2>1. left' \in [Kind -> Nat] /\ \A j \in Kind : left'[j] <= Budget[j]
      BY <1>2, SpendTyped, BudgetFacts DEF Typed, CancelFiles
  <2>2. CancelRows(files)
      BY <1>2 DEF CancelFiles
  <2> QED BY <1>2, <2>1, <2>2, CancelRowsTyped DEF Typed, TypeOK, Holding, RetryOutcome,
          CancelFiles, CancelRows, poolVars, workerVars, callVars
<1>3. ASSUME NEW b \in Batch \ {0}, CancelBatch(c, b) PROVE Typed'
  <2>1. left' \in [Kind -> Nat] /\ \A j \in Kind : left'[j] <= Budget[j]
      BY <1>3, SpendTyped, BudgetFacts DEF Typed, CancelBatch
  <2> QED BY <1>3, <2>1 DEF Typed, TypeOK, Holding, RetryOutcome, RetryBudget, CallPc,
          CancelBatch, jobVars, fileVars, workerVars
<1>4. CASE CancelAll(c)
  <2>1. left' \in [Kind -> Nat] /\ \A j \in Kind : left'[j] <= Budget[j]
      BY <1>4, SpendTyped, BudgetFacts DEF Typed, CancelAll
  <2>2. CancelRows(File)
      BY <1>4 DEF CancelAll
  <2> QED BY <1>4, <2>1, <2>2, CancelRowsTyped DEF Typed, TypeOK, Holding, RetryOutcome,
          CancelAll, CancelRows, CallPc, poolVars, workerVars
<1>5. ASSUME NEW n \in 1 .. MaxPool, SetConcurrency(c, n) PROVE Typed'
  <2>1. left' \in [Kind -> Nat] /\ \A j \in Kind : left'[j] <= Budget[j]
      BY <1>5, SpendTyped, BudgetFacts DEF Typed, SetConcurrency
  <2> QED BY <1>5, <2>1 DEF Typed, TypeOK, Holding, RetryOutcome, RetryBudget, CallPc,
          SetConcurrency, jobVars, fileVars, workerVars
<1>6. CASE EnqueueWake(c)
  <2>1. callBatch' \in [Caller -> Batch] /\ call' \in [Caller -> CallPc]
      BY <1>6, Defaults DEF EnqueueWake, Typed, TypeOK, CallPc
  <2>2. TypeOK' /\ Holding'
      BY <1>6, <2>1, EnsureStarts DEF Typed, TypeOK, Holding, Busy, EnqueueWake,
         jobVars, fileVars
  <2> QED BY <1>6, <2>2 DEF Typed, RetryOutcome, RetryBudget, EnqueueWake, jobVars
<1>7. CASE CancelBatchRows(c)
  <2>1. callBatch' \in [Caller -> Batch] /\ call' \in [Caller -> CallPc]
      BY <1>7, Defaults DEF CancelBatchRows, Typed, TypeOK, CallPc
  <2>2. CancelRows({f \in File : batch_id[f] = callBatch[c]})
      BY <1>7 DEF CancelBatchRows
  <2> QED BY <1>7, <2>1, <2>2, CancelRowsTyped DEF Typed, TypeOK, Holding, RetryOutcome,
          CancelBatchRows, CancelRows, poolVars, workerVars
<1>8. CASE CancelSignal(c)
    BY <1>8 DEF Typed, TypeOK, Holding, RetryOutcome, RetryBudget, CallPc, CancelSignal,
       jobVars, fileVars, workerVars
<1>9. CASE RefreshWorkers(c)
  <2>1. call' \in [Caller -> CallPc]
      BY <1>9 DEF RefreshWorkers, Typed, TypeOK, CallPc
  <2>2. CASE EnsureWorkers
      BY <1>9, <2>1, <2>2, EnsureStarts DEF Typed, TypeOK, Holding, Busy, RetryOutcome,
         RetryBudget, RefreshWorkers, jobVars, fileVars
  <2>3. CASE UNCHANGED <<cancelSet, pc, event>>
      BY <1>9, <2>1, <2>3 DEF Typed, TypeOK, Holding, Busy, RetryOutcome,
         RetryBudget, RefreshWorkers, jobVars, fileVars
  <2> QED BY <1>9, <2>2, <2>3 DEF RefreshWorkers
<1> QED BY <1>1, <1>2, <1>3, <1>4, <1>5, <1>6, <1>7, <1>8, <1>9 DEF CallBegin, CallEnd

\* A decision is well typed whenever its parts are.
LEMMA DecideTyped ==
    ASSUME Typed, NEW w \in Worker, NEW out \in Outcome, NEW sha \in Content \cup {None},
           NEW att \in 0 .. MaxAttempts, NEW reused \in BOOLEAN, NEW stop \in BOOLEAN,
           out = "queued" => att < MaxAttempts,
           pc[w] \in Busy, held' = held,
           Decide(w, out, sha, att, reused, stop)
    PROVE  /\ res' \in [Worker -> Result] /\ pc' \in [Worker -> WorkerPc]
           /\ Holding' /\ RetryOutcome'
<1>1. res' \in [Worker -> Result] /\ pc' \in [Worker -> WorkerPc]
    BY DEF Decide, Typed, TypeOK, Result, WorkerPc
<1>2. Holding'
    BY DEF Decide, Typed, TypeOK, Holding, Busy
<1>3. RetryOutcome'
    BY DEF Decide, Typed, TypeOK, RetryOutcome
<1> QED BY <1>1, <1>2, <1>3

LEMMA ClaimTyped ==
    ASSUME Typed, NEW w \in Worker, NEW f \in File, Claim(w, f)
    PROVE  Typed'
<1>1. [attempts |-> attempts[f], batch |-> batch_id[f], key |-> fingerprint[f]] \in Claimed
    BY BudgetFacts DEF Claim, Typed, TypeOK, RetryBudget, Claimed
<1>2. TypeOK'
    BY <1>1 DEF Claim, Typed, TypeOK, JobState, HashState, WorkerPc, poolVars, callVars
<1>3. Holding'
    BY ConstantsOK DEF Claim, Typed, TypeOK, Holding, Busy
<1>4. RetryOutcome' /\ RetryBudget'
    BY DEF Claim, Typed, TypeOK, RetryOutcome, RetryBudget
<1> QED BY <1>2, <1>3, <1>4 DEF Typed

LEMMA BeginTyped ==
    ASSUME Typed, NEW w \in Worker, Begin(w)
    PROVE  Typed'
<1>1. /\ pc[w] \in Busy /\ held' = held /\ ctx[w].attempts \in 0 .. (MaxAttempts - 1)
      /\ ctx[w].attempts \in 0 .. MaxAttempts /\ ctx[w].attempts + 1 \in 0 .. MaxAttempts
      /\ held[w] \in File
    BY BudgetFacts DEF Begin, Typed, TypeOK, Holding, Busy, Claimed
<1>2. SUFFICES /\ res' \in [Worker -> Result] /\ pc' \in [Worker -> WorkerPc]
               /\ event' \in [Worker -> {"live", "replaced"}]
               /\ Holding' /\ RetryOutcome'
    BY DEF Begin, Typed, TypeOK, RetryBudget, jobVars, fileVars, poolVars, callVars
<1>3. CASE Decide(w, "cancelled", None, ctx[w].attempts, FALSE, FALSE) /\ UNCHANGED event
    BY <1>1, <1>3, DecideTyped DEF Outcome, Typed, TypeOK
<1>4. ASSUME NEW sha \in Reusable(w), UNCHANGED event,
             Decide(w, "done", sha, ctx[w].attempts, TRUE, FALSE)
      PROVE  /\ res' \in [Worker -> Result] /\ pc' \in [Worker -> WorkerPc]
             /\ event' \in [Worker -> {"live", "replaced"}] /\ Holding' /\ RetryOutcome'
  <2>1. sha \in Content \cup {None}
      BY <1>4 DEF Reusable, Typed, TypeOK
  <2> QED BY <1>1, <1>4, <2>1, DecideTyped DEF Outcome, Typed, TypeOK
<1>5. CASE /\ res' = [res EXCEPT ![w].sha = disk[held[w]]]
           /\ pc' = [pc EXCEPT ![w] = "read"]
           /\ event' = [event EXCEPT ![w] = "live"]
    BY <1>1, <1>5 DEF Typed, TypeOK, Result, WorkerPc, Holding, Busy, RetryOutcome
<1>6. CASE Decide(w, "failed", None, ctx[w].attempts + 1, FALSE, FALSE) /\ UNCHANGED event
    BY <1>1, <1>6, DecideTyped DEF Outcome, Typed, TypeOK
<1> QED BY <1>3, <1>4, <1>5, <1>6 DEF Begin

LEMMA ReadTyped ==
    ASSUME Typed, NEW w \in Worker, Read(w)
    PROVE  Typed'
<1> DEFINE att == ctx[w].attempts + 1
<1>1. /\ pc[w] \in Busy /\ held' = held /\ ctx[w].attempts \in 0 .. MaxAttempts
      /\ att \in 0 .. MaxAttempts /\ res[w].sha \in Content \cup {None}
    BY BudgetFacts DEF Read, Typed, TypeOK, Busy, Claimed, Result
<1>2. SUFFICES /\ res' \in [Worker -> Result] /\ pc' \in [Worker -> WorkerPc]
               /\ Holding' /\ RetryOutcome'
    BY DEF Read, Typed, TypeOK, RetryBudget, jobVars, fileVars, poolVars, callVars
<1> HIDE DEF att
<1>3. CASE Decide(w, "done", res[w].sha, ctx[w].attempts, FALSE, FALSE)
    BY <1>1, <1>3, DecideTyped DEF Outcome
<1>4. CASE Decide(w, "cancelled", None, ctx[w].attempts, FALSE, TRUE)
    BY <1>1, <1>4, DecideTyped DEF Outcome
<1>5. CASE att < MaxAttempts /\ Decide(w, "queued", None, att, FALSE, FALSE)
    BY <1>1, <1>5, DecideTyped DEF Outcome
<1>6. CASE Decide(w, "failed", None, att, FALSE, FALSE)
    BY <1>1, <1>6, DecideTyped DEF Outcome
<1> QED BY <1>3, <1>4, <1>5, <1>6 DEF Read, TryAgain, att

LEMMA FinishTyped ==
    ASSUME Typed, NEW w \in Worker, Finish(w)
    PROVE  Typed'
<1>1. /\ held[w] \in File /\ res[w] \in Result
      /\ res[w].out \in Outcome /\ res[w].attempts \in 0 .. MaxAttempts
      /\ res[w].sha \in Content \cup {None}
    BY DEF Finish, Typed, TypeOK, Holding, Busy, Result
<1>2. /\ state' \in [File -> JobState] /\ attempts' \in [File -> 0 .. MaxAttempts]
      /\ hash_state' \in [File -> HashState] /\ sha256' \in [File -> Content \cup {None}]
    BY <1>1 DEF Finish, Recorded, Typed, TypeOK, Outcome, JobState, HashState
<1>3. /\ pc' \in [Worker -> WorkerPc] /\ held' \in [Worker -> File \cup {None}]
      /\ ctx' \in [Worker -> Claimed] /\ res' \in [Worker -> Result]
      /\ event' \in [Worker -> {"live", "replaced"}]
    BY Defaults DEF Finish, Typed, TypeOK, WorkerPc
<1>4. TypeOK'
    BY <1>2, <1>3 DEF Finish, Typed, TypeOK, poolVars, callVars
<1>5. Holding' /\ RetryOutcome'
    BY DEF Finish, Typed, TypeOK, Holding, RetryOutcome, Busy, NoResult
<1>6. RetryBudget'
    BY <1>1 DEF Finish, Recorded, Typed, TypeOK, RetryOutcome, RetryBudget, Outcome
<1> QED BY <1>4, <1>5, <1>6 DEF Typed

LEMMA WorkerTyped ==
    ASSUME Typed, NEW w \in Worker, WorkerStep(w)
    PROVE  Typed'
<1>1. CASE LoopHead(w)
    BY <1>1 DEF LoopHead, Typed, TypeOK, Holding, Busy, RetryOutcome, RetryBudget,
       WorkerPc, jobVars, fileVars, poolVars, callVars
<1>2. CASE ClaimNothing(w)
    BY <1>2 DEF ClaimNothing, Typed, TypeOK, Holding, Busy, RetryOutcome, RetryBudget,
       WorkerPc, jobVars, fileVars, poolVars, callVars
<1>3. CASE Exit(w)
    BY <1>3 DEF Exit, Typed, TypeOK, Holding, Busy, RetryOutcome, RetryBudget,
       WorkerPc, jobVars, fileVars, poolVars, callVars
<1> QED BY <1>1, <1>2, <1>3, ClaimTyped, BeginTyped, ReadTyped, FinishTyped DEF WorkerStep

LEMMA GoneTyped ==
    ASSUME Typed, Gone, left' \in [Kind -> Nat], \A j \in Kind : left'[j] <= Budget[j]
    PROVE  Typed'
<1>1. TypeOK'
    BY Defaults DEF Gone, Typed, TypeOK, WorkerPc, CallPc, jobVars, fileVars
<1>2. Holding' /\ RetryOutcome' /\ RetryBudget'
    BY DEF Gone, Typed, TypeOK, Holding, RetryOutcome, RetryBudget, Busy, NoResult, jobVars
<1> QED BY <1>1, <1>2 DEF Typed

LEMMA OutsideTyped ==
    ASSUME Typed, Outside
    PROVE  Typed'
<1>1. ASSUME NEW f \in File, NEW bytes \in Content, Rewrite(f, bytes) PROVE Typed'
  <2>1. left' \in [Kind -> Nat] /\ \A j \in Kind : left'[j] <= Budget[j]
      BY <1>1, SpendTyped, BudgetFacts DEF Typed, Rewrite
  <2> QED BY <1>1, <2>1 DEF Rewrite, Typed, TypeOK, Holding, RetryOutcome, RetryBudget,
          jobVars, fileVars, poolVars, workerVars, callVars
<1>2. ASSUME NEW f \in File, Rescan(f) PROVE Typed'
    BY <1>2 DEF Rescan, Typed, TypeOK, HashState, Holding, RetryOutcome, RetryBudget,
       jobVars, poolVars, workerVars, callVars
<1>3. CASE Shutdown
  <2>1. left' \in [Kind -> Nat] /\ \A j \in Kind : left'[j] <= Budget[j]
      BY <1>3, SpendTyped, BudgetFacts DEF Typed, Shutdown
  <2> QED BY <1>3, <2>1 DEF Shutdown, Typed, TypeOK, Holding, RetryOutcome, RetryBudget,
          jobVars, fileVars, workerVars, callVars
<1>4. CASE Crash
  <2>1. left' \in [Kind -> Nat] /\ \A j \in Kind : left'[j] <= Budget[j]
      BY <1>4, SpendTyped, BudgetFacts DEF Typed, Crash
  <2> QED BY <1>4, <2>1, GoneTyped DEF Crash
<1>5. CASE Terminate
    BY <1>5, GoneTyped DEF Terminate, Typed, TypeOK
<1>6. CASE Resume
  <2>1. state' \in [File -> JobState] /\ hash_state' \in [File -> HashState]
      BY <1>6 DEF Resume, Resumed, Typed, TypeOK, JobState, HashState
  <2>2. RetryBudget'
      BY <1>6 DEF Resume, Resumed, Typed, TypeOK, RetryBudget
  <2>3. CASE EnsureWorkers
      BY <1>6, <2>1, <2>2, <2>3, EnsureStarts DEF Resume, Typed, TypeOK, Holding, Busy,
         RetryOutcome, callVars
  <2>4. CASE UNCHANGED <<cancelSet, pc, event>>
      BY <1>6, <2>1, <2>2, <2>4 DEF Resume, Typed, TypeOK, Holding, Busy,
         RetryOutcome, callVars
  <2> QED BY <1>6, <2>3, <2>4 DEF Resume
<1> QED BY <1>1, <1>2, <1>3, <1>4, <1>5, <1>6 DEF Outside

LEMMA TypedStep == Typed /\ [Next]_vars => Typed'
<1> SUFFICES ASSUME Typed, [Next]_vars PROVE Typed'
    OBVIOUS
<1>1. CASE UNCHANGED vars
    BY <1>1 DEF vars, Typed, TypeOK, Holding, RetryOutcome, RetryBudget, jobVars,
       fileVars, poolVars, workerVars, callVars
<1> QED BY <1>1, WorkerTyped, CallTyped, OutsideTyped DEF Next

LEMMA TypedAlways == Spec => []Typed
BY TypedInit, TypedStep, PTL DEF Spec

\* The model's values keep their types in every run of the queue: a state, a
\* hash state, a claim or a result outside its vocabulary never arises.
THEOREM TypeCorrect == Spec => []TypeOK
<1>1. Typed => TypeOK
    BY DEF Typed
<1> QED BY <1>1, TypedAlways, PTL

\* A job that may still run has tries left, for every MAX_ATTEMPTS, however
\* retries, stale workers, cancels and restarts overwrite the counter (_finish).
THEOREM RetriesBounded == Spec => []RetryBudget
<1>1. Typed => RetryBudget
    BY DEF Typed
<1> QED BY <1>1, TypedAlways, PTL

-----------------------------------------------------------------------------
\* The two tables and the worker pool.

\* cancel's UPDATE statements move both columns together, and take no job away
\* from a worker without marking it.
LEMMA CancelRowsAgree ==
    ASSUME Typed, TablesAgree, NEW files, CancelRows(files)
    PROVE  /\ TablesAgree'
           /\ \A f \in File : state'[f] = "running" => state[f] = "running"
BY DEF Typed, TypeOK, TablesAgree, CancelRows, InProgress

\* Every API call keeps Owned.
LEMMA CallOwned ==
    ASSUME Typed, Owned, NEW c \in Caller, CallBegin(c) \/ CallEnd(c)
    PROVE  Owned'
<1>1. ASSUME NEW files \in SUBSET File \ {{}}, Enqueue(c, files) PROVE Owned'
    BY <1>1 DEF Enqueue, Kept, Typed, TypeOK, Owned, RunningOwned, TablesAgree, Holds,
       poolVars, workerVars
<1>2. ASSUME NEW files \in SUBSET File \ {{}}, CancelFiles(c, files) PROVE Owned'
    BY <1>2, CancelRowsAgree DEF CancelFiles, Owned, RunningOwned, Holds, poolVars,
       workerVars
<1>3. ASSUME NEW b \in Batch \ {0}, CancelBatch(c, b) PROVE Owned'
    BY <1>3 DEF CancelBatch, Owned, RunningOwned, TablesAgree, Holds, jobVars, fileVars,
       workerVars
<1>4. CASE CancelAll(c)
    BY <1>4, CancelRowsAgree DEF CancelAll, Owned, RunningOwned, Holds, poolVars, workerVars
<1>5. ASSUME NEW n \in 1 .. MaxPool, SetConcurrency(c, n) PROVE Owned'
    BY <1>5 DEF SetConcurrency, Owned, RunningOwned, TablesAgree, Holds, jobVars,
       fileVars, workerVars
<1>6. CASE EnqueueWake(c)
    BY <1>6 DEF EnqueueWake, Owned, RunningOwned, TablesAgree, Holds, jobVars, fileVars
<1>7. CASE CancelBatchRows(c)
    BY <1>7, CancelRowsAgree DEF CancelBatchRows, Owned, RunningOwned, Holds, poolVars,
       workerVars
<1>8. CASE CancelSignal(c)
    BY <1>8 DEF CancelSignal, Owned, RunningOwned, TablesAgree, Holds, jobVars, fileVars,
       workerVars
<1>9. CASE RefreshWorkers(c)
    BY <1>9 DEF RefreshWorkers, Owned, RunningOwned, TablesAgree, Holds, jobVars, fileVars
<1> QED BY <1>1, <1>2, <1>3, <1>4, <1>5, <1>6, <1>7, <1>8, <1>9 DEF CallBegin, CallEnd

\* Every worker step keeps Owned: a claim takes the row and the file together,
\* and a worker lets go of a file in the step that moves its row off "running".
LEMMA WorkerOwned ==
    ASSUME Typed, Owned, NEW w \in Worker, WorkerStep(w)
    PROVE  Owned'
<1>1. CASE LoopHead(w) \/ ClaimNothing(w) \/ Exit(w)
    BY <1>1 DEF LoopHead, ClaimNothing, Exit, Owned, RunningOwned, TablesAgree, Holds,
       jobVars, fileVars, poolVars
<1>2. ASSUME NEW f \in File, Claim(w, f) PROVE Owned'
  <2>1. held[w] = None
      BY <1>2 DEF Claim, Busy, Typed, Holding
  <2>2. TablesAgree'
      BY <1>2 DEF Claim, Typed, TypeOK, Owned, TablesAgree
  <2>3. RunningOwned'
    <3>1. ASSUME NEW g \in File, state'[g] = "running", g # f
          PROVE  \E v \in Worker : held'[v] = g
      <4>1. state[g] = "running" /\ phase # "down"
          BY <1>2, <3>1 DEF Claim, Typed, TypeOK
      <4>2. PICK v \in Worker : held[v] = g
          BY <4>1 DEF Owned, RunningOwned, Holds
      <4>3. v # w
          BY <2>1, <4>2, ConstantsOK
      <4> QED BY <1>2, <4>2, <4>3 DEF Claim, Typed, TypeOK
    <3>2. held'[w] = f
        BY <1>2 DEF Claim, Typed, TypeOK
    <3> QED BY <3>1, <3>2 DEF RunningOwned, Holds
  <2> QED BY <2>2, <2>3 DEF Owned
<1>3. CASE Begin(w) \/ Read(w)
    BY <1>3 DEF Begin, Read, Owned, RunningOwned, TablesAgree, Holds, jobVars, fileVars,
       poolVars
<1>4. CASE Finish(w)
  <2>1. held[w] \in File /\ res[w].out \in Outcome
      BY <1>4 DEF Finish, Typed, TypeOK, Holding, Busy, Result
  <2>2. TablesAgree'
      BY <1>4, <2>1 DEF Finish, Recorded, Typed, TypeOK, Owned, TablesAgree, Outcome
  <2>3. RunningOwned'
      BY <1>4, <2>1 DEF Finish, Recorded, Typed, TypeOK, Owned, RunningOwned, Holds, Outcome, poolVars
  <2> QED BY <2>2, <2>3 DEF Owned
<1> QED BY <1>1, <1>2, <1>3, <1>4 DEF WorkerStep

LEMMA OwnedStep == Typed /\ Owned /\ [Next]_vars => Owned'
<1> SUFFICES ASSUME Typed, Owned, [Next]_vars PROVE Owned'
    OBVIOUS
<1>1. ASSUME NEW f \in File, NEW bytes \in Content, Rewrite(f, bytes) PROVE Owned'
    BY <1>1 DEF Rewrite, Owned, RunningOwned, TablesAgree, Holds, jobVars, fileVars,
       poolVars, workerVars
<1>2. ASSUME NEW f \in File, Rescan(f) PROVE Owned'
    BY <1>2 DEF Rescan, Typed, TypeOK, Owned, RunningOwned, TablesAgree, Holds, jobVars,
       poolVars, workerVars
<1>3. CASE Shutdown
    BY <1>3 DEF Shutdown, Owned, RunningOwned, TablesAgree, Holds, jobVars, fileVars,
       workerVars
<1>4. CASE Crash \/ Terminate
    BY <1>4 DEF Crash, Terminate, Gone, Owned, RunningOwned, TablesAgree, jobVars, fileVars
<1>5. CASE Resume
    BY <1>5 DEF Resume, Resumed, Typed, TypeOK, Owned, RunningOwned, TablesAgree
<1>6. CASE UNCHANGED vars
    BY <1>6 DEF vars, Owned, RunningOwned, TablesAgree, Holds, jobVars, fileVars, poolVars,
       workerVars
<1> QED BY <1>1, <1>2, <1>3, <1>4, <1>5, <1>6, WorkerOwned, CallOwned DEF Next, Outside

LEMMA OwnedAlways == Spec => []Owned
<1>1. Init => Owned
    BY DEF Init, Owned, RunningOwned, TablesAgree
<1> QED BY <1>1, OwnedStep, TypedAlways, PTL DEF Spec

\* While the process lives, every job marked running is in some worker's hands,
\* for any number of files, workers and callers: no interleaving of claims,
\* cancels, repeated enqueues, retries and restarts orphans a running row.
THEOREM RunningJobsAreOwned == Spec => []RunningOwned
<1>1. Owned => RunningOwned
    BY DEF Owned
<1> QED BY <1>1, OwnedAlways, PTL

\* model_files says "hashing" exactly while hash_jobs says "running".
THEOREM TablesAlwaysAgree == Spec => []TablesAgree
<1>1. Owned => TablesAgree
    BY DEF Owned
<1> QED BY <1>1, OwnedAlways, PTL

-----------------------------------------------------------------------------
\* One reader per file, until somebody cancels.

\* Whoever holds a file holds a running row, no two hold the same one, a dead
\* process holds none, and no cancel is under way.
Sole ==
    /\ \A w \in Worker : held[w] # None => state[held[w]] = "running"
    /\ OneReader
    /\ phase = "down" => \A w \in Worker : held[w] = None
    /\ \A c \in Caller : call[c] \notin {"sweep", "signal"}

\* Once touched, always touched: a budget is only ever spent.
LEMMA UntouchedBefore ==
    ASSUME Typed, [Next]_vars, NEW k \in Kind, Untouched(k)'
    PROVE  Untouched(k) /\ ~Spend(k)
<1>1. /\ left \in [Kind -> Nat] /\ Budget[k] \in Nat
      /\ left[k] <= Budget[k]
    BY BudgetFacts DEF Typed, TypeOK
<1>2. left' = left \/ \E j \in Kind : Spend(j)
    BY BudgetFacts DEF Next, WorkerStep, CallBegin, CallEnd, Outside, LoopHead, Claim,
       ClaimNothing, Begin, Read, Finish, Exit, Enqueue, CancelFiles, CancelBatch,
       CancelAll, SetConcurrency, EnqueueWake, CancelBatchRows, CancelSignal,
       RefreshWorkers, Rewrite, Rescan, Shutdown, Crash, Terminate, Resume, vars
<1>3. left'[k] = Budget[k]
    BY DEF Untouched
<1>4. ~Spend(k)
    BY <1>1, <1>3 DEF Spend
<1>5. ASSUME NEW j \in Kind, Spend(j) PROVE left'[k] = left[k]
    BY <1>1, <1>4, <1>5 DEF Spend
<1> QED BY <1>2, <1>3, <1>4, <1>5 DEF Untouched

LEMMA SoleStep ==
    ASSUME Typed, Untouched("cancel") => Sole, [Next]_vars
    PROVE  (Untouched("cancel") => Sole)'
<1> SUFFICES ASSUME Sole, ~Spend("cancel") PROVE Sole'
    BY UntouchedBefore, BudgetFacts
<1>2. ASSUME NEW c \in Caller, CallBegin(c) \/ CallEnd(c) PROVE Sole'
  <2>1. ASSUME NEW files \in SUBSET File \ {{}}, Enqueue(c, files) PROVE Sole'
      BY <2>1 DEF Enqueue, Kept, Typed, TypeOK, Sole, OneReader, poolVars,
         workerVars
  <2>2. ASSUME NEW n \in 1 .. MaxPool, SetConcurrency(c, n) PROVE Sole'
      BY <2>2 DEF SetConcurrency, Typed, TypeOK, Sole, OneReader, jobVars, workerVars
  <2>3. CASE EnqueueWake(c)
      BY <2>3 DEF EnqueueWake, Typed, TypeOK, Sole, OneReader, jobVars
  <2>4. CASE RefreshWorkers(c)
      BY <2>4 DEF RefreshWorkers, Typed, TypeOK, Sole, OneReader, jobVars
  <2> QED BY <1>2, <2>1, <2>2, <2>3, <2>4 DEF CallBegin, CallEnd, CancelFiles,
          CancelBatch, CancelAll, CancelBatchRows, CancelSignal, Sole
<1>3. ASSUME NEW w \in Worker, WorkerStep(w) PROVE Sole'
  <2>1. CASE LoopHead(w) \/ ClaimNothing(w) \/ Exit(w) \/ Begin(w) \/ Read(w)
      BY <2>1 DEF LoopHead, ClaimNothing, Exit, Begin, Read, Sole, OneReader, jobVars,
         poolVars, callVars
  <2>2. ASSUME NEW f \in File, Claim(w, f) PROVE Sole'
    <3>1. \A v \in Worker : held[v] # f
        BY <2>2, ConstantsOK DEF Claim, Sole
    <3> QED BY <2>2, <3>1, ConstantsOK DEF Claim, Typed, TypeOK, Sole, OneReader,
           poolVars, callVars
  <2>3. CASE Finish(w)
    <3>1. \A v \in Worker : v # w => held[v] # held[w] \/ held[v] = None
        BY DEF Sole, OneReader
    <3>2. held'[w] = None /\ \A v \in Worker : v # w => held'[v] = held[v]
        BY <2>3 DEF Finish, Typed, TypeOK
    <3>3. \A f \in File : f # held[w] => state'[f] = state[f]
        BY <2>3 DEF Finish, Typed, TypeOK
    <3>4. \A v \in Worker : held'[v] # None => state'[held'[v]] = "running"
        BY <3>1, <3>2, <3>3 DEF Sole, Typed, TypeOK
    <3>5. OneReader'
        BY <3>2 DEF Sole, OneReader
    <3> QED BY <2>3, <3>4, <3>5 DEF Finish, Sole, poolVars, callVars
  <2> QED BY <1>3, <2>1, <2>2, <2>3 DEF WorkerStep
<1>4. CASE Outside
  <2>1. CASE \/ \E f \in File, bytes \in Content : Rewrite(f, bytes)
             \/ \E f \in File : Rescan(f)
             \/ Shutdown
      BY <2>1 DEF Rewrite, Rescan, Shutdown, Sole, OneReader, jobVars, poolVars,
         workerVars, callVars
  <2>2. CASE Crash \/ Terminate
      BY <2>2 DEF Crash, Terminate, Gone, Sole, OneReader
  <2>3. CASE Resume
    <3>1. \A w \in Worker : held[w] = None
        BY <2>3, <1>4 DEF Resume, Sole
    <3> QED BY <2>3, <3>1 DEF Resume, Sole, OneReader, callVars
  <2> QED BY <1>4, <2>1, <2>2, <2>3 DEF Outside
<1>5. CASE UNCHANGED vars
    BY <1>5 DEF vars, Sole, OneReader, jobVars, poolVars, workerVars, callVars
<1> QED BY <1>2, <1>3, <1>4, <1>5 DEF Next

\* Until something is cancelled, no file is ever read by two workers at once,
\* however often it is enqueued again and the process restarts.
THEOREM OneReaderPerFile == Spec => []SoleReader
<1>1. Init => (Untouched("cancel") => Sole)
    BY DEF Init, Sole, OneReader
<1>2. (Untouched("cancel") => Sole) => SoleReader
    BY DEF Sole, SoleReader
<1> QED BY <1>1, <1>2, SoleStep, TypedAlways, PTL DEF Spec

-----------------------------------------------------------------------------
\* Digests, until a file is rewritten.

\* The database describes the bytes on disk, every digest in it is the right
\* one, and so is what a worker has claimed, is reading or has decided.
Fresh ==
    /\ fingerprint = disk
    /\ \A f \in File : sha256[f] # None => sha256[f] = disk[f]
    /\ \A f \in File : hash_state[f] = "done" => sha256[f] # None
    /\ \A w \in Worker :
         /\ pc[w] \in Busy => ctx[w].key = disk[held[w]]
         /\ \/ pc[w] = "read"
            \/ pc[w] = "finish" /\ res[w].out = "done"
            => res[w].sha = disk[held[w]]

LEMMA FreshWorker ==
    ASSUME Typed, Fresh, NEW w \in Worker, WorkerStep(w)
    PROVE  Fresh'
<1>1. CASE LoopHead(w) \/ ClaimNothing(w) \/ Exit(w)
    BY <1>1 DEF LoopHead, ClaimNothing, Exit, Typed, TypeOK, Fresh, Busy, jobVars, fileVars
<1>2. ASSUME NEW f \in File, Claim(w, f) PROVE Fresh'
    BY <1>2 DEF Claim, Typed, TypeOK, Fresh, Busy
<1>3. CASE Begin(w)
  <2>1. /\ pc[w] \in Busy /\ held[w] \in File /\ res[w] \in Result
        /\ ctx[w].key = disk[held[w]]
      BY <1>3, ConstantsOK DEF Begin, Typed, TypeOK, Holding, Busy, Fresh
  <2>2. UNCHANGED <<hash_state, sha256, fingerprint, disk, held, ctx>>
      BY <1>3 DEF Begin, fileVars
  <2>3. /\ \A v \in Worker \ {w} : pc'[v] = pc[v] /\ res'[v] = res[v]
        /\ pc'[w] \in {"read", "finish"}
      BY <1>3 DEF Begin, Decide, Typed, TypeOK
  <2>4. \A sha \in Reusable(w) : sha = disk[held[w]]
      BY <2>1 DEF Reusable, Fresh
  <2>5. pc'[w] = "read" \/ res'[w].out = "done" => res'[w].sha = disk[held[w]]
      BY <1>3, <2>1, <2>4 DEF Begin, Decide, Typed, TypeOK, Result
  <2> QED BY <2>1, <2>2, <2>3, <2>5 DEF Fresh, Busy
<1>4. CASE Read(w)
  <2>1. /\ pc[w] = "read" /\ res[w].sha = disk[held[w]] /\ ctx[w].key = disk[held[w]]
      BY <1>4 DEF Read, Fresh, Busy
  <2>2. UNCHANGED <<hash_state, sha256, fingerprint, disk, held, ctx>>
      BY <1>4 DEF Read, fileVars
  <2>3. /\ \A v \in Worker \ {w} : pc'[v] = pc[v] /\ res'[v] = res[v]
        /\ pc'[w] = "finish"
      BY <1>4 DEF Read, Decide, Typed, TypeOK
  <2>4. res'[w].out = "done" => res'[w].sha = res[w].sha
      BY <1>4 DEF Read, Decide, Typed, TypeOK, Result
  <2> QED BY <2>1, <2>2, <2>3, <2>4 DEF Fresh, Busy
<1>5. CASE Finish(w)
  <2>1. /\ held[w] \in File /\ res[w].out \in Outcome
        /\ res[w].out = "done" => res[w].sha = disk[held[w]]
      BY <1>5, ConstantsOK DEF Finish, Typed, TypeOK, Holding, Busy, Result, Fresh
  <2>2. \A f \in File : disk[f] # None
      BY ConstantsOK DEF Typed, TypeOK
  <2>3. UNCHANGED <<fingerprint, disk>>
      BY <1>5 DEF Finish
  <2>4. /\ \A f \in File : sha256'[f] # None => sha256'[f] = disk[f]
        /\ \A f \in File : hash_state'[f] = "done" => sha256'[f] # None
      BY <1>5, <2>1, <2>2 DEF Finish, Typed, TypeOK, Fresh, Outcome
  <2>5. /\ \A v \in Worker \ {w} : /\ pc'[v] = pc[v] /\ res'[v] = res[v]
                                   /\ held'[v] = held[v] /\ ctx'[v] = ctx[v]
        /\ pc'[w] \in {"exit", "top"}
      BY <1>5 DEF Finish, Typed, TypeOK
  <2> QED BY <2>3, <2>4, <2>5 DEF Fresh, Busy
<1> QED BY <1>1, <1>2, <1>3, <1>4, <1>5 DEF WorkerStep

LEMMA FreshStep ==
    ASSUME Typed, Untouched("rewrite") => Fresh, [Next]_vars
    PROVE  (Untouched("rewrite") => Fresh)'
<1> SUFFICES ASSUME Fresh, ~Spend("rewrite") PROVE Fresh'
    BY UntouchedBefore, BudgetFacts
<1>2. ASSUME NEW c \in Caller, CallBegin(c) \/ CallEnd(c) PROVE Fresh'
  <2>1. UNCHANGED <<fingerprint, sha256, disk, held, ctx, res>>
      BY <1>2 DEF CallBegin, CallEnd, Enqueue, CancelFiles, CancelBatch, CancelAll,
         SetConcurrency, EnqueueWake, CancelBatchRows, CancelSignal, RefreshWorkers,
         CancelRows, fileVars, workerVars
  <2>2. \A f \in File : hash_state'[f] = "done" => hash_state[f] = "done"
    <3>1. ASSUME NEW files, Enqueue(c, files) \/ CancelRows(files)
          PROVE \A f \in File : hash_state'[f] = "done" => hash_state[f] = "done"
        BY <3>1 DEF Enqueue, CancelRows, Typed, TypeOK
    <3> QED BY <1>2, <3>1 DEF CallBegin, CallEnd, CancelFiles, CancelBatch, CancelAll,
         SetConcurrency, EnqueueWake, CancelBatchRows, CancelSignal, RefreshWorkers, fileVars
  <2>3. \A w \in Worker : pc'[w] = pc[w] \/ pc'[w] = "top"
      BY <1>2, EnsureStarts DEF Typed, CallBegin, CallEnd, Enqueue, CancelFiles,
         CancelBatch, CancelAll, SetConcurrency, EnqueueWake, CancelBatchRows,
         CancelSignal, RefreshWorkers, workerVars
  <2> QED BY <2>1, <2>2, <2>3 DEF Fresh, Busy
<1>3. ASSUME NEW f \in File, Rescan(f) PROVE Fresh'
    BY <1>3 DEF Rescan, Fresh
<1>4. CASE Shutdown \/ UNCHANGED vars
    BY <1>4 DEF Shutdown, vars, Fresh, Busy, fileVars, workerVars
<1>5. CASE Crash \/ Terminate
    BY <1>5 DEF Crash, Terminate, Gone, Fresh, Busy, fileVars
<1>6. CASE Resume
  <2>1. UNCHANGED <<fingerprint, sha256, disk, held, ctx, res>>
      BY <1>6 DEF Resume
  <2>2. \A f \in File : hash_state'[f] = "done" => hash_state[f] = "done"
      BY <1>6 DEF Resume, Typed, TypeOK
  <2>3. \A w \in Worker : pc'[w] = pc[w] \/ pc'[w] = "top"
      BY <1>6, EnsureStarts DEF Resume, Typed
  <2> QED BY <2>1, <2>2, <2>3 DEF Fresh, Busy
<1> QED BY <1>2, <1>3, <1>4, <1>5, <1>6, FreshWorker DEF Next, Outside, Rewrite

\* Until a file is rewritten, a digest shown as done is the digest of the file:
\* computed, computed twice, reused from another row or redone after a restart.
THEOREM DigestsAreRight == Spec => []DoneIsDigest
<1>1. Init => (Untouched("rewrite") => Fresh)
    BY DEF Init, Fresh, Busy
<1>2. (Untouched("rewrite") => Fresh) => DoneIsDigest
    BY DEF Fresh, DoneIsDigest
<1> QED BY <1>1, <1>2, FreshStep, TypedAlways, PTL DEF Spec

\* The tables, the pool and the callers tell one story, for any number of files, workers
\* and callers: what the runs check of the queue holds of every instance.
THEOREM QueueStaysSound == Spec => []QueueSound
BY TypeCorrect, RetriesBounded, RunningJobsAreOwned, TablesAlwaysAgree, OneReaderPerFile,
   PTL DEF QueueSound
=============================================================================
