------------------------- MODULE EnableQueueProofs -------------------------
(***************************************************************************)
(* What the Enable queue guarantees for any number of items, requests and  *)
(* threads.  The invariant: only the referenced thread is in the loop      *)
(* (Lead), a thread holds an item exactly while it works on it (Holding),  *)
(* a held item is running or was cancelled meanwhile (Held), the items of  *)
(* a request that has not enqueued yet are nobody else's (Fresh), and no   *)
(* thread survives the process (Quiet).                                    *)
(***************************************************************************)
EXTENDS EnableQueue, TLAPS

Lead    == \A t \in Thread : pc[t] \in Working => worker = t
Holding == \A t \in Thread : job[t] # None <=> pc[t] \in {"begin", "run", "finish"}
Held    == \A t \in Thread : job[t] # None => state[job[t]] \in {"running", "cancelled"}
Fresh   == \A c \in Caller : \A i \in callItems[c] :
              state[i] = "absent" /\ \A d \in Caller : i \in callItems[d] => d = c
Quiet   == phase = "down" => \A t \in Thread : pc[t] = "off"

IInv == TypeOK /\ Lead /\ Holding /\ Held /\ Fresh /\ Quiet /\ RunningOwned

LEMMA SpendTyped ==
    ASSUME TypeOK, NEW k \in Kind, Spend(k)
    PROVE  left' \in [Kind -> Nat] /\ \A j \in Kind : left'[j] <= Budget[j]
BY EnableOK DEF Spend, TypeOK, Kind

LEMMA EnsureStarts ==
    ASSUME TypeOK, Lead, EnsureWorker
    PROVE  /\ cancelSet' \in BOOLEAN
           /\ worker' \in Thread \cup {None}
           /\ pc' \in [Thread -> ThreadPc]
           /\ event' \in [Thread -> {"live", "replaced"}]
           /\ \A t \in Thread : pc'[t] \in Working => worker' = t
           /\ \A t \in Thread : pc'[t] = pc[t] \/ (pc[t] = "off" /\ pc'[t] = "top")
<1>1. CASE phase = "stopping"
  BY <1>1 DEF EnsureWorker, TypeOK, Lead
<1>2. CASE phase # "stopping"
  <2>1. cancelSet' \in BOOLEAN /\ event' \in [Thread -> {"live", "replaced"}]
    BY <1>2 DEF EnsureWorker, TypeOK, Rearmed
  <2>2. CASE UNCHANGED <<worker, pc>>
    BY <2>1, <2>2 DEF TypeOK, Lead
  <2>3. CASE ~Running /\ \E t \in Thread :
                pc[t] = "off" /\ worker' = t /\ pc' = [pc EXCEPT ![t] = "top"]
    <3>1. PICK t \in Thread :
             pc[t] = "off" /\ worker' = t /\ pc' = [pc EXCEPT ![t] = "top"]
      BY <2>3
    <3>2. \A u \in Thread : pc[u] \notin Working
      BY <2>3, EnableOK DEF Lead, Running, Alive, Working
    <3>3. QED
      BY <2>1, <3>1, <3>2 DEF TypeOK, ThreadPc, Working
  <2>4. QED
    BY <1>2, <2>2, <2>3 DEF EnsureWorker
<1>3. QED
  BY <1>1, <1>2

LEMMA InitInv == Init => IInv
<1> SUFFICES ASSUME Init PROVE IInv
  OBVIOUS
<1> USE EnableOK DEF Init
<1>1. 0 \in Batch
  BY DEF Batch, Kind
<1>2. TypeOK
  <2>1. left \in [Kind -> Nat] /\ \A k \in Kind : left[k] <= Budget[k]
    OBVIOUS
  <2>2. state \in [Item -> JobState] /\ batch_id \in [Item -> Batch]
    BY <1>1 DEF JobState
  <2>3. /\ pc \in [Thread -> ThreadPc] /\ result \in [Thread -> Settled]
        /\ job \in [Thread -> Item \cup {None}] /\ event \in [Thread -> {"live", "replaced"}]
        /\ touched \in [Thread -> SUBSET Batch]
    BY DEF ThreadPc, Settled
  <2>4. /\ call \in [Caller -> CallPc] /\ callBatch \in [Caller -> Batch]
        /\ callItems \in [Caller -> SUBSET Item]
    BY <1>1 DEF CallPc
  <2>5. QED
    BY <2>1, <2>2, <2>3, <2>4 DEF TypeOK
<1>3. QED
  BY <1>2 DEF IInv, Lead, Holding, Held, Fresh, Quiet, RunningOwned, Working

-----------------------------------------------------------------------------
(* One lemma per action *)

LEMMA FetchInv ==
    ASSUME IInv, NEW c \in Caller, NEW items \in SUBSET Item, Fetch(c, items)
    PROVE  IInv'
<1> USE DEF Fetch, dbVars, poolVars, threadVars
<1>1. left["fetch"] \in Batch
  BY EnableOK DEF IInv, TypeOK, Kind, Batch, Spend
<1>2. TypeOK'
  BY <1>1, SpendTyped DEF IInv, TypeOK, Kind, CallPc
<1>3. Fresh'
  BY DEF IInv, Fresh, TypeOK
<1>4. QED
  BY <1>2, <1>3 DEF IInv, Lead, Holding, Held, Quiet, RunningOwned

LEMMA FetchEnqueueInv ==
    ASSUME IInv, NEW c \in Caller, FetchEnqueue(c)
    PROVE  IInv'
<1> USE DEF FetchEnqueue, poolVars, threadVars
<1>1. TypeOK'
  BY DEF IInv, TypeOK, JobState, CallPc
<1>2. Fresh'
  BY DEF IInv, Fresh, TypeOK
<1>3. Held'
  <2>1. \A t \in Thread : job[t] # None => job[t] \in Item /\ job[t] \notin callItems[c]
    BY DEF IInv, Held, Fresh, TypeOK
  <2>2. QED
    BY <2>1 DEF IInv, Held
<1>4. RunningOwned'
  BY DEF IInv, RunningOwned, TypeOK
<1>5. QED
  BY <1>1, <1>2, <1>3, <1>4 DEF IInv, Lead, Holding, Quiet

LEMMA FetchWakeInv ==
    ASSUME IInv, NEW c \in Caller, FetchWake(c)
    PROVE  IInv'
<1> USE DEF FetchWake, dbVars
<1>1. TypeOK /\ Lead
  BY DEF IInv
<1>2. TypeOK'
  <2>1. 0 \in Batch
    BY EnableOK DEF Batch, Kind
  <2>2. QED
    BY <1>1, <2>1, EnsureStarts DEF TypeOK, CallPc
<1>3. Lead'
  BY <1>1, EnsureStarts DEF Lead
<1>4. Holding' /\ Quiet'
  BY <1>1, EnsureStarts DEF IInv, Holding, Quiet
<1>5. QED
  BY <1>2, <1>3, <1>4 DEF IInv, Held, Fresh, RunningOwned

LEMMA CancelInv ==
    ASSUME IInv, NEW c \in Caller, NEW b \in Batch, Cancel(c, b)
    PROVE  IInv'
<1> USE DEF Cancel, dbVars, threadVars
<1>1. TypeOK'
  BY SpendTyped DEF IInv, TypeOK, Kind, CallPc
<1>2. QED
  BY <1>1 DEF IInv, Lead, Holding, Held, Fresh, Quiet, RunningOwned

LEMMA CancelSweepInv ==
    ASSUME IInv, NEW c \in Caller, CancelSweep(c)
    PROVE  IInv'
<1> USE DEF CancelSweep, Cancellable, poolVars, threadVars
<1>1. TypeOK'
  <2>1. 0 \in Batch
    BY EnableOK DEF Batch, Kind
  <2>2. QED
    BY <2>1 DEF IInv, TypeOK, JobState, Settled, CallPc
<1>2. Fresh'
  BY DEF IInv, Fresh, TypeOK
<1>3. Held'
  BY DEF IInv, Held, TypeOK
<1>4. RunningOwned'
  BY DEF IInv, RunningOwned, TypeOK
<1>5. QED
  BY <1>1, <1>2, <1>3, <1>4 DEF IInv, Lead, Holding, Quiet

LEMMA ClaimInv ==
    ASSUME IInv, NEW t \in Thread, NEW i \in Item, Claim(t, i)
    PROVE  IInv'
<1> USE DEF Claim, Claimable, poolVars, callVars
<1>1. TypeOK'
  BY DEF IInv, TypeOK, JobState, ThreadPc
<1>2. Lead' /\ Quiet'
  BY DEF IInv, Lead, Quiet, TypeOK, Working
<1>3. Holding'
  BY EnableOK DEF IInv, Holding, TypeOK
<1>4. Held'
  BY DEF IInv, Held, TypeOK
<1>5. Fresh'
  BY DEF IInv, Fresh, TypeOK
<1>6. RunningOwned'
  <2>1. job[t] = None
    BY DEF IInv, Holding
  <2>2. QED
    BY <2>1, EnableOK DEF IInv, RunningOwned, TypeOK
<1>7. QED
  BY <1>1, <1>2, <1>3, <1>4, <1>5, <1>6 DEF IInv

LEMMA FinishInv ==
    ASSUME IInv, NEW t \in Thread, Finish(t)
    PROVE  /\ IInv'
           /\ job[t] \in Item /\ state[job[t]] \in {"running", "cancelled"}
<1> USE DEF Finish, Finished, poolVars, callVars
<1>1. job[t] \in Item /\ state[job[t]] \in {"running", "cancelled"}
  BY DEF IInv, Holding, Held, TypeOK
<1>2. \A u \in Thread : job[u] # None => u = t
  BY DEF IInv, Holding, Lead, Working
<1>3. TypeOK'
  BY <1>1 DEF IInv, TypeOK, JobState, Settled, ThreadPc
<1>4. Lead' /\ Quiet' /\ Holding'
  BY DEF IInv, Lead, Quiet, Holding, TypeOK, Working
<1>5. Held'
  BY <1>2 DEF IInv, Held, TypeOK
<1>6. Fresh'
  BY <1>1 DEF IInv, Fresh, TypeOK
<1>7. RunningOwned'
  BY <1>1, EnableOK DEF IInv, RunningOwned, TypeOK, Settled
<1>8. QED
  BY <1>1, <1>3, <1>4, <1>5, <1>6, <1>7 DEF IInv

LEMMA ThreadMoveInv ==
    ASSUME IInv, NEW t \in Thread,
           \/ LoopHead(t) \/ ClaimNothing(t) \/ Begin(t)
           \/ \E out \in Settled : Run(t, out)
    PROVE  IInv'
<1> USE DEF LoopHead, ClaimNothing, Begin, Run, dbVars, poolVars, callVars
<1>1. TypeOK'
  <2>1. pc' \in [Thread -> ThreadPc]
    BY DEF IInv, TypeOK, ThreadPc
  <2>2. result' \in [Thread -> Settled] /\ event' \in [Thread -> {"live", "replaced"}]
    BY DEF IInv, TypeOK, Settled
  <2>3. scanErrors' \subseteq Item
    <3>1. pc[t] = "run" => job[t] \in Item
      BY DEF IInv, Holding, TypeOK
    <3>2. QED
      BY <3>1 DEF IInv, TypeOK
  <2>4. QED
    BY <2>1, <2>2, <2>3 DEF IInv, TypeOK
<1>2. Lead' /\ Quiet' /\ Holding'
  BY DEF IInv, Lead, Quiet, Holding, TypeOK, Working
<1>3. QED
  BY <1>1, <1>2 DEF IInv, Held, Fresh, RunningOwned

LEMMA ThreadEndInv ==
    ASSUME IInv, NEW t \in Thread,
           (\E b \in Batch : CloseScanJob(t, b)) \/ Clear(t) \/ End(t)
    PROVE  IInv'
<1> USE DEF CloseScanJob, Clear, End, dbVars, poolVars, callVars
<1>1. TypeOK'
  BY DEF IInv, TypeOK, ThreadPc
<1>2. Lead'
  BY DEF IInv, Lead, TypeOK, Working
<1>3. Quiet' /\ Holding'
  BY DEF IInv, Quiet, Holding, TypeOK
<1>4. QED
  BY <1>1, <1>2, <1>3 DEF IInv, Held, Fresh, RunningOwned

LEMMA GoneInv ==
    ASSUME IInv, Gone, left' \in [Kind -> Nat], \A k \in Kind : left'[k] <= Budget[k]
    PROVE  IInv'
<1> USE DEF Gone, dbVars
<1>1. TypeOK'
  <2>1. 0 \in Batch
    BY EnableOK DEF Batch, Kind
  <2>2. QED
    BY <2>1 DEF IInv, TypeOK, ThreadPc, Settled, CallPc
<1>2. QED
  BY <1>1 DEF IInv, Lead, Holding, Held, Fresh, Quiet, RunningOwned, Working

LEMMA ProcessInv ==
    ASSUME IInv, Process
    PROVE  IInv'
<1>1. CASE Shutdown
  <2> USE <1>1 DEF Shutdown, dbVars, threadVars, callVars
  <2>1. TypeOK'
    BY SpendTyped DEF IInv, TypeOK, Kind
  <2>2. QED
    BY <2>1 DEF IInv, Lead, Holding, Held, Fresh, Quiet, RunningOwned
<1>2. CASE Crash
  BY <1>2, GoneInv, SpendTyped DEF Crash, Kind, IInv
<1>3. CASE Terminate
  BY <1>3, GoneInv DEF Terminate, IInv, TypeOK
<1>4. CASE Resume
  <2> USE <1>4 DEF Resume, Resumed, callVars
  <2>1. TypeOK /\ Lead
    BY DEF IInv
  <2>2. (EnsureWorker \/ UNCHANGED <<cancelSet, worker, pc, event>>)
    OBVIOUS
  <2>3. /\ cancelSet' \in BOOLEAN
        /\ worker' \in Thread \cup {None}
        /\ pc' \in [Thread -> ThreadPc]
        /\ event' \in [Thread -> {"live", "replaced"}]
        /\ Lead'
        /\ \A t \in Thread : pc'[t] = pc[t] \/ (pc[t] = "off" /\ pc'[t] = "top")
    BY <2>1, <2>2, EnsureStarts DEF TypeOK, Lead
  <2>4. state' \in [Item -> JobState] /\ \A i \in Item : state'[i] # "running"
    BY <2>1 DEF TypeOK, JobState
  <2>5. scanJob' \in [Batch -> {"none", "running", "completed", "failed", "interrupted"}]
    BY <2>1 DEF TypeOK
  <2>6. TypeOK'
    BY <2>1, <2>3, <2>4, <2>5 DEF TypeOK
  <2>7. \A t \in Thread : job[t] = None
    BY DEF IInv, Quiet, Holding
  <2>8. Fresh'
    BY DEF IInv, Fresh, TypeOK
  <2>9. Holding' /\ Held' /\ Quiet' /\ RunningOwned'
    BY <2>3, <2>4, <2>7 DEF IInv, Quiet, Holding, Held, RunningOwned
  <2>10. QED
    BY <2>3, <2>6, <2>8, <2>9 DEF IInv
<1>5. QED
  BY <1>1, <1>2, <1>3, <1>4 DEF Process

LEMMA StutterInv ==
    ASSUME IInv, UNCHANGED vars
    PROVE  IInv'
<1> USE DEF vars, dbVars, poolVars, threadVars, callVars
<1>1. TypeOK'
  BY DEF IInv, TypeOK
<1>2. QED
  BY <1>1 DEF IInv, Lead, Holding, Held, Fresh, Quiet, RunningOwned

LEMMA NextInv == IInv /\ [Next]_vars => IInv'
<1> SUFFICES ASSUME IInv, [Next]_vars PROVE IInv'
  OBVIOUS
<1>1. ASSUME NEW t \in Thread, ThreadStep(t) PROVE IInv'
  BY <1>1, ClaimInv, FinishInv, ThreadMoveInv, ThreadEndInv DEF ThreadStep
<1>2. ASSUME NEW c \in Caller, CallBegin(c) PROVE IInv'
  BY <1>2, FetchInv, CancelInv DEF CallBegin
<1>3. ASSUME NEW c \in Caller, CallEnd(c) PROVE IInv'
  BY <1>3, FetchEnqueueInv, FetchWakeInv, CancelSweepInv DEF CallEnd
<1>4. QED
  BY <1>1, <1>2, <1>3, ProcessInv, StutterInv DEF Next

LEMMA Invariance == Spec => []IInv
BY InitInv, NextInv, PTL DEF Spec

-----------------------------------------------------------------------------
\* The variables keep their types.
THEOREM EnableTypes == Spec => []TypeOK
BY Invariance, PTL DEF IInv

\* At most one thread is in the worker loop, so a .part file has one writer
\* whatever requests, cancels and restarts interleave.
THEOREM OneWorker == Spec => []SoleWorker
<1>1. IInv => SoleWorker
  BY DEF IInv, Lead, SoleWorker
<1>2. QED
  BY <1>1, Invariance, PTL

\* No item claims to be running without a thread that works on it.
THEOREM RunningItemsAreOwned == Spec => []RunningOwned
BY Invariance, PTL DEF IInv

\* The result of a fetch is never rewritten and the fetch never repeated.
THEOREM ResultsAreFinal == Spec => ResultIsFinal
<1> DEFINE Kept == \A i \in Item :
                      state[i] \in Settled \ {"cancelled"} => state'[i] = state[i]
<1>1. IInv /\ [Next]_vars => Kept
  <2> SUFFICES ASSUME IInv, [Next]_vars PROVE Kept
    OBVIOUS
  <2>1. ASSUME NEW t \in Thread, ThreadStep(t) PROVE Kept
    <3>1. CASE Finish(t)
      BY <3>1, FinishInv DEF Finish, IInv, TypeOK, Settled
    <3>2. CASE \E i \in Item : Claim(t, i)
      BY <3>2 DEF Claim, Claimable, IInv, TypeOK, Settled
    <3>3. QED
      BY <2>1, <3>1, <3>2 DEF ThreadStep, LoopHead, ClaimNothing, Begin, Run,
         CloseScanJob, Clear, End, dbVars
  <2>2. ASSUME NEW c \in Caller, CallBegin(c) \/ CallEnd(c) PROVE Kept
    <3>1. CASE FetchEnqueue(c)
      BY <3>1 DEF FetchEnqueue, IInv, Fresh, TypeOK, Settled
    <3>2. CASE CancelSweep(c)
      BY <3>2 DEF CancelSweep, Cancellable, IInv, TypeOK, Settled
    <3>3. QED
      BY <2>2, <3>1, <3>2 DEF CallBegin, CallEnd, Fetch, FetchWake, Cancel, dbVars
  <2>3. CASE Process
    BY <2>3 DEF Process, Shutdown, Crash, Terminate, Gone, Resume, Resumed, dbVars,
       IInv, TypeOK, Settled
  <2>4. CASE UNCHANGED vars
    BY <2>4 DEF vars, dbVars
  <2>5. QED
    BY <2>1, <2>2, <2>3, <2>4 DEF Next
<1>2. QED
  BY <1>1, Invariance, PTL DEF Spec, ResultIsFinal

\* One thread at most works and every running item is its own, for any items, threads
\* and requests.
THEOREM WorkersStaySound == Spec => []WorkersSound
BY EnableTypes, OneWorker, RunningItemsAreOwned, PTL DEF WorkersSound
-----------------------------------------------------------------------------
(* What a batch reports.  While the process has not been stopped once, a   *)
(* thread that holds an item has its batch among those it will close, a    *)
(* completed batch is registered (so that the close corrects it), and an   *)
(* error row belongs to a failed item or to one about to be recorded so.   *)

HeldTouched == \A t \in Thread : job[t] # None => batch_id[job[t]] \in touched[t]

Bad == {"failed", "quarantined"}

ErrorsPlaced ==
    \A i \in scanErrors :
        \/ state[i] \in Bad
        \/ \E t \in Thread : job[t] = i /\ pc[t] = "finish" /\ result[t] \in Bad

FailuresCovered ==
    \A i \in Item :
        state[i] \in Bad /\ scanJob[batch_id[i]] = "completed"
            => \E t \in Thread : batch_id[i] \in touched[t]

CompletedKnown == \A b \in Batch : scanJob[b] = "completed" => b \in registered

Reporting ==
    Untouched("stop") =>
        phase = "up" /\ CompletedKnown /\ FailuresCovered /\ ErrorsPlaced

RInv == IInv /\ HeldTouched /\ Reporting

LEMMA InitReports == Init => RInv
<1> SUFFICES ASSUME Init PROVE RInv
  OBVIOUS
<1>1. IInv
  BY InitInv
<1>2. HeldTouched
  BY DEF Init, HeldTouched
<1>3. Reporting
  BY <1>1 DEF Init, Reporting, CompletedKnown, FailuresCovered, ErrorsPlaced, Bad, IInv, TypeOK
<1>4. QED
  BY <1>1, <1>2, <1>3 DEF RInv

\* After a stop was spent, nothing is promised.
LEMMA StopSpent ==
    ASSUME TypeOK, Spend("stop")
    PROVE  ~(Untouched("stop"))'
BY EnableOK DEF TypeOK, Spend, Untouched, Kind

LEMMA OtherSpent ==
    ASSUME TypeOK, NEW k \in Kind, k # "stop", Spend(k)
    PROVE  Untouched("stop")' <=> Untouched("stop")
BY DEF TypeOK, Spend, Untouched, Kind

LEMMA CallReports ==
    ASSUME RInv, IInv', NEW c \in Caller, CallBegin(c) \/ CallEnd(c)
    PROVE  RInv'
<1> USE DEF dbVars, poolVars, threadVars
<1>1. CASE \E items \in SUBSET Item \ {{}} : Fetch(c, items)
  <2> USE DEF Fetch
  <2>1. HeldTouched'
    BY <1>1 DEF RInv, HeldTouched
  <2>2. /\ left["fetch"] \in Batch
        /\ Untouched("stop")' <=> Untouched("stop")
    BY <1>1, EnableOK, OtherSpent DEF RInv, IInv, TypeOK, Kind, Batch, Spend
  <2>3. \A b \in Batch : scanJob'[b] = "completed" => scanJob[b] = "completed"
    BY <1>1, <2>2 DEF RInv, IInv, TypeOK
  <2>4. Reporting'
    BY <1>1, <2>2, <2>3 DEF RInv, IInv, TypeOK, Reporting, CompletedKnown, FailuresCovered, ErrorsPlaced
  <2>5. QED
    BY <2>1, <2>4 DEF RInv
<1>2. CASE \E b \in Batch : Cancel(c, b)
  <2> USE DEF Cancel
  <2>1. Untouched("stop")' <=> Untouched("stop")
    BY <1>2, OtherSpent DEF RInv, IInv, Kind
  <2>2. QED
    BY <1>2, <2>1 DEF RInv, HeldTouched, Reporting, CompletedKnown, FailuresCovered, ErrorsPlaced
<1>3. CASE FetchEnqueue(c)
  <2> USE <1>3 DEF FetchEnqueue
  <2>1. \A i \in callItems[c] : state[i] = "absent" /\ i \in Item
    BY DEF RInv, IInv, Fresh, TypeOK
  <2>2. \A t \in Thread : job[t] # None => job[t] \in Item /\ job[t] \notin callItems[c]
    BY <2>1 DEF RInv, IInv, Held, TypeOK
  <2>3. HeldTouched'
    BY <2>2 DEF RInv, HeldTouched
  <2>4. \A i \in scanErrors : i \in Item \ callItems[c] \/ ~Reporting \/ ~Untouched("stop")
    BY <2>1, <2>2, EnableOK DEF RInv, IInv, TypeOK, Reporting, ErrorsPlaced, Bad
  <2>5. \A i \in Item : state'[i] \in Bad => state'[i] = state[i] /\ batch_id'[i] = batch_id[i]
    BY DEF Bad
  <2>6. Untouched("stop") => ErrorsPlaced'
    BY <2>4 DEF RInv, Reporting, ErrorsPlaced, IInv, TypeOK
  <2>7. Reporting'
    BY <2>5, <2>6 DEF RInv, Reporting, CompletedKnown, FailuresCovered, Untouched
  <2>8. QED
    BY <2>3, <2>7 DEF RInv
<1>4. CASE FetchWake(c)
  <2> USE <1>4 DEF FetchWake
  <2>1. \A t \in Thread : pc'[t] = pc[t] \/ (pc[t] = "off" /\ pc'[t] = "top")
    BY EnsureStarts DEF RInv, IInv
  <2>2. QED
    BY <2>1 DEF RInv, HeldTouched, Reporting, CompletedKnown, FailuresCovered, ErrorsPlaced, Untouched
<1>5. CASE CancelSweep(c)
  <2> USE <1>5 DEF CancelSweep, Cancellable
  <2>1. \A i \in Item : (state'[i] \in Bad) <=> (state[i] \in Bad)
    BY DEF Bad, RInv, IInv, TypeOK
  <2>2. QED
    BY <2>1 DEF RInv, IInv, TypeOK, HeldTouched, Reporting, CompletedKnown, FailuresCovered, ErrorsPlaced, Untouched
<1>6. QED
  BY <1>1, <1>2, <1>3, <1>4, <1>5 DEF CallBegin, CallEnd

LEMMA ClaimReports ==
    ASSUME RInv, IInv', NEW t \in Thread, NEW i \in Item, Claim(t, i)
    PROVE  RInv'
<1> USE DEF Claim, Claimable, poolVars, callVars
<1>1. job[t] = None /\ i # None
  BY EnableOK DEF RInv, IInv, Holding
<1>2. HeldTouched'
  BY <1>1 DEF RInv, HeldTouched, IInv, TypeOK
<1>3. FailuresCovered => FailuresCovered'
  BY DEF RInv, IInv, TypeOK, FailuresCovered, Bad
<1>4. ErrorsPlaced => ErrorsPlaced'
  <2> SUFFICES ASSUME ErrorsPlaced, NEW e \in scanErrors
               PROVE  \/ state'[e] \in Bad
                      \/ \E u \in Thread : job'[u] = e /\ pc'[u] = "finish" /\ result'[u] \in Bad
    BY DEF ErrorsPlaced
  <2>1. CASE state[e] \in Bad
    BY <2>1 DEF RInv, IInv, TypeOK, Bad
  <2>2. CASE \E u \in Thread : job[u] = e /\ pc[u] = "finish" /\ result[u] \in Bad
    <3>1. PICK u \in Thread : job[u] = e /\ pc[u] = "finish" /\ result[u] \in Bad
      BY <2>2
    <3>2. u # t
      BY <3>1
    <3>3. QED
      BY <3>1, <3>2 DEF RInv, IInv, TypeOK
  <2>3. QED
    BY <2>1, <2>2 DEF ErrorsPlaced
<1>5. QED
  BY <1>2, <1>3, <1>4 DEF RInv, Reporting, CompletedKnown, Untouched

LEMMA BeginReports ==
    ASSUME RInv, IInv', NEW t \in Thread, LoopHead(t) \/ ClaimNothing(t) \/ Begin(t)
    PROVE  RInv'
<1> USE DEF LoopHead, ClaimNothing, Begin, dbVars, poolVars, callVars
<1>1. ErrorsPlaced => ErrorsPlaced'
  <2>1. pc[t] # "finish" /\ \A u \in Thread \ {t} : pc'[u] = pc[u] /\ result'[u] = result[u]
    BY DEF RInv, IInv, TypeOK
  <2>2. QED
    BY <2>1 DEF ErrorsPlaced
<1>2. QED
  BY <1>1 DEF RInv, HeldTouched, Reporting, CompletedKnown, FailuresCovered, Untouched

LEMMA RunReports ==
    ASSUME RInv, IInv', NEW t \in Thread, NEW out \in Settled, Run(t, out)
    PROVE  RInv'
<1> USE DEF Run, poolVars, callVars
<1>1. pc'[t] = "finish" /\ result'[t] = out
  BY DEF RInv, IInv, TypeOK
<1>2. \A u \in Thread \ {t} : pc'[u] = pc[u] /\ result'[u] = result[u]
  BY DEF RInv, IInv, TypeOK
<1>3. ErrorsPlaced => ErrorsPlaced'
  <2>1. ErrorsPlaced => \A e \in scanErrors :
           \/ state[e] \in Bad
           \/ \E u \in Thread \ {t} : job[u] = e /\ pc[u] = "finish" /\ result[u] \in Bad
    BY DEF ErrorsPlaced
  <2>2. \A e \in scanErrors' : e \in scanErrors \/ (e = job[t] /\ out \in Bad)
    BY DEF Bad
  <2>3. QED
    BY <1>1, <1>2, <2>1, <2>2 DEF ErrorsPlaced
<1>4. QED
  BY <1>3 DEF RInv, HeldTouched, Reporting, CompletedKnown, FailuresCovered, Untouched

LEMMA FinishReports ==
    ASSUME RInv, IInv', NEW t \in Thread, Finish(t)
    PROVE  RInv'
<1> USE DEF Finish, Finished, poolVars, callVars
<1>1. job[t] \in Item /\ job[t] # None /\ batch_id[job[t]] \in touched[t]
  BY EnableOK, FinishInv DEF RInv, HeldTouched
<1>2. /\ state'[job[t]] = result[t]
      /\ \A i \in Item \ {job[t]} : state'[i] = state[i]
  BY <1>1 DEF RInv, IInv, TypeOK
<1>3. HeldTouched'
  BY DEF RInv, HeldTouched, IInv, TypeOK
<1>4. FailuresCovered => FailuresCovered'
  BY <1>1, <1>2 DEF FailuresCovered
<1>5. ErrorsPlaced => ErrorsPlaced'
  <2> SUFFICES ASSUME ErrorsPlaced, NEW e \in scanErrors
               PROVE  state'[e] \in Bad
    BY DEF ErrorsPlaced
  <2>1. e \in Item
    BY DEF RInv, IInv, TypeOK
  <2>2. CASE e = job[t]
    <3>1. state[e] \notin Bad
      BY <2>2, FinishInv DEF RInv, Bad
    <3>2. PICK u \in Thread : job[u] = e /\ pc[u] = "finish" /\ result[u] \in Bad
      BY <3>1 DEF ErrorsPlaced
    <3>3. u = t
      BY <3>2 DEF RInv, IInv, Lead, Working
    <3>4. QED
      BY <1>2, <2>2, <3>2, <3>3
  <2>3. CASE e # job[t]
    <3>1. CASE state[e] \in Bad
      BY <1>2, <2>1, <2>3, <3>1
    <3>2. ASSUME NEW u \in Thread, job[u] = e, pc[u] = "finish"
          PROVE  FALSE
      BY <2>3, <3>2 DEF RInv, IInv, Lead, Working
    <3>3. QED
      BY <3>1, <3>2 DEF ErrorsPlaced
  <2>4. QED
    BY <2>2, <2>3
<1>6. QED
  BY <1>3, <1>4, <1>5 DEF RInv, Reporting, CompletedKnown, Untouched

LEMMA CloseReports ==
    ASSUME RInv, IInv', NEW t \in Thread, NEW b \in Batch, CloseScanJob(t, b)
    PROVE  RInv'
<1> USE DEF CloseScanJob, poolVars, callVars
<1>1. /\ touched'[t] = touched[t] \ {b}
      /\ \A u \in Thread \ {t} : touched'[u] = touched[u]
      /\ \A d \in Batch \ {b} : scanJob'[d] = scanJob[d]
  BY DEF RInv, IInv, TypeOK
<1>2. HeldTouched'
  <2>1. job[t] = None
    BY DEF RInv, IInv, Holding
  <2>2. QED
    BY <1>1, <2>1 DEF RInv, HeldTouched
<1>3. CompletedKnown => CompletedKnown'
  BY <1>1 DEF CompletedKnown
<1>4. CompletedKnown /\ FailuresCovered => FailuresCovered'
  <2> SUFFICES ASSUME CompletedKnown, FailuresCovered, NEW i \in Item,
                      state[i] \in Bad, scanJob'[batch_id[i]] = "completed"
               PROVE  \E u \in Thread : batch_id[i] \in touched'[u]
    BY DEF FailuresCovered
  <2>1. batch_id[i] \in Batch /\ batch_id[i] # b
    <3>1. batch_id[i] \in Batch
      BY DEF RInv, IInv, TypeOK
    <3>2. CASE batch_id[i] = b
      <4>1. b \in registered
        BY <3>2 DEF CompletedKnown
      <4>2. scanJob'[b] = "failed"
        BY <3>1, <3>2, <4>1 DEF RInv, IInv, TypeOK, Counted, Bad
      <4>3. QED
        BY <3>2, <4>2
    <3>3. QED
      BY <3>1, <3>2
  <2>2. scanJob[batch_id[i]] = "completed"
    BY <1>1, <2>1
  <2>3. PICK u \in Thread : batch_id[i] \in touched[u]
    BY <2>2 DEF FailuresCovered
  <2>4. QED
    BY <1>1, <2>1, <2>3
<1>5. ErrorsPlaced => ErrorsPlaced'
  BY DEF ErrorsPlaced
<1>6. QED
  BY <1>2, <1>3, <1>4, <1>5 DEF RInv, Reporting, Untouched

LEMMA EndReports ==
    ASSUME RInv, IInv', NEW t \in Thread, Clear(t) \/ End(t)
    PROVE  RInv'
<1> USE DEF Clear, End, dbVars, poolVars, callVars
<1>1. ErrorsPlaced => ErrorsPlaced'
  BY DEF RInv, IInv, TypeOK, ErrorsPlaced
<1>2. QED
  BY <1>1 DEF RInv, HeldTouched, Reporting, CompletedKnown, FailuresCovered, Untouched

LEMMA ProcessReports ==
    ASSUME RInv, IInv', Process
    PROVE  RInv'
<1>1. CASE Shutdown
  BY <1>1, StopSpent DEF Shutdown, RInv, IInv, HeldTouched, Reporting, dbVars, threadVars
<1>2. CASE Crash
  BY <1>2, StopSpent DEF Crash, Gone, RInv, IInv, HeldTouched, Reporting
<1>3. CASE Terminate
  BY <1>3 DEF Terminate, Gone, RInv, HeldTouched, Reporting, Untouched
<1>4. CASE Resume
  <2>1. ~Untouched("stop")'
    BY <1>4 DEF Resume, RInv, Reporting, Untouched
  <2>2. QED
    BY <1>4, <2>1 DEF Resume, RInv, HeldTouched, Reporting
<1>5. QED
  BY <1>1, <1>2, <1>3, <1>4 DEF Process

LEMMA NextReports == RInv /\ [Next]_vars => RInv'
<1> SUFFICES ASSUME RInv, [Next]_vars PROVE RInv'
  OBVIOUS
<1>1. IInv'
  BY NextInv DEF RInv
<1>2. ASSUME NEW t \in Thread, ThreadStep(t) PROVE RInv'
  BY <1>1, <1>2, ClaimReports, BeginReports, RunReports, FinishReports, CloseReports,
     EndReports DEF ThreadStep
<1>3. ASSUME NEW c \in Caller, CallBegin(c) \/ CallEnd(c) PROVE RInv'
  BY <1>1, <1>3, CallReports
<1>4. CASE UNCHANGED vars
  BY <1>1, <1>4 DEF vars, dbVars, poolVars, threadVars, callVars, RInv, HeldTouched, Reporting,
     CompletedKnown, FailuresCovered, ErrorsPlaced, Untouched
<1>5. QED
  BY <1>1, <1>2, <1>3, <1>4, ProcessReports DEF Next

\* Until the process is stopped for the first time, no failure stays closed as a success
\* and every error row belongs to an item that failed, for any batches, cancels and
\* threads (_finish, _close_scan_job, _record_error).
THEOREM BatchesReport == Spec => []BatchReported
<1>1. RInv => BatchReported
  BY DEF RInv, Reporting, FailuresCovered, ErrorsPlaced, Bad, BatchReported, FailuresAreReported,
     ErrorsMatchResults
<1>2. QED
  BY <1>1, InitReports, NextReports, PTL DEF Spec
=============================================================================
