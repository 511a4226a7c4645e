------------------------------- MODULE Store -------------------------------
(***************************************************************************)
(* The database access of core/db.py between core.startup() and            *)
(* core.shutdown(): the one writer thread and its queue, the callers that  *)
(* wait for it, the readers that pin the write-ahead log, the checkpoint   *)
(* that truncates it, and the order in which shutdown closes them.         *)
(*                                                                         *)
(* Abstractions.  A unit of work is one transaction, known by its caller   *)
(* and number; its statements and its commit are two steps.  The log file  *)
(* holds something or nothing.  Main is the thread of the application; the *)
(* other clients are request threads and the services' workers, which      *)
(* shutdown tells to stop without waiting for all of them.                 *)
(***************************************************************************)
EXTENDS Naturals, Sequences, FiniteSets

CONSTANTS
    Client, Main,
    Asks,           \* what a client hands in: writes, or a scan's checkpoint
    MaxUnit,        \* bound of the units of each client
    MaxWriter,      \* bound of the writers made in one process
    Budget          \* how often each kind of fault or outside event may happen

ASSUME StoreOK ==
    /\ Main \in Client
    /\ MaxUnit \in [Client -> Nat]
    /\ MaxWriter \in Nat

Kind == {"any", "fail", "timeout", "slow", "crash", "read"}
Units == UNION {{c} \X (1..MaxUnit[c]) : c \in Client}
Sentinel == [unit |-> <<>>, kind |-> "stop"]

VARIABLES
    phase,          \* of the process
    current,        \* the global _writer, 0 for None
    made,           \* how many writers this process has made
    w,              \* the writers: queue, stop event, thread, open transaction
    log,            \* the units that took effect, in that order
    future,         \* what each unit's future holds
    asked,          \* units each client has handed in
    call,           \* where each client is in writer().run()
    told,           \* what its last call returned
    reader,         \* each thread's read connection
    orphan,         \* a thread ended in the middle of a read
    wal,            \* the write-ahead log holds frames
    overrun,        \* a stop() gave up on its thread
    quiet,          \* nobody used the database since shutdown closed the readers
    left

vars == <<phase, current, made, w, log, future, asked, call, told, reader, orphan, wal,
          overrun, quiet, left>>
readVars == <<reader, orphan>>
lifeVars == <<phase, current, made, overrun>>

Writer == 1..MaxWriter
Idle == [pc |-> "idle"]
NewWriter == [q |-> <<>>, stop |-> FALSE, pc |-> "idle", item |-> Sentinel, txn |-> <<>>]
Last(c) == <<c, asked[c]>>
Spend(k) == left[k] > 0 /\ left["any"] > 0 /\ left' = [left EXCEPT ![k] = @ - 1, !["any"] = @ - 1]

Init ==
    /\ phase = "migrating" /\ current = 0 /\ made = 0
    /\ w = [g \in Writer |-> NewWriter]
    /\ call = [c \in Client |-> Idle] /\ told = [c \in Client |-> "none"]
    /\ reader = [c \in Client |-> "none"] /\ orphan = FALSE
    /\ overrun = FALSE /\ quiet = FALSE
    /\ log = <<>> /\ wal = FALSE
    /\ future = [u \in Units |-> "open"]
    /\ asked = [c \in Client |-> 0]
    /\ left = Budget

-----------------------------------------------------------------------------
(* writer().run(fn): the writer is looked up, or made, under the lock that *)
(* shutdown_writer holds while it joins; then the unit is put; then the    *)
(* caller waits for the future.                                            *)

\* Migrations run first and alone; checkpoints are asked for by shutdown and by scans.
Allowed(c, kind) ==
    \/ c = Main /\ phase = "migrating" /\ kind = "write"
    \/ c = Main /\ phase = "truncating" /\ kind = "checkpoint"
    \/ c # Main /\ kind \in Asks[c] /\ phase \notin {"migrating", "refused", "telling", "closing"}

Hand(c, kind) ==
    /\ call[c] = Idle /\ asked[c] < MaxUnit[c]
    /\ Allowed(c, kind)
    /\ IF current = 0
       THEN /\ made < MaxWriter
            /\ made' = made + 1 /\ current' = made'
       ELSE UNCHANGED <<current, made>>
    /\ asked' = [asked EXCEPT ![c] = @ + 1]
    /\ call' = [call EXCEPT ![c] = [pc |-> "holding", of |-> current', kind |-> kind]]
    /\ told' = [told EXCEPT ![c] = "pending"]
    /\ phase' = IF phase = "truncating" /\ c = Main THEN "checkpointing" ELSE phase
    \* checkpoint() first ends the caller's own read.
    /\ reader' = [reader EXCEPT ![c] = IF kind = "checkpoint" THEN "none" ELSE @]
    /\ quiet' = (quiet /\ c = Main)
    /\ UNCHANGED <<w, log, future, orphan, wal, overrun, left>>

Put(c) ==
    /\ call[c].pc = "holding"
    /\ w' = [w EXCEPT ![call[c].of].q = Append(@, [unit |-> Last(c), kind |-> call[c].kind])]
    /\ call' = [call EXCEPT ![c].pc = "waiting"]
    /\ UNCHANGED <<lifeVars, log, future, asked, told, readVars, wal, quiet, left>>

\* The answer; startup goes on only if the migrations succeeded.
Receive(c) ==
    /\ call[c].pc = "waiting" /\ future[Last(c)] # "open"
    /\ told' = [told EXCEPT ![c] = future[Last(c)]]
    /\ call' = [call EXCEPT ![c] = Idle]
    /\ phase' = IF phase # "migrating" THEN phase
                ELSE IF told'[c] = "ok" THEN "up" ELSE "refused"
    /\ UNCHANGED <<current, made, w, log, future, asked, readVars, wal, overrun, quiet, left>>

\* TimeoutError: the unit stays where it is.
GiveUp(c) ==
    /\ call[c].pc = "waiting" /\ future[Last(c)] = "open"
    /\ Spend("timeout")
    /\ told' = [told EXCEPT ![c] = "unknown"]
    /\ call' = [call EXCEPT ![c] = Idle]
    /\ phase' = IF phase = "migrating" THEN "refused" ELSE phase
    /\ UNCHANGED <<current, made, w, log, future, asked, readVars, wal, overrun, quiet>>

-----------------------------------------------------------------------------
(* The writer thread.                                                      *)

TakeNewest(g) ==                                      \* mutant of Take
    /\ w[g].pc = "idle" /\ w[g].q # <<>>
    /\ LET item == w[g].q[Len(w[g].q)]
       IN  w' = [w EXCEPT ![g].q = SubSeq(@, 1, Len(@) - 1), ![g].item = item,
                          ![g].pc = IF item = Sentinel THEN "gone" ELSE "busy"]
    /\ UNCHANGED <<lifeVars, log, future, asked, call, told, readVars, wal, quiet, left>>
Take(g) ==
    /\ w[g].pc = "idle" /\ w[g].q # <<>>
    /\ LET item == Head(w[g].q)
       IN  w' = [w EXCEPT ![g].q = Tail(@), ![g].item = item,
                          ![g].pc = IF item = Sentinel THEN "gone" ELSE "busy"]
    /\ UNCHANGED <<lifeVars, log, future, asked, call, told, readVars, wal, quiet, left>>

\* The queue stayed empty for half a second and the stop event is set.
LeaveWhenStopped(g) ==                                \* mutant of LeaveWhenEmpty
    /\ w[g].pc = "idle" /\ w[g].stop
    /\ w' = [w EXCEPT ![g].pc = "gone"]
    /\ UNCHANGED <<lifeVars, log, future, asked, call, told, readVars, wal, quiet, left>>
LeaveWhenEmpty(g) ==
    /\ w[g].pc = "idle" /\ w[g].q = <<>> /\ w[g].stop
    /\ w' = [w EXCEPT ![g].pc = "gone"]
    /\ UNCHANGED <<lifeVars, log, future, asked, call, told, readVars, wal, quiet, left>>

Execute(g) ==
    /\ w[g].pc = "busy" /\ w[g].item.kind = "write"
    /\ w' = [w EXCEPT ![g].txn = Append(@, w[g].item.unit), ![g].pc = "wrote"]
    /\ UNCHANGED <<lifeVars, log, future, asked, call, told, readVars, wal, quiet, left>>

Commit(g) ==
    /\ w[g].pc = "wrote"
    /\ log' = log \o w[g].txn /\ wal' = TRUE
    /\ w' = [w EXCEPT ![g].txn = <<>>, ![g].pc = "ok"]
    /\ UNCHANGED <<lifeVars, future, asked, call, told, readVars, quiet, left>>

\* wal_checkpoint(TRUNCATE): the readers of ended threads are closed first, unless
\* shutdown asks; frames that a read still needs stay.
Checkpoint(g) ==
    /\ w[g].pc = "busy" /\ w[g].item.kind = "checkpoint"
    /\ orphan' = (orphan /\ w[g].item.unit[1] = Main)
    /\ wal' = (wal /\ (orphan' \/ \E c \in Client : reader[c] = "reading"))
    /\ w' = [w EXCEPT ![g].pc = "ok"]
    /\ log' = Append(log, w[g].item.unit)
    /\ UNCHANGED <<lifeVars, future, asked, call, told, reader, quiet, left>>

\* Whatever the unit raises is rolled back, and reported.
RolledBackNot(txn) == txn                             \* mutant of RolledBack
RolledBack(txn) == <<>>
Fail(g) ==
    /\ w[g].pc \in {"busy", "wrote"}
    /\ Spend("fail")
    /\ w' = [w EXCEPT ![g].txn = RolledBack(@), ![g].pc = "error"]
    /\ quiet' = FALSE
    /\ UNCHANGED <<lifeVars, log, future, asked, call, told, readVars, wal>>

SetFuture(g) ==
    /\ w[g].pc \in {"ok", "error"}
    /\ future' = [future EXCEPT ![w[g].item.unit] = w[g].pc]
    /\ w' = [w EXCEPT ![g].pc = "idle"]
    /\ UNCHANGED <<lifeVars, log, asked, call, told, readVars, wal, quiet, left>>

-----------------------------------------------------------------------------
(* Readers: a connection per thread, registered until it is closed.  A     *)
(* statement that is stepped and not yet reset keeps its snapshot.         *)

BeginRead(c) ==
    /\ phase \notin {"migrating", "refused"}
    /\ reader[c] \in {"none", "idle"} /\ call[c] = Idle
    /\ Spend("read")
    /\ reader' = [reader EXCEPT ![c] = "reading"]
    /\ quiet' = FALSE
    /\ UNCHANGED <<lifeVars, w, log, future, asked, call, told, orphan, wal>>

EndRead(c) ==
    /\ reader[c] = "reading"
    /\ reader' = [reader EXCEPT ![c] = "idle"]
    /\ UNCHANGED <<lifeVars, w, log, future, asked, call, told, orphan, wal, quiet, left>>

ThreadEnds(c) ==
    /\ c # Main /\ reader[c] = "reading"
    /\ reader' = [reader EXCEPT ![c] = "none"]
    /\ orphan' = TRUE
    /\ UNCHANGED <<lifeVars, w, log, future, asked, call, told, wal, quiet, left>>

-----------------------------------------------------------------------------
(* shutdown(): the services, then _close_db.                               *)

StopServices ==
    /\ phase = "up"
    /\ phase' = "stopping"
    /\ UNCHANGED <<current, made, w, log, future, asked, call, told, readVars, wal, overrun, quiet, left>>

\* close_all_connections: other threads keep a reference to a closed connection.
CloseReadersNot == reader' = reader /\ orphan' = orphan     \* mutant of CloseAll
CloseAll ==
    /\ reader' = [c \in Client |-> IF reader[c] = "none" \/ c = Main THEN "none" ELSE "closed"]
    /\ orphan' = FALSE

CloseReaders ==
    /\ phase = "stopping"
    /\ CloseAll
    /\ quiet' = \A c \in Client : call[c] = Idle
    /\ phase' = "truncating"
    /\ UNCHANGED <<current, made, w, log, future, asked, call, told, wal, overrun, left>>

\* shutdown_writer: stop() sets the event, puts the sentinel and joins; the writer may
\* leave between the two.
StopWriter ==
    /\ phase = "checkpointing" /\ call[Main] = Idle
    /\ phase' = "telling"
    /\ w' = [w EXCEPT ![current].stop = TRUE]
    /\ UNCHANGED <<current, made, log, future, asked, call, told, readVars, wal, overrun, quiet, left>>

PutSentinel ==
    /\ phase = "telling"
    /\ phase' = "closing"
    /\ w' = [w EXCEPT ![current].q = Append(@, Sentinel)]
    /\ UNCHANGED <<current, made, log, future, asked, call, told, readVars, wal, overrun, quiet, left>>

Joined ==
    /\ phase = "closing" /\ w[current].pc = "gone"
    /\ phase' = "closed" /\ current' = 0
    /\ CloseAll
    /\ UNCHANGED <<made, w, log, future, asked, call, told, wal, overrun, quiet, left>>

JoinTimesOut ==
    /\ phase = "closing" /\ w[current].pc # "gone"
    /\ Spend("slow")
    /\ phase' = "closed" /\ current' = 0
    /\ CloseAll
    /\ overrun' = TRUE /\ quiet' = FALSE
    /\ UNCHANGED <<made, w, log, future, asked, call, told, wal>>

\* The process is gone (its threads are daemons), by itself or killed, and may be
\* started again: what is committed is all there is.
Restart ==
    /\ \/ phase \in {"closed", "refused"} /\ UNCHANGED left
       \/ phase \notin {"closed", "refused"} /\ Spend("crash")
    /\ phase' = "migrating" /\ current' = 0 /\ made' = 0
    /\ w' = [g \in Writer |-> NewWriter]
    /\ call' = [c \in Client |-> Idle] /\ told' = [c \in Client |-> "none"]
    /\ reader' = [c \in Client |-> "none"] /\ orphan' = FALSE
    /\ future' = [u \in Units |-> "open"] /\ quiet' = FALSE
    /\ UNCHANGED <<log, asked, wal, overrun>>

Run(g) == Take(g) \/ LeaveWhenEmpty(g) \/ Execute(g) \/ Commit(g) \/ Checkpoint(g) \/ SetFuture(g)

Next ==
    \/ \E c \in Client :
        \/ \E kind \in {"write", "checkpoint"} : Hand(c, kind)
        \/ Put(c) \/ Receive(c) \/ GiveUp(c)
        \/ BeginRead(c) \/ EndRead(c) \/ ThreadEnds(c)
    \/ \E g \in Writer : Run(g) \/ Fail(g)
    \/ StopServices \/ CloseReaders \/ StopWriter \/ PutSentinel \/ Joined \/ JoinTimesOut \/ Restart

Spec == Init /\ [][Next]_vars

\* While writer threads have something to do, one of them runs; while answers wait to be
\* received, one is.
FairSpec == Spec /\ WF_vars(\E g \in Writer : Run(g))
                 /\ WF_vars(\E c \in Client : Receive(c))

-----------------------------------------------------------------------------
(* Properties.                                                             *)

\* Futures, calls and queues hold what belongs there.
TypeOK ==
    /\ future \in [Units -> {"open", "ok", "error"}]
    /\ \A c \in Client : asked[c] \in 0..MaxUnit[c]
    /\ told \in [Client -> {"none", "pending", "ok", "error", "unknown"}]
    /\ current \in 0..made /\ made \in 0..MaxWriter
    /\ \A g \in Writer : \A i \in 1..Len(w[g].q) :
        w[g].q[i] = Sentinel \/ w[g].q[i].unit \in Units

\* The units that may still take effect: held by a caller that has not put them yet, in a
\* queue, or executing.  Those behind a sentinel never will.
Carried == {Last(c) : c \in {d \in Client : call[d].pc = "holding"}}
Queued(g) == {w[g].q[i].unit : i \in {j \in 1..Len(w[g].q) : w[g].q[j] # Sentinel}}
Executing == {w[g].item.unit : g \in {h \in Writer : w[h].pc \in {"busy", "wrote"}}}
Open == Carried \cup Executing \cup UNION {Queued(g) : g \in Writer}

\* ARCHITECTURE.md 2.2: the queue, the thread, timeouts, failures, a stop and crashes
\* together behave like the abstract store: whole, once or never, truthfully answered.
Abstract == INSTANCE SerialStore WITH open <- Open, answer <- told

Serial == Abstract!Spec

\* What one client writes takes effect in the order in which it was written, and on one
\* thread at a time, also when calls time out and when a second writer is made after the
\* first was stopped.  A stop() that gives up after its five seconds is the exception:
\* then two threads write.
InOrder ==
    overrun \/
        /\ Cardinality({g \in Writer : w[g].pc \in {"busy", "wrote", "ok", "error"}}) <= 1
        /\ \A i, j \in 1..Len(log) :
            i < j /\ log[i][1] = log[j][1] => log[i][2] < log[j][2]

\* The queue keeps the order of each client on one thread (_run, stop); the variables
\* keep their types.
StoreSound == TypeOK /\ InOrder

\* _close_db: "readers have to go first": when nobody came back to the database after they
\* were closed, the process ends with an empty log, whatever threads died while reading.
CleanExit == phase = "closed" /\ quiet => ~wal

\* What is in the queue before the sentinel is executed and its caller answered (or the
\* process ends first), also when the stop comes while it waits.
BeforeStop(c) ==
    /\ call[c].pc = "waiting"
    /\ w[call[c].of].pc # "gone"
    /\ LET q == w[call[c].of].q
       IN  \E i \in 1..Len(q) : /\ q[i].unit = Last(c)
                                /\ \A j \in 1..(i - 1) : q[j] # Sentinel

Served == \A c \in Client : BeforeStop(c) ~> told[c] # "pending"
=============================================================================
