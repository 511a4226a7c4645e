----------------------------- MODULE StoreProofs ---------------------------
(***************************************************************************)
(* What the database writer guarantees for any clients, units of work and  *)
(* numbers of writer threads.  The inductive invariant:                    *)
(*   - a unit of work is in one place: in the hand of its caller, in one   *)
(*     queue, or with one thread (HeldApart, QueuedApart, TakenApart);     *)
(*   - a unit not yet executed is not in the log, an executed one is, and  *)
(*     a future tells which (NotYet, Done, Answered);                      *)
(*   - unless a stop() gave up on its thread, only the current thread      *)
(*     works, and hand, queue and log keep each client's order (Lone,      *)
(*     Ordered, Later, Sorted);                                            *)
(*   - shutdown: no thread ends early, nobody comes back after it looked,  *)
(*     and the truncating checkpoint is still on its way or was the last   *)
(*     commit (Early, Alone, Handed, Truncates).                           *)
(***************************************************************************)
EXTENDS Store, TLAPS, SequenceTheorems, FiniteSetTheorems

Work == [unit : Units, kind : {"write", "checkpoint"}]
Item == Work \cup {Sentinel}
Phase == {"migrating", "refused", "up", "stopping", "truncating", "checkpointing",
          "telling", "closing", "closed"}
WriterPc == {"idle", "busy", "wrote", "ok", "error", "gone"}
Has == {"busy", "wrote", "ok", "error"}     \* with a unit in hand

Typed ==
    /\ phase \in Phase
    /\ current \in 0..made /\ made \in 0..MaxWriter
    /\ w \in [Writer -> [q : Seq(Item), stop : BOOLEAN, pc : WriterPc, item : Item, txn : Seq(Units)]]
    /\ log \in Seq(Units)
    /\ future \in [Units -> {"open", "ok", "error"}]
    /\ asked \in [Client -> Nat]
    /\ \A c \in Client : asked[c] <= MaxUnit[c]
    /\ call \in [Client -> {Idle} \cup
                 [pc : {"holding", "waiting"}, of : 1..made, kind : {"write", "checkpoint"}]]
    /\ told \in [Client -> {"none", "pending", "ok", "error", "unknown"}]
    /\ reader \in [Client -> {"none", "idle", "reading", "closed"}]
    /\ orphan \in BOOLEAN /\ wal \in BOOLEAN /\ overrun \in BOOLEAN /\ quiet \in BOOLEAN

InHand ==
    /\ \A g \in Writer : w[g].pc \in Has => w[g].item \in Work
    /\ \A g \in Writer : w[g].txn = IF w[g].pc = "wrote" THEN <<w[g].item.unit>> ELSE <<>>
    /\ \A c \in Client : told[c] = "pending" <=> call[c].pc \in {"holding", "waiting"}
    /\ \A c \in Client : call[c].pc # "idle" => asked[c] > 0

Counted(u) == u[2] <= asked[u[1]]
Numbered ==
    /\ \A k \in 1..Len(log) : Counted(log[k])
    /\ \A g \in Writer : w[g].pc \in Has => Counted(w[g].item.unit)
    /\ \A g \in Writer : \A i \in 1..Len(w[g].q) :
        w[g].q[i] \in Work => Counted(w[g].q[i].unit)
    /\ \A u \in Units : future[u] # "open" => Counted(u)

HeldApart ==
    \A c \in Client : call[c].pc = "holding" => \A g \in Writer :
        /\ \A i \in 1..Len(w[g].q) : w[g].q[i].unit # Last(c)
        /\ w[g].pc \in Has => w[g].item.unit # Last(c)
QueuedApart ==
    \A g, h \in Writer : \A i \in 1..Len(w[g].q), j \in 1..Len(w[h].q) :
        w[g].q[i] \in Work /\ w[g].q[i].unit = w[h].q[j].unit => g = h /\ i = j
TakenApart ==
    \A g, h \in Writer : w[g].pc \in Has =>
        /\ \A i \in 1..Len(w[h].q) : w[h].q[i].unit # w[g].item.unit
        /\ w[h].pc \in Has /\ w[h].item.unit = w[g].item.unit => h = g

NotYet ==
    \A k \in 1..Len(log) :
        /\ \A c \in Client : call[c].pc = "holding" => log[k] # Last(c)
        /\ \A g \in Writer : \A i \in 1..Len(w[g].q) : w[g].q[i].unit # log[k]
        /\ \A g \in Writer : w[g].pc \in {"busy", "wrote", "error"} => w[g].item.unit # log[k]
Done ==
    \A g \in Writer : w[g].pc = "ok" => \E k \in 1..Len(log) : log[k] = w[g].item.unit
Answered ==
    \A u \in Units :
        /\ future[u] = "ok" => \E k \in 1..Len(log) : log[k] = u
        /\ future[u] = "error" => \A k \in 1..Len(log) : log[k] # u
        /\ future[u] # "open" =>
            /\ \A c \in Client : call[c].pc = "holding" => Last(c) # u
            /\ \A g \in Writer : /\ w[g].pc \in Has => w[g].item.unit # u
                                 /\ \A i \in 1..Len(w[g].q) : w[g].q[i].unit # u

Bare(g) == w[g].pc = "idle" /\ w[g].q = <<>> /\ ~w[g].stop
Lone ==
    /\ \A g \in Writer : g > made => Bare(g)
    /\ (overrun /\ phase = "closed") \/
        \A g \in Writer : g # current => w[g].pc = "gone" \/ Bare(g)
    /\ \A c \in Client : (call[c].pc = "holding" /\ ~(overrun /\ phase = "closed")) =>
            call[c].of = current \/ w[call[c].of].pc = "gone"
Before(u, v) == u[1] = v[1] => u[2] < v[2]
Ordered ==
    \A g \in Writer : \A j \in 1..Len(w[g].q) : w[g].q[j] \in Work =>
        /\ \A i \in 1..(j - 1) : w[g].q[i] \in Work => Before(w[g].q[i].unit, w[g].q[j].unit)
        /\ w[g].pc \in Has => Before(w[g].item.unit, w[g].q[j].unit)
Later ==
    ~overrun => \A k \in 1..Len(log) : \A g \in Writer :
        /\ w[g].pc \in {"busy", "wrote"} => Before(log[k], w[g].item.unit)
        /\ w[g].pc # "gone" => \A i \in 1..Len(w[g].q) :
            w[g].q[i] \in Work => Before(log[k], w[g].q[i].unit)
Sorted == ~overrun => \A j \in 1..Len(log) : \A i \in 1..(j - 1) : Before(log[i], log[j])

Early == phase \notin {"telling", "closing", "closed"} => \A g \in Writer :
            ~w[g].stop /\ w[g].pc # "gone" /\ \A i \in 1..Len(w[g].q) : w[g].q[i] \in Work
Alone == quiet =>
    /\ phase \in {"truncating", "checkpointing", "telling", "closing", "closed"}
    /\ \A c \in Client \ {Main} : call[c] = Idle
    /\ ~orphan /\ \A c \in Client : reader[c] # "reading"
Ends(q, n) == \A j \in 1..Len(q) : q[j] = Sentinel <=> j > n
Handed == quiet /\ phase = "checkpointing" /\ call[Main].pc = "holding" =>
            call[Main].of = current /\ call[Main].kind = "checkpoint"
InQueue == \E n \in 1..Len(w[current].q) :
            w[current].q[n].kind = "checkpoint" /\ Ends(w[current].q, n) /\ w[current].pc # "gone"
Under == w[current].pc = "busy" /\ w[current].item.kind = "checkpoint" /\ Ends(w[current].q, 0)
Over == w[current].pc \in {"ok", "idle", "gone"} /\ Ends(w[current].q, 0) /\ ~wal
Truncates ==
    /\ quiet /\ phase \in {"checkpointing", "telling", "closing"} =>
        /\ current # 0
        /\ call[Main].pc = "holding" \/ InQueue \/ Under \/ Over
        /\ phase # "checkpointing" => call[Main] = Idle
    /\ quiet /\ phase = "closed" =>
        ~wal /\ call[Main] = Idle /\ \A g \in Writer : w[g].pc = "gone" \/ Bare(g)

Good == /\ Typed /\ InHand /\ Numbered /\ HeldApart /\ QueuedApart /\ TakenApart /\ NotYet /\ Done
        /\ Answered /\ Lone /\ Ordered /\ Later /\ Sorted /\ Early /\ Alone /\ Handed /\ Truncates

LEMMA UnitsArePairs ==
    /\ \A u \in Units : u[1] \in Client /\ u[2] \in Nat /\ u[2] > 0 /\ u = <<u[1], u[2]>>
    /\ <<>> \notin Units
    /\ \A c \in Client : \A n \in 1..MaxUnit[c] : <<c, n>> \in Units
<1>1. \A u \in Units : \E c \in Client : \E n \in 1..MaxUnit[c] : u = <<c, n>>
  BY DEF Units
<1>2. \A c \in Client : MaxUnit[c] \in Nat
  BY StoreOK
<1>3. \A c \in Client : \A n \in 1..MaxUnit[c] : <<c, n>> \in Units
  BY DEF Units
<1>4. \A c, n : <<c, n>> # <<>>
  OBVIOUS
<1>5. QED
  BY <1>1, <1>2, <1>3, <1>4

LEMMA WorkIsUnits ==
    /\ Sentinel \notin Work
    /\ \A x \in Work : x.unit \in Units /\ x.unit # <<>> /\ x.kind \in {"write", "checkpoint"}
    /\ Sentinel.unit = <<>> /\ Sentinel.kind = "stop"
    /\ \A x \in Item : x \in Work \/ x = Sentinel
BY UnitsArePairs DEF Work, Item, Sentinel

LEMMA LastIsUnit ==
    ASSUME Typed, NEW c \in Client, asked[c] > 0
    PROVE  Last(c) \in Units /\ Last(c)[1] = c /\ Last(c)[2] = asked[c]
<1>1. asked[c] \in 1..MaxUnit[c]
  BY StoreOK DEF Typed
<1>2. QED
  BY <1>1, UnitsArePairs DEF Last

LEMMA InitGood == Init => Good
<1> SUFFICES ASSUME Init PROVE Good
  OBVIOUS
<1> USE StoreOK DEF Init
<1>1. Typed
  <2>1. <<>> \in Seq(Item) /\ <<>> \in Seq(Units)
    OBVIOUS
  <2>2. Sentinel \in Item
    BY DEF Item
  <2>3. \A c \in Client : MaxUnit[c] \in Nat
    OBVIOUS
  <2>4. w \in [Writer -> [q : Seq(Item), stop : BOOLEAN, pc : WriterPc, item : Item, txn : Seq(Units)]]
    BY <2>1, <2>2 DEF NewWriter, WriterPc
  <2>5. current \in 0..made /\ made \in 0..MaxWriter
    OBVIOUS
  <2>6. asked \in [Client -> Nat] /\ \A c \in Client : asked[c] <= MaxUnit[c]
    BY <2>3
  <2>7. future \in [Units -> {"open", "ok", "error"}]
    OBVIOUS
  <2>8. call \in [Client -> {Idle} \cup
                 [pc : {"holding", "waiting"}, of : 1..made, kind : {"write", "checkpoint"}]]
    OBVIOUS
  <2>9. QED
    BY <2>1, <2>4, <2>5, <2>6, <2>7, <2>8 DEF Typed, Phase
<1>2. \A g \in Writer : Bare(g) /\ ~w[g].stop /\ w[g].txn = <<>>
  BY DEF Bare, NewWriter
<1>3. \A c \in Client : call[c].pc = "idle" /\ told[c] = "none"
  BY DEF Idle
<1>4. Len(log) = 0 /\ \A g \in Writer : Len(w[g].q) = 0
  BY <1>2 DEF Bare
<1>5. InHand /\ Numbered /\ HeldApart /\ QueuedApart /\ TakenApart /\ NotYet /\ Done
  BY <1>1, <1>2, <1>3, <1>4
     DEF InHand, Numbered, HeldApart, QueuedApart, TakenApart, NotYet, Done, Bare, Has
<1>6. Answered /\ Lone /\ Ordered /\ Later /\ Sorted /\ Early /\ Alone /\ Handed /\ Truncates
  BY <1>1, <1>2, <1>3, <1>4
     DEF Answered, Lone, Ordered, Later, Sorted, Early, Alone, Handed, Truncates, Bare, Has
<1>7. QED
  BY <1>1, <1>5, <1>6 DEF Good

(* How the steps of a writer change its record and its queue. *)

WriterRecord == [q : Seq(Item), stop : BOOLEAN, pc : WriterPc, item : Item, txn : Seq(Units)]

LEMMA TakeMoves ==
    ASSUME Typed, NEW g \in Writer, Take(g)
    PROVE  /\ w' \in [Writer -> WriterRecord]
           /\ \A h \in Writer \ {g} : w'[h] = w[h]
           /\ Len(w[g].q) \in Nat \ {0} /\ Len(w'[g].q) = Len(w[g].q) - 1
           /\ \A i \in 1..Len(w'[g].q) : i + 1 \in 1..Len(w[g].q) /\ w'[g].q[i] = w[g].q[i + 1]
           /\ w'[g].item = w[g].q[1] /\ w[g].q[1] \in Item
           /\ w'[g].stop = w[g].stop /\ w'[g].txn = w[g].txn
           /\ w'[g].pc = IF w[g].q[1] = Sentinel THEN "gone" ELSE "busy"
<1>1. w[g].q \in Seq(Item) /\ w[g].q # <<>> /\ w[g] \in WriterRecord
  BY DEF Take, Typed, WriterRecord
<1>2. /\ Head(w[g].q) \in Item /\ Tail(w[g].q) \in Seq(Item)
      /\ Len(Tail(w[g].q)) = Len(w[g].q) - 1
      /\ \A i \in 1..Len(Tail(w[g].q)) : Tail(w[g].q)[i] = w[g].q[i + 1]
  BY <1>1, HeadTailProperties
<1>3. Len(w[g].q) \in Nat \ {0} /\ Head(w[g].q) = w[g].q[1]
  BY <1>1, EmptySeq
<1> DEFINE t == Tail(w[g].q)  x == Head(w[g].q)
           p == IF Head(w[g].q) = Sentinel THEN "gone" ELSE "busy"
<1>4. /\ w' = [w EXCEPT ![g].q = t, ![g].item = x, ![g].pc = p]
      /\ t \in Seq(Item) /\ x \in Item /\ p \in WriterPc
  BY <1>2 DEF Take, WriterPc
<1> HIDE DEF t, x, p
<1>5. /\ w' \in [Writer -> WriterRecord] /\ w'[g].q = t /\ w'[g].item = x /\ w'[g].pc = p
      /\ \A h \in Writer \ {g} : w'[h] = w[h]
      /\ w'[g].stop = w[g].stop /\ w'[g].txn = w[g].txn
  BY <1>1, <1>4 DEF Typed, WriterRecord
<1>6. \A i \in 1..Len(t) : i + 1 \in 1..Len(w[g].q)
  BY <1>2, <1>3 DEF t
<1>7. QED
  BY <1>2, <1>3, <1>5, <1>6 DEF t, x, p

LEMMA AppendMoves ==
    ASSUME Typed, NEW g \in Writer, NEW x \in Item, w' = [w EXCEPT ![g].q = Append(@, x)]
    PROVE  /\ w' \in [Writer -> WriterRecord]
           /\ \A h \in Writer \ {g} : w'[h] = w[h]
           /\ Len(w[g].q) \in Nat /\ Len(w'[g].q) = Len(w[g].q) + 1
           /\ \A i \in 1..Len(w[g].q) : w'[g].q[i] = w[g].q[i]
           /\ w'[g].q[Len(w[g].q) + 1] = x
           /\ w'[g].item = w[g].item /\ w'[g].stop = w[g].stop
           /\ w'[g].txn = w[g].txn /\ w'[g].pc = w[g].pc
<1>1. w[g].q \in Seq(Item) /\ w[g] \in WriterRecord
  BY DEF Typed, WriterRecord
<1>2. /\ Append(w[g].q, x) \in Seq(Item) /\ Len(Append(w[g].q, x)) = Len(w[g].q) + 1
      /\ \A i \in 1..Len(w[g].q) : Append(w[g].q, x)[i] = w[g].q[i]
      /\ Append(w[g].q, x)[Len(w[g].q) + 1] = x
      /\ Len(w[g].q) \in Nat
  BY <1>1, AppendProperties, LenProperties
<1> DEFINE t == Append(w[g].q, x)
<1>3. w' = [w EXCEPT ![g].q = t] /\ t \in Seq(Item)
  BY <1>2
<1> HIDE DEF t
<1> DEFINE r == [w[g] EXCEPT !.q = t]
<1>4. /\ r \in WriterRecord /\ r.q = t /\ r.item = w[g].item /\ r.stop = w[g].stop
      /\ r.txn = w[g].txn /\ r.pc = w[g].pc
  BY <1>1, <1>3 DEF WriterRecord
<1>5. w' = [w EXCEPT ![g] = r] /\ w \in [Writer -> WriterRecord]
  BY <1>3 DEF Typed, WriterRecord
<1> HIDE DEF r
<1>6. /\ w' \in [Writer -> WriterRecord] /\ w'[g].q = t
      /\ \A h \in Writer \ {g} : w'[h] = w[h]
      /\ w'[g].item = w[g].item /\ w'[g].stop = w[g].stop
      /\ w'[g].txn = w[g].txn /\ w'[g].pc = w[g].pc
  BY <1>4, <1>5
<1>7. QED
  BY <1>2, <1>6 DEF t

\* A step that leaves queues and items alone and moves one writer on.
Moves(g, pc, txn) ==
    /\ w' \in [Writer -> WriterRecord]
    /\ \A h \in Writer \ {g} : w'[h] = w[h]
    /\ w'[g].q = w[g].q /\ w'[g].item = w[g].item /\ w'[g].stop = w[g].stop
    /\ w'[g].pc = pc /\ w'[g].txn = txn

LEMMA StepMoves ==
    ASSUME Typed, InHand, NEW g \in Writer
    PROVE  /\ LeaveWhenEmpty(g) => Moves(g, "gone", <<>>)
           /\ Execute(g) => Moves(g, "wrote", <<w[g].item.unit>>)
           /\ Commit(g) => Moves(g, "ok", <<>>) /\ log' = Append(log, w[g].item.unit)
           /\ Checkpoint(g) => Moves(g, "ok", <<>>)
           /\ Fail(g) => Moves(g, "error", <<>>)
           /\ SetFuture(g) => Moves(g, "idle", <<>>)
<1>1. /\ w[g].txn = IF w[g].pc = "wrote" THEN <<w[g].item.unit>> ELSE <<>>
      /\ w[g] \in WriterRecord
      /\ w[g].pc \in Has => w[g].item.unit \in Units
      /\ <<>> \in Seq(Units)
      /\ \A u \in Units : <<u>> \in Seq(Units) /\ Append(<<>>, u) = <<u>>
  BY WorkIsUnits DEF InHand, Typed, WriterRecord
<1>2. ASSUME LeaveWhenEmpty(g) PROVE Moves(g, "gone", <<>>)
  BY <1>1, <1>2 DEF LeaveWhenEmpty, Moves, Typed, WriterRecord, WriterPc
<1>3. ASSUME Execute(g) PROVE Moves(g, "wrote", <<w[g].item.unit>>)
  BY <1>1, <1>3 DEF Execute, Moves, Typed, WriterRecord, WriterPc, Has
<1>4. ASSUME Commit(g) PROVE Moves(g, "ok", <<>>) /\ log' = Append(log, w[g].item.unit)
  <2>1. log \o <<w[g].item.unit>> = Append(log, w[g].item.unit)
    BY <1>1, <1>4, AppendIsConcat DEF Commit, Typed, Has
  <2>2. QED
    BY <1>1, <1>4, <2>1 DEF Commit, Moves, Typed, WriterRecord, WriterPc
<1>5. ASSUME Checkpoint(g) PROVE Moves(g, "ok", <<>>)
  BY <1>1, <1>5 DEF Checkpoint, Moves, Typed, WriterRecord, WriterPc
<1>6. ASSUME Fail(g) PROVE Moves(g, "error", <<>>)
  BY <1>1, <1>6 DEF Fail, RolledBack, Moves, Typed, WriterRecord, WriterPc
<1>7. ASSUME SetFuture(g) PROVE Moves(g, "idle", <<>>)
  BY <1>1, <1>7 DEF SetFuture, Moves, Typed, WriterRecord, WriterPc
<1>8. QED
  BY <1>2, <1>3, <1>4, <1>5, <1>6, <1>7

LEMMA LogGrows ==
    ASSUME Typed, NEW u \in Units, log' = Append(log, u)
    PROVE  /\ log' \in Seq(Units) /\ Len(log) \in Nat /\ Len(log') = Len(log) + 1
           /\ \A k \in 1..Len(log) : log'[k] = log[k]
           /\ log'[Len(log) + 1] = u
BY AppendProperties, LenProperties DEF Typed

\* The variables of Typed that writers and readers leave alone.
LEMMA SameTyped ==
    ASSUME Typed, UNCHANGED <<current, made, call, told, asked>>,
           w' \in [Writer -> WriterRecord], log' \in Seq(Units), phase' \in Phase,
           future' \in [Units -> {"open", "ok", "error"}],
           reader' \in [Client -> {"none", "idle", "reading", "closed"}],
           orphan' \in BOOLEAN, wal' \in BOOLEAN, overrun' \in BOOLEAN, quiet' \in BOOLEAN
    PROVE  Typed'
BY DEF Typed, WriterRecord

LEMMA CallTyped ==
    ASSUME Typed, InHand, NEW c \in Client,
           \/ \E kind \in {"write", "checkpoint"} : Hand(c, kind)
           \/ Put(c) \/ Receive(c) \/ GiveUp(c)
    PROVE  Typed'
<1> DEFINE Free(n) == {Idle} \cup
              [pc : {"holding", "waiting"}, of : 1..n, kind : {"write", "checkpoint"}]
<1>1. ASSUME NEW kind \in {"write", "checkpoint"}, Hand(c, kind) PROVE Typed'
  <2>1. /\ current' \in 0..made' /\ made' \in 0..MaxWriter /\ current' # 0
        /\ made <= made' /\ made \in Nat /\ made' \in Nat
    BY <1>1, StoreOK DEF Hand, Typed
  <2>2. asked' \in [Client -> Nat] /\ \A d \in Client : asked'[d] <= MaxUnit[d]
    <3>1. /\ asked' = [asked EXCEPT ![c] = @ + 1] /\ asked[c] < MaxUnit[c]
          /\ asked \in [Client -> Nat] /\ \A d \in Client : asked[d] <= MaxUnit[d]
      BY <1>1 DEF Hand, Typed
    <3>2. \A d \in Client : MaxUnit[d] \in Nat
      BY StoreOK
    <3>3. QED
      BY <3>1, <3>2
  <2>3. call \in [Client -> Free(made')]
    BY <2>1 DEF Typed
  <2>4. [pc |-> "holding", of |-> current', kind |-> kind] \in Free(made')
    BY <2>1
  <2>5. call' \in [Client -> Free(made')]
    BY <1>1, <2>3, <2>4 DEF Hand
  <2>6. told' \in [Client -> {"none", "pending", "ok", "error", "unknown"}]
    BY <1>1 DEF Hand, Typed
  <2>7. phase' \in Phase /\ reader' \in [Client -> {"none", "idle", "reading", "closed"}]
    BY <1>1 DEF Hand, Typed, Phase
  <2>8. quiet' \in BOOLEAN
    BY <1>1 DEF Hand, Typed
  <2>9. UNCHANGED <<w, log, future, orphan, wal, overrun>>
    BY <1>1 DEF Hand
  <2>10. QED
    BY <2>1, <2>2, <2>5, <2>6, <2>7, <2>8, <2>9
       DEF Typed, WriterRecord
<1>2. ASSUME call' \in [Client -> Free(made)],
             told' \in [Client -> {"none", "pending", "ok", "error", "unknown"}],
             phase' \in Phase, w' \in [Writer -> WriterRecord],
             UNCHANGED <<current, made, asked, log, future, readVars, wal, overrun, quiet>>
      PROVE  Typed'
  BY <1>2 DEF Typed, WriterRecord, readVars
<1>3. ASSUME Put(c) PROVE Typed'
  <2>1. /\ call[c].of \in Writer /\ call[c].kind \in {"write", "checkpoint"}
        /\ call[c] \in [pc : {"holding", "waiting"}, of : 1..made, kind : {"write", "checkpoint"}]
    BY <1>3, StoreOK DEF Put, Typed, Writer, Idle
  <2>2. Last(c) \in Units
    <3>1. asked[c] > 0
      BY <1>3 DEF Put, InHand
    <3>2. QED
      BY <3>1, LastIsUnit
  <2>3. [unit |-> Last(c), kind |-> call[c].kind] \in Item
    BY <2>1, <2>2 DEF Item, Work
  <2>4. w' \in [Writer -> WriterRecord]
    BY <1>3, <2>1, <2>3, AppendMoves DEF Put
  <2>5. call' = [call EXCEPT ![c] = [call[c] EXCEPT !.pc = "waiting"]]
    BY <1>3 DEF Put, Typed
  <2>6. [call[c] EXCEPT !.pc = "waiting"] \in Free(made)
    BY <2>1
  <2>7. call' \in [Client -> Free(made)]
    BY <2>5, <2>6 DEF Typed
  <2>8. QED
    BY <1>2, <1>3, <2>4, <2>7 DEF Put, lifeVars, Typed
<1>4. ASSUME Receive(c) \/ GiveUp(c) PROVE Typed'
  <2>1. call' \in [Client -> Free(made)]
    BY <1>4 DEF Receive, GiveUp, Typed
  <2>2. phase' \in Phase
    BY <1>4 DEF Receive, GiveUp, Typed, Phase
  <2>3. told' \in [Client -> {"none", "pending", "ok", "error", "unknown"}]
    <3>1. CASE GiveUp(c)
      BY <3>1 DEF GiveUp, Typed
    <3>2. CASE Receive(c)
      <4>1. call[c].pc = "waiting"
        BY <3>2 DEF Receive
      <4>2. asked[c] > 0
        BY <4>1 DEF InHand
      <4>3. future[Last(c)] \in {"open", "ok", "error"}
        BY <4>2, LastIsUnit DEF Typed
      <4>4. QED
        BY <3>2, <4>3 DEF Receive, Typed
    <3>3. QED
      BY <1>4, <3>1, <3>2
  <2>4. w' \in [Writer -> WriterRecord]
    BY <1>4 DEF Receive, GiveUp, Typed, WriterRecord
  <2>5. QED
    BY <1>2, <1>4, <2>1, <2>2, <2>3, <2>4 DEF Receive, GiveUp, readVars
<1>5. QED
  BY <1>1, <1>3, <1>4

LEMMA WriterTyped ==
    ASSUME Typed, InHand, NEW g \in Writer, Run(g) \/ Fail(g)
    PROVE  Typed'
<1>1. ASSUME Take(g) PROVE Typed'
  BY <1>1, TakeMoves, SameTyped DEF Take, lifeVars, readVars, Typed
<1>2. ASSUME NEW pc, NEW txn, Moves(g, pc, txn), log' \in Seq(Units),
             future' \in [Units -> {"open", "ok", "error"}],
             orphan' \in BOOLEAN, wal' \in BOOLEAN, quiet' \in BOOLEAN,
             UNCHANGED <<lifeVars, asked, call, told, reader>>
      PROVE  Typed'
  BY <1>2, SameTyped DEF Moves, lifeVars, Typed
<1>3. w[g].pc \in Has => w[g].item.unit \in Units
  BY WorkIsUnits DEF InHand
<1>4. ASSUME LeaveWhenEmpty(g) PROVE Typed'
  BY <1>2, <1>4, StepMoves DEF LeaveWhenEmpty, readVars, Typed
<1>5. ASSUME Execute(g) PROVE Typed'
  BY <1>2, <1>5, StepMoves DEF Execute, readVars, Typed
<1>6. ASSUME Commit(g) PROVE Typed'
  <2>1. log' \in Seq(Units)
    BY <1>3, <1>6, StepMoves, LogGrows DEF Commit, Has
  <2>2. QED
    BY <1>2, <1>6, <2>1, StepMoves DEF Commit, readVars, Typed
<1>7. ASSUME Checkpoint(g) PROVE Typed'
  <2>1. log' \in Seq(Units)
    BY <1>3, <1>7, LogGrows DEF Checkpoint, Has
  <2>2. orphan' \in BOOLEAN /\ wal' \in BOOLEAN
    BY <1>7 DEF Checkpoint, Typed
  <2>3. QED
    BY <1>2, <1>7, <2>1, <2>2, StepMoves DEF Checkpoint, Typed
<1>8. ASSUME Fail(g) PROVE Typed'
  BY <1>2, <1>8, StepMoves DEF Fail, readVars, Typed
<1>9. ASSUME SetFuture(g) PROVE Typed'
  <2>1. future' \in [Units -> {"open", "ok", "error"}]
    BY <1>9 DEF SetFuture, Typed
  <2>2. QED
    BY <1>2, <1>9, <2>1, StepMoves DEF SetFuture, readVars, Typed
<1>10. QED
  BY <1>1, <1>4, <1>5, <1>6, <1>7, <1>8, <1>9 DEF Run

LEMMA ReaderTyped ==
    ASSUME Typed, NEW c \in Client, BeginRead(c) \/ EndRead(c) \/ ThreadEnds(c)
    PROVE  Typed'
<1>1. /\ reader' \in [Client -> {"none", "idle", "reading", "closed"}]
      /\ orphan' \in BOOLEAN /\ quiet' \in BOOLEAN
  BY DEF BeginRead, EndRead, ThreadEnds, Typed
<1>2. UNCHANGED <<lifeVars, w, log, future, asked, call, told, wal>>
  BY DEF BeginRead, EndRead, ThreadEnds
<1>3. QED
  BY <1>1, <1>2, SameTyped DEF lifeVars, Typed, WriterRecord

LEMMA FlagMoves ==
    ASSUME Typed, current \in Writer, w' = [w EXCEPT ![current].stop = TRUE]
    PROVE  /\ w' \in [Writer -> WriterRecord]
           /\ \A h \in Writer : /\ w'[h].q = w[h].q /\ w'[h].pc = w[h].pc
                                /\ w'[h].item = w[h].item /\ w'[h].txn = w[h].txn
                                /\ h # current => w'[h] = w[h]
<1> DEFINE r == [w[current] EXCEPT !.stop = TRUE]
<1>1. /\ r \in WriterRecord /\ r.q = w[current].q /\ r.pc = w[current].pc
      /\ r.item = w[current].item /\ r.txn = w[current].txn
  <2>1. w[current] \in WriterRecord
    BY DEF Typed, WriterRecord
  <2>2. QED
    BY <2>1 DEF WriterRecord
<1>2. w' = [w EXCEPT ![current] = r] /\ w \in [Writer -> WriterRecord]
  BY DEF Typed, WriterRecord
<1> HIDE DEF r
<1>3. QED
  BY <1>1, <1>2

LEMMA LifeTyped ==
    ASSUME Typed, StopServices \/ CloseReaders \/ StopWriter \/ PutSentinel
                  \/ Joined \/ JoinTimesOut \/ Restart
    PROVE  Typed'
<1>1. w \in [Writer -> WriterRecord] /\ (current = 0 \/ current \in Writer)
  BY StoreOK DEF Typed, WriterRecord, Writer
<1>2. ASSUME StopServices PROVE Typed'
  BY <1>1, <1>2, SameTyped DEF StopServices, readVars, Typed, Phase
<1>3. CloseAll => /\ reader' \in [Client -> {"none", "idle", "reading", "closed"}]
                  /\ orphan' \in BOOLEAN
  BY DEF CloseAll, Typed
<1>4. ASSUME CloseReaders PROVE Typed'
  BY <1>1, <1>3, <1>4, SameTyped DEF CloseReaders, Typed, Phase
<1>5. ASSUME StopWriter PROVE Typed'
  <2>1. w' \in [Writer -> WriterRecord]
    BY <1>1, <1>5, FlagMoves DEF StopWriter, Writer
  <2>2. QED
    BY <1>5, <2>1, SameTyped DEF StopWriter, readVars, Typed, Phase
<1>6. ASSUME PutSentinel PROVE Typed'
  <2>1. w' \in [Writer -> WriterRecord]
    BY <1>1, <1>6, AppendMoves DEF PutSentinel, Writer, Item
  <2>2. QED
    BY <1>6, <2>1, SameTyped DEF PutSentinel, readVars, Typed, Phase
<1>7. ASSUME Joined \/ JoinTimesOut PROVE Typed'
  <2>1. reader' \in [Client -> {"none", "idle", "reading", "closed"}] /\ orphan' \in BOOLEAN
    BY <1>3, <1>7 DEF Joined, JoinTimesOut
  <2>2. /\ phase' \in Phase /\ current' \in 0..made' /\ made' \in 0..MaxWriter
        /\ overrun' \in BOOLEAN /\ quiet' \in BOOLEAN
        /\ UNCHANGED <<made, w, log, future, asked, call, told, wal>>
    <3>1. phase' = "closed" /\ current' = 0 /\ UNCHANGED <<made, w, log, future, asked, call, told, wal>>
      BY <1>7 DEF Joined, JoinTimesOut
    <3>2. overrun' \in BOOLEAN /\ quiet' \in BOOLEAN
      BY <1>7 DEF Joined, JoinTimesOut, Typed
    <3>3. made \in 0..MaxWriter
      BY DEF Typed
    <3>4. QED
      BY <3>1, <3>2, <3>3, StoreOK DEF Phase
  <2>3. QED
    BY <2>1, <2>2 DEF Typed
<1>8. ASSUME Restart PROVE Typed'
  <2>1. w' \in [Writer -> WriterRecord]
    BY <1>8 DEF Restart, NewWriter, WriterRecord, WriterPc, Item
  <2>2. /\ phase' \in Phase /\ current' \in 0..made' /\ made' \in 0..MaxWriter
        /\ overrun' \in BOOLEAN /\ quiet' \in BOOLEAN /\ wal' \in BOOLEAN /\ orphan' \in BOOLEAN
        /\ log' \in Seq(Units) /\ asked' = asked
        /\ future' \in [Units -> {"open", "ok", "error"}]
        /\ told' \in [Client -> {"none", "pending", "ok", "error", "unknown"}]
        /\ reader' \in [Client -> {"none", "idle", "reading", "closed"}]
    <3>1. phase' = "migrating" /\ current' = 0 /\ made' = 0 /\ UNCHANGED <<log, asked, wal, overrun>>
      BY <1>8 DEF Restart
    <3>2. 0 \in 0..MaxWriter /\ 0 \in 0..0
      BY StoreOK
    <3>3. log \in Seq(Units) /\ wal \in BOOLEAN /\ overrun \in BOOLEAN
      BY DEF Typed
    <3>4. quiet' \in BOOLEAN /\ orphan' \in BOOLEAN
      BY <1>8 DEF Restart
    <3>5. /\ future' \in [Units -> {"open", "ok", "error"}]
          /\ told' \in [Client -> {"none", "pending", "ok", "error", "unknown"}]
          /\ reader' \in [Client -> {"none", "idle", "reading", "closed"}]
      BY <1>8 DEF Restart
    <3>6. QED
      BY <3>1, <3>2, <3>3, <3>4, <3>5 DEF Phase
  <2>3. call' \in [Client -> {Idle} \cup
              [pc : {"holding", "waiting"}, of : 1..made', kind : {"write", "checkpoint"}]]
    BY <1>8 DEF Restart
  <2>4. QED
    BY <2>1, <2>2, <2>3 DEF Typed, WriterRecord
<1>9. QED
  BY <1>2, <1>4, <1>5, <1>6, <1>7, <1>8

LEMMA StepTyped == Typed /\ InHand /\ [Next]_vars => Typed'
<1> SUFFICES ASSUME Typed, InHand, [Next]_vars PROVE Typed'
  OBVIOUS
<1>1. CASE UNCHANGED vars
  BY <1>1 DEF vars, Typed
<1>2. QED
  BY <1>1, CallTyped, WriterTyped, ReaderTyped, LifeTyped DEF Next

(* The units: each in one place, and answered truly.                       *)

Core == /\ InHand /\ Numbered /\ HeldApart /\ QueuedApart /\ TakenApart
        /\ NotYet /\ Done /\ Answered /\ Ordered

LEMMA CoreSame ==
    ASSUME Typed, Core, UNCHANGED <<w, log, future, asked, call, told>>
    PROVE  Core'
<1>1. /\ \A c \in Client : Last(c)' = Last(c)
      /\ \A u : Counted(u)' <=> Counted(u)
  BY DEF Last, Counted
<1>2. InHand'
  BY DEF Core, InHand
<1>3. Numbered'
  BY <1>1 DEF Core, Numbered
<1>4. HeldApart'
  BY <1>1 DEF Core, HeldApart
<1>5. QueuedApart'
  BY DEF Core, QueuedApart
<1>6. TakenApart'
  BY DEF Core, TakenApart
<1>7. NotYet'
  BY <1>1 DEF Core, NotYet
<1>8. Done'
  BY DEF Core, Done
<1>9. Answered'
  BY <1>1 DEF Core, Answered
<1>10. Ordered'
  BY DEF Core, Ordered
<1>11. QED
  BY <1>2, <1>3, <1>4, <1>5, <1>6, <1>7, <1>8, <1>9, <1>10 DEF Core

LEMMA Contents ==
    ASSUME Typed, Core
    PROVE  /\ \A k \in 1..Len(log) : log[k] \in Units /\ Counted(log[k])
           /\ \A g \in Writer : w[g].pc \in Has =>
                 w[g].item \in Work /\ w[g].item.unit \in Units /\ Counted(w[g].item.unit)
           /\ \A g \in Writer : \A i \in 1..Len(w[g].q) :
                 \/ w[g].q[i] = Sentinel
                 \/ w[g].q[i] \in Work /\ w[g].q[i].unit \in Units /\ Counted(w[g].q[i].unit)
<1>1. /\ \A k \in 1..Len(log) : log[k] \in Units
      /\ \A g \in Writer : \A i \in 1..Len(w[g].q) : w[g].q[i] \in Item
  BY ElementOfSeq DEF Typed
<1>2. QED
  BY <1>1, WorkIsUnits DEF Core, Numbered, InHand

LEMMA LastIsNewest ==
    ASSUME Typed, NEW c \in Client, NEW u \in Units, Counted(u), u # Last(c)
    PROVE  Before(u, Last(c))
<1>1. u = <<u[1], u[2]>> /\ u[2] \in Nat /\ u[1] \in Client /\ asked[c] \in Nat
  BY UnitsArePairs DEF Typed
<1>2. u[1] = c => u[2] < asked[c]
  BY <1>1 DEF Counted, Last
<1>3. QED
  BY <1>2 DEF Before, Last

LEMMA CoreHand ==
    ASSUME Typed, Typed', Core, NEW c \in Client, NEW kind \in {"write", "checkpoint"}, Hand(c, kind)
    PROVE  Core'
<1>1. /\ UNCHANGED <<w, log, future>>
      /\ asked' = [asked EXCEPT ![c] = @ + 1] /\ asked \in [Client -> Nat]
      /\ call[c] = Idle /\ call'[c].pc = "holding" /\ told'[c] = "pending"
      /\ \A d \in Client : d # c => call'[d] = call[d] /\ told'[d] = told[d]
  BY DEF Hand, Typed
<1>2. /\ asked'[c] = asked[c] + 1
      /\ \A d \in Client : /\ asked[d] \in Nat /\ asked'[d] \in Nat
                          /\ asked[d] <= asked'[d] /\ (d # c => Last(d)' = Last(d))
      /\ Last(c)' = <<c, asked[c] + 1>>
  BY <1>1 DEF Last
<1>3. \A u \in Units : Counted(u) => Counted(u)' /\ u # Last(c)'
  <2> SUFFICES ASSUME NEW u \in Units, Counted(u) PROVE Counted(u)' /\ u # Last(c)'
    OBVIOUS
  <2>1. u[1] \in Client /\ u[2] \in Nat /\ u[2] <= asked[u[1]]
    BY UnitsArePairs DEF Counted
  <2>2. Counted(u)'
    BY <1>2, <2>1 DEF Counted
  <2>3. u[1] # c \/ u[2] # asked[c] + 1
    BY <1>2, <2>1
  <2>4. u # <<c, asked[c] + 1>>
    BY <2>3
  <2>5. QED
    BY <1>2, <2>2, <2>4
<1>4. /\ \A k \in 1..Len(log) : log[k] \in Units /\ Counted(log[k])
      /\ \A g \in Writer : w[g].pc \in Has =>
            w[g].item.unit \in Units /\ Counted(w[g].item.unit)
      /\ \A g \in Writer : \A i \in 1..Len(w[g].q) :
            \/ w[g].q[i] = Sentinel
            \/ w[g].q[i] \in Work /\ w[g].q[i].unit \in Units /\ Counted(w[g].q[i].unit)
  BY Contents
<1>5. Sentinel.unit # Last(c)'
  BY <1>2, WorkIsUnits
<1>6. InHand'
  BY <1>1, <1>2 DEF Core, InHand, Idle
<1>7. Numbered'
  <2>1. \A u \in Units : future[u] # "open" => Counted(u)
    BY DEF Core, Numbered
  <2>2. QED
    BY <1>1, <1>3, <1>4, <2>1, WorkIsUnits DEF Numbered
<1>8. HeldApart'
  BY <1>1, <1>2, <1>3, <1>4, <1>5 DEF Core, HeldApart
<1>9. QueuedApart' /\ TakenApart' /\ Done' /\ Ordered'
  <2>1. QueuedApart' /\ Done'
    BY <1>1 DEF Core, QueuedApart, Done
  <2>2. TakenApart'
    BY <1>1 DEF Core, TakenApart
  <2>3. Ordered'
    BY <1>1 DEF Core, Ordered, Before
  <2>4. QED
    BY <2>1, <2>2, <2>3
<1>10. NotYet'
  BY <1>1, <1>2, <1>3, <1>4 DEF Core, NotYet
<1>11. Answered'
  <2>1. \A u \in Units : future[u] # "open" => u # Last(c)'
    BY <1>3 DEF Core, Numbered
  <2>2. QED
    BY <1>1, <1>2, <2>1 DEF Core, Answered
<1>12. QED
  BY <1>6, <1>7, <1>8, <1>9, <1>10, <1>11 DEF Core

LEMMA CorePut ==
    ASSUME Typed, Typed', Core, NEW c \in Client, Put(c)
    PROVE  Core'
<1> DEFINE o == call[c].of
           x == [unit |-> Last(c), kind |-> call[c].kind]
<1>1. /\ call[c].pc = "holding" /\ call[c].of \in Writer
      /\ call[c].kind \in {"write", "checkpoint"} /\ asked[c] > 0
  BY StoreOK DEF Put, Typed, Writer, Idle, Core, InHand
<1>2. Last(c) \in Units /\ Last(c)[1] = c /\ Last(c)[2] = asked[c]
  BY <1>1, LastIsUnit
<1>3. x \in Work /\ x \in Item /\ x.unit = Last(c)
  BY <1>1, <1>2 DEF Work, Item
<1>4. w' = [w EXCEPT ![o].q = Append(@, x)]
  BY DEF Put
<1>5. /\ UNCHANGED <<log, future, asked, told>>
      /\ call'[c].pc = "waiting" /\ \A d \in Client : d # c => call'[d] = call[d]
      /\ \A d \in Client : Last(d)' = Last(d)
  BY DEF Put, Typed, Last
<1> HIDE DEF o, x
<1>6. /\ \A g \in Writer : w'[g].pc = w[g].pc /\ w'[g].item = w[g].item /\ w'[g].txn = w[g].txn
      /\ \A g \in Writer : Len(w[g].q) \in Nat
      /\ \A g \in Writer : \A i \in 1..Len(w'[g].q) :
            \/ i \in 1..Len(w[g].q) /\ w'[g].q[i] = w[g].q[i]
            \/ g = o /\ i = Len(w[g].q) + 1 /\ w'[g].q[i] = x
  <2>1. o \in Writer
    BY <1>1 DEF o
  <2>2. \A g \in Writer : Len(w[g].q) \in Nat
    BY LenProperties DEF Typed
  <2>3. QED
    BY <1>3, <1>4, <2>1, <2>2, AppendMoves
<1>7. /\ \A g \in Writer : \A i \in 1..Len(w[g].q) : w[g].q[i].unit # x.unit
      /\ \A g \in Writer : w[g].pc \in Has => w[g].item.unit # x.unit
      /\ \A k \in 1..Len(log) : log[k] # x.unit
      /\ future[x.unit] = "open"
  BY <1>1, <1>2, <1>3 DEF Core, HeldApart, NotYet, Answered, Typed
<1>8. InHand'
  BY <1>1, <1>5, <1>6 DEF Core, InHand
<1>9. Numbered'
  <2>1. Counted(x.unit)
    BY <1>2, <1>3 DEF Counted, Typed
  <2>2. \A u : Counted(u)' <=> Counted(u)
    BY <1>5 DEF Counted
  <2>3. QED
    BY <1>5, <1>6, <2>1, <2>2 DEF Core, Numbered
<1>10. HeldApart'
  <2>1. \A d \in Client : d # c => x.unit # Last(d)
    BY <1>3 DEF Last
  <2>2. QED
    BY <1>5, <1>6, <2>1 DEF Core, HeldApart
<1>11. QueuedApart'
  <2> SUFFICES ASSUME NEW g \in Writer, NEW h \in Writer,
                      NEW i \in 1..Len(w'[g].q), NEW j \in 1..Len(w'[h].q),
                      w'[g].q[i] \in Work, w'[g].q[i].unit = w'[h].q[j].unit
               PROVE  g = h /\ i = j
    BY DEF QueuedApart
  <2>1. CASE i \in 1..Len(w[g].q) /\ w'[g].q[i] = w[g].q[i]
    <3>1. w[g].q[i].unit # x.unit
      BY <1>7, <2>1
    <3>2. j \in 1..Len(w[h].q) /\ w'[h].q[j] = w[h].q[j]
      BY <1>6, <2>1, <3>1
    <3>3. QED
      BY <2>1, <3>2 DEF Core, QueuedApart
  <2>2. CASE g = o /\ i = Len(w[g].q) + 1 /\ w'[g].q[i] = x
    <3>1. ~(j \in 1..Len(w[h].q) /\ w'[h].q[j] = w[h].q[j])
      BY <1>7, <2>2
    <3>2. QED
      BY <1>6, <2>2, <3>1
  <2>3. QED
    BY <1>6, <2>1, <2>2
<1>12. TakenApart'
  <2> SUFFICES ASSUME NEW g \in Writer, NEW h \in Writer, w[g].pc \in Has
               PROVE  /\ \A i \in 1..Len(w'[h].q) : w'[h].q[i].unit # w[g].item.unit
                      /\ w[h].pc \in Has /\ w[h].item.unit = w[g].item.unit => h = g
    BY <1>6 DEF TakenApart
  <2>1. w[h].pc \in Has /\ w[h].item.unit = w[g].item.unit => h = g
    BY DEF Core, TakenApart
  <2>2. \A i \in 1..Len(w[h].q) : w[h].q[i].unit # w[g].item.unit
    BY DEF Core, TakenApart
  <2>3. QED
    BY <1>6, <1>7, <2>1, <2>2
<1>13. NotYet'
  BY <1>5, <1>6, <1>7 DEF Core, NotYet
<1>14. Done'
  BY <1>5, <1>6 DEF Core, Done
<1>15. Answered'
  BY <1>5, <1>6, <1>7 DEF Core, Answered
<1>16. Ordered'
  <2>1. \A u \in Units : Counted(u) /\ u # x.unit => Before(u, x.unit)
    BY <1>3, LastIsNewest
  <2>2. \A g \in Writer : /\ \A i \in 1..Len(w[g].q) :
                               w[g].q[i] \in Work => Before(w[g].q[i].unit, x.unit)
                          /\ w[g].pc \in Has => Before(w[g].item.unit, x.unit)
    BY <1>7, <2>1, Contents, WorkIsUnits DEF Core, Numbered
  <2> SUFFICES ASSUME NEW g \in Writer, NEW j \in 1..Len(w'[g].q), w'[g].q[j] \in Work
               PROVE  /\ \A i \in 1..(j - 1) : w'[g].q[i] \in Work =>
                            Before(w'[g].q[i].unit, w'[g].q[j].unit)
                      /\ w[g].pc \in Has => Before(w[g].item.unit, w'[g].q[j].unit)
    BY <1>6 DEF Ordered, Before
  <2>3. \A i \in 1..(j - 1) : i \in 1..Len(w[g].q) /\ w'[g].q[i] = w[g].q[i]
    BY <1>6
  <2>4. CASE j \in 1..Len(w[g].q) /\ w'[g].q[j] = w[g].q[j]
    BY <2>3, <2>4 DEF Core, Ordered
  <2>5. CASE w'[g].q[j] = x
    BY <2>2, <2>3, <2>5
  <2>6. QED
    BY <1>6, <2>4, <2>5
<1>17. QED
  BY <1>8, <1>9, <1>10, <1>11, <1>12, <1>13, <1>14, <1>15, <1>16 DEF Core

LEMMA CoreMoves ==
    ASSUME Typed, Core, NEW g \in Writer, NEW pc, NEW txn, Moves(g, pc, txn),
           UNCHANGED <<asked, call, told>>,
           pc \in Has => w[g].pc \in Has,
           txn = IF pc = "wrote" THEN <<w[g].item.unit>> ELSE <<>>
    PROVE  /\ InHand' /\ HeldApart' /\ QueuedApart' /\ TakenApart' /\ Ordered'
           /\ \A h \in Writer : w'[h].q = w[h].q /\ w'[h].item = w[h].item
           /\ \A h \in Writer : h # g => w'[h].pc = w[h].pc
           /\ \A h \in Writer : w'[h].pc \in Has => w[h].pc \in Has
           /\ w'[g].pc = pc
           /\ \A c \in Client : Last(c)' = Last(c)
           /\ \A u : Counted(u)' <=> Counted(u)
<1>1. /\ \A h \in Writer : w'[h].q = w[h].q /\ w'[h].item = w[h].item
      /\ \A h \in Writer : w'[h].pc \in Has => w[h].pc \in Has
      /\ \A h \in Writer : h # g => w'[h].pc = w[h].pc
      /\ w'[g].pc = pc
      /\ \A c \in Client : Last(c)' = Last(c)
      /\ \A u : Counted(u)' <=> Counted(u)
  BY DEF Moves, Last, Counted
<1>2. InHand'
  <2>1. ASSUME NEW h \in Writer
        PROVE  w'[h].txn = IF w'[h].pc = "wrote" THEN <<w'[h].item.unit>> ELSE <<>>
    <3>1. CASE h = g
      <4>1. w'[g].txn = txn /\ w'[g].pc = pc /\ w'[g].item = w[g].item
        BY DEF Moves
      <4>2. QED
        BY <3>1, <4>1
    <3>2. CASE h # g
      <4>1. w'[h] = w[h]
        BY <3>2 DEF Moves
      <4>2. QED
        BY <4>1 DEF Core, InHand
    <3>3. QED
      BY <3>1, <3>2
  <2>2. \A h \in Writer : w'[h].pc \in Has => w'[h].item \in Work
    BY <1>1 DEF Core, InHand
  <2>3. QED
    BY <2>1, <2>2 DEF Core, InHand
<1>3. HeldApart'
  BY <1>1 DEF Core, HeldApart
<1>4. QueuedApart'
  <2> SUFFICES ASSUME NEW h \in Writer, NEW k \in Writer,
                      NEW i \in 1..Len(w'[h].q), NEW j \in 1..Len(w'[k].q),
                      w'[h].q[i] \in Work, w'[h].q[i].unit = w'[k].q[j].unit
               PROVE  h = k /\ i = j
    BY DEF QueuedApart
  <2>1. w'[h].q = w[h].q /\ w'[k].q = w[k].q
    BY <1>1
  <2>2. QED
    BY <2>1 DEF Core, QueuedApart
<1>5. TakenApart'
  BY <1>1 DEF Core, TakenApart
<1>6. Ordered'
  BY <1>1 DEF Core, Ordered, Before
<1>7. QED
  BY <1>1, <1>2, <1>3, <1>4, <1>5, <1>6

LEMMA CoreLeave ==
    ASSUME Typed, Core, NEW g \in Writer, LeaveWhenEmpty(g) \/ Execute(g) \/ Fail(g)
    PROVE  Core'
<1> DEFINE pc == IF LeaveWhenEmpty(g) THEN "gone" ELSE IF Execute(g) THEN "wrote" ELSE "error"
           txn == IF pc = "wrote" THEN <<w[g].item.unit>> ELSE <<>>
<1>1. /\ Moves(g, pc, txn) /\ UNCHANGED <<log, future, asked, call, told>>
      /\ pc = "gone" \/ (pc \in {"wrote", "error"} /\ w[g].pc \in {"busy", "wrote"})
  <2>1. LeaveWhenEmpty(g) => w[g].pc = "idle"
    BY DEF LeaveWhenEmpty
  <2>2. Execute(g) => w[g].pc = "busy"
    BY DEF Execute
  <2>3. Fail(g) => w[g].pc \in {"busy", "wrote"}
    BY DEF Fail
  <2>4. UNCHANGED <<log, future, asked, call, told>>
    BY DEF LeaveWhenEmpty, Execute, Fail
  <2>5. Moves(g, pc, txn)
    BY StepMoves DEF Core
  <2>6. QED
    BY <2>1, <2>2, <2>3, <2>4, <2>5
<1> HIDE DEF pc
<1>2. pc \in Has => w[g].pc \in Has
  BY <1>1 DEF Has
<1>3. /\ InHand' /\ HeldApart' /\ QueuedApart' /\ TakenApart' /\ Ordered'
      /\ \A h \in Writer : w'[h].q = w[h].q /\ w'[h].item = w[h].item
      /\ \A h \in Writer : h # g => w'[h].pc = w[h].pc
      /\ \A h \in Writer : w'[h].pc \in Has => w[h].pc \in Has
      /\ w'[g].pc = pc
      /\ \A c \in Client : Last(c)' = Last(c)
      /\ \A u : Counted(u)' <=> Counted(u)
  BY <1>1, <1>2, CoreMoves
<1>4. Numbered'
  BY <1>1, <1>3 DEF Core, Numbered
<1>5. NotYet'
  BY <1>1, <1>3 DEF Core, NotYet
<1>6. Done'
  BY <1>1, <1>3 DEF Core, Done
<1>7. Answered'
  BY <1>1, <1>3 DEF Core, Answered
<1>8. QED
  BY <1>3, <1>4, <1>5, <1>6, <1>7 DEF Core

LEMMA CoreLog ==
    ASSUME Typed, Core, NEW g \in Writer, Commit(g) \/ Checkpoint(g)
    PROVE  Core'
<1>1. /\ Moves(g, "ok", <<>>) /\ log' = Append(log, w[g].item.unit)
      /\ UNCHANGED <<future, asked, call, told>> /\ w[g].pc \in {"busy", "wrote"}
  BY StepMoves DEF Core, Commit, Checkpoint
<1>2. /\ InHand' /\ HeldApart' /\ QueuedApart' /\ TakenApart' /\ Ordered'
      /\ \A h \in Writer : w'[h].q = w[h].q /\ w'[h].item = w[h].item
      /\ \A h \in Writer : h # g => w'[h].pc = w[h].pc
      /\ \A h \in Writer : w'[h].pc \in Has => w[h].pc \in Has
      /\ w'[g].pc = "ok"
      /\ \A c \in Client : Last(c)' = Last(c)
      /\ \A u : Counted(u)' <=> Counted(u)
  BY <1>1, CoreMoves DEF Has
<1> DEFINE u == w[g].item.unit
<1>3. w[g].pc \in Has /\ u \in Units /\ Counted(u)
  BY <1>1, Contents DEF Has
<1> HIDE DEF u
<1>4. /\ Len(log) \in Nat /\ Len(log') = Len(log) + 1
      /\ \A k \in 1..Len(log) : log'[k] = log[k]
      /\ log'[Len(log) + 1] = u
  BY <1>1, <1>3, LogGrows DEF u
<1>5. /\ \A k \in 1..Len(log') : (k \in 1..Len(log) /\ log'[k] = log[k]) \/ log'[k] = u
      /\ \A k \in 1..Len(log) : k \in 1..Len(log')
      /\ Len(log) + 1 \in 1..Len(log')
  BY <1>4
<1>6. Numbered'
  BY <1>1, <1>2, <1>3, <1>5 DEF Core, Numbered
<1>7. /\ \A c \in Client : call[c].pc = "holding" => u # Last(c)
      /\ \A h \in Writer : \A i \in 1..Len(w[h].q) : w[h].q[i].unit # u
      /\ \A h \in Writer : h # g /\ w[h].pc \in Has => w[h].item.unit # u
      /\ future[u] = "open"
  <2>1. \A h \in Writer : \A i \in 1..Len(w[h].q) : w[h].q[i].unit # u
    BY <1>3 DEF Core, TakenApart, u
  <2>2. \A h \in Writer : h # g /\ w[h].pc \in Has => w[h].item.unit # u
    BY <1>3 DEF Core, TakenApart, u
  <2>3. \A c \in Client : call[c].pc = "holding" => u # Last(c)
    BY <1>3 DEF Core, HeldApart, u
  <2>4. future[u] = "open"
    BY <1>3 DEF Core, Answered, u
  <2>5. QED
    BY <2>1, <2>2, <2>3, <2>4
<1>8. NotYet'
  <2> SUFFICES ASSUME NEW k \in 1..Len(log')
               PROVE  /\ \A c \in Client : call[c].pc = "holding" => log'[k] # Last(c)
                      /\ \A h \in Writer : \A i \in 1..Len(w[h].q) : w[h].q[i].unit # log'[k]
                      /\ \A h \in Writer : w'[h].pc \in {"busy", "wrote", "error"} =>
                            w[h].item.unit # log'[k]
    BY <1>1, <1>2 DEF NotYet
  <2>1. CASE k \in 1..Len(log) /\ log'[k] = log[k]
    BY <1>2, <2>1 DEF Core, NotYet
  <2>2. CASE log'[k] = u
    BY <1>2, <1>7, <2>2 DEF Has
  <2>3. QED
    BY <1>5, <2>1, <2>2
<1>9. Done'
  BY <1>2, <1>4, <1>5 DEF Core, Done, u
<1>10. Answered'
  <2>1. \A v \in Units : future[v] = "ok" => \E k \in 1..Len(log') : log'[k] = v
    BY <1>4, <1>5 DEF Core, Answered
  <2>2. \A v \in Units : future[v] = "error" => \A k \in 1..Len(log') : log'[k] # v
    BY <1>5, <1>7 DEF Core, Answered
  <2>3. QED
    BY <1>1, <1>2, <2>1, <2>2 DEF Core, Answered
<1>11. QED
  BY <1>2, <1>6, <1>8, <1>9, <1>10 DEF Core

LEMMA CoreSet ==
    ASSUME Typed, Core, NEW g \in Writer, SetFuture(g)
    PROVE  Core'
<1> DEFINE u == w[g].item.unit
<1>1. /\ Moves(g, "idle", <<>>) /\ UNCHANGED <<log, asked, call, told>>
      /\ w[g].pc \in {"ok", "error"} /\ future' = [future EXCEPT ![u] = w[g].pc]
  BY StepMoves DEF Core, SetFuture
<1>2. /\ InHand' /\ HeldApart' /\ QueuedApart' /\ TakenApart' /\ Ordered'
      /\ \A h \in Writer : w'[h].q = w[h].q /\ w'[h].item = w[h].item
      /\ \A h \in Writer : h # g => w'[h].pc = w[h].pc
      /\ \A h \in Writer : w'[h].pc \in Has => w[h].pc \in Has
      /\ w'[g].pc = "idle"
      /\ \A c \in Client : Last(c)' = Last(c)
      /\ \A v : Counted(v)' <=> Counted(v)
  BY <1>1, CoreMoves DEF Has
<1>3. w[g].pc \in Has /\ u \in Units /\ Counted(u)
  BY <1>1, Contents DEF Has
<1>4. future'[u] = w[g].pc /\ \A v \in Units : v # u => future'[v] = future[v]
  BY <1>1, <1>3 DEF Typed
<1>5. Numbered'
  BY <1>1, <1>2, <1>3, <1>4 DEF Core, Numbered
<1>6. NotYet'
  BY <1>1, <1>2 DEF Core, NotYet
<1>7. Done'
  BY <1>1, <1>2 DEF Core, Done
<1>8. Answered'
  <2>1. /\ \A h \in Writer : \A i \in 1..Len(w[h].q) : w[h].q[i].unit # u
        /\ \A h \in Writer : h # g /\ w[h].pc \in Has => w[h].item.unit # u
    BY <1>3 DEF Core, TakenApart
  <2>2. \A c \in Client : call[c].pc = "holding" => Last(c) # u
    BY <1>3 DEF Core, HeldApart
  <2>3. /\ w[g].pc = "ok" => \E k \in 1..Len(log) : log[k] = u
        /\ w[g].pc = "error" => \A k \in 1..Len(log) : log[k] # u
    BY DEF Core, Done, NotYet
  <2> SUFFICES ASSUME NEW v \in Units
               PROVE  /\ future'[v] = "ok" => \E k \in 1..Len(log) : log[k] = v
                      /\ future'[v] = "error" => \A k \in 1..Len(log) : log[k] # v
                      /\ future'[v] # "open" =>
                          /\ \A c \in Client : call[c].pc = "holding" => Last(c) # v
                          /\ \A h \in Writer : /\ w'[h].pc \in Has => w[h].item.unit # v
                                               /\ \A i \in 1..Len(w[h].q) : w[h].q[i].unit # v
    BY <1>1, <1>2 DEF Answered
  <2>4. CASE v = u
    BY <1>2, <1>4, <2>1, <2>2, <2>3, <2>4 DEF Has
  <2>5. CASE v # u
    BY <1>2, <1>4, <2>5 DEF Core, Answered
  <2>6. QED
    BY <2>4, <2>5
<1>9. QED
  BY <1>2, <1>5, <1>6, <1>7, <1>8 DEF Core

LEMMA CoreTake ==
    ASSUME Typed, Core, NEW g \in Writer, Take(g)
    PROVE  Core'
<1>1. /\ UNCHANGED <<log, future, asked, call, told>> /\ w[g].pc = "idle"
      /\ \A c \in Client : Last(c)' = Last(c)
      /\ \A u : Counted(u)' <=> Counted(u)
  BY DEF Take, Last, Counted, lifeVars
<1> DEFINE x == w[g].q[1]
<1>2. /\ \A h \in Writer \ {g} : w'[h] = w[h]
      /\ Len(w[g].q) \in Nat \ {0} /\ 1 \in 1..Len(w[g].q)
      /\ Len(w'[g].q) = Len(w[g].q) - 1
      /\ \A i \in 1..Len(w'[g].q) : i + 1 \in 1..Len(w[g].q) /\ w'[g].q[i] = w[g].q[i + 1]
      /\ w'[g].item = x /\ x \in Item
      /\ w'[g].txn = w[g].txn
      /\ w'[g].pc = IF x = Sentinel THEN "gone" ELSE "busy"
  BY TakeMoves
<1>3. /\ w'[g].pc \in Has => w'[g].pc = "busy" /\ x \in Work
      /\ w'[g].pc \notin {"wrote", "ok", "error"}
  BY <1>2, WorkIsUnits DEF Has
<1>4. x \in Work =>
        /\ x.unit \in Units /\ Counted(x.unit)
        /\ \A c \in Client : call[c].pc = "holding" => x.unit # Last(c)
        /\ \A k \in 1..Len(log) : log[k] # x.unit
        /\ \A h \in Writer : w[h].pc \in Has => w[h].item.unit # x.unit
        /\ \A h \in Writer : \A i \in 1..Len(w[h].q) : w[h].q[i].unit = x.unit => h = g /\ i = 1
        /\ \A i \in 1..Len(w[g].q) : i > 1 /\ w[g].q[i] \in Work => Before(x.unit, w[g].q[i].unit)
        /\ future[x.unit] = "open"
  <2> SUFFICES ASSUME x \in Work
               PROVE  /\ x.unit \in Units /\ Counted(x.unit)
                      /\ \A c \in Client : call[c].pc = "holding" => x.unit # Last(c)
                      /\ \A k \in 1..Len(log) : log[k] # x.unit
                      /\ \A h \in Writer : w[h].pc \in Has => w[h].item.unit # x.unit
                      /\ \A h \in Writer : \A i \in 1..Len(w[h].q) :
                            w[h].q[i].unit = x.unit => h = g /\ i = 1
                      /\ \A i \in 1..Len(w[g].q) : i > 1 /\ w[g].q[i] \in Work =>
                            Before(x.unit, w[g].q[i].unit)
                      /\ future[x.unit] = "open"
    OBVIOUS
  <2>1. x.unit \in Units /\ Counted(x.unit)
    BY <1>2, WorkIsUnits DEF Core, Numbered
  <2>2. \A c \in Client : call[c].pc = "holding" => x.unit # Last(c)
    BY <1>2 DEF Core, HeldApart
  <2>3. \A k \in 1..Len(log) : log[k] # x.unit
    BY <1>2 DEF Core, NotYet
  <2>4. \A h \in Writer : w[h].pc \in Has => w[h].item.unit # x.unit
    BY <1>2 DEF Core, TakenApart
  <2>5. \A h \in Writer : \A i \in 1..Len(w[h].q) : w[h].q[i].unit = x.unit => h = g /\ i = 1
    BY <1>2 DEF Core, QueuedApart
  <2>6. \A i \in 1..Len(w[g].q) : i > 1 /\ w[g].q[i] \in Work => Before(x.unit, w[g].q[i].unit)
    <3> SUFFICES ASSUME NEW i \in 1..Len(w[g].q), i > 1, w[g].q[i] \in Work
                 PROVE  Before(x.unit, w[g].q[i].unit)
      OBVIOUS
    <3>1. 1 \in 1..(i - 1)
      BY <1>2
    <3>2. QED
      BY <3>1 DEF Core, Ordered
  <2>7. future[x.unit] = "open"
    BY <1>2, <2>1 DEF Core, Answered
  <2>8. QED
    BY <2>1, <2>2, <2>3, <2>4, <2>5, <2>6, <2>7
<1>5. /\ \A h \in Writer : \A i \in 1..Len(w'[h].q) :
            \/ h # g /\ i \in 1..Len(w[h].q) /\ w'[h].q[i] = w[h].q[i]
            \/ h = g /\ i + 1 \in 1..Len(w[h].q) /\ w'[h].q[i] = w[h].q[i + 1]
      /\ \A h \in Writer : w'[h].pc \in Has =>
            \/ h # g /\ w[h].pc \in Has /\ w'[h].item = w[h].item
            \/ h = g /\ x \in Work /\ w'[h].item = x
  BY <1>2, <1>3
<1> HIDE DEF x
<1>6. InHand'
  <2>1. \A h \in Writer : w'[h].pc \in Has => w'[h].item \in Work
    BY <1>5 DEF Core, InHand
  <2>2. \A h \in Writer : w'[h].txn = IF w'[h].pc = "wrote" THEN <<w'[h].item.unit>> ELSE <<>>
    BY <1>1, <1>2, <1>3 DEF Core, InHand
  <2>3. QED
    BY <1>1, <2>1, <2>2 DEF Core, InHand
<1>7. Numbered'
  <2>1. \A h \in Writer : w'[h].pc \in Has => Counted(w'[h].item.unit)
    BY <1>4, <1>5 DEF Core, Numbered
  <2>2. \A h \in Writer : \A i \in 1..Len(w'[h].q) :
            w'[h].q[i] \in Work => Counted(w'[h].q[i].unit)
    BY <1>5 DEF Core, Numbered
  <2>3. QED
    BY <1>1, <2>1, <2>2 DEF Core, Numbered
<1>8. HeldApart'
  <2> SUFFICES ASSUME NEW c \in Client, call[c].pc = "holding", NEW h \in Writer
               PROVE  /\ \A i \in 1..Len(w'[h].q) : w'[h].q[i].unit # Last(c)
                      /\ w'[h].pc \in Has => w'[h].item.unit # Last(c)
    BY <1>1 DEF HeldApart
  <2>1. \A i \in 1..Len(w[h].q) : w[h].q[i].unit # Last(c)
    BY DEF Core, HeldApart
  <2>2. w[h].pc \in Has => w[h].item.unit # Last(c)
    BY DEF Core, HeldApart
  <2>3. \A i \in 1..Len(w'[h].q) : w'[h].q[i].unit # Last(c)
    BY <1>5, <2>1
  <2>4. x \in Work => x.unit # Last(c)
    BY <1>4
  <2>5. w'[h].pc \in Has => w'[h].item.unit # Last(c)
    BY <1>5, <2>2, <2>4
  <2>6. QED
    BY <2>3, <2>5
<1>9. QueuedApart'
  <2> SUFFICES ASSUME NEW h \in Writer, NEW k \in Writer,
                      NEW i \in 1..Len(w'[h].q), NEW j \in 1..Len(w'[k].q),
                      w'[h].q[i] \in Work, w'[h].q[i].unit = w'[k].q[j].unit
               PROVE  h = k /\ i = j
    BY DEF QueuedApart
  <2> DEFINE a == IF h = g THEN i + 1 ELSE i
             b == IF k = g THEN j + 1 ELSE j
  <2>1. /\ a \in 1..Len(w[h].q) /\ w'[h].q[i] = w[h].q[a]
        /\ b \in 1..Len(w[k].q) /\ w'[k].q[j] = w[k].q[b]
    BY <1>5
  <2>2. w[h].q[a] \in Work /\ w[h].q[a].unit = w[k].q[b].unit
    BY <2>1
  <2> HIDE DEF a, b
  <2>3. h = k /\ a = b
    BY <2>1, <2>2 DEF Core, QueuedApart
  <2>4. QED
    BY <2>3 DEF a, b
<1>10. TakenApart'
  <2> SUFFICES ASSUME NEW h \in Writer, NEW k \in Writer, w'[h].pc \in Has
               PROVE  /\ \A i \in 1..Len(w'[k].q) : w'[k].q[i].unit # w'[h].item.unit
                      /\ w'[k].pc \in Has /\ w'[k].item.unit = w'[h].item.unit => k = h
    BY DEF TakenApart
  <2>1. CASE h # g /\ w[h].pc \in Has /\ w'[h].item = w[h].item
    <3>1. \A i \in 1..Len(w[k].q) : w[k].q[i].unit # w[h].item.unit
      BY <2>1 DEF Core, TakenApart
    <3>2. w[k].pc \in Has /\ w[k].item.unit = w[h].item.unit => k = h
      BY <2>1 DEF Core, TakenApart
    <3>3. QED
      BY <1>4, <1>5, <2>1, <3>1, <3>2
  <2>2. CASE h = g /\ x \in Work /\ w'[h].item = x
    <3>1. \A i \in 1..Len(w'[k].q) : w'[k].q[i].unit # x.unit
      <4> SUFFICES ASSUME NEW i \in 1..Len(w'[k].q), w'[k].q[i].unit = x.unit PROVE FALSE
        OBVIOUS
      <4>1. CASE k # g
        BY <1>4, <1>5, <2>2, <4>1
      <4>2. CASE k = g
        <5>1. i + 1 \in 1..Len(w[g].q) /\ w[g].q[i + 1].unit = x.unit
          BY <1>5, <4>2
        <5>2. i + 1 = 1
          BY <1>4, <2>2, <5>1
        <5>3. QED
          BY <5>2
      <4>3. QED
        BY <4>1, <4>2
    <3>2. w'[k].pc \in Has /\ w'[k].item.unit = x.unit => k = g
      BY <1>4, <1>5, <2>2
    <3>3. QED
      BY <2>2, <3>1, <3>2
  <2>3. QED
    BY <1>5, <2>1, <2>2
<1>11. NotYet'
  <2> SUFFICES ASSUME NEW k \in 1..Len(log)
               PROVE  /\ \A c \in Client : call[c].pc = "holding" => log[k] # Last(c)
                      /\ \A h \in Writer : \A i \in 1..Len(w'[h].q) : w'[h].q[i].unit # log[k]
                      /\ \A h \in Writer : w'[h].pc \in {"busy", "wrote", "error"} =>
                            w'[h].item.unit # log[k]
    BY <1>1 DEF NotYet
  <2>1. /\ \A c \in Client : call[c].pc = "holding" => log[k] # Last(c)
        /\ \A h \in Writer : \A i \in 1..Len(w[h].q) : w[h].q[i].unit # log[k]
        /\ \A h \in Writer : w[h].pc \in {"busy", "wrote", "error"} => w[h].item.unit # log[k]
    BY DEF Core, NotYet
  <2>2. \A h \in Writer : \A i \in 1..Len(w'[h].q) : w'[h].q[i].unit # log[k]
    BY <1>5, <2>1
  <2>3. \A h \in Writer : w'[h].pc \in {"busy", "wrote", "error"} => w'[h].item.unit # log[k]
    BY <1>2, <1>3, <1>4, <2>1 DEF Has
  <2>4. QED
    BY <2>1, <2>2, <2>3
<1>12. Done'
  BY <1>1, <1>2, <1>3 DEF Core, Done
<1>13. Answered'
  <2> SUFFICES ASSUME NEW u \in Units, future[u] # "open", NEW h \in Writer
               PROVE  /\ w'[h].pc \in Has => w'[h].item.unit # u
                      /\ \A i \in 1..Len(w'[h].q) : w'[h].q[i].unit # u
    BY <1>1 DEF Core, Answered
  <2>1. /\ w[h].pc \in Has => w[h].item.unit # u
        /\ \A i \in 1..Len(w[h].q) : w[h].q[i].unit # u
    BY DEF Core, Answered
  <2>2. QED
    BY <1>4, <1>5, <2>1
<1>14. Ordered'
  <2> SUFFICES ASSUME NEW h \in Writer, NEW j \in 1..Len(w'[h].q), w'[h].q[j] \in Work
               PROVE  /\ \A i \in 1..(j - 1) : w'[h].q[i] \in Work =>
                            Before(w'[h].q[i].unit, w'[h].q[j].unit)
                      /\ w'[h].pc \in Has => Before(w'[h].item.unit, w'[h].q[j].unit)
    BY DEF Ordered, Before
  <2>1. CASE h # g
    BY <1>2, <2>1 DEF Core, Ordered
  <2>2. CASE h = g
    <3>1. j + 1 \in 1..Len(w[h].q) /\ w'[h].q[j] = w[h].q[j + 1]
      BY <1>5, <2>2
    <3>2. \A i \in 1..(j - 1) : w'[h].q[i] = w[h].q[i + 1] /\ i + 1 \in 1..((j + 1) - 1)
      BY <1>2, <1>5, <2>2
    <3>3. w'[h].pc \in Has => Before(w'[h].item.unit, w'[h].q[j].unit)
      BY <1>4, <1>5, <2>2, <3>1
    <3>4. QED
      BY <3>1, <3>2, <3>3 DEF Core, Ordered
  <2>3. QED
    BY <2>1, <2>2
<1>15. QED
  BY <1>6, <1>7, <1>8, <1>9, <1>10, <1>11, <1>12, <1>13, <1>14 DEF Core

LEMMA CoreEnd ==
    ASSUME Typed, Core, NEW c \in Client, Receive(c) \/ GiveUp(c)
    PROVE  Core'
<1>1. /\ UNCHANGED <<w, log, future, asked>> /\ call[c].pc = "waiting"
      /\ call' = [call EXCEPT ![c] = Idle]
      /\ \A d \in Client : d # c => told'[d] = told[d]
  BY DEF Receive, GiveUp, Typed
<1>2. told'[c] \in {"ok", "error", "unknown"}
  <2>1. CASE GiveUp(c)
    BY <2>1 DEF GiveUp, Typed
  <2>2. CASE Receive(c)
    <3>1. future[Last(c)] # "open" /\ told'[c] = future[Last(c)]
      BY <2>2 DEF Receive, Typed
    <3>2. asked[c] > 0
      BY <1>1 DEF Core, InHand
    <3>3. QED
      BY <3>1, <3>2, LastIsUnit DEF Typed
  <2>3. QED
    BY <2>1, <2>2
<1>3. /\ call'[c].pc = "idle" /\ \A d \in Client : d # c => call'[d] = call[d]
      /\ \A d \in Client : Last(d)' = Last(d)
      /\ \A u : Counted(u)' <=> Counted(u)
  BY <1>1 DEF Typed, Idle, Last, Counted
<1>4. InHand'
  BY <1>1, <1>2, <1>3 DEF Core, InHand
<1>5. Numbered' /\ QueuedApart' /\ Done'
  BY <1>1, <1>3 DEF Core, Numbered, QueuedApart, Done
<1>6. HeldApart'
  BY <1>1, <1>3 DEF Core, HeldApart
<1>7. TakenApart'
  BY <1>1 DEF Core, TakenApart
<1>8. NotYet' /\ Answered'
  BY <1>1, <1>3 DEF Core, NotYet, Answered
<1>9. Ordered'
  BY <1>1 DEF Core, Ordered, Before
<1>10. QED
  BY <1>4, <1>5, <1>6, <1>7, <1>8, <1>9 DEF Core

LEMMA CoreStop ==
    ASSUME Typed, Core, current \in Writer, StopWriter
    PROVE  Core'
<1>1. /\ UNCHANGED <<log, future, asked, call, told>>
      /\ \A h \in Writer : /\ w'[h].q = w[h].q /\ w'[h].pc = w[h].pc
                           /\ w'[h].item = w[h].item /\ w'[h].txn = w[h].txn
      /\ \A d \in Client : Last(d)' = Last(d)
      /\ \A u : Counted(u)' <=> Counted(u)
  BY FlagMoves DEF StopWriter, Last, Counted
<1>2. InHand' /\ Numbered' /\ Done'
  <2>1. InHand'
    BY <1>1 DEF Core, InHand
  <2>2. Numbered'
    BY <1>1 DEF Core, Numbered
  <2>3. Done'
    BY <1>1 DEF Core, Done
  <2>4. QED
    BY <2>1, <2>2, <2>3
<1>3. HeldApart'
  BY <1>1 DEF Core, HeldApart
<1>4. QueuedApart'
  <2> SUFFICES ASSUME NEW h \in Writer, NEW k \in Writer,
                      NEW i \in 1..Len(w'[h].q), NEW j \in 1..Len(w'[k].q),
                      w'[h].q[i] \in Work, w'[h].q[i].unit = w'[k].q[j].unit
               PROVE  h = k /\ i = j
    BY DEF QueuedApart
  <2>1. w'[h].q = w[h].q /\ w'[k].q = w[k].q
    BY <1>1
  <2>2. QED
    BY <2>1 DEF Core, QueuedApart
<1>5. TakenApart'
  BY <1>1 DEF Core, TakenApart
<1>6. NotYet' /\ Answered'
  BY <1>1 DEF Core, NotYet, Answered
<1>7. Ordered'
  BY <1>1 DEF Core, Ordered, Before
<1>8. QED
  BY <1>2, <1>3, <1>4, <1>5, <1>6, <1>7 DEF Core

\* The sentinel is no unit: it stands for none of the units of Core.
LEMMA CoreSentinel ==
    ASSUME Typed, Core, current \in Writer, PutSentinel
    PROVE  Core'
<1>1. /\ UNCHANGED <<log, future, asked, call, told>>
      /\ \A d \in Client : Last(d)' = Last(d)
      /\ \A u : Counted(u)' <=> Counted(u)
  BY DEF PutSentinel, Last, Counted
<1>2. /\ \A h \in Writer : w'[h].pc = w[h].pc /\ w'[h].item = w[h].item /\ w'[h].txn = w[h].txn
      /\ \A h \in Writer : Len(w[h].q) \in Nat
      /\ \A h \in Writer : \A i \in 1..Len(w'[h].q) :
            \/ i \in 1..Len(w[h].q) /\ w'[h].q[i] = w[h].q[i]
            \/ h = current /\ i = Len(w[h].q) + 1 /\ w'[h].q[i] = Sentinel
  <2>1. \A h \in Writer : Len(w[h].q) \in Nat
    BY LenProperties DEF Typed
  <2>2. QED
    BY <2>1, AppendMoves DEF PutSentinel, Item
<1>3. /\ Sentinel \notin Work /\ \A u \in Units : Sentinel.unit # u
      /\ \A y \in Work : y.unit # Sentinel.unit
  BY WorkIsUnits, UnitsArePairs
<1>4. InHand'
  BY <1>1, <1>2 DEF Core, InHand
<1>5. Numbered'
  BY <1>1, <1>2, <1>3 DEF Core, Numbered
<1>6. HeldApart'
  <2>1. \A d \in Client : call[d].pc = "holding" => Sentinel.unit # Last(d)
    BY <1>3, LastIsUnit DEF Core, InHand
  <2>2. QED
    BY <1>1, <1>2, <2>1 DEF Core, HeldApart
<1>7. QueuedApart'
  <2> SUFFICES ASSUME NEW h \in Writer, NEW k \in Writer,
                      NEW i \in 1..Len(w'[h].q), NEW j \in 1..Len(w'[k].q),
                      w'[h].q[i] \in Work, w'[h].q[i].unit = w'[k].q[j].unit
               PROVE  h = k /\ i = j
    BY DEF QueuedApart
  <2>1. i \in 1..Len(w[h].q) /\ w'[h].q[i] = w[h].q[i]
    BY <1>2, <1>3
  <2>2. j \in 1..Len(w[k].q) /\ w'[k].q[j] = w[k].q[j]
    BY <1>2, <1>3
  <2>3. QED
    BY <2>1, <2>2 DEF Core, QueuedApart
<1>8. TakenApart'
  <2> SUFFICES ASSUME NEW h \in Writer, NEW k \in Writer, w[h].pc \in Has
               PROVE  /\ \A i \in 1..Len(w'[k].q) : w'[k].q[i].unit # w[h].item.unit
                      /\ w[k].pc \in Has /\ w[k].item.unit = w[h].item.unit => k = h
    BY <1>2 DEF TakenApart
  <2>1. /\ \A i \in 1..Len(w[k].q) : w[k].q[i].unit # w[h].item.unit
        /\ w[k].pc \in Has /\ w[k].item.unit = w[h].item.unit => k = h
        /\ w[h].item \in Work
    BY DEF Core, TakenApart, InHand
  <2>2. QED
    BY <1>2, <1>3, <2>1
<1>9. NotYet'
  <2>1. \A k \in 1..Len(log) : Sentinel.unit # log[k]
    BY <1>3, Contents
  <2> SUFFICES ASSUME NEW k \in 1..Len(log)
               PROVE  /\ \A c \in Client : call[c].pc = "holding" => log[k] # Last(c)
                      /\ \A h \in Writer : \A i \in 1..Len(w'[h].q) : w'[h].q[i].unit # log[k]
                      /\ \A h \in Writer : w[h].pc \in {"busy", "wrote", "error"} =>
                            w[h].item.unit # log[k]
    BY <1>1, <1>2 DEF NotYet
  <2>2. /\ \A c \in Client : call[c].pc = "holding" => log[k] # Last(c)
        /\ \A h \in Writer : \A i \in 1..Len(w[h].q) : w[h].q[i].unit # log[k]
        /\ \A h \in Writer : w[h].pc \in {"busy", "wrote", "error"} => w[h].item.unit # log[k]
    BY DEF Core, NotYet
  <2>3. QED
    BY <1>2, <2>1, <2>2
<1>10. Done'
  BY <1>1, <1>2 DEF Core, Done
<1>11. Answered'
  BY <1>1, <1>2, <1>3 DEF Core, Answered
<1>12. Ordered'
  <2> SUFFICES ASSUME NEW h \in Writer, NEW j \in 1..Len(w'[h].q), w'[h].q[j] \in Work
               PROVE  /\ \A i \in 1..(j - 1) : w'[h].q[i] \in Work =>
                            Before(w'[h].q[i].unit, w'[h].q[j].unit)
                      /\ w[h].pc \in Has => Before(w[h].item.unit, w'[h].q[j].unit)
    BY <1>2 DEF Ordered, Before
  <2>1. j \in 1..Len(w[h].q) /\ w'[h].q[j] = w[h].q[j]
    BY <1>2, <1>3
  <2>2. \A i \in 1..(j - 1) : w'[h].q[i] = w[h].q[i]
    BY <1>2, <2>1
  <2>3. QED
    BY <2>1, <2>2 DEF Core, Ordered
<1>13. QED
  BY <1>4, <1>5, <1>6, <1>7, <1>8, <1>9, <1>10, <1>11, <1>12 DEF Core

LEMMA CoreRestart ==
    ASSUME Typed, Core, Restart
    PROVE  Core'
<1>1. /\ UNCHANGED <<log, asked>>
      /\ \A h \in Writer : w'[h].pc = "idle" /\ w'[h].q = <<>> /\ w'[h].txn = <<>>
      /\ \A c \in Client : call'[c].pc = "idle" /\ told'[c] = "none"
      /\ \A u \in Units : future'[u] = "open"
      /\ \A u : Counted(u)' <=> Counted(u)
  BY DEF Restart, NewWriter, Idle, Counted
<1>2. \A h \in Writer : Len(w'[h].q) = 0
  BY <1>1
<1>3. InHand' /\ Numbered' /\ Done'
  BY <1>1, <1>2 DEF Core, InHand, Numbered, Done, Has
<1>4. HeldApart' /\ QueuedApart' /\ TakenApart'
  BY <1>1, <1>2 DEF HeldApart, QueuedApart, TakenApart, Has
<1>5. NotYet' /\ Answered' /\ Ordered'
  BY <1>1, <1>2 DEF NotYet, Answered, Ordered, Has
<1>6. QED
  BY <1>3, <1>4, <1>5 DEF Core

LEMMA StepCore == Typed /\ Core /\ [Next]_vars => Core'
<1> SUFFICES ASSUME Typed, Core, [Next]_vars PROVE Core'
  OBVIOUS
<1>1. Typed'
  BY StepTyped DEF Core
<1>2. CASE UNCHANGED vars
  BY <1>2, CoreSame DEF vars
<1>3. ASSUME NEW c \in Client, NEW kind \in {"write", "checkpoint"}, Hand(c, kind) PROVE Core'
  BY <1>1, <1>3, CoreHand
<1>4. ASSUME NEW c \in Client, Put(c) \/ Receive(c) \/ GiveUp(c) PROVE Core'
  BY <1>1, <1>4, CorePut, CoreEnd
<1>5. ASSUME NEW c \in Client, BeginRead(c) \/ EndRead(c) \/ ThreadEnds(c) PROVE Core'
  BY <1>5, CoreSame DEF BeginRead, EndRead, ThreadEnds
<1>6. ASSUME NEW g \in Writer, Run(g) \/ Fail(g) PROVE Core'
  BY <1>6, CoreTake, CoreLeave, CoreLog, CoreSet DEF Run
<1>7. current = 0 \/ current \in Writer
  BY StoreOK DEF Typed, Writer
<1>8. ASSUME StopWriter \/ PutSentinel PROVE Core'
  <2>1. CASE current \in Writer
    BY <1>8, <2>1, CoreStop, CoreSentinel
  <2>2. CASE current = 0
    <3>1. w' = w
      <4>1. 0 \notin Writer /\ w = [g \in Writer |-> w[g]]
        BY DEF Writer, Typed
      <4>2. QED
        BY <1>8, <2>2, <4>1 DEF StopWriter, PutSentinel
    <3>2. QED
      BY <1>8, <3>1, CoreSame DEF StopWriter, PutSentinel
  <2>3. QED
    BY <1>7, <2>1, <2>2
<1>9. ASSUME StopServices \/ CloseReaders \/ Joined \/ JoinTimesOut PROVE Core'
  BY <1>9, CoreSame DEF StopServices, CloseReaders, Joined, JoinTimesOut
<1>10. ASSUME Restart PROVE Core'
  BY <1>10, CoreRestart
<1>11. QED
  BY <1>2, <1>3, <1>4, <1>5, <1>6, <1>8, <1>9, <1>10 DEF Next

(* The refinement: every step is one of the abstract store, or none.       *)

InOpen(u) ==
    \/ \E c \in Client : call[c].pc = "holding" /\ u = Last(c)
    \/ \E g \in Writer : \E i \in 1..Len(w[g].q) : w[g].q[i] # Sentinel /\ u = w[g].q[i].unit
    \/ \E g \in Writer : w[g].pc \in {"busy", "wrote"} /\ u = w[g].item.unit

LEMMA OpenIsState == \A u : u \in Open <=> InOpen(u)
<1> TAKE u
<1>1. u \in Carried <=> \E c \in Client : call[c].pc = "holding" /\ u = Last(c)
  BY DEF Carried
<1>2. \A g : u \in Queued(g) <=> \E i \in 1..Len(w[g].q) : w[g].q[i] # Sentinel /\ u = w[g].q[i].unit
  BY DEF Queued
<1>3. u \in Executing <=> \E g \in Writer : w[g].pc \in {"busy", "wrote"} /\ u = w[g].item.unit
  BY DEF Executing
<1> DEFINE B == UNION {Queued(g) : g \in Writer}
<1>4. u \in B <=> \E g \in Writer : u \in Queued(g)
  OBVIOUS
<1>5. Open = Carried \cup Executing \cup B
  BY Zenon DEF Open
<1> HIDE DEF B
<1>6. QED
  BY <1>1, <1>2, <1>3, <1>4, <1>5 DEF InOpen

LEMMA OpenIs ==
    /\ \A u : u \in Open <=> InOpen(u)
    /\ \A u : u \in Open' <=> InOpen(u)'
<1>1. (\A u : u \in Open <=> InOpen(u))'
  BY OpenIsState, PTL
<1>2. QED
  BY <1>1, OpenIsState

LEMMA SameOpen ==
    ASSUME \A u : InOpen(u)' <=> InOpen(u), UNCHANGED <<log, asked, told>>
    PROVE  UNCHANGED Abstract!vars
<1>1. Open' = Open
  BY OpenIs
<1>2. QED
  BY <1>1 DEF Abstract!vars

LEMMA HandAsks ==
    ASSUME Typed, Typed', Core, NEW c \in Client, NEW kind \in {"write", "checkpoint"}, Hand(c, kind)
    PROVE  Abstract!Ask(c)
<1>1. /\ UNCHANGED <<w, log>> /\ asked' = [asked EXCEPT ![c] = @ + 1]
      /\ told' = [told EXCEPT ![c] = "pending"]
      /\ call[c].pc = "idle" /\ call'[c].pc = "holding"
      /\ \A d \in Client : d # c => call'[d] = call[d] /\ Last(d)' = Last(d)
      /\ Last(c)' = <<c, asked[c] + 1>>
  BY DEF Hand, Typed, Last, Idle
<1>2. \A u : InOpen(u)' <=> InOpen(u) \/ u = <<c, asked[c] + 1>>
  BY <1>1 DEF InOpen
<1>3. Open' = Open \cup {<<c, asked[c] + 1>>}
  BY <1>2, OpenIs
<1>4. told[c] # "pending"
  BY <1>1 DEF Core, InHand
<1>5. QED
  BY <1>1, <1>3, <1>4 DEF Abstract!Ask

LEMMA PutStutters ==
    ASSUME Typed, Typed', Core, NEW c \in Client, Put(c)
    PROVE  UNCHANGED Abstract!vars
<1> DEFINE o == call[c].of
           x == [unit |-> Last(c), kind |-> call[c].kind]
<1>1. /\ call[c].pc = "holding" /\ call[c].of \in Writer
      /\ call[c].kind \in {"write", "checkpoint"} /\ asked[c] > 0
  BY StoreOK DEF Put, Typed, Writer, Idle, Core, InHand
<1>2. x \in Work /\ x \in Item /\ x.unit = Last(c) /\ x # Sentinel
  BY <1>1, LastIsUnit, WorkIsUnits DEF Work, Item
<1>3. /\ UNCHANGED <<log, asked, told>> /\ w' = [w EXCEPT ![o].q = Append(@, x)]
      /\ call'[c].pc = "waiting" /\ \A d \in Client : d # c => call'[d] = call[d]
      /\ \A d \in Client : Last(d)' = Last(d)
  BY DEF Put, Typed, Last
<1> HIDE DEF o, x
<1>4. /\ \A g \in Writer : w'[g].pc = w[g].pc /\ w'[g].item = w[g].item
      /\ \A g \in Writer : Len(w[g].q) \in Nat
      /\ \A g \in Writer : \A i \in 1..Len(w'[g].q) :
            \/ i \in 1..Len(w[g].q) /\ w'[g].q[i] = w[g].q[i]
            \/ w'[g].q[i] = x
      /\ \A g \in Writer : \A i \in 1..Len(w[g].q) :
            i \in 1..Len(w'[g].q) /\ w'[g].q[i] = w[g].q[i]
      /\ o \in Writer /\ Len(w[o].q) + 1 \in 1..Len(w'[o].q) /\ w'[o].q[Len(w[o].q) + 1] = x
  <2>1. o \in Writer
    BY <1>1 DEF o
  <2>2. \A g \in Writer : Len(w[g].q) \in Nat
    BY LenProperties DEF Typed
  <2>3. /\ \A h \in Writer : h # o => w'[h] = w[h]
        /\ Len(w'[o].q) = Len(w[o].q) + 1
        /\ \A i \in 1..Len(w[o].q) : w'[o].q[i] = w[o].q[i]
        /\ w'[o].q[Len(w[o].q) + 1] = x
        /\ w'[o].item = w[o].item /\ w'[o].pc = w[o].pc
    BY <1>2, <1>3, <2>1, AppendMoves
  <2>4. /\ Len(w[o].q) + 1 \in 1..Len(w'[o].q)
        /\ \A i \in 1..Len(w'[o].q) : i \in 1..Len(w[o].q) \/ i = Len(w[o].q) + 1
        /\ \A i \in 1..Len(w[o].q) : i \in 1..Len(w'[o].q)
    BY <2>1, <2>2, <2>3
  <2>5. QED
    BY <2>1, <2>2, <2>3, <2>4
<1>5. \A u : InOpen(u)' => InOpen(u)
  <2> SUFFICES ASSUME NEW u, InOpen(u)' PROVE InOpen(u)
    OBVIOUS
  <2>1. CASE \E d \in Client : call'[d].pc = "holding" /\ u = Last(d)'
    BY <1>3, <2>1 DEF InOpen
  <2>2. ASSUME NEW h \in Writer, NEW i \in 1..Len(w'[h].q), w'[h].q[i] # Sentinel, u = w'[h].q[i].unit
        PROVE  InOpen(u)
    <3>1. CASE w'[h].q[i] = x
      BY <1>1, <1>2, <2>2, <3>1 DEF InOpen
    <3>2. CASE i \in 1..Len(w[h].q) /\ w'[h].q[i] = w[h].q[i]
      BY <2>2, <3>2 DEF InOpen
    <3>3. QED
      BY <1>4, <3>1, <3>2
  <2>3. ASSUME NEW h \in Writer, w'[h].pc \in {"busy", "wrote"}, u = w'[h].item.unit
        PROVE  InOpen(u)
    BY <1>4, <2>3 DEF InOpen
  <2>4. QED
    BY <2>1, <2>2, <2>3 DEF InOpen
<1>6. \A u : InOpen(u) => InOpen(u)'
  <2> SUFFICES ASSUME NEW u, InOpen(u) PROVE InOpen(u)'
    OBVIOUS
  <2>1. ASSUME NEW d \in Client, call[d].pc = "holding", u = Last(d)
        PROVE  InOpen(u)'
    <3>1. CASE d = c
      BY <1>2, <1>4, <2>1, <3>1 DEF InOpen
    <3>2. CASE d # c
      BY <1>3, <2>1, <3>2 DEF InOpen
    <3>3. QED
      BY <3>1, <3>2
  <2>2. ASSUME NEW h \in Writer, NEW i \in 1..Len(w[h].q), w[h].q[i] # Sentinel, u = w[h].q[i].unit
        PROVE  InOpen(u)'
    BY <1>4, <2>2 DEF InOpen
  <2>3. ASSUME NEW h \in Writer, w[h].pc \in {"busy", "wrote"}, u = w[h].item.unit
        PROVE  InOpen(u)'
    BY <1>4, <2>3 DEF InOpen
  <2>4. QED
    BY <2>1, <2>2, <2>3 DEF InOpen
<1>7. QED
  BY <1>3, <1>5, <1>6, SameOpen

LEMMA TakeStutters ==
    ASSUME Typed, Core, NEW g \in Writer, Take(g)
    PROVE  UNCHANGED Abstract!vars
<1> DEFINE x == w[g].q[1]
<1>1. /\ UNCHANGED <<log, asked, call, told>> /\ w[g].pc = "idle"
      /\ \A c \in Client : Last(c)' = Last(c)
  BY DEF Take, Last, lifeVars
<1>2. /\ \A h \in Writer : h # g => w'[h] = w[h]
      /\ Len(w[g].q) \in Nat \ {0} /\ 1 \in 1..Len(w[g].q)
      /\ Len(w'[g].q) = Len(w[g].q) - 1
      /\ \A i \in 1..Len(w'[g].q) : i + 1 \in 1..Len(w[g].q) /\ w'[g].q[i] = w[g].q[i + 1]
      /\ w'[g].item = x
      /\ w'[g].pc = IF x = Sentinel THEN "gone" ELSE "busy"
  BY TakeMoves
<1>3. ASSUME NEW i \in 1..Len(w[g].q), i # 1
      PROVE  i - 1 \in 1..Len(w'[g].q) /\ w'[g].q[i - 1] = w[g].q[i]
  <2>1. i - 1 \in 1..Len(w'[g].q)
    BY <1>2, <1>3
  <2>2. w'[g].q[i - 1] = w[g].q[(i - 1) + 1]
    BY <1>2, <2>1
  <2>3. (i - 1) + 1 = i
    OBVIOUS
  <2>4. QED
    BY <2>1, <2>2, <2>3
<1> HIDE DEF x
<1>4. \A u : InOpen(u)' => InOpen(u)
  <2> SUFFICES ASSUME NEW u, InOpen(u)' PROVE InOpen(u)
    OBVIOUS
  <2>1. CASE \E c \in Client : call[c].pc = "holding" /\ u = Last(c)
    BY <2>1 DEF InOpen
  <2>2. ASSUME NEW h \in Writer, NEW i \in 1..Len(w'[h].q), w'[h].q[i] # Sentinel, u = w'[h].q[i].unit
        PROVE  InOpen(u)
    <3>1. CASE h = g
      BY <1>2, <2>2, <3>1 DEF InOpen
    <3>2. CASE h # g
      BY <1>2, <2>2, <3>2 DEF InOpen
    <3>3. QED
      BY <3>1, <3>2
  <2>3. ASSUME NEW h \in Writer, w'[h].pc \in {"busy", "wrote"}, u = w'[h].item.unit
        PROVE  InOpen(u)
    <3>1. CASE h = g
      <4>1. x # Sentinel /\ u = x.unit
        BY <1>2, <2>3, <3>1
      <4>2. QED
        BY <1>2, <4>1 DEF InOpen, x
    <3>2. CASE h # g
      BY <1>2, <2>3, <3>2 DEF InOpen
    <3>3. QED
      BY <3>1, <3>2
  <2>4. QED
    BY <1>1, <2>1, <2>2, <2>3 DEF InOpen
<1>5. \A u : InOpen(u) => InOpen(u)'
  <2> SUFFICES ASSUME NEW u, InOpen(u) PROVE InOpen(u)'
    OBVIOUS
  <2>1. CASE \E c \in Client : call[c].pc = "holding" /\ u = Last(c)
    BY <1>1, <2>1 DEF InOpen
  <2>2. ASSUME NEW h \in Writer, NEW i \in 1..Len(w[h].q), w[h].q[i] # Sentinel, u = w[h].q[i].unit
        PROVE  InOpen(u)'
    <3>1. CASE h = g /\ i = 1
      BY <1>2, <2>2, <3>1 DEF InOpen, x
    <3>2. CASE h = g /\ i # 1
      BY <1>3, <2>2, <3>2 DEF InOpen
    <3>3. CASE h # g
      BY <1>2, <2>2, <3>3 DEF InOpen
    <3>4. QED
      BY <3>1, <3>2, <3>3
  <2>3. ASSUME NEW h \in Writer, w[h].pc \in {"busy", "wrote"}, u = w[h].item.unit
        PROVE  InOpen(u)'
    BY <1>1, <1>2, <2>3 DEF InOpen
  <2>4. QED
    BY <2>1, <2>2, <2>3 DEF InOpen
<1>6. QED
  BY <1>1, <1>4, <1>5, SameOpen

LEMMA EndAnswers ==
    ASSUME Typed, Core, NEW c \in Client, Receive(c) \/ GiveUp(c)
    PROVE  Abstract!Answer(c) \/ Abstract!GiveUp(c)
<1>1. /\ UNCHANGED <<w, log, asked>> /\ call[c].pc = "waiting"
      /\ call' = [call EXCEPT ![c] = Idle]
      /\ \A d \in Client : Last(d)' = Last(d)
  BY DEF Receive, GiveUp, Last
<1>2. call'[c].pc = "idle" /\ \A d \in Client : d # c => call'[d] = call[d]
  BY <1>1 DEF Typed, Idle
<1>3. \A u : InOpen(u)' <=> InOpen(u)
  BY <1>1, <1>2 DEF InOpen
<1>4. Open' = Open
  BY <1>3, OpenIs
<1>5. told[c] = "pending" /\ asked[c] > 0
  BY <1>1 DEF Core, InHand
<1>6. ASSUME GiveUp(c) PROVE Abstract!GiveUp(c)
  BY <1>1, <1>4, <1>5, <1>6 DEF GiveUp, Abstract!GiveUp
<1>7. ASSUME Receive(c) PROVE Abstract!Answer(c)
  <2> DEFINE u == Last(c)
  <2>1. u \in Units /\ future[u] # "open" /\ told' = [told EXCEPT ![c] = future[u]]
    BY <1>5, <1>7, LastIsUnit DEF Receive
  <2>2. /\ \A d \in Client : call[d].pc = "holding" => Last(d) # u
        /\ \A g \in Writer : /\ w[g].pc \in Has => w[g].item.unit # u
                             /\ \A i \in 1..Len(w[g].q) : w[g].q[i].unit # u
    BY <2>1 DEF Core, Answered
  <2>3. ~InOpen(u)
    BY <2>2 DEF InOpen, Has
  <2>4. Last(c) \notin Open
    BY <2>3, OpenIs
  <2>5. future[u] = IF Abstract!TookEffect(u) THEN "ok" ELSE "error"
    <3>1. future[u] \in {"ok", "error"}
      BY <2>1 DEF Typed
    <3>2. /\ future[u] = "ok" => \E k \in 1..Len(log) : log[k] = u
          /\ future[u] = "error" => \A k \in 1..Len(log) : log[k] # u
      BY <2>1 DEF Core, Answered
    <3> HIDE DEF u
    <3>3. QED
      BY <3>1, <3>2 DEF Abstract!TookEffect
  <2>6. Abstract!Last(c) = Last(c)
    BY DEF Abstract!Last, Last
  <2>7. QED
    BY <1>1, <1>4, <1>5, <2>1, <2>4, <2>5, <2>6 DEF Abstract!Answer
<1>8. QED
  BY <1>6, <1>7

LEMMA RunStutters ==
    ASSUME Typed, Core, NEW g \in Writer, LeaveWhenEmpty(g) \/ Execute(g) \/ SetFuture(g)
    PROVE  UNCHANGED Abstract!vars
<1>1. /\ UNCHANGED <<log, asked, call, told>>
      /\ \A h \in Writer : h # g => w'[h] = w[h]
      /\ w'[g].q = w[g].q /\ w'[g].item = w[g].item
      /\ w'[g].pc \in {"busy", "wrote"} <=> w[g].pc \in {"busy", "wrote"}
      /\ \A d \in Client : Last(d)' = Last(d)
  <2>1. UNCHANGED <<log, asked, call, told>> /\ \A d \in Client : Last(d)' = Last(d)
    BY DEF LeaveWhenEmpty, Execute, SetFuture, Last
  <2>2. ASSUME LeaveWhenEmpty(g) PROVE w[g].pc = "idle" /\ Moves(g, "gone", <<>>)
    BY <2>2, StepMoves DEF LeaveWhenEmpty, Core
  <2>3. ASSUME Execute(g) PROVE w[g].pc = "busy" /\ Moves(g, "wrote", <<w[g].item.unit>>)
    BY <2>3, StepMoves DEF Execute, Core
  <2>4. ASSUME SetFuture(g) PROVE w[g].pc \in {"ok", "error"} /\ Moves(g, "idle", <<>>)
    BY <2>4, StepMoves DEF SetFuture, Core
  <2>5. QED
    BY <2>1, <2>2, <2>3, <2>4 DEF Moves
<1>2. \A u : InOpen(u)' <=> InOpen(u)
  BY <1>1 DEF InOpen
<1>3. QED
  BY <1>1, <1>2, SameOpen

LEMMA UnitsResolve ==
    ASSUME Typed, Core, NEW g \in Writer, Commit(g) \/ Checkpoint(g) \/ Fail(g)
    PROVE  \E u \in Open : Abstract!Take(u) \/ Abstract!Refuse(u)
<1> DEFINE u == w[g].item.unit
<1>1. /\ UNCHANGED <<asked, call, told>> /\ w[g].pc \in {"busy", "wrote"}
      /\ Fail(g) => UNCHANGED log
      /\ Commit(g) \/ Checkpoint(g) => log' = Append(log, u)
      /\ \A d \in Client : Last(d)' = Last(d)
  BY StepMoves DEF Commit, Checkpoint, Fail, Core, Last
<1>2. /\ \A h \in Writer : h # g => w'[h] = w[h]
      /\ w'[g].q = w[g].q /\ w'[g].pc \in {"ok", "error"}
  BY StepMoves DEF Moves, Core
<1>3. u \in Units /\ w[g].pc \in Has
  BY <1>1, Contents DEF Has
<1>4. InOpen(u)
  BY <1>1 DEF InOpen
<1>5. \A v : InOpen(v)' <=> InOpen(v) /\ v # u
  <2>1. /\ \A h \in Writer : \A i \in 1..Len(w[h].q) : w[h].q[i].unit # u
        /\ \A h \in Writer : h # g /\ w[h].pc \in Has => w[h].item.unit # u
    BY <1>3 DEF Core, TakenApart
  <2>2. \A d \in Client : call[d].pc = "holding" => Last(d) # u
    BY <1>3 DEF Core, HeldApart
  <2>3. ASSUME NEW v, v # u, InOpen(v) PROVE InOpen(v)'
    <3>1. CASE \E c \in Client : call[c].pc = "holding" /\ v = Last(c)
      BY <1>1, <3>1 DEF InOpen
    <3>2. CASE \E h \in Writer : \E i \in 1..Len(w[h].q) : w[h].q[i] # Sentinel /\ v = w[h].q[i].unit
      <4>1. \A h \in Writer : w'[h].q = w[h].q
        BY <1>2
      <4>2. QED
        BY <3>2, <4>1 DEF InOpen
    <3>3. CASE \E h \in Writer : w[h].pc \in {"busy", "wrote"} /\ v = w[h].item.unit
      <4>1. PICK h \in Writer : w[h].pc \in {"busy", "wrote"} /\ v = w[h].item.unit
        BY <3>3
      <4>2. h # g /\ w'[h] = w[h]
        BY <1>2, <2>3, <4>1
      <4>3. QED
        BY <4>1, <4>2 DEF InOpen
    <3>4. QED
      BY <2>3, <3>1, <3>2, <3>3 DEF InOpen
  <2>4. ASSUME NEW v, InOpen(v)' PROVE InOpen(v) /\ v # u
    <3>1. CASE \E c \in Client : call'[c].pc = "holding" /\ v = Last(c)'
      BY <1>1, <2>2, <3>1 DEF InOpen
    <3>2. CASE \E h \in Writer : \E i \in 1..Len(w'[h].q) : w'[h].q[i] # Sentinel /\ v = w'[h].q[i].unit
      <4>1. \A h \in Writer : w'[h].q = w[h].q
        BY <1>2
      <4>2. QED
        BY <2>1, <3>2, <4>1 DEF InOpen
    <3>3. CASE \E h \in Writer : w'[h].pc \in {"busy", "wrote"} /\ v = w'[h].item.unit
      <4>1. PICK h \in Writer : w'[h].pc \in {"busy", "wrote"} /\ v = w'[h].item.unit
        BY <3>3
      <4>2. h # g /\ w'[h] = w[h]
        BY <1>2, <4>1
      <4>3. v # u
        BY <2>1, <4>1, <4>2 DEF Has
      <4>4. QED
        BY <4>1, <4>2, <4>3 DEF InOpen
    <3>4. QED
      BY <2>4, <3>1, <3>2, <3>3 DEF InOpen
  <2>5. QED
    BY <1>4, <2>3, <2>4
<1> HIDE DEF u
<1>6. Open' = Open \ {u} /\ u \in Open
  BY <1>4, <1>5, OpenIs
<1>7. ASSUME Fail(g) PROVE Abstract!Refuse(u)
  BY <1>1, <1>6, <1>7 DEF Abstract!Refuse
<1>8. ASSUME Commit(g) \/ Checkpoint(g) PROVE Abstract!Take(u)
  BY <1>1, <1>6, <1>8 DEF Abstract!Take
<1>9. QED
  BY <1>6, <1>7, <1>8

LEMMA SentinelStutters ==
    ASSUME Typed, Core, StopWriter \/ PutSentinel
    PROVE  UNCHANGED Abstract!vars
<1>1. /\ UNCHANGED <<log, asked, call, told>> /\ \A d \in Client : Last(d)' = Last(d)
      /\ current = 0 \/ current \in Writer
  BY StoreOK DEF StopWriter, PutSentinel, Last, Typed, Writer
<1>2. ASSUME current = 0 PROVE \A u : InOpen(u)' <=> InOpen(u)
  <2>1. 0 \notin Writer /\ w = [g \in Writer |-> w[g]]
    BY DEF Writer, Typed
  <2>2. w' = w
    BY <1>2, <2>1 DEF StopWriter, PutSentinel
  <2>3. QED
    BY <1>1, <2>2 DEF InOpen
<1>3. ASSUME current \in Writer, StopWriter PROVE \A u : InOpen(u)' <=> InOpen(u)
  <2>1. \A h \in Writer : w'[h].q = w[h].q /\ w'[h].pc = w[h].pc /\ w'[h].item = w[h].item
    BY <1>3, FlagMoves DEF StopWriter
  <2>2. QED
    BY <1>1, <2>1 DEF InOpen
<1>4. ASSUME current \in Writer, PutSentinel PROVE \A u : InOpen(u)' <=> InOpen(u)
  <2>1. /\ \A h \in Writer : h # current => w'[h] = w[h]
        /\ Len(w'[current].q) = Len(w[current].q) + 1
        /\ \A i \in 1..Len(w[current].q) : w'[current].q[i] = w[current].q[i]
        /\ w'[current].q[Len(w[current].q) + 1] = Sentinel
        /\ w'[current].item = w[current].item /\ w'[current].pc = w[current].pc
        /\ Len(w[current].q) \in Nat
    BY <1>4, AppendMoves DEF PutSentinel, Item
  <2>2. \A h \in Writer : w'[h].pc = w[h].pc /\ w'[h].item = w[h].item
    BY <2>1
  <2>3. \A h \in Writer : \A i \in 1..Len(w'[h].q) : w'[h].q[i] # Sentinel =>
            i \in 1..Len(w[h].q) /\ w'[h].q[i] = w[h].q[i]
    BY <2>1
  <2>4. \A h \in Writer : \A i \in 1..Len(w[h].q) :
            i \in 1..Len(w'[h].q) /\ w'[h].q[i] = w[h].q[i]
    BY <2>1
  <2>5. \A u : InOpen(u)' => InOpen(u)
    BY <1>1, <2>2, <2>3 DEF InOpen
  <2>6. \A u : InOpen(u) => InOpen(u)'
    BY <1>1, <2>2, <2>4 DEF InOpen
  <2>7. QED
    BY <2>5, <2>6
<1>5. QED
  BY <1>1, <1>2, <1>3, <1>4, SameOpen

LEMMA RestartEnds ==
    ASSUME Restart
    PROVE  Abstract!End
<1>1. /\ \A c \in Client : call'[c].pc = "idle"
      /\ \A g \in Writer : w'[g].pc = "idle" /\ Len(w'[g].q) = 0
  BY DEF Restart, NewWriter, Idle
<1>2. \A u : ~InOpen(u)'
  BY <1>1 DEF InOpen
<1>3. Open' = {}
  BY <1>2, OpenIs
<1>4. QED
  BY <1>3 DEF Restart, Abstract!End

LEMMA StepRefines == Typed /\ Typed' /\ Core /\ [Next]_vars => [Abstract!Next]_(Abstract!vars)
<1> SUFFICES ASSUME Typed, Typed', Core, [Next]_vars PROVE [Abstract!Next]_(Abstract!vars)
  OBVIOUS
<1>1. ASSUME UNCHANGED <<w, log, asked, call, told>> PROVE UNCHANGED Abstract!vars
  BY <1>1, SameOpen DEF InOpen, Last
<1>2. CASE UNCHANGED vars
  BY <1>1, <1>2 DEF vars
<1>3. ASSUME NEW c \in Client, NEW kind \in {"write", "checkpoint"}, Hand(c, kind)
      PROVE  Abstract!Next
  BY <1>3, HandAsks DEF Abstract!Next
<1>4. ASSUME NEW c \in Client, Receive(c) \/ GiveUp(c) PROVE Abstract!Next
  BY <1>4, EndAnswers DEF Abstract!Next
<1>5. ASSUME NEW c \in Client, Put(c) PROVE UNCHANGED Abstract!vars
  BY <1>5, PutStutters
<1>6. ASSUME NEW c \in Client, BeginRead(c) \/ EndRead(c) \/ ThreadEnds(c)
      PROVE  UNCHANGED Abstract!vars
  BY <1>1, <1>6 DEF BeginRead, EndRead, ThreadEnds
<1>7. ASSUME NEW g \in Writer, Run(g) \/ Fail(g)
      PROVE  Abstract!Next \/ UNCHANGED Abstract!vars
  BY <1>7, TakeStutters, RunStutters, UnitsResolve DEF Run, Abstract!Next
<1>8. ASSUME StopServices \/ CloseReaders \/ Joined \/ JoinTimesOut PROVE UNCHANGED Abstract!vars
  BY <1>1, <1>8 DEF StopServices, CloseReaders, Joined, JoinTimesOut
<1>9. ASSUME StopWriter \/ PutSentinel PROVE UNCHANGED Abstract!vars
  BY <1>9, SentinelStutters
<1>10. ASSUME Restart PROVE Abstract!Next
  BY <1>10, RestartEnds DEF Abstract!Next
<1>11. QED
  BY <1>2, <1>3, <1>4, <1>5, <1>6, <1>7, <1>8, <1>9, <1>10 DEF Next

LEMMA InitRefines == Init => Abstract!Init
<1> SUFFICES ASSUME Init PROVE Abstract!Init
  OBVIOUS
<1>1. /\ \A c \in Client : call[c].pc = "idle"
      /\ \A g \in Writer : w[g].pc = "idle" /\ Len(w[g].q) = 0
  BY DEF Init, NewWriter, Idle
<1>2. \A u : ~InOpen(u)
  BY <1>1 DEF InOpen
<1>3. Open = {}
  BY <1>2, OpenIs
<1>4. QED
  BY <1>3 DEF Init, Abstract!Init

\* The writer, its queue, its callers and their timeouts, a stop and crashes implement the
\* abstract store: whatever a caller hands in takes effect whole, once or never, and what
\* it is told of it is true (core/db.py Writer._run, run, stop; ARCHITECTURE.md 2.2).
THEOREM WriterIsSerial == Spec => Serial
<1>1. Init => Typed /\ Core
  BY InitGood DEF Good, Core
<1>2. Typed /\ Core /\ [Next]_vars => (Typed /\ Core)'
  BY StepTyped, StepCore DEF Core
<1>3. QED
  BY <1>1, <1>2, InitRefines, StepRefines, PTL DEF Spec, Serial, Abstract!Spec

(* The order: one writer at work, unless a stop() has given up on one.     *)

Lines == Lone /\ Later /\ Sorted

LEMMA HoldsWriter ==
    ASSUME Typed
    PROVE  /\ \A c \in Client : call[c].pc # "idle" => call[c].of \in 1..made /\ call[c].of \in Writer
           /\ made \in Nat /\ current \in 0..made
           /\ \A g \in Writer : g \in Nat /\ g # 0
<1>1. /\ made \in Nat /\ current \in 0..made /\ made <= MaxWriter /\ MaxWriter \in Nat
      /\ \A g \in Writer : g \in Nat /\ g # 0
  BY StoreOK DEF Typed, Writer
<1>2. ASSUME NEW c \in Client, call[c].pc # "idle" PROVE call[c].of \in 1..made
  BY <1>2 DEF Typed, Idle
<1>3. 1..made \subseteq Writer
  BY <1>1 DEF Writer
<1>4. QED
  BY <1>1, <1>2, <1>3

LEMMA OneAtWork ==
    ASSUME Typed, Lone, NEW g \in Writer, Run(g) \/ Fail(g)
    PROVE  g <= made /\ (g = current \/ (overrun /\ phase = "closed"))
<1>1. w[g].pc # "gone" /\ ~Bare(g)
  BY DEF Run, Take, LeaveWhenEmpty, Execute, Commit, Checkpoint, SetFuture, Fail, Bare
<1>2. g \in Nat /\ made \in Nat
  BY StoreOK DEF Typed, Writer
<1>3. QED
  BY <1>1, <1>2 DEF Lone

LEMMA LoneSame ==
    ASSUME Typed, Lone, UNCHANGED <<current, made, w, overrun>>,
           phase' = "closed" <=> phase = "closed",
           \A c \in Client : call'[c].pc = "holding" => call'[c] = call[c]
    PROVE  Lone'
BY DEF Lone, Bare

LEMMA LoneHand ==
    ASSUME Typed, Lone, NEW c \in Client, NEW kind \in {"write", "checkpoint"}, Hand(c, kind)
    PROVE  Lone'
<1>1. /\ UNCHANGED <<w, overrun>> /\ call'[c].of = current'
      /\ \A d \in Client : d # c => call'[d] = call[d]
      /\ phase' = "closed" <=> phase = "closed"
  BY DEF Hand, Typed
<1>2. /\ made \in Nat /\ current \in 0..made
      /\ \/ current' = current /\ made' = made
         \/ current = 0 /\ current' = made + 1 /\ made' = made + 1
  BY StoreOK DEF Hand, Typed
<1>3. \A g \in Writer : g \in Nat /\ g # 0
  BY DEF Writer
<1>4. \A d \in Client : call[d].pc = "holding" => call[d].of \in Writer
  BY HoldsWriter
<1>5. \A g \in Writer : Bare(g)' <=> Bare(g)
  BY <1>1 DEF Bare
<1>6. \A g \in Writer : g > made' => Bare(g)'
  BY <1>2, <1>3, <1>5 DEF Lone
<1>7. (overrun' /\ phase' = "closed") \/
         \A g \in Writer : g # current' => w'[g].pc = "gone" \/ Bare(g)'
  BY <1>1, <1>2, <1>3, <1>5 DEF Lone
<1>8. \A d \in Client : (call'[d].pc = "holding" /\ ~(overrun' /\ phase' = "closed")) =>
            call'[d].of = current' \/ w'[call'[d].of].pc = "gone"
  BY <1>1, <1>2, <1>3, <1>4 DEF Lone
<1>9. QED
  BY <1>6, <1>7, <1>8 DEF Lone

\* A step of writer g alone that leaves "gone" writers gone.
LEMMA LoneStep ==
    ASSUME Typed, Lone, UNCHANGED <<current, made, overrun, call>>,
           phase' = "closed" <=> phase = "closed",
           NEW g \in Writer, g <= made, g = current \/ (overrun /\ phase = "closed"),
           \A h \in Writer : h # g => w'[h] = w[h]
    PROVE  Lone'
<1>1. \A h \in Writer : h # g => (Bare(h)' <=> Bare(h)) /\ w'[h].pc = w[h].pc
  BY DEF Bare
<1>2. g \in Nat /\ made \in Nat /\ \A h \in Writer : h \in Nat
  BY HoldsWriter
<1>3. \A h \in Writer : h > made' => Bare(h)'
  BY <1>1, <1>2 DEF Lone
<1>4. (overrun' /\ phase' = "closed") \/
         \A h \in Writer : h # current' => w'[h].pc = "gone" \/ Bare(h)'
  BY <1>1 DEF Lone
<1>5. \A d \in Client : call[d].pc = "holding" => call[d].of \in Writer
  BY HoldsWriter
<1>6. \A d \in Client : (call'[d].pc = "holding" /\ ~(overrun' /\ phase' = "closed")) =>
            call'[d].of = current' \/ w'[call'[d].of].pc = "gone"
  BY <1>1, <1>5 DEF Lone
<1>7. QED
  BY <1>3, <1>4, <1>6 DEF Lone

LEMMA LonePut ==
    ASSUME Typed, Lone, NEW c \in Client, Put(c)
    PROVE  Lone'
<1> DEFINE o == call[c].of
           x == [unit |-> Last(c), kind |-> call[c].kind]
<1>1. /\ call[c].pc = "holding" /\ o \in 1..made /\ o \in Writer /\ made \in Nat
      /\ UNCHANGED <<current, made, overrun, phase>>
      /\ w' = [w EXCEPT ![o].q = Append(@, x)]
      /\ call'[c].pc = "waiting" /\ \A d \in Client : d # c => call'[d] = call[d]
  BY StoreOK DEF Put, Typed, Writer, Idle, lifeVars
<1> HIDE DEF x
<1>2. /\ \A g \in Writer : g # o => w'[g] = w[g]
      /\ \A g \in Writer : w'[g].pc = w[g].pc
  BY <1>1 DEF Typed
<1>3. \A g \in Writer : g # o => (Bare(g)' <=> Bare(g))
  BY <1>2 DEF Bare
<1>4. (overrun /\ phase = "closed") \/ o = current \/ w[o].pc = "gone"
  BY <1>1 DEF Lone
<1>5. \A g \in Writer : g > made' => Bare(g)'
  BY <1>1, <1>3 DEF Lone, Writer
<1>6. (overrun' /\ phase' = "closed") \/
         \A g \in Writer : g # current' => w'[g].pc = "gone" \/ Bare(g)'
  BY <1>1, <1>2, <1>3, <1>4 DEF Lone
<1>7. \A d \in Client : call[d].pc = "holding" => call[d].of \in Writer
  BY HoldsWriter
<1>8. \A d \in Client : (call'[d].pc = "holding" /\ ~(overrun' /\ phase' = "closed")) =>
            call'[d].of = current' \/ w'[call'[d].of].pc = "gone"
  BY <1>1, <1>2, <1>7 DEF Lone
<1>9. QED
  BY <1>5, <1>6, <1>8 DEF Lone

LEMMA LoneLife ==
    ASSUME Typed, Lone, StopWriter \/ PutSentinel \/ Joined \/ JoinTimesOut \/ Restart
    PROVE  Lone'
<1>1. /\ current = 0 \/ current \in Writer
      /\ current <= made /\ 0 \notin Writer /\ w = [g \in Writer |-> w[g]]
      /\ \A d \in Client : call[d].pc = "holding" => call[d].of \in Writer
  BY StoreOK DEF Typed, Writer, Idle
<1>2. ASSUME StopWriter \/ PutSentinel PROVE Lone'
  <2>1. /\ UNCHANGED <<current, made, overrun, call>>
        /\ phase' # "closed" /\ phase # "closed"
    BY <1>2 DEF StopWriter, PutSentinel
  <2>2. CASE current = 0
    <3>1. w' = w
      BY <1>1, <1>2, <2>2 DEF StopWriter, PutSentinel
    <3>2. QED
      BY <2>1, <3>1, LoneSame
  <2>3. CASE current \in Writer
    <3>1. \A h \in Writer : h # current => w'[h] = w[h]
      BY <1>1, <1>2, <2>3 DEF StopWriter, PutSentinel
    <3>2. QED
      BY <1>1, <2>1, <2>3, <3>1, LoneStep
  <2>4. QED
    BY <1>1, <2>2, <2>3
<1>3. ASSUME Joined PROVE Lone'
  <2>1. /\ UNCHANGED <<made, w, call, overrun>> /\ current' = 0 /\ phase # "closed"
        /\ w[current].pc = "gone"
    BY <1>3 DEF Joined
  <2>2. \A g \in Writer : Bare(g)' <=> Bare(g)
    BY <2>1 DEF Bare
  <2>3. \A g \in Writer : w[g].pc = "gone" \/ Bare(g)
    BY <2>1 DEF Lone
  <2>4. \A d \in Client : call[d].pc = "holding" => w[call[d].of].pc = "gone"
    BY <2>1 DEF Lone
  <2>5. QED
    BY <2>1, <2>2, <2>3, <2>4 DEF Lone
<1>4. ASSUME JoinTimesOut PROVE Lone'
  <2>1. UNCHANGED <<made, w>> /\ phase' = "closed" /\ overrun'
    BY <1>4 DEF JoinTimesOut
  <2>2. QED
    BY <2>1 DEF Lone, Bare
<1>5. ASSUME Restart PROVE Lone'
  <2>1. /\ \A g \in Writer : w'[g] = NewWriter
        /\ \A d \in Client : call'[d].pc = "idle"
    BY <1>5 DEF Restart, Idle
  <2>2. \A g \in Writer : Bare(g)'
    BY <2>1 DEF Bare, NewWriter
  <2>3. QED
    BY <2>1, <2>2 DEF Lone
<1>6. QED
  BY <1>2, <1>3, <1>4, <1>5

LEMMA StepLone == Typed /\ Core /\ Lone /\ [Next]_vars => Lone'
<1> SUFFICES ASSUME Typed, Core, Lone, [Next]_vars PROVE Lone'
  OBVIOUS
<1>1. CASE UNCHANGED vars
  BY <1>1, LoneSame DEF vars
<1>2. ASSUME NEW c \in Client, Receive(c) \/ GiveUp(c) PROVE Lone'
  <2>1. /\ UNCHANGED <<current, made, w, overrun>> /\ call' = [call EXCEPT ![c] = Idle]
        /\ phase' = "closed" <=> phase = "closed"
    BY <1>2 DEF Receive, GiveUp
  <2>2. \A d \in Client : call'[d].pc = "holding" => call'[d] = call[d]
    BY <2>1 DEF Typed, Idle
  <2>3. QED
    BY <2>1, <2>2, LoneSame
<1>3. ASSUME NEW c \in Client, BeginRead(c) \/ EndRead(c) \/ ThreadEnds(c) PROVE Lone'
  BY <1>3, LoneSame DEF BeginRead, EndRead, ThreadEnds, lifeVars
<1>4. ASSUME NEW g \in Writer, Run(g) \/ Fail(g) PROVE Lone'
  <2>1. UNCHANGED <<current, made, overrun, call, phase>>
    BY <1>4 DEF Run, Take, LeaveWhenEmpty, Execute, Commit, Checkpoint, SetFuture, Fail, lifeVars
  <2>2. \A h \in Writer : h # g => w'[h] = w[h]
    BY <1>4, TakeMoves, StepMoves DEF Run, Moves, Core
  <2>3. QED
    BY <1>4, <2>1, <2>2, OneAtWork, LoneStep
<1>5. ASSUME StopServices \/ CloseReaders PROVE Lone'
  BY <1>5, LoneSame DEF StopServices, CloseReaders
<1>6. QED
  BY <1>1, <1>2, <1>3, <1>4, <1>5, LoneHand, LonePut, LoneLife DEF Next

LEMMA LinesSame ==
    ASSUME Typed, Later, Sorted, UNCHANGED <<log, w>>, overrun => overrun'
    PROVE  Later' /\ Sorted'
<1>1. Later'
  BY DEF Later, Before
<1>2. Sorted'
  BY DEF Sorted, Before
<1>3. QED
  BY <1>1, <1>2

LEMMA LinesPut ==
    ASSUME Typed, Core, Later, NEW c \in Client, Put(c)
    PROVE  Later'
<1> DEFINE o == call[c].of
           x == [unit |-> Last(c), kind |-> call[c].kind]
<1>1. /\ call[c].pc = "holding" /\ o \in Writer
      /\ call[c].kind \in {"write", "checkpoint"} /\ asked[c] > 0
  BY HoldsWriter DEF Put, Typed, Idle, Core, InHand
<1>2. x \in Work /\ x \in Item /\ x.unit = Last(c)
  BY <1>1, LastIsUnit DEF Work, Item
<1>3. UNCHANGED <<log, overrun>> /\ w' = [w EXCEPT ![o].q = Append(@, x)]
  BY DEF Put, lifeVars
<1>4. \A k \in 1..Len(log) : Before(log[k], x.unit)
  <2>1. \A k \in 1..Len(log) : log[k] \in Units /\ Counted(log[k])
    BY Contents
  <2>2. \A k \in 1..Len(log) : log[k] # Last(c)
    BY <1>1 DEF Core, NotYet
  <2>3. QED
    BY <1>2, <2>1, <2>2, LastIsNewest
<1> HIDE DEF o, x
<1>5. /\ \A g \in Writer : w'[g].pc = w[g].pc /\ w'[g].item = w[g].item
      /\ \A g \in Writer : \A i \in 1..Len(w'[g].q) :
            (i \in 1..Len(w[g].q) /\ w'[g].q[i] = w[g].q[i]) \/ w'[g].q[i] = x
  <2>1. \A g \in Writer : g # o => w'[g] = w[g]
    BY <1>1, <1>2, <1>3, AppendMoves
  <2>2. /\ Len(w[o].q) \in Nat /\ Len(w'[o].q) = Len(w[o].q) + 1
        /\ \A i \in 1..Len(w[o].q) : w'[o].q[i] = w[o].q[i]
        /\ w'[o].q[Len(w[o].q) + 1] = x
        /\ w'[o].item = w[o].item /\ w'[o].pc = w[o].pc
    BY <1>1, <1>2, <1>3, AppendMoves
  <2>3. \A i \in 1..Len(w'[o].q) : i \in 1..Len(w[o].q) \/ i = Len(w[o].q) + 1
    BY <2>2
  <2>4. \A i \in 1..Len(w'[o].q) :
            (i \in 1..Len(w[o].q) /\ w'[o].q[i] = w[o].q[i]) \/ w'[o].q[i] = x
    BY <2>2, <2>3
  <2>5. QED
    BY <2>1, <2>2, <2>4
<1> SUFFICES ASSUME ~overrun, NEW k \in 1..Len(log), NEW g \in Writer
             PROVE  /\ w'[g].pc \in {"busy", "wrote"} => Before(log[k], w'[g].item.unit)
                    /\ w'[g].pc # "gone" => \A i \in 1..Len(w'[g].q) :
                        w'[g].q[i] \in Work => Before(log[k], w'[g].q[i].unit)
  BY <1>3 DEF Later, Before
<1>6. /\ w[g].pc \in {"busy", "wrote"} => Before(log[k], w[g].item.unit)
      /\ w[g].pc # "gone" => \A i \in 1..Len(w[g].q) :
            w[g].q[i] \in Work => Before(log[k], w[g].q[i].unit)
  BY DEF Later
<1>7. QED
  BY <1>4, <1>5, <1>6

LEMMA LinesTake ==
    ASSUME Typed, Core, Later, NEW g \in Writer, Take(g)
    PROVE  Later'
<1>1. UNCHANGED <<log, overrun>> /\ w[g].pc = "idle"
  BY DEF Take, lifeVars
<1> DEFINE x == w[g].q[1]
<1>2. /\ \A h \in Writer : h # g => w'[h] = w[h]
      /\ 1 \in 1..Len(w[g].q)
      /\ \A i \in 1..Len(w'[g].q) : i + 1 \in 1..Len(w[g].q) /\ w'[g].q[i] = w[g].q[i + 1]
      /\ w'[g].item = x /\ x \in Item
      /\ w'[g].pc = IF x = Sentinel THEN "gone" ELSE "busy"
  BY TakeMoves
<1>3. x # Sentinel => x \in Work
  BY <1>2, WorkIsUnits
<1> SUFFICES ASSUME ~overrun, NEW k \in 1..Len(log), NEW h \in Writer
             PROVE  /\ w'[h].pc \in {"busy", "wrote"} => Before(log[k], w'[h].item.unit)
                    /\ w'[h].pc # "gone" => \A i \in 1..Len(w'[h].q) :
                        w'[h].q[i] \in Work => Before(log[k], w'[h].q[i].unit)
  BY <1>1 DEF Later, Before
<1>4. CASE h # g
  BY <1>2, <1>4 DEF Later
<1>5. CASE h = g
  <2>1. \A i \in 1..Len(w[g].q) : w[g].q[i] \in Work => Before(log[k], w[g].q[i].unit)
    BY <1>1 DEF Later
  <2> HIDE DEF x
  <2>2. w'[h].pc \in {"busy", "wrote"} => Before(log[k], w'[h].item.unit)
    BY <1>2, <1>3, <1>5, <2>1 DEF x
  <2>3. \A i \in 1..Len(w'[h].q) : w'[h].q[i] \in Work => Before(log[k], w'[h].q[i].unit)
    BY <1>2, <1>5, <2>1
  <2>4. QED
    BY <2>2, <2>3
<1>6. QED
  BY <1>4, <1>5

\* What takes effect is later than the log and earlier than the queue of the one writer.
LEMMA LinesLog ==
    ASSUME Typed, Core, Lines, NEW g \in Writer, Commit(g) \/ Checkpoint(g)
    PROVE  Later' /\ Sorted'
<1> DEFINE u == w[g].item.unit
<1>1. /\ Moves(g, "ok", <<>>) /\ log' = Append(log, u)
      /\ UNCHANGED overrun /\ w[g].pc \in {"busy", "wrote"}
  BY StepMoves DEF Core, Commit, Checkpoint, lifeVars
<1>2. w[g].pc \in Has /\ u \in Units
  BY <1>1, Contents DEF Has
<1>3. /\ Len(log) \in Nat /\ Len(log') = Len(log) + 1
      /\ \A k \in 1..Len(log) : log'[k] = log[k]
      /\ log'[Len(log) + 1] = u
  BY <1>1, <1>2, LogGrows
<1>4. \A i \in 1..Len(w[g].q) : w[g].q[i] \in Work => Before(u, w[g].q[i].unit)
  BY <1>2 DEF Core, Ordered
<1>5. ~overrun => \A k \in 1..Len(log) : Before(log[k], u)
  BY <1>1 DEF Lines, Later
<1>6. ~overrun => \A h \in Writer : h # g => w[h].pc = "gone" \/ Bare(h)
  BY <1>1, OneAtWork DEF Lines, Lone, Run
<1>7. /\ \A h \in Writer : h # g => w'[h] = w[h]
      /\ w'[g].q = w[g].q /\ w'[g].pc = "ok"
  BY <1>1 DEF Moves
<1> HIDE DEF u
<1>8. Later'
  <2> SUFFICES ASSUME ~overrun, NEW k \in 1..Len(log'), NEW h \in Writer
               PROVE  /\ w'[h].pc \in {"busy", "wrote"} => Before(log'[k], w'[h].item.unit)
                      /\ w'[h].pc # "gone" => \A i \in 1..Len(w'[h].q) :
                          w'[h].q[i] \in Work => Before(log'[k], w'[h].q[i].unit)
    BY <1>1 DEF Later, Before
  <2>1. CASE h # g
    <3>1. w'[h].pc = "gone" \/ (w'[h].pc = "idle" /\ w'[h].q = <<>>)
      BY <1>6, <1>7, <2>1 DEF Bare
    <3>2. QED
      BY <3>1
  <2>2. CASE h = g
    <3>1. (k \in 1..Len(log) /\ log'[k] = log[k]) \/ log'[k] = u
      BY <1>3
    <3>2. w[g].pc # "gone"
      BY <1>1
    <3>3. k \in 1..Len(log) => \A i \in 1..Len(w[g].q) :
              w[g].q[i] \in Work => Before(log[k], w[g].q[i].unit)
      BY <3>2 DEF Lines, Later
    <3>4. QED
      BY <1>4, <1>7, <2>2, <3>1, <3>3
  <2>3. QED
    BY <2>1, <2>2
<1>9. Sorted'
  <2> SUFFICES ASSUME ~overrun, NEW j \in 1..Len(log'), NEW i \in 1..(j - 1)
               PROVE  Before(log'[i], log'[j])
    BY <1>1 DEF Sorted, Before
  <2>1. i \in 1..Len(log) /\ log'[i] = log[i]
    BY <1>3
  <2>2. CASE j \in 1..Len(log)
    BY <1>3, <2>1, <2>2 DEF Lines, Sorted
  <2>3. CASE j = Len(log) + 1
    BY <1>3, <1>5, <2>1, <2>3
  <2>4. QED
    BY <1>3, <2>2, <2>3
<1>10. QED
  BY <1>8, <1>9

LEMMA LinesMoves ==
    ASSUME Typed, Core, Lines, NEW g \in Writer,
           LeaveWhenEmpty(g) \/ Execute(g) \/ SetFuture(g) \/ Fail(g)
    PROVE  Later' /\ Sorted'
<1>1. /\ UNCHANGED <<log, overrun>>
      /\ \A h \in Writer : h # g => w'[h] = w[h]
      /\ w'[g].q = w[g].q /\ w'[g].item = w[g].item
      /\ w'[g].pc \in {"busy", "wrote"} => w[g].pc \in {"busy", "wrote"}
      /\ w[g].pc # "gone"
  <2>1. UNCHANGED <<log, overrun>> /\ w[g].pc # "gone"
    BY DEF LeaveWhenEmpty, Execute, SetFuture, Fail, lifeVars
  <2>2. ASSUME LeaveWhenEmpty(g) PROVE Moves(g, "gone", <<>>)
    BY <2>2, StepMoves DEF Core
  <2>3. ASSUME Execute(g) PROVE w[g].pc = "busy" /\ Moves(g, "wrote", <<w[g].item.unit>>)
    BY <2>3, StepMoves DEF Execute, Core
  <2>4. ASSUME SetFuture(g) PROVE Moves(g, "idle", <<>>)
    BY <2>4, StepMoves DEF Core
  <2>5. ASSUME Fail(g) PROVE Moves(g, "error", <<>>)
    BY <2>5, StepMoves DEF Core
  <2>6. QED
    BY <2>1, <2>2, <2>3, <2>4, <2>5 DEF Moves
<1>2. Sorted'
  BY <1>1 DEF Lines, Sorted, Before
<1>3. Later'
  <2> SUFFICES ASSUME ~overrun, NEW k \in 1..Len(log), NEW h \in Writer
               PROVE  /\ w'[h].pc \in {"busy", "wrote"} => Before(log[k], w'[h].item.unit)
                      /\ w'[h].pc # "gone" => \A i \in 1..Len(w'[h].q) :
                          w'[h].q[i] \in Work => Before(log[k], w'[h].q[i].unit)
    BY <1>1 DEF Later, Before
  <2>1. /\ w[h].pc \in {"busy", "wrote"} => Before(log[k], w[h].item.unit)
        /\ w[h].pc # "gone" => \A i \in 1..Len(w[h].q) :
              w[h].q[i] \in Work => Before(log[k], w[h].q[i].unit)
    BY DEF Lines, Later
  <2>2. QED
    BY <1>1, <2>1
<1>4. QED
  BY <1>2, <1>3

LEMMA LinesLife ==
    ASSUME Typed, Lines, StopWriter \/ PutSentinel \/ Restart
    PROVE  Later' /\ Sorted'
<1>1. UNCHANGED <<log, overrun>>
  BY DEF StopWriter, PutSentinel, Restart
<1>2. Sorted'
  BY <1>1 DEF Lines, Sorted, Before
<1>3. current = 0 \/ current \in Writer
  BY StoreOK DEF Typed, Writer
<1>4. \A h \in Writer :
        /\ w'[h].pc \in {"busy", "wrote"} => w[h].pc = w'[h].pc /\ w'[h].item = w[h].item
        /\ \A i \in 1..Len(w'[h].q) : w'[h].q[i] \in Work =>
              w[h].pc = w'[h].pc /\ i \in 1..Len(w[h].q) /\ w'[h].q[i] = w[h].q[i]
  <2>1. ASSUME Restart, NEW h \in Writer PROVE w'[h].pc = "idle" /\ Len(w'[h].q) = 0
    BY <2>1 DEF Restart, NewWriter
  <2>2. ASSUME StopWriter \/ PutSentinel, current = 0 PROVE w' = w
    <3>1. 0 \notin Writer /\ w = [h \in Writer |-> w[h]]
      BY DEF Writer, Typed
    <3>2. QED
      BY <2>2, <3>1 DEF StopWriter, PutSentinel
  <2>3. ASSUME StopWriter, current \in Writer
        PROVE  \A h \in Writer : w'[h].q = w[h].q /\ w'[h].pc = w[h].pc /\ w'[h].item = w[h].item
    BY <2>3, FlagMoves DEF StopWriter
  <2>4. ASSUME PutSentinel, current \in Writer
        PROVE  /\ \A h \in Writer : w'[h].pc = w[h].pc /\ w'[h].item = w[h].item
               /\ \A h \in Writer : \A i \in 1..Len(w'[h].q) : w'[h].q[i] \in Work =>
                      i \in 1..Len(w[h].q) /\ w'[h].q[i] = w[h].q[i]
    <3>1. /\ \A h \in Writer : h # current => w'[h] = w[h]
          /\ Len(w[current].q) \in Nat /\ Len(w'[current].q) = Len(w[current].q) + 1
          /\ \A i \in 1..Len(w[current].q) : w'[current].q[i] = w[current].q[i]
          /\ w'[current].q[Len(w[current].q) + 1] = Sentinel
          /\ w'[current].item = w[current].item /\ w'[current].pc = w[current].pc
      BY <2>4, AppendMoves DEF PutSentinel, Item
    <3>2. \A i \in 1..Len(w'[current].q) : i \in 1..Len(w[current].q) \/ i = Len(w[current].q) + 1
      BY <3>1
    <3>3. \A i \in 1..Len(w'[current].q) : w'[current].q[i] \in Work =>
                i \in 1..Len(w[current].q) /\ w'[current].q[i] = w[current].q[i]
      BY <3>1, <3>2, WorkIsUnits
    <3>4. QED
      BY <3>1, <3>3
  <2>5. QED
    BY <1>3, <2>1, <2>2, <2>3, <2>4
<1>5. Later'
  <2> SUFFICES ASSUME ~overrun, NEW k \in 1..Len(log), NEW h \in Writer
               PROVE  /\ w'[h].pc \in {"busy", "wrote"} => Before(log[k], w'[h].item.unit)
                      /\ w'[h].pc # "gone" => \A i \in 1..Len(w'[h].q) :
                          w'[h].q[i] \in Work => Before(log[k], w'[h].q[i].unit)
    BY <1>1 DEF Later, Before
  <2>1. /\ w[h].pc \in {"busy", "wrote"} => Before(log[k], w[h].item.unit)
        /\ w[h].pc # "gone" => \A i \in 1..Len(w[h].q) :
              w[h].q[i] \in Work => Before(log[k], w[h].q[i].unit)
    BY DEF Lines, Later
  <2>2. QED
    BY <1>4, <2>1
<1>6. QED
  BY <1>2, <1>5

LEMMA StepLines == Typed /\ Core /\ Lines /\ [Next]_vars => Lines'
<1> SUFFICES ASSUME Typed, Core, Lines, [Next]_vars PROVE Lines'
  OBVIOUS
<1>1. Lone'
  BY StepLone DEF Lines
<1>2. ASSUME UNCHANGED <<log, w>>, overrun => overrun' PROVE Later' /\ Sorted'
  BY <1>2, LinesSame DEF Lines
<1>3. ASSUME UNCHANGED vars PROVE Later' /\ Sorted'
  <2>1. UNCHANGED <<log, w>> /\ overrun' = overrun
    BY <1>3 DEF vars
  <2>2. QED
    BY <1>2, <2>1
<1>4. ASSUME NEW c \in Client, \E kind \in {"write", "checkpoint"} : Hand(c, kind)
      PROVE  Later' /\ Sorted'
  BY <1>2, <1>4 DEF Hand
<1>5. ASSUME NEW c \in Client, Put(c) PROVE Later' /\ Sorted'
  <2>1. UNCHANGED <<log, overrun>>
    BY <1>5 DEF Put, lifeVars
  <2>2. Sorted'
    BY <2>1 DEF Lines, Sorted, Before
  <2>3. QED
    BY <1>5, <2>2, LinesPut DEF Lines
<1>6. ASSUME NEW c \in Client, Receive(c) \/ GiveUp(c) \/ BeginRead(c) \/ EndRead(c) \/ ThreadEnds(c)
      PROVE  Later' /\ Sorted'
  BY <1>2, <1>6 DEF Receive, GiveUp, BeginRead, EndRead, ThreadEnds, lifeVars
<1>7. ASSUME NEW g \in Writer, Take(g) PROVE Later' /\ Sorted'
  <2>1. UNCHANGED <<log, overrun>>
    BY <1>7 DEF Take, lifeVars
  <2>2. Sorted'
    BY <2>1 DEF Lines, Sorted, Before
  <2>3. QED
    BY <1>7, <2>2, LinesTake DEF Lines
<1>8. ASSUME NEW g \in Writer, Run(g) \/ Fail(g) PROVE Later' /\ Sorted'
  BY <1>7, <1>8, LinesLog, LinesMoves DEF Run
<1>9. ASSUME StopServices \/ CloseReaders \/ Joined \/ JoinTimesOut PROVE Later' /\ Sorted'
  BY <1>2, <1>9 DEF StopServices, CloseReaders, Joined, JoinTimesOut
<1>10. ASSUME StopWriter \/ PutSentinel \/ Restart PROVE Later' /\ Sorted'
  BY <1>10, LinesLife
<1>11. Later' /\ Sorted'
  BY <1>3, <1>4, <1>5, <1>6, <1>8, <1>9, <1>10 DEF Next
<1>12. QED
  BY <1>1, <1>11 DEF Lines

(* Closing: who comes to the database before and during a shutdown.        *)

LEMMA StepEarly == Typed /\ Core /\ Early /\ [Next]_vars => Early'
<1> SUFFICES ASSUME Typed, Core, Early, [Next]_vars PROVE Early'
  OBVIOUS
<1> DEFINE Late == {"telling", "closing", "closed"}
<1>1. ASSUME w' = w, phase' \in Late \/ phase \notin Late PROVE Early'
  BY <1>1 DEF Early
<1>2. CASE UNCHANGED vars
  BY <1>1, <1>2 DEF vars
<1>3. ASSUME NEW c \in Client, \E kind \in {"write", "checkpoint"} : Hand(c, kind) PROVE Early'
  BY <1>1, <1>3 DEF Hand
<1>4. ASSUME NEW c \in Client, Receive(c) \/ GiveUp(c) PROVE Early'
  BY <1>1, <1>4 DEF Receive, GiveUp
<1>5. ASSUME NEW c \in Client, BeginRead(c) \/ EndRead(c) \/ ThreadEnds(c) PROVE Early'
  BY <1>1, <1>5 DEF BeginRead, EndRead, ThreadEnds, lifeVars
<1>6. ASSUME NEW c \in Client, Put(c) PROVE Early'
  <2> DEFINE o == call[c].of
             x == [unit |-> Last(c), kind |-> call[c].kind]
  <2>1. /\ call[c].pc = "holding" /\ o \in Writer
        /\ call[c].kind \in {"write", "checkpoint"} /\ asked[c] > 0
    BY <1>6, HoldsWriter DEF Put, Typed, Idle, Core, InHand
  <2>2. x \in Work /\ x \in Item
    BY <2>1, LastIsUnit DEF Work, Item
  <2>3. UNCHANGED phase /\ w' = [w EXCEPT ![o].q = Append(@, x)]
    BY <1>6 DEF Put, lifeVars
  <2> HIDE DEF o, x
  <2>4. /\ \A h \in Writer : h # o => w'[h] = w[h]
        /\ Len(w[o].q) \in Nat /\ Len(w'[o].q) = Len(w[o].q) + 1
        /\ \A i \in 1..Len(w[o].q) : w'[o].q[i] = w[o].q[i]
        /\ w'[o].q[Len(w[o].q) + 1] = x
        /\ w'[o].stop = w[o].stop /\ w'[o].pc = w[o].pc
    BY <2>1, <2>2, <2>3, AppendMoves
  <2>5. \A i \in 1..Len(w'[o].q) : i \in 1..Len(w[o].q) \/ i = Len(w[o].q) + 1
    BY <2>4
  <2>6. QED
    BY <2>1, <2>2, <2>3, <2>4, <2>5 DEF Early
<1>7. ASSUME NEW g \in Writer, Take(g) PROVE Early'
  <2>1. UNCHANGED phase
    BY <1>7 DEF Take, lifeVars
  <2>2. /\ \A h \in Writer : h # g => w'[h] = w[h]
        /\ 1 \in 1..Len(w[g].q) /\ w'[g].stop = w[g].stop
        /\ \A i \in 1..Len(w'[g].q) : i + 1 \in 1..Len(w[g].q) /\ w'[g].q[i] = w[g].q[i + 1]
        /\ w'[g].pc = IF w[g].q[1] = Sentinel THEN "gone" ELSE "busy"
    BY <1>7, TakeMoves
  <2> SUFFICES ASSUME phase \notin Late, NEW h \in Writer
               PROVE  ~w'[h].stop /\ w'[h].pc # "gone" /\ \A i \in 1..Len(w'[h].q) : w'[h].q[i] \in Work
    BY <2>1 DEF Early
  <2>3. ~w[h].stop /\ w[h].pc # "gone" /\ \A i \in 1..Len(w[h].q) : w[h].q[i] \in Work
    BY DEF Early
  <2>4. CASE h # g
    BY <2>2, <2>3, <2>4
  <2>5. CASE h = g
    BY <2>2, <2>3, <2>5, WorkIsUnits
  <2>6. QED
    BY <2>4, <2>5
<1>8. ASSUME NEW g \in Writer, LeaveWhenEmpty(g) PROVE Early'
  <2>1. UNCHANGED phase /\ w[g].stop
    BY <1>8 DEF LeaveWhenEmpty, lifeVars
  <2>2. QED
    BY <2>1 DEF Early
<1>9. ASSUME NEW g \in Writer, Execute(g) \/ Commit(g) \/ Checkpoint(g) \/ SetFuture(g) \/ Fail(g)
      PROVE  Early'
  <2>1. UNCHANGED phase
    BY <1>9 DEF Execute, Commit, Checkpoint, SetFuture, Fail, lifeVars
  <2>2. /\ \A h \in Writer : h # g => w'[h] = w[h]
        /\ w'[g].q = w[g].q /\ w'[g].stop = w[g].stop /\ w'[g].pc # "gone"
    BY <1>9, StepMoves DEF Moves, Core
  <2>3. QED
    BY <2>1, <2>2 DEF Early
<1>10. ASSUME StopServices \/ CloseReaders \/ Joined \/ JoinTimesOut PROVE Early'
  BY <1>1, <1>10 DEF StopServices, CloseReaders, Joined, JoinTimesOut
<1>11. ASSUME StopWriter \/ PutSentinel PROVE Early'
  BY <1>11 DEF StopWriter, PutSentinel, Early
<1>12. ASSUME Restart PROVE Early'
  <2>1. \A h \in Writer : w'[h].pc = "idle" /\ Len(w'[h].q) = 0 /\ ~w'[h].stop
    BY <1>12 DEF Restart, NewWriter
  <2>2. QED
    BY <2>1 DEF Early
<1>13. QED
  BY <1>2, <1>3, <1>4, <1>5, <1>6, <1>7, <1>8, <1>9, <1>10, <1>11, <1>12 DEF Next, Run

LEMMA StepAlone == Typed /\ Alone /\ Handed /\ [Next]_vars => Alone' /\ Handed'
<1> SUFFICES ASSUME Typed, Alone, Handed, [Next]_vars, quiet' PROVE Alone' /\ Handed'
  BY DEF Alone, Handed
<1>1. ASSUME quiet, UNCHANGED <<phase, call, orphan, reader, current>> PROVE Alone' /\ Handed'
  BY <1>1 DEF Alone, Handed
<1>2. CASE UNCHANGED vars
  BY <1>1, <1>2 DEF vars
<1>3. ASSUME NEW c \in Client, NEW kind \in {"write", "checkpoint"}, Hand(c, kind)
      PROVE  Alone' /\ Handed'
  <2>1. quiet /\ c = Main /\ call[c] = Idle
    BY <1>3 DEF Hand
  <2>2. phase = "truncating" /\ kind = "checkpoint" /\ phase' = "checkpointing"
    BY <1>3, <2>1 DEF Hand, Allowed, Alone
  <2>3. /\ call'[Main].of = current' /\ call'[Main].kind = kind
        /\ \A d \in Client : d # Main => call'[d] = call[d]
        /\ \A d \in Client : reader'[d] # "reading"
        /\ orphan' = orphan
    BY <1>3, <2>1, <2>2, StoreOK DEF Hand, Typed, Alone
  <2>4. QED
    BY <2>1, <2>2, <2>3 DEF Alone, Handed
<1>4. ASSUME NEW c \in Client, Put(c) \/ Receive(c) \/ GiveUp(c) PROVE Alone' /\ Handed'
  <2>1. /\ quiet /\ call[c].pc # "idle" /\ UNCHANGED <<orphan, reader, current>>
        /\ call'[c].pc \in {"idle", "waiting"} /\ \A d \in Client : d # c => call'[d] = call[d]
    <3>1. CASE Put(c)
      BY <3>1 DEF Put, Typed, lifeVars, readVars
    <3>2. CASE Receive(c) \/ GiveUp(c)
      <4>1. /\ call[c].pc = "waiting" /\ call' = [call EXCEPT ![c] = Idle]
            /\ UNCHANGED <<orphan, reader, current, quiet>>
        BY <3>2 DEF Receive, GiveUp, readVars
      <4>2. QED
        BY <4>1 DEF Typed, Idle
    <3>3. QED
      BY <1>4, <3>1, <3>2
  <2>2. c = Main
    BY <2>1 DEF Alone, Idle
  <2>3. phase' = phase
    BY <1>4, <2>1 DEF Put, Receive, GiveUp, Alone, lifeVars
  <2>4. QED
    BY <2>1, <2>2, <2>3 DEF Alone, Handed
<1>5. ASSUME NEW c \in Client, BeginRead(c) PROVE FALSE
  BY <1>5 DEF BeginRead
<1>6. ASSUME NEW c \in Client, EndRead(c) \/ ThreadEnds(c) PROVE FALSE
  BY <1>6 DEF EndRead, ThreadEnds, Alone
<1>7. ASSUME NEW g \in Writer, Run(g) PROVE Alone' /\ Handed'
  <2>1. UNCHANGED <<phase, call, reader, current, quiet>> /\ (orphan' => orphan) /\ orphan' \in BOOLEAN
    <3>1. CASE Checkpoint(g)
      BY <3>1 DEF Checkpoint, lifeVars, Typed
    <3>2. CASE ~Checkpoint(g)
      <4>1. UNCHANGED <<phase, call, reader, current, quiet, orphan>>
        BY <1>7, <3>2 DEF Run, Take, LeaveWhenEmpty, Execute, Commit, SetFuture, lifeVars, readVars
      <4>2. QED
        BY <4>1 DEF Typed
    <3>3. QED
      BY <3>1, <3>2
  <2>2. QED
    BY <2>1 DEF Alone, Handed
<1>8. ASSUME NEW g \in Writer, Fail(g) PROVE FALSE
  BY <1>8 DEF Fail
<1>9. ASSUME StopServices PROVE FALSE
  BY <1>9 DEF StopServices, Alone
<1>10. ASSUME CloseReaders PROVE Alone' /\ Handed'
  <2>1. /\ \A c \in Client : call[c] = Idle
        /\ UNCHANGED call /\ phase' = "truncating" /\ CloseAll
    BY <1>10 DEF CloseReaders
  <2>2. ~orphan' /\ \A c \in Client : reader'[c] # "reading"
    BY <2>1 DEF CloseAll, Typed
  <2>3. QED
    BY <2>1, <2>2 DEF Alone, Handed
<1>11. ASSUME StopWriter \/ PutSentinel PROVE Alone' /\ Handed'
  <2>1. /\ UNCHANGED <<call, orphan, reader, quiet>> /\ phase' \in {"telling", "closing"}
    BY <1>11 DEF StopWriter, PutSentinel, readVars
  <2>2. QED
    BY <2>1 DEF Alone, Handed
<1>12. ASSUME Joined PROVE Alone' /\ Handed'
  <2>1. quiet /\ UNCHANGED call /\ phase' = "closed" /\ CloseAll
    BY <1>12 DEF Joined
  <2>2. ~orphan' /\ \A c \in Client : reader'[c] # "reading"
    BY <2>1 DEF CloseAll, Typed
  <2>3. QED
    BY <2>1, <2>2 DEF Alone, Handed
<1>13. ASSUME JoinTimesOut \/ Restart PROVE FALSE
  BY <1>13 DEF JoinTimesOut, Restart
<1>14. QED
  BY <1>2, <1>3, <1>4, <1>5, <1>6, <1>7, <1>8, <1>9, <1>10, <1>11, <1>12, <1>13 DEF Next

Ending == phase \in {"checkpointing", "telling", "closing"}
Due == call[Main].pc = "holding" \/ InQueue \/ Under \/ Over

\* The writer at work while the application ends is the current one.
LEMMA EndingWriter ==
    ASSUME Typed, Lone, Alone, Truncates, quiet, NEW g \in Writer, Run(g) \/ Fail(g), Ending \/ phase = "closed"
    PROVE  g = current /\ Ending
<1>1. w[g].pc # "gone" /\ ~Bare(g)
  BY DEF Run, Take, LeaveWhenEmpty, Execute, Commit, Checkpoint, SetFuture, Fail, Bare
<1>2. phase # "closed"
  BY <1>1 DEF Truncates
<1>3. QED
  BY <1>1, <1>2, OneAtWork

LEMMA TruncatesSame ==
    ASSUME Truncates, UNCHANGED <<phase, current, call, w, wal>>, quiet' => quiet
    PROVE  Truncates'
BY DEF Truncates, InQueue, Under, Over, Ends, Bare

LEMMA TruncatesCall ==
    ASSUME Typed, Early, Alone, Handed, Truncates, quiet', NEW c \in Client,
           \/ \E kind \in {"write", "checkpoint"} : Hand(c, kind)
           \/ Receive(c) \/ GiveUp(c)
    PROVE  Truncates'
<1>1. ASSUME NEW kind \in {"write", "checkpoint"}, Hand(c, kind) PROVE Truncates'
  <2>1. quiet /\ c = Main
    BY <1>1 DEF Hand
  <2>2. phase = "truncating" /\ phase' = "checkpointing"
    BY <1>1, <2>1 DEF Hand, Allowed, Alone
  <2>3. call'[Main].pc = "holding" /\ current' # 0
    BY <1>1, <2>1, StoreOK DEF Hand, Typed
  <2>4. QED
    BY <2>2, <2>3 DEF Truncates
<1>2. ASSUME Receive(c) \/ GiveUp(c) PROVE Truncates'
  <2>1. /\ quiet /\ call[c].pc = "waiting" /\ call' = [call EXCEPT ![c] = Idle]
        /\ UNCHANGED <<current, w, wal>>
    BY <1>2 DEF Receive, GiveUp
  <2>2. c = Main /\ phase' = phase /\ call'[Main] = Idle
    BY <1>2, <2>1 DEF Receive, GiveUp, Alone, Idle, Typed
  <2>3. call[Main].pc = "waiting" /\ phase # "closed"
    BY <2>1, <2>2 DEF Truncates, Idle
  <2>4. (InQueue' <=> InQueue) /\ (Under' <=> Under) /\ (Over' <=> Over)
    BY <2>1 DEF InQueue, Under, Over, Ends
  <2>5. QED
    BY <2>1, <2>2, <2>3, <2>4 DEF Truncates
<1>3. QED
  BY <1>1, <1>2

LEMMA TruncatesPut ==
    ASSUME Typed, Core, Early, Alone, Handed, Truncates, quiet', NEW c \in Client, Put(c)
    PROVE  Truncates'
<1> DEFINE x == [unit |-> Last(c), kind |-> call[c].kind]
<1>1. quiet /\ call[c].pc = "holding" /\ UNCHANGED <<phase, current>>
  BY DEF Put, lifeVars
<1>2. c = Main
  BY <1>1 DEF Alone, Idle
<1>3. ASSUME Ending PROVE current # 0 /\ InQueue' /\ phase' = "checkpointing"
  <2>1. phase = "checkpointing" /\ current # 0
    BY <1>1, <1>2, <1>3 DEF Truncates, Ending, Idle
  <2>2. call[c].of = current /\ call[c].kind = "checkpoint"
    BY <1>1, <1>2, <2>1 DEF Handed
  <2>3. current \in Writer
    BY <1>1, <2>2, HoldsWriter
  <2>4. asked[c] > 0
    BY <1>1 DEF Core, InHand
  <2>5. x \in Work /\ x \in Item /\ x.kind = "checkpoint"
    BY <2>2, <2>4, LastIsUnit DEF Work, Item
  <2>6. w' = [w EXCEPT ![current].q = Append(@, x)]
    BY <2>2 DEF Put
  <2> HIDE DEF x
  <2>7. /\ Len(w[current].q) \in Nat /\ Len(w'[current].q) = Len(w[current].q) + 1
        /\ \A i \in 1..Len(w[current].q) : w'[current].q[i] = w[current].q[i]
        /\ w'[current].q[Len(w[current].q) + 1] = x
        /\ w'[current].pc = w[current].pc
    BY <2>3, <2>5, <2>6, AppendMoves
  <2>8. \A i \in 1..Len(w'[current].q) : w'[current].q[i] # Sentinel
    <3>1. w[current].pc # "gone" /\ \A i \in 1..Len(w[current].q) : w[current].q[i] \in Work
      BY <2>1, <2>3 DEF Early
    <3>2. \A i \in 1..Len(w'[current].q) : i \in 1..Len(w[current].q) \/ i = Len(w[current].q) + 1
      BY <2>7
    <3>3. QED
      BY <2>5, <2>7, <3>1, <3>2, WorkIsUnits
  <2>9. /\ Len(w[current].q) + 1 \in 1..Len(w'[current].q)
        /\ \A j \in 1..Len(w'[current].q) : ~(j > Len(w[current].q) + 1)
    BY <2>7
  <2>10. w'[current].pc # "gone"
    BY <2>1, <2>3, <2>7 DEF Early
  <2>11. QED
    BY <1>1, <2>1, <2>5, <2>7, <2>8, <2>9, <2>10 DEF InQueue, Ends
<1>4. phase # "closed"
  BY <1>1, <1>2 DEF Truncates, Idle
<1>5. QED
  BY <1>1, <1>3, <1>4 DEF Truncates, Ending

LEMMA DueTake ==
    ASSUME Typed, Due, current \in Writer, Take(current)
    PROVE  Due'
<1>1. /\ w[current].pc = "idle" /\ UNCHANGED <<current, call, wal>>
  BY DEF Take, lifeVars
<1>2. /\ Len(w[current].q) \in Nat \ {0} /\ Len(w'[current].q) = Len(w[current].q) - 1
      /\ \A i \in 1..Len(w'[current].q) :
            i + 1 \in 1..Len(w[current].q) /\ w'[current].q[i] = w[current].q[i + 1]
      /\ w'[current].item = w[current].q[1]
      /\ w'[current].pc = IF w[current].q[1] = Sentinel THEN "gone" ELSE "busy"
  BY TakeMoves
<1>3. ASSUME NEW n \in Nat, Ends(w[current].q, n), n > 0 PROVE Ends(w'[current].q, n - 1)
  <2> SUFFICES ASSUME NEW j \in 1..Len(w'[current].q)
               PROVE  w'[current].q[j] = Sentinel <=> j > n - 1
    BY DEF Ends
  <2>1. j + 1 \in 1..Len(w[current].q) /\ w'[current].q[j] = w[current].q[j + 1]
    BY <1>2
  <2>2. w[current].q[j + 1] = Sentinel <=> j + 1 > n
    BY <1>3, <2>1 DEF Ends
  <2>3. j + 1 > n <=> j > n - 1
    BY <1>3
  <2>4. QED
    BY <2>1, <2>2, <2>3
<1>4. ASSUME InQueue PROVE InQueue' \/ Under'
  <2>1. PICK n \in 1..Len(w[current].q) : w[current].q[n].kind = "checkpoint" /\ Ends(w[current].q, n)
    BY <1>4 DEF InQueue
  <2>2. n \in Nat /\ n > 0 /\ 1 \in 1..Len(w[current].q) /\ ~(1 > n)
    BY <1>2
  <2>3. w[current].q[1] # Sentinel
    BY <2>1, <2>2 DEF Ends
  <2>4. Ends(w'[current].q, n - 1)
    BY <1>3, <2>1, <2>2
  <2>5. CASE n = 1
    <3>1. Ends(w'[current].q, 0)
      BY <2>4, <2>5
    <3>2. QED
      BY <1>1, <1>2, <2>1, <2>3, <2>5, <3>1 DEF Under
  <2>6. CASE n # 1
    <3>1. n - 1 \in 1..Len(w'[current].q)
      BY <1>2, <2>6
    <3>2. w'[current].q[n - 1] = w[current].q[n]
      BY <1>2, <3>1
    <3>3. w'[current].pc # "gone"
      BY <1>2, <2>3
    <3>4. QED
      BY <1>1, <2>1, <2>4, <3>1, <3>2, <3>3 DEF InQueue
  <2>7. QED
    BY <2>5, <2>6
<1>5. ASSUME Over PROVE Over'
  <2>1. w[current].q[1] = Sentinel
    BY <1>2, <1>5 DEF Over, Ends
  <2>2. ASSUME NEW j \in 1..Len(w'[current].q) PROVE w'[current].q[j] = Sentinel <=> j > 0
    <3>1. j + 1 \in 1..Len(w[current].q) /\ w'[current].q[j] = w[current].q[j + 1]
      BY <1>2
    <3>2. w[current].q[j + 1] = Sentinel
      BY <1>5, <3>1 DEF Over, Ends
    <3>3. QED
      BY <3>1, <3>2
  <2>3. Ends(w'[current].q, 0)
    BY <2>2 DEF Ends
  <2>4. QED
    BY <1>1, <1>2, <1>5, <2>1, <2>3 DEF Over
<1>6. ~Under
  BY <1>1 DEF Under
<1>7. QED
  BY <1>1, <1>4, <1>5, <1>6 DEF Due

LEMMA DueRun ==
    ASSUME Typed, Core, Due, Alone, quiet, current \in Writer, Run(current)
    PROVE  Due'
<1>1. ASSUME NEW pc, NEW txn, Moves(current, pc, txn), UNCHANGED <<current, call>>
      PROVE  /\ InQueue /\ pc # "gone" => InQueue'
             /\ Ends(w[current].q, 0) /\ pc \in {"ok", "idle", "gone"} /\ ~wal' => Over'
             /\ w'[current].q = w[current].q /\ w'[current].item = w[current].item
             /\ call[Main].pc = "holding" => Due'
  BY <1>1 DEF Moves, InQueue, Over, Ends, Due
<1>2. ASSUME LeaveWhenEmpty(current) PROVE Due'
  <2>1. /\ Moves(current, "gone", <<>>) /\ UNCHANGED <<current, call, wal>>
        /\ w[current].pc = "idle" /\ Len(w[current].q) = 0
    BY <1>2, StepMoves DEF LeaveWhenEmpty, lifeVars, Core
  <2>2. ~InQueue /\ ~Under
    BY <2>1 DEF InQueue, Under
  <2>3. Over => Over'
    BY <1>1, <2>1 DEF Over
  <2>4. QED
    BY <1>1, <2>1, <2>2, <2>3 DEF Due
<1>3. ASSUME Execute(current) PROVE Due'
  <2>1. /\ Moves(current, "wrote", <<w[current].item.unit>>) /\ UNCHANGED <<current, call>>
        /\ w[current].pc = "busy" /\ w[current].item.kind = "write"
    BY <1>3, StepMoves DEF Execute, lifeVars, Core
  <2>2. ~Under /\ ~Over
    BY <2>1 DEF Under, Over
  <2>3. QED
    BY <1>1, <2>1, <2>2 DEF Due
<1>4. ASSUME Commit(current) PROVE Due'
  <2>1. /\ Moves(current, "ok", <<>>) /\ UNCHANGED <<current, call>> /\ w[current].pc = "wrote"
    BY <1>4, StepMoves DEF Commit, lifeVars, Core
  <2>2. ~Under /\ ~Over
    BY <2>1 DEF Under, Over
  <2>3. QED
    BY <1>1, <2>1, <2>2 DEF Due
<1>5. ASSUME Checkpoint(current) PROVE Due'
  <2>1. /\ Moves(current, "ok", <<>>) /\ UNCHANGED <<current, call>> /\ w[current].pc = "busy"
    BY <1>5, StepMoves DEF Checkpoint, lifeVars, Core
  <2>2. ~wal'
    BY <1>5 DEF Checkpoint, Alone
  <2>3. Under => Over'
    BY <1>1, <2>1, <2>2 DEF Under
  <2>4. ~Over
    BY <2>1 DEF Over
  <2>5. QED
    BY <1>1, <2>1, <2>3, <2>4 DEF Due
<1>6. ASSUME SetFuture(current) PROVE Due'
  <2>1. /\ Moves(current, "idle", <<>>) /\ UNCHANGED <<current, call, wal>>
        /\ w[current].pc \in {"ok", "error"}
    BY <1>6, StepMoves DEF SetFuture, lifeVars, Core
  <2>2. ~Under
    BY <2>1 DEF Under
  <2>3. Over => Over'
    BY <1>1, <2>1 DEF Over
  <2>4. QED
    BY <1>1, <2>1, <2>2, <2>3 DEF Due
<1>7. QED
  BY <1>2, <1>3, <1>4, <1>5, <1>6, DueTake DEF Run

LEMMA DueStop ==
    ASSUME Typed, Due, current \in Writer, StopWriter \/ PutSentinel
    PROVE  Due'
<1>1. UNCHANGED <<current, call, wal>>
  BY DEF StopWriter, PutSentinel
<1>2. ASSUME StopWriter PROVE Due'
  <2>1. /\ w'[current].q = w[current].q /\ w'[current].pc = w[current].pc
        /\ w'[current].item = w[current].item
    BY <1>2, FlagMoves DEF StopWriter
  <2>2. QED
    BY <1>1, <2>1 DEF Due, InQueue, Under, Over, Ends
<1>3. ASSUME PutSentinel PROVE Due'
  <2>1. /\ Len(w[current].q) \in Nat /\ Len(w'[current].q) = Len(w[current].q) + 1
        /\ \A i \in 1..Len(w[current].q) : w'[current].q[i] = w[current].q[i]
        /\ w'[current].q[Len(w[current].q) + 1] = Sentinel
        /\ w'[current].item = w[current].item /\ w'[current].pc = w[current].pc
    BY <1>3, AppendMoves DEF PutSentinel, Item
  <2>2. ASSUME NEW n \in 0..Len(w[current].q), Ends(w[current].q, n) PROVE Ends(w'[current].q, n)
    <3> SUFFICES ASSUME NEW j \in 1..Len(w'[current].q)
                 PROVE  w'[current].q[j] = Sentinel <=> j > n
      BY DEF Ends
    <3>1. CASE j \in 1..Len(w[current].q)
      BY <2>1, <2>2, <3>1 DEF Ends
    <3>2. CASE j = Len(w[current].q) + 1
      BY <2>1, <2>2, <3>2
    <3>3. j \in 1..(Len(w[current].q) + 1)
      BY <2>1
    <3>4. j \in 1..Len(w[current].q) \/ j = Len(w[current].q) + 1
      BY <2>1, <3>3
    <3>5. QED
      BY <3>1, <3>2, <3>4
  <2>3. InQueue => InQueue'
    <3> SUFFICES ASSUME InQueue PROVE InQueue'
      OBVIOUS
    <3>1. PICK n \in 1..Len(w[current].q) :
             w[current].q[n].kind = "checkpoint" /\ Ends(w[current].q, n) /\ w[current].pc # "gone"
      BY DEF InQueue
    <3>2. Ends(w'[current].q, n) /\ n \in 1..Len(w'[current].q)
      BY <2>1, <2>2, <3>1
    <3>3. QED
      BY <1>1, <2>1, <3>1, <3>2 DEF InQueue
  <2>4. (Under => Under') /\ (Over => Over')
    BY <1>1, <2>1, <2>2 DEF Under, Over
  <2>5. QED
    BY <1>1, <2>3, <2>4 DEF Due
<1>4. QED
  BY <1>2, <1>3

LEMMA StepTruncates ==
    Typed /\ Core /\ Lone /\ Early /\ Alone /\ Handed /\ Truncates /\ [Next]_vars => Truncates'
<1> SUFFICES ASSUME Typed, Core, Lone, Early, Alone, Handed, Truncates, [Next]_vars, quiet'
             PROVE  Truncates'
  BY DEF Truncates
<1>1. current = 0 \/ current \in Writer
  BY StoreOK DEF Typed, Writer
<1>2. CASE UNCHANGED vars
  BY <1>2, TruncatesSame DEF vars
<1>3. ASSUME NEW c \in Client, BeginRead(c) \/ EndRead(c) \/ ThreadEnds(c) PROVE Truncates'
  BY <1>3, TruncatesSame DEF BeginRead, EndRead, ThreadEnds, lifeVars
<1>4. ASSUME NEW g \in Writer, Fail(g) PROVE FALSE
  BY <1>4 DEF Fail
<1>5. ASSUME NEW g \in Writer, Run(g) PROVE Truncates'
  <2>1. UNCHANGED <<phase, current, call, quiet>>
    BY <1>5 DEF Run, Take, LeaveWhenEmpty, Execute, Commit, Checkpoint, SetFuture, lifeVars
  <2>2. CASE Ending \/ phase = "closed"
    <3>1. g = current /\ Ending
      BY <1>5, <2>1, <2>2, EndingWriter
    <3>2. Due
      BY <2>1, <3>1 DEF Truncates, Due, Ending
    <3>3. Due'
      BY <1>5, <2>1, <3>1, <3>2, DueRun
    <3>4. QED
      BY <2>1, <3>1, <3>3 DEF Truncates, Due, Ending
  <2>3. CASE ~(Ending \/ phase = "closed")
    BY <2>1, <2>3 DEF Truncates, Ending
  <2>4. QED
    BY <2>2, <2>3
<1>6. ASSUME StopServices \/ CloseReaders PROVE Truncates'
  BY <1>6 DEF StopServices, CloseReaders, Truncates
<1>7. ASSUME StopWriter \/ PutSentinel PROVE Truncates'
  <2>1. /\ quiet /\ Ending /\ call[Main] = Idle /\ UNCHANGED <<current, call>>
        /\ phase' \in {"telling", "closing"}
    BY <1>7 DEF StopWriter, PutSentinel, Ending, Truncates
  <2>2. Due /\ current # 0
    BY <2>1 DEF Truncates, Due, Ending
  <2>3. Due'
    BY <1>1, <1>7, <2>2, DueStop
  <2>4. QED
    BY <2>1, <2>2, <2>3 DEF Truncates, Due
<1>8. ASSUME Joined PROVE Truncates'
  <2>1. /\ quiet /\ phase = "closing" /\ phase' = "closed" /\ w[current].pc = "gone"
        /\ UNCHANGED <<call, w, wal>>
    BY <1>8 DEF Joined
  <2>2. call[Main] = Idle /\ Due
    BY <2>1 DEF Truncates, Due
  <2>3. ~wal
    BY <2>1, <2>2 DEF Due, InQueue, Under, Over, Idle
  <2>4. \A g \in Writer : w[g].pc = "gone" \/ Bare(g)
    BY <2>1 DEF Lone
  <2>5. QED
    BY <2>1, <2>2, <2>3, <2>4 DEF Truncates, Bare
<1>9. ASSUME JoinTimesOut \/ Restart PROVE FALSE
  BY <1>9 DEF JoinTimesOut, Restart
<1>10. QED
  BY <1>2, <1>3, <1>4, <1>5, <1>6, <1>7, <1>8, <1>9, TruncatesCall, TruncatesPut DEF Next

LEMMA GoodInvariant == Spec => []Good
<1>1. Good /\ [Next]_vars => Good'
  BY StepTyped, StepCore, StepLines, StepEarly, StepAlone, StepTruncates
     DEF Good, Core, Lines
<1>2. QED
  BY <1>1, InitGood, PTL DEF Spec

\* Futures, calls and queues keep their types, and what one client writes takes effect in
\* its order and on one thread at a time, unless a stop() gave up on its thread.
THEOREM StoreStaysSound == Spec => []StoreSound
<1>1. Good => TypeOK
  <2> SUFFICES ASSUME Good PROVE TypeOK
    OBVIOUS
  <2>1. \A g \in Writer : \A i \in 1..Len(w[g].q) : w[g].q[i] = Sentinel \/ w[g].q[i].unit \in Units
    BY Contents DEF Good, Core
  <2>2. \A c \in Client : asked[c] \in 0..MaxUnit[c]
    BY StoreOK DEF Good, Typed
  <2>3. QED
    BY <2>1, <2>2 DEF Good, Typed, TypeOK
<1>2. Good => InOrder
  <2> SUFFICES ASSUME Good, ~overrun PROVE InOrder
    BY DEF InOrder
  <2> DEFINE S == {g \in Writer : w[g].pc \in {"busy", "wrote", "ok", "error"}}
  <2>1. S \subseteq {current}
    BY DEF Good, Lone, Bare
  <2>2. Cardinality(S) <= 1
    <3>1. IsFiniteSet({current}) /\ Cardinality({current}) = 1
      BY FS_Singleton
    <3>2. QED
      BY <2>1, <3>1, FS_Subset
  <2>3. \A i, j \in 1..Len(log) : i < j /\ log[i][1] = log[j][1] => log[i][2] < log[j][2]
    <3> SUFFICES ASSUME NEW i \in 1..Len(log), NEW j \in 1..Len(log), i < j
                 PROVE  Before(log[i], log[j])
      BY DEF Before
    <3>1. i \in 1..(j - 1)
      OBVIOUS
    <3>2. QED
      BY <3>1 DEF Good, Sorted
  <2>4. QED
    BY <2>2, <2>3 DEF InOrder
<1>3. QED
  BY <1>1, <1>2, GoodInvariant, PTL DEF StoreSound

\* When nobody came back to the database after shutdown closed the readers, the process
\* ends with an empty write-ahead log (_close_db).
THEOREM EndsClean == Spec => []CleanExit
<1>1. Good => CleanExit
  BY DEF Good, Truncates, CleanExit
<1>2. QED
  BY <1>1, GoodInvariant, PTL
=============================================================================
