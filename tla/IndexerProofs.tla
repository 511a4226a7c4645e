--------------------------- MODULE IndexerProofs ---------------------------
(***************************************************************************)
(* What a scan guarantees for any files, folders, selections of phases and *)
(* number of events beside it.  The invariant: what a scan still has to do *)
(* is a tail of the phases it selected (Ordered); the items in hand carry  *)
(* fingerprints no newer than what was parsed (InHand, Versions); a drive  *)
(* that was away when the scan began is not among the available ones       *)
(* (StaysAway); whoever owes a derivation has it marked (Rederived); and   *)
(* each phase of an undisturbed scan leaves its files known (QuietScan).   *)
(***************************************************************************)
EXTENDS Indexer, TLAPS

(***************************************************************************)
(* The invariant                                                           *)
(***************************************************************************)

Pc == {"phase", "parse", "commit", "prune", "flag", "finish", "end"}
Phase == Content \cup {"roots", "links", "index", "prune"}
Works == UNION {[files -> [fp : Nat, parsed : Nat]] : files \in SUBSET File}
Scans == [pc : Pc, job : {0, 1}, todo : SUBSET Phase, force : BOOLEAN, work : Works,
          wrote : BOOLEAN, derived : BOOLEAN, gone : SUBSET File, back : SUBSET File,
          dirty : BOOLEAN, status : {"completed", "cancelled"}, whole : BOOLEAN,
          away : SUBSET Root, quiet : BOOLEAN]

\* The types TypeOK leaves to what the other conjuncts say.
Typed ==
    /\ TypeOK
    /\ fp \in [File -> Nat] /\ parsed \in [File -> Nat]
    /\ linked \in [File -> Nat] /\ docs \in [File -> Nat]
    /\ DOMAIN jobs = {0, 1} /\ job \in {0, 1}
    /\ scan = Off \/ scan \in Scans
    /\ cancelSet \subseteq {0, 1} /\ lapse \in BOOLEAN
    /\ left \in [Kind -> Nat]

\* A path holds its last version or nothing, and content is never older than the
\* fingerprint it is filed under.
Versions ==
    \A f \in File : /\ disk[f] \in {0, made[f]}
                    /\ parsed[f] = 0 \/ fp[f] <= parsed[f]

\* Where a scan still has phases to go through.
Busy == {"phase", "parse", "commit", "prune", "flag"}

\* What is left is a tail of the order of the phases, and the locals belong to the
\* phase the scan is in.
Ordered ==
    /\ (\E p \in Content : p \in scan.todo) => "links" \in scan.todo
    /\ "links" \in scan.todo => "index" \in scan.todo
    /\ "index" \in scan.todo => "prune" \in scan.todo
    /\ scan.pc \in Busy => "prune" \in scan.todo
    /\ scan.pc \in {"prune", "flag"} => scan.todo = {"prune"}
    /\ scan.pc \in {"parse", "commit"} =>
         \E p \in Content : Current(p) /\ \A f \in DOMAIN scan.work : PhaseOf[f] = p
    /\ scan.pc = "commit" /\ DOMAIN scan.work # {} => scan.wrote
    /\ scan.pc \in {"phase", "parse", "commit", "prune"} => ~scan.dirty

\* The items read but not yet written: of drives that are not away.
InHand ==
    scan.pc \in {"parse", "commit"} =>
        \A f \in DOMAIN scan.work :
            /\ 0 < scan.work[f].fp /\ scan.work[f].fp <= made[f]
            /\ scan.work[f].parsed <= made[f]
            /\ scan.work[f].parsed = 0 \/ scan.work[f].fp <= scan.work[f].parsed
            /\ RootOf[f] \notin scan.away

\* A drive counts as away only as long as no one has plugged it in, and then the roots
\* phase did not mark it available.
StaysAway ==
    /\ scan.away \cap up = {}
    /\ "roots" \notin scan.todo => scan.away \cap available = {}
    /\ scan.pc = "prune" => \A f \in scan.gone : PhaseOf[f] = "nodes" \/ RootOf[f] \notin scan.away

\* Nobody is owed a derivation ...
Settled == ~relink /\ ~lapse
\* ... and where that makes links and documents agree with the rows: before a scan, in
\* one that wrote nothing, and after its links and index phases.
Rederived ==
    /\ scan.pc \in {"off", "finish", "end"} /\ Settled => Derived
    /\ scan.pc \in Busy /\ ~scan.wrote /\ ~scan.dirty /\ Settled => Derived
    /\ scan.pc \in Busy /\ "links" \notin scan.todo /\ "index" \in scan.todo /\ NeedsRelink
            /\ scan.derived
         => \A f \in File : linked[f] = LinkView(f)
    /\ scan.pc \in Busy /\ "index" \notin scan.todo /\ scan.derived /\ ~scan.dirty /\ ~lapse
         => Derived

\* A scan of everything that nothing disturbed so far.
Clean ==
    /\ Alive /\ scan.whole /\ scan.quiet /\ scan.away = {} /\ scan.status = "completed"
    /\ scan.pc = "end" \/ ~Cancelled

Known(f) == disk[f] > 0 => fp[f] = disk[f]

\* It knows the files of the phases it has done; prune has the flags to set and to clear.
QuietScan ==
    Clean =>
        /\ up = Root
        /\ "roots" \notin scan.todo => available = Root
        /\ \A f \in File : PhaseOf[f] \notin scan.todo => Known(f)
        /\ scan.pc \in {"parse", "commit"} =>
             /\ \A f \in File : Current(PhaseOf[f]) => f \in DOMAIN scan.work \/ Known(f)
             /\ \A f \in DOMAIN scan.work : scan.work[f].fp = disk[f]
        /\ scan.pc = "prune" =>
             \A f \in File :
                 IF disk[f] > 0 THEN f \notin scan.gone /\ (missing[f] = "no" \/ f \in scan.back)
                 ELSE f \notin scan.back /\ (f \in scan.gone \/ missing[f] # "no" \/ fp[f] = 0)
        /\ scan.pc \in {"flag", "finish", "end"} => \A f \in File : Describes(f)

Good ==
    /\ Typed /\ RunningHasThread /\ Versions
    /\ Alive => Ordered /\ InHand /\ StaysAway
    /\ Rederived /\ QuietScan

-----------------------------------------------------------------------------
(* The fields of a scan and the order of its phases *)

LEMMA NoWorkFits == NoWork \in Works /\ DOMAIN NoWork = {}
<1>1. NoWork \in [{} -> [fp : Nat, parsed : Nat]]
  BY DEF NoWork
<1>2. QED
  BY <1>1 DEF Works, NoWork

LEMMA WorkFits ==
    ASSUME NEW files \in SUBSET File, NEW w \in [files -> [fp : Nat, parsed : Nat]]
    PROVE  w \in Works
BY DEF Works

LEMMA WorkFields ==
    ASSUME NEW w \in Works
    PROVE  /\ DOMAIN w \subseteq File
           /\ \A f \in DOMAIN w : /\ w[f] \in [fp : Nat, parsed : Nat]
                                  /\ w[f].fp \in Nat /\ w[f].parsed \in Nat
BY DEF Works

LEMMA AliveFields ==
    ASSUME Typed, Alive
    PROVE  /\ scan \in Scans /\ scan.pc \in Pc /\ scan.todo \subseteq Phase
           /\ scan.work \in Works /\ scan.job = job /\ job \in {0, 1}
           /\ scan.gone \subseteq File /\ scan.back \subseteq File /\ scan.away \subseteq Root
           /\ scan.wrote \in BOOLEAN /\ scan.derived \in BOOLEAN /\ scan.dirty \in BOOLEAN
           /\ scan.force \in BOOLEAN /\ scan.whole \in BOOLEAN /\ scan.quiet \in BOOLEAN
           /\ scan.status \in {"completed", "cancelled"}
<1>1. scan \in Scans
  BY DEF Typed, Alive, Off
<1>2. scan.job = job /\ job \in {0, 1}
  BY DEF Typed, TypeOK
<1>3. QED
  BY <1>1, <1>2 DEF Scans

LEMMA CurrentIsFirst ==
    ASSUME scan.todo \subseteq Phase, NEW p \in Phase, Current(p)
    PROVE  /\ p \in scan.todo
           /\ p # "roots" => "roots" \notin scan.todo
           /\ p \in {"links", "index", "prune"} => \A q \in Content : q \notin scan.todo
           /\ p \in {"index", "prune"} => "links" \notin scan.todo
           /\ p = "prune" => scan.todo = {"prune"}
           /\ \A q \in Phase : Current(q) => q = p
BY DEF Current, Phase, Content, Order

\* Where a scan goes on after a phase.
LEMMA AfterFields ==
    ASSUME Typed, Alive, Ordered, scan.pc \in Busy, NEW p \in Phase, Current(p)
    PROVE  /\ After(p) \in Scans
           /\ After(p).pc = IF p = "prune" THEN "finish" ELSE "phase"
           /\ After(p).todo = scan.todo \ {p} /\ After(p).work = NoWork
           /\ After(p).job = scan.job /\ After(p).force = scan.force
           /\ After(p).wrote = scan.wrote /\ After(p).derived = scan.derived
           /\ After(p).gone = scan.gone /\ After(p).back = scan.back
           /\ After(p).dirty = scan.dirty /\ After(p).status = scan.status
           /\ After(p).whole = scan.whole /\ After(p).away = scan.away
           /\ After(p).quiet = scan.quiet
<1>1. scan \in Scans /\ scan.todo \subseteq Phase
  BY AliveFields
<1>2. scan.todo = {p} <=> p = "prune"
  BY <1>1, CurrentIsFirst DEF Ordered
<1>3. NoWork \in Works
  BY NoWorkFits
<1>4. QED
  BY <1>1, <1>2, <1>3 DEF After, Scans, Pc

\* What no phase changes.
Carry ==
    /\ scan'.job = scan.job /\ scan'.force = scan.force
    /\ scan'.whole = scan.whole /\ scan'.away = scan.away

LEMMA AfterOrdered ==
    ASSUME Typed, Alive, Ordered, scan.pc \in Busy, NEW p \in Phase, Current(p),
           scan'.todo = scan.todo \ {p},
           scan'.pc = (IF p = "prune" THEN "finish" ELSE "phase"),
           p # "prune" => ~scan'.dirty
    PROVE  Ordered'
<1>1. scan.todo \subseteq Phase
  BY AliveFields
<1>2. /\ p # "roots" => "roots" \notin scan.todo
      /\ p \in {"links", "index", "prune"} => \A q \in Content : q \notin scan.todo
      /\ p \in {"index", "prune"} => "links" \notin scan.todo
      /\ p = "prune" => scan.todo = {"prune"}
  BY <1>1, CurrentIsFirst
<1>3. QED
  BY <1>2 DEF Ordered, Busy, Content

LEMMA RowsKeptDerived ==
    ASSUME UNCHANGED <<parsed, missing, linked, docs>>
    PROVE  /\ Derived' <=> Derived
           /\ \A f \in File : LinkView(f)' = LinkView(f)
BY DEF Derived, LinkView

\* A step that leaves the tables alone, and the links still or no longer to be done.
LEMMA RederivedKept ==
    ASSUME Rederived, scan.pc \in Busy, scan'.pc \in Busy,
           UNCHANGED <<parsed, missing, linked, docs, relink, lapse>>,
           scan'.force = scan.force, scan'.derived = scan.derived, scan'.dirty = scan.dirty,
           "links" \in scan'.todo <=> "links" \in scan.todo,
           "index" \in scan'.todo <=> "index" \in scan.todo,
           scan'.wrote = scan.wrote \/ (scan'.wrote /\ "links" \in scan.todo
                                         /\ "index" \in scan.todo)
    PROVE  Rederived'
<1>1. /\ Derived' <=> Derived
      /\ \A f \in File : LinkView(f)' = LinkView(f)
  BY RowsKeptDerived
<1>2. scan'.pc \notin {"off", "finish", "end"}
  BY DEF Busy
<1>3. \A f \in File : linked'[f] = linked[f]
  OBVIOUS
<1> HIDE DEF Derived, LinkView
<1>4. CASE scan'.wrote = scan.wrote
  BY <1>1, <1>2, <1>3, <1>4 DEF Rederived, Settled, NeedsRelink
<1>5. CASE scan'.wrote /\ "links" \in scan.todo /\ "index" \in scan.todo
  BY <1>1, <1>2, <1>5 DEF Rederived, Settled
<1>6. QED
  BY <1>4, <1>5

\* What an undisturbed scan is after a step, it was before.
LEMMA CleanBefore ==
    ASSUME Alive, Carry, cancelSet' = cancelSet, scan.pc # "end", scan'.pc # "end",
           scan'.quiet => scan.quiet, scan'.status = scan.status
    PROVE  Clean' => Clean /\ ~Cancelled
BY DEF Clean, Carry, Cancelled, Alive

LEMMA InitGood == Init => Good
<1> SUFFICES ASSUME Init PROVE Good
  OBVIOUS
<1> USE IndexerOK DEF Init
<1>1. scan.pc = "off" /\ ~Alive
  BY DEF Off, Alive
<1>2. Typed
  <2>1. TypeOK
    <3>1. \A f \in File : disk[f] = 1 /\ made[f] = 1 /\ fp[f] = 0 /\ parsed[f] = 0
      OBVIOUS
    <3>2. disk \in [File -> Nat] /\ made \in [File -> Nat]
      OBVIOUS
    <3>3. \A j \in DOMAIN jobs : jobs[j] = "none"
      OBVIOUS
    <3>4. missing \in [File -> {"no", "recent", "expired"}]
      OBVIOUS
    <3>5. \A f \in File : disk[f] <= made[f] /\ fp[f] <= made[f] /\ parsed[f] <= made[f]
      <4> HIDE DEF Init
      <4>1. 0 <= 1 /\ 1 <= 1
        OBVIOUS
      <4>2. QED
        BY <3>1, <4>1
    <3>6. QED
      BY <1>1, <3>2, <3>3, <3>4, <3>5 DEF TypeOK
  <2>2. jobs = [j \in {0, 1} |-> "none"] /\ DOMAIN jobs = {0, 1}
    OBVIOUS
  <2>3. fp \in [File -> Nat] /\ left \in [Kind -> Nat]
    OBVIOUS
  <2>4. QED
    BY <2>1, <2>2, <2>3 DEF Typed
<1>3. RunningHasThread /\ Versions
  BY <1>1 DEF RunningHasThread, Versions
<1>4. Rederived
  BY <1>1 DEF Rederived, Derived, LinkView, Busy
<1>5. QuietScan
  BY <1>1 DEF QuietScan, Clean
<1>6. QED
  BY <1>1, <1>2, <1>3, <1>4, <1>5 DEF Good

LEMMA SpendTyped ==
    ASSUME Typed, NEW k \in Kind, Spend(k)
    PROVE  left' \in [Kind -> Nat]
BY DEF Spend, Typed, Kind

LEMMA StepStarted ==
    ASSUME Good, NEW kinds \in SUBSET Content, NEW force \in BOOLEAN, Started(kinds, force),
           left' \in [Kind -> Nat]
    PROVE  Good'
<1> USE DEF Started, diskVars, rowVars
<1>1. Typed /\ ~Alive /\ job' = 1 - job /\ job \in {0, 1} /\ job' \in {0, 1} /\ job' # job
  BY DEF Good, Typed
<1>2. /\ scan' \in Scans
      /\ scan'.pc = "phase" /\ scan'.job = job' /\ scan'.todo = Steps(kinds)
      /\ scan'.wrote = FALSE /\ scan'.derived = TRUE /\ scan'.dirty = FALSE
      /\ scan'.whole = (kinds = Content) /\ scan'.away = Root \ up
  <2>1. NoWork \in Works
    BY NoWorkFits
  <2>2. Steps(kinds) \subseteq Phase
    BY DEF Steps, Phase
  <2>3. QED
    BY <1>1, <2>1, <2>2 DEF Scans, Pc
<1>3. Alive'
  BY <1>2 DEF Alive
<1>4. Typed'
  <2>1. \A j \in DOMAIN jobs' : jobs'[j] \in {"none", "running", "completed", "cancelled", "interrupted"}
    BY <1>1 DEF Typed, TypeOK
  <2>2. TypeOK'
    BY <1>1, <1>2, <2>1 DEF Typed, TypeOK
  <2>3. QED
    BY <1>1, <1>2, <2>2 DEF Typed
<1>5. RunningHasThread'
  <2>1. \A j \in {0, 1} : jobs[j] # "running"
    BY <1>1 DEF Good, RunningHasThread, Typed
  <2>2. DOMAIN jobs' = {0, 1} /\ \A j \in {0, 1} : jobs'[j] = "running" <=> j = job'
    BY <1>1, <2>1 DEF Typed
  <2>3. QED
    BY <1>2, <1>3, <2>2 DEF RunningHasThread
<1>6. Versions'
  BY DEF Good, Versions
<1>7. Ordered' /\ InHand' /\ StaysAway'
  BY <1>2 DEF Ordered, InHand, StaysAway, Steps
<1>8. Rederived'
  <2>1. ~relink /\ ~lapse => Derived
    BY <1>1 DEF Good, Rederived, Typed, Alive, Settled
  <2>2. Derived' <=> Derived
    BY RowsKeptDerived
  <2>3. QED
    BY <1>2, <2>1, <2>2 DEF Rederived, Steps, Settled
<1>9. QuietScan'
  <2> SUFFICES ASSUME Clean'
               PROVE  QuietScan'
    BY DEF QuietScan
  <2>1. up' = Root /\ kinds = Content
    BY <1>1, <1>2 DEF Clean, Typed, TypeOK
  <2>2. \A f \in File : PhaseOf[f] \in scan'.todo
    BY <1>2, <2>1, IndexerOK DEF Steps
  <2>3. QED
    BY <1>2, <2>1, <2>2 DEF QuietScan, Steps
<1>10. QED
  BY <1>4, <1>5, <1>6, <1>7, <1>8, <1>9 DEF Good

LEMMA StepRoots ==
    ASSUME Good, Roots
    PROVE  Good'
<1> USE DEF Roots, diskVars, rowVars, jobVars
<1>1. Typed /\ Alive /\ Ordered /\ scan.pc = "phase" /\ Current("roots") /\ ~Cancelled
  BY DEF Good, At, Alive
<1>2. "roots" \in Phase /\ scan.pc \in Busy
  BY <1>1 DEF Phase, Busy
<1>3. /\ scan' \in Scans /\ scan'.pc = "phase" /\ scan'.todo = scan.todo \ {"roots"}
      /\ Carry /\ scan'.wrote = scan.wrote /\ scan'.derived = scan.derived
      /\ scan'.dirty = scan.dirty /\ scan'.status = scan.status /\ scan'.quiet = scan.quiet
  BY <1>1, <1>2, AfterFields DEF Carry
<1>4. Alive'
  BY <1>3 DEF Alive
<1>5. Typed'
  BY <1>1, <1>3, <1>4 DEF Typed, TypeOK, Carry
<1>6. RunningHasThread' /\ Versions'
  BY <1>1, <1>3, <1>4 DEF Good, RunningHasThread, Versions, Carry
<1>7. Ordered' /\ InHand'
  <2>1. ~scan'.dirty
    BY <1>1, <1>3 DEF Ordered
  <2>2. QED
    BY <1>1, <1>2, <1>3, <2>1, AfterOrdered DEF InHand
<1>8. StaysAway'
  BY <1>1, <1>3 DEF Good, StaysAway, Carry
<1>9. Rederived'
  <2>1. scan'.pc \in Busy
    BY <1>3 DEF Busy
  <2>2. QED
    BY <1>2, <1>3, <2>1, RederivedKept DEF Good, Carry
<1>10. QuietScan'
  <2> SUFFICES ASSUME Clean'
               PROVE  QuietScan'
    BY DEF QuietScan
  <2>1. Clean
    BY <1>1, <1>3, CleanBefore
  <2>2. \A f \in File : PhaseOf[f] \notin scan'.todo => Known(f)'
    BY <1>3, <2>1, IndexerOK DEF Good, QuietScan, Known, Content
  <2>3. QED
    BY <1>3, <2>1, <2>2 DEF Good, QuietScan
<1>11. QED
  BY <1>5, <1>6, <1>7, <1>8, <1>9, <1>10 DEF Good

LEMMA StepWalk ==
    ASSUME Good, NEW p \in Content, Walk(p)
    PROVE  Good'
<1> USE DEF Walk, diskVars, tableVars, rowVars, jobVars
<1>1. Typed /\ Alive /\ Ordered /\ scan.pc = "phase" /\ Current(p) /\ ~Cancelled
  BY DEF Good, At, Alive
<1>2. p \in Phase /\ scan.pc \in Busy /\ p # "prune" /\ p \in scan.todo
  BY <1>1 DEF Phase, Busy, Content, Current
<1>3. /\ "links" \in scan.todo /\ "index" \in scan.todo /\ "prune" \in scan.todo
      /\ "roots" \notin scan.todo /\ scan.todo \subseteq Phase
  BY <1>1, <1>2, AliveFields, CurrentIsFirst DEF Ordered, Content
<1>4. RootOf \in [File -> Root] /\ PhaseOf \in [File -> Content]
  BY IndexerOK
<1>5. CASE Work(p) = {}
  <2>1. /\ scan' \in Scans /\ scan'.pc = "phase" /\ scan'.todo = scan.todo \ {p}
        /\ Carry /\ scan'.wrote = scan.wrote /\ scan'.derived = scan.derived
        /\ scan'.dirty = scan.dirty /\ scan'.status = scan.status /\ scan'.quiet = scan.quiet
    BY <1>1, <1>2, <1>5, AfterFields DEF Carry
  <2>2. Alive'
    BY <2>1 DEF Alive
  <2>3. Typed'
    BY <1>1, <2>1, <2>2 DEF Typed, TypeOK, Carry
  <2>4. RunningHasThread' /\ Versions'
    BY <1>1, <2>1, <2>2 DEF Good, RunningHasThread, Versions, Carry
  <2>5. Ordered' /\ InHand'
    <3>1. ~scan'.dirty
      BY <1>1, <2>1 DEF Ordered
    <3>2. QED
      BY <1>1, <1>2, <2>1, <3>1, AfterOrdered DEF InHand
  <2>6. StaysAway'
    BY <1>1, <1>3, <2>1 DEF Good, StaysAway, Carry
  <2>7. Rederived'
    <3>1. /\ scan'.pc \in Busy
          /\ "links" \in scan'.todo <=> "links" \in scan.todo
          /\ "index" \in scan'.todo <=> "index" \in scan.todo
      BY <1>3, <2>1 DEF Busy, Content
    <3>2. QED
      BY <1>2, <2>1, <3>1, RederivedKept DEF Good, Carry
  <2>8. QuietScan'
    <3> SUFFICES ASSUME Clean'
                 PROVE  QuietScan'
      BY DEF QuietScan
    <3>1. Clean
      BY <1>1, <2>1, CleanBefore
    <3>2. up = Root /\ available = Root
      BY <1>3, <3>1 DEF Good, QuietScan
    <3>3. \A f \in File : PhaseOf[f] = p => Known(f)
      BY <1>4, <1>5, <3>2 DEF Work, Found, Known
    <3>4. \A f \in File : PhaseOf[f] \notin scan'.todo => Known(f)'
      BY <2>1, <3>1, <3>3 DEF Good, QuietScan, Known
    <3>5. QED
      BY <2>1, <3>2, <3>4 DEF QuietScan
  <2>9. QED
    BY <2>3, <2>4, <2>5, <2>6, <2>7, <2>8 DEF Good
<1>6. CASE Work(p) # {}
  <2> DEFINE w == [f \in Work(p) |-> [fp |-> disk[f], parsed |-> 0]]
  <2>1. w \in Works /\ DOMAIN w = Work(p)
    <3>1. Work(p) \in SUBSET File
      BY DEF Work, Found
    <3>2. \A f \in Work(p) : disk[f] \in Nat
      BY <1>1, <3>1 DEF Typed, TypeOK
    <3>3. w \in [Work(p) -> [fp : Nat, parsed : Nat]]
      BY <3>2
    <3>4. QED
      BY <3>1, <3>3, WorkFits
  <2>2. \A f \in Work(p) :
            /\ f \in File /\ PhaseOf[f] = p /\ RootOf[f] \in up /\ disk[f] > 0
            /\ w[f].fp = disk[f] /\ w[f].parsed = 0
    BY DEF Work, Found
  <2>3. scan' = [scan EXCEPT !.pc = "parse", !.work = w]
    BY <1>6
  <2> HIDE DEF w
  <2>4. /\ scan' \in Scans /\ scan'.pc = "parse" /\ scan'.todo = scan.todo /\ scan'.work = w
        /\ Carry /\ scan'.wrote = scan.wrote /\ scan'.derived = scan.derived
        /\ scan'.dirty = scan.dirty /\ scan'.status = scan.status /\ scan'.quiet = scan.quiet
    <3>1. scan \in Scans
      BY <1>1, AliveFields
    <3>2. QED
      BY <2>1, <2>3, <3>1 DEF Scans, Pc, Carry
  <2>5. Alive'
    BY <2>4 DEF Alive
  <2>6. Typed'
    BY <1>1, <2>4, <2>5 DEF Typed, TypeOK, Carry
  <2>7. RunningHasThread' /\ Versions'
    BY <1>1, <2>4, <2>5 DEF Good, RunningHasThread, Versions, Carry
  <2>8. Current(p)' /\ \A q : Current(q)' <=> Current(q)
    BY <1>1, <2>4 DEF Current
  <2>9. Ordered'
    <3>1. \E q \in Content : Current(q)' /\ \A f \in DOMAIN scan'.work : PhaseOf[f] = q
      BY <2>1, <2>2, <2>4, <2>8
    <3>2. ~scan'.dirty
      BY <1>1, <2>4 DEF Ordered
    <3>3. QED
      BY <1>1, <1>3, <2>4, <3>1, <3>2 DEF Ordered
  <2>10. InHand'
    <3>1. \A f \in Work(p) : disk[f] \in Nat /\ disk[f] <= made[f] /\ made[f] \in Nat
      BY <1>1, <2>2 DEF Typed, TypeOK
    <3>2. \A f \in Work(p) : RootOf[f] \notin scan.away
      BY <1>1, <2>2 DEF Good, StaysAway
    <3>3. QED
      BY <2>1, <2>2, <2>4, <3>1, <3>2 DEF InHand, Carry
  <2>11. StaysAway'
    BY <1>1, <1>3, <2>4 DEF Good, StaysAway, Carry
  <2>12. Rederived'
    <3>1. scan'.pc \in Busy
      BY <2>4 DEF Busy
    <3>2. QED
      BY <1>2, <2>4, <3>1, RederivedKept DEF Good, Carry
  <2>13. QuietScan'
    <3> SUFFICES ASSUME Clean'
                 PROVE  QuietScan'
      BY DEF QuietScan
    <3>1. Clean
      BY <1>1, <2>4, CleanBefore
    <3>2. up = Root /\ available = Root
      BY <1>3, <3>1 DEF Good, QuietScan
    <3>3. \A f \in File : PhaseOf[f] = p => f \in Work(p) \/ Known(f)
      BY <1>4, <3>2 DEF Work, Found, Known
    <3>4. \A f \in File : Current(PhaseOf[f]) => PhaseOf[f] = p
      BY <1>1, <1>2, <1>3, <1>4, CurrentIsFirst DEF Phase
    <3>5. \A f \in File : Current(PhaseOf[f])' => f \in DOMAIN scan'.work \/ Known(f)'
      BY <2>1, <2>4, <2>8, <3>3, <3>4 DEF Known
    <3>6. \A f \in DOMAIN scan'.work : scan'.work[f].fp = disk'[f]
      BY <2>1, <2>2, <2>4
    <3>7. \A f \in File : PhaseOf[f] \notin scan'.todo => Known(f)'
      BY <2>4, <3>1 DEF Good, QuietScan, Known
    <3>8. QED
      BY <2>4, <3>2, <3>5, <3>6, <3>7 DEF QuietScan
  <2>14. QED
    BY <2>6, <2>7, <2>9, <2>10, <2>11, <2>12, <2>13 DEF Good
<1>7. QED
  BY <1>5, <1>6

LEMMA StepParse ==
    ASSUME Good, Parse
    PROVE  Good'
<1> USE DEF diskVars, tableVars, rowVars, jobVars
<1>1. Typed /\ Alive /\ Ordered /\ InHand /\ StaysAway /\ Versions /\ scan.pc = "parse"
  BY DEF Good, Parse, Alive
<1>2. /\ UNCHANGED <<disk, made, up, fp, parsed, missing, available, linked, docs, relink>>
      /\ UNCHANGED <<jobs, job, cancelSet, canceller, left, lapse>>
  BY DEF Parse
<1>3. PICK p \in Content : Current(p) /\ \A f \in DOMAIN scan.work : PhaseOf[f] = p
  BY <1>1 DEF Ordered
<1>4. /\ scan \in Scans /\ scan.todo \subseteq Phase /\ scan.work \in Works
      /\ scan.wrote \in BOOLEAN
  BY <1>1, AliveFields
<1>5. p \in Phase /\ scan.pc \in Busy /\ p \in scan.todo
  BY <1>1, <1>3 DEF Phase, Busy, Content, Current
<1>6. /\ "links" \in scan.todo /\ "index" \in scan.todo /\ "prune" \in scan.todo
      /\ "roots" \notin scan.todo
  BY <1>1, <1>3, <1>4, <1>5, CurrentIsFirst DEF Ordered, Content
<1>7. PICK items \in SUBSET DOMAIN scan.work :
        /\ Cancelled \/ items = DOMAIN scan.work
        /\ LET ready == {f \in items : PhaseOf[f] = "workflows" => Readable(f) > 0}
           IN  scan' = [scan EXCEPT !.pc = "commit",
                            !.work = [f \in ready |-> [@[f] EXCEPT !.parsed = Readable(f)]],
                            !.wrote = @ \/ ready # {}]
  BY DEF Parse
<1> DEFINE ready == {f \in items : PhaseOf[f] = "workflows" => Readable(f) > 0}
<1> DEFINE w == [f \in ready |-> [scan.work[f] EXCEPT !.parsed = Readable(f)]]
<1>8. ready \subseteq DOMAIN scan.work /\ ready \subseteq File
  BY <1>4, WorkFields
<1>9. \A f \in ready : Readable(f) \in Nat /\ Readable(f) \in {0, made[f]} /\ Readable(f) \in {0, disk[f]}
                        /\ Readable(f) <= made[f]
  <2>1. \A f \in ready : disk[f] \in Nat /\ made[f] \in Nat /\ disk[f] <= made[f] /\ disk[f] \in {0, made[f]}
    BY <1>1, <1>8 DEF Typed, TypeOK, Versions
  <2>2. QED
    BY <2>1 DEF Readable
<1>10. \A f \in ready : /\ w[f] \in [fp : Nat, parsed : Nat]
                        /\ w[f].fp = scan.work[f].fp /\ w[f].parsed = Readable(f)
  <2>1. \A f \in ready : scan.work[f] \in [fp : Nat, parsed : Nat]
    BY <1>4, <1>8, WorkFields
  <2>2. QED
    BY <1>9, <2>1
<1>11. w \in Works /\ DOMAIN w = ready
  <2>1. w \in [ready -> [fp : Nat, parsed : Nat]]
    BY <1>10
  <2>2. QED
    BY <1>8, <2>1, WorkFits
<1>12. scan' = [scan EXCEPT !.pc = "commit", !.work = w, !.wrote = scan.wrote \/ ready # {}]
  BY <1>4, <1>7 DEF Scans
<1> HIDE DEF w
<1>13. /\ scan' \in Scans /\ scan'.pc = "commit" /\ scan'.todo = scan.todo /\ scan'.work = w
       /\ Carry /\ scan'.wrote = (scan.wrote \/ ready # {}) /\ scan'.derived = scan.derived
       /\ scan'.dirty = scan.dirty /\ scan'.status = scan.status /\ scan'.quiet = scan.quiet
  BY <1>4, <1>11, <1>12 DEF Scans, Pc, Carry
<1> HIDE DEF ready
<1>14. Alive'
  BY <1>13 DEF Alive
<1>15. Typed'
  BY <1>1, <1>2, <1>13, <1>14 DEF Typed, TypeOK, Carry
<1>16. RunningHasThread' /\ Versions'
  BY <1>1, <1>2, <1>13, <1>14 DEF Good, RunningHasThread, Versions, Carry
<1>17. \A q : Current(q)' <=> Current(q)
  BY <1>1, <1>13 DEF Current
<1>18. Ordered'
  <2>1. \E q \in Content : Current(q)' /\ \A f \in DOMAIN scan'.work : PhaseOf[f] = q
    BY <1>3, <1>8, <1>11, <1>13, <1>17
  <2>2. ~scan'.dirty
    BY <1>1, <1>13 DEF Ordered
  <2>3. DOMAIN scan'.work # {} => scan'.wrote
    BY <1>11, <1>13
  <2>4. QED
    BY <1>6, <1>13, <2>1, <2>2, <2>3 DEF Ordered
<1>19. InHand'
  <2>1. \A f \in ready : 0 < scan.work[f].fp /\ scan.work[f].fp <= made[f] /\ RootOf[f] \notin scan.away
    BY <1>1, <1>8 DEF InHand
  <2>2. \A f \in ready : Readable(f) <= made[f] /\ (Readable(f) = 0 \/ scan.work[f].fp <= Readable(f))
    BY <1>9, <2>1
  <2>3. QED
    BY <1>2, <1>10, <1>11, <1>13, <2>1, <2>2 DEF InHand, Carry
<1>20. StaysAway'
  BY <1>1, <1>2, <1>6, <1>13 DEF StaysAway, Carry
<1>21. Rederived'
  <2>1. scan'.pc \in Busy
    BY <1>13 DEF Busy
  <2>2. scan'.wrote = scan.wrote \/ (scan'.wrote /\ "links" \in scan.todo /\ "index" \in scan.todo)
    BY <1>4, <1>6, <1>13
  <2>3. QED
    BY <1>2, <1>5, <1>13, <2>1, <2>2, RederivedKept DEF Good, Carry
<1>22. QuietScan'
  <2> SUFFICES ASSUME Clean'
               PROVE  QuietScan'
    BY DEF QuietScan
  <2>1. Clean /\ ~Cancelled
    BY <1>1, <1>2, <1>13, CleanBefore
  <2>2. up = Root /\ available = Root
    BY <1>6, <2>1 DEF Good, QuietScan
  <2>3. \A f \in File : PhaseOf[f] \notin scan.todo => Known(f)
    BY <2>1 DEF Good, QuietScan
  <2>4. /\ \A f \in File : Current(PhaseOf[f]) => f \in DOMAIN scan.work \/ Known(f)
        /\ \A f \in DOMAIN scan.work : scan.work[f].fp = disk[f]
    BY <1>1, <2>1 DEF Good, QuietScan
  <2>5. \A f \in DOMAIN scan.work : f \in File /\ RootOf[f] \in up /\ Readable(f) = disk[f] /\ disk[f] > 0
    <3>1. \A f \in DOMAIN scan.work : f \in File /\ RootOf[f] \in Root
      BY <1>4, WorkFields, IndexerOK
    <3>2. QED
      BY <1>1, <2>2, <2>4, <3>1 DEF Readable, InHand
  <2>6. ready = DOMAIN scan.work
    BY <1>7, <2>1, <2>5 DEF ready
  <2>7. QED
    BY <1>2, <1>6, <1>10, <1>11, <1>13, <1>17, <2>2, <2>3, <2>4, <2>6 DEF QuietScan, Known
<1>23. QED
  BY <1>15, <1>16, <1>18, <1>19, <1>20, <1>21, <1>22 DEF Good

LEMMA StepCommit ==
    ASSUME Good, NEW p \in Content, Commit(p)
    PROVE  Good'
<1> USE DEF diskVars, jobVars
<1>1. Typed /\ Alive /\ Ordered /\ InHand /\ Versions /\ scan.pc = "commit" /\ Current(p)
  BY DEF Good, Commit, Alive
<1>2. UNCHANGED <<disk, made, up, available, linked, docs, relink, jobs, job, cancelSet, canceller, lapse>>
  BY DEF Commit
<1>3. /\ scan \in Scans /\ scan.todo \subseteq Phase /\ scan.work \in Works
      /\ scan.wrote \in BOOLEAN
  BY <1>1, AliveFields
<1>4. p \in Phase /\ scan.pc \in Busy /\ p \in scan.todo /\ p # "prune"
  BY <1>1 DEF Phase, Busy, Content, Current
<1>5. /\ "links" \in scan.todo /\ "index" \in scan.todo /\ "prune" \in scan.todo
      /\ "roots" \notin scan.todo
  BY <1>1, <1>3, <1>4, CurrentIsFirst DEF Ordered, Content
<1>6. \A f \in DOMAIN scan.work : /\ f \in File /\ PhaseOf[f] = p
                                  /\ scan.work[f].fp \in Nat /\ scan.work[f].parsed \in Nat
  <2>1. PICK q \in Content : Current(q) /\ \A f \in DOMAIN scan.work : PhaseOf[f] = q
    BY <1>1 DEF Ordered
  <2>2. p = q
    BY <1>1, <1>3, <1>4, <2>1, CurrentIsFirst DEF Phase
  <2>3. QED
    BY <1>3, <2>1, <2>2, WorkFields
<1>7. PICK items \in SUBSET DOMAIN scan.work :
        /\ Written(items)
        /\ \/ scan' = After(p) /\ (Cancelled \/ items = DOMAIN scan.work) /\ left' = left
           \/ scan' = [After(p) EXCEPT !.quiet = FALSE] /\ Spend("fault")
  <2>1. CASE /\ \E items \in SUBSET DOMAIN scan.work :
                    (Cancelled \/ items = DOMAIN scan.work) /\ Written(items)
             /\ scan' = After(p)
             /\ UNCHANGED left
    BY <2>1
  <2>2. CASE /\ \E f \in DOMAIN scan.work : Written(DOMAIN scan.work \ {f})
             /\ scan' = [After(p) EXCEPT !.quiet = FALSE]
             /\ Spend("fault")
    BY <2>2
  <2>3. QED
    BY <2>1, <2>2 DEF Commit
<1>8. /\ fp' = [f \in File |-> IF f \in items THEN scan.work[f].fp ELSE fp[f]]
      /\ parsed' = [f \in File |-> IF f \in items THEN scan.work[f].parsed ELSE parsed[f]]
      /\ missing' = [f \in File |-> IF f \in items THEN "no" ELSE missing[f]]
  BY <1>7 DEF Written
<1>9. /\ scan' \in Scans /\ scan'.pc = "phase" /\ scan'.todo = scan.todo \ {p}
      /\ Carry /\ scan'.wrote = scan.wrote /\ scan'.derived = scan.derived
      /\ scan'.dirty = scan.dirty /\ scan'.status = scan.status
      /\ scan'.quiet => /\ scan.quiet
                        /\ Cancelled \/ items = DOMAIN scan.work
  <2>1. CASE scan' = After(p) /\ (Cancelled \/ items = DOMAIN scan.work)
    BY <1>1, <1>4, <2>1, AfterFields DEF Carry
  <2>2. CASE scan' = [After(p) EXCEPT !.quiet = FALSE]
    <3> DEFINE a == After(p)
    <3>1. /\ a \in Scans /\ a.pc = "phase" /\ a.todo = scan.todo \ {p}
          /\ a.job = scan.job /\ a.force = scan.force /\ a.whole = scan.whole /\ a.away = scan.away
          /\ a.wrote = scan.wrote /\ a.derived = scan.derived
          /\ a.dirty = scan.dirty /\ a.status = scan.status
      BY <1>1, <1>4, AfterFields
    <3>2. scan' = [a EXCEPT !.quiet = FALSE]
      BY <2>2
    <3> HIDE DEF a
    <3>3. /\ scan' \in Scans /\ scan'.quiet = FALSE
          /\ scan'.pc = a.pc /\ scan'.todo = a.todo /\ scan'.job = a.job /\ scan'.force = a.force
          /\ scan'.whole = a.whole /\ scan'.away = a.away /\ scan'.wrote = a.wrote
          /\ scan'.derived = a.derived /\ scan'.dirty = a.dirty /\ scan'.status = a.status
      BY <3>1, <3>2 DEF Scans
    <3>4. QED
      BY <3>1, <3>3 DEF Carry
  <2>3. QED
    BY <1>7, <2>1, <2>2
<1>10. left' \in [Kind -> Nat]
  BY <1>1, <1>7, SpendTyped DEF Typed, Kind
<1>11. Alive'
  BY <1>9 DEF Alive
<1>12. /\ fp' \in [File -> Nat] /\ parsed' \in [File -> Nat]
       /\ missing' \in [File -> {"no", "recent", "expired"}]
  BY <1>1, <1>6, <1>8 DEF Typed, TypeOK
<1>13. \A f \in File : fp'[f] <= made[f] /\ parsed'[f] <= made[f]
  BY <1>1, <1>6, <1>8 DEF Typed, TypeOK, InHand
<1>14. Typed'
  <2>1. TypeOK'
    BY <1>1, <1>2, <1>9, <1>11, <1>12, <1>13 DEF Typed, TypeOK, Carry
  <2>2. QED
    BY <1>1, <1>2, <1>9, <1>10, <1>12, <2>1 DEF Typed
<1>15. RunningHasThread'
  BY <1>1, <1>2, <1>9, <1>11 DEF Good, RunningHasThread, Carry
<1>16. Versions'
  <2>1. \A f \in File : parsed'[f] = 0 \/ fp'[f] <= parsed'[f]
    BY <1>1, <1>8 DEF Versions, InHand
  <2>2. QED
    BY <1>1, <1>2, <2>1 DEF Versions
<1>17. Ordered' /\ InHand'
  <2>1. ~scan'.dirty
    BY <1>1, <1>9 DEF Ordered
  <2>2. QED
    BY <1>1, <1>4, <1>9, <2>1, AfterOrdered DEF InHand
<1>18. StaysAway'
  BY <1>1, <1>2, <1>5, <1>9 DEF Good, StaysAway, Carry
<1>19. Rederived'
  <2>1. "links" \in scan'.todo /\ "index" \in scan'.todo /\ scan'.pc = "phase" /\ "phase" \in Busy
    BY <1>4, <1>5, <1>9 DEF Content, Busy
  <2>2. ASSUME ~scan'.wrote
        PROVE  UNCHANGED <<parsed, missing, linked, docs>>
    <3>1. items = {}
      BY <1>1, <1>9, <2>2 DEF Ordered
    <3>2. \A f \in File : parsed'[f] = parsed[f] /\ missing'[f] = missing[f]
      BY <1>8, <3>1
    <3>3. QED
      BY <1>1, <1>2, <1>12, <3>2 DEF Typed, TypeOK
  <2>3. ASSUME ~scan'.wrote, ~scan'.dirty, Settled'
        PROVE  Derived'
    <3>1. Derived
      BY <1>2, <1>4, <1>9, <2>3 DEF Good, Rederived, Settled
    <3>2. QED
      BY <2>2, <2>3, <3>1, RowsKeptDerived
  <2>4. QED
    BY <2>1, <2>3 DEF Rederived
<1>20. QuietScan'
  <2> SUFFICES ASSUME Clean'
               PROVE  QuietScan'
    BY DEF QuietScan
  <2>1. Clean /\ ~Cancelled
    BY <1>1, <1>2, <1>9, CleanBefore
  <2>2. up = Root /\ available = Root
    BY <1>5, <2>1 DEF Good, QuietScan
  <2>3. items = DOMAIN scan.work
    BY <1>9, <2>1 DEF Clean
  <2>4. \A f \in File : Current(PhaseOf[f]) => f \in DOMAIN scan.work \/ Known(f)
    BY <1>1, <2>1 DEF Good, QuietScan
  <2>5. \A f \in DOMAIN scan.work : scan.work[f].fp = disk[f]
    BY <1>1, <2>1 DEF Good, QuietScan
  <2>6. \A f \in File : PhaseOf[f] \notin scan.todo => Known(f)
    BY <2>1 DEF Good, QuietScan
  <2>7. \A f \in File : PhaseOf[f] = p \/ PhaseOf[f] \notin scan.todo => Known(f)'
    <3> SUFFICES ASSUME NEW f \in File, PhaseOf[f] = p \/ PhaseOf[f] \notin scan.todo
                 PROVE  Known(f)'
      OBVIOUS
    <3>1. CASE f \in items
      BY <1>2, <1>8, <2>5, <3>1 DEF Known
    <3>2. CASE f \notin items
      BY <1>1, <1>2, <1>8, <2>3, <2>4, <2>6, <3>2 DEF Known
    <3>3. QED
      BY <3>1, <3>2
  <2>8. QED
    BY <1>2, <1>9, <2>2, <2>7 DEF QuietScan
<1>21. QED
  BY <1>14, <1>15, <1>16, <1>17, <1>18, <1>19, <1>20 DEF Good

LEMMA StepLinks ==
    ASSUME Good, Links
    PROVE  Good'
<1> USE DEF diskVars, rowVars, jobVars
<1>1. Typed /\ Alive /\ Ordered /\ scan.pc = "phase" /\ Current("links") /\ ~Cancelled
  BY DEF Good, Links, At, Alive
<1>2. UNCHANGED <<disk, made, up, fp, parsed, missing, available, docs, relink, jobs, job,
                  cancelSet, canceller, lapse>>
  BY DEF Links
<1>3. "links" \in Phase /\ scan.pc \in Busy /\ "links" \in scan.todo
  BY <1>1 DEF Phase, Busy, Current
<1>4. /\ scan \in Scans /\ scan.todo \subseteq Phase /\ scan.wrote \in BOOLEAN
      /\ scan.force \in BOOLEAN /\ relink \in BOOLEAN
  BY <1>1, AliveFields DEF Typed, TypeOK
<1>5. "roots" \notin scan.todo /\ "index" \in scan.todo
  BY <1>1, <1>3, <1>4, CurrentIsFirst DEF Ordered
<1>6. /\ scan' \in Scans /\ scan'.pc = "phase" /\ scan'.todo = scan.todo \ {"links"}
      /\ Carry /\ scan'.wrote = scan.wrote
      /\ scan'.dirty = scan.dirty /\ scan'.status = scan.status /\ scan'.quiet = scan.quiet
      /\ \/ scan'.derived = scan.derived /\ NeedsRelink /\ linked' = [f \in File |-> LinkView(f)]
            /\ left' = left
         \/ ~scan'.derived /\ linked' = linked /\ Spend("fault")
         \/ scan'.derived = scan.derived /\ ~NeedsRelink /\ linked' = linked /\ left' = left
  <2> DEFINE a == After("links")
  <2>1. /\ a \in Scans /\ a.pc = "phase" /\ a.todo = scan.todo \ {"links"}
        /\ a.job = scan.job /\ a.force = scan.force /\ a.whole = scan.whole /\ a.away = scan.away
        /\ a.wrote = scan.wrote /\ a.derived = scan.derived
        /\ a.dirty = scan.dirty /\ a.status = scan.status /\ a.quiet = scan.quiet
    BY <1>1, <1>3, AfterFields
  <2>2. \/ scan' = a /\ NeedsRelink /\ linked' = [f \in File |-> LinkView(f)] /\ left' = left
        \/ scan' = [a EXCEPT !.derived = FALSE] /\ linked' = linked /\ Spend("fault")
        \/ scan' = a /\ ~NeedsRelink /\ linked' = linked /\ left' = left
    BY DEF Links
  <2> HIDE DEF a
  <2>3. CASE /\ scan' = a
             /\ \/ NeedsRelink /\ linked' = [f \in File |-> LinkView(f)] /\ left' = left
                \/ ~NeedsRelink /\ linked' = linked /\ left' = left
    <3>1. scan' = a
      BY <2>3
    <3>2. Carry
      BY <2>1, <3>1 DEF Carry
    <3>3. QED
      BY <2>1, <2>3, <3>2
  <2>4. CASE scan' = [a EXCEPT !.derived = FALSE] /\ linked' = linked /\ Spend("fault")
    <3>1. scan' \in Scans /\ scan'.derived = FALSE
      BY <2>1, <2>4 DEF Scans
    <3>2. /\ scan'.pc = a.pc /\ scan'.todo = a.todo /\ scan'.job = a.job /\ scan'.force = a.force
          /\ scan'.whole = a.whole /\ scan'.away = a.away /\ scan'.wrote = a.wrote
          /\ scan'.dirty = a.dirty /\ scan'.status = a.status /\ scan'.quiet = a.quiet
      BY <2>1, <2>4 DEF Scans
    <3>3. QED
      BY <2>1, <2>4, <3>1, <3>2 DEF Carry
  <2>5. QED
    BY <2>2, <2>3, <2>4
<1>7. Alive'
  BY <1>6 DEF Alive
<1>8. \A f \in File : LinkView(f) \in Nat /\ LinkView(f)' = LinkView(f)
  BY <1>1, <1>2 DEF LinkView, Typed
<1>9. Typed'
  <2>1. TypeOK'
    BY <1>1, <1>2, <1>6, <1>7 DEF Typed, TypeOK, Carry
  <2>2. linked' \in [File -> Nat]
    BY <1>1, <1>6, <1>8 DEF Typed
  <2>3. left' \in [Kind -> Nat]
    BY <1>1, <1>6, SpendTyped DEF Typed, Kind
  <2>4. QED
    BY <1>1, <1>2, <1>6, <2>1, <2>2, <2>3 DEF Typed
<1>10. RunningHasThread' /\ Versions'
  BY <1>1, <1>2, <1>6, <1>7 DEF Good, RunningHasThread, Versions, Carry
<1>11. Ordered' /\ InHand'
  <2>1. ~scan'.dirty
    BY <1>1, <1>6 DEF Ordered
  <2>2. QED
    BY <1>1, <1>3, <1>6, <2>1, AfterOrdered DEF InHand
<1>12. StaysAway'
  BY <1>1, <1>2, <1>5, <1>6 DEF Good, StaysAway, Carry
<1>13. Rederived'
  <2>1. /\ scan'.pc = "phase" /\ "phase" \in Busy
        /\ "links" \notin scan'.todo /\ "index" \in scan'.todo
    BY <1>5, <1>6 DEF Busy
  <2>2. ASSUME ~scan'.wrote, ~scan'.dirty, Settled'
        PROVE  Derived'
    <3>1. Derived
      BY <1>2, <1>3, <1>6, <2>2 DEF Good, Rederived, Settled
    <3>2. \A f \in File : linked'[f] = LinkView(f)
      BY <1>6, <3>1 DEF Derived
    <3>3. QED
      BY <1>2, <1>8, <3>1, <3>2 DEF Derived
  <2>3. ASSUME NeedsRelink', scan'.derived
        PROVE  \A f \in File : linked'[f] = LinkView(f)'
    <3>1. NeedsRelink
      BY <1>2, <1>6, <2>3 DEF NeedsRelink, Carry
    <3>2. linked' = [f \in File |-> LinkView(f)]
      BY <1>6, <2>3, <3>1
    <3>3. QED
      BY <1>8, <3>2
  <2>4. QED
    BY <2>1, <2>2, <2>3 DEF Rederived
<1>14. QuietScan'
  <2> SUFFICES ASSUME Clean'
               PROVE  QuietScan'
    BY DEF QuietScan
  <2>1. Clean
    BY <1>1, <1>2, <1>6, CleanBefore
  <2>2. \A f \in File : PhaseOf[f] \notin scan'.todo => Known(f)'
    BY <1>2, <1>6, <2>1, IndexerOK DEF Good, QuietScan, Known, Content
  <2>3. QED
    BY <1>2, <1>5, <1>6, <2>1, <2>2 DEF Good, QuietScan
<1>15. QED
  BY <1>9, <1>10, <1>11, <1>12, <1>13, <1>14 DEF Good

LEMMA StepIndex ==
    ASSUME Good, Index
    PROVE  Good'
<1> USE DEF diskVars, rowVars, jobVars
<1>1. Typed /\ Alive /\ Ordered /\ scan.pc = "phase" /\ Current("index") /\ ~Cancelled
  BY DEF Good, Index, At, Alive
<1>2. /\ UNCHANGED <<disk, made, up, fp, parsed, missing, available, linked, relink, jobs, job,
                     cancelSet, canceller, left, lapse>>
      /\ docs' = IF NeedsRelink THEN parsed ELSE docs
  BY DEF Index
<1>3. "index" \in Phase /\ scan.pc \in Busy /\ "index" \in scan.todo
  BY <1>1 DEF Phase, Busy, Current
<1>4. /\ scan \in Scans /\ scan.todo \subseteq Phase /\ scan.wrote \in BOOLEAN
      /\ scan.force \in BOOLEAN /\ relink \in BOOLEAN
  BY <1>1, AliveFields DEF Typed, TypeOK
<1>5. "roots" \notin scan.todo /\ "links" \notin scan.todo
  BY <1>1, <1>3, <1>4, CurrentIsFirst
<1>6. /\ scan' \in Scans /\ scan'.pc = "phase" /\ scan'.todo = scan.todo \ {"index"}
      /\ Carry /\ scan'.wrote = scan.wrote /\ scan'.derived = scan.derived
      /\ scan'.dirty = scan.dirty /\ scan'.status = scan.status /\ scan'.quiet = scan.quiet
  BY <1>1, <1>3, AfterFields DEF Carry, Index
<1>7. Alive'
  BY <1>6 DEF Alive
<1>8. Typed'
  <2>1. TypeOK'
    BY <1>1, <1>2, <1>6, <1>7 DEF Typed, TypeOK, Carry
  <2>2. docs' \in [File -> Nat]
    BY <1>1, <1>2 DEF Typed
  <2>3. QED
    BY <1>1, <1>2, <1>6, <2>1, <2>2 DEF Typed
<1>9. RunningHasThread' /\ Versions'
  BY <1>1, <1>2, <1>6, <1>7 DEF Good, RunningHasThread, Versions, Carry
<1>10. Ordered' /\ InHand'
  <2>1. ~scan'.dirty
    BY <1>1, <1>6 DEF Ordered
  <2>2. QED
    BY <1>1, <1>3, <1>6, <2>1, AfterOrdered DEF InHand
<1>11. StaysAway'
  BY <1>1, <1>2, <1>5, <1>6 DEF Good, StaysAway, Carry
<1>12. Rederived'
  <2>1. scan'.pc = "phase" /\ "phase" \in Busy /\ "index" \notin scan'.todo /\ ~scan.dirty
    BY <1>1, <1>6 DEF Busy, Ordered
  <2>2. \A f \in File : LinkView(f)' = LinkView(f)
    BY <1>2 DEF LinkView
  <2>3. ASSUME Derived
        PROVE  Derived'
    <3>1. \A f \in File : docs'[f] = parsed[f]
      BY <1>2, <2>3 DEF Derived
    <3>2. QED
      BY <1>2, <2>2, <2>3, <3>1 DEF Derived
  <2>4. ASSUME ~scan'.wrote, ~scan'.dirty, Settled'
        PROVE  Derived'
    <3>1. Derived
      BY <1>2, <1>3, <1>6, <2>4 DEF Good, Rederived, Settled
    <3>2. QED
      BY <2>3, <3>1
  <2>5. ASSUME scan'.derived, ~lapse'
        PROVE  Derived'
    <3>1. CASE NeedsRelink
      <4>1. \A f \in File : linked[f] = LinkView(f)
        BY <1>3, <1>5, <1>6, <2>5, <3>1 DEF Good, Rederived
      <4>2. QED
        BY <1>2, <2>2, <3>1, <4>1 DEF Derived
    <3>2. CASE ~NeedsRelink
      <4>1. ~scan.wrote /\ Settled
        BY <1>2, <2>5, <3>2 DEF NeedsRelink, Settled
      <4>2. Derived
        BY <1>3, <2>1, <4>1 DEF Good, Rederived
      <4>3. QED
        BY <2>3, <4>2
    <3>3. QED
      BY <3>1, <3>2
  <2>6. QED
    BY <2>1, <2>4, <2>5 DEF Rederived
<1>13. QuietScan'
  <2> SUFFICES ASSUME Clean'
               PROVE  QuietScan'
    BY DEF QuietScan
  <2>1. Clean
    BY <1>1, <1>2, <1>6, CleanBefore
  <2>2. \A f \in File : PhaseOf[f] \notin scan'.todo => Known(f)'
    BY <1>2, <1>6, <2>1, IndexerOK DEF Good, QuietScan, Known, Content
  <2>3. QED
    BY <1>2, <1>5, <1>6, <2>1, <2>2 DEF Good, QuietScan
<1>14. QED
  BY <1>8, <1>9, <1>10, <1>11, <1>12, <1>13 DEF Good

LEMMA StepPruneRead ==
    ASSUME Good, PruneRead
    PROVE  Good'
<1> USE DEF diskVars, tableVars, rowVars, jobVars
<1>1. Typed /\ Alive /\ Ordered /\ scan.pc = "phase" /\ Current("prune") /\ ~Cancelled
  BY DEF Good, PruneRead, At, Alive
<1>2. UNCHANGED <<disk, made, up, fp, parsed, missing, available, linked, docs, relink, jobs, job,
                  cancelSet, canceller, left, lapse>>
  BY DEF PruneRead
<1>3. /\ scan \in Scans /\ scan.todo = {"prune"} /\ scan.pc \in Busy
  BY <1>1, AliveFields, CurrentIsFirst DEF Phase, Busy
<1> DEFINE gone == {f \in File : Gone(f)}
           back == {f \in File : Back(f)}
<1>4. scan' = [scan EXCEPT !.pc = "prune", !.gone = gone, !.back = back]
  BY DEF PruneRead
<1>5. /\ gone \subseteq File /\ back \subseteq File
      /\ \A f \in File : (f \in gone <=> Gone(f)) /\ (f \in back <=> Back(f))
  OBVIOUS
<1> HIDE DEF gone, back
<1>6. /\ scan' \in Scans /\ scan'.pc = "prune" /\ scan'.todo = scan.todo
      /\ scan'.gone = gone /\ scan'.back = back
      /\ Carry /\ scan'.wrote = scan.wrote /\ scan'.derived = scan.derived
      /\ scan'.dirty = scan.dirty /\ scan'.status = scan.status /\ scan'.quiet = scan.quiet
  BY <1>3, <1>4, <1>5 DEF Scans, Pc, Carry
<1>7. Alive'
  BY <1>6 DEF Alive
<1>8. Typed'
  BY <1>1, <1>2, <1>6, <1>7 DEF Typed, TypeOK, Carry
<1>9. RunningHasThread' /\ Versions'
  BY <1>1, <1>2, <1>6, <1>7 DEF Good, RunningHasThread, Versions, Carry
<1>10. Ordered' /\ InHand'
  BY <1>1, <1>3, <1>6 DEF Ordered, InHand, Content
<1>11. StaysAway'
  <2>1. scan.away \cap up = {} /\ scan.away \cap available = {}
    BY <1>1, <1>3 DEF Good, StaysAway
  <2>2. \A f \in gone : PhaseOf[f] = "nodes" \/ RootOf[f] \notin scan.away
    BY <1>5, <2>1 DEF Gone, Checked
  <2>3. QED
    BY <1>2, <1>6, <2>1, <2>2 DEF StaysAway, Carry
<1>12. Rederived'
  <2>1. scan'.pc \in Busy
    BY <1>6 DEF Busy
  <2>2. QED
    BY <1>2, <1>3, <1>6, <2>1, RederivedKept DEF Good, Carry
<1>13. QuietScan'
  <2> SUFFICES ASSUME Clean'
               PROVE  QuietScan'
    BY DEF QuietScan
  <2>1. Clean
    BY <1>1, <1>2, <1>6, CleanBefore
  <2>2. up = Root /\ available = Root
    BY <1>3, <2>1 DEF Good, QuietScan
  <2>3. \A f \in File : Known(f)
    BY <1>3, <2>1, IndexerOK DEF Good, QuietScan, Content
  <2>4. \A f \in File :
            IF disk[f] > 0 THEN f \notin gone /\ (missing[f] = "no" \/ f \in back)
            ELSE f \notin back /\ (f \in gone \/ missing[f] # "no" \/ fp[f] = 0)
    <3> SUFFICES ASSUME NEW f \in File
                 PROVE  IF disk[f] > 0 THEN f \notin gone /\ (missing[f] = "no" \/ f \in back)
                        ELSE f \notin back /\ (f \in gone \/ missing[f] # "no" \/ fp[f] = 0)
      OBVIOUS
    <3>1. RootOf[f] \in Root /\ fp[f] \in Nat
      BY <1>1, IndexerOK DEF Typed
    <3>2. OnDisk(f) <=> disk[f] > 0
      BY <2>2, <3>1 DEF OnDisk
    <3>3. Checked(f) <=> fp[f] > 0
      BY <2>2, <3>1 DEF Checked
    <3>4. disk[f] > 0 => fp[f] > 0
      BY <2>3 DEF Known
    <3>5. QED
      BY <1>5, <3>1, <3>2, <3>3, <3>4 DEF Gone, Back
  <2>5. QED
    BY <1>2, <1>6, <2>2, <2>3, <2>4 DEF QuietScan, Known
<1>14. QED
  BY <1>8, <1>9, <1>10, <1>11, <1>12, <1>13 DEF Good

LEMMA StepPruneWrite ==
    ASSUME Good, PruneWrite
    PROVE  Good'
<1> USE DEF diskVars, jobVars
<1>1. Typed /\ Alive /\ Ordered /\ scan.pc = "prune" /\ Versions
  BY DEF Good, PruneWrite, Alive
<1>2. UNCHANGED <<disk, made, up, available, linked, docs, relink, jobs, job,
                  cancelSet, canceller, left, lapse>>
  BY DEF PruneWrite
<1>3. scan \in Scans /\ scan.todo = {"prune"} /\ scan.gone \subseteq File /\ scan.back \subseteq File
      /\ ~scan.dirty
  BY <1>1, AliveFields DEF Ordered
<1> DEFINE flag(f) == IF f \in scan.gone THEN "recent"
                      ELSE IF f \in scan.back THEN "no" ELSE missing[f]
           purged  == {f \in File : flag(f) = "expired"}
           dirty   == scan.gone \cup scan.back \cup purged # {}
<1>4. /\ missing' = [f \in File |-> IF f \in purged THEN "no" ELSE flag(f)]
      /\ fp' = [f \in File |-> IF f \in purged THEN 0 ELSE fp[f]]
      /\ parsed' = [f \in File |-> IF f \in purged THEN 0 ELSE parsed[f]]
      /\ scan' = [scan EXCEPT !.pc = "flag", !.dirty = dirty]
  BY DEF PruneWrite
<1>5. \A f \in File : /\ f \in purged <=> flag(f) = "expired"
                      /\ flag(f) \in {"no", "recent", "expired"}
  BY <1>1 DEF Typed, TypeOK
<1>6. dirty \in BOOLEAN /\ (~dirty => \A f \in File : f \notin purged /\ flag(f) = missing[f])
  OBVIOUS
<1> HIDE DEF purged, dirty
<1>7. /\ scan' \in Scans /\ scan'.pc = "flag" /\ scan'.todo = scan.todo /\ scan'.dirty = dirty
      /\ Carry /\ scan'.wrote = scan.wrote /\ scan'.derived = scan.derived
      /\ scan'.status = scan.status /\ scan'.quiet = scan.quiet
  BY <1>3, <1>4, <1>6 DEF Scans, Pc, Carry
<1>8. Alive'
  BY <1>7 DEF Alive
<1>9. /\ fp' \in [File -> Nat] /\ parsed' \in [File -> Nat]
      /\ missing' \in [File -> {"no", "recent", "expired"}]
  <2>1. \A f \in File : fp'[f] \in Nat /\ parsed'[f] \in Nat
    BY <1>1, <1>4 DEF Typed
  <2>2. QED
    BY <1>4, <1>5, <2>1
<1>10. \A f \in File : fp'[f] <= made[f] /\ parsed'[f] <= made[f]
  <2>1. \A f \in File : 0 <= made[f] /\ fp[f] <= made[f] /\ parsed[f] <= made[f]
    <3>1. \A f \in File : made[f] \in Nat /\ fp[f] <= made[f] /\ parsed[f] <= made[f]
      BY <1>1 DEF Typed, TypeOK
    <3>2. \A n \in Nat : 0 <= n
      OBVIOUS
    <3>3. QED
      BY <3>1, <3>2
  <2>2. QED
    BY <1>4, <2>1
<1>11. Typed'
  <2>1. TypeOK'
    BY <1>1, <1>2, <1>7, <1>8, <1>9, <1>10 DEF Typed, TypeOK, Carry
  <2>2. QED
    BY <1>1, <1>2, <1>7, <1>9, <2>1 DEF Typed
<1>12. RunningHasThread'
  BY <1>1, <1>2, <1>7, <1>8 DEF Good, RunningHasThread, Carry
<1>13. Versions'
  BY <1>1, <1>2, <1>4 DEF Versions
<1>14. Ordered' /\ InHand'
  BY <1>3, <1>7 DEF Ordered, InHand, Content
<1>15. StaysAway'
  BY <1>1, <1>2, <1>7 DEF Good, StaysAway, Carry
<1>16. ASSUME ~dirty
       PROVE  UNCHANGED <<fp, parsed, missing>>
  <2>1. \A f \in File : fp'[f] = fp[f] /\ parsed'[f] = parsed[f] /\ missing'[f] = missing[f]
    BY <1>4, <1>6, <1>16
  <2>2. QED
    BY <1>1, <1>9, <2>1 DEF Typed, TypeOK
<1>17. Rederived'
  <2>1. /\ scan'.pc = "flag" /\ "flag" \in Busy /\ scan.pc \in Busy
        /\ "links" \notin scan'.todo /\ "index" \notin scan'.todo
        /\ "links" \notin scan.todo /\ "index" \notin scan.todo
    BY <1>1, <1>3, <1>7 DEF Busy
  <2>2. ASSUME ~scan'.dirty
        PROVE  Derived' <=> Derived
    BY <1>2, <1>7, <1>16, <2>2, RowsKeptDerived
  <2>3. ASSUME ~scan'.wrote, ~scan'.dirty, Settled'
        PROVE  Derived'
    BY <1>2, <1>3, <1>7, <2>1, <2>2, <2>3 DEF Good, Rederived, Settled
  <2>4. ASSUME scan'.derived, ~scan'.dirty, ~lapse'
        PROVE  Derived'
    BY <1>2, <1>3, <1>7, <2>1, <2>2, <2>4 DEF Good, Rederived
  <2>5. QED
    BY <2>1, <2>3, <2>4 DEF Rederived
<1>18. QuietScan'
  <2> SUFFICES ASSUME Clean'
               PROVE  QuietScan'
    BY DEF QuietScan
  <2>1. Clean
    BY <1>1, <1>2, <1>7, CleanBefore
  <2>2. up = Root /\ available = Root
    BY <1>3, <2>1 DEF Good, QuietScan
  <2>3. \A f \in File : Known(f)
    BY <1>3, <2>1, IndexerOK DEF Good, QuietScan, Content
  <2>4. \A f \in File : Describes(f)'
    <3> SUFFICES ASSUME NEW f \in File
                 PROVE  Describes(f)'
      OBVIOUS
    <3>1. /\ disk[f] \in Nat /\ disk[f] \in {0, made[f]} /\ parsed[f] \in Nat /\ parsed[f] <= made[f]
          /\ fp[f] \in Nat
          /\ parsed[f] = 0 \/ fp[f] <= parsed[f]
      BY <1>1 DEF Typed, TypeOK, Versions
    <3>2. IF disk[f] > 0 THEN f \notin scan.gone /\ (missing[f] = "no" \/ f \in scan.back)
          ELSE f \notin scan.back /\ (f \in scan.gone \/ missing[f] # "no" \/ fp[f] = 0)
      BY <1>1, <2>1 DEF Good, QuietScan
    <3>3. CASE disk[f] > 0
      <4>1. fp[f] = disk[f] /\ parsed[f] \in {disk[f], 0}
        BY <2>3, <3>1, <3>3 DEF Known
      <4>2. flag(f) = "no" /\ f \notin purged
        BY <1>5, <3>2, <3>3
      <4>3. QED
        BY <1>2, <1>4, <3>3, <4>1, <4>2 DEF Describes
    <3>4. CASE disk[f] = 0
      <4>1. CASE f \in purged
        BY <1>2, <1>4, <3>4, <4>1 DEF Describes
      <4>2. CASE f \notin purged
        <5>1. flag(f) # "no" \/ fp[f] = 0
          BY <3>2, <3>4
        <5>2. QED
          BY <1>2, <1>4, <3>4, <4>2, <5>1 DEF Describes
      <4>3. QED
        BY <4>1, <4>2
    <3>5. QED
      BY <3>1, <3>3, <3>4
  <2>5. \A f \in File : Known(f)'
    BY <2>4 DEF Describes, Known
  <2>6. QED
    BY <1>2, <1>7, <2>2, <2>4, <2>5 DEF QuietScan
<1>19. QED
  BY <1>11, <1>12, <1>13, <1>14, <1>15, <1>17, <1>18 DEF Good

LEMMA StepPruneFlag ==
    ASSUME Good, PruneFlag
    PROVE  Good'
<1> USE DEF diskVars, rowVars, jobVars
<1>1. Typed /\ Alive /\ Ordered /\ scan.pc = "flag" /\ scan.todo = {"prune"}
  BY DEF Good, PruneFlag, Alive, Ordered
<1>2. /\ UNCHANGED <<disk, made, up, fp, parsed, missing, available, linked, docs, jobs, job,
                     cancelSet, canceller, left>>
      /\ relink' = scan.dirty
      /\ lapse' = (lapse \/ (~scan.derived /\ ~scan.dirty))
  BY DEF PruneFlag
<1>3. "prune" \in Phase /\ scan.pc \in Busy /\ Current("prune")
  BY <1>1 DEF Phase, Busy, Current, Order
<1>4. /\ scan' \in Scans /\ scan'.pc = "finish" /\ scan'.todo = scan.todo \ {"prune"}
      /\ Carry /\ scan'.wrote = scan.wrote /\ scan'.derived = scan.derived
      /\ scan'.dirty = scan.dirty /\ scan'.status = scan.status /\ scan'.quiet = scan.quiet
  BY <1>1, <1>3, AfterFields DEF Carry, PruneFlag
<1>5. Alive' /\ scan'.todo = {}
  BY <1>1, <1>4 DEF Alive
<1>6. scan.dirty \in BOOLEAN /\ scan.derived \in BOOLEAN /\ lapse \in BOOLEAN
  BY <1>1, AliveFields DEF Typed
<1>7. Typed'
  <2>1. TypeOK'
    BY <1>1, <1>2, <1>4, <1>5, <1>6 DEF Typed, TypeOK, Carry
  <2>2. lapse' \in BOOLEAN
    BY <1>2, <1>6
  <2>3. QED
    BY <1>1, <1>2, <1>4, <2>1, <2>2 DEF Typed
<1>8. RunningHasThread' /\ Versions'
  BY <1>1, <1>2, <1>4, <1>5 DEF Good, RunningHasThread, Versions, Carry
<1>9. Ordered' /\ InHand'
  BY <1>4, <1>5 DEF Ordered, InHand, Busy
<1>10. StaysAway'
  BY <1>1, <1>2, <1>4 DEF Good, StaysAway, Carry
<1>11. Rederived'
  <2>1. scan'.pc = "finish" /\ "finish" \notin Busy
    BY <1>4 DEF Busy
  <2>2. Derived' <=> Derived
    BY <1>2, RowsKeptDerived
  <2>3. ASSUME Settled'
        PROVE  Derived'
    <3>1. ~scan.dirty /\ ~lapse /\ scan.derived
      BY <1>2, <1>6, <2>3 DEF Settled
    <3>2. Derived
      BY <1>1, <1>3, <3>1 DEF Good, Rederived
    <3>3. QED
      BY <2>2, <3>2
  <2>4. QED
    BY <2>1, <2>3 DEF Rederived
<1>12. QuietScan'
  <2> SUFFICES ASSUME Clean'
               PROVE  QuietScan'
    BY DEF QuietScan
  <2>1. Clean
    BY <1>1, <1>2, <1>4, CleanBefore
  <2>2. /\ up = Root /\ available = Root
        /\ \A f \in File : Describes(f)
        /\ \A f \in File : PhaseOf[f] \in Content
    BY <1>1, <2>1, IndexerOK DEF Good, QuietScan
  <2>3. \A f \in File : Describes(f)' /\ Known(f)'
    BY <1>2, <2>2 DEF Describes, Known
  <2>4. QED
    BY <1>2, <1>4, <2>2, <2>3 DEF QuietScan
<1>13. QED
  BY <1>7, <1>8, <1>9, <1>10, <1>11, <1>12 DEF Good

LEMMA StepStopEarly ==
    ASSUME Good, StopEarly
    PROVE  Good'
<1> USE DEF diskVars, tableVars, rowVars, jobVars
<1>1. Typed /\ Alive /\ Ordered /\ scan.pc = "phase" /\ scan.pc \in Busy /\ ~scan.dirty
  BY DEF Good, StopEarly, Alive, Ordered, Busy
<1>2. /\ UNCHANGED <<disk, made, up, fp, parsed, missing, available, linked, docs, relink, jobs,
                     job, cancelSet, canceller, left>>
      /\ scan' = [scan EXCEPT !.pc = "finish", !.status = "cancelled"]
      /\ lapse' = (lapse \/ (scan.wrote /\ (~scan.derived \/ "index" \in scan.todo)))
  BY DEF StopEarly
<1>3. /\ scan \in Scans /\ scan.wrote \in BOOLEAN /\ scan.derived \in BOOLEAN
      /\ lapse \in BOOLEAN
  BY <1>1, AliveFields DEF Typed
<1>4. /\ scan' \in Scans /\ scan'.pc = "finish" /\ scan'.todo = scan.todo
      /\ Carry /\ scan'.status = "cancelled"
  BY <1>2, <1>3 DEF Scans, Pc, Carry
<1>5. Alive'
  BY <1>4 DEF Alive
<1>6. Typed'
  <2>1. TypeOK'
    BY <1>1, <1>2, <1>4, <1>5 DEF Typed, TypeOK, Carry
  <2>2. lapse' \in BOOLEAN
    BY <1>2, <1>3
  <2>3. QED
    BY <1>1, <1>2, <1>4, <2>1, <2>2 DEF Typed
<1>7. RunningHasThread' /\ Versions'
  BY <1>1, <1>2, <1>4, <1>5 DEF Good, RunningHasThread, Versions, Carry
<1>8. Ordered' /\ InHand'
  BY <1>1, <1>4 DEF Ordered, InHand, Busy
<1>9. StaysAway'
  BY <1>1, <1>2, <1>4 DEF Good, StaysAway, Carry
<1>10. Rederived'
  <2>1. scan'.pc = "finish" /\ "finish" \notin Busy
    BY <1>4 DEF Busy
  <2>2. Derived' <=> Derived
    BY <1>2, RowsKeptDerived
  <2>3. ASSUME Settled'
        PROVE  Derived'
    <3>1. /\ Settled
          /\ ~scan.wrote \/ (scan.derived /\ "index" \notin scan.todo)
      BY <1>2, <1>3, <2>3 DEF Settled
    <3>2. Derived
      BY <1>1, <3>1 DEF Good, Rederived, Settled
    <3>3. QED
      BY <2>2, <3>2
  <2>4. QED
    BY <2>1, <2>3 DEF Rederived
<1>11. QuietScan'
  BY <1>4 DEF QuietScan, Clean
<1>12. QED
  BY <1>6, <1>7, <1>8, <1>9, <1>10, <1>11 DEF Good

LEMMA StepFinish ==
    ASSUME Good, Finish
    PROVE  Good'
<1> USE DEF diskVars, tableVars, rowVars
<1>1. Typed /\ Alive /\ Ordered /\ scan.pc = "finish" /\ RunningHasThread
  BY DEF Good, Finish, Alive
<1>2. /\ UNCHANGED <<disk, made, up, fp, parsed, missing, available, linked, docs, relink,
                     job, cancelSet, canceller, left, lapse>>
      /\ jobs' = [jobs EXCEPT ![scan.job] = Status]
      /\ scan' = [scan EXCEPT !.pc = "end", !.status = Status]
  BY DEF Finish
<1>3. /\ scan \in Scans /\ scan.job = job /\ job \in {0, 1}
      /\ Status \in {"completed", "cancelled"}
  BY <1>1, AliveFields DEF Status
<1>4. /\ scan' \in Scans /\ scan'.pc = "end" /\ scan'.todo = scan.todo
      /\ Carry /\ scan'.status = Status /\ scan'.quiet = scan.quiet
  BY <1>2, <1>3 DEF Scans, Pc, Carry
<1>5. Alive'
  BY <1>4 DEF Alive
<1>6. DOMAIN jobs = {0, 1} /\ DOMAIN jobs' = {0, 1} /\ jobs'[job] = Status
      /\ \A j \in {0, 1} : j # job => jobs'[j] = jobs[j]
  BY <1>1, <1>2, <1>3 DEF Typed
<1>7. Typed'
  <2>1. \A j \in DOMAIN jobs' : jobs'[j] \in {"none", "running", "completed", "cancelled", "interrupted"}
    BY <1>1, <1>3, <1>6 DEF Typed, TypeOK
  <2>2. TypeOK'
    BY <1>1, <1>2, <1>3, <1>4, <1>5, <2>1 DEF Typed, TypeOK, Carry
  <2>3. QED
    BY <1>1, <1>2, <1>4, <1>6, <2>2 DEF Typed
<1>8. RunningHasThread'
  <2>1. \A j \in {0, 1} : jobs'[j] # "running"
    BY <1>1, <1>3, <1>6 DEF RunningHasThread
  <2>2. QED
    BY <1>4, <1>6, <2>1 DEF RunningHasThread
<1>9. Versions'
  BY <1>2 DEF Good, Versions
<1>10. Ordered' /\ InHand'
  BY <1>1, <1>4 DEF Ordered, InHand, Busy
<1>11. StaysAway'
  BY <1>1, <1>2, <1>4 DEF Good, StaysAway, Carry
<1>12. Rederived'
  <2>1. Derived' <=> Derived
    BY <1>2, RowsKeptDerived
  <2>2. QED
    BY <1>1, <1>2, <1>4, <2>1 DEF Good, Rederived, Settled, Busy
<1>13. QuietScan'
  <2> SUFFICES ASSUME Clean'
               PROVE  QuietScan'
    BY DEF QuietScan
  <2>1. Clean
    BY <1>1, <1>4 DEF Clean, Status, Carry
  <2>2. /\ up = Root
        /\ "roots" \notin scan.todo => available = Root
        /\ \A f \in File : PhaseOf[f] \notin scan.todo => Known(f)
        /\ \A f \in File : Describes(f)
    BY <1>1, <2>1 DEF Good, QuietScan
  <2>3. \A f \in File : (Describes(f)' <=> Describes(f)) /\ (Known(f)' <=> Known(f))
    BY <1>2 DEF Describes, Known
  <2>4. QED
    BY <1>2, <1>4, <2>2, <2>3 DEF QuietScan
<1>14. QED
  BY <1>7, <1>8, <1>9, <1>10, <1>11, <1>12, <1>13 DEF Good

LEMMA StepEnd ==
    ASSUME Good, End
    PROVE  Good'
<1> USE DEF diskVars, tableVars, rowVars, jobVars
<1>1. Typed /\ Alive /\ scan.pc = "end" /\ RunningHasThread
  BY DEF Good, End, Alive
<1>2. /\ UNCHANGED <<disk, made, up, fp, parsed, missing, available, linked, docs, relink,
                     jobs, job, cancelSet, canceller, left, lapse>>
      /\ scan' = Off
  BY DEF End
<1>3. ~Alive' /\ scan'.pc = "off"
  BY <1>2 DEF Alive, Off
<1>4. Typed'
  BY <1>1, <1>2, <1>3 DEF Typed, TypeOK
<1>5. RunningHasThread' /\ Versions'
  BY <1>1, <1>2, <1>3 DEF Good, RunningHasThread, Versions
<1>6. Rederived'
  <2>1. Derived' <=> Derived
    BY <1>2, RowsKeptDerived
  <2>2. QED
    BY <1>1, <1>2, <1>3, <2>1 DEF Good, Rederived, Settled, Busy
<1>7. QuietScan'
  BY <1>3 DEF QuietScan, Clean
<1>8. QED
  BY <1>3, <1>4, <1>5, <1>6, <1>7 DEF Good

\* What a step beside the scan may change of it: it is no longer quiet, and a drive
\* that came back is no longer away.
Beside ==
    /\ Alive' <=> Alive
    /\ scan'.pc = scan.pc
    /\ Alive => /\ scan' \in Scans /\ scan'.job = scan.job /\ scan'.todo = scan.todo
                /\ scan'.force = scan.force /\ scan'.work = scan.work
                /\ scan'.wrote = scan.wrote /\ scan'.derived = scan.derived
                /\ scan'.gone = scan.gone /\ scan'.back = scan.back
                /\ scan'.dirty = scan.dirty /\ scan'.status = scan.status
                /\ scan'.whole = scan.whole /\ scan'.away \subseteq scan.away
                /\ scan'.quiet => scan.quiet
    /\ ~Alive => scan' = Off

\* A step beside the scan that leaves the tables alone, and disturbs it when it changes
\* the disk.
LEMMA StepBeside ==
    ASSUME Good, Beside, TypeOK',
           UNCHANGED <<fp, parsed, missing, available, linked, docs, relink, jobs, job, lapse>>,
           left' \in [Kind -> Nat], cancelSet' \subseteq {0, 1}, cancelSet \subseteq cancelSet',
           \A f \in File : disk'[f] \in {0, made'[f]} /\ made[f] <= made'[f],
           (Alive /\ scan'.quiet) => (UNCHANGED <<disk, up>> /\ scan'.away = scan.away),
           Alive => scan'.away \cap up' = {}
    PROVE  Good'
<1>1. Typed /\ (Alive => scan \in Scans)
  BY AliveFields DEF Good
<1>2. Typed'
  BY <1>1 DEF Typed, Beside, Off, Alive
<1>3. RunningHasThread'
  BY <1>1 DEF Good, RunningHasThread, Beside
<1>4. Versions'
  BY DEF Good, Versions
<1>5. \A f \in File : made[f] \in Nat /\ made'[f] \in Nat
  BY <1>1 DEF Typed, TypeOK
<1>6. ASSUME Alive'
      PROVE  Ordered' /\ InHand' /\ StaysAway'
  <2>1. \A q : Current(q)' <=> Current(q)
    BY <1>6 DEF Current, Beside
  <2>2. Ordered'
    BY <1>6, <2>1 DEF Good, Ordered, Beside
  <2>3. InHand'
    <3> SUFFICES ASSUME scan.pc \in {"parse", "commit"}, NEW f \in DOMAIN scan.work
                 PROVE  /\ 0 < scan.work[f].fp /\ scan.work[f].fp <= made'[f]
                        /\ scan.work[f].parsed <= made'[f]
                        /\ scan.work[f].parsed = 0 \/ scan.work[f].fp <= scan.work[f].parsed
                        /\ RootOf[f] \notin scan'.away
      BY <1>6 DEF InHand, Beside
    <3>1. f \in File /\ scan.work[f].fp \in Nat /\ scan.work[f].parsed \in Nat
      BY <1>1, <1>6, AliveFields, WorkFields DEF Beside
    <3>2. /\ 0 < scan.work[f].fp /\ scan.work[f].fp <= made[f]
          /\ scan.work[f].parsed <= made[f]
          /\ scan.work[f].parsed = 0 \/ scan.work[f].fp <= scan.work[f].parsed
          /\ RootOf[f] \notin scan.away
      BY <1>6 DEF Good, InHand, Beside
    <3>3. RootOf[f] \notin scan'.away
      BY <1>6, <3>2 DEF Beside
    <3>4. made[f] \in Nat /\ made'[f] \in Nat /\ made[f] <= made'[f]
      BY <1>5, <3>1
    <3>5. QED
      BY <3>1, <3>2, <3>3, <3>4
  <2>4. StaysAway'
    BY <1>6 DEF Good, StaysAway, Beside
  <2>5. QED
    BY <2>2, <2>3, <2>4
<1>7. Rederived'
  <2>1. /\ Derived' <=> Derived
        /\ \A f \in File : LinkView(f)' = LinkView(f)
    BY RowsKeptDerived
  <2>2. \A f \in File : linked'[f] = linked[f]
    OBVIOUS
  <2>3. Rederived /\ scan'.pc = scan.pc /\ (Settled' <=> Settled)
    BY DEF Good, Beside, Settled
  <2> HIDE DEF Derived, LinkView
  <2>4. CASE Alive
    BY <2>1, <2>2, <2>3, <2>4 DEF Rederived, Beside, NeedsRelink
  <2>5. CASE ~Alive
    BY <2>1, <2>2, <2>3, <2>5 DEF Rederived, Alive, Busy
  <2>6. QED
    BY <2>4, <2>5
<1>8. QuietScan'
  <2> SUFFICES ASSUME Clean'
               PROVE  QuietScan'
    BY DEF QuietScan
  <2>1. Alive /\ scan'.quiet /\ UNCHANGED <<disk, up>> /\ scan'.away = scan.away
    BY DEF Clean, Beside
  <2>2. Clean
    BY <2>1 DEF Clean, Beside, Cancelled
  <2>3. \A f \in File : (Describes(f)' <=> Describes(f)) /\ (Known(f)' <=> Known(f))
    BY <2>1 DEF Describes, Known
  <2>4. \A q : Current(q)' <=> Current(q)
    BY <2>1 DEF Current, Beside
  <2>5. /\ scan'.pc = scan.pc /\ scan'.todo = scan.todo /\ scan'.work = scan.work
        /\ scan'.gone = scan.gone /\ scan'.back = scan.back
    BY <2>1 DEF Beside
  <2>6. /\ up = Root
        /\ "roots" \notin scan.todo => available = Root
        /\ \A f \in File : PhaseOf[f] \notin scan.todo => Known(f)
        /\ scan.pc \in {"parse", "commit"} =>
             /\ \A f \in File : Current(PhaseOf[f]) => f \in DOMAIN scan.work \/ Known(f)
             /\ \A f \in DOMAIN scan.work : scan.work[f].fp = disk[f]
        /\ scan.pc = "prune" =>
             \A f \in File :
                 IF disk[f] > 0 THEN f \notin scan.gone /\ (missing[f] = "no" \/ f \in scan.back)
                 ELSE f \notin scan.back /\ (f \in scan.gone \/ missing[f] # "no" \/ fp[f] = 0)
        /\ scan.pc \in {"flag", "finish", "end"} => \A f \in File : Describes(f)
    BY <2>2 DEF Good, QuietScan
  <2> HIDE DEF Describes, Known, Current
  <2>7. QED
    BY <2>1, <2>3, <2>4, <2>5, <2>6 DEF QuietScan
<1>9. QED
  BY <1>2, <1>3, <1>4, <1>6, <1>7, <1>8 DEF Good

LEMMA DisturbedFits ==
    ASSUME Typed, scan' = Disturbed
    PROVE  /\ Beside
           /\ Alive => scan'.away = scan.away /\ ~scan'.quiet
<1>1. CASE Alive
  <2>1. scan \in Scans
    BY <1>1, AliveFields
  <2>2. scan' = [scan EXCEPT !.quiet = FALSE]
    BY <1>1 DEF Disturbed
  <2>3. QED
    BY <1>1, <2>1, <2>2 DEF Scans, Beside, Alive
<1>2. CASE ~Alive
  <2>1. scan = Off /\ scan' = scan
    BY <1>2 DEF Typed, Disturbed, Scans, Pc, Alive
  <2>2. QED
    BY <1>2, <2>1 DEF Beside, Alive, Off
<1>3. QED
  BY <1>1, <1>2

LEMMA SameScanFits ==
    ASSUME Typed, scan' = scan
    PROVE  Beside
<1>1. CASE Alive
  BY <1>1, AliveFields DEF Beside, Alive
<1>2. CASE ~Alive
  BY <1>2 DEF Typed, Scans, Pc, Beside, Alive
<1>3. QED
  BY <1>1, <1>2

\* A step that leaves the disk, the tables and the scan alone.
LEMMA StepAside ==
    ASSUME Good, UNCHANGED <<disk, made, up, fp, parsed, missing, available, linked, docs>>,
           UNCHANGED <<relink, jobs, job, lapse, scan>>,
           left' \in [Kind -> Nat], cancelSet' \subseteq {0, 1}, cancelSet \subseteq cancelSet'
    PROVE  Good'
<1>1. Typed /\ TypeOK
  BY DEF Good, Typed
<1>2. Beside
  BY <1>1, SameScanFits
<1>3. TypeOK'
  BY <1>1 DEF TypeOK, Alive
<1>4. \A f \in File : disk'[f] \in {0, made'[f]} /\ made[f] <= made'[f]
  <2>1. \A f \in File : made[f] \in Nat /\ disk[f] \in {0, made[f]}
    BY <1>1 DEF Good, Versions, TypeOK
  <2>2. \A n \in Nat : n <= n
    OBVIOUS
  <2>3. QED
    BY <2>1, <2>2
<1>5. Alive => scan'.away \cap up' = {}
  BY DEF Good, StaysAway
<1>6. QED
  BY <1>2, <1>3, <1>4, <1>5, StepBeside

LEMMA StepCancel ==
    ASSUME Good, Cancel
    PROVE  Good'
<1>1. left' \in [Kind -> Nat]
  BY SpendTyped DEF Cancel, Good, Kind
<1>2. QED
  BY <1>1, StepAside DEF Cancel, diskVars, tableVars, rowVars, jobVars, Good, Typed

LEMMA StepCancelSet ==
    ASSUME Good, CancelSet
    PROVE  Good'
<1>1. /\ cancelSet' \subseteq {0, 1} /\ cancelSet \subseteq cancelSet'
      /\ left' \in [Kind -> Nat]
  BY DEF CancelSet, Good, Typed
<1>2. QED
  BY <1>1, StepAside DEF CancelSet, diskVars, tableVars, rowVars, jobVars

LEMMA StepWriteFile ==
    ASSUME Good, NEW g \in File, WriteFile(g)
    PROVE  Good'
<1>1. Typed /\ TypeOK /\ Versions
  BY DEF Good, Typed
<1>2. /\ made' = [made EXCEPT ![g] = @ + 1] /\ disk' = [disk EXCEPT ![g] = made'[g]]
      /\ scan' = Disturbed
      /\ UNCHANGED <<up, fp, parsed, missing, available, linked, docs, relink, jobs, job,
                     cancelSet, canceller, lapse>>
  BY DEF WriteFile, tableVars, rowVars, jobVars
<1>3. left' \in [Kind -> Nat]
  BY <1>1, SpendTyped DEF WriteFile, Kind
<1>4. Beside /\ (Alive => scan'.away = scan.away /\ ~scan'.quiet)
  BY <1>1, <1>2, DisturbedFits
<1>5. made \in [File -> Nat] /\ disk \in [File -> Nat]
  BY <1>1 DEF TypeOK
<1>6. /\ made' \in [File -> Nat] /\ disk' \in [File -> Nat]
      /\ made'[g] = made[g] + 1 /\ disk'[g] = made'[g]
      /\ \A f \in File \ {g} : made'[f] = made[f] /\ disk'[f] = disk[f]
  BY <1>2, <1>5
<1>7. \A f \in File : /\ made[f] <= made'[f]
                      /\ disk'[f] \in {0, made'[f]} /\ disk'[f] <= made'[f]
  <2> SUFFICES ASSUME NEW f \in File
               PROVE  /\ made[f] <= made'[f]
                      /\ disk'[f] \in {0, made'[f]} /\ disk'[f] <= made'[f]
    OBVIOUS
  <2>1. made[f] \in Nat /\ made'[f] \in Nat
    BY <1>5, <1>6
  <2>2. CASE f = g
    BY <1>6, <2>1, <2>2
  <2>3. CASE f # g
    <3>1. disk[f] \in {0, made[f]} /\ disk[f] <= made[f]
      BY <1>1 DEF Versions, TypeOK
    <3>2. made'[f] = made[f] /\ disk'[f] = disk[f]
      BY <1>6, <2>3
    <3>3. QED
      BY <2>1, <3>1, <3>2
  <2>4. QED
    BY <2>2, <2>3
<1>8. \A f \in File : fp[f] <= made'[f] /\ parsed[f] <= made'[f]
  <2> SUFFICES ASSUME NEW f \in File
               PROVE  fp[f] <= made'[f] /\ parsed[f] <= made'[f]
    OBVIOUS
  <2>1. /\ fp[f] \in Nat /\ parsed[f] \in Nat /\ made[f] \in Nat /\ made'[f] \in Nat
        /\ fp[f] <= made[f] /\ parsed[f] <= made[f] /\ made[f] <= made'[f]
    BY <1>1, <1>6, <1>7 DEF Typed, TypeOK
  <2>2. QED
    BY <2>1
<1>9. TypeOK'
  <2>1. Alive' => scan'.job = job'
    BY <1>1, <1>2, <1>4 DEF TypeOK, Beside
  <2>2. \A f \in File : disk'[f] <= made'[f] /\ fp'[f] <= made'[f] /\ parsed'[f] <= made'[f]
    BY <1>2, <1>7, <1>8
  <2>3. QED
    BY <1>1, <1>2, <1>6, <2>1, <2>2 DEF TypeOK
<1>10. Alive => scan'.away \cap up' = {}
  BY <1>2, <1>4 DEF Good, StaysAway
<1>11. QED
  BY <1>1, <1>2, <1>3, <1>4, <1>7, <1>9, <1>10, StepBeside DEF Typed

LEMMA StepRemoveFile ==
    ASSUME Good, NEW g \in File, RemoveFile(g)
    PROVE  Good'
<1>1. Typed /\ TypeOK /\ Versions
  BY DEF Good, Typed
<1>2. /\ disk' = [disk EXCEPT ![g] = 0] /\ made' = made
      /\ scan' = Disturbed
      /\ UNCHANGED <<up, fp, parsed, missing, available, linked, docs, relink, jobs, job,
                     cancelSet, canceller, lapse>>
  BY DEF RemoveFile, tableVars, rowVars, jobVars
<1>3. left' \in [Kind -> Nat]
  BY <1>1, SpendTyped DEF RemoveFile, Kind
<1>4. Beside /\ (Alive => scan'.away = scan.away /\ ~scan'.quiet)
  BY <1>1, <1>2, DisturbedFits
<1>5. made \in [File -> Nat] /\ disk \in [File -> Nat]
  BY <1>1 DEF TypeOK
<1>6. disk' \in [File -> Nat] /\ \A f \in File : disk'[f] = IF f = g THEN 0 ELSE disk[f]
  BY <1>2, <1>5
<1>7. \A f \in File : /\ made[f] <= made'[f]
                      /\ disk'[f] \in {0, made'[f]} /\ disk'[f] <= made'[f]
  <2> SUFFICES ASSUME NEW f \in File
               PROVE  /\ made[f] <= made'[f]
                      /\ disk'[f] \in {0, made'[f]} /\ disk'[f] <= made'[f]
    OBVIOUS
  <2>1. /\ made[f] \in Nat /\ made'[f] = made[f]
        /\ disk[f] \in {0, made[f]} /\ disk[f] <= made[f]
    BY <1>1, <1>2, <1>5 DEF Versions, TypeOK
  <2>2. QED
    BY <1>6, <2>1
<1>8. TypeOK'
  <2>1. Alive' => scan'.job = job'
    BY <1>1, <1>2, <1>4 DEF TypeOK, Beside
  <2>2. \A f \in File : disk'[f] <= made'[f] /\ fp'[f] <= made'[f] /\ parsed'[f] <= made'[f]
    BY <1>1, <1>2, <1>7 DEF TypeOK
  <2>3. QED
    BY <1>1, <1>2, <1>6, <2>1, <2>2 DEF TypeOK
<1>9. Alive => scan'.away \cap up' = {}
  BY <1>2, <1>4 DEF Good, StaysAway
<1>10. QED
  BY <1>1, <1>2, <1>3, <1>4, <1>7, <1>8, <1>9, StepBeside DEF Typed

LEMMA StepUnplug ==
    ASSUME Good, NEW r \in Root, Unplug(r)
    PROVE  Good'
<1>1. Typed /\ TypeOK /\ Versions
  BY DEF Good, Typed
<1>2. /\ up' = up \ {r} /\ scan' = Disturbed
      /\ UNCHANGED <<disk, made, fp, parsed, missing, available, linked, docs, relink, jobs, job,
                     cancelSet, canceller, lapse>>
  BY DEF Unplug, tableVars, rowVars, jobVars
<1>3. left' \in [Kind -> Nat]
  BY <1>1, SpendTyped DEF Unplug, Kind
<1>4. Beside /\ (Alive => scan'.away = scan.away /\ ~scan'.quiet)
  BY <1>1, <1>2, DisturbedFits
<1>5. \A f \in File : disk'[f] \in {0, made'[f]} /\ made[f] <= made'[f]
  <2>1. \A f \in File : made[f] \in Nat /\ disk[f] \in {0, made[f]}
    BY <1>1 DEF Versions, TypeOK
  <2>2. \A n \in Nat : n <= n
    OBVIOUS
  <2>3. QED
    BY <1>2, <2>1, <2>2
<1>6. TypeOK'
  <2>1. Alive' => scan'.job = job'
    BY <1>1, <1>2, <1>4 DEF TypeOK, Beside
  <2>2. QED
    BY <1>1, <1>2, <2>1 DEF TypeOK
<1>7. Alive => scan'.away \cap up' = {}
  BY <1>2, <1>4 DEF Good, StaysAway
<1>8. QED
  BY <1>1, <1>2, <1>3, <1>4, <1>5, <1>6, <1>7, StepBeside DEF Typed

LEMMA StepReplug ==
    ASSUME Good, NEW r \in Root, Replug(r)
    PROVE  Good'
<1>1. Typed /\ TypeOK /\ Versions
  BY DEF Good, Typed
<1>2. /\ up' = up \cup {r}
      /\ scan' = IF Alive THEN [Disturbed EXCEPT !.away = @ \ {r}] ELSE scan
      /\ UNCHANGED <<disk, made, fp, parsed, missing, available, linked, docs, relink, jobs, job,
                     cancelSet, canceller, lapse, left>>
  BY DEF Replug, tableVars, rowVars, jobVars
<1>3. Beside /\ (Alive => scan'.away = scan.away \ {r} /\ ~scan'.quiet)
  <2>1. CASE Alive
    <3>1. scan \in Scans
      BY <1>1, <2>1, AliveFields
    <3> DEFINE d == Disturbed
    <3>2. d \in Scans /\ d = [scan EXCEPT !.quiet = FALSE]
      BY <2>1, <3>1 DEF Disturbed, Scans
    <3>3. /\ d.pc = scan.pc /\ d.job = scan.job /\ d.todo = scan.todo /\ d.force = scan.force
          /\ d.work = scan.work /\ d.wrote = scan.wrote /\ d.derived = scan.derived
          /\ d.gone = scan.gone /\ d.back = scan.back /\ d.dirty = scan.dirty
          /\ d.status = scan.status /\ d.whole = scan.whole /\ d.away = scan.away
          /\ d.quiet = FALSE
      BY <3>1, <3>2 DEF Scans
    <3>4. scan' = [d EXCEPT !.away = d.away \ {r}]
      BY <1>2, <2>1
    <3> HIDE DEF d
    <3>5. /\ scan' \in Scans
          /\ scan'.pc = d.pc /\ scan'.job = d.job /\ scan'.todo = d.todo /\ scan'.force = d.force
          /\ scan'.work = d.work /\ scan'.wrote = d.wrote /\ scan'.derived = d.derived
          /\ scan'.gone = d.gone /\ scan'.back = d.back /\ scan'.dirty = d.dirty
          /\ scan'.status = d.status /\ scan'.whole = d.whole /\ scan'.away = d.away \ {r}
          /\ scan'.quiet = d.quiet
      BY <3>2, <3>4 DEF Scans
    <3>6. QED
      BY <2>1, <3>3, <3>5 DEF Beside, Alive
  <2>2. CASE ~Alive
    BY <1>1, <1>2, <2>2, SameScanFits
  <2>3. QED
    BY <2>1, <2>2
<1>4. \A f \in File : disk'[f] \in {0, made'[f]} /\ made[f] <= made'[f]
  <2>1. \A f \in File : made[f] \in Nat /\ disk[f] \in {0, made[f]}
    BY <1>1 DEF Versions, TypeOK
  <2>2. \A n \in Nat : n <= n
    OBVIOUS
  <2>3. QED
    BY <1>2, <2>1, <2>2
<1>5. TypeOK'
  <2>1. Alive' => scan'.job = job'
    BY <1>1, <1>2, <1>3 DEF TypeOK, Beside
  <2>2. QED
    BY <1>1, <1>2, <2>1 DEF TypeOK
<1>6. Alive => scan'.away \cap up' = {}
  BY <1>2, <1>3 DEF Good, StaysAway
<1>7. QED
  BY <1>1, <1>2, <1>3, <1>4, <1>5, <1>6, StepBeside DEF Typed

\* A flag that ages hides its row as it did.
LEMMA StepExpire ==
    ASSUME Good, Expire
    PROVE  Good'
<1>1. Typed
  BY DEF Good
<1>2. /\ UNCHANGED <<disk, made, up, fp, parsed, available, linked, docs, relink, jobs, job, scan,
                     cancelSet, canceller, lapse>>
      /\ missing' = [f \in File |-> IF missing[f] = "recent" THEN "expired" ELSE missing[f]]
  BY DEF Expire, diskVars, jobVars
<1>3. left' \in [Kind -> Nat]
  BY <1>1, SpendTyped DEF Expire, Kind
<1>4. /\ missing' \in [File -> {"no", "recent", "expired"}]
      /\ \A f \in File : missing'[f] = "no" <=> missing[f] = "no"
  BY <1>1, <1>2 DEF Typed, TypeOK
<1>5. Typed' /\ RunningHasThread' /\ Versions'
  <2>1. TypeOK'
    BY <1>1, <1>2, <1>4 DEF Typed, TypeOK, Alive
  <2>2. QED
    BY <1>1, <1>2, <1>3, <2>1 DEF Good, Typed, RunningHasThread, Versions, Alive
<1>6. Alive' => Alive /\ Ordered' /\ InHand' /\ StaysAway'
  BY <1>2 DEF Good, Alive, Ordered, InHand, StaysAway, Current
<1>7. Rederived'
  <2>1. \A f \in File : LinkView(f)' = LinkView(f)
    BY <1>2, <1>4 DEF LinkView
  <2>2. (Derived' <=> Derived) /\ linked' = linked
    BY <1>2, <2>1 DEF Derived
  <2>3. Rederived /\ (Settled' <=> Settled) /\ (NeedsRelink' <=> NeedsRelink)
    BY <1>2 DEF Good, Settled, NeedsRelink
  <2> HIDE DEF Derived, LinkView, Settled, NeedsRelink
  <2>4. QED
    BY <1>2, <2>1, <2>2, <2>3 DEF Rederived
<1>8. QuietScan'
  <2> SUFFICES ASSUME Clean'
               PROVE  QuietScan'
    BY DEF QuietScan
  <2>1. Clean
    BY <1>2 DEF Clean, Alive, Cancelled
  <2>2. \A f \in File : (Describes(f)' <=> Describes(f)) /\ (Known(f)' <=> Known(f))
    BY <1>2, <1>4 DEF Describes, Known
  <2>3. \A q : Current(q)' <=> Current(q)
    BY <1>2 DEF Current
  <2>4. /\ up = Root
        /\ "roots" \notin scan.todo => available = Root
        /\ \A f \in File : PhaseOf[f] \notin scan.todo => Known(f)
        /\ scan.pc \in {"parse", "commit"} =>
             /\ \A f \in File : Current(PhaseOf[f]) => f \in DOMAIN scan.work \/ Known(f)
             /\ \A f \in DOMAIN scan.work : scan.work[f].fp = disk[f]
        /\ scan.pc = "prune" =>
             \A f \in File :
                 IF disk[f] > 0 THEN f \notin scan.gone /\ (missing[f] = "no" \/ f \in scan.back)
                 ELSE f \notin scan.back /\ (f \in scan.gone \/ missing[f] # "no" \/ fp[f] = 0)
        /\ scan.pc \in {"flag", "finish", "end"} => \A f \in File : Describes(f)
    BY <2>1 DEF Good, QuietScan
  <2> HIDE DEF Describes, Known, Current
  <2>5. QED
    BY <1>2, <1>4, <2>2, <2>3, <2>4 DEF QuietScan
<1>9. QED
  BY <1>5, <1>6, <1>7, <1>8 DEF Good

\* A scan that dies after it wrote rows leaves a lapse; before that, the tables agreed.
LEMMA StepRestart ==
    ASSUME Good, Restart
    PROVE  Good'
<1>1. Typed /\ RunningHasThread /\ lapse \in BOOLEAN
  BY DEF Good, Typed
<1>2. /\ UNCHANGED <<disk, made, up, fp, parsed, missing, available, linked, docs, relink, job,
                     cancelSet>>
      /\ jobs' = [j \in DOMAIN jobs |-> IF jobs[j] = "running" THEN "interrupted" ELSE jobs[j]]
      /\ lapse' = (lapse \/ (Alive /\ (scan.wrote \/ scan.dirty)))
      /\ scan' = Off /\ canceller' = FALSE
  BY DEF Restart, Interrupted, diskVars, tableVars, rowVars
<1>3. left' \in [Kind -> Nat]
  BY <1>1, SpendTyped DEF Restart, Kind
<1>4. ~Alive' /\ scan'.pc = "off"
  BY <1>2 DEF Alive, Off
<1>5. /\ DOMAIN jobs' = {0, 1}
      /\ \A j \in {0, 1} : /\ jobs'[j] # "running"
                           /\ jobs'[j] \in {"none", "running", "completed", "cancelled", "interrupted"}
  BY <1>1, <1>2 DEF Typed, TypeOK
<1>6. (Alive => scan.wrote \in BOOLEAN /\ scan.dirty \in BOOLEAN)
  BY <1>1, AliveFields
<1>7. Typed'
  <2>1. TypeOK'
    BY <1>1, <1>2, <1>4, <1>5 DEF Typed, TypeOK
  <2>2. lapse' \in BOOLEAN
    BY <1>1, <1>2, <1>6
  <2>3. QED
    BY <1>1, <1>2, <1>3, <1>5, <2>1, <2>2 DEF Typed
<1>8. RunningHasThread' /\ Versions'
  BY <1>2, <1>4, <1>5 DEF Good, RunningHasThread, Versions
<1>9. Rederived'
  <2>1. Derived' <=> Derived
    BY <1>2, RowsKeptDerived
  <2>2. ASSUME Settled'
        PROVE  Derived
    <3>1. Settled /\ (Alive => ~scan.wrote /\ ~scan.dirty)
      BY <1>1, <1>2, <1>6, <2>2 DEF Settled
    <3>2. CASE Alive
      BY <1>1, <3>1, <3>2, AliveFields DEF Good, Rederived, Pc, Busy
    <3>3. CASE ~Alive
      BY <3>1, <3>3 DEF Good, Rederived, Alive
    <3>4. QED
      BY <3>2, <3>3
  <2>3. QED
    BY <1>4, <2>1, <2>2 DEF Rederived, Busy
<1>10. QuietScan'
  BY <1>4 DEF QuietScan, Clean
<1>11. QED
  BY <1>4, <1>7, <1>8, <1>9, <1>10 DEF Good

LEMMA StepStart ==
    ASSUME Good, StartScan \/ WatchTick
    PROVE  Good'
<1>1. left' \in [Kind -> Nat]
  BY SpendTyped DEF StartScan, WatchTick, Good, Typed, Kind
<1>2. \E kinds \in SUBSET Content, force \in BOOLEAN : Started(kinds, force)
  <2>1. CASE StartScan
    <3>1. Started(Content, FALSE) \/ Started(Content, TRUE) \/ \E kinds \in Partial : Started(kinds, FALSE)
      BY <2>1 DEF StartScan
    <3>2. Partial \subseteq SUBSET Content
      BY IndexerOK
    <3>3. Content \in SUBSET Content
      OBVIOUS
    <3> HIDE DEF Content
    <3>4. QED
      BY <3>1, <3>2, <3>3
  <2>2. CASE WatchTick
    BY <2>2 DEF WatchTick
  <2>3. QED
    BY <2>1, <2>2
<1>3. QED
  BY <1>1, <1>2, StepStarted

LEMMA StepGood ==
    ASSUME Good, [Next]_vars
    PROVE  Good'
<1>1. CASE StartScan \/ WatchTick
  BY <1>1, StepStart
<1>2. CASE Cancel \/ CancelSet
  BY <1>2, StepCancel, StepCancelSet
<1>3. CASE Scanning
  <2>1. CASE Roots \/ Parse \/ Links \/ Index
    BY <2>1, StepRoots, StepParse, StepLinks, StepIndex
  <2>2. ASSUME NEW p \in Content, Walk(p) \/ Commit(p)
        PROVE  Good'
    BY <2>2, StepWalk, StepCommit
  <2>3. CASE PruneRead \/ PruneWrite \/ PruneFlag
    BY <2>3, StepPruneRead, StepPruneWrite, StepPruneFlag
  <2>4. CASE StopEarly \/ Finish \/ End
    BY <2>4, StepStopEarly, StepFinish, StepEnd
  <2>5. QED
    BY <1>3, <2>1, <2>2, <2>3, <2>4 DEF Scanning
<1>4. CASE Outside
  <2>1. ASSUME NEW f \in File, WriteFile(f) \/ RemoveFile(f)
        PROVE  Good'
    BY <2>1, StepWriteFile, StepRemoveFile
  <2>2. ASSUME NEW r \in Root, Unplug(r) \/ Replug(r)
        PROVE  Good'
    BY <2>2, StepUnplug, StepReplug
  <2>3. CASE Expire \/ Restart
    BY <2>3, StepExpire, StepRestart
  <2>4. QED
    BY <1>4, <2>1, <2>2, <2>3 DEF Outside
<1>5. CASE UNCHANGED vars
  <2>1. left' \in [Kind -> Nat] /\ cancelSet' \subseteq {0, 1} /\ cancelSet \subseteq cancelSet'
    BY <1>5 DEF vars, Good, Typed
  <2>2. QED
    BY <1>5, <2>1, StepAside DEF vars, diskVars, tableVars, rowVars, jobVars
<1>6. QED
  BY <1>1, <1>2, <1>3, <1>4, <1>5 DEF Next

LEMMA AlwaysGood == Spec => []Good
<1>1. Init => Good
  BY InitGood
<1>2. Good /\ [Next]_vars => Good'
  BY StepGood
<1>3. QED
  BY <1>1, <1>2, PTL DEF Spec

-----------------------------------------------------------------------------
(* What the invariant gives                                                *)

\* No job of scan_jobs stays "running" without its thread and no thread runs without
\* its row, for any scans, cancels and restarts.
THEOREM JobsFollowTheThread == Spec => []JobsSound
<1>1. Good => JobsSound
  BY DEF Good, Typed, JobsSound
<1>2. QED
  BY <1>1, AlwaysGood, PTL

\* A scan of everything that completed undisturbed leaves tables that say what is on
\* the disk.
THEOREM ScansDescribe == Spec => []QuietScanDescribes
<1>1. Good => QuietScanDescribes
  BY DEF Good, QuietScanDescribes, QuietScan, Clean, Alive
<1>2. QED
  BY <1>1, AlwaysGood, PTL

\* Between scans, links and documents are those of the rows unless the next scan is
\* told to derive them or the last one was cut off.
THEOREM DerivationsCurrent == Spec => []DerivedCurrent
<1>1. Good => DerivedCurrent
  <2>1. ASSUME Good, ~Alive, ~relink, ~lapse
        PROVE  Derived
    <3>1. scan.pc = "off" /\ Settled
      BY <2>1 DEF Alive, Settled
    <3>2. QED
      BY <2>1, <3>1 DEF Good, Rederived
  <2>2. QED
    BY <2>1 DEF DerivedCurrent
<1>2. QED
  BY <1>1, AlwaysGood, PTL

\* The rows of a drive that was away when the scan began are not touched by any step.
LEMMA StepAway ==
    ASSUME Good, Next, NEW f \in File, Alive, RootOf[f] \in scan.away,
           PhaseOf[f] # "nodes", missing[f] = "no"
    PROVE  fp'[f] = fp[f] /\ missing'[f] = "no"
<1>1. Typed /\ InHand /\ StaysAway /\ fp \in [File -> Nat] /\ missing[f] # "recent"
  BY DEF Good, Typed
<1>2. ASSUME UNCHANGED rowVars
      PROVE  fp'[f] = fp[f] /\ missing'[f] = "no"
  BY <1>2 DEF rowVars
<1>3. CASE StartScan \/ WatchTick \/ Cancel \/ CancelSet
  BY <1>2, <1>3 DEF StartScan, WatchTick, Started, Cancel, CancelSet, tableVars
<1>4. CASE Scanning
  <2>1. CASE Roots \/ Parse \/ Links \/ Index \/ PruneRead \/ PruneFlag \/ StopEarly \/ Finish \/ End
    BY <1>2, <2>1 DEF Roots, Parse, Links, Index, PruneRead, PruneFlag, StopEarly, Finish, End,
                      tableVars
  <2>2. ASSUME NEW p \in Content, Walk(p)
        PROVE  fp'[f] = fp[f] /\ missing'[f] = "no"
    BY <1>2, <2>2 DEF Walk, tableVars
  <2>3. ASSUME NEW p \in Content, Commit(p)
        PROVE  fp'[f] = fp[f] /\ missing'[f] = "no"
    <3>1. PICK items \in SUBSET DOMAIN scan.work : Written(items)
      BY <2>3 DEF Commit
    <3>2. scan.pc = "commit"
      BY <2>3 DEF Commit
    <3>3. f \notin items
      BY <1>1, <3>2 DEF InHand
    <3>4. QED
      BY <3>1, <3>3 DEF Written
  <2>4. CASE PruneWrite
    <3>1. scan.pc = "prune" /\ f \notin scan.gone
      BY <1>1, <2>4 DEF PruneWrite, StaysAway
    <3>2. QED
      BY <2>4, <3>1 DEF PruneWrite
  <2>5. QED
    BY <1>4, <2>1, <2>2, <2>3, <2>4 DEF Scanning
<1>5. CASE Outside
  <2>1. ASSUME NEW g \in File, WriteFile(g) \/ RemoveFile(g)
        PROVE  fp'[f] = fp[f] /\ missing'[f] = "no"
    BY <1>2, <2>1 DEF WriteFile, RemoveFile, tableVars
  <2>2. ASSUME NEW r \in Root, Unplug(r) \/ Replug(r)
        PROVE  fp'[f] = fp[f] /\ missing'[f] = "no"
    BY <1>2, <2>2 DEF Unplug, Replug, tableVars
  <2>3. CASE Restart
    BY <1>2, <2>3 DEF Restart, tableVars
  <2>4. CASE Expire
    BY <1>1, <2>4 DEF Expire
  <2>5. QED
    BY <1>5, <2>1, <2>2, <2>3, <2>4 DEF Outside
<1>6. QED
  BY <1>3, <1>4, <1>5 DEF Next

\* "Rows on an unavailable root are left completely untouched", by every step of a scan
\* and of what happens beside it.
THEOREM AwayRowsStay == Spec => AwayRowsKept
<1>1. ASSUME Good, [Next]_vars
      PROVE  [\A f \in File :
                 Alive /\ RootOf[f] \in scan.away /\ PhaseOf[f] # "nodes" /\ missing[f] = "no"
                 => fp'[f] = fp[f] /\ missing'[f] = "no"]_vars
  BY <1>1, StepAway
<1>2. QED
  BY <1>1, AlwaysGood, PTL DEF Spec, AwayRowsKept
====
