-------------------------- MODULE SearchSyncProofs -------------------------
(***************************************************************************)
(* What the search tables guarantee for any assets, embedding workers and  *)
(* number of events.  DocsAgree is inductive once the tables have their    *)
(* types.  The two statements about quiet passes need what such a pass     *)
(* knows: an index phase that saw no other write still has the rows in     *)
(* hand, and those it no longer counts as stale have their documents       *)
(* (QuietIndex); a build that saw no other write runs alone, and every     *)
(* live asset has its vector or is still to get it (QuietBuild).           *)
(***************************************************************************)
EXTENDS SearchSync, TLAPS

\* A document or vector in hand is one of a version that was made.
Partly(f) == DOMAIN f \subseteq Uid /\ \A u \in DOMAIN f : f[u] \in 0..last[u]

Indexed ==
    \/ index = Off
    \/ /\ index.pc \in {"write", "done"} /\ index.quiet \in BOOLEAN
       /\ index = [pc |-> index.pc, docs |-> index.docs, stale |-> index.stale, quiet |-> index.quiet]
       /\ Partly(index.docs)
       /\ index.stale \subseteq DOMAIN index.docs
       /\ index.pc = "done" => index.stale = {}

Built(b) ==
    \/ build[b] = Off
    \/ /\ build[b].pc \in {"run", "done"} /\ build[b].quiet \in BOOLEAN
       /\ build[b] = [pc |-> build[b].pc, work |-> build[b].work, quiet |-> build[b].quiet]
       /\ Partly(build[b].work)
       /\ build[b].pc = "done" => DOMAIN build[b].work = {}

Typed ==
    /\ row \in [Uid -> Nat] /\ last \in [Uid -> Nat]
    /\ doc \in [Uid -> Nat] /\ vec \in [Uid -> Nat]
    /\ TypeOK
    /\ Indexed
    /\ DOMAIN build = Builder /\ \A b \in Builder : Built(b)

QuietIndex ==
    index.pc \in {"write", "done"} /\ index.quiet =>
        /\ DOMAIN index.docs = Live
        /\ \A u \in Live : index.docs[u] = row[u]
        /\ \A u \in Live \ index.stale : doc[u] = row[u]
        /\ index.pc = "done" => \A u \in Uid \ Live : doc[u] = row[u]

QuietBuild ==
    \A b \in Builder : build[b].pc \in {"run", "done"} /\ build[b].quiet =>
        /\ \A c \in Builder \ {b} : build[c] = Off
        /\ \A u \in DOMAIN build[b].work : build[b].work[u] = row[u]
        /\ \A u \in Live : u \in DOMAIN build[b].work \/ vec[u] = row[u]

MatrixCurrent ==
    (\A b \in Builder : build[b].pc # "run") => \A p \in matrix : vec[p[1]] \in {p[2], 0}

Good == Typed /\ DocsAgree /\ QuietIndex /\ QuietBuild /\ MatrixCurrent

-----------------------------------------------------------------------------
LEMMA InitGood == Init => Good
<1> SUFFICES ASSUME Init PROVE Good
  OBVIOUS
<1>1. row = [u \in Uid |-> 1] /\ last = row /\ doc = row /\ vec = [u \in Uid |-> 0]
  BY DEF Init
<1>2. TypeOK
  BY <1>1 DEF Init, TypeOK
<1>3. Typed
  BY <1>1, <1>2 DEF Init, Typed, Indexed, Built
<1>4. DocsAgree /\ QuietIndex /\ QuietBuild /\ MatrixCurrent
  BY <1>1 DEF Init, DocsAgree, QuietIndex, QuietBuild, MatrixCurrent, Off
<1>5. QED
  BY <1>3, <1>4 DEF Good

(* What the steps have in common.                                          *)

\* A pass that began before a change is not quiet after it.
LEMMA Unsettled ==
    ASSUME Typed, Disturbed, last' \in [Uid -> Nat], \A u \in Uid : last[u] <= last'[u]
    PROVE  /\ Indexed' /\ DOMAIN build' = Builder /\ \A b \in Builder : Built(b)'
           /\ QuietIndex' /\ QuietBuild'
           /\ \A b \in Builder : build'[b].pc = build[b].pc
<1>1. ASSUME NEW f, Partly(f) PROVE Partly(f)'
  BY <1>1 DEF Partly, Typed
<1>2. Indexed' /\ QuietIndex'
  <2>1. CASE index = Off
    BY <2>1 DEF Disturbed, Indexed, QuietIndex, Off
  <2>2. CASE index # Off
    <3>1. /\ index' = [index EXCEPT !.quiet = FALSE]
          /\ index = [pc |-> index.pc, docs |-> index.docs, stale |-> index.stale,
                      quiet |-> index.quiet]
      BY <2>2 DEF Disturbed, Typed, Indexed
    <3>2. /\ index'.pc = index.pc /\ index'.docs = index.docs /\ index'.stale = index.stale
          /\ index'.quiet = FALSE
          /\ index' = [pc |-> index'.pc, docs |-> index'.docs, stale |-> index'.stale,
                       quiet |-> index'.quiet]
      BY <3>1
    <3>3. QED
      BY <1>1, <2>2, <3>2 DEF Typed, Indexed, QuietIndex
  <2>3. QED
    BY <2>1, <2>2
<1>3. DOMAIN build' = Builder
  BY DEF Disturbed
<1>4. ASSUME NEW b \in Builder
      PROVE  Built(b)' /\ build'[b].pc = build[b].pc
             /\ ~(build'[b].pc \in {"run", "done"} /\ build'[b].quiet)
  <2>1. CASE build[b] = Off
    BY <2>1 DEF Disturbed, Built, Off
  <2>2. CASE build[b] # Off
    <3>1. /\ build'[b] = [build[b] EXCEPT !.quiet = FALSE]
          /\ build[b] = [pc |-> build[b].pc, work |-> build[b].work, quiet |-> build[b].quiet]
      BY <2>2 DEF Disturbed, Typed, Built
    <3>2. /\ build'[b].pc = build[b].pc /\ build'[b].work = build[b].work
          /\ build'[b].quiet = FALSE
          /\ build'[b] = [pc |-> build'[b].pc, work |-> build'[b].work, quiet |-> build'[b].quiet]
      BY <3>1
    <3>3. QED
      BY <1>1, <2>2, <3>2 DEF Typed, Built
  <2>3. QED
    BY <2>1, <2>2
<1>5. QED
  BY <1>2, <1>3, <1>4 DEF QuietBuild

\* The matrix stays current while vectors only disappear.
LEMMA MatrixStays ==
    ASSUME Typed, MatrixCurrent, UNCHANGED matrix,
           \A b \in Builder : build[b].pc = "run" => build'[b].pc = "run",
           \A u \in Uid : vec'[u] \in {vec[u], 0}
    PROVE  MatrixCurrent'
BY DEF Typed, TypeOK, MatrixCurrent

\* A document follows its row through a transaction of write_synced.
LEMMA SyncedTables ==
    ASSUME Typed, NEW u \in Uid, NEW now \in Nat, Synced(u, now)
    PROVE  /\ doc' = [doc EXCEPT ![u] = now] /\ doc' \in [Uid -> Nat]
           /\ vec' \in [Uid -> Nat] /\ queue' \subseteq Uid
           /\ \A v \in Uid : vec'[v] \in {vec[v], 0}
BY DEF Typed, TypeOK, Synced, TextOf

LEMMA NewRowTables ==
    ASSUME Typed, NEW u \in Uid, NewRow(u)
    PROVE  /\ row' \in [Uid -> Nat] /\ last' \in [Uid -> Nat]
           /\ row'[u] = last[u] + 1 /\ last'[u] = last[u] + 1
           /\ \A v \in Uid \ {u} : row'[v] = row[v] /\ last'[v] = last[v]
           /\ \A v \in Uid : last[v] <= last'[v]
BY DEF Typed, NewRow

-----------------------------------------------------------------------------
(* Writers of rows.                                                        *)

LEMMA StepRows ==
    ASSUME Good, NEW u \in Uid,
           Mutate(u) \/ Delete(u) \/ RestoreParts(u) \/ Resync(u) \/ ScanUpsert(u)
    PROVE  Good'
<1>1. /\ Disturbed /\ UNCHANGED matrix
  BY DEF Mutate, Delete, RestoreParts, Resync, ScanUpsert
<1>2. /\ row' \in [Uid -> Nat] /\ last' \in [Uid -> Nat]
      /\ \A v \in Uid : row'[v] \in 0..last'[v] /\ last[v] <= last'[v]
      /\ \A v \in Uid \ {u} : row'[v] = row[v]
  <2>1. CASE NewRow(u)
    BY <2>1, NewRowTables DEF Good, Typed, TypeOK
  <2>2. CASE UNCHANGED last /\ (row' = row \/ row' = [row EXCEPT ![u] = 0])
    BY <2>2 DEF Good, Typed, TypeOK
  <2>3. QED
    BY <2>1, <2>2 DEF Mutate, Delete, RestoreParts, Resync, ScanUpsert
<1>3. CASE UNCHANGED <<doc, vec, queue>> /\ owed' = owed \cup {u}
  <2>1. Typed'
    BY <1>1, <1>2, <1>3, Unsettled DEF Good, Typed, TypeOK, RestoreParts, ScanUpsert,
       Mutate, Delete, Resync
  <2>2. DocsAgree'
    BY <1>2, <1>3 DEF Good, DocsAgree
  <2>3. MatrixCurrent'
    BY <1>1, <1>2, <1>3, Unsettled, MatrixStays DEF Good
  <2>4. QED
    BY <1>1, <1>2, <2>1, <2>2, <2>3, Unsettled DEF Good
<1>4. CASE Synced(u, row'[u]) /\ owed' = owed \ {u}
  <2>1. /\ doc' = [doc EXCEPT ![u] = row'[u]] /\ doc' \in [Uid -> Nat]
        /\ vec' \in [Uid -> Nat] /\ queue' \subseteq Uid
        /\ \A v \in Uid : vec'[v] \in {vec[v], 0}
    BY <1>2, <1>4, SyncedTables DEF Good
  <2>2. Typed'
    BY <1>1, <1>2, <1>4, <2>1, Unsettled DEF Good, Typed, TypeOK, RestoreParts, ScanUpsert,
       Mutate, Delete, Resync
  <2>3. DocsAgree'
    BY <1>2, <1>4, <2>1 DEF Good, DocsAgree, Typed
  <2>4. MatrixCurrent'
    BY <1>1, <1>2, <2>1, Unsettled, MatrixStays DEF Good
  <2>5. QED
    BY <1>1, <1>2, <2>2, <2>3, <2>4, Unsettled DEF Good
<1>5. QED
  <2>1. CASE Delete(u)
    <3>1. row'[u] = 0
      BY <2>1 DEF Delete, Good, Typed
    <3>2. QED
      BY <1>4, <2>1, <3>1 DEF Delete
  <2>2. CASE Resync(u)
    BY <1>4, <2>2 DEF Resync
  <2>3. QED
    BY <1>3, <1>4, <2>1, <2>2 DEF Mutate, RestoreParts, ScanUpsert

-----------------------------------------------------------------------------
(* The index phase.                                                        *)

\* The fields of a phase.
LEMMA Fields ==
    ASSUME NEW r, NEW pc, NEW docs, NEW stale, NEW quiet,
           r = [pc |-> pc, docs |-> docs, stale |-> stale, quiet |-> quiet]
    PROVE  /\ r.pc = pc /\ r.docs = docs /\ r.stale = stale /\ r.quiet = quiet
           /\ r = [pc |-> r.pc, docs |-> r.docs, stale |-> r.stale, quiet |-> r.quiet]
OBVIOUS

LEMMA StepCollect ==
    ASSUME Good, IndexCollect
    PROVE  Good'
<1>1. /\ UNCHANGED <<row, last, doc, vec, queue, build, starting, matrix, restoring, owed>>
      /\ index' = [pc |-> "write", docs |-> Documents, stale |-> Stale(Documents), quiet |-> TRUE]
  BY DEF IndexCollect, vecVars
<1>2. /\ DOMAIN Documents = Live /\ \A u \in Live : Documents[u] = row[u]
      /\ Live \subseteq Uid
      /\ Stale(Documents) = {u \in Live : doc[u] # row[u]}
  BY DEF Documents, Live, Stale, TextOf
<1>3. Partly(Documents)
  BY <1>2 DEF Good, Typed, TypeOK, Partly
<1>4. Indexed'
  <2>1. /\ index'.pc = "write" /\ index'.docs = Documents /\ index'.stale = Stale(Documents)
        /\ index'.quiet = TRUE
        /\ index' = [pc |-> index'.pc, docs |-> index'.docs, stale |-> index'.stale,
                     quiet |-> index'.quiet]
    BY <1>1, Fields
  <2>2. Partly(index.docs)'
    BY <1>1, <1>3, <2>1 DEF Partly
  <2>3. index'.stale \subseteq DOMAIN index'.docs
    BY <1>2, <2>1
  <2>4. QED
    BY <2>1, <2>2, <2>3 DEF Indexed
<1>5. Typed'
  BY <1>1, <1>4 DEF Good, Typed, TypeOK, Built, Partly
<1>6. QuietIndex'
  BY <1>1, <1>2 DEF QuietIndex, Live
<1>7. DocsAgree' /\ QuietBuild' /\ MatrixCurrent'
  BY <1>1 DEF Good, DocsAgree, QuietBuild, MatrixCurrent, Live
<1>8. QED
  BY <1>5, <1>6, <1>7 DEF Good

\* The fields of the phase under way.
LEMMA IndexFields ==
    ASSUME Typed, index.pc \in {"write", "done"}
    PROVE  /\ index = [pc |-> index.pc, docs |-> index.docs, stale |-> index.stale,
                       quiet |-> index.quiet]
           /\ index.quiet \in BOOLEAN /\ Partly(index.docs)
           /\ index.stale \subseteq DOMAIN index.docs
           /\ index.pc = "done" => index.stale = {}
BY DEF Typed, Indexed, Off

LEMMA StepIndexWrite ==
    ASSUME Good, IndexWrite
    PROVE  Good'
<1>1. PICK u \in index.stale :
        \/ /\ doc' = [doc EXCEPT ![u] = index.docs[u]]
           /\ queue' = queue \cup {u}
           /\ owed' = IF index.docs[u] = row[u] THEN owed \ {u} ELSE owed \cup {u}
           /\ index' = [index EXCEPT !.stale = @ \ {u}]
        \/ /\ index' = [index EXCEPT !.stale = @ \ {u}, !.quiet = FALSE]
           /\ UNCHANGED <<doc, queue, owed>>
  BY DEF IndexWrite
<1>2. /\ index.pc = "write" /\ UNCHANGED <<row, last, vec, build, starting, matrix, restoring>>
  BY DEF IndexWrite, vecVars
<1>3. /\ index = [pc |-> "write", docs |-> index.docs, stale |-> index.stale, quiet |-> index.quiet]
      /\ index.quiet \in BOOLEAN /\ Partly(index.docs) /\ index.stale \subseteq DOMAIN index.docs
  BY <1>2, IndexFields DEF Good
<1>4. /\ index'.pc = "write" /\ index'.docs = index.docs /\ index'.stale = index.stale \ {u}
      /\ index'.quiet \in {index.quiet, FALSE}
      /\ index' = [pc |-> index'.pc, docs |-> index'.docs, stale |-> index'.stale,
                   quiet |-> index'.quiet]
  <2>1. CASE index' = [index EXCEPT !.stale = @ \ {u}]
    BY <1>3, <2>1
  <2>2. CASE index' = [index EXCEPT !.stale = @ \ {u}, !.quiet = FALSE]
    <3> DEFINE docs == index.docs
               stale == index.stale
               quiet == index.quiet
    <3>1. index = [pc |-> "write", docs |-> docs, stale |-> stale, quiet |-> quiet]
      BY <1>3
    <3>2. index' = [index EXCEPT !.stale = stale \ {u}, !.quiet = FALSE]
      BY <2>2
    <3> HIDE DEF docs, stale, quiet
    <3>3. index' = [pc |-> "write", docs |-> docs, stale |-> stale \ {u}, quiet |-> FALSE]
      BY <3>1, <3>2
    <3>4. QED
      BY <3>3, Fields DEF docs, stale
  <2>3. QED
    BY <1>1, <2>1, <2>2
<1>5. u \in Uid /\ index.docs[u] \in 0..last[u]
  BY <1>3 DEF Partly
<1>6. Indexed'
  BY <1>2, <1>3, <1>4 DEF Indexed, Partly
<1>7. /\ doc' \in [Uid -> Nat] /\ \A v \in Uid : doc'[v] \in 0..last[v]
      /\ queue' \subseteq Uid /\ owed' \subseteq Uid
  BY <1>1, <1>5 DEF Good, Typed, TypeOK
<1>8. Typed'
  BY <1>2, <1>6, <1>7 DEF Good, Typed, TypeOK, Built, Partly
<1>9. DocsAgree'
  BY <1>1, <1>2, <1>5 DEF Good, DocsAgree, Typed
<1>10. QuietIndex'
  <2>1. ASSUME index'.quiet
        PROVE  /\ index.quiet /\ doc' = [doc EXCEPT ![u] = index.docs[u]]
               /\ DOMAIN index.docs = Live /\ \A v \in Live : index.docs[v] = row[v]
               /\ \A v \in Live \ index.stale : doc[v] = row[v]
    BY <1>1, <1>2, <1>3, <1>4, <2>1 DEF Good, QuietIndex
  <2>2. Live' = Live
    BY <1>2 DEF Live
  <2>3. ASSUME index'.quiet, NEW v \in Live \ index'.stale PROVE doc'[v] = row[v]
    BY <1>4, <1>5, <2>1, <2>3 DEF Good, Typed, Live
  <2>4. QED
    BY <1>2, <1>4, <2>1, <2>2, <2>3 DEF QuietIndex
<1>11. QuietBuild' /\ MatrixCurrent'
  BY <1>2 DEF Good, QuietBuild, MatrixCurrent, Live
<1>12. QED
  BY <1>8, <1>9, <1>10, <1>11 DEF Good

LEMMA StepIndexPrune ==
    ASSUME Good, IndexPrune
    PROVE  Good'
<1> DEFINE gone == {u \in Uid : doc[u] > 0} \ DOMAIN index.docs
<1>1. /\ index.pc = "write" /\ index.stale = {}
      /\ doc' = [u \in Uid |-> IF u \in gone THEN 0 ELSE doc[u]]
      /\ vec' = [u \in Uid |-> IF u \in gone THEN 0 ELSE vec[u]]
      /\ queue' = queue \ gone
      /\ owed' = {u \in owed \cup gone : doc'[u] # row[u]}
      /\ build' = [b \in Builder |-> IF gone = {} \/ build[b] = Off THEN build[b]
                                     ELSE [build[b] EXCEPT !.quiet = FALSE]]
      /\ index' = [index EXCEPT !.pc = "done"]
      /\ UNCHANGED <<row, last, starting, matrix, restoring>>
  BY DEF IndexPrune
<1>2. /\ index = [pc |-> "write", docs |-> index.docs, stale |-> {}, quiet |-> index.quiet]
      /\ index.quiet \in BOOLEAN /\ Partly(index.docs)
  BY <1>1, IndexFields DEF Good
<1>3. /\ index'.pc = "done" /\ index'.docs = index.docs /\ index'.stale = {}
      /\ index'.quiet = index.quiet
      /\ index' = [pc |-> index'.pc, docs |-> index'.docs, stale |-> index'.stale,
                   quiet |-> index'.quiet]
  BY <1>1, <1>2
<1>4. Indexed'
  BY <1>1, <1>2, <1>3 DEF Indexed, Partly
<1>5. ASSUME NEW b \in Builder
      PROVE  /\ Built(b)' /\ build'[b].pc = build[b].pc
             /\ gone # {} => build'[b] = Off \/ ~build'[b].quiet
             /\ build'[b].pc \in {"run", "done"} => build'[b].work = build[b].work
             /\ build[b] = Off => build'[b] = Off
  <2>1. CASE gone = {} \/ build[b] = Off
    BY <1>1, <2>1 DEF Good, Typed, Built, Partly, Off
  <2>2. CASE ~(gone = {} \/ build[b] = Off)
    <3>1. /\ build[b] # Off /\ build'[b] = [build[b] EXCEPT !.quiet = FALSE]
          /\ build[b] = [pc |-> build[b].pc, work |-> build[b].work, quiet |-> build[b].quiet]
      BY <1>1, <2>2 DEF Good, Typed, Built
    <3>2. /\ build'[b].pc = build[b].pc /\ build'[b].work = build[b].work
          /\ build'[b].quiet = FALSE
          /\ build'[b] = [pc |-> build'[b].pc, work |-> build'[b].work, quiet |-> build'[b].quiet]
      BY <3>1
    <3>3. QED
      BY <1>1, <3>1, <3>2 DEF Good, Typed, Built, Partly
  <2>3. QED
    BY <2>1, <2>2
<1>6. /\ doc' \in [Uid -> Nat] /\ vec' \in [Uid -> Nat]
      /\ \A v \in Uid : doc'[v] \in 0..last[v] /\ vec'[v] \in 0..last[v] /\ vec'[v] \in {vec[v], 0}
      /\ queue' \subseteq Uid /\ owed' \subseteq Uid
  BY <1>1 DEF Good, Typed, TypeOK
<1>7. Typed'
  BY <1>1, <1>4, <1>5, <1>6 DEF Good, Typed, TypeOK
<1>8. DocsAgree'
  BY <1>1 DEF Good, DocsAgree
<1>9. QuietIndex'
  <2>1. ASSUME index.quiet
        PROVE  /\ DOMAIN index.docs = Live /\ \A v \in Live : index.docs[v] = row[v]
               /\ \A v \in Live : doc[v] = row[v]
    BY <1>1, <2>1 DEF Good, QuietIndex
  <2>2. Live' = Live /\ Live \subseteq Uid
    BY <1>1 DEF Live
  <2>3. ASSUME index.quiet, NEW v \in Live PROVE doc'[v] = row[v]
    BY <1>1, <2>1, <2>2, <2>3
  <2>4. ASSUME index.quiet, NEW v \in Uid \ Live PROVE doc'[v] = row[v]
    BY <1>1, <2>1, <2>4 DEF Good, Typed, Live
  <2>5. QED
    BY <1>1, <1>3, <2>1, <2>2, <2>3, <2>4 DEF QuietIndex
<1>10. QuietBuild'
  <2>1. CASE gone = {}
    <3>1. /\ \A v \in Uid : vec'[v] = vec[v]
          /\ \A b \in Builder : build'[b] = build[b]
      BY <1>1, <2>1
    <3>2. QED
      BY <1>1, <3>1 DEF Good, QuietBuild, Live
  <2>2. CASE gone # {}
    BY <1>1, <1>5, <2>2 DEF QuietBuild, Off
  <2>3. QED
    BY <2>1, <2>2
<1>11. MatrixCurrent'
  BY <1>1, <1>5, <1>6, MatrixStays DEF Good
<1>12. QED
  BY <1>7, <1>8, <1>9, <1>10, <1>11 DEF Good

LEMMA StepIndexEnds ==
    ASSUME Good, IndexEnd \/ IndexCancel
    PROVE  Good'
<1>1. UNCHANGED <<row, last, doc, vec, queue, build, starting, matrix, restoring, owed>>
  BY DEF IndexEnd, IndexCancel, vecVars
<1>2. Indexed' /\ QuietIndex'
  <2>1. CASE IndexEnd
    BY <2>1 DEF IndexEnd, Indexed, QuietIndex, Off
  <2>2. CASE IndexCancel
    <3>1. /\ index.pc = "write" /\ index' = [index EXCEPT !.stale = {}, !.quiet = FALSE]
      BY <2>2 DEF IndexCancel
    <3>2. index = [pc |-> "write", docs |-> index.docs, stale |-> index.stale, quiet |-> index.quiet]
          /\ Partly(index.docs)
      BY <3>1, IndexFields DEF Good
    <3>3. /\ index'.pc = "write" /\ index'.docs = index.docs /\ index'.stale = {}
          /\ index'.quiet = FALSE
          /\ index' = [pc |-> index'.pc, docs |-> index'.docs, stale |-> index'.stale,
                       quiet |-> index'.quiet]
      BY <3>1, <3>2
    <3>4. QED
      BY <1>1, <3>2, <3>3 DEF Indexed, Partly, QuietIndex
  <2>3. QED
    BY <2>1, <2>2
<1>3. Typed'
  BY <1>1, <1>2 DEF Good, Typed, TypeOK, Built, Partly
<1>4. DocsAgree' /\ QuietBuild' /\ MatrixCurrent'
  BY <1>1 DEF Good, DocsAgree, QuietBuild, MatrixCurrent, Live
<1>5. QED
  BY <1>2, <1>3, <1>4 DEF Good

-----------------------------------------------------------------------------
(* The builds.                                                             *)

\* The fields of a build under way.
LEMMA BuildFields ==
    ASSUME Typed, NEW b \in Builder, build[b].pc \in {"run", "done"}
    PROVE  /\ build[b] = [pc |-> build[b].pc, work |-> build[b].work, quiet |-> build[b].quiet]
           /\ build[b].quiet \in BOOLEAN /\ Partly(build[b].work)
           /\ build[b].pc = "done" => DOMAIN build[b].work = {}
BY DEF Typed, Built, Off

\* A build in a state given by its fields.
LEMMA Entered ==
    ASSUME NEW b \in Builder, NEW pc \in {"run", "done"}, NEW work, NEW quiet \in BOOLEAN,
           build'[b] = [pc |-> pc, work |-> work, quiet |-> quiet],
           Partly(work), UNCHANGED last, pc = "done" => DOMAIN work = {}
    PROVE  /\ Built(b)' /\ build'[b] # Off
           /\ build'[b].pc = pc /\ build'[b].work = work /\ build'[b].quiet = quiet
BY DEF Built, Partly, Off

LEMMA StepStart ==
    ASSUME Good, NEW b \in Builder, Start(b)
    PROVE  Good'
<1>1. PICK force \in BOOLEAN :
        build' = [c \in Builder |->
            IF c = b THEN [pc |-> "run", work |-> [u \in Pending(force) |-> Documents[u]],
                           quiet |-> \A d \in Builder : build[d] = Off]
            ELSE IF build[c] = Off THEN Off ELSE [build[c] EXCEPT !.quiet = FALSE]]
  BY DEF Start
<1>2. build[b] = Off /\ UNCHANGED <<row, last, doc, vec, queue, index, matrix, restoring, owed>>
  BY DEF Start
<1> DEFINE work == [u \in Pending(force) |-> Documents[u]]
           quiet == \A d \in Builder : build[d] = Off
<1>3. /\ DOMAIN work = {u \in Live : force \/ vec[u] # row[u]}
      /\ \A u \in DOMAIN work : work[u] = row[u]
      /\ Live \subseteq Uid
  BY DEF Pending, Documents, TextOf, Live
<1>4. build'[b] = [pc |-> "run", work |-> work, quiet |-> quiet] /\ quiet \in BOOLEAN
  BY <1>1
<1> HIDE DEF work, quiet
<1>5. Partly(work)
  BY <1>3 DEF Good, Typed, TypeOK, Partly
<1>6. /\ Built(b)' /\ build'[b] # Off
      /\ build'[b].pc = "run" /\ build'[b].work = work /\ build'[b].quiet = quiet
  BY <1>2, <1>4, <1>5, Entered
<1>7. ASSUME NEW c \in Builder \ {b}
      PROVE  /\ Built(c)'
             /\ build[c] = Off => build'[c] = Off
             /\ ~(build'[c].pc \in {"run", "done"} /\ build'[c].quiet)
             /\ build'[c].pc = build[c].pc
  <2>1. CASE build[c] = Off
    BY <1>1, <2>1 DEF Built, Off
  <2>2. CASE build[c] # Off
    <3>1. /\ build'[c] = [build[c] EXCEPT !.quiet = FALSE]
          /\ build[c] = [pc |-> build[c].pc, work |-> build[c].work, quiet |-> build[c].quiet]
          /\ build[c].pc \in {"run", "done"} /\ Partly(build[c].work)
          /\ build[c].pc = "done" => DOMAIN build[c].work = {}
      BY <1>1, <2>2 DEF Good, Typed, Built
    <3>2. build'[c] = [pc |-> build[c].pc, work |-> build[c].work, quiet |-> FALSE]
      BY <3>1
    <3>3. QED
      BY <1>2, <2>2, <3>1, <3>2, Entered
  <2>3. QED
    BY <2>1, <2>2
<1>8. Typed'
  <2>1. DOMAIN build' = Builder
    BY <1>1
  <2>2. \A c \in Builder : Built(c)'
    BY <1>6, <1>7
  <2>3. TypeOK'
    BY <1>2 DEF Good, Typed, TypeOK
  <2>4. Indexed'
    BY <1>2 DEF Good, Typed, Indexed, Partly
  <2>5. QED
    BY <1>2, <2>1, <2>2, <2>3, <2>4 DEF Good, Typed
<1>9. DocsAgree' /\ QuietIndex'
  BY <1>2 DEF Good, DocsAgree, QuietIndex, Live
<1>10. QuietBuild'
  <2>1. ASSUME NEW c \in Builder, build'[c].pc \in {"run", "done"}, build'[c].quiet
        PROVE  /\ c = b /\ quiet
    BY <1>6, <1>7, <2>1
  <2>2. quiet => \A c \in Builder \ {b} : build'[c] = Off
    <3>1. SUFFICES ASSUME quiet, NEW c \in Builder \ {b}
                   PROVE  build'[c] = Off
      OBVIOUS
    <3>2. build[c] = Off
      BY <3>1 DEF quiet
    <3>3. QED
      BY <1>7, <3>2
  <2>3. \A u \in Live : u \in DOMAIN work \/ vec[u] = row[u]
    BY <1>3
  <2>4. QED
    BY <1>2, <1>3, <1>6, <2>1, <2>2, <2>3 DEF QuietBuild, Live
<1>11. MatrixCurrent'
  <2>1. \A c \in Builder : build[c].pc = "run" => build'[c].pc = "run"
    BY <1>6, <1>7
  <2>2. QED
    BY <1>2, <2>1, MatrixStays DEF Good, Typed
<1>12. QED
  BY <1>8, <1>9, <1>10, <1>11 DEF Good

\* What one build does to its own record leaves the rest as it is.
LEMMA OwnStep ==
    ASSUME Good, NEW b \in Builder, build[b].pc \in {"run", "done"},
           UNCHANGED <<row, last, doc, index, restoring, owed>>,
           DOMAIN build' = Builder, Built(b)',
           \A c \in Builder \ {b} : build'[c] = build[c],
           vec' \in [Uid -> Nat], \A u \in Uid : vec'[u] \in 0..last[u],
           queue' \subseteq Uid, matrix' \in {matrix, {}},
           UNCHANGED vec \/ build[b].pc = "run",
           build'[b].pc \in {"run", "done"} /\ build'[b].quiet =>
               /\ build[b].quiet
               /\ \A u \in DOMAIN build'[b].work : build'[b].work[u] = row[u]
               /\ \A u \in Live : u \in DOMAIN build'[b].work \/ vec'[u] = row[u],
           build'[b].pc = "run" \/ matrix' = {} \/ (build[b].pc = "done" /\ UNCHANGED vec)
    PROVE  Good'
<1>1. Typed'
  BY DEF Good, Typed, TypeOK, Indexed, Built, Partly
<1>2. DocsAgree' /\ QuietIndex'
  BY DEF Good, DocsAgree, QuietIndex, Live
<1>3. QuietBuild'
  <2> SUFFICES ASSUME NEW c \in Builder, build'[c].pc \in {"run", "done"}, build'[c].quiet
               PROVE  /\ \A d \in Builder \ {c} : build'[d] = Off
                      /\ \A u \in DOMAIN build'[c].work : build'[c].work[u] = row[u]
                      /\ \A u \in Live : u \in DOMAIN build'[c].work \/ vec'[u] = row[u]
    BY DEF QuietBuild, Live
  <2>1. CASE c = b
    <3>1. \A d \in Builder \ {b} : build[d] = Off
      BY <2>1 DEF Good, QuietBuild
    <3>2. QED
      BY <2>1, <3>1
  <2>2. CASE c # b
    <3>1. build[b] = Off
      BY <2>2 DEF Good, QuietBuild
    <3>2. QED
      BY <3>1 DEF Off
  <2>3. QED
    BY <2>1, <2>2
<1>4. MatrixCurrent'
  <2>1. CASE build'[b].pc = "run"
    BY <2>1 DEF MatrixCurrent
  <2>2. CASE matrix' = {}
    BY <2>2 DEF MatrixCurrent
  <2>3. CASE build[b].pc = "done" /\ UNCHANGED vec
    BY <2>3 DEF Good, MatrixCurrent
  <2>4. QED
    BY <2>1, <2>2, <2>3
<1>5. QED
  BY <1>1, <1>2, <1>3, <1>4 DEF Good

LEMMA StepBuildWrite ==
    ASSUME Good, NEW b \in Builder, BuildWrite(b)
    PROVE  Good'
<1> DEFINE work == build[b].work
           quiet == build[b].quiet
<1>1. PICK u \in DOMAIN work :
        /\ vec' = [vec EXCEPT ![u] = work[u]]
        /\ queue' = queue \ {u}
        /\ build' = [build EXCEPT ![b].work = [v \in DOMAIN work \ {u} |-> work[v]]]
  BY DEF BuildWrite
<1>2. build[b].pc = "run" /\ UNCHANGED <<row, last, doc, index, starting, matrix, restoring, owed>>
  BY DEF BuildWrite
<1>3. /\ build[b] = [pc |-> "run", work |-> work, quiet |-> quiet]
      /\ quiet \in BOOLEAN /\ Partly(work)
  BY <1>2, BuildFields DEF Good
<1> DEFINE rest == [v \in DOMAIN work \ {u} |-> work[v]]
<1>4. /\ build'[b] = [build[b] EXCEPT !.work = rest] /\ DOMAIN build' = Builder
      /\ \A c \in Builder \ {b} : build'[c] = build[c]
  BY <1>1 DEF Good, Typed
<1>5. DOMAIN rest = DOMAIN work \ {u} /\ \A v \in DOMAIN rest : rest[v] = work[v]
  OBVIOUS
<1> HIDE DEF rest
<1>6. build'[b] = [pc |-> "run", work |-> rest, quiet |-> quiet]
  <2> HIDE DEF work, quiet
  <2>1. QED
    BY <1>3, <1>4
<1>7. Partly(rest)
  BY <1>3, <1>5 DEF Partly
<1>8. /\ Built(b)' /\ build'[b].pc = "run" /\ build'[b].work = rest /\ build'[b].quiet = quiet
  BY <1>2, <1>3, <1>6, <1>7, Entered
<1>9. u \in Uid /\ work[u] \in 0..last[u]
  BY <1>3 DEF Partly
<1>10. vec' \in [Uid -> Nat] /\ \A v \in Uid : vec'[v] \in 0..last[v]
  BY <1>1, <1>9 DEF Good, Typed, TypeOK
<1>11. ASSUME quiet
       PROVE  /\ \A v \in DOMAIN rest : rest[v] = row[v]
              /\ \A v \in Live : v \in DOMAIN rest \/ vec'[v] = row[v]
  <2>1. /\ \A v \in DOMAIN work : work[v] = row[v]
        /\ \A v \in Live : v \in DOMAIN work \/ vec[v] = row[v]
    BY <1>2, <1>11 DEF Good, QuietBuild
  <2>2. QED
    BY <1>1, <1>5, <1>9, <2>1 DEF Good, Typed, Live
<1>12. queue' \subseteq Uid
  BY <1>1 DEF Good, Typed, TypeOK
<1>13. QED
  BY <1>2, <1>4, <1>8, <1>10, <1>11, <1>12, OwnStep

LEMMA StepBuildEnds ==
    ASSUME Good, NEW b \in Builder, BuildStop(b) \/ BuildEnd(b) \/ BuildGone(b)
    PROVE  Good'
<1>1. /\ UNCHANGED <<row, last, doc, vec, queue, index, restoring, owed>>
      /\ build[b].pc \in {"run", "done"} /\ matrix' \in {matrix, {}}
  BY DEF BuildStop, BuildEnd, BuildGone, Dropped
<1>2. DOMAIN build' = Builder /\ \A c \in Builder \ {b} : build'[c] = build[c]
  BY DEF BuildStop, BuildEnd, BuildGone, Good, Typed
<1> DEFINE work == build[b].work
           quiet == build[b].quiet
<1>3. /\ build[b] = [pc |-> build[b].pc, work |-> work, quiet |-> quiet]
      /\ quiet \in BOOLEAN /\ Partly(work)
  BY <1>1, BuildFields DEF Good
<1>4. /\ vec' \in [Uid -> Nat] /\ queue' \subseteq Uid /\ \A u \in Uid : vec'[u] \in 0..last[u]
  BY <1>1 DEF Good, Typed, TypeOK
<1>5. CASE BuildStop(b)
  <2>1. /\ build[b].pc = "run" /\ UNCHANGED matrix
        /\ build'[b] = [build[b] EXCEPT !.work = [u \in {} |-> 0], !.quiet = FALSE]
    BY <1>5 DEF BuildStop, Good, Typed
  <2>2. build'[b] = [pc |-> "run", work |-> [u \in {} |-> 0], quiet |-> FALSE]
    <3> HIDE DEF work, quiet
    <3>1. QED
      BY <1>3, <2>1
  <2>3. Partly([u \in {} |-> 0])
    BY DEF Partly
  <2>4. Built(b)' /\ build'[b].pc = "run" /\ build'[b].quiet = FALSE
    BY <1>1, <2>2, <2>3, Entered
  <2>5. QED
    BY <1>1, <1>2, <1>4, <2>1, <2>4, OwnStep
<1>6. CASE BuildEnd(b)
  <2>1. /\ build[b].pc = "run" /\ matrix' = {} /\ DOMAIN work = {}
        /\ build'[b] = [build[b] EXCEPT !.pc = "done"]
    BY <1>6 DEF BuildEnd, Dropped, Good, Typed
  <2>2. build'[b] = [pc |-> "done", work |-> work, quiet |-> quiet]
    <3> HIDE DEF work, quiet
    <3>1. QED
      BY <1>3, <2>1
  <2>3. Built(b)' /\ build'[b].pc = "done" /\ build'[b].work = work /\ build'[b].quiet = quiet
    BY <1>1, <1>3, <2>1, <2>2, Entered
  <2>4. quiet => /\ \A u \in DOMAIN work : work[u] = row[u]
                 /\ \A u \in Live : u \in DOMAIN work \/ vec'[u] = row[u]
    BY <1>1, <2>1 DEF Good, QuietBuild
  <2>5. QED
    BY <1>1, <1>2, <1>4, <2>1, <2>3, <2>4, OwnStep
<1>7. CASE BuildGone(b)
  <2>1. build[b].pc = "done" /\ UNCHANGED matrix /\ build'[b] = Off
    BY <1>7 DEF BuildGone, Good, Typed
  <2>2. Built(b)' /\ build'[b].pc = "off"
    BY <2>1 DEF Built, Off
  <2>3. QED
    BY <1>1, <1>2, <1>4, <2>1, <2>2, OwnStep
<1>8. QED
  BY <1>5, <1>6, <1>7

LEMMA StepPurge ==
    ASSUME Good, Purge
    PROVE  Good'
<1>1. /\ vec' = [u \in Uid |-> 0] /\ queue' = {} /\ matrix' = {}
      /\ build' = [b \in Builder |-> IF build[b] = Off THEN Off
                                     ELSE [build[b] EXCEPT !.quiet = FALSE]]
      /\ UNCHANGED <<row, last, doc, index, starting, restoring, owed>>
  BY DEF Purge, Dropped
<1>2. ASSUME NEW b \in Builder
      PROVE  Built(b)' /\ ~(build'[b].pc \in {"run", "done"} /\ build'[b].quiet)
  <2>1. CASE build[b] = Off
    BY <1>1, <2>1 DEF Built, Off
  <2>2. CASE build[b] # Off
    <3>1. /\ build'[b] = [build[b] EXCEPT !.quiet = FALSE]
          /\ build[b] = [pc |-> build[b].pc, work |-> build[b].work, quiet |-> build[b].quiet]
          /\ build[b].pc \in {"run", "done"} /\ Partly(build[b].work)
          /\ build[b].pc = "done" => DOMAIN build[b].work = {}
      BY <1>1, <2>2 DEF Good, Typed, Built
    <3>2. build'[b] = [pc |-> build[b].pc, work |-> build[b].work, quiet |-> FALSE]
      BY <3>1
    <3>3. QED
      BY <1>1, <3>1, <3>2, Entered
  <2>3. QED
    BY <2>1, <2>2
<1>3. Typed'
  BY <1>1, <1>2 DEF Good, Typed, TypeOK, Indexed, Partly
<1>4. DocsAgree' /\ QuietIndex'
  BY <1>1 DEF Good, DocsAgree, QuietIndex, Live
<1>5. QuietBuild' /\ MatrixCurrent'
  BY <1>1, <1>2 DEF QuietBuild, MatrixCurrent
<1>6. QED
  BY <1>3, <1>4, <1>5 DEF Good

LEMMA StepRest ==
    ASSUME Good, Rebuild \/ Load \/ Crash
    PROVE  Good'
<1>1. CASE Rebuild
  <2>1. UNCHANGED <<row, last, doc, vec, queue, index, build, matrix, restoring, owed>>
    BY <1>1 DEF Rebuild
  <2>2. QED
    BY <2>1 DEF Good, Typed, TypeOK, Indexed, Built, Partly, DocsAgree, QuietIndex, QuietBuild,
       MatrixCurrent, Live
<1>2. CASE Load
  <2>1. /\ UNCHANGED <<row, last, doc, vec, queue, index, build, restoring, owed>>
        /\ matrix' = {<<u, vec[u]>> : u \in {v \in Uid : vec[v] > 0}}
    BY <1>2 DEF Load, Vectors
  <2>2. /\ matrix' \subseteq Uid \X Nat
        /\ \A p \in matrix' : p[2] = vec[p[1]]
        /\ \A p, q \in matrix' : p[1] = q[1] => p = q
    BY <2>1 DEF Good, Typed
  <2>3. Typed'
    BY <2>1, <2>2 DEF Good, Typed, TypeOK, Indexed, Built, Partly
  <2>4. MatrixCurrent'
    BY <2>1, <2>2 DEF MatrixCurrent
  <2>5. QED
    BY <2>1, <2>3, <2>4 DEF Good, DocsAgree, QuietIndex, QuietBuild, Live
<1>3. CASE Crash
  <2>1. /\ UNCHANGED <<row, last, doc, vec, queue, owed>>
        /\ index' = Off /\ build' = [b \in Builder |-> Off] /\ matrix' = {} /\ restoring' = {}
    BY <1>3 DEF Crash
  <2>2. Typed'
    BY <2>1 DEF Good, Typed, TypeOK, Indexed, Built
  <2>3. QED
    BY <2>1, <2>2 DEF Good, DocsAgree, QuietIndex, QuietBuild, MatrixCurrent, Off
<1>4. QED
  BY <1>1, <1>2, <1>3

LEMMA GoodInvariant == Spec => []Good
<1>1. ASSUME Good, [Next]_vars PROVE Good'
  <2>1. CASE UNCHANGED vars
    BY <1>1, <2>1 DEF vars, Good, Typed, TypeOK, Indexed, Built, Partly, DocsAgree, QuietIndex,
       QuietBuild, MatrixCurrent, Live
  <2>2. CASE Next
    BY <1>1, <2>2, StepRows, StepCollect, StepIndexWrite, StepIndexPrune, StepIndexEnds, StepStart,
       StepBuildWrite, StepBuildEnds, StepPurge, StepRest DEF Next
  <2>3. QED
    BY <1>1, <2>1, <2>2
<1>2. QED
  BY <1>1, InitGood, PTL DEF Spec

-----------------------------------------------------------------------------
\* The tables hold only versions that were made, and the document of an asset follows its
\* row except where the code owes it one (sync.py, write_synced, resync, the index phase).
THEOREM DocumentsFollowRows == Spec => []SearchSound
<1>1. Good => SearchSound
  BY DEF Good, Typed, SearchSound
<1>2. QED
  BY <1>1, GoodInvariant, PTL

\* An index phase that nothing disturbed leaves the documents of exactly the rows there
\* are, however far behind they were (the index phase: _collect, write, prune).
THEOREM QuietPhaseAgrees == Spec => []QuietIndexAgrees
<1>1. Good => QuietIndexAgrees
  <2> SUFFICES ASSUME Good, index.pc = "done", index.quiet, NEW u \in Uid
               PROVE  doc[u] = row[u]
    BY DEF QuietIndexAgrees
  <2>1. index.stale = {}
    BY IndexFields DEF Good
  <2>2. QED
    BY <2>1 DEF Good, QuietIndex
<1>2. QED
  BY <1>1, GoodInvariant, PTL

\* An undisturbed build leaves no live asset without the vector of its text, and the copy
\* in memory agrees with the table whenever no build runs (embed_service.py: _build,
\* matrix, invalidate).
THEOREM VectorsStayCurrent == Spec => []VectorsCurrent
<1>1. Good => VectorsCurrent
  <2> SUFFICES ASSUME Good PROVE VectorsCurrent
    OBVIOUS
  <2>1. ASSUME NEW b \in Builder, build[b].pc = "done", build[b].quiet, NEW u \in Live
        PROVE  vec[u] = row[u]
    <3>1. DOMAIN build[b].work = {}
      BY <2>1, BuildFields DEF Good
    <3>2. QED
      BY <2>1, <3>1 DEF Good, QuietBuild
  <2>2. QED
    BY <2>1 DEF Good, MatrixCurrent, VectorsCurrent
<1>2. QED
  BY <1>1, GoodInvariant, PTL
=============================================================================
