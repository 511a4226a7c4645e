----------------------------- MODULE SearchSync -----------------------------
(***************************************************************************)
(* The search documents (search/sync.py, search/fts.py, the index phase of *)
(* a scan) and the vectors (jobs/embed_service.py): three tables derived   *)
(* from the asset rows by writers that look at the rows at one moment and  *)
(* write what they made of them at another, and a copy of the vectors in   *)
(* memory.                                                                 *)
(*                                                                         *)
(* Abstractions.  A row is its version, 0 when there is none; a document   *)
(* or a vector is the version it was made from, so equal versions are      *)
(* equal text hashes.  Tags are part of the row.  A chunk is one document  *)
(* in the index phase and one vector in the build.  Transactions are       *)
(* steps, as the writer thread runs them one at a time.                    *)
(***************************************************************************)
EXTENDS Naturals, FiniteSets

CONSTANTS
    Uid,
    Builder,        \* threads that may run _build
    Budget          \* how often each kind of outside event may happen

Kind == {"any", "mutate", "delete", "upsert", "restore", "fault", "scan", "cancel", "build", "purge", "crash"}

VARIABLES
    row,            \* version of the asset row (0: none); versions are never used again
    last,           \* the last version made, per uid
    doc,            \* search_fts and search_docs
    vec,            \* embeddings
    queue,          \* embed_queue
    index,          \* the index phase: [pc |-> "off"] or what it collected and has left
    build,          \* per builder: [pc |-> "off"] or what it enumerated
    starting,       \* callers of rebuild() past its check
    matrix,         \* the matrix in memory: {} or the vectors it was loaded from
    restoring,      \* uids whose restore has not called resync yet
    owed,           \* uids whose document is known to be behind (see DocsAgree)
    left

vars == <<row, last, doc, vec, queue, index, build, starting, matrix, restoring, owed, left>>
vecVars == <<vec, build, starting, matrix>>

Off == [pc |-> "off"]
Spend(k) == left[k] > 0 /\ left["any"] > 0 /\ left' = [left EXCEPT ![k] = @ - 1, !["any"] = @ - 1]
Live == {u \in Uid : row[u] > 0}

\* doc_builder.py: the document of a version; one text hash per version.
TextOf(version) == version

\* The documents of all rows, for the index phase and for the build.
Documents == [u \in Live |-> TextOf(row[u])]

Init ==
    /\ row = [u \in Uid |-> 1] /\ last = row
    /\ doc = row
    /\ vec = [u \in Uid |-> 0] /\ queue = Uid
    /\ index = Off
    /\ build = [b \in Builder |-> Off] /\ starting = 0
    /\ matrix = {}
    /\ restoring = {} /\ owed = {}
    /\ left = Budget

\* The passes that began before a change do not see it.
Disturbed ==
    /\ index' = IF index = Off THEN Off ELSE [index EXCEPT !.quiet = FALSE]
    /\ build' = [b \in Builder |-> IF build[b] = Off THEN Off
                                   ELSE [build[b] EXCEPT !.quiet = FALSE]]

-----------------------------------------------------------------------------
(* sync.py: write_synced writes a row and, in the same transaction, its    *)
(* document.                                                               *)

NewRow(u) == row' = [row EXCEPT ![u] = last[u] + 1] /\ last' = [last EXCEPT ![u] = @ + 1]

\* sync_uid: the document of a live row is replaced, that of no row deleted with its
\* vector.  now is what the row is at the end of the transaction.
SyncedUnlessGone(u, now) ==                           \* mutant of Synced
    /\ doc' = [doc EXCEPT ![u] = IF now > 0 THEN now ELSE @]
    /\ queue' = queue \cup {u}
    /\ vec' = vec
Synced(u, now) ==
    /\ doc' = [doc EXCEPT ![u] = TextOf(now)]
    /\ queue' = IF now > 0 THEN queue \cup {u} ELSE queue \ {u}
    /\ vec' = IF now > 0 THEN vec ELSE [vec EXCEPT ![u] = 0]

\* A rename, move, edit, tag, enrichment or restore (or insert) of u.
Mutate(u) ==
    /\ Spend("mutate")
    /\ NewRow(u)
    /\ Synced(u, row'[u])
    /\ Disturbed
    /\ owed' = owed \ {u}
    /\ UNCHANGED <<starting, matrix, restoring>>

Delete(u) ==
    /\ Spend("delete")
    /\ row[u] > 0
    /\ row' = [row EXCEPT ![u] = 0]
    /\ Synced(u, 0)
    /\ Disturbed
    /\ owed' = owed \ {u}
    /\ UNCHANGED <<last, starting, matrix, restoring>>

\* A restore inserts its row with write_synced and then, in transactions of their own,
\* what belongs to it (files, classes, tags, albums); resync() comes last.
RestoreParts(u) ==
    /\ Spend("restore")
    /\ row[u] > 0
    /\ NewRow(u)
    /\ restoring' = restoring \cup {u}
    /\ owed' = owed \cup {u}
    /\ Disturbed
    /\ UNCHANGED <<doc, vec, queue, starting, matrix>>

Resync(u) ==
    /\ u \in restoring
    /\ Synced(u, row[u])
    /\ restoring' = restoring \ {u}
    /\ owed' = owed \ {u}
    /\ Disturbed
    /\ UNCHANGED <<row, last, starting, matrix, left>>

-----------------------------------------------------------------------------
(* The scan: its phases write rows without documents, its index phase      *)
(* collects all documents on a read connection and writes those whose      *)
(* hash differs.                                                           *)

ScanUpsert(u) ==
    /\ Spend("upsert")
    /\ index = Off
    /\ NewRow(u)
    /\ owed' = owed \cup {u}
    /\ Disturbed
    /\ UNCHANGED <<doc, vec, queue, starting, matrix, restoring>>

StaleUnknown(docs) == {u \in DOMAIN docs : doc[u] = 0}          \* mutant of Stale
Stale(docs) == {u \in DOMAIN docs : doc[u] # docs[u]}

IndexCollect ==
    /\ Spend("scan")
    /\ index = Off
    /\ index' = [pc |-> "write", docs |-> Documents, stale |-> Stale(Documents), quiet |-> TRUE]
    /\ UNCHANGED <<row, last, doc, queue, vecVars, restoring, owed>>

\* A chunk: the document as it was collected; one that fails is passed over.
IndexWrite ==
    /\ index.pc = "write"
    /\ \E u \in index.stale :
        \/ /\ doc' = [doc EXCEPT ![u] = index.docs[u]]
           /\ queue' = queue \cup {u}
           /\ owed' = IF index.docs[u] = row[u] THEN owed \ {u} ELSE owed \cup {u}
           /\ index' = [index EXCEPT !.stale = @ \ {u}]
           /\ UNCHANGED left
        \/ /\ Spend("fault")
           /\ index' = [index EXCEPT !.stale = @ \ {u}, !.quiet = FALSE]
           /\ UNCHANGED <<doc, queue, owed>>
    /\ UNCHANGED <<row, last, vecVars, restoring>>

\* Documents of uids that were not collected are deleted, with their vectors.
IndexPrune ==
    /\ index.pc = "write" /\ index.stale = {}
    /\ LET gone == {u \in Uid : doc[u] > 0} \ DOMAIN index.docs
       IN  /\ doc' = [u \in Uid |-> IF u \in gone THEN 0 ELSE doc[u]]
           /\ vec' = [u \in Uid |-> IF u \in gone THEN 0 ELSE vec[u]]
           /\ queue' = queue \ gone
           /\ owed' = {u \in owed \cup gone : doc'[u] # row[u]}
           /\ build' = [b \in Builder |-> IF gone = {} \/ build[b] = Off THEN build[b]
                                          ELSE [build[b] EXCEPT !.quiet = FALSE]]
    /\ index' = [index EXCEPT !.pc = "done"]
    /\ UNCHANGED <<row, last, starting, matrix, restoring, left>>

IndexEnd ==
    /\ index.pc = "done"
    /\ index' = Off
    /\ UNCHANGED <<row, last, doc, queue, vecVars, restoring, owed, left>>

\* A cancel stops the writing; the prune runs all the same.
IndexCancel ==
    /\ index.pc = "write" /\ index.stale # {}
    /\ Spend("cancel")
    /\ index' = [index EXCEPT !.stale = {}, !.quiet = FALSE]
    /\ UNCHANGED <<row, last, doc, queue, vecVars, restoring, owed>>

-----------------------------------------------------------------------------
(* embed_service.py.                                                       *)

\* rebuild() looks whether a worker is alive and starts one afterwards.
Rebuild ==
    /\ Spend("build")
    /\ \A b \in Builder : build[b] = Off
    /\ starting' = starting + 1
    /\ UNCHANGED <<row, last, doc, vec, queue, index, build, matrix, restoring, owed>>

\* The worker compares the rows' texts with the vectors it has, unless forced.
PendingUnknown(force) == {u \in Live : force \/ vec[u] = 0}     \* mutant of Pending
Pending(force) == {u \in Live : force \/ vec[u] # row[u]}

Start(b) ==
    /\ starting > 0 /\ build[b] = Off
    /\ starting' = starting - 1
    /\ \E force \in BOOLEAN :
        build' = [c \in Builder |->
            IF c = b THEN [pc |-> "run", work |-> [u \in Pending(force) |-> Documents[u]],
                           quiet |-> \A d \in Builder : build[d] = Off]
            ELSE IF build[c] = Off THEN Off ELSE [build[c] EXCEPT !.quiet = FALSE]]
    /\ UNCHANGED <<row, last, doc, vec, queue, index, matrix, restoring, owed, left>>

\* A chunk of texts becomes vectors, written without another look at their rows.
BuildWrite(b) ==
    /\ build[b].pc = "run"
    /\ \E u \in DOMAIN build[b].work :
        /\ vec' = [vec EXCEPT ![u] = build[b].work[u]]
        /\ queue' = queue \ {u}
        /\ build' = [build EXCEPT ![b].work = [v \in DOMAIN @ \ {u} |-> @[v]]]
    /\ UNCHANGED <<row, last, doc, index, starting, matrix, restoring, owed, left>>

\* A cancel, an inference or a write that fails end the build early.
BuildStop(b) ==
    /\ build[b].pc = "run" /\ DOMAIN build[b].work # {}
    /\ Spend("cancel")
    /\ build' = [build EXCEPT ![b].work = [u \in {} |-> 0], ![b].quiet = FALSE]
    /\ UNCHANGED <<row, last, doc, vec, queue, index, starting, matrix, restoring, owed>>

Dropped == {}

BuildEnd(b) ==
    /\ build[b].pc = "run" /\ DOMAIN build[b].work = {}
    /\ matrix' = Dropped
    /\ build' = [build EXCEPT ![b].pc = "done"]
    /\ UNCHANGED <<row, last, doc, vec, queue, index, starting, restoring, owed, left>>

BuildGone(b) ==
    /\ build[b].pc = "done"
    /\ build' = [build EXCEPT ![b] = Off]
    /\ UNCHANGED <<row, last, doc, vec, queue, index, starting, matrix, restoring, owed, left>>

\* disable(purge): the vectors are deleted, then the matrix dropped.
Purge ==
    /\ Spend("purge")
    /\ vec' = [u \in Uid |-> 0] /\ queue' = {}
    /\ matrix' = Dropped
    /\ build' = [b \in Builder |-> IF build[b] = Off THEN Off
                                   ELSE [build[b] EXCEPT !.quiet = FALSE]]
    /\ UNCHANGED <<row, last, doc, index, starting, restoring, owed>>

\* matrix(): loaded once, by the first search that needs it.
Vectors == {<<u, vec[u]>> : u \in {v \in Uid : vec[v] > 0}}

Load ==
    /\ matrix = {} /\ Vectors # {}
    /\ matrix' = Vectors
    /\ UNCHANGED <<row, last, doc, vec, queue, index, build, starting, restoring, owed, left>>

-----------------------------------------------------------------------------
\* The process ends: what was in memory is gone, the tables are as committed.
Crash ==
    /\ Spend("crash")
    /\ index' = Off
    /\ build' = [b \in Builder |-> Off] /\ starting' = 0
    /\ matrix' = {}
    /\ restoring' = {}
    /\ UNCHANGED <<row, last, doc, vec, queue, owed>>

Next ==
    \/ \E u \in Uid : Mutate(u) \/ Delete(u) \/ RestoreParts(u) \/ Resync(u) \/ ScanUpsert(u)
    \/ IndexCollect \/ IndexWrite \/ IndexPrune \/ IndexEnd \/ IndexCancel
    \/ Rebuild \/ Purge \/ Load \/ Crash
    \/ \E b \in Builder :
        Start(b) \/ BuildWrite(b) \/ BuildStop(b) \/ BuildEnd(b) \/ BuildGone(b)

Spec == Init /\ [][Next]_vars

-----------------------------------------------------------------------------
(* Properties.                                                             *)

\* The tables hold versions that were made; the matrix has one vector per uid.
TypeOK ==
    /\ \A u \in Uid : {row[u], doc[u], vec[u]} \subseteq 0..last[u]
    /\ queue \subseteq Uid /\ restoring \subseteq Uid /\ owed \subseteq Uid
    /\ matrix \subseteq Uid \X Nat
    /\ \A p, q \in matrix : p[1] = q[1] => p = q

\* sync.py: "a committed row and its search document can never disagree".  They do not,
\* except for the uids in owed: written by a scan whose index phase has not come to them,
\* by a restore before its resync, or written back (or pruned) by an index phase from
\* rows it had read before they changed.
DocsAgree == \A u \in Uid : u \in owed \/ doc[u] = row[u]

\* A row that nothing is owed to has its own document (sync.py); the variables keep
\* their types.
SearchSound == TypeOK /\ DocsAgree

\* An index phase during which nothing else was written, that was not cancelled and met
\* no fault, leaves exactly the documents of the rows, whatever was owed before.
QuietIndexAgrees ==
    index.pc = "done" /\ index.quiet => \A u \in Uid : doc[u] = row[u]

\* The same of a build and the vectors, if no second build ran beside it (rebuild() may
\* start two): none is missing, none is of an older text. And while no build runs, the
\* matrix in memory shows for no asset another vector than its table: the copy is dropped
\* by everything that replaces vectors, also if a search loads it in between.
VectorsCurrent ==
    /\ \A b \in Builder : build[b].pc = "done" /\ build[b].quiet
           => \A u \in Live : vec[u] = row[u]
    /\ (\A b \in Builder : build[b].pc # "run") =>
           \A p \in matrix : vec[p[1]] \in {p[2], 0}
=============================================================================
