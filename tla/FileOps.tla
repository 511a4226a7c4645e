------------------------------ MODULE FileOps ------------------------------
(***************************************************************************)
(* File operations and the trash (backend/app/services/file_ops.py):       *)
(* rename, move, delete, restore and empty each change the disk and the    *)
(* database in several steps, while other requests do the same, scans      *)
(* index what they find (indexing/phases), other programs save files, and  *)
(* the process dies between any two steps.                                 *)
(*                                                                         *)
(* Abstractions.  A file's bytes are a member of Asset and no two files    *)
(* start out equal; its sidecars move with it.  A move inside a volume is  *)
(* atomic.  An asset is one row with a UNIQUE path (for a model this       *)
(* stands for its models row and its model_files row), and tagged says     *)
(* whose tags and albums hang on a uid.  A refused call (bad name, outside *)
(* the roots, occupied target) changes nothing and is no step.             *)
(***************************************************************************)
EXTENDS Naturals, FiniteSets

CONSTANTS
    Path,    \* paths inside the library roots
    Asset,   \* the files there are, by their bytes
    MaxRow,  \* bound: row ids, of assets and of trash entries
    Caller,  \* concurrent API requests
    ByPath,  \* a row is relocated by id and old path (models), or by id alone
    Budget,  \* bounds: how often each kind of event, and any of them, may happen
    None

Kind == {"any", "request", "overwrite", "tag", "save", "truncate", "race", "sweep",
         "clash", "overlap", "shared", "prune", "crash"}

ASSUME FileOpsOK ==
    /\ MaxRow \in Nat
    /\ ByPath \in BOOLEAN
    /\ Budget \in [Kind -> Nat]
    /\ \A k \in {"prune", "race", "sweep", "clash", "shared"} : Budget[k] = 1
    /\ None \notin Path \cup Asset

VARIABLES
    disk,     \* path -> the file there
    trash,    \* slot of .vault-trash -> the file there
    path,     \* row id -> the path column, None where there is no row
    tagged,   \* row id -> the asset whose tags and albums carry this uid
    entries,  \* trash_items
    op,       \* what each request is doing
    given,    \* assets the user asked to be rid of
    left

rowVars == <<path, tagged>>
vars == <<disk, trash, rowVars, entries, op, given, left>>

-----------------------------------------------------------------------------
Id   == 1 .. MaxRow
Slot == 1 .. Budget["request"]

\* A trash_items row; whole: payload_json still parses (it is cut at 1,000,000
\* characters).
Entry == [uid : Id, from : Path, slot : Slot, tags : Asset \cup {None}, whole : BOOLEAN]
NoEntry == [uid |-> 0, from |-> None, slot |-> 0, tags |-> None, whole |-> FALSE]

\* The step a request takes next and what it has read so far; seen is what the
\* path it will overwrite or erase held when it looked.
Step == {"idle", "move", "row", "trash", "entry", "drop", "erase", "back",
         "rebuild", "forget", "purge", "clear"}
Op == [at : Step, id : Id \cup {0}, from : Path \cup {None}, to : Path \cup {None},
       seen : Asset \cup {None}, slots : SUBSET Slot, tids : SUBSET Id,
       all : BOOLEAN, plan : Entry \cup {NoEntry}]
NoOp == [at |-> "idle", id |-> 0, from |-> None, to |-> None, seen |-> None,
         slots |-> {}, tids |-> {}, all |-> FALSE, plan |-> NoEntry]

TypeOK ==
    /\ disk \in [Path -> Asset \cup {None}]
    /\ trash \in [Slot -> Asset \cup {None}]
    /\ path \in [Id -> Path \cup {None}]
    /\ tagged \in [Id -> Asset \cup {None}]
    /\ entries \in [Id -> Entry \cup {NoEntry}]
    /\ op \in [Caller -> Op]
    /\ given \subseteq Asset
    /\ left \in [Kind -> Nat] /\ \A k \in Kind : left[k] <= Budget[k]

Rows    == {i \in Id : path[i] # None}
Entries == {t \in Id : entries[t] # NoEntry}
OnDisk  == {disk[p] : p \in Path} \ {None}
InTrash == {trash[s] : s \in Slot} \ {None}

\* A library whose files are all indexed.
Init ==
    /\ disk \in [Path -> Asset \cup {None}]
    /\ \A p, q \in Path : disk[p] # None /\ disk[p] = disk[q] => p = q
    /\ path \in [Id -> Path \cup {None}]
    /\ {path[i] : i \in Rows} = {p \in Path : disk[p] # None}
    /\ \A i, j \in Rows : path[i] = path[j] => i = j
    /\ \A i \in Rows : \A j \in Id : j < i => j \in Rows
    /\ trash = [s \in Slot |-> None]
    /\ tagged = [i \in Id |-> None]
    /\ entries = [t \in Id |-> NoEntry]
    /\ op = [c \in Caller |-> NoOp]
    /\ given = {}
    /\ left = Budget

\* Some events are bounded; others only leave a mark: a row pruned; a file that a
\* request destroys unseen, or that appears on another file's row (race); an entry
\* forgotten unread (sweep); a write that fails on the UNIQUE path (clash); a request
\* about a row that another is still working on (shared).
CanSpend(k) == left[k] > 0 /\ left["any"] > 0
Spend(k) == CanSpend(k) /\ left' = [left EXCEPT ![k] = @ - 1, !["any"] = @ - 1]
Mark(k)  == left' = [left EXCEPT ![k] = 0]
Untouched(k) == left[k] = Budget[k]

\* A request about the row i begins.
Take(k, i) ==
    /\ CanSpend(k)
    /\ left' = [left EXCEPT ![k] = @ - 1, !["any"] = @ - 1,
                           !["shared"] = IF \E c \in Caller : op[c].id = i THEN 0 ELSE @]

\* INTEGER PRIMARY KEY without AUTOINCREMENT: one more than the largest in use.
NewId(used) == {i \in Id : i - 1 \in used \cup {0} /\ \A j \in used : j < i}

AsSeen(c, p) ==
    IF disk[p] \in {op[c].seen, None} THEN UNCHANGED left ELSE Mark("race")

Begin(c, next) ==
    /\ op[c].at = "idle"
    /\ op' = [op EXCEPT ![c] = next]

Go(c, step) == op' = [op EXCEPT ![c].at = step]
End(c) == op' = [op EXCEPT ![c] = NoOp]

\* The UNIQUE path column.
Indexed(p) == \E i \in Rows : path[i] = p

-----------------------------------------------------------------------------
(* rename and move *)

\* os.path.exists(target): an occupied one is refused, another free name is
\* tried (keep_both), or it is removed (overwrite).
FreeInTheTable(p) == ~Indexed(p)
Free(p) == disk[p] = None

Relocate(c, i, p) ==
    /\ i \in Rows /\ p # path[i]
    /\ \/ Free(p) /\ Take("request", i) /\ UNCHANGED given
       \/ disk[p] # None /\ Take("overwrite", i) /\ given' = given \cup {disk[p]}
    /\ Begin(c, [NoOp EXCEPT !.at = "move", !.id = i, !.from = path[i], !.to = p,
                             !.seen = disk[p]])
    /\ UNCHANGED <<disk, trash, rowVars, entries>>

\* os.replace or shutil.move: whatever the target holds by now is overwritten; to
\* overwrite, it is removed first, also when there is nothing to move any more.
RelocateFile(c) ==
    LET o == op[c] IN
    /\ o.at = "move"
    /\ \/ /\ disk[o.from] = None /\ o.seen = None
          /\ End(c) /\ UNCHANGED <<disk, left>>
       \/ /\ disk[o.from] = None /\ o.seen # None
          /\ AsSeen(c, o.to)
          /\ disk' = [disk EXCEPT ![o.to] = None]
          /\ End(c)
       \/ /\ disk[o.from] # None
          /\ AsSeen(c, o.to)
          /\ disk' = [disk EXCEPT ![o.from] = None, ![o.to] = disk[o.from]]
          /\ Go(c, "row")
    /\ UNCHANGED <<trash, rowVars, entries, given>>

\* The WHERE clause of _relocate_row.
Matches(i, old) == path[i] # None /\ (ByPath => path[i] = old)

\* _relocate_row; where another row has the path by now, the UNIQUE constraint
\* raises and the request ends with an error.
RelocateRow(c) ==
    LET o == op[c] IN
    /\ o.at = "row"
    /\ IF Matches(o.id, o.from) /\ \E j \in Rows \ {o.id} : path[j] = o.to
       THEN Mark("clash") /\ UNCHANGED path
       ELSE /\ UNCHANGED left
            /\ path' = [i \in Id |-> IF i = o.id /\ Matches(i, o.from) THEN o.to ELSE path[i]]
    /\ End(c)
    /\ UNCHANGED <<disk, trash, tagged, entries, given>>

-----------------------------------------------------------------------------
(* delete *)

Delete(c, i) ==
    /\ Take("request", i) /\ i \in Rows
    /\ Begin(c, [NoOp EXCEPT !.at = "trash", !.id = i, !.from = path[i],
                             !.slots = {left["request"]}])
    /\ UNCHANGED <<disk, trash, rowVars, entries, given>>

\* _to_trash moves the file into a slot of its own ...
TrashFile(c) ==
    LET o == op[c] IN
    /\ o.at = "trash"
    /\ \/ /\ disk[o.from] = None
          /\ End(c) /\ UNCHANGED <<disk, trash>>
       \/ /\ disk[o.from] # None
          /\ trash' = [s \in Slot |-> IF s \in o.slots THEN disk[o.from] ELSE trash[s]]
          /\ disk' = [disk EXCEPT ![o.from] = None]
          /\ Go(c, "entry")
    /\ UNCHANGED <<rowVars, entries, given, left>>

\* ... reads what a restore needs and inserts the entry; a payload that is too
\* long is cut.
Trashed(o, s, whole) ==
    [uid |-> o.id, from |-> o.from, slot |-> s, tags |-> tagged[o.id], whole |-> whole]

AddEntry(c) ==
    /\ op[c].at = "entry"
    /\ \E t \in NewId(Entries), s \in op[c].slots, whole \in BOOLEAN :
         /\ IF whole THEN UNCHANGED left ELSE Spend("truncate")
         /\ entries' = [entries EXCEPT ![t] = Trashed(op[c], s, whole)]
    /\ Go(c, "drop")
    /\ UNCHANGED <<disk, trash, rowVars, given>>

\* _delete_row, by id, with the tags and albums of the uid.
DroppedTagsKept(i) == tagged
DroppedTags(i) == [tagged EXCEPT ![i] = None]
DropRow(c) ==
    /\ op[c].at = "drop"
    /\ path' = [path EXCEPT ![op[c].id] = None]
    /\ tagged' = DroppedTags(op[c].id)
    /\ End(c)
    /\ UNCHANGED <<disk, trash, entries, given, left>>

\* mode "permanent": the file, which may be gone already, then the row.
Erase(c, i) ==
    /\ Take("request", i) /\ i \in Rows
    /\ Begin(c, [NoOp EXCEPT !.at = "erase", !.id = i, !.from = path[i],
                             !.seen = disk[path[i]]])
    /\ given' = given \cup ({disk[path[i]]} \ {None})
    /\ UNCHANGED <<disk, trash, rowVars, entries>>

EraseFile(c) ==
    /\ op[c].at = "erase"
    /\ AsSeen(c, op[c].from)
    /\ disk' = [disk EXCEPT ![op[c].from] = None]
    /\ Go(c, "drop")
    /\ UNCHANGED <<trash, rowVars, entries, given>>

-----------------------------------------------------------------------------
(* restore *)

\* plan_restore accepts, or has nothing to rebuild a row from.  The target is
\* the original path, another free one, or with "overwrite" an occupied one.
Restore(c, t, p) ==
    LET e == entries[t] IN
    /\ t \in Entries /\ trash[e.slot] # None
    /\ \/ disk[p] = None /\ (disk[e.from] = None => p = e.from) /\ Spend("request")
       \/ disk[p] # None /\ p = e.from /\ Spend("overwrite")
    /\ Begin(c, [NoOp EXCEPT !.at = "back", !.to = p, !.seen = disk[p],
                             !.slots = {e.slot}, !.tids = {t}, !.plan = e])
    /\ given' = given \cup ({disk[p]} \ {None})
    /\ UNCHANGED <<disk, trash, rowVars, entries>>

RestoreFile(c) ==
    LET o == op[c]
        s == o.plan.slot
    IN
    /\ o.at = "back"
    /\ \/ /\ trash[s] = None
          /\ End(c) /\ UNCHANGED <<disk, trash, left>>
       \/ /\ trash[s] # None
          /\ AsSeen(c, o.to)
          /\ disk' = [disk EXCEPT ![o.to] = trash[s]]
          /\ trash' = [trash EXCEPT ![s] = None]
          /\ Go(c, "rebuild")
    /\ UNCHANGED <<rowVars, entries, given>>

\* _restore_row: the old id while it is free, else a new one; tags and albums
\* come back.  A path that has a row by now raises, and the entry stays.
RestoreRow(c) ==
    LET o == op[c]
        e == o.plan
    IN
    /\ o.at = "rebuild"
    /\ \/ /\ e.whole /\ ~Indexed(o.to)
          /\ \E i \in IF path[e.uid] = None THEN {e.uid} ELSE NewId(Rows) :
               /\ path' = [path EXCEPT ![i] = o.to]
               /\ tagged' = [tagged EXCEPT ![i] = IF e.tags = None THEN @ ELSE e.tags]
          /\ Go(c, "forget") /\ UNCHANGED left
       \/ /\ e.whole /\ Indexed(o.to)
          /\ Mark("clash") /\ End(c) /\ UNCHANGED rowVars
       \/ /\ ~e.whole
          /\ Go(c, "forget") /\ UNCHANGED <<rowVars, left>>
    /\ UNCHANGED <<disk, trash, entries, given>>

\* DELETE FROM trash_items, by id.
Forgotten(tids) == [t \in Id |-> IF t \in tids THEN NoEntry ELSE entries[t]]
ForgetAll(c, tids) ==
    /\ entries' = Forgotten(tids)
    /\ IF \A t \in tids \cap Entries : entries[t].slot \in op[c].slots
       THEN UNCHANGED left ELSE Mark("sweep")
    /\ End(c)
    /\ UNCHANGED <<disk, trash, rowVars, given>>

Forget(c) == op[c].at = "forget" /\ ForgetAll(c, op[c].tids)

-----------------------------------------------------------------------------
(* empty, also as the purge of expired entries at startup *)

\* The entries are read, all of them or some ...
Empty(c, tids, all) ==
    /\ Spend("request")
    /\ tids # {} /\ tids \subseteq Entries /\ (all => tids = Entries)
    /\ Begin(c, [NoOp EXCEPT !.at = "purge", !.tids = tids, !.all = all,
                             !.slots = {entries[t].slot : t \in tids}])
    /\ given' = given \cup ({trash[entries[t].slot] : t \in tids} \ {None})
    /\ UNCHANGED <<disk, trash, rowVars, entries>>

\* ... their slots are removed ...
PurgedIfEmpty(slots) == trash
Purged(slots) == [s \in Slot |-> IF s \in slots THEN None ELSE trash[s]]
EmptyFiles(c) ==
    /\ op[c].at = "purge"
    /\ trash' = Purged(op[c].slots)
    /\ Go(c, "clear")
    /\ UNCHANGED <<disk, rowVars, entries, given, left>>

\* ... and the rows deleted: those ids, or whatever the table then holds.
EmptyRows(c) ==
    /\ op[c].at = "clear"
    /\ ForgetAll(c, IF op[c].all THEN Id ELSE op[c].tids)

-----------------------------------------------------------------------------
(* what else happens to the library *)

Busy == \E c \in Caller : op[c].at # "idle"
Idle == ~Busy

\* A scan upserts what it finds by its path; a new row gets an id that may have
\* been in use before, with the tags that were left on it.
ScanAdd(p) ==
    /\ disk[p] # None /\ ~Indexed(p)
    /\ IF Busy THEN Spend("overlap") ELSE UNCHANGED left
    /\ \E i \in NewId(Rows) : path' = [path EXCEPT ![i] = p]
    /\ UNCHANGED <<disk, trash, tagged, entries, op, given>>

\* A row whose file has been missing for 30 days is deleted by a scan, not so
\* what hangs on its uid.
GoneAndUntagged(i) == i \in Rows /\ disk[path[i]] = None /\ tagged[i] = None
Gone(i) == i \in Rows /\ disk[path[i]] = None
Prune(i) ==
    /\ Idle
    /\ Gone(i)
    /\ path' = [path EXCEPT ![i] = None]
    /\ Mark("prune")
    /\ UNCHANGED <<disk, trash, tagged, entries, op, given>>

\* Another program, ComfyUI for one, saves a new file under a free name, which
\* may be that of a row whose file is away.
Save(p, a) ==
    /\ CanSpend("save")
    /\ left' = [left EXCEPT !["save"] = @ - 1, !["any"] = @ - 1,
                           !["race"] = IF Indexed(p) THEN 0 ELSE @]
    /\ disk[p] = None /\ a \notin OnDisk \cup InTrash \cup given
    /\ disk' = [disk EXCEPT ![p] = a]
    /\ UNCHANGED <<trash, rowVars, entries, op, given>>

\* The user tags the asset a row describes, while nothing is happening to it.
Tag(i) ==
    /\ Idle
    /\ Spend("tag")
    /\ i \in Rows /\ disk[path[i]] # None
    /\ tagged' = [tagged EXCEPT ![i] = disk[path[i]]]
    /\ UNCHANGED <<disk, trash, path, entries, op, given>>

Crash ==
    /\ Busy /\ Spend("crash")
    /\ op' = [c \in Caller |-> NoOp]
    /\ UNCHANGED <<disk, trash, rowVars, entries, given>>

-----------------------------------------------------------------------------
Finish(c) ==
    \/ RelocateFile(c) \/ RelocateRow(c)
    \/ TrashFile(c) \/ AddEntry(c) \/ DropRow(c) \/ EraseFile(c)
    \/ RestoreFile(c) \/ RestoreRow(c) \/ Forget(c)
    \/ EmptyFiles(c) \/ EmptyRows(c)

Next ==
    \/ \E c \in Caller :
         \/ \E i \in Id, p \in Path : Relocate(c, i, p)
         \/ \E i \in Id : Delete(c, i) \/ Erase(c, i)
         \/ \E t \in Id, p \in Path : Restore(c, t, p)
         \/ \E tids \in SUBSET Id, all \in BOOLEAN : Empty(c, tids, all)
         \/ Finish(c)
    \/ \E p \in Path : ScanAdd(p) \/ \E a \in Asset : Save(p, a)
    \/ \E i \in Id : Prune(i) \/ Tag(i)
    \/ Crash

Spec == Init /\ [][Next]_vars

\* A request runs to its end; the watcher and the user have the library scanned
\* again and again.
FairSpec ==
    /\ Spec
    /\ \A c \in Caller : WF_vars(Finish(c))
    /\ \A p \in Path : WF_vars(Idle /\ ScanAdd(p))
    /\ \A i \in Id : WF_vars(Prune(i))

-----------------------------------------------------------------------------
(* PROPERTIES *)

\* Whatever the requests do side by side, and wherever the process dies, a file
\* in the library or in the trash stays in one of them until a request was told
\* to destroy it: a check of the target that misses a file, or a slot emptied for
\* the wrong entry, loses one.  (Not so when another file appears between a
\* request's look and its step.)
BytesKept ==
    [][Untouched("race")' =>
         OnDisk \cup InTrash \subseteq (OnDisk \cup InTrash \cup given)']_vars

\* "deletions are recoverable via vault_trash_restore" (docs/DECISIONS.md:59-60):
\* between requests, every file in the trash has the entry that can restore it.
DeletionsAreRecoverable ==
    Idle => \A s \in Slot : trash[s] # None => \E t \in Entries : entries[t].slot = s

\* The same while the process lives and no DELETE takes an entry that its request
\* had not read: deletes, restores and sweeps side by side strand no file.
TrashIsRecoverable ==
    Untouched("crash") /\ Untouched("sweep") => DeletionsAreRecoverable

\* Every file in the trash can be restored, until a crash or an emptying beside it
\* (delete, trash_restore, trash_empty); the variables keep their types.
TrashSound == TypeOK /\ TrashIsRecoverable

\* Tags and albums hang on a uid, an id that may be used again; through moves,
\* deletions, restores, scans and new files they stay with the file they were put
\* on, unless requests raced, overwrote, failed or worked on the same row, or a row was
\* pruned.
TagsFollow ==
    Idle /\ (\A k \in {"race", "overwrite", "clash", "overlap", "shared", "prune", "crash"} :
                 Untouched(k))
        => \A i \in Rows : disk[path[i]] # None => tagged[i] \in {None, disk[path[i]]}

\* Whatever requests, races and crashes did to the two, in the end the table
\* describes the disk: each file has a row and each row a file.
VaultHeals == <>[]({path[i] : i \in Rows} = {p \in Path : disk[p] # None})
=============================================================================
