------------------------------ MODULE Indexer ------------------------------
(***************************************************************************)
(* The scan (backend/app/indexing): one thread walks the folders phase by  *)
(* phase and brings the tables up to date with a disk that changes while   *)
(* it looks, then derives links and search documents from the tables, then *)
(* flags the rows whose files are gone.                                    *)
(*                                                                         *)
(* A read, a parse of all work items of a phase, a transaction are each a  *)
(* step; files, drives, users and the watcher act between any two.         *)
(*                                                                         *)
(* Abstractions.  A file is its version, 0 when it is absent; a version    *)
(* stands for content, size and mtime at once, so it is also the           *)
(* fingerprint.  One row stands for a file's rows in all its tables.       *)
(* Batches of 256 are one transaction unless the scan is cancelled; the    *)
(* worker processes and their fallback to threads compute the same.        *)
(* Parser versions, counters, events and error rows are left out.          *)
(***************************************************************************)
EXTENDS Naturals

CONSTANTS
    File,        \* paths
    Root,        \* configured roots
    RootOf,      \* the root a path lies in
    PhaseOf,     \* the content phase that collects a path
    Watching,    \* watch_enabled
    Partial,     \* the sets of phases users ask to scan by themselves
    Budget       \* how often each kind of outside event may happen

Kind == {"any", "write", "remove", "unplug", "scan", "cancel", "fault", "restart", "expire"}

\* The phases that look at the disk; roots runs before them and links, index and
\* prune after them, in every scan.
Content == {"models", "nodes", "workflows", "outputs"}

ASSUME IndexerOK ==
    /\ RootOf \in [File -> Root] /\ PhaseOf \in [File -> Content]
    /\ Watching \in BOOLEAN
    /\ Partial \subseteq SUBSET Content
    /\ Budget \in [Kind -> Nat]

VARIABLES
    disk, made,      \* the version at each path, and the last one ever made there
    up,              \* the drives that can be reached
    fp, parsed,      \* a row's fingerprint and the content it was parsed from (0: no row)
    missing,         \* missing_since: "no", "recent", "expired" (past the retention)
    available,       \* roots.available
    linked, docs,    \* what the links and the search documents were derived from
    relink,          \* app_config.needs_relink
    jobs, job,       \* scan_jobs.status of the last two jobs; self._job_id
    scan,            \* the scan thread: [pc |-> "off"] or its position and locals
    cancelSet,       \* the jobs whose cancel event is set
    canceller,       \* cancel() after its checks: FALSE or TRUE
    left,            \* what remains of Budget
    lapse            \* a derivation that was due was dropped (see DerivedCurrent)

diskVars  == <<disk, made, up>>
rowVars   == <<fp, parsed, missing>>
jobVars   == <<jobs, job>>
tableVars == <<rowVars, available, linked, docs, relink>>
vars == <<diskVars, tableVars, jobVars, scan, cancelSet, canceller, left, lapse>>

-----------------------------------------------------------------------------
Off == [pc |-> "off"]
Alive == scan.pc # "off"          \* running()
Cancelled == scan.job \in cancelSet

\* The phases of a scan of the content phases kinds, and their order.
Steps(kinds) == {"roots", "links", "index", "prune"} \cup kinds
Order == [roots |-> 1, models |-> 2, nodes |-> 3, workflows |-> 4, outputs |-> 5,
          links |-> 6, index |-> 7, prune |-> 8]

\* The phase the scan is in or will begin next, and the place where it goes on after it.
Current(phase) ==
    phase \in scan.todo /\ \A other \in scan.todo : Order[phase] <= Order[other]

NoWork == [f \in {} |-> 0]

After(phase) ==
    [scan EXCEPT !.pc = IF scan.todo = {phase} THEN "finish" ELSE "phase",
                 !.todo = @ \ {phase}, !.work = NoWork]

At(phase) == scan.pc = "phase" /\ Current(phase) /\ ~Cancelled

Spend(k) == left[k] > 0 /\ left["any"] > 0 /\ left' = [left EXCEPT ![k] = @ - 1, !["any"] = @ - 1]

Init ==
    /\ disk = [f \in File |-> 1] /\ made = disk
    /\ up = Root
    /\ fp = [f \in File |-> 0] /\ parsed = fp
    /\ missing = [f \in File |-> "no"]
    /\ available = {}
    /\ linked = fp /\ docs = fp
    /\ relink = FALSE
    /\ jobs = [j \in {0, 1} |-> "none"] /\ job = 0
    /\ scan = Off
    /\ cancelSet = {} /\ canceller = FALSE
    /\ left = Budget
    /\ lapse = FALSE

-----------------------------------------------------------------------------
(* start(), under self._lock: one scan at a time.                          *)

Started(kinds, force) ==
    /\ ~Alive
    /\ job' = 1 - job
    /\ jobs' = [jobs EXCEPT ![job'] = "running"]
    /\ cancelSet' = cancelSet \ {job'}
    /\ scan' = [pc |-> "phase", job |-> job', todo |-> Steps(kinds),
                force |-> force, work |-> NoWork, wrote |-> FALSE,
                derived |-> TRUE, gone |-> {}, back |-> {},
                dirty |-> FALSE, status |-> "completed",
                whole |-> kinds = Content, away |-> Root \ up, quiet |-> TRUE]
    /\ UNCHANGED <<diskVars, rowVars, available, linked, docs, relink,
                   canceller, lapse>>

\* A user's scan: incremental, full, or of some phases.
StartScan ==
    /\ Spend("scan")
    /\ \/ Started(Content, FALSE)
       \/ Started(Content, TRUE)
       \/ \E kinds \in Partial : Started(kinds, FALSE)

\* The watcher's tick and the rescan after a fetch: an incremental scan, unless one runs.
WatchTick == Watching /\ Started(Content, FALSE) /\ UNCHANGED left

\* cancel(): its checks, and later the event self._cancel refers to by then.
Cancel ==
    /\ Alive /\ ~canceller
    /\ Spend("cancel")
    /\ canceller' = TRUE
    /\ UNCHANGED <<diskVars, tableVars, jobVars, scan, cancelSet, lapse>>

CancelSet ==
    /\ canceller
    /\ canceller' = FALSE
    /\ cancelSet' = cancelSet \cup {job}
    /\ UNCHANGED <<diskVars, tableVars, jobVars, scan, left, lapse>>

-----------------------------------------------------------------------------
(* _run(): the phases.                                                     *)

Roots ==
    /\ At("roots")
    /\ available' = up
    /\ scan' = After("roots")
    /\ UNCHANGED <<diskVars, rowVars, linked, docs, relink, jobVars, cancelSet,
                   canceller, left, lapse>>

\* What a content phase finds on the disk and does not know by that fingerprint.
Found(p) == {f \in File : PhaseOf[f] = p /\ RootOf[f] \in up /\ disk[f] > 0}
WorkOfNewNames(p) == {f \in Found(p) : scan.force \/ fp[f] = 0}     \* mutant of Work
Work(p)  == {f \in Found(p) : scan.force \/ fp[f] # disk[f]}

Walk(p) ==
    /\ At(p)
    /\ scan' = IF Work(p) = {} THEN After(p)
               ELSE [scan EXCEPT !.pc = "parse",
                                 !.work = [f \in Work(p) |-> [fp |-> disk[f], parsed |-> 0]]]
    /\ UNCHANGED <<diskVars, tableVars, jobVars, cancelSet, canceller, left, lapse>>

\* What an analysis of f reads now: 0 when it cannot be read.
Readable(f) == IF RootOf[f] \in up THEN disk[f] ELSE 0

\* Each item is read and analysed; a workflow that cannot be read is dropped, and
\* after a cancel so is any item not yet begun.
Parse ==
    /\ scan.pc = "parse"
    /\ \E items \in SUBSET DOMAIN scan.work :
        /\ Cancelled \/ items = DOMAIN scan.work
        /\ LET ready == {f \in items : PhaseOf[f] = "workflows" => Readable(f) > 0}
           IN  scan' = [scan EXCEPT !.pc = "commit",
                            !.work = [f \in ready |-> [@[f] EXCEPT !.parsed = Readable(f)]],
                            !.wrote = @ \/ ready # {}]
    /\ UNCHANGED <<diskVars, tableVars, jobVars, cancelSet, canceller, left, lapse>>

\* commit_batches: every item in a savepoint of its own.  A failing item leaves its
\* row alone; after a cancel the batches not yet begun are not written.
Written(items) ==
    /\ fp' = [f \in File |-> IF f \in items THEN scan.work[f].fp ELSE fp[f]]
    /\ parsed' = [f \in File |-> IF f \in items THEN scan.work[f].parsed ELSE parsed[f]]
    /\ missing' = [f \in File |-> IF f \in items THEN "no" ELSE missing[f]]

Commit(p) ==
    /\ scan.pc = "commit" /\ Current(p)
    /\ \/ /\ \E items \in SUBSET DOMAIN scan.work :
                /\ Cancelled \/ items = DOMAIN scan.work
                /\ Written(items)
          /\ scan' = After(p)
          /\ UNCHANGED left
       \/ /\ \E f \in DOMAIN scan.work : Written(DOMAIN scan.work \ {f})
          /\ scan' = [After(p) EXCEPT !.quiet = FALSE]
          /\ Spend("fault")
    /\ UNCHANGED <<diskVars, available, linked, docs, relink, jobVars, cancelSet,
                   canceller, lapse>>

\* _needs_relink: something was written, or an earlier prune asked for it.
RelinkAfterWrites == scan.force \/ scan.wrote        \* mutant of NeedsRelink
NeedsRelink == scan.force \/ scan.wrote \/ relink

\* The links see rows that are not missing; the documents are built for every row.
LinkView(f) == IF missing[f] = "no" THEN parsed[f] ELSE 0

Links ==
    /\ At("links")
    /\ \/ /\ NeedsRelink
          /\ linked' = [f \in File |-> LinkView(f)]
          /\ scan' = After("links")
          /\ UNCHANGED left
       \/ /\ NeedsRelink
          /\ scan' = [After("links") EXCEPT !.derived = FALSE]
          /\ Spend("fault")
          /\ UNCHANGED linked
       \/ /\ ~NeedsRelink
          /\ scan' = After("links")
          /\ UNCHANGED <<linked, left>>
    /\ UNCHANGED <<diskVars, rowVars, available, docs, relink, jobVars, cancelSet,
                   canceller, lapse>>

\* One step here; SearchSync takes it apart.
Index ==
    /\ At("index")
    /\ docs' = IF NeedsRelink THEN parsed ELSE docs
    /\ scan' = After("index")
    /\ UNCHANGED <<diskVars, rowVars, available, linked, relink, jobVars, cancelSet,
                   canceller, left, lapse>>

\* prune: first the rows on available roots, and all node packages, are compared with
\* the disk ...
OnDisk(f)  == RootOf[f] \in up /\ disk[f] > 0
CheckedAnywhere(f) == fp[f] > 0                      \* mutant of Checked
Checked(f) == fp[f] > 0 /\ (PhaseOf[f] = "nodes" \/ RootOf[f] \in available)

Gone(f) == Checked(f) /\ ~OnDisk(f) /\ missing[f] = "no"
BackNever(f) == FALSE                                \* mutant of Back
Back(f) == Checked(f) /\ OnDisk(f) /\ missing[f] # "no"

PruneRead ==
    /\ At("prune")
    /\ scan' = [scan EXCEPT !.pc = "prune",
                    !.gone = {f \in File : Gone(f)}, !.back = {f \in File : Back(f)}]
    /\ UNCHANGED <<diskVars, tableVars, jobVars, cancelSet, canceller, left, lapse>>

\* ... then flags are set and cleared, and every row past the retention is deleted ...
PruneWrite ==
    /\ scan.pc = "prune"
    /\ LET flag(f)  == IF f \in scan.gone THEN "recent"
                       ELSE IF f \in scan.back THEN "no" ELSE missing[f]
           purged   == {f \in File : flag(f) = "expired"}
       IN  /\ missing' = [f \in File |-> IF f \in purged THEN "no" ELSE flag(f)]
           /\ fp' = [f \in File |-> IF f \in purged THEN 0 ELSE fp[f]]
           /\ parsed' = [f \in File |-> IF f \in purged THEN 0 ELSE parsed[f]]
           /\ scan' = [scan EXCEPT !.pc = "flag",
                            !.dirty = scan.gone \cup scan.back \cup purged # {}]
    /\ UNCHANGED <<diskVars, available, linked, docs, relink, jobVars, cancelSet,
                   canceller, left, lapse>>

\* ... then the next scan is told whether it must link and index.
PruneFlag ==
    /\ scan.pc = "flag"
    /\ relink' = scan.dirty
    /\ lapse' = (lapse \/ (~scan.derived /\ ~scan.dirty))
    /\ scan' = After("prune")
    /\ UNCHANGED <<diskVars, rowVars, available, linked, docs, jobVars, cancelSet,
                   canceller, left>>

\* A cancelled scan stops before its next phase.
StopEarly ==
    /\ scan.pc = "phase" /\ Cancelled
    /\ scan' = [scan EXCEPT !.pc = "finish", !.status = "cancelled"]
    /\ lapse' = (lapse \/ (scan.wrote /\ (~scan.derived \/ "index" \in scan.todo)))
    /\ UNCHANGED <<diskVars, tableVars, jobVars, cancelSet, canceller, left>>

Status == IF Cancelled THEN "cancelled" ELSE scan.status

\* The last update of the job's row; the thread ends after the checkpoint of the log.
Finish ==
    /\ scan.pc = "finish"
    /\ jobs' = [jobs EXCEPT ![scan.job] = Status]
    /\ scan' = [scan EXCEPT !.pc = "end", !.status = Status]
    /\ UNCHANGED <<diskVars, tableVars, job, cancelSet, canceller, left, lapse>>

End ==
    /\ scan.pc = "end"
    /\ scan' = Off
    /\ UNCHANGED <<diskVars, tableVars, jobVars, cancelSet, canceller, left, lapse>>

-----------------------------------------------------------------------------
(* Outside events.                                                         *)

Disturbed == IF Alive THEN [scan EXCEPT !.quiet = FALSE] ELSE scan

WriteFile(f) ==
    /\ Spend("write")
    /\ RootOf[f] \in up
    /\ made' = [made EXCEPT ![f] = @ + 1]
    /\ disk' = [disk EXCEPT ![f] = made'[f]]
    /\ scan' = Disturbed
    /\ UNCHANGED <<up, tableVars, jobVars, cancelSet, canceller, lapse>>

RemoveFile(f) ==
    /\ Spend("remove")
    /\ RootOf[f] \in up /\ disk[f] > 0
    /\ disk' = [disk EXCEPT ![f] = 0]
    /\ scan' = Disturbed
    /\ UNCHANGED <<made, up, tableVars, jobVars, cancelSet, canceller, lapse>>

\* A drive goes away (with what is on it), and comes back.
Unplug(r) ==
    /\ Spend("unplug")
    /\ r \in up
    /\ up' = up \ {r}
    /\ scan' = Disturbed
    /\ UNCHANGED <<disk, made, tableVars, jobVars, cancelSet, canceller, lapse>>

Replug(r) ==
    /\ r \notin up
    /\ up' = up \cup {r}
    /\ scan' = IF Alive THEN [Disturbed EXCEPT !.away = @ \ {r}] ELSE scan
    /\ UNCHANGED <<disk, made, tableVars, jobVars, cancelSet, canceller, left, lapse>>

\* Thirty days pass.
Expire ==
    /\ Spend("expire")
    /\ missing' = [f \in File |-> IF missing[f] = "recent" THEN "expired" ELSE missing[f]]
    /\ UNCHANGED <<diskVars, fp, parsed, available, linked, docs, relink, jobVars, scan,
                   cancelSet, canceller, lapse>>

\* The process ends and starts again: mark_interrupted.
InterruptedNever(was) == was                         \* mutant of Interrupted
Interrupted(was) ==
    [j \in DOMAIN was |-> IF was[j] = "running" THEN "interrupted" ELSE was[j]]

Restart ==
    /\ Spend("restart")
    /\ jobs' = Interrupted(jobs)
    /\ lapse' = (lapse \/ (Alive /\ (scan.wrote \/ scan.dirty)))
    /\ scan' = Off /\ canceller' = FALSE
    /\ UNCHANGED <<diskVars, tableVars, job, cancelSet>>

-----------------------------------------------------------------------------
Scanning ==
    \/ Roots
    \/ \E p \in Content : Walk(p) \/ Commit(p)
    \/ Parse \/ Links \/ Index
    \/ PruneRead \/ PruneWrite \/ PruneFlag \/ StopEarly \/ Finish \/ End

Outside ==
    \/ \E f \in File : WriteFile(f) \/ RemoveFile(f)
    \/ \E r \in Root : Unplug(r) \/ Replug(r)
    \/ Expire \/ Restart

Next ==
    \/ StartScan \/ WatchTick \/ Cancel \/ CancelSet
    \/ Scanning
    \/ Outside

Spec == Init /\ [][Next]_vars

\* The scan thread runs, the watcher ticks, a drive that went away is plugged in again.
FairSpec ==
    /\ Spec
    /\ WF_vars(Scanning)
    /\ WF_vars(WatchTick)
    /\ WF_vars(CancelSet)
    /\ \A r \in Root : WF_vars(Replug(r))

-----------------------------------------------------------------------------
(* Properties.                                                             *)

\* The tables, the job and the scan have their types.
TypeOK ==
    /\ disk \in [File -> Nat] /\ made \in [File -> Nat]
    /\ \A f \in File : disk[f] <= made[f] /\ fp[f] <= made[f] /\ parsed[f] <= made[f]
    /\ up \subseteq Root /\ available \subseteq Root
    /\ missing \in [File -> {"no", "recent", "expired"}]
    /\ \A j \in DOMAIN jobs : jobs[j] \in 
           {"none", "running", "completed", "cancelled", "interrupted"}
    /\ relink \in BOOLEAN
    /\ Alive => scan.job = job

\* scan_jobs has a running row exactly while its thread is before its last update,
\* whatever was cancelled, crashed or started again.
RunningHasThread ==
    \A j \in DOMAIN jobs :
        jobs[j] = "running" <=> (Alive /\ scan.pc # "end" /\ scan.job = j)

\* No scan is forgotten as running and none runs unrecorded (_create_job, _update_job,
\* reconcile of interrupted jobs); the variables keep their types.
JobsSound == TypeOK /\ RunningHasThread

\* The row of f says what is on the disk.  A file that could not be read at the moment
\* of its analysis keeps a row without content (0) under its fingerprint.
Describes(f) ==
    /\ disk[f] > 0 => fp[f] = disk[f] /\ parsed[f] \in {disk[f], 0} /\ missing[f] = "no"
    /\ disk[f] = 0 => fp[f] = 0 \/ missing[f] # "no"

\* A scan of everything that completed while nothing outside changed leaves tables
\* that say what is on the disk: no new version is skipped as known, no file that is
\* gone still shown, no file that came back still flagged.
QuietScanDescribes ==
    /\ scan.pc = "end"
    /\ scan.status = "completed" /\ scan.whole /\ scan.quiet /\ scan.away = {}
    => \A f \in File : Describes(f)

\* Whatever happens on the other drives, a scan leaves the shown rows of a drive alone
\* that was away from its start on (prune.py: "Rows on an unavailable root are left
\* completely untouched").  Node packages are checked wherever they are.
AwayRowsKept ==
    [][\A f \in File :
          Alive /\ RootOf[f] \in scan.away /\ PhaseOf[f] # "nodes" /\ missing[f] = "no"
          => fp'[f] = fp[f] /\ missing'[f] = "no"]_vars

Derived == \A f \in File : linked[f] = LinkView(f) /\ docs[f] = parsed[f]

\* Between scans, unless the next one is told to derive again, links and documents are
\* those of the rows.  lapse marks the scans that were cut off after writing rows (by a
\* cancel, a crash or a failing phase).
DerivedCurrent == ~Alive /\ ~relink /\ ~lapse => Derived

\* With the watcher on, once files and drives stay as they are the tables come to say
\* what is there and stay so, whatever was cancelled, failed or restarted before.
TablesSettle == <>[](\A f \in File : Describes(f))
=============================================================================
