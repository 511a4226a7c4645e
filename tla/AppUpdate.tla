------------------------------ MODULE AppUpdate ----------------------------
(***************************************************************************)
(* The vault's own update: app_update_service stages a release while the   *)
(* engine runs, apply_update.py puts it in place when a start script finds *)
(* its marker, and puts the old files back when it cannot.                 *)
(*                                                                         *)
(* Abstractions.  A tree maps each file to the version it is of, 0 when it *)
(* is absent.  One directory is replaced as a whole, one script beside it  *)
(* as a file.  A download that is refused (offline, too large, the wrong   *)
(* checksum, an unsafe entry) is one that stages nothing.                  *)
(***************************************************************************)
EXTENDS Naturals, Sequences

CONSTANTS
    Downloader,     \* threads that may stage: the startup check, a request
    Latest,         \* versions there may be beside the installed 1
    MaxMishap       \* bound of crashes, interrupts, failing moves and discards

VARIABLES
    live, staged, backup,   \* the trees
    marker,                 \* pending.json: the version staged, 0 when absent
    engine,                 \* "up", "down" or "blocked"
    download,               \* each downloader: [pc, version, todo]
    apply,                  \* apply_update.py: [pc, todo, moved]
    mixed,                  \* something broke the separation the design rests on
    mishaps

updateVars == <<live, staged, backup, marker, engine, download, apply, mixed, mishaps>>

InDir == {"kept", "dropped", "added"}
Files == InDir \cup {"script"}

\* What a release ships; each drops a file and adds one.
Ships(v) == IF v = 1 THEN {"kept", "dropped", "script"}
            ELSE IF v = 2 THEN {"kept", "added", "script"} ELSE {"kept", "script"}
Tree(v) == [f \in Files |-> IF f \in Ships(v) THEN v ELSE 0]
Empty == [f \in Files |-> 0]
In(tree) == {f \in Files : tree[f] # 0}

Quiet == [pc |-> "idle", version |-> 0, todo |-> {}]
NoApply == [pc |-> "none", todo |-> {}, moved |-> <<>>]
Mishap == mishaps < MaxMishap /\ mishaps' = mishaps + 1

Init ==
    /\ live = Tree(1) /\ staged = Empty /\ backup = Empty /\ marker = 0
    /\ engine = "down"
    /\ download = [d \in Downloader |-> Quiet]
    /\ apply = NoApply
    /\ mixed = FALSE /\ mishaps = 0

-----------------------------------------------------------------------------
(* stage(): the stage is emptied, filled file by file, then marked.        *)

Busy == \E d \in Downloader : download[d].pc # "idle"

ResetNot(tree) == tree                                \* mutant of Reset
Reset(tree) == Empty

\* is_newer than the version that runs.
IsNewer(v) == v > live["kept"]

Stage(d, v) ==
    /\ engine = "up" /\ download[d] = Quiet
    /\ IsNewer(v)
    /\ download' = [download EXCEPT ![d] = [pc |-> "unpacking", version |-> v, todo |-> Ships(v)]]
    /\ staged' = Reset(staged)
    \* The marker of an older stage stays while the new one fills up.
    /\ mixed' = (mixed \/ Busy \/ marker # 0)
    /\ UNCHANGED <<live, backup, marker, engine, apply, mishaps>>

Unpack(d, f) ==
    /\ download[d].pc = "unpacking" /\ f \in download[d].todo
    /\ staged' = [staged EXCEPT ![f] = download[d].version]
    /\ download' = [download EXCEPT ![d].todo = @ \ {f}]
    /\ UNCHANGED <<live, backup, marker, engine, apply, mixed, mishaps>>

Mark(d) ==
    /\ download[d].pc = "unpacking" /\ download[d].todo = {}
    /\ marker' = download[d].version
    /\ download' = [download EXCEPT ![d] = Quiet]
    /\ UNCHANGED <<live, staged, backup, engine, apply, mixed, mishaps>>

\* The disk is full, an entry cannot be read: what is unpacked stays, unmarked.
UnpackFails(d) ==
    /\ Mishap
    /\ download[d].pc = "unpacking"
    /\ download' = [download EXCEPT ![d] = Quiet]
    /\ UNCHANGED <<live, staged, backup, marker, engine, apply, mixed>>

Discard ==
    /\ Mishap
    /\ engine = "up"
    /\ staged' = Empty /\ marker' = 0
    /\ mixed' = (mixed \/ Busy)
    /\ UNCHANGED <<live, backup, engine, download, apply>>

-----------------------------------------------------------------------------
(* apply_update.py, run by a start script.                                 *)

\* The scripts apply before they look whether an engine is already serving.
Start ==
    /\ apply = NoApply /\ engine # "blocked"
    /\ apply' = [NoApply EXCEPT !.pc = IF marker # 0 THEN "targets" ELSE "start"]
    /\ mixed' = (mixed \/ (marker # 0 /\ engine = "up"))
    /\ UNCHANGED <<live, staged, backup, marker, engine, download, mishaps>>

\* What the staged tree wants to place; the last backup goes.
Targets ==
    /\ apply.pc = "targets"
    /\ IF In(staged) = {}
       THEN marker' = 0 /\ apply' = [apply EXCEPT !.pc = "start"] /\ UNCHANGED backup
       ELSE /\ backup' = Empty /\ UNCHANGED marker
            /\ apply' = [apply EXCEPT !.pc = IF In(staged) \cap InDir # {} THEN "set dir aside" ELSE "swap",
                                      !.todo = In(staged)]
    /\ UNCHANGED <<live, staged, engine, download, mixed, mishaps>>

Moved(from, to, what) == [f \in Files |-> IF f \in what THEN from[f] ELSE to[f]]
Without(tree, what) == [f \in Files |-> IF f \in what THEN 0 ELSE tree[f]]

\* Each move is recorded before it is tried.
SetAside(what) ==
    /\ backup' = Moved(live, backup, what)
    /\ live' = Without(live, what)

SetDirAside ==
    /\ apply.pc = "set dir aside"
    /\ SetAside(InDir)
    /\ apply' = [apply EXCEPT !.pc = "swap", !.moved = Append(@, InDir)]
    /\ UNCHANGED <<staged, marker, engine, download, mixed, mishaps>>

Swap(f) ==
    /\ apply.pc = "swap" /\ f \in apply.todo
    /\ f \notin InDir /\ live[f] # 0 => {f} \in {apply.moved[i] : i \in 1..Len(apply.moved)}
    /\ live' = [live EXCEPT ![f] = staged[f]]
    /\ staged' = [staged EXCEPT ![f] = 0]
    /\ apply' = [apply EXCEPT !.todo = @ \ {f}]
    /\ UNCHANGED <<backup, marker, engine, download, mixed, mishaps>>

SetFileAside(f) ==
    /\ apply.pc = "swap" /\ f \in apply.todo \ InDir /\ live[f] # 0
    /\ {f} \notin {apply.moved[i] : i \in 1..Len(apply.moved)}
    /\ SetAside({f})
    /\ apply' = [apply EXCEPT !.moved = Append(@, {f})]
    /\ UNCHANGED <<staged, marker, engine, download, mixed, mishaps>>

Applied ==
    /\ apply.pc = "swap" /\ apply.todo = {}
    /\ staged' = Empty /\ marker' = 0
    /\ apply' = [NoApply EXCEPT !.pc = "start"]
    /\ UNCHANGED <<live, backup, engine, download, mixed, mishaps>>

\* A move raises; nothing of it was done.
MoveFails ==
    /\ Mishap
    /\ apply.pc \in {"set dir aside", "swap"}
    /\ apply' = [apply EXCEPT !.pc = "roll back"]
    /\ UNCHANGED <<live, staged, backup, marker, engine, download, mixed>>

\* The newest move is undone first, if there is a backup of it; the directory goes as a
\* whole, with what was already moved into it.
Restored(what) == IF In(backup) \cap what = {} THEN live ELSE Moved(backup, live, what)
RollBack ==
    /\ apply.pc = "roll back" /\ apply.moved # <<>>
    /\ LET what == apply.moved[Len(apply.moved)]
       IN  /\ live' = Restored(what)
           /\ backup' = Without(backup, what)
    /\ apply' = [apply EXCEPT !.moved = SubSeq(@, 1, Len(@) - 1)]
    /\ UNCHANGED <<staged, marker, engine, download, mixed, mishaps>>

RolledBack ==
    /\ apply.pc = "roll back" /\ apply.moved = <<>>
    /\ staged' = Empty /\ marker' = 0
    /\ apply' = [NoApply EXCEPT !.pc = "start"]
    /\ UNCHANGED <<live, backup, engine, download, mixed, mishaps>>

\* Exit code 2: the user is asked to restore by hand; the next start tries again.
RollBackFails ==
    /\ Mishap
    /\ apply.pc = "roll back" /\ apply.moved # <<>>
    /\ apply' = NoApply /\ mixed' = TRUE
    /\ UNCHANGED <<live, staged, backup, marker, engine, download>>

\* The script goes on to the engine, unless one holds the port.
Serve ==
    /\ apply.pc = "start"
    /\ engine' = "up" /\ apply' = NoApply
    /\ UNCHANGED <<live, staged, backup, marker, download, mixed, mishaps>>

\* The engine ends, or is killed, wherever a download is.
Stop ==
    /\ engine = "up"
    /\ engine' = "down"
    /\ download' = [d \in Downloader |-> Quiet]
    /\ UNCHANGED <<live, staged, backup, marker, apply, mixed, mishaps>>

\* Killed, or interrupted (then it exits with 1 and nothing is rolled back): the files are
\* left between two versions, and the next start loses the backup.
Interrupt ==
    /\ Mishap
    /\ apply # NoApply
    /\ mixed' = (mixed \/ apply.pc \in {"swap", "roll back"})
    /\ apply' = NoApply
    /\ UNCHANGED <<live, staged, backup, marker, engine, download>>

Next ==
    \/ \E d \in Downloader :
        \/ \E v \in Latest : Stage(d, v)
        \/ \E f \in Files : Unpack(d, f)
        \/ Mark(d) \/ UnpackFails(d)
    \/ Discard \/ Start \/ Targets \/ SetDirAside \/ Applied
    \/ \E f \in Files : Swap(f) \/ SetFileAside(f)
    \/ MoveFails \/ RollBack \/ RolledBack \/ RollBackFails \/ Serve \/ Stop \/ Interrupt

Spec == Init /\ [][Next]_updateVars

-----------------------------------------------------------------------------
(* Properties.                                                             *)

\* An engine that serves runs the files of exactly one release, whatever downloads were
\* cut off, discarded or repeated and whichever move failed.  The design does not survive:
\* an interrupt or kill of apply_update.py between two moves, a failing roll back, a second
\* start while an engine serves, and a stage begun over a marked one, beside another or
\* beside a discard.
OneRelease ==
    engine = "up" /\ apply = NoApply /\ ~mixed => \E v \in {1} \cup Latest : live = Tree(v)
=============================================================================
