------------------------------- MODULE Config ------------------------------
(***************************************************************************)
(* The configuration: a table of settings, one cached object derived from  *)
(* it that every thread reads, the folders that are scanned, and the table *)
(* the scan keeps of them.  A folder has two numbers: its place in the     *)
(* cached object and its row in the table.                                 *)
(***************************************************************************)
EXTENDS Naturals, Sequences, FiniteSets, Functions

CONSTANTS
    Client,         \* threads that serve requests or scan
    Asks,           \* what they are asked for: [do, ...]
    Looks,          \* what the directories may look like
    Dir,            \* directories that may be given as ComfyUI
    HintsOf(_),     \* the children of a directory with the usual names
    ChildrenOf(_),  \* the children in the order they are listed
    MAX_CHILD_PROBE,
    MaxSaves,       \* bounds of the model
    MaxFailures

VARIABLES
    look,       \* what a directory looks like
    settings,   \* the config table
    cached,     \* the object derived from it, if any
    holder,     \* the thread that holds the lock
    clients,    \* what the threads are doing
    rootRows,   \* the roots table: the row of a folder is its number
    placed,     \* root numbers that moves and deletions recorded
    failures

configVars == <<look, settings, cached, holder, clients, rootRows, placed, failures>>

Kinds == <<"extra_workflows", "extra_outputs", "extra_models">>
Nobody == "nobody"
Resting == [at |-> "idle"]

NoDirs == [k \in Range(Kinds) |-> <<>>]
DEFAULTS == [version |-> 0, home |-> "none", dirs |-> NoDirs]

-----------------------------------------------------------------------------
(* The install behind the directory that was typed *)

looks_like_comfyui(d) == look[d] = "full"
looks_like_comfyui_data(d) == look[d] = "data"

\* The first of a sequence that passes, if any does.
FirstWith(s, Test(_)) == {s[i] : i \in {k \in DOMAIN s :
                            Test(s[k]) /\ \A j \in 1..(k - 1) : ~Test(s[j])}}

Probed(d) == SubSeq(ChildrenOf(d), 1,
                IF Len(ChildrenOf(d)) < MAX_CHILD_PROBE THEN Len(ChildrenOf(d))
                ELSE MAX_CHILD_PROBE)

\* A child with a usual name, then any install, then any data folder.
Inside(d) ==
    LET hinted == FirstWith(HintsOf(d), looks_like_comfyui)
        install == FirstWith(Probed(d), looks_like_comfyui)
        data == FirstWith(Probed(d), looks_like_comfyui_data)
    IN  IF hinted # {} THEN hinted ELSE IF install # {} THEN install ELSE data

resolve_comfyui_dir(d) ==
    IF looks_like_comfyui(d) \/ looks_like_comfyui_data(d) \/ Inside(d) = {} THEN d
    ELSE CHOOSE p \in Inside(d) : TRUE

-----------------------------------------------------------------------------
(* The folders that are scanned *)

Once(s) == SelectSeq([i \in DOMAIN s |-> [path |-> s[i], at |-> i]],
              LAMBDA e : \A j \in 1..(e.at - 1) : s[j] # e.path)

\* A folder that is listed under two kinds is a root of the first.
compute_roots(v) ==
    LET listed == (IF v.home = "none" THEN <<>> ELSE <<v.home>>)
                     \o v.dirs["extra_workflows"] \o v.dirs["extra_outputs"]
                     \o v.dirs["extra_models"] \o <<"data">>
    IN  [i \in DOMAIN Once(listed) |-> Once(listed)[i].path]

build(v) == [values |-> v, roots |-> compute_roots(v)]
None == [values |-> DEFAULTS, roots |-> <<>>]

Init ==
    /\ look \in Looks
    /\ settings = [version |-> 1, home |-> resolve_comfyui_dir(CHOOSE d \in Dir : TRUE),
                   dirs |-> NoDirs]
    /\ cached = None
    /\ holder = Nobody
    /\ clients = [c \in Client |-> Resting]
    /\ rootRows = <<>>
    /\ placed = {}
    /\ failures = 0

-----------------------------------------------------------------------------
(* get_config, set_config *)

Ask(c) ==
    /\ clients[c] = Resting
    /\ \E o \in Asks :
          clients' = [clients EXCEPT ![c] = [at |-> "get", op |-> o, cfg |-> None, wrote |-> 0]]
    /\ UNCHANGED <<look, settings, cached, holder, rootRows, placed, failures>>

Asked(c) == clients[c] # Resting /\ clients[c].at \in {"get", "again"}

\* With its configuration a thread goes on, or a saving is answered.
Given(c, cfg) ==
    clients' = [clients EXCEPT ![c] =
        [@ EXCEPT !.at = IF clients[c].wrote = 0 THEN "decide" ELSE "saved", !.cfg = cfg]]

\* get_config: the cached object is there.
Cached(c) ==
    /\ Asked(c) /\ holder = Nobody /\ cached # None
    /\ Given(c, cached)
    /\ UNCHANGED <<look, settings, cached, holder, rootRows, placed, failures>>

\* It is not: the table is read under the lock; what cannot be read has defaults.
Load(c) ==
    /\ Asked(c) /\ holder = Nobody /\ cached = None
    /\ holder' = c
    /\ \E v \in {settings, DEFAULTS} :
          /\ v = DEFAULTS => failures < MaxFailures
          /\ failures' = failures + (IF v = DEFAULTS THEN 1 ELSE 0)
          /\ clients' = [clients EXCEPT ![c].at = "load", ![c].cfg = build(v)]
    /\ UNCHANGED <<look, settings, cached, rootRows, placed>>

Keep(c) ==
    /\ clients[c] # Resting /\ clients[c].at = "load"
    /\ cached' = clients[c].cfg
    /\ holder' = Nobody
    /\ Given(c, clients[c].cfg)
    /\ UNCHANGED <<look, settings, rootRows, placed, failures>>

\* The folders of a kind, as the thread's configuration has them, with a patch.
Patched(c, kind, folders) ==
    [at |-> "write", op |-> clients[c].op, cfg |-> clients[c].cfg, wrote |-> 0,
     patch |-> [home |-> "none", kind |-> kind, folders |-> folders]]

KindOf(v, f) == CHOOSE k \in Range(Kinds) : f \in Range(v.dirs[k]) /\
    \A i \in DOMAIN Kinds : \A j \in 1..(i - 1) :
        Kinds[i] = k => f \notin Range(v.dirs[Kinds[j]])

ByHand(v, f) == \E k \in Range(Kinds) : f \in Range(v.dirs[k])

\* add_root: refused if the folder is a root by now.
AddRoot(c, op, cfg) ==
    clients' = [clients EXCEPT ![c] =
        IF op.folder \in Range(cfg.roots) THEN Resting
        ELSE Patched(c, op.kind, Append(cfg.values.dirs[op.kind], op.folder))]

\* delete_root: the number is the place in the configuration of now.
DeleteRoot(c, op, cfg) ==
    clients' = [clients EXCEPT ![c] =
        IF op.id \notin DOMAIN cfg.roots THEN Resting
        ELSE IF ~ByHand(cfg.values, cfg.roots[op.id]) THEN Resting
        ELSE LET f == cfg.roots[op.id]
                 k == KindOf(cfg.values, f)
             IN  Patched(c, k, SelectSeq(cfg.values.dirs[k], LAMBDA g : g # f))]

\* patch_config, wizard_complete: the install is stored, not what was typed.
Complete(c, op) ==
    clients' = [clients EXCEPT ![c] =
        [at |-> "write", op |-> op, cfg |-> @.cfg, wrote |-> 0,
         patch |-> [home |-> resolve_comfyui_dir(op.typed), kind |-> "none", folders |-> <<>>]]]

Decide(c) ==
    /\ clients[c] # Resting /\ clients[c].at = "decide"
    /\ LET op == clients[c].op
           cfg == clients[c].cfg
       IN  \/ op.do = "add" /\ AddRoot(c, op, cfg) /\ UNCHANGED placed
           \/ op.do = "remove" /\ DeleteRoot(c, op, cfg) /\ UNCHANGED placed
           \/ op.do = "complete" /\ Complete(c, op) /\ UNCHANGED placed
           \/ /\ op.do \in {"move", "trash"}
              /\ clients' = [clients EXCEPT ![c] = Resting]
              /\ placed' = IF /\ op.id \in DOMAIN cfg.roots
                              /\ op.do = "move" => op.id \in DOMAIN rootRows
                              /\ op.do = "trash" => cfg.roots[op.id] \in Range(rootRows)
                           THEN placed \cup {[root |-> cfg.roots[op.id], id |-> op.id]}
                           ELSE placed
           \/ /\ op.do = "scan"
              /\ clients' = [clients EXCEPT ![c].at = "upsert"]
              /\ UNCHANGED placed
    /\ UNCHANGED <<look, settings, cached, holder, rootRows, failures>>

\* write_raw
Write(c) ==
    /\ clients[c] # Resting /\ clients[c].at = "write" /\ settings.version <= MaxSaves
    /\ LET p == clients[c].patch
       IN  settings' = [version |-> settings.version + 1,
                        home |-> IF p.home = "none" THEN settings.home ELSE p.home,
                        dirs |-> [k \in Range(Kinds) |->
                                    IF k = p.kind THEN p.folders ELSE settings.dirs[k]]]
    /\ clients' = [clients EXCEPT ![c] = [at |-> "drop", op |-> @.op, cfg |-> None,
                                         wrote |-> settings.version + 1]]
    /\ UNCHANGED <<look, cached, holder, rootRows, placed, failures>>

\* mutant of MayDrop: the cache is emptied without the lock
MayDropAnyway == TRUE

\* The cache is emptied under the lock.
MayDrop == holder = Nobody

Drop(c) ==
    /\ clients[c] # Resting /\ clients[c].at = "drop" /\ MayDrop
    /\ cached' = None
    /\ clients' = [clients EXCEPT ![c] =
         IF @.op.do = "scan" THEN Resting ELSE [@ EXCEPT !.at = "again"]]
    /\ UNCHANGED <<look, settings, holder, rootRows, placed, failures>>

Saved(c) ==
    /\ clients[c] # Resting /\ clients[c].at = "saved"
    /\ clients' = [clients EXCEPT ![c] = Resting]
    /\ UNCHANGED <<look, settings, cached, holder, rootRows, placed, failures>>

\* The scan's phase 0: new folders get the next rows; a folder that is not
\* configured any more keeps its row.
Upsert(c) ==
    /\ clients[c] # Resting /\ clients[c].at = "upsert"
    /\ rootRows' = rootRows \o SelectSeq(clients[c].cfg.roots,
                                         LAMBDA r : r \notin Range(rootRows))
    /\ clients' = [clients EXCEPT ![c].at = "drop"]
    /\ UNCHANGED <<look, settings, cached, holder, placed, failures>>

Next == \E c \in Client :
    \/ Ask(c) \/ Cached(c) \/ Load(c) \/ Keep(c) \/ Decide(c) \/ Write(c)
    \/ Drop(c) \/ Saved(c) \/ Upsert(c)

Spec == Init /\ [][Next]_configVars

-----------------------------------------------------------------------------
\* While no saving and no loading is under way the cached object is the one the
\* table gives, and what a saving returns is not older than what it saved,
\* unless the table could not be read (config_service.py get_config, set_config).
ConfigCurrent ==
    /\ holder = Nobody /\ cached # None /\ cached.values # DEFAULTS
       /\ (\A c \in Client : clients[c] # Resting => clients[c].at # "drop")
       => cached = build(settings)
    /\ \A c \in Client :
          clients[c] # Resting /\ clients[c].at = "saved" /\ clients[c].cfg.values # DEFAULTS
          => clients[c].cfg.values.version >= clients[c].wrote

\* What is stored for ComfyUI is an install if one is behind what was typed, and
\* is what it is resolved to again (config_service.py resolve_comfyui_dir).
InstallFound ==
    \A d \in Dir :
        LET p == resolve_comfyui_dir(d)
        IN  /\ resolve_comfyui_dir(p) = p
            /\ look[d] = "other" /\ (\E q \in Range(Probed(d)) : look[q] = "full")
               => look[p] = "full"

\* A root number that is shown with a folder and recorded for a file names that
\* folder in the table in which moves and restores look it up (FileOpsModal.jsx
\* MoveDialog, file_ops.py move, _to_trash, _root_path).
RootsHaveOneNumber ==
    \A p \in placed : p.id \in DOMAIN rootRows => rootRows[p.id] = p.root
=============================================================================
