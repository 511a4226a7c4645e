---------------------------- MODULE NodeRegistry ----------------------------
(***************************************************************************)
(* ComfyUI-Manager's map of node classes: one object, loaded once for a    *)
(* ComfyUI root and replaced when another root is asked for, by scans,     *)
(* plans and requests that hold no lock; and the reverse map, which every  *)
(* object shares.                                                          *)
(*                                                                         *)
(* Abstractions.  What a root's files map is the root itself; an answer is *)
(* the set of roots whose map it was looked up in.                         *)
(***************************************************************************)
EXTENDS Naturals

CONSTANTS
    Root,           \* ComfyUI roots a configuration may name
    Managed,        \* those with a ComfyUI-Manager
    Thread,         \* threads that ask
    MaxLook         \* bound of the model

VARIABLES
    root,       \* comfyui_path
    registries, \* the objects made so far: loaded or not, and from where
    held,       \* the global _registry
    heldRoot,   \* the global _registry_root
    reverse,    \* the class attribute _reverse
    threads,    \* where each thread is in get_registry, and what it was told last
    overlap,    \* two threads were in get_registry at once
    looks       \* how often it was asked, bounded

registryVars == <<root, registries, held, heldRoot, reverse, threads, overlap, looks>>

Rest == [at |-> "rest"]
NoRoot == "none"
Fresh == [loaded |-> FALSE, from |-> {}]

Init ==
    /\ root \in Root
    /\ registries = [o \in 1..(MaxLook + 1) |-> Fresh]
    /\ held = 1 /\ heldRoot = NoRoot
    /\ reverse = {}
    /\ threads = [t \in Thread |-> Rest]
    /\ overlap = FALSE
    /\ looks = 0

Ask(t) ==
    /\ threads[t].at = "rest" /\ looks < MaxLook
    /\ looks' = looks + 1
    /\ threads' = [threads EXCEPT ![t] = [at |-> "compare", asks |-> root]]
    /\ overlap' = (overlap \/ \E o \in Thread : threads[o].at # "rest")
    /\ UNCHANGED <<root, registries, held, heldRoot, reverse>>

\* mutant of Outdated: a registry once loaded is kept
OutdatedNever(t) == FALSE
Outdated(t) == registries[held].loaded /\ threads[t].asks # heldRoot

\* get_registry: the roots are compared, ...
Compare(t) ==
    /\ threads[t].at = "compare"
    /\ held' = IF Outdated(t) THEN held + 1 ELSE held
    /\ threads' = [threads EXCEPT ![t].at = "note"]
    /\ UNCHANGED <<root, registries, heldRoot, reverse, overlap, looks>>

\* ... the one asked for is noted, and what is held by then is told to load.
Note(t) ==
    /\ threads[t].at = "note"
    /\ heldRoot' = threads[t].asks
    /\ threads' = [threads EXCEPT ![t] = [at |-> "load", asks |-> threads[t].asks, of |-> held]]
    /\ UNCHANGED <<root, registries, held, reverse, overlap, looks>>

\* load: only the first to come reads, and says so before it does.
Load(t) ==
    /\ threads[t].at = "load"
    /\ LET o == threads[t].of
           reads == ~registries[o].loaded /\ threads[t].asks # NoRoot
       IN  /\ registries' = [registries EXCEPT ![o].loaded = @ \/ reads]
           /\ threads' = [threads EXCEPT ![t].at = IF reads THEN "fill" ELSE "look"]
    /\ UNCHANGED <<root, held, heldRoot, reverse, overlap, looks>>

\* A root without a manager leaves the object empty for good.
Fill(t) ==
    /\ threads[t].at = "fill"
    /\ registries' = [registries EXCEPT ![threads[t].of].from = @ \cup ({threads[t].asks} \cap Managed)]
    /\ threads' = [threads EXCEPT ![t].at = "look"]
    /\ UNCHANGED <<root, held, heldRoot, reverse, overlap, looks>>

Told(t, answer) ==
    threads' = [threads EXCEPT ![t] = [at |-> "rest", asked |-> threads[t].asks, told |-> answer]]

\* lookup, by address or folder.
LookUp(t) ==
    /\ threads[t].at = "look"
    /\ Told(t, registries[threads[t].of].from)
    /\ UNCHANGED <<root, registries, held, heldRoot, reverse, overlap, looks>>

\* package_for_node: built from the first object that has anything.
LookUpClass(t) ==
    /\ threads[t].at = "look"
    /\ reverse' = IF reverse = {} THEN registries[threads[t].of].from ELSE reverse
    /\ threads' = [threads EXCEPT ![t] = [at |-> "rest", class |-> reverse']]
    /\ UNCHANGED <<root, registries, held, heldRoot, overlap, looks>>

\* The ComfyUI path is changed.
Move ==
    /\ root' \in Root \ {root}
    /\ UNCHANGED <<registries, held, heldRoot, reverse, threads, overlap, looks>>

Next ==
    \/ \E t \in Thread : Ask(t) \/ Compare(t) \/ Note(t) \/ Load(t) \/ Fill(t) \/ LookUp(t) \/ LookUpClass(t)
    \/ Move

-----------------------------------------------------------------------------
\* As long as no two threads asked at the same time, an answer comes from the map of the
\* root that was asked about, whatever was asked about before (node_registry.py
\* get_registry: "the cache must be keyed on the root").
OwnRoot ==
    \A t \in Thread :
        ~overlap /\ threads[t].at = "rest" /\ "told" \in DOMAIN threads[t] =>
            threads[t].told = {threads[t].asked} \cap Managed
=============================================================================
