---------------------------- MODULE ModelFolder ----------------------------
(***************************************************************************)
(* What the fetcher promises about the folders ComfyUI loads models from   *)
(* (docs/API_CONTRACT.md, "Verify, then place" and "Never overwrite"): the *)
(* vault adds a file only under a free name and only as the whole of a     *)
(* published version.  Files of other origin come and go by themselves.    *)
(***************************************************************************)
EXTENDS Naturals, Sequences

CONSTANTS
    Path,      \* names in the model folder
    Version,   \* versions a source has published
    Length,    \* the length of each version, in chunks
    NoFile,    \* nothing has this name
    Foreign    \* the content of a file the vault did not write

VARIABLE files

\* The bytes of a version; two versions share no chunk.
Whole(v) == [i \in 1 .. Length[v] |-> v]

Init == files \in [Path -> {NoFile, Foreign}]

Place(p) ==
    /\ files[p] = NoFile
    /\ \E v \in Version : files' = [files EXCEPT ![p] = Whole(v)]

Appear(p) ==
    /\ files[p] = NoFile
    /\ files' = [files EXCEPT ![p] = Foreign]

Vanish(p) ==
    /\ files[p] # NoFile
    /\ files' = [files EXCEPT ![p] = NoFile]

Next == \E p \in Path : Place(p) \/ Appear(p) \/ Vanish(p)

Spec == Init /\ [][Next]_files
=============================================================================
