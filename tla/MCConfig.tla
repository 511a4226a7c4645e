------------------------------ MODULE MCConfig ------------------------------
(***************************************************************************)
(* Instance of Config: an installed ComfyUI, one client that scans, adds a *)
(* folder with outputs, moves files and deletes them.                      *)
(***************************************************************************)
EXTENDS Config

CONSTANT c1

Installed == {[d \in Dir |-> "full"]}
Childless(d) == <<>>
Requests == {[do |-> "scan"], [do |-> "add", kind |-> "extra_outputs", folder |-> "outputs"]}
            \cup [do : {"move", "trash"}, id : 1..3]
=============================================================================
