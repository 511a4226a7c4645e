----------------------------- MODULE MCIndexer -----------------------------
(***************************************************************************)
(* Instances of Indexer: a model and a workflow on a drive each.           *)
(***************************************************************************)
EXTENDS Indexer, TLC

CONSTANTS model, workflow, internal, external

Places == (model :> internal) @@ (workflow :> external)
Phases == (model :> "models") @@ (workflow :> "workflows")

JustModels == {{"models"}}

Some(any) == [k \in Kind |-> CASE k = "any" -> any [] k = "scan" -> 2 [] OTHER -> 1]
Three == Some(3)
=============================================================================
