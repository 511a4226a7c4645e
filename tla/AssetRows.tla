----------------------------- MODULE AssetRows -----------------------------
(***************************************************************************)
(* What a scan writes for one file: how each content phase (models, nodes, *)
(* workflows, outputs) decides to look at it again, what the analysis      *)
(* makes of it, and what the upsert leaves of the row and the rows under   *)
(* it.  Indexer has the order and the interleavings of these steps; here   *)
(* the scan of one asset is one step.                                      *)
(*                                                                         *)
(* Abstractions.  A file has a stamp (size and mtime, the fingerprint),    *)
(* the names it holds (a package's classes by language, a workflow's node  *)
(* types and references, an output's models) and whether it is whole.      *)
(* What lies beside it is outside its fingerprint.  The columns filled     *)
(* from the analysis are stamp, names, status and side.                    *)
(***************************************************************************)
EXTENDS Naturals, FiniteSets

CONSTANTS
    Asset,
    KindOf,         \* "model", "node", "workflow" or "output"
    Name,
    Registered,     \* the names the package registry knows of a node package
    MaxStamp        \* bound of the versions of a file

VARIABLES
    file,           \* [stamp, py, js: SUBSET Name, whole]
    beside,         \* a preview or sidecar of a model, the .disabled marker of a package
    row,            \* the rows of each asset
    entered         \* the rating, note and tags its user has entered

assetVars == <<file, beside, row, entered>>

NoRow == [stamp |-> 0]
HasRow(a) == row[a] # NoRow

Files == [stamp : 1..MaxStamp, py : SUBSET Name, js : SUBSET Name, whole : BOOLEAN]

\* Only a node package has names in two languages.
Sensible(a, f) == KindOf[a] # "node" => f.js = {}

Init ==
    /\ file \in [Asset -> [stamp : {1}, py : {{}, Name}, js : {{}}, whole : {TRUE}]]
    /\ beside = [a \in Asset |-> FALSE]
    /\ row = [a \in Asset |-> NoRow]
    /\ entered = [a \in Asset |-> 0]

-----------------------------------------------------------------------------
(* The analyses.                                                           *)

\* A model's header; the row is written whatever it is.
ModelParsed(f) == [names |-> {}, status |-> IF f.whole THEN "ok" ELSE "invalid_header"]

\* A package's classes: from Python (a file that does not parse has none), from its
\* JavaScript, from the registry.
ExtractionStatus(f, found, names) ==
    IF names = {} THEN "no_classes_found"
    ELSE IF found = {} THEN "registry_only"
    ELSE IF ~f.whole THEN "partial" ELSE "ok"

Extracted(f) == (IF f.whole THEN f.py ELSE {}) \cup f.js

PackageParsed(f) ==
    LET names == Extracted(f) \cup Registered
    IN  [names |-> names, status |-> ExtractionStatus(f, Extracted(f), names)]

WorkflowParsed(f) == [names |-> f.py, status |-> "ok"]

\* A media file that cannot be read gets a row without references.
OutputParsed(f) ==
    [names |-> IF f.whole THEN f.py ELSE {},
     status |-> IF f.whole THEN "ok" ELSE "unreadable"]

Parsed(a) ==
    CASE KindOf[a] = "model"    -> ModelParsed(file[a])
      [] KindOf[a] = "node"     -> PackageParsed(file[a])
      [] KindOf[a] = "workflow" -> WorkflowParsed(file[a])
      [] KindOf[a] = "output"   -> OutputParsed(file[a])

\* A JSON file that is no workflow is not collected, or dropped before the upsert.
Collected(a) == KindOf[a] = "workflow" => file[a].whole

\* Known by the same fingerprint: skipped unless the scan is forced.
Known(a) == HasRow(a) /\ row[a].stamp = file[a].stamp

-----------------------------------------------------------------------------
(* The upserts.  old is what the tables hold, NoRow for nothing.           *)

Base(a, names, hash) ==
    [stamp |-> file[a].stamp, names |-> names, status |-> Parsed(a).status,
     side |-> beside[a], hash |-> hash,
     user |-> IF HasRow(a) THEN row[a].user ELSE 0]

Hash(a) == IF HasRow(a) THEN row[a].hash ELSE [state |-> "unhashed", of |-> 0]

\* models: a done digest of another fingerprint becomes stale.
UpsertModel(a) ==
    Base(a, {},
         IF Hash(a).state = "done" /\ row[a].stamp # file[a].stamp
         THEN [Hash(a) EXCEPT !.state = "stale"] ELSE Hash(a))

\* nodes: classes are inserted or updated, then those not found this time deleted.
PackageAccumulates(a) ==                              \* mutant of UpsertPackage
    Base(a, Parsed(a).names \cup (IF HasRow(a) THEN row[a].names ELSE {}), Hash(a))
UpsertPackage(a) ==
    LET inserted == Parsed(a).names \cup (IF HasRow(a) THEN row[a].names ELSE {})
        keep     == Parsed(a).names
    IN  Base(a, IF keep # {} THEN inserted \cap keep ELSE {}, Hash(a))

\* workflows: node types and dependencies are deleted, then inserted.
UpsertWorkflow(a) == Base(a, Parsed(a).names, Hash(a))

\* outputs: the same, but only if there is something to insert.
UpsertOutput(a) ==
    LET found == Parsed(a).names
    IN  Base(a, IF found = {} /\ HasRow(a) THEN row[a].names ELSE found, Hash(a))

Upsert(a) ==
    CASE KindOf[a] = "model"    -> UpsertModel(a)
      [] KindOf[a] = "node"     -> UpsertPackage(a)
      [] KindOf[a] = "workflow" -> UpsertWorkflow(a)
      [] KindOf[a] = "output"   -> UpsertOutput(a)

ScanAsset(a, force) ==
    /\ Collected(a)
    /\ force \/ ~Known(a)
    /\ row' = [row EXCEPT ![a] = Upsert(a)]
    /\ UNCHANGED <<file, beside, entered>>

-----------------------------------------------------------------------------
(* Around the scan.                                                        *)

Edit(a) ==
    /\ \E f \in Files :
        /\ f.stamp = file[a].stamp + 1 /\ Sensible(a, f)
        /\ file' = [file EXCEPT ![a] = f]
    /\ UNCHANGED <<beside, row, entered>>

PlaceBeside(a) ==
    /\ KindOf[a] \in {"model", "node"}
    /\ beside' = [beside EXCEPT ![a] = ~@]
    /\ UNCHANGED <<file, row, entered>>

\* The hashing queue finishes with the digest of the bytes it finds.
HashModel(a) ==
    /\ KindOf[a] = "model" /\ HasRow(a)
    /\ row' = [row EXCEPT ![a].hash = [state |-> "done", of |-> file[a].stamp]]
    /\ UNCHANGED <<file, beside, entered>>

Rate(a) ==
    /\ HasRow(a) /\ entered[a] = 0
    /\ row' = [row EXCEPT ![a].user = 1]
    /\ entered' = [entered EXCEPT ![a] = 1]
    /\ UNCHANGED <<file, beside>>

Step(a) ==
    \/ \E force \in BOOLEAN : ScanAsset(a, force)
    \/ Edit(a) \/ PlaceBeside(a) \/ HashModel(a) \/ Rate(a)

Next == \E a \in Asset : Step(a)

-----------------------------------------------------------------------------
\* However a row came about, while it carries the file's fingerprint it is the row a
\* scan of an empty database would write for that file: nothing of older versions is
\* left in it or under it, its digest is not of other bytes, and what the user entered
\* is kept.  Two exceptions are the code's: an output whose new version names no model
\* keeps the models of its old one, and what lies beside a file is only looked at again
\* when the file changes or the scan is forced.
ReindexExact ==
    \A a \in Asset : HasRow(a) =>
        /\ row[a].user = entered[a]
        /\ row[a].stamp = file[a].stamp =>
            /\ row[a].status = Parsed(a).status
            /\ \/ row[a].names = Parsed(a).names
               \/ KindOf[a] = "output" /\ Parsed(a).names = {}
            /\ row[a].hash.state = "done" => row[a].hash.of = file[a].stamp
=============================================================================
