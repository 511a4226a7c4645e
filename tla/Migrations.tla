---------------------------- MODULE Migrations ----------------------------
(***************************************************************************)
(* The schema of the vault and the migrations that make it (core/          *)
(* migrations): eight scripts run in order at startup, each in a           *)
(* transaction that also writes user_version, against databases of any     *)
(* older version, with crashes between any two statements.                 *)
(*                                                                         *)
(* Abstractions.  A table holds one row or none, which refers to the rows  *)
(* of the tables it references; a column, index or view is a feature.      *)
(* Albums are kept one by one, for the third migration rearranges them.    *)
(***************************************************************************)
EXTENDS Naturals, Sequences, FiniteSets

CONSTANTS
    Album,          \* identities of album rows, numbers
    Crashes         \* bound of the crashes

VARIABLES
    db,             \* what is committed
    work,           \* what the connection sees
    legacyFile,     \* the configuration database of the first releases: "none", "there", "aside"
    at,             \* where the runner is: [m |-> migration, i |-> statement, open |-> BOOLEAN]
    state,          \* "down", "migrating", "up" or "refused"
    importCut,      \* a crash came between the renaming of that file and the commit
    crashes

migrationVars == <<db, work, legacyFile, at, state, importCut, crashes>>

SchemaVersion == 8

-----------------------------------------------------------------------------
(* The schema: which rows go, and which references are cleared, when a row *)
(* of another table is deleted.                                            *)

Cascades ==
    {<<"model_files", "models">>, <<"model_files", "roots">>, <<"node_classes", "node_packages">>,
     <<"workflow_nodes", "workflows">>, <<"workflow_dependencies", "workflows">>,
     <<"outputs", "roots">>, <<"output_models", "outputs">>, <<"output_models", "models">>,
     <<"hash_jobs", "model_files">>, <<"scan_errors", "scan_jobs">>, <<"asset_tags", "tags">>}

\* Read with the asset uids of asset_tags, which no constraint ties to their assets.
Tables ==
    {t[1] : t \in Cascades} \cup {t[2] : t \in Cascades} \cup {"config", "trash_items"}

\* A deletion reaches the tables that refer to one, and those that refer to these: no
\* chain of cascades is longer.
With(gone) == gone \cup {t[1] : t \in {x \in Cascades : x[2] \in gone}}
DeletedWith(gone) == With(With(gone))

\* The references that are cleared instead.
Clears ==
    {<<"workflows", "roots">>, <<"workflow_nodes", "node_classes">>,
     <<"workflow_dependencies", "models">>, <<"workflow_dependencies", "node_classes">>,
     <<"outputs", "models">>, <<"outputs", "workflows">>, <<"outputs", "albums">>,
     <<"trash_items", "roots">>}

\* DELETE of the row of a table, or DROP TABLE, which does the same first while
\* foreign_keys is on.
DeleteFrom(d, t) ==
    LET gone == DeletedWith({t})
    IN  [d EXCEPT !.rows = @ \ gone,
                  !.links = {l \in @ : l[1] \notin gone /\ l[2] \notin gone}]

-----------------------------------------------------------------------------
(* The statements of each migration.                                       *)

Create(f) == [op |-> "create", f |-> f]
IfMissing(f) == [op |-> "create if missing", f |-> f]
Do(op) == [op |-> op, f |-> op]

\* m001 is one executescript: it commits what is open and each of its statements.
Initial == <<IfMissing("schema_migrations"), Create("tables"), Create("views")>>
ImportLegacy == <<Do("import config"), Do("set legacy aside")>>
AlbumIdentity == <<Do("merge albums"), IfMissing("album identity")>>
Origin == <<IfMissing("origin")>>
EnableJobs == <<IfMissing("enable_jobs")>>
ProvidedNodes == <<IfMissing("subgraph_count"), IfMissing("registration")>>
CommunityStats == <<Do("drop view"), Create("views")>>
ExtraOutputs ==
    <<Create("roots_new"), Do("copy roots"), Do("drop roots"), Do("rename roots_new")>>

MIGRATIONS ==
    <<Initial, ImportLegacy, AlbumIdentity, Origin, EnableJobs, ProvidedNodes, CommunityStats,
      ExtraOutputs>>

\* What the tables hold after the first v migrations.
FeaturesOf(v) ==
    (IF v >= 1 THEN {"schema_migrations", "tables", "views"} ELSE {})
    \cup (IF v >= 3 THEN {"album identity"} ELSE {}) \cup (IF v >= 4 THEN {"origin"} ELSE {})
    \cup (IF v >= 5 THEN {"enable_jobs"} ELSE {})
    \cup (IF v >= 6 THEN {"subgraph_count", "registration"} ELSE {})

-----------------------------------------------------------------------------
(* m003: every group of albums with one parent and name keeps its lowest   *)
(* id; members and children of the others move to it.                      *)

Key(d, a) == <<d.albums[a].parent, d.albums[a].name>>
Albums(d) == DOMAIN d.albums
Survivor(d, a) ==
    CHOOSE k \in Albums(d) : Key(d, k) = Key(d, a) /\ \A b \in Albums(d) : Key(d, b) = Key(d, a) => k <= b

\* The groups are read once, before any is merged.
Merged(d) ==
    LET up(a) == IF a = 0 THEN 0 ELSE Survivor(d, a)
        kept  == {a \in Albums(d) : Survivor(d, a) = a}
    IN  [d EXCEPT !.albums = [a \in kept |-> [d.albums[a] EXCEPT !.parent = up(@)]],
                  !.items = {<<up(i[1]), i[2]>> : i \in @}]

ByIdentity(d) ==
    \A a, b \in Albums(d) : Key(d, a) = Key(d, b) => a = b

\* Two children of merged parents may have one name: the table's own UNIQUE refuses that.
MergeFails(d) == ~ByIdentity(Merged(d))

-----------------------------------------------------------------------------
(* One statement.  Raises says that it fails, Result what it leaves.       *)

Raises(s, d) ==
    \/ s.op = "create" /\ s.f \in d.features
    \/ s.op = "merge albums" /\ MergeFails(d)
    \/ s.f = "album identity" /\ ~ByIdentity(d)

Result(s, d) ==
    CASE s.op \in {"create", "create if missing"} -> [d EXCEPT !.features = @ \cup {s.f}]
      [] s.op = "import config" -> IF legacyFile = "there" THEN [d EXCEPT !.rows = @ \cup {"config"}] ELSE d
      [] s.op = "set legacy aside" -> d
      [] s.op = "merge albums" -> Merged(d)
      [] s.op = "drop view" -> [d EXCEPT !.features = @ \ {"views"}]
      [] s.op = "copy roots" ->
            [d EXCEPT !.rows = IF "roots" \in @ THEN @ \cup {"roots_new"} ELSE @]
      [] s.op = "drop roots" -> DeleteFrom(d, "roots")
      [] s.op = "rename roots_new" ->
            [d EXCEPT !.features = @ \ {"roots_new"},
                      !.rows = {IF t = "roots_new" THEN "roots" ELSE t : t \in @}]

-----------------------------------------------------------------------------
(* The runner.                                                             *)

Closed == [m |-> 0, i |-> 0, open |-> FALSE]

\* Databases there are: none yet, those of older releases with rows, one of a newer build.
Older(v, albums, items) ==
    [version |-> v, features |-> FeaturesOf(v), rows |-> IF v = 0 THEN {} ELSE Tables,
     links |-> IF v = 0 THEN {} ELSE Clears, albums |-> albums, items |-> items]

NoAlbums == [a \in {} |-> [parent |-> 0, name |-> "x"]]
Duplicated ==
    {f \in [Album -> [parent : {0} \cup Album, name : {"x", "y"}]] :
        \A a \in Album : f[a].parent < a}

StartState ==
    {Older(v, NoAlbums, {}) : v \in {0, 7, 9}} \cup
    {Older(2, f, {<<a, a>> : a \in Album}) : f \in Duplicated}

Init ==
    /\ db \in StartState /\ work = db
    /\ legacyFile \in {"none", "there"}
    /\ at = Closed /\ state = "down" /\ importCut = FALSE /\ crashes = 0

\* migrate(): a database newer than the build is refused.
StartUp ==
    /\ state = "down"
    /\ state' = IF db.version > SchemaVersion THEN "refused" ELSE "migrating"
    /\ work' = db
    /\ UNCHANGED <<db, legacyFile, at, importCut, crashes>>

Begin ==
    /\ state = "migrating" /\ at = Closed /\ db.version < SchemaVersion
    /\ at' = [m |-> db.version + 1, i |-> 1, open |-> TRUE]
    /\ UNCHANGED <<db, work, legacyFile, state, importCut, crashes>>

Script == MIGRATIONS[at.m]
ScriptAlways == TRUE                                  \* mutant of InScript
InScript == at.m = 1

Statement ==
    /\ state = "migrating" /\ at.m > 0 /\ at.i <= Len(Script)
    /\ LET s == Script[at.i]
           d == Result(s, work)
       IN  /\ ~Raises(s, work)
           /\ work' = d
           /\ db' = IF InScript THEN d ELSE db
           /\ legacyFile' = IF s.op = "set legacy aside" /\ legacyFile = "there" THEN "aside" ELSE legacyFile
    /\ at' = [at EXCEPT !.i = @ + 1, !.open = ~InScript]
    /\ UNCHANGED <<state, importCut, crashes>>

\* A statement that raises is rolled back, and the application does not start.
StatementFails ==
    /\ state = "migrating" /\ at.m > 0 /\ at.i <= Len(Script)
    /\ Raises(Script[at.i], work)
    /\ work' = db /\ at' = Closed /\ state' = "refused"
    /\ UNCHANGED <<db, legacyFile, importCut, crashes>>

\* The version is written in the same transaction as the last statements.
Versioned(d, m) == [d EXCEPT !.version = m]
Commit ==
    /\ state = "migrating" /\ at.m > 0 /\ at.i > Len(Script)
    /\ work' = Versioned(work, at.m) /\ db' = work'
    /\ at' = Closed
    /\ UNCHANGED <<legacyFile, state, importCut, crashes>>

Serve ==
    /\ state = "migrating" /\ at = Closed /\ db.version = SchemaVersion
    /\ state' = "up"
    /\ UNCHANGED <<db, work, legacyFile, at, importCut, crashes>>

\* The process dies; what was not committed is gone, the renamed file is not.
Die ==
    /\ crashes < Crashes /\ state # "down"
    /\ crashes' = crashes + 1
    /\ work' = db /\ at' = Closed /\ state' = "down"
    /\ importCut' = (importCut \/ (at.m = 2 /\ at.i > 2))
    /\ UNCHANGED <<db, legacyFile>>

Next == StartUp \/ Begin \/ Statement \/ StatementFails \/ Commit \/ Serve \/ Die

Spec == Init /\ [][Next]_migrationVars

-----------------------------------------------------------------------------
(* Properties.                                                             *)

\* The versions and tables there are.
TypeOK ==
    /\ db.version \in 0..9 /\ work.version \in 0..9
    /\ db.rows \subseteq Tables \cup {"roots_new"}
    /\ state \in {"down", "migrating", "up", "refused"}

\* Whatever version a database started from and wherever crashes cut it, from version 1
\* on the tables, columns and indexes committed are those of its version; no two albums
\* have the same identity from version 3 on and no asset has lost its album; and the
\* configuration of the first releases is imported, unless a crash came between the
\* renaming of its file and the commit.
UpgradeSound ==
    /\ db.version \in 1..SchemaVersion => db.features = FeaturesOf(db.version)
    /\ db.version \in 3..SchemaVersion => ByIdentity(db)
    /\ DOMAIN db.albums # {} => {i[2] : i \in db.items} = Album
    /\ legacyFile = "aside" /\ ~importCut /\ db.version >= 2 => "config" \in db.rows

\* CHANGELOG.md 2.3.0: version 8 rebuilds the roots table "while preserving offline drive
\* metadata".  No migration deletes an asset's row.
AssetsKept == [][db.rows \subseteq db'.rows]_migrationVars
=============================================================================
