------------------------------- MODULE Storage -----------------------------
(***************************************************************************)
(* Storage and maintenance: what could be removed, and the cleanup.  The   *)
(* duplicates and the footprint are derived from the whole library, so     *)
(* they are cached under PRAGMA data_version, a number that SQLite keeps   *)
(* for every connection by itself; every thread has its own.               *)
(***************************************************************************)
EXTENDS Naturals, FiniteSets, Functions

CONSTANTS
    Asset,          \* models and outputs of the library
    Thread,         \* request threads, each with its read connection
    FactsOf,        \* what never changes here: kind, size, age, use, ...
    Content,        \* what a model file can hold
    First,          \* the libraries the model starts from
    StaleDays,      \* the stale_days a client asks for
    MaxCommit       \* bound of the model

VARIABLES
    shelf,      \* the assets there are and what each holds
    commits,    \* how often the database has been committed to
    conn,       \* every thread's connection: what it has noticed
    memo,       \* the caches
    task,       \* what every thread is doing
    offers,     \* what the user is looking at
    kept        \* contents the user never asked to lose

storageVars == <<shelf, commits, conn, memo, task, offers, kept>>

None == [tag |-> "none"]

Derived == {"signals", "footprint"}

-----------------------------------------------------------------------------
(* What is derived from the library *)

Models(lib) == {m \in DOMAIN lib : FactsOf[m].kind = "model"}

\* The files with an identical hash, and, where a hash is missing, those with
\* one name and size, or one name under several roots.
SameHash(lib, m) ==
    {n \in Models(lib) : lib[m].hashed /\ lib[n].hashed /\ lib[n].holds = lib[m].holds}

Name(m) == FactsOf[m].name

SameNameSize(lib, m) ==
    LET g == {n \in Models(lib) : Name(n) = Name(m) /\ FactsOf[n].size = FactsOf[m].size}
    IN  IF \A n \in g : lib[n].hashed THEN {m} ELSE g

SameName(lib, m) ==
    LET g == {n \in Models(lib) : Name(n) = Name(m)}
    IN  IF Cardinality({FactsOf[n].root : n \in g}) < 2 THEN {m} ELSE g

Several(g) == Cardinality(g) > 1

\* A hash is never overruled by a name; the later of the two name rules wins.
Duplicate(lib, m) ==
    IF Several(SameHash(lib, m)) THEN [method |-> "sha256", group |-> SameHash(lib, m)]
    ELSE IF Several(SameName(lib, m)) THEN [method |-> "name", group |-> SameName(lib, m)]
    ELSE IF Several(SameNameSize(lib, m))
         THEN [method |-> "name+size", group |-> SameNameSize(lib, m)]
    ELSE [method |-> "none", group |-> {}]

\* A higher version of the same stem is in the library, or one is published.
Superseded(lib, m) ==
    \/ FactsOf[m].published
    \/ FactsOf[m].version > 0 /\ \E n \in Models(lib) :
            FactsOf[n].stem = FactsOf[m].stem /\ FactsOf[n].version > FactsOf[m].version

Signals(lib) ==
    [m \in Models(lib) |->
        [duplicate |-> Duplicate(lib, m), superseded |-> Superseded(lib, m)]]

Footprint(lib) ==
    [m \in DOMAIN lib |-> FactsOf[m].size]

Derive(d, lib) == IF d = "signals" THEN Signals(lib) ELSE Footprint(lib)

-----------------------------------------------------------------------------
(* Why an asset is listed *)

Protected(m) == FactsOf[m].favorite \/ FactsOf[m].rating >= 4
Unused(m) == FactsOf[m].kind = "model" /\ FactsOf[m].uses = 0
Large(m) == FactsOf[m].size >= IF FactsOf[m].kind = "model" THEN 8192 ELSE 64
Orphan(m) == FactsOf[m].kind = "output" /\ FactsOf[m].source = "gone"
NonMedia(m) == FactsOf[m].kind = "output" /\ FactsOf[m].media = "other"
Broken(m) == FactsOf[m].kind = "model" /\ FactsOf[m].integrity # "ok"

\* What a client can ask for, and what the summary has a number of.
Headlines == {"unused", "duplicate", "superseded", "integrity", "orphan_output", "non_media"}
Asks == Headlines \cup {"large", "stale", "protected"}

\* _reasons_for: what the row of an asset says.
Reasons(sig, m) ==
    {r \in Asks :
        \/ r = "unused" /\ Unused(m)
        \/ r = "duplicate" /\ m \in DOMAIN sig /\ sig[m].duplicate.method # "none"
        \/ r = "superseded" /\ m \in DOMAIN sig /\ sig[m].superseded
        \/ r = "large" /\ Large(m)
        \/ r = "stale" /\ FactsOf[m].age >= 180
        \/ r = "integrity" /\ Broken(m)
        \/ r = "orphan_output" /\ Orphan(m)
        \/ r = "non_media" /\ NonMedia(m)
        \/ r = "protected" /\ Protected(m)}

\* _reason_clause: the assets a client gets that asks for a reason.
Clause(sig, m, r) ==
    CASE r = "unused" -> Unused(m)
      [] r = "duplicate" -> m \in DOMAIN sig /\ sig[m].duplicate.method # "none"
      [] r = "superseded" -> m \in DOMAIN sig /\ sig[m].superseded
      [] r = "stale" -> FactsOf[m].age >= StaleDays
      [] r = "large" -> Large(m)
      [] r = "integrity" -> Broken(m)
      [] r = "orphan_output" -> Orphan(m)
      [] r = "non_media" -> NonMedia(m)
      [] OTHER -> Protected(m)

\* reclaimable_summary: what every headline number counts, and offers to list.
Counted(sig, lib, r) ==
    CASE r = "duplicate" -> {m \in DOMAIN sig : sig[m].duplicate.method # "none"}
      [] r = "superseded" -> {m \in DOMAIN sig : sig[m].superseded}
      [] r = "unused" -> {m \in Models(lib) : FactsOf[m].uses = 0}
      [] r = "integrity" -> {m \in Models(lib) : FactsOf[m].integrity # "ok"}
      [] r = "orphan_output" -> {m \in DOMAIN lib \ Models(lib) : FactsOf[m].source = "gone"}
      [] OTHER -> {m \in DOMAIN lib \ Models(lib) : FactsOf[m].media = "other"}

\* duplicate_groups: sets of two or more that are still there, the largest kept.
Groups(sig, lib) ==
    {g \in {{m \in DOMAIN sig : sig[m].duplicate = sig[n].duplicate} \cap DOMAIN lib :
                n \in {k \in DOMAIN sig : sig[k].duplicate.method = "sha256"}} : Several(g)}

Keeper(g) == CHOOSE m \in g : \A n \in g : FactsOf[m].size >= FactsOf[n].size

-----------------------------------------------------------------------------
(* The caches *)

Init ==
    /\ shelf \in First
    /\ commits = 0
    /\ conn = [t \in Thread |-> [noticed |-> 0, version |-> 0]]
    /\ memo = [d \in Derived |-> None]
    /\ task = [t \in Thread |-> [at |-> "idle"]]
    /\ offers = None
    /\ kept = {}

\* PRAGMA data_version: one more if the connection finds any commit it has not
\* seen, however many there were.
Noticed(t) ==
    IF conn[t].noticed = commits THEN conn[t]
    ELSE [noticed |-> commits, version |-> conn[t].version + 1]

\* A request reads the fingerprint, and takes the cache if it has the same.
Lookup(t, d) ==
    LET c == Noticed(t)
        hit == memo[d].tag = "kept" /\ memo[d].version = c.version
    IN  /\ task[t].at = "idle"
        /\ conn' = [conn EXCEPT ![t] = c]
        /\ task' = [task EXCEPT ![t] =
             IF hit THEN [at |-> "answer", of |-> d, value |-> memo[d].value,
                          since |-> commits, as |-> memo[d].as]
             ELSE [at |-> "derive", of |-> d, version |-> c.version, since |-> commits]]
        /\ UNCHANGED <<shelf, commits, memo, offers, kept>>

\* mutant of StoredAs: read again when the entry is stored
StoredAsLate(t) == Noticed(t).version

\* The fingerprint the new entry is stored under.
StoredAs(t) == task[t].version

\* It reads the rows of the library and stores what follows from them.
Compute(t) ==
    /\ task[t].at = "derive"
    /\ task' = [task EXCEPT ![t] =
         [at |-> "store", of |-> @.of, value |-> Derive(@.of, shelf),
          version |-> @.version, since |-> @.since, as |-> commits]]
    /\ UNCHANGED <<shelf, commits, conn, memo, offers, kept>>

Remember(t) ==
    LET k == task[t]
    IN  /\ k.at = "store"
        /\ memo' = [memo EXCEPT ![k.of] =
             [tag |-> "kept", version |-> StoredAs(t), value |-> k.value, as |-> k.as]]
        /\ task' = [task EXCEPT ![t] =
             [at |-> "answer", of |-> k.of, value |-> k.value, since |-> k.since, as |-> k.as]]
        /\ UNCHANGED <<shelf, commits, conn, offers, kept>>

\* The answer reaches the user: duplicates still there, each with its keeper.
Answer(t) ==
    /\ task[t].at = "answer"
    /\ task' = [task EXCEPT ![t] = [at |-> "idle"]]
    /\ offers' =
        IF task[t].of = "signals"
        THEN [tag |-> "shown", groups |-> Groups(task[t].value, shelf),
              at |-> task[t].since]
        ELSE offers
    /\ UNCHANGED <<shelf, commits, conn, memo, kept>>

\* invalidate(), after a cleanup
Dropped == [d \in Derived |-> None]

\* cleanup: the user removes what the groups hold beside their keepers, if
\* nothing is protected; one writer transaction per asset, the last shown.
Cleanup ==
    LET gone == UNION {g \ {Keeper(g)} : g \in offers.groups}
    IN  /\ offers.tag = "shown" /\ offers.groups # {}
        /\ commits < MaxCommit
        /\ \A m \in gone : ~Protected(m)
        /\ shelf' = Restrict(shelf, DOMAIN shelf \ gone)
        /\ commits' = commits + 1
        /\ kept' = IF offers.at = commits
                   THEN {shelf[m].holds : m \in Models(shelf)} ELSE {}
        /\ memo' = Dropped
        /\ offers' = None
        /\ UNCHANGED <<conn, task>>

\* A scan, a hash or a deletion commits.
Commit ==
    /\ commits < MaxCommit
    /\ commits' = commits + 1
    /\ kept' = {}
    /\ \/ \E m \in DOMAIN shelf : shelf' = Restrict(shelf, DOMAIN shelf \ {m})
       \/ \E m \in Models(shelf) : shelf' = [shelf EXCEPT ![m].hashed = TRUE]
       \/ \E m \in Models(shelf), c \in Content :
             /\ c # shelf[m].holds
             /\ shelf' = [shelf EXCEPT ![m].holds = c, ![m].hashed = FALSE]
    /\ UNCHANGED <<conn, memo, task, offers>>

Next ==
    \/ \E t \in Thread, d \in Derived : Lookup(t, d)
    \/ \E t \in Thread : Compute(t) \/ Remember(t) \/ Answer(t)
    \/ Cleanup \/ Commit

-----------------------------------------------------------------------------
\* What a request answers was derived from a library at least as new as the
\* one its request found (db.py data_version, storage_query.py model_signals,
\* storage_service.py footprint).
AnswersCurrent ==
    \A t \in Thread : task[t].at = "answer" => task[t].as >= task[t].since

\* A user who removes every duplicate the groups of identical hashes offer,
\* with nothing changed since they were asked for, loses no content; a client
\* that asks for a reason gets the assets whose rows give it, and those the
\* headline number of the reason counts (storage_query.py duplicate_groups,
\* _reason_clause, _reasons_for, reclaimable_summary).
CleanupKeepsContent ==
    /\ kept \subseteq {shelf[m].holds : m \in Models(shelf)}
    /\ \A t \in Thread : task[t].at = "answer" /\ task[t].of = "signals" =>
          /\ \A m \in Asset : Reasons(task[t].value, m) =
                {r \in Asks : Clause(task[t].value, m, r)}
          /\ \A r \in Headlines : Counted(task[t].value, shelf, r) \cap DOMAIN shelf =
                {m \in DOMAIN shelf : Clause(task[t].value, m, r)}
=============================================================================
