------------------------------ MODULE Listing ------------------------------
(***************************************************************************)
(* The list queries behind the REST lists and the MCP list tools: a client *)
(* reads a list page by page while the library changes.  A query counts    *)
(* the matching rows and selects its page in two statements of their own.  *)
(***************************************************************************)
EXTENDS Naturals, Sequences, FiniteSets, FiniteSetsExt

CONSTANTS
    Id,             \* row ids, numbers
    KeyOf,          \* the value of a row in the column the client sorts by
    Hits,           \* the ids hybrid.search answers, best first
    MaxLimit,       \* MAX_LIMIT
    Asked, Stored,  \* the queries and the libraries the model starts from
    MaxChange       \* bound of the model: changes while a client reads

VARIABLES
    library,    \* the rows of the kind the client lists
    reader,     \* the client: what it asked for and what it has got
    changes

listVars == <<library, reader, changes>>

Kinds == {"model", "workflow", "node_package", "node_class", "output", "call"}

\* What a client asks for.  Limits it may ask beyond what clamp_page allows.
Query ==
    [kind : Kinds, missing : {"hide", "show", "only"}, folders : {{}, {"a"}},
     untagged : BOOLEAN, search : BOOLEAN, sort : {"key", "-key", "relevance"},
     limit : {0, 2, MaxLimit + 1}, tool : BOOLEAN]

-----------------------------------------------------------------------------
(* The filters of every kind *)

Seen(q, row) ==
    CASE q.missing = "only" -> row.missing
      [] q.missing = "hide" -> ~row.missing
      [] OTHER -> TRUE

AnyOf(values, v) == values = {} \/ v \in values

Untagged(q, row) == q.untagged => ~row.tagged

ModelWhere(q, row) == Seen(q, row) /\ AnyOf(q.folders, row.folder) /\ Untagged(q, row)
WorkflowWhere(q, row) == Seen(q, row) /\ AnyOf(q.folders, row.folder) /\ Untagged(q, row)
PackageWhere(q, row) == Seen(q, row) /\ Untagged(q, row)
OutputWhere(q, row) == Seen(q, row) /\ AnyOf(q.folders, row.folder) /\ Untagged(q, row)
\* A class is shown although its package is missing.
ClassWhere(q, row) ==
    (q.missing = "only" => row.missing) /\ AnyOf(q.folders, row.folder) /\ Untagged(q, row)
CallWhere(q, row) == AnyOf(q.folders, row.folder)

Where(q, row) ==
    CASE q.kind = "model" -> ModelWhere(q, row)
      [] q.kind = "workflow" -> WorkflowWhere(q, row)
      [] q.kind = "node_package" -> PackageWhere(q, row)
      [] q.kind = "node_class" -> ClassWhere(q, row)
      [] q.kind = "output" -> OutputWhere(q, row)
      [] OTHER -> CallWhere(q, row)

\* apply_id_filter: a search narrows every list but that of the audit log.
Found(q, id) == (q.search /\ q.kind # "call") => id \in Range(Hits)

Matching(q) == {id \in DOMAIN library : Where(q, library[id]) /\ Found(q, id)}

-----------------------------------------------------------------------------
(* The order of the rows *)

RankOf(id) == CHOOSE n \in DOMAIN Hits : Hits[n] = id

\* order_by_search, or the sort each list falls back on
Relevance(q, x, y) ==
    IF q.search /\ q.kind # "call" THEN RankOf(x) < RankOf(y)
    ELSE CASE q.kind \in {"workflow", "output"} -> KeyOf[x] > KeyOf[y]
           [] q.kind = "call" -> KeyOf[x] > KeyOf[y]
           [] OTHER -> KeyOf[x] < KeyOf[y]

SortKey(q, x, y) ==
    CASE q.sort = "key" -> KeyOf[x] < KeyOf[y]
      [] q.sort = "-key" -> KeyOf[x] > KeyOf[y]
      [] OTHER -> Relevance(q, x, y)

\* Rows that the sort leaves level come in the order of their ids.
Tie(q, x, y) ==
    IF q.kind = "call" \/ (q.kind = "output" /\ q.sort = "relevance")
    THEN x > y ELSE x < y

\* mutant of Before: level rows come in any order
BeforeLoose(q, x, y) == ~SortKey(q, y, x)

Before(q, x, y) ==
    SortKey(q, x, y) \/ (~SortKey(q, y, x) /\ Tie(q, x, y))

\* The orders SQLite may return the matching rows in.
Orders(q) ==
    {o \in Injection(1..Cardinality(Matching(q)), Matching(q)) :
        \A i, j \in DOMAIN o : i < j => Before(q, o[i], o[j])}

-----------------------------------------------------------------------------
(* A client reads a list *)

Limit(q) == Max({1, Min({MaxLimit, q.limit})})

\* The groups of a list count what the filters match; those of the models do
\* so without the search.
Groups(q) ==
    IF q.kind = "model" THEN Cardinality({id \in DOMAIN library : Where(q, library[id])})
    ELSE Cardinality(Matching(q))

\* cap_structured: a tool that answers too much drops rows from the end.
Cut(q, full) == IF q.tool THEN Min({1, full})..full ELSE {full}

\* page_dict, with the total the first statement counted
HasMore(n) == n > 0 /\ reader.from + n < reader.total

Init ==
    /\ library \in Stored
    /\ changes = 0
    /\ reader \in {[at |-> "count", query |-> q, from |-> 0, total |-> 0, got |-> <<>>,
                    always |-> {}, groups |-> 0] : q \in Asked}

\* The first statement of a list query.
CountRows ==
    LET q == reader.query
    IN  /\ reader.at = "count"
        /\ reader' = [reader EXCEPT
             !.at = "page", !.total = Cardinality(Matching(q)),
             !.always = IF reader.from = 0 THEN Matching(q) ELSE @ \cap Matching(q)]
        /\ UNCHANGED <<library, changes>>

\* The second, and the groups; the client asks for the page after it.
SelectPage ==
    LET q == reader.query
        rest == Cardinality(Matching(q)) - reader.from
        full == IF rest < 0 THEN 0 ELSE Min({Limit(q), rest})
    IN  /\ reader.at = "page"
        /\ \E o \in Orders(q), n \in Cut(q, full) :
             reader' = [reader EXCEPT
                !.got = @ \o SubSeq(o, reader.from + 1, reader.from + n),
                !.from = @ + n,
                !.at = IF HasMore(n) THEN "count" ELSE "done",
                !.groups = Groups(q),
                !.always = @ \cap Matching(q)]
        /\ UNCHANGED <<library, changes>>

\* A scan marks a row missing or finds it again.
Change(id) ==
    /\ reader.at # "done" /\ changes < MaxChange
    /\ changes' = changes + 1
    /\ library' = [library EXCEPT ![id].missing = ~@]
    /\ reader' = [reader EXCEPT !.always = @ \ {id}]

Next ==
    \/ CountRows
    \/ SelectPage
    \/ \E id \in Id : Change(id)

-----------------------------------------------------------------------------
Repeated == {i \in DOMAIN reader.got : \E j \in 1..(i - 1) : reader.got[j] = reader.got[i]}

\* A client that follows the pages to their end gets every row that matched
\* all along, once and in the order it asked for; each change to the library
\* on the way costs it at most one row missed and one seen twice.  The
\* groups beside a page add up to its total, but for those of searched models
\* (queries/__init__.py clamp_page, page_dict, parse_sort; list_*).
PagesComplete ==
    reader.at = "done" =>
        /\ Cardinality(reader.always \ Range(reader.got)) <= changes
        /\ Cardinality(Repeated) <= changes
        /\ changes = 0 =>
            /\ \A i, j \in DOMAIN reader.got :
                  i < j => ~SortKey(reader.query, reader.got[j], reader.got[i])
            /\ reader.query.kind # "model" \/ ~reader.query.search
                  => reader.groups = reader.total
=============================================================================
