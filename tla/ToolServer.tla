----------------------------- MODULE ToolServer ----------------------------
(***************************************************************************)
(* The MCP server: sessions, the dispatcher and the mutating tools, over   *)
(* HTTP (many requests at once, one thread each) and over stdio (one       *)
(* process, one session).  A tool's effect is what it does to the items it *)
(* is given; the audit table says what was done.                           *)
(***************************************************************************)
EXTENDS Naturals, Sequences, FiniteSets

CONSTANTS
    Http,           \* HTTP requests the server can have under way
    Stdio,          \* stdio servers, started with --read-only
    Asked,          \* the tools clients call
    Item,           \* assets and trash entries
    Cap, Idle,      \* MAX_SESSIONS, SESSION_IDLE_TIMEOUT_S
    Rate, Window,   \* RATE_LIMIT_CALLS, RATE_LIMIT_WINDOW_S
    Batch,          \* MAX_BATCH
    MaxSession, MaxCall, MaxEvent      \* bounds of the model

VARIABLES
    seats,      \* SESSIONS._sessions: ids in the table
    session,    \* the Session objects ever made
    policy,     \* mcp_read_only: "open", "closed" or "unreadable"
    things,     \* where every item is
    handling,   \* what every request is doing
    effects,    \* what calls did to items
    audit,      \* mcp_audit rows
    calls, now,
    events,     \* what befell the server: time, the user, the end of a process
    lost        \* calls cut off by the end of their process

serverVars == <<seats, session, policy, things, handling, effects, audit,
                calls, now, events, lost>>

-----------------------------------------------------------------------------
(* The registry *)

ReadTools ==
    {"vault_search", "list_models", "get_model", "list_node_packages",
     "list_node_classes", "get_node_class", "list_workflows", "inspect_workflow",
     "find_model_usage", "query_outputs", "vault_stats", "get_index_status",
     "vault_trash_list", "enable_workflow_plan"}
JobTools ==
    {"vault_reindex", "vault_hash_enqueue", "vault_hash_cancel",
     "vault_embeddings_rebuild"}
FileTools ==
    {"vault_rename", "vault_move", "vault_delete", "vault_trash_restore",
     "vault_trash_empty", "vault_create_folder", "vault_assign_tags"}
Tools == ReadTools \cup JobTools \cup FileTools \cup {"enable_workflow_fetch"}

Mutating(tool) == tool \notin ReadTools

NeedsConfirm(c) ==
    \/ c.tool = "vault_delete" /\ c.permanent
    \/ c.tool \in {"vault_trash_empty", "enable_workflow_fetch"}

\* A call as its arguments arrive: an empty ids is the same as none.
Call ==
    {c \in [tool : Asked, ids : SUBSET Item, permanent : BOOLEAN, confirm : BOOLEAN] :
        /\ c.permanent => c.tool = "vault_delete"
        /\ c.confirm => NeedsConfirm(c)}

\* The schema of the tool accepts the arguments.
Fits(c) ==
    /\ Cardinality(c.ids) <= Batch
    /\ c.tool \in {"vault_move", "vault_delete", "vault_trash_restore",
                   "vault_assign_tags", "enable_workflow_fetch"} => c.ids # {}

-----------------------------------------------------------------------------
(* The session table *)

Fresh == [ready |-> FALSE, seen |-> now, stamps |-> <<>>]

Stale(id) == now - session[id].seen > Idle

Sweep(t) == {id \in t : ~Stale(id)}

\* SessionStore._evict_to keeps the sessions that were seen last.
Kept(t) ==
    CHOOSE k \in SUBSET t :
        /\ Cardinality(k) = IF Cardinality(t) < Cap THEN Cardinality(t) ELSE Cap - 1
        /\ \A in \in k, out \in t \ k : session[in].seen >= session[out].seen

Rest == [stage |-> "free"]

At(r, stage) == handling[r].stage = stage

\* mcp_post: the session of the request, in the event loop.
Arrive(r, id, greets) ==
    LET known == id \in seats /\ ~Stale(id)
        new == Len(session) + 1
    IN  /\ At(r, "free")
        /\ \/ /\ known
              /\ session' = [session EXCEPT ![id].seen = now]
              /\ handling' = [handling EXCEPT ![r] = [stage |-> "next", by |-> id]]
              /\ UNCHANGED seats
           \/ /\ ~known /\ greets /\ new <= MaxSession
              /\ session' = Append(session, Fresh)
              /\ seats' = Kept(Sweep(seats)) \cup {new}
              /\ handling' = [handling EXCEPT ![r] = [stage |-> "next", by |-> new]]
           \/ /\ ~known /\ ~greets /\ id \in seats
              /\ seats' = seats \ {id}
              /\ UNCHANGED <<session, handling>>
        /\ UNCHANGED <<policy, things, effects, audit, calls, now, events, lost>>

\* mcp_delete
Terminate(id) ==
    /\ id \in seats /\ events < MaxEvent
    /\ seats' = seats \ {id} /\ events' = events + 1
    /\ UNCHANGED <<session, policy, things, handling, effects, audit, calls, now, lost>>

\* stdio.serve: a session of its own, that no table lookup ends.
Serve(r) ==
    /\ At(r, "free") /\ Len(session) < MaxSession
    /\ session' = Append(session, Fresh)
    /\ handling' = [handling EXCEPT ![r] = [stage |-> "next", by |-> Len(session) + 1]]
    /\ UNCHANGED <<seats, policy, things, effects, audit, calls, now, events, lost>>

-----------------------------------------------------------------------------
(* One message *)

By(r) == handling[r].by

\* notifications/initialized
Greeted(r) ==
    /\ At(r, "next")
    /\ session' = [session EXCEPT ![By(r)].ready = TRUE]
    /\ UNCHANGED <<seats, policy, things, handling, effects, audit, calls, now, events, lost>>

\* The last message of the request is answered; stdio waits for the next line.
Respond(r) ==
    /\ At(r, "next")
    /\ handling' = [handling EXCEPT ![r] = Rest]
    /\ UNCHANGED <<seats, session, policy, things, effects, audit, calls, now, events, lost>>

\* The deque without the old stamps at its front.
Recent(id) ==
    LET s == session[id].stamps
        old == {i \in DOMAIN s : \A j \in 1..i : now - s[j] > Window}
    IN  SubSeq(s, Cardinality(old) + 1, Len(s))

\* tools/call of a known tool: the rate is tested...
Admit(r, c) ==
    /\ At(r, "next") /\ session[By(r)].ready /\ calls < MaxCall
    /\ calls' = calls + 1
    /\ session' = [session EXCEPT ![By(r)].stamps = Recent(By(r))]
    /\ handling' =
        IF Len(Recent(By(r))) >= Rate THEN handling
        ELSE [handling EXCEPT ![r] =
                [stage |-> "count", by |-> By(r), call |-> c, no |-> calls + 1,
                 open |-> policy # "closed", todo |-> {}, outcome |-> "ok"]]
    /\ UNCHANGED <<seats, policy, things, effects, audit, now, events, lost>>

ReadOnly(r) == r \in Stdio \/ policy = "closed"

Refused(r) ==
    \/ Mutating(handling[r].call.tool) /\ ReadOnly(r)
    \/ ~Fits(handling[r].call)

\* The items the handler goes through.
Aim(c) ==
    CASE c.tool \in ReadTools -> {}
      [] c.tool = "vault_trash_empty" ->
            {i \in IF c.ids = {} THEN Item ELSE c.ids : things[i] = "trashed"}
      [] c.tool = "vault_trash_restore" -> {i \in c.ids : things[i] = "trashed"}
      [] OTHER -> {i \in c.ids : things[i] = "kept"}

\* ... and counted, by a thread of its own: two calls of a session may both
\* have passed the test.  A tool that modifies a read-only vault is refused
\* without a row; one that lacks its confirmation fails with one.
Begin(r) ==
    LET c == handling[r].call
    IN  /\ At(r, "count")
        /\ session' = [session EXCEPT ![By(r)].stamps = Append(@, now)]
        /\ handling' =
            IF Refused(r) THEN [handling EXCEPT ![r] = [stage |-> "next", by |-> By(r)]]
            ELSE IF NeedsConfirm(c) /\ ~c.confirm
                 THEN [handling EXCEPT ![r].stage = "run", ![r].outcome = "error"]
            ELSE [handling EXCEPT ![r].stage = "run", ![r].todo = Aim(c)]
        /\ UNCHANGED <<seats, policy, things, effects, audit, calls, now, events, lost>>

\* What becomes of an item.
Becomes(c) ==
    CASE c.tool = "vault_trash_empty" -> "erased"
      [] c.tool = "vault_trash_restore" -> "kept"
      [] c.tool = "vault_delete" -> IF c.permanent THEN "erased" ELSE "trashed"
      [] OTHER -> "kept"

\* One item of the batch succeeds, or fails in its own row of the result.
Touch(r, i, ok) ==
    LET w == handling[r]
    IN  /\ At(r, "run") /\ i \in w.todo
        /\ handling' = [handling EXCEPT ![r].todo = @ \ {i}]
        /\ IF ok /\ (i \in Aim(w.call))
           THEN /\ things' = [things EXCEPT ![i] = Becomes(w.call)]
                /\ effects' = effects \cup
                    {[no |-> w.no, item |-> i, erased |-> Becomes(w.call) = "erased",
                      sure |-> w.call.confirm, named |-> w.call.ids \cup
                        (IF w.call.ids = {} THEN Item ELSE {}),
                      open |-> w.open, ready |-> session[w.by].ready, by |-> w.by]}
           ELSE UNCHANGED <<things, effects>>
        /\ UNCHANGED <<seats, session, policy, audit, calls, now, events, lost>>

\* The handler raises on the way: the payload is lost, what was done stays.
Raise(r) ==
    /\ At(r, "run") /\ handling[r].todo # {} /\ handling[r].outcome = "ok"
    /\ handling' = [handling EXCEPT ![r].outcome = "error", ![r].todo = {}]
    /\ UNCHANGED <<seats, session, policy, things, effects, audit, calls, now, events, lost>>

Done(no) == Cardinality({e \in effects : e.no = no})

\* mutant of Affected: the items asked for are counted
AffectedAsked(w) == IF w.outcome = "ok" THEN Cardinality(w.call.ids) ELSE 0

\* affected_count: what the payload reports, and nothing of a call that failed
Affected(w) == IF w.outcome = "ok" THEN Done(w.no) ELSE 0

\* The answer; mcp_audit.record first, if the tool is audited: a row the
\* database refuses is only logged.
Finish(r, written) ==
    LET w == handling[r]
    IN  /\ At(r, "run") /\ w.todo = {}
        /\ audit' = audit \cup
            {row \in {[no |-> w.no, outcome |-> w.outcome, written |-> written,
                       affected |-> Affected(w)]} : Mutating(w.call.tool)}
        /\ handling' = [handling EXCEPT ![r] = [stage |-> "next", by |-> By(r)]]
        /\ UNCHANGED <<seats, session, policy, things, effects, calls, now, events, lost>>

-----------------------------------------------------------------------------
Init ==
    /\ seats = {} /\ session = <<>>
    /\ policy = "open"
    /\ things \in [Item -> {"kept", "trashed"}]
    /\ handling = [r \in Http \cup Stdio |-> Rest]
    /\ effects = {} /\ audit = {}
    /\ calls = 0 /\ now = 0 /\ events = 0 /\ lost = {}

\* The user changes mcp_read_only, or its file cannot be read for a while; a
\* call that sees any of it open may have been let through.
Toggle(p) ==
    /\ p # policy /\ events < MaxEvent
    /\ policy' = p /\ events' = events + 1
    /\ handling' = [r \in DOMAIN handling |->
          IF p # "closed" /\ "open" \in DOMAIN handling[r]
          THEN [handling[r] EXCEPT !.open = TRUE] ELSE handling[r]]
    /\ UNCHANGED <<seats, session, things, effects, audit, calls, now, lost>>

Tick ==
    /\ events < MaxEvent /\ events' = events + 1 /\ now' = now + 1
    /\ UNCHANGED <<seats, session, policy, things, handling, effects, audit, calls, lost>>

\* A process ends: its sessions and requests are lost, files and rows are not.
Restart(rs) ==
    /\ events < MaxEvent /\ events' = events + 1
    /\ \E r \in rs : ~At(r, "free")
    /\ seats' = IF rs = Http THEN {} ELSE seats
    /\ lost' = lost \cup {handling[r].no : r \in {q \in rs : "no" \in DOMAIN handling[q]}}
    /\ handling' = [r \in DOMAIN handling |-> IF r \in rs THEN Rest ELSE handling[r]]
    /\ UNCHANGED <<session, policy, things, effects, audit, calls, now>>

Step(r) ==
    \/ Greeted(r) \/ Respond(r) \/ Begin(r) \/ Raise(r)
    \/ \E c \in Call : Admit(r, c)
    \/ \E i \in Item, ok \in BOOLEAN : Touch(r, i, ok)
    \/ \E written \in BOOLEAN : Finish(r, written)

Next ==
    \/ \E r \in Http, id \in 0..Len(session), greets \in BOOLEAN : Arrive(r, id, greets)
    \/ \E id \in 1..Len(session) : Terminate(id)
    \/ \E r \in Stdio : Serve(r)
    \/ \E r \in Http \cup Stdio : Step(r)
    \/ \E p \in {"open", "closed", "unreadable"} : Toggle(p)
    \/ Tick
    \/ \E rs \in {Http, Stdio} : Restart(rs)

-----------------------------------------------------------------------------
UnderWay(no) == \E r \in DOMAIN handling :
    "no" \in DOMAIN handling[r] /\ handling[r].no = no

\* Every change an agent made was allowed when it was asked for: an
\* initialized session, a vault that was not read-only all along, and, where
\* nothing brings the item back, a confirmation.  A call that succeeded has an
\* audit row that counts exactly what it did; a call that did something and
\* has neither a row nor a row that was refused is still running or was cut
\* off by the end of the process.  The rate holds up to the requests that ran
\* side by side (protocol.py, handlers.py, mcp_audit.py).
Permitted ==
    /\ \A e \in effects :
        /\ e.ready /\ e.open /\ e.item \in e.named
        /\ e.erased => e.sure
    /\ \A e \in effects :
        UnderWay(e.no) \/ e.no \in lost \/ \E row \in audit : row.no = e.no
    /\ \A row \in audit :
        /\ row.outcome = "ok" => row.affected = Done(row.no)
        /\ \A other \in audit : other.no = row.no => other = row
    /\ \A id \in DOMAIN session :
        Len(session[id].stamps) < Rate + Cardinality(Http)
    /\ Cardinality(seats) <= Cap
=============================================================================
