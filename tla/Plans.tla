-------------------------------- MODULE Plans -------------------------------
(***************************************************************************)
(* Consent to a download (app/enable): the dependency report shows what a  *)
(* workflow misses, where each file would come from and where it would go, *)
(* and issues a plan; only what the plan holds can be fetched, and a node  *)
(* package is cloned at the commit that was shown.                         *)
(*                                                                         *)
(* Abstractions.  A source is none, like one on a host that is not on the *)
(* list, without https or with credentials, or the version it serves: the  *)
(* content of a model, the head of a repository.  EnableQueue has the queue and its     *)
(* thread, Download the transfer; a fetched item is two steps here.        *)
(***************************************************************************)
EXTENDS Naturals, Sequences, FiniteSets

CONSTANTS
    Workflow,
    Dep,            \* dependencies of workflows: a reference through one node input
    RefOf,          \* their file names or repositories
    CategoryOf,     \* the folders their node inputs stand for, or "unknown"
    Unhashed,       \* references whose source declares no checksum
    Missing,        \* the unsatisfied dependencies of each workflow
    MaxVersion,
    TTL, MaxPlans, MaxRedirects,
    MaxIssued, MaxClock, MaxMoves   \* bounds

VARIABLES
    source,         \* what is declared for each reference
    disk,           \* each destination: nothing, the user's file or what was fetched
    owned,          \* the destinations at which the user put a file
    plans,          \* _plans: token -> [workflow, born, items]
    current,        \* _current: workflow -> token, 0 for none
    shown,          \* every plan ever issued
    clock,
    asks,           \* the reports that are being built
    queue,          \* what is to be fetched
    worker,         \* what is being fetched
    moves

plansVars == <<source, disk, owned, plans, current, shown, clock, asks, queue, worker, moves>>

Ref == {RefOf[d] : d \in Dep}
IsPackage(r) == \A d \in Dep : RefOf[d] = r => CategoryOf[d] = "custom_nodes"
Destination == {<<CategoryOf[d], RefOf[d]>> : d \in Dep}

NoSource == 0
Version == 1..MaxVersion

Absent == [by |-> "nobody"]
Users == [by |-> "user"]

Free == [pc |-> "free"]
Move == moves < MaxMoves /\ moves' = moves + 1

Init ==
    /\ source = [r \in Ref |-> 1]
    /\ disk = [d \in Destination |-> Absent] /\ owned = {}
    /\ plans = <<>> /\ current = [w \in Workflow |-> 0] /\ shown = <<>>
    /\ clock = 0
    /\ asks = {}
    /\ queue = {} /\ worker = Free /\ moves = 0

-----------------------------------------------------------------------------
(* The report.                                                             *)

\* via_by_ref: one of the inputs that name a file stands for all of them.
Vias(w) ==
    {f \in [{RefOf[d] : d \in Missing[w]} -> Missing[w]] : \A r \in DOMAIN f : RefOf[f[r]] = r}

\* The folder comes from the node input, the name from the reference.
Category(d) == CategoryOf[d]
Target(r, d) == <<Category(d), r>>

\* What the workflow or the vault declares, and what the registry names, if its host is on
\* the list.
Listed(s) == s \in Version
Declared(r) == source[r]
RemoteHead(r) == source[r]

ModelStatus(r, d) ==
    IF Category(d) = "unknown" THEN "blocked"
    ELSE IF disk[Target(r, d)] # Absent THEN "already_present"
    ELSE IF ~Listed(Declared(r)) THEN "no_source" ELSE "fetchable"

PackageStatus(r, d) ==
    IF ~Listed(RemoteHead(r)) THEN "blocked"
    ELSE IF disk[Target(r, d)] # Absent THEN "already_present" ELSE "fetchable"

Status(r, d) == IF IsPackage(r) THEN PackageStatus(r, d) ELSE ModelStatus(r, d)

\* What the plan promises of one item; its id comes from the reference alone.
Payload(r, d) == [ref |-> r, target |-> Target(r, d), version |-> source[r]]
Pinned(item) == item.ref \notin Unhashed

Items(f) == {Payload(r, f[r]) : r \in {x \in DOMAIN f : Status(x, f[x]) = "fetchable"}}

\* Everything is read, and remotes are asked for their heads, before the plan is issued.
Read(w) ==
    /\ Len(shown) + Cardinality(asks) < MaxIssued
    /\ \E f \in Vias(w) : asks' = asks \cup {[workflow |-> w, items |-> Items(f)]}
    /\ UNCHANGED <<source, disk, owned, plans, current, shown, clock, queue, worker, moves>>

-----------------------------------------------------------------------------
(* Plans (plan.py): a sweep drops the expired ones, then the oldest.       *)

ExpiredLate(p) == p.born + TTL < clock                \* mutant of Expired
Expired(p) == p.born + TTL <= clock
Without(held, gone) == [t \in DOMAIN held \ gone |-> held[t]]

Oldest(held) ==
    CHOOSE t \in DOMAIN held : \A u \in DOMAIN held : held[t].born < held[u].born
                                                      \/ (held[t].born = held[u].born /\ t <= u)

SweepOne(held) == IF Cardinality(DOMAIN held) > MaxPlans THEN Without(held, {Oldest(held)}) ELSE held
Swept == SweepOne(Without(plans, {t \in DOMAIN plans : Expired(plans[t])}))

\* A workflow's current plan goes with the plan.
CurrentOf(held) == [w \in Workflow |-> IF current[w] \in DOMAIN held THEN current[w] ELSE 0]

Issue(a) ==
    /\ LET w     == a.workflow
           token == Len(shown) + 1
           kept  == Without(Swept, {CurrentOf(Swept)[w]})
           plan  == [workflow |-> w, born |-> clock, items |-> a.items]
       IN  /\ plans' = [t \in DOMAIN kept \cup {token} |-> IF t = token THEN plan ELSE kept[t]]
           /\ current' = [CurrentOf(Swept) EXCEPT ![w] = token]
           /\ shown' = Append(shown, plan)
    /\ asks' = asks \ {a}
    /\ UNCHANGED <<source, disk, owned, clock, queue, worker, moves>>

\* redeem: the plan must still be held and be this workflow's current one, and the items in
\* it.  A superseded plan is no longer held, so it is refused as an unknown one.
Redeemable(token, w) ==
    /\ token \in DOMAIN Swept
    /\ Swept[token].workflow = w
    /\ CurrentOf(Swept)[w] = token

Ask(item, token) == [item |-> item, token |-> token, at |-> clock,
                       newest |-> \A t \in DOMAIN shown : shown[t].workflow = shown[token].workflow => t <= token]

\* fetch: the plan first, then it is refused while one is running.
Fetch(token, w, items) ==
    /\ items # {}
    /\ plans' = Swept /\ current' = CurrentOf(Swept)
    /\ Redeemable(token, w) /\ items \subseteq Swept[token].items
    /\ queue = {} /\ worker = Free
    /\ queue' = {Ask(i, token) : i \in items}
    /\ UNCHANGED <<source, disk, owned, shown, clock, asks, worker, moves>>

\* A refused one still sweeps.
FetchRefused ==
    /\ plans' = Swept /\ current' = CurrentOf(Swept)
    /\ UNCHANGED <<source, disk, owned, shown, clock, asks, queue, worker, moves>>

-----------------------------------------------------------------------------
(* One item: a model from its URL, redirect by redirect, or a repository.  *)

Hops == UNION {[1..n -> {"listed", "other"}] : n \in 0..MaxRedirects + 1}
Followed(hops) == Len(hops) <= MaxRedirects /\ \A i \in 1..Len(hops) : hops[i] = "listed"
EndsAt(hops) == IF hops = <<>> THEN "listed" ELSE hops[Len(hops)]

Drop(s) == queue' = queue \ {s}

\* An existing destination is never touched; what comes is what the source serves now.
Begin(s) ==
    /\ worker = Free /\ s \in queue
    /\ Drop(s)
    /\ \E hops \in Hops :
        worker' = IF disk[s.item.target] = Absent /\ Listed(source[s.item.ref]) /\ Followed(hops)
                  THEN [pc |-> "staged", spec |-> s, got |-> source[s.item.ref], from |-> EndsAt(hops)]
                  ELSE Free
    /\ UNCHANGED <<source, disk, owned, plans, current, shown, clock, asks, moves>>

\* Released if it is the version of the plan, and the destination is still free.
Matches(got, item) == Pinned(item) => got = item.version
Release ==
    /\ worker.pc = "staged"
    /\ LET s == worker.spec
       IN  disk' = IF Matches(worker.got, s.item) /\ disk[s.item.target] = Absent
                   THEN [disk EXCEPT ![s.item.target] =
                            [by |-> "fetch", spec |-> s, got |-> worker.got, from |-> worker.from]]
                   ELSE disk
    /\ worker' = Free
    /\ UNCHANGED <<source, owned, plans, current, shown, clock, asks, queue, moves>>

-----------------------------------------------------------------------------
(* The world.                                                              *)

Tick ==
    /\ clock < MaxClock /\ clock' = clock + 1
    /\ UNCHANGED <<source, disk, owned, plans, current, shown, asks, queue, worker, moves>>

\* A remote moves, a workflow declares another source, a file is put by hand, a scan.
SourceMoves ==
    /\ Move
    /\ \E r \in Ref : \E s \in {NoSource} \cup Version : source' = [source EXCEPT ![r] = s]
    /\ UNCHANGED <<disk, owned, plans, current, shown, clock, asks, queue, worker>>

Put(d) ==
    /\ Move
    /\ disk[d] = Absent
    /\ disk' = [disk EXCEPT ![d] = Users] /\ owned' = owned \cup {d}
    /\ UNCHANGED <<source, plans, current, shown, clock, asks, queue, worker>>

\* The process ends: plans are consent, not data.
Restart ==
    /\ Move
    /\ plans' = <<>> /\ current' = [w \in Workflow |-> 0]
    /\ asks' = {} /\ worker' = Free
    /\ UNCHANGED <<source, disk, owned, shown, clock, queue>>

Next ==
    \/ \E w \in Workflow : Read(w)
    \/ \E a \in asks : Issue(a)
    \/ \E token \in DOMAIN shown : \E w \in Workflow :
         \E items \in SUBSET shown[token].items : Fetch(token, w, items)
    \/ FetchRefused
    \/ \E s \in queue : Begin(s)
    \/ Release \/ Tick \/ SourceMoves \/ Restart
    \/ \E d \in Destination : Put(d)

Spec == Init /\ [][Next]_plansVars

-----------------------------------------------------------------------------
(* Properties.                                                             *)

Fetched == {d \in Destination : disk[d].by = "fetch"}

\* Whatever was fetched was asked for, within its lifetime, out of the newest plan that the
\* user had been shown for that workflow: this item, at this place, from a listed host and,
\* where the plan names a commit or a checksum, in the version the plan showed.  No file of
\* the user was replaced.  And the two tables of plans agree: a held plan is the current
\* one of its workflow, and the other way round.
FetchedAsShown ==
    /\ \A d \in Fetched :
        LET p == disk[d].spec
            plan == shown[p.token]
        IN  /\ p.item \in plan.items /\ p.item.target = d
            /\ p.newest /\ p.at < plan.born + TTL
            /\ Pinned(p.item) => disk[d].got = p.item.version
            /\ disk[d].from = "listed"
    /\ \A d \in owned : disk[d] = Users
    /\ \A t \in DOMAIN plans : current[plans[t].workflow] = t
    /\ \A w \in Workflow : current[w] # 0 => current[w] \in DOMAIN plans
=============================================================================
