--------------------------- MODULE ServicesProofs ---------------------------
(***************************************************************************)
(* What services that share no state guarantee for any values of their     *)
(* constants, each from an inductive invariant of its own: enable plans    *)
(* (Plans), the application's own update (AppUpdate), ComfyUI's launcher   *)
(* (Launcher), the rows of a file (AssetRows), thumbnails (Thumbs), what   *)
(* is asked of other hosts (Online, UpdateChecks, NodeRegistry,            *)
(* Catalogue), settings (Config), agents (ToolServer), the migrations      *)
(* (Migrations), albums (Albums) and the answers about storage (Storage).  *)
(* MCServices checks the same properties on small instances.               *)
(***************************************************************************)
EXTENDS Services, SequenceTheorems, FiniteSetTheorems, WellFoundedInduction, TLAPS

-----------------------------------------------------------------------------
(* Side by side.  A step of the whole leaves the choice of services as it   *)
(* is, and is for each service one of its own steps or none.                *)

LEMMA Apart ==
    ASSUME [Next]_<<focus, services>>
    PROVE  /\ UNCHANGED focus
           /\ "rows" \in focus => [Rows!Next]_Rows!assetVars
           /\ "upgrade" \in focus => [Upgrade!Next]_Upgrade!migrationVars
           /\ "launcher" \in focus => [Launch!Next]_Launch!launcherVars
           /\ "release" \in focus => [Release!Next]_Release!updateVars
           /\ "plans" \in focus => [Planned!Next]_Planned!plansVars
           /\ "agents" \in focus => [Agents!Next]_Agents!serverVars
           /\ "thumbs" \in focus => [Tiles!Next]_Tiles!thumbsVars
           /\ "config" \in focus => [Conf!Next]_Conf!configVars
           /\ "online" \in focus => [Lookups!Next]_Lookups!onlineVars
           /\ "updates" \in focus => [Updates!Next]_Updates!updatesVars
           /\ "registry" \in focus => [Registry!Next]_Registry!registryVars
           /\ "catalogue" \in focus => [Served!Next]_Served!catalogueVars
           /\ "albums" \in focus => [Shelf!Next]_Shelf!albumVars
           /\ "storage" \in focus => [Space!Next]_Space!storageVars
<1>1. UNCHANGED focus
  BY DEF Next, Only
<1>2. "rows" \in focus => [Rows!Next]_Rows!assetVars
  BY DEF Next, Only, services, rowsVars, Rows!assetVars, Rows!Next
<1>3. "upgrade" \in focus => [Upgrade!Next]_Upgrade!migrationVars
  BY DEF Next, Only, services, upgradeVars, Upgrade!migrationVars
<1>4. "launcher" \in focus => [Launch!Next]_Launch!launcherVars
  BY DEF Next, Only, services, launcherVars, Launch!launcherVars
<1>5. "release" \in focus => [Release!Next]_Release!updateVars
  BY DEF Next, Only, services, releaseVars, Release!updateVars
<1>6. "plans" \in focus => [Planned!Next]_Planned!plansVars
  BY DEF Next, Only, services, plansVars, Planned!plansVars
<1>7. "agents" \in focus => [Agents!Next]_Agents!serverVars
  BY DEF Next, Only, services, agentsVars, Agents!serverVars
<1>8. "thumbs" \in focus => [Tiles!Next]_Tiles!thumbsVars
  BY DEF Next, Only, services, thumbsVars, Tiles!thumbsVars
<1>9. "config" \in focus => [Conf!Next]_Conf!configVars
  BY DEF Next, Only, services, configVars, Conf!configVars
<1>10. "online" \in focus => [Lookups!Next]_Lookups!onlineVars
  BY DEF Next, Only, services, onlineVars, Lookups!onlineVars
<1>11. "updates" \in focus => [Updates!Next]_Updates!updatesVars
  BY DEF Next, Only, services, updatesVars, Updates!updatesVars
<1>12. "registry" \in focus => [Registry!Next]_Registry!registryVars
  BY DEF Next, Only, services, registryVars, Registry!registryVars
<1>13. "catalogue" \in focus => [Served!Next]_Served!catalogueVars
  BY DEF Next, Only, services, catalogueVars, Served!catalogueVars
<1>14. "albums" \in focus => [Shelf!Next]_Shelf!albumVars
  BY DEF Next, Only, services, albumsVars, Shelf!albumVars
<1>15. "storage" \in focus => [Space!Next]_Space!storageVars
  BY DEF Next, Only, services, storageVars, Space!storageVars
<1>16. QED
  BY <1>1, <1>2, <1>3, <1>4, <1>5, <1>6, <1>7, <1>8, <1>9, <1>10, <1>11, <1>12, <1>13, <1>14,
     <1>15

\* The least of some ids is one of them.
LEMMA Least ==
    ASSUME NEW S, S \subseteq Nat, S # {}
    PROVE  /\ \E x \in S : \A y \in S : x <= y
           /\ (CHOOSE p \in S : \A q \in S : p <= q) \in S
<1>1. PICK x \in S : \A y \in S : <<y, x>> \notin OpToRel(<, Nat)
  BY WFMin, NatLessThanWellFounded, Zenon
<1>2. \A y \in S : y \in Nat /\ x \in Nat => ~(y < x)
  BY <1>1, Zenon DEF OpToRel
<1>3. \A y \in S : x <= y
  BY <1>2
<1>4. QED
  BY <1>3

-----------------------------------------------------------------------------
(* Enable plans (Plans).  A plan that is held is the one that was shown and *)
(* the newest of its workflow (Held); whatever is queued, in the worker's   *)
(* hand or on disk was asked for out of such a plan in time (Queued,        *)
(* Placed).                                                                 *)

\* What the bounds and the tables of dependencies are.
TablesGiven ==
    /\ Missing \in [Workflow -> SUBSET Dep]
    /\ MaxVersion \in Nat \ {0} /\ MaxRedirects \in Nat /\ TTL \in Nat

PlanItem == [ref : Planned!Ref, target : Planned!Destination, version : Planned!Version \cup {Planned!NoSource}]
Plan == [workflow : Workflow, born : Nat, items : SUBSET PlanItem]

Typed ==
    /\ source \in [Planned!Ref -> Planned!Version \cup {Planned!NoSource}]
    /\ DOMAIN disk = Planned!Destination
    /\ shown \in Seq(Plan)
    /\ DOMAIN plans \subseteq DOMAIN shown /\ DOMAIN plans \subseteq Nat
    /\ current \in [Workflow -> Nat]
    /\ clock \in Nat
    /\ asks \subseteq [workflow : Workflow, items : SUBSET PlanItem]

\* A held plan is the one that was shown, the newest of its workflow, and current.
Held ==
    /\ \A t \in DOMAIN plans :
         /\ plans[t] = shown[t] /\ current[plans[t].workflow] = t
         /\ \A u \in DOMAIN shown : shown[u].workflow = shown[t].workflow => u <= t
    /\ \A w \in Workflow : current[w] # 0 => current[w] \in DOMAIN plans
                                             /\ plans[current[w]].workflow = w

\* What was asked for, out of a plan that was the newest and in time.
Consented(s) ==
    /\ s.token \in DOMAIN shown /\ s.item \in shown[s.token].items
    /\ s.newest /\ s.at < shown[s.token].born + TTL

Queued ==
    /\ \A s \in queue : Consented(s)
    /\ worker.pc = "staged" => Consented(worker.spec) /\ worker.from = "listed"

Placed ==
    /\ \A d \in Planned!Fetched :
         /\ Consented(disk[d].spec) /\ disk[d].spec.item.target = d
         /\ Planned!Pinned(disk[d].spec.item) => disk[d].got = disk[d].spec.item.version
         /\ disk[d].from = "listed"
    /\ \A d \in owned : disk[d] = Planned!Users

PlansInv == Typed /\ Held /\ Queued /\ Placed

-----------------------------------------------------------------------------
\* What was shown is a plan.
LEMMA ShownIsPlan ==
    ASSUME Typed, NEW t \in DOMAIN shown
    PROVE  shown[t].workflow \in Workflow /\ shown[t].born \in Nat /\ t \in Nat
<1>1. shown[t] \in Plan /\ t \in Nat
  BY DEF Typed
<1>2. QED
  BY <1>1 DEF Plan

\* A sweep keeps plans as they are, and none that has expired.
LEMMA SweptHeld ==
    ASSUME Typed, Held, TablesGiven
    PROVE  /\ DOMAIN Planned!Swept \subseteq DOMAIN plans
           /\ \A t \in DOMAIN Planned!Swept :
                /\ Planned!Swept[t] = plans[t] /\ ~Planned!Expired(plans[t])
                /\ Planned!CurrentOf(Planned!Swept)[plans[t].workflow] = t
           /\ Planned!CurrentOf(Planned!Swept) \in [Workflow -> Nat]
           /\ \A w \in Workflow :
                Planned!CurrentOf(Planned!Swept)[w] # 0 => /\ Planned!CurrentOf(Planned!Swept)[w] \in DOMAIN Planned!Swept
                                           /\ plans[Planned!CurrentOf(Planned!Swept)[w]].workflow = w
<1> DEFINE alive == Planned!Without(plans, {t \in DOMAIN plans : Planned!Expired(plans[t])})
<1>1. /\ DOMAIN alive \subseteq DOMAIN plans
      /\ \A t \in DOMAIN alive : alive[t] = plans[t] /\ ~Planned!Expired(plans[t])
  BY DEF Planned!Without
<1> HIDE DEF alive
<1>2. /\ DOMAIN Planned!SweepOne(alive) \subseteq DOMAIN alive
      /\ \A t \in DOMAIN Planned!SweepOne(alive) : Planned!SweepOne(alive)[t] = alive[t]
  BY DEF Planned!SweepOne, Planned!Without
<1>3. Planned!Swept = Planned!SweepOne(alive)
  BY DEF Planned!Swept, alive
<1> HIDE DEF Planned!SweepOne
<1>4. /\ DOMAIN Planned!Swept \subseteq DOMAIN plans
      /\ \A t \in DOMAIN Planned!Swept : Planned!Swept[t] = plans[t] /\ ~Planned!Expired(plans[t])
  BY <1>1, <1>2, <1>3
<1>5. \A t \in DOMAIN plans : plans[t].workflow \in Workflow /\ t \in Nat
  BY ShownIsPlan DEF Held, Typed
<1>6. \A w \in Workflow :
        Planned!CurrentOf(Planned!Swept)[w] = IF current[w] \in DOMAIN Planned!Swept THEN current[w] ELSE 0
  BY DEF Planned!CurrentOf
<1>7. Planned!CurrentOf(Planned!Swept) \in [Workflow -> Nat]
  BY DEF Planned!CurrentOf, Typed
<1>8. QED
  BY <1>4, <1>5, <1>6, <1>7 DEF Held

\* After any request that only sweeps.
LEMMA SweepKeeps ==
    ASSUME Typed, Held, TablesGiven, plans' = Planned!Swept, current' = Planned!CurrentOf(Planned!Swept),
           UNCHANGED <<source, disk, shown, clock>>,
           asks' \subseteq [workflow : Workflow, items : SUBSET PlanItem]
    PROVE  Typed' /\ Held'
<1>1. Typed'
  BY SweptHeld DEF Typed
<1>2. Held'
  BY SweptHeld DEF Held
<1>3. QED
  BY <1>1, <1>2

\* What was agreed to stays so while plans are only added.
LEMMA ConsentLasts ==
    ASSUME Typed, NEW s, Consented(s), DOMAIN shown \subseteq DOMAIN shown',
           \A t \in DOMAIN shown : shown'[t] = shown[t]
    PROVE  Consented(s)'
BY DEF Consented

LEMMA ReadKeeps ==
    ASSUME PlansInv, TablesGiven, NEW w \in Workflow, Planned!Read(w)
    PROVE  PlansInv'
<1>1. PICK f \in Planned!Vias(w) : asks' = asks \cup {[workflow |-> w, items |-> Planned!Items(f)]}
  BY DEF Planned!Read
<1>2. ASSUME NEW r \in DOMAIN f
      PROVE  Planned!Payload(r, f[r]) \in PlanItem
  <2>1. r \in Planned!Ref /\ f[r] \in Dep /\ RefOf[f[r]] = r
    BY <1>1, <1>2 DEF Planned!Vias, TablesGiven, Planned!Ref
  <2>2. source[r] \in Planned!Version \cup {Planned!NoSource}
    BY <2>1 DEF PlansInv, Typed
  <2>3. Planned!Target(r, f[r]) \in Planned!Destination
    BY <2>1 DEF Planned!Target, Planned!Category, Planned!Destination
  <2>4. QED
    BY <2>1, <2>2, <2>3 DEF Planned!Payload, PlanItem
<1>3. Planned!Items(f) \subseteq PlanItem
  BY <1>2 DEF Planned!Items
<1>4. Typed'
  BY <1>1, <1>3 DEF PlansInv, Typed, Planned!Read
<1>5. Held' /\ Queued' /\ Placed'
  BY DEF PlansInv, Held, Queued, Placed, Planned!Read, Planned!Fetched, Consented
<1>6. QED
  BY <1>4, <1>5 DEF PlansInv

LEMMA IssueKeeps ==
    ASSUME PlansInv, TablesGiven, NEW a \in asks, Planned!Issue(a)
    PROVE  PlansInv'
<1> DEFINE w     == a.workflow
           token == Len(shown) + 1
           last  == Planned!CurrentOf(Planned!Swept)[w]
           others  == Planned!Without(Planned!Swept, {last})
           plan  == [workflow |-> w, born |-> clock, items |-> a.items]
<1>1. /\ plans' = [t \in DOMAIN others \cup {token} |-> IF t = token THEN plan ELSE others[t]]
      /\ current' = [Planned!CurrentOf(Planned!Swept) EXCEPT ![w] = token]
      /\ shown' = Append(shown, plan) /\ asks' = asks \ {a}
      /\ UNCHANGED <<source, disk, owned, clock, queue, worker>>
  BY DEF Planned!Issue
<1>2. w \in Workflow /\ plan \in Plan /\ plan.workflow = w
  BY DEF PlansInv, Typed, Plan
<1>3. /\ shown' \in Seq(Plan) /\ token \in Nat \ {0} /\ DOMAIN shown = 1..Len(shown)
      /\ DOMAIN shown' = DOMAIN shown \cup {token} /\ token \notin DOMAIN shown
      /\ shown'[token] = plan /\ \A t \in DOMAIN shown : shown'[t] = shown[t] /\ t < token
  <2> HIDE DEF plan
  <2>1. shown \in Seq(Plan)
    BY DEF PlansInv, Typed
  <2>2. QED
    BY <1>1, <1>2, <2>1
<1>4. /\ DOMAIN others = DOMAIN Planned!Swept \ {last}
      /\ \A t \in DOMAIN others : others[t] = Planned!Swept[t]
  BY DEF Planned!Without
<1>5. /\ DOMAIN Planned!Swept \subseteq DOMAIN plans
      /\ \A t \in DOMAIN Planned!Swept : Planned!Swept[t] = plans[t] /\ Planned!CurrentOf(Planned!Swept)[plans[t].workflow] = t
      /\ Planned!CurrentOf(Planned!Swept) \in [Workflow -> Nat]
      /\ \A v \in Workflow : Planned!CurrentOf(Planned!Swept)[v] # 0 =>
             Planned!CurrentOf(Planned!Swept)[v] \in DOMAIN Planned!Swept /\ plans[Planned!CurrentOf(Planned!Swept)[v]].workflow = v
  BY SweptHeld DEF PlansInv
<1>6. /\ DOMAIN plans' = DOMAIN others \cup {token} /\ plans'[token] = plan
      /\ \A t \in DOMAIN others : t # token /\ plans'[t] = plans[t]
  <2>1. \A t \in DOMAIN others : t # token
    BY <1>3, <1>4, <1>5 DEF PlansInv, Typed
  <2> HIDE DEF others, plan
  <2>2. QED
    BY <1>1, <1>4, <1>5, <2>1
<1>7. /\ current'[w] = token /\ current' \in [Workflow -> Nat]
      /\ \A v \in Workflow \ {w} : current'[v] = Planned!CurrentOf(Planned!Swept)[v]
  BY <1>1, <1>2, <1>3, <1>5
<1>8. \A t \in DOMAIN others : /\ t \in DOMAIN plans /\ t \in DOMAIN shown /\ plans[t] = shown[t]
                             /\ shown[t].workflow \in Workflow \ {w}
  <2>1. ASSUME NEW t \in DOMAIN others
        PROVE  /\ t \in DOMAIN plans /\ t \in DOMAIN shown /\ plans[t] = shown[t]
               /\ shown[t].workflow \in Workflow /\ shown[t].workflow # w
    <3>1. t \in DOMAIN plans /\ t # last /\ Planned!CurrentOf(Planned!Swept)[plans[t].workflow] = t
      BY <1>4, <1>5
    <3>2. t \in DOMAIN shown /\ plans[t] = shown[t]
      BY <3>1 DEF PlansInv, Typed, Held
    <3>3. shown[t].workflow \in Workflow
      BY <3>2, ShownIsPlan DEF PlansInv
    <3>4. QED
      BY <3>1, <3>2, <3>3
  <2>2. QED
    BY <2>1
<1> HIDE DEF others, plan, token
<1>9. Typed'
  <2>1. DOMAIN plans' \subseteq DOMAIN shown' /\ DOMAIN plans' \subseteq Nat
    BY <1>3, <1>6, <1>8 DEF PlansInv, Typed
  <2>2. QED
    BY <1>1, <1>3, <1>7, <2>1 DEF PlansInv, Typed
<1>10. Held'
  <2>1. ASSUME NEW t \in DOMAIN plans'
        PROVE  /\ plans'[t] = shown'[t] /\ current'[plans'[t].workflow] = t
               /\ \A u \in DOMAIN shown' : shown'[u].workflow = shown'[t].workflow => u <= t
    <3>1. CASE t = token
      <4>1. \A u \in DOMAIN shown' : u <= token
        BY <1>3
      <4>2. QED
        BY <1>2, <1>3, <1>6, <1>7, <3>1, <4>1
    <3>2. CASE t \in DOMAIN others
      <4>1. /\ plans'[t] = shown[t] /\ shown'[t] = shown[t] /\ shown[t].workflow \in Workflow \ {w}
            /\ current'[shown[t].workflow] = t
        BY <1>3, <1>4, <1>5, <1>6, <1>7, <1>8, <3>2
      <4>2. \A u \in DOMAIN shown : shown[u].workflow = shown[t].workflow => u <= t
        BY <1>8, <3>2 DEF PlansInv, Held
      <4>3. \A u \in DOMAIN shown' : shown'[u].workflow = shown'[t].workflow => u \in DOMAIN shown
        BY <1>2, <1>3, <4>1
      <4>4. QED
        BY <1>3, <4>1, <4>2, <4>3
    <3>3. QED
      BY <1>6, <2>1, <3>1, <3>2
  <2>2. ASSUME NEW v \in Workflow, current'[v] # 0
        PROVE  current'[v] \in DOMAIN plans' /\ plans'[current'[v]].workflow = v
    <3>1. CASE v = w
      BY <1>2, <1>6, <1>7, <3>1
    <3>2. CASE v # w
      <4>1. current'[v] \in DOMAIN Planned!Swept /\ plans[current'[v]].workflow = v
        BY <1>5, <1>7, <2>2, <3>2
      <4>2. current'[v] # last
        BY <1>2, <1>5, <2>2, <1>7, <3>2, <4>1
      <4>3. QED
        BY <1>4, <1>6, <4>1, <4>2
    <3>3. QED
      BY <3>1, <3>2
  <2>3. QED
    BY <2>1, <2>2 DEF Held
<1>11. \A s : Consented(s) => Consented(s)'
  BY <1>3, ConsentLasts DEF PlansInv
<1>12. Queued' /\ Placed'
  BY <1>1, <1>11 DEF PlansInv, Queued, Placed, Planned!Fetched
<1>13. QED
  BY <1>9, <1>10, <1>12 DEF PlansInv

LEMMA FetchKeeps ==
    ASSUME PlansInv, TablesGiven, NEW token \in DOMAIN shown, NEW w \in Workflow,
           NEW items \in SUBSET shown[token].items, Planned!Fetch(token, w, items)
    PROVE  PlansInv'
<1>1. /\ plans' = Planned!Swept /\ current' = Planned!CurrentOf(Planned!Swept)
      /\ token \in DOMAIN Planned!Swept /\ items \subseteq Planned!Swept[token].items
      /\ queue' = {Planned!Ask(i, token) : i \in items}
      /\ UNCHANGED <<source, disk, owned, shown, clock, asks, worker>>
  BY DEF Planned!Fetch, Planned!Redeemable
<1>2. Typed' /\ Held'
  BY <1>1, SweepKeeps DEF PlansInv, Typed
<1>3. ASSUME NEW i \in items
      PROVE  Consented(Planned!Ask(i, token))
  <2>1. Planned!Swept[token] = shown[token] /\ token \in DOMAIN plans /\ ~Planned!Expired(shown[token])
    BY <1>1, SweptHeld DEF PlansInv, Held
  <2>2. clock < shown[token].born + TTL
    <3>1. shown[token].born \in Nat /\ clock \in Nat /\ TTL \in Nat
      BY ShownIsPlan DEF PlansInv, Typed, TablesGiven
    <3>2. QED
      BY <2>1, <3>1 DEF Planned!Expired
  <2>3. \A t \in DOMAIN shown : shown[t].workflow = shown[token].workflow => t <= token
    BY <2>1 DEF PlansInv, Held
  <2>4. QED
    BY <2>2, <2>3, <1>3 DEF Consented, Planned!Ask
<1>4. Queued'
  BY <1>1, <1>3 DEF PlansInv, Queued, Consented
<1>5. Placed'
  BY <1>1 DEF PlansInv, Placed, Planned!Fetched, Consented
<1>6. QED
  BY <1>2, <1>4, <1>5 DEF PlansInv

LEMMA BeginKeeps ==
    ASSUME PlansInv, TablesGiven, NEW s \in queue, Planned!Begin(s)
    PROVE  PlansInv'
<1>1. PICK hops \in Planned!Hops :
        worker' = IF disk[s.item.target] = Planned!Absent /\ Planned!Listed(source[s.item.ref]) /\ Planned!Followed(hops)
                  THEN [pc |-> "staged", spec |-> s, got |-> source[s.item.ref], from |-> Planned!EndsAt(hops)]
                  ELSE Planned!Free
  BY DEF Planned!Begin
<1>2. /\ queue' = queue \ {s}
      /\ UNCHANGED <<source, disk, owned, plans, current, shown, clock, asks>>
  BY DEF Planned!Begin, Planned!Drop
<1>3. Planned!Followed(hops) => Planned!EndsAt(hops) = "listed"
  <2>1. PICK n \in 0..MaxRedirects + 1 : hops \in [1..n -> {"listed", "other"}]
    BY DEF Planned!Hops
  <2>2. n \in Nat /\ Len(hops) = n
    BY <2>1 DEF TablesGiven
  <2>3. hops # <<>> => Len(hops) \in 1..Len(hops)
    BY <2>1, <2>2
  <2>4. QED
    BY <2>3 DEF Planned!Followed, Planned!EndsAt
<1>4. Typed' /\ Held' /\ Placed'
  BY <1>2 DEF PlansInv, Typed, Held, Placed, Planned!Fetched, Consented
<1>5. worker'.pc = "staged" => Consented(worker'.spec) /\ worker'.from = "listed"
  BY <1>1, <1>3 DEF PlansInv, Queued, Planned!Free
<1>6. Queued'
  BY <1>2, <1>5 DEF PlansInv, Queued, Consented
<1>7. QED
  BY <1>4, <1>6 DEF PlansInv

LEMMA ReleaseKeeps ==
    ASSUME PlansInv, Planned!Release
    PROVE  PlansInv'
<1> DEFINE s    == worker.spec
           here == s.item.target
           fetched == [by |-> "fetch", spec |-> s, got |-> worker.got, from |-> worker.from]
<1>1. /\ worker' = Planned!Free
      /\ UNCHANGED <<source, owned, plans, current, shown, clock, asks, queue>>
  BY DEF Planned!Release
<1>2. /\ Consented(s) /\ worker.from = "listed"
  BY DEF Planned!Release, PlansInv, Queued
<1>3. \/ disk' = disk
      \/ /\ disk' = [disk EXCEPT ![here] = fetched]
         /\ Planned!Matches(worker.got, s.item) /\ disk[here] = Planned!Absent
  BY DEF Planned!Release
<1>4. Typed' /\ Held' /\ Queued'
  BY <1>1, <1>3 DEF PlansInv, Typed, Held, Queued, Consented, Planned!Free
<1>5. DOMAIN disk = Planned!Destination
  BY DEF PlansInv, Typed
<1>6. Placed'
  <2>1. CASE disk' = disk
    BY <1>1, <2>1 DEF PlansInv, Placed, Planned!Fetched, Consented
  <2>2. CASE /\ disk' = [disk EXCEPT ![here] = fetched]
             /\ Planned!Matches(worker.got, s.item) /\ disk[here] = Planned!Absent
    <3>1. /\ \A d \in Planned!Destination \ {here} : disk'[d] = disk[d]
          /\ here \in Planned!Destination => disk'[here] = fetched
      BY <1>5, <2>2
    <3>2. /\ fetched.spec = s /\ fetched.from = "listed"
          /\ Planned!Pinned(s.item) => fetched.got = s.item.version
      BY <1>2, <2>2 DEF Planned!Matches
    <3>3. \A d \in owned : disk'[d] = Planned!Users
      BY <1>5, <2>2 DEF PlansInv, Placed, Planned!Absent, Planned!Users
    <3>4. ASSUME NEW d \in Planned!Fetched'
          PROVE  /\ Consented(disk'[d].spec) /\ disk'[d].spec.item.target = d
                 /\ Planned!Pinned(disk'[d].spec.item) => disk'[d].got = disk'[d].spec.item.version
                 /\ disk'[d].from = "listed"
      <4>1. CASE d = here
        BY <1>2, <3>1, <3>2, <4>1 DEF Planned!Fetched
      <4>2. CASE d # here
        BY <3>1, <4>2 DEF PlansInv, Placed, Planned!Fetched
      <4>3. QED
        BY <4>1, <4>2
    <3>5. QED
      BY <1>1, <3>3, <3>4 DEF Placed, Consented
  <2>3. QED
    BY <1>3, <2>1, <2>2
<1>7. QED
  BY <1>4, <1>6 DEF PlansInv

\* Sources move, files are put by hand, time passes, the process starts again.
LEMMA WorldKeeps ==
    ASSUME PlansInv, TablesGiven,
           Planned!Tick \/ Planned!SourceMoves \/ Planned!Restart \/ \E d \in Planned!Destination : Planned!Put(d)
    PROVE  PlansInv'
<1>1. CASE Planned!Tick
  BY <1>1 DEF Planned!Tick, PlansInv, Typed, Held, Queued, Placed, Planned!Fetched, Consented
<1>2. CASE Planned!SourceMoves
  <2>1. source' \in [Planned!Ref -> Planned!Version \cup {Planned!NoSource}]
    BY <1>2 DEF Planned!SourceMoves, PlansInv, Typed
  <2>2. QED
    BY <1>2, <2>1 DEF Planned!SourceMoves, PlansInv, Typed, Held, Queued, Placed, Planned!Fetched, Consented
<1>3. CASE Planned!Restart
  <2>1. plans' = <<>> /\ DOMAIN plans' = {} /\ current' = [w \in Workflow |-> 0] /\ worker' = Planned!Free
        /\ asks' = {} /\ UNCHANGED <<source, disk, owned, shown, clock, queue>>
    BY <1>3 DEF Planned!Restart
  <2>2. QED
    BY <2>1 DEF PlansInv, Typed, Held, Queued, Placed, Planned!Fetched, Consented, Planned!Free
<1>4. ASSUME NEW d \in Planned!Destination, Planned!Put(d) PROVE PlansInv'
  <2>1. /\ disk' = [disk EXCEPT ![d] = Planned!Users] /\ owned' = owned \cup {d}
        /\ UNCHANGED <<source, plans, current, shown, clock, asks, queue, worker>>
    BY <1>4 DEF Planned!Put
  <2>2. /\ disk'[d] = Planned!Users /\ \A e \in Planned!Destination \ {d} : disk'[e] = disk[e]
        /\ DOMAIN disk' = Planned!Destination
    BY <2>1 DEF PlansInv, Typed
  <2>3. Planned!Users.by = "user"
    BY DEF Planned!Users
  <2>4. \A e \in owned : disk'[e] = Planned!Users
    BY <2>1, <2>2 DEF PlansInv, Placed, Typed
  <2>5. Planned!Fetched' \subseteq Planned!Fetched \ {d}
    BY <2>2, <2>3 DEF Planned!Fetched
  <2>6. Placed'
    BY <2>1, <2>2, <2>4, <2>5 DEF PlansInv, Placed, Consented, Planned!Fetched
  <2>7. QED
    BY <2>1, <2>2, <2>6 DEF PlansInv, Typed, Held, Queued, Consented
<1>5. QED
  BY <1>1, <1>2, <1>3, <1>4

LEMMA InitKeeps == ASSUME TablesGiven, Planned!Init PROVE PlansInv
<1>1. Typed
  BY DEF TablesGiven, Planned!Init, Typed, Planned!Version, Planned!NoSource
<1>2. Held /\ Queued /\ Placed
  BY DEF Planned!Init, Held, Queued, Placed, Planned!Fetched, Planned!Free, Planned!Absent
<1>3. QED
  BY <1>1, <1>2 DEF PlansInv

LEMMA InductiveInv == ASSUME TablesGiven, PlansInv, [Planned!Next]_Planned!plansVars PROVE PlansInv'
<1>1. CASE UNCHANGED Planned!plansVars
  BY <1>1 DEF Planned!plansVars, PlansInv, Typed, Held, Queued, Placed, Planned!Fetched, Consented
<1>2. CASE Planned!FetchRefused
  <2>1. Typed' /\ Held'
    BY <1>2, SweepKeeps DEF Planned!FetchRefused, PlansInv, Typed
  <2>2. QED
    BY <1>2, <2>1 DEF Planned!FetchRefused, PlansInv, Queued, Placed, Planned!Fetched, Consented
<1>3. CASE Planned!Next /\ ~Planned!FetchRefused
  BY <1>3, ReadKeeps, IssueKeeps, FetchKeeps, BeginKeeps, ReleaseKeeps, WorldKeeps DEF Planned!Next
<1>4. QED
  BY <1>1, <1>2, <1>3

\* Whatever is fetched was shown in the newest plan of its workflow and confirmed in time,
\* from a listed host and in the version shown, and no file of the user is replaced, for any
\* workflows, dependencies, sources, redirects and lifetimes (enable/plan.py, report.py,
\* sources.py, git_fetch.py).
THEOREM WhatWasShownIsFetched == Spec => []FetchedAsShown
<1> DEFINE Inv == "plans" \in focus => PlansInv
<1>1. TablesGiven
  BY ServicesOK DEF TablesGiven
<1>2. Init => Inv
  BY <1>1, InitKeeps DEF Init
<1>3. Inv /\ [Next]_<<focus, services>> => Inv'
  BY <1>1, InductiveInv, Apart
<1>4. Inv => FetchedAsShown
  BY DEF FetchedAsShown, PlansInv, Typed, Held, Placed, Planned!FetchedAsShown, Consented
<1>5. QED
  BY <1>2, <1>3, <1>4, PTL DEF Spec

-----------------------------------------------------------------------------
(* The application's update (AppUpdate).  While nothing mixed releases, one *)
(* download fills the stage and a marker says that the stage is whole; a    *)
(* start script moves files only while no engine runs, and at each of its   *)
(* steps what is in place and what is aside are together the old release.   *)

Published == {1} \cup Latest
Phase == {"none", "start", "targets", "set dir aside", "swap", "roll back"}
Tree == [Release!Files -> {0} \cup Published]

UpdateTyped ==
    /\ live \in Tree /\ staged \in Tree /\ backup \in Tree
    /\ marker \in {0} \cup Latest
    /\ download \in [Client -> [pc : {"idle", "unpacking"}, version : {0} \cup Latest,
                                    todo : SUBSET Release!Files]]
    /\ apply \in [pc : Phase, todo : SUBSET Release!Files, moved : Seq(SUBSET Release!Files)]

Unpacked(v, todo) == [f \in Release!Files |-> IF f \in Release!Ships(v) \ todo THEN v ELSE 0]
Whole == \E v \in Published : live = Release!Tree(v)
Unmoved == apply.pc \in {"none", "start", "targets", "set dir aside"}

OneStage ==
    /\ \A d, e \in Client : download[d].pc # "idle" /\ download[e].pc # "idle" => d = e
    /\ \A d \in Client : download[d].pc # "idle" =>
         /\ engine = "up" /\ marker = 0 /\ download[d].version \in Latest
         /\ download[d].todo \subseteq Release!Ships(download[d].version)
         /\ staged = Unpacked(download[d].version, download[d].todo)
    /\ marker # 0 /\ Unmoved => staged = Release!Tree(marker)

Alone ==
    /\ apply.pc \notin {"none", "start"} => engine # "up" /\ marker # 0
    /\ apply.pc = "none" => apply = Release!NoApply
    /\ apply.pc \in {"targets", "set dir aside"} => apply.moved = <<>>
    /\ apply.pc = "set dir aside" => apply.todo = Release!Ships(marker)

\* The directory is aside, and so is the script if the list of moves says it.
Aside(v) ==
    /\ \A f \in Release!InDir : backup[f] = Release!Tree(v)[f]
    /\ \/ apply.moved = <<Release!InDir>> /\ live["script"] = v
       \/ apply.moved = <<Release!InDir, {"script"}>> /\ backup["script"] = v

Moving ==
    /\ Unmoved => Whole
    /\ apply.pc = "swap" =>
         /\ \E v \in Published : Aside(v)
         /\ apply.todo \subseteq Release!Ships(marker)
         /\ \A f \in Release!Files : staged[f] = IF f \in apply.todo THEN marker ELSE 0
         /\ \A f \in Release!InDir : live[f] = IF f \in Release!Ships(marker) \ apply.todo THEN marker ELSE 0
         /\ "script" \notin apply.todo =>
                live["script"] = marker /\ apply.moved = <<Release!InDir, {"script"}>>
    /\ apply.pc = "roll back" =>
         \/ apply.moved = <<>> /\ Whole
         \/ \E v \in Published : Aside(v)

Separate == UpdateTyped /\ OneStage /\ Alone /\ Moving

LEMMA TreeFacts ==
    ASSUME 0 \notin Latest, NEW v \in Published
    PROVE  /\ v # 0 /\ Release!Tree(v) \in Tree
           /\ Release!Ships(v) \subseteq Release!Files /\ "kept" \in Release!Ships(v) /\ "script" \in Release!Ships(v)
           /\ \A f \in Release!Files : Release!Tree(v)[f] = IF f \in Release!Ships(v) THEN v ELSE 0
           /\ Release!In(Release!Tree(v)) = Release!Ships(v)
           /\ "kept" \in Release!InDir /\ "script" \notin Release!InDir
           /\ Release!Files = Release!InDir \cup {"script"} /\ Release!InDir \subseteq Release!Files
<1>1. v # 0
  BY DEF Published
<1>2. /\ Release!Ships(v) \subseteq Release!Files /\ "kept" \in Release!Ships(v) /\ "script" \in Release!Ships(v)
      /\ "kept" \in Release!InDir /\ "script" \notin Release!InDir
      /\ Release!Files = Release!InDir \cup {"script"} /\ Release!InDir \subseteq Release!Files
  BY DEF Release!Ships, Release!Files, Release!InDir
<1>3. /\ Release!Tree(v) \in Tree
      /\ \A f \in Release!Files : Release!Tree(v)[f] = IF f \in Release!Ships(v) THEN v ELSE 0
  BY DEF Release!Tree, Tree
<1>4. Release!In(Release!Tree(v)) = Release!Ships(v)
  BY <1>1, <1>2, <1>3 DEF Release!In
<1>5. QED
  BY <1>1, <1>2, <1>3, <1>4

\* Nothing is moved while an engine runs or a download fills the stage.
LEMMA EngineUp ==
    ASSUME Separate, engine = "up"
    PROVE  Unmoved /\ apply.pc \in {"none", "start"}
BY DEF Separate, Alone, Unmoved, UpdateTyped, Phase

LEMMA DownloadKeeps ==
    ASSUME 0 \notin Latest, Separate, ~mixed', NEW d \in Client,
           \/ \E v \in Latest : Release!Stage(d, v)
           \/ \E f \in Release!Files : Release!Unpack(d, f)
           \/ Release!Mark(d) \/ Release!UnpackFails(d)
    PROVE  Separate'
<1>1. ASSUME NEW v \in Latest, Release!Stage(d, v) PROVE Separate'
  <2>1. /\ engine = "up" /\ marker = 0 /\ \A e \in Client : download[e].pc = "idle"
        /\ staged' = Release!Empty /\ UNCHANGED <<live, backup, marker, engine, apply>>
        /\ download' = [download EXCEPT ![d] = [pc |-> "unpacking", version |-> v,
                                                todo |-> Release!Ships(v)]]
    BY <1>1 DEF Release!Stage, Release!Busy, Release!Reset
  <2>2. Release!Ships(v) \subseteq Release!Files
    BY TreeFacts DEF Published
  <2>3. /\ download'[d].pc = "unpacking" /\ download'[d].version = v
        /\ download'[d].todo = Release!Ships(v)
        /\ \A e \in Client \ {d} : download'[e].pc = "idle"
    BY <2>1 DEF Separate, UpdateTyped
  <2>4. UpdateTyped'
    BY <2>1, <2>2 DEF Separate, UpdateTyped, Release!Empty, Tree
  <2>5. staged' = Unpacked(v, Release!Ships(v))
    BY <2>1 DEF Release!Empty, Unpacked
  <2>6. OneStage'
    BY <2>1, <2>3, <2>5 DEF OneStage, Unpacked
  <2>7. Alone' /\ Moving'
    BY <2>1 DEF Separate, Alone, Moving, Unmoved, Whole, Aside
  <2>8. QED
    BY <2>4, <2>6, <2>7 DEF Separate
<1>2. ASSUME NEW f \in Release!Files, Release!Unpack(d, f) PROVE Separate'
  <2> DEFINE v == download[d].version
             todo == download[d].todo
  <2>1. /\ download[d].pc = "unpacking" /\ f \in todo
        /\ staged' = [staged EXCEPT ![f] = v]
        /\ download' = [download EXCEPT ![d].todo = @ \ {f}]
        /\ UNCHANGED <<live, backup, marker, engine, apply>>
    BY <1>2 DEF Release!Unpack
  <2>2. /\ engine = "up" /\ marker = 0 /\ v \in Latest /\ todo \subseteq Release!Ships(v)
        /\ staged = Unpacked(v, todo)
        /\ \A e \in Client \ {d} : download[e].pc = "idle"
    BY <2>1 DEF Separate, OneStage
  <2>3. /\ download'[d].pc = "unpacking" /\ download'[d].version = v
        /\ download'[d].todo = todo \ {f}
        /\ \A e \in Client \ {d} : download'[e] = download[e]
    BY <2>1 DEF Separate, UpdateTyped
  <2>4. UpdateTyped'
    <3>1. v \in {0} \cup Published
      BY <2>2 DEF Published
    <3>2. staged' \in Tree
      BY <2>1, <3>1 DEF Separate, UpdateTyped, Tree
    <3>3. QED
      BY <2>1, <3>2 DEF Separate, UpdateTyped
  <2>5. staged' = Unpacked(v, todo \ {f})
    <3>1. f \in Release!Ships(v)
      BY <2>1, <2>2
    <3> HIDE DEF v, todo
    <3>2. QED
      BY <2>1, <2>2, <3>1 DEF Unpacked
  <2>6. OneStage'
    <3>1. todo \ {f} \subseteq Release!Ships(v)
      BY <2>2
    <3>2. \A e \in Client : download'[e].pc # "idle" => e = d
      BY <2>2, <2>3
    <3> HIDE DEF v, todo
    <3>3. QED
      BY <2>1, <2>2, <2>3, <2>5, <3>1, <3>2 DEF OneStage
  <2>7. Alone' /\ Moving'
    BY <2>1, <2>2, EngineUp DEF Separate, Alone, Moving, Unmoved, Whole, Aside
  <2>8. QED
    BY <2>4, <2>6, <2>7 DEF Separate
<1>3. CASE Release!Mark(d)
  <2> DEFINE v == download[d].version
  <2>1. /\ download[d].pc = "unpacking" /\ download[d].todo = {}
        /\ marker' = v /\ download' = [download EXCEPT ![d] = Release!Quiet]
        /\ UNCHANGED <<live, staged, backup, engine, apply>>
    BY <1>3 DEF Release!Mark
  <2>2. /\ engine = "up" /\ v \in Latest /\ staged = Unpacked(v, {})
        /\ \A e \in Client \ {d} : download[e].pc = "idle"
    BY <2>1 DEF Separate, OneStage
  <2>3. \A e \in Client : download'[e].pc = "idle"
    BY <2>1, <2>2 DEF Separate, UpdateTyped, Release!Quiet
  <2>4. staged = Release!Tree(v)
    BY <2>2 DEF Unpacked, Release!Tree
  <2>5. apply.pc \in {"none", "start"}
    BY <2>2, EngineUp
  <2>6. UpdateTyped'
    BY <2>1, <2>2 DEF Separate, UpdateTyped, Release!Quiet
  <2>7. OneStage'
    BY <2>1, <2>3, <2>4 DEF OneStage
  <2>8. Alone' /\ Moving'
    BY <2>1, <2>5 DEF Separate, Alone, Moving, Unmoved, Whole, Aside
  <2>9. QED
    BY <2>6, <2>7, <2>8 DEF Separate
<1>4. CASE Release!UnpackFails(d)
  <2>1. /\ download' = [download EXCEPT ![d] = Release!Quiet]
        /\ UNCHANGED <<live, staged, backup, marker, engine, apply>>
    BY <1>4 DEF Release!UnpackFails
  <2>2. download'[d].pc = "idle" /\ \A e \in Client \ {d} : download'[e] = download[e]
    BY <2>1 DEF Separate, UpdateTyped, Release!Quiet
  <2>3. UpdateTyped'
    BY <2>1 DEF Separate, UpdateTyped, Release!Quiet
  <2>4. OneStage'
    BY <2>1, <2>2 DEF Separate, OneStage, Unmoved
  <2>5. Alone' /\ Moving'
    BY <2>1 DEF Separate, Alone, Moving, Unmoved, Whole, Aside
  <2>6. QED
    BY <2>3, <2>4, <2>5 DEF Separate
<1>5. QED
  BY <1>1, <1>2, <1>3, <1>4

LEMMA DiscardKeeps ==
    ASSUME Separate, ~mixed', Release!Discard
    PROVE  Separate'
<1>1. /\ engine = "up" /\ \A d \in Client : download[d].pc = "idle"
      /\ staged' = Release!Empty /\ marker' = 0 /\ UNCHANGED <<live, backup, engine, download, apply>>
  BY DEF Release!Discard, Release!Busy
<1>2. UpdateTyped'
  BY <1>1 DEF Separate, UpdateTyped, Release!Empty, Tree
<1>3. OneStage'
  BY <1>1 DEF OneStage
<1>4. Alone' /\ Moving'
  BY <1>1, EngineUp DEF Separate, Alone, Moving, Unmoved, Whole, Aside
<1>5. QED
  BY <1>2, <1>3, <1>4 DEF Separate

LEMMA StartKeeps ==
    ASSUME Separate, ~mixed', Release!Start
    PROVE  Separate'
<1>1. /\ apply = Release!NoApply /\ (marker # 0 => engine # "up")
      /\ apply' = [Release!NoApply EXCEPT !.pc = IF marker # 0 THEN "targets" ELSE "start"]
      /\ UNCHANGED <<live, staged, backup, marker, engine, download>>
  BY DEF Release!Start
<1>2. apply' = [pc |-> IF marker # 0 THEN "targets" ELSE "start", todo |-> {}, moved |-> <<>>]
  BY <1>1 DEF Release!NoApply
<1>3. apply.pc = "none" /\ Unmoved
  BY <1>1 DEF Release!NoApply, Unmoved
<1>4. /\ apply'.pc \in {"targets", "start"} /\ apply'.moved = <<>> /\ apply'.todo = {}
      /\ apply'.pc = "targets" => marker # 0
  BY <1>2
<1>5. UpdateTyped'
  <2> DEFINE pc == IF marker # 0 THEN "targets" ELSE "start"
  <2>1. pc \in Phase /\ {} \in SUBSET Release!Files /\ <<>> \in Seq(SUBSET Release!Files)
    BY DEF Phase
  <2> HIDE DEF pc
  <2>2. apply' \in [pc : Phase, todo : SUBSET Release!Files, moved : Seq(SUBSET Release!Files)]
    BY <1>2, <2>1 DEF pc
  <2>3. QED
    BY <1>1, <2>2 DEF Separate, UpdateTyped
<1>6. OneStage'
  BY <1>1, <1>3, <1>4 DEF Separate, OneStage, Unmoved
<1>7. Alone' /\ Moving'
  BY <1>1, <1>3, <1>4 DEF Separate, Alone, Moving, Unmoved, Whole
<1>8. QED
  BY <1>5, <1>6, <1>7 DEF Separate

LEMMA TargetsKeep ==
    ASSUME 0 \notin Latest, Separate, ~mixed', Release!Targets
    PROVE  Separate'
<1>1. /\ apply.pc = "targets" /\ UNCHANGED <<live, staged, engine, download>>
  BY DEF Release!Targets
<1>2. /\ Unmoved /\ engine # "up" /\ marker # 0 /\ marker \in Latest /\ staged = Release!Tree(marker)
      /\ apply.moved = <<>>
  BY <1>1 DEF Separate, UpdateTyped, OneStage, Alone, Unmoved
<1>3. /\ Release!In(staged) = Release!Ships(marker) /\ Release!Ships(marker) \subseteq Release!Files
      /\ Release!In(staged) # {} /\ Release!In(staged) \cap Release!InDir # {}
  <2>1. marker \in Published
    BY <1>2 DEF Published
  <2>2. QED
    BY <1>2, <2>1, TreeFacts
<1>4. /\ backup' = Release!Empty /\ marker' = marker
      /\ apply' = [apply EXCEPT !.pc = "set dir aside", !.todo = Release!Ships(marker)]
  BY <1>3 DEF Release!Targets
<1>5. /\ apply'.pc = "set dir aside" /\ apply'.todo = Release!Ships(marker) /\ apply'.moved = <<>>
      /\ apply' \in [pc : Phase, todo : SUBSET Release!Files, moved : Seq(SUBSET Release!Files)]
  BY <1>2, <1>3, <1>4 DEF Separate, UpdateTyped, Phase
<1>6. UpdateTyped'
  BY <1>1, <1>4, <1>5 DEF Separate, UpdateTyped, Release!Empty, Tree
<1>7. OneStage'
  BY <1>1, <1>2, <1>4 DEF Separate, OneStage
<1>8. Alone' /\ Moving'
  BY <1>1, <1>2, <1>4, <1>5 DEF Separate, Alone, Moving, Unmoved, Whole
<1>9. QED
  BY <1>6, <1>7, <1>8 DEF Separate

\* No download is under way while files are moved.
LEMMA QuietWhileMoving ==
    ASSUME Separate, apply.pc \notin {"none", "start"}
    PROVE  engine # "up" /\ marker \in Latest /\ marker # 0
           /\ \A d \in Client : download[d].pc = "idle"
BY DEF Separate, Alone, OneStage, UpdateTyped

\* A tree that files are moved into, and one they are moved from.
LEMMA MovedFacts ==
    ASSUME NEW from \in Tree, NEW to \in Tree, NEW what \in SUBSET Release!Files
    PROVE  /\ Release!Moved(from, to, what) \in Tree
           /\ \A f \in Release!Files :
                Release!Moved(from, to, what)[f] = IF f \in what THEN from[f] ELSE to[f]
BY DEF Release!Moved, Tree

LEMMA WithoutFacts ==
    ASSUME NEW from \in Tree, NEW what \in SUBSET Release!Files
    PROVE  /\ Release!Without(from, what) \in Tree
           /\ \A f \in Release!Files : Release!Without(from, what)[f] = IF f \in what THEN 0 ELSE from[f]
BY DEF Release!Without, Tree

LEMMA SetDirAsideKeeps ==
    ASSUME 0 \notin Latest, Separate, Release!SetDirAside
    PROVE  Separate'
<1>1. /\ apply.pc = "set dir aside"
      /\ backup' = Release!Moved(live, backup, Release!InDir) /\ live' = Release!Without(live, Release!InDir)
      /\ apply' = [apply EXCEPT !.pc = "swap", !.moved = Append(@, Release!InDir)]
      /\ UNCHANGED <<staged, marker, engine, download>>
  BY DEF Release!SetDirAside, Release!SetAside
<1>2. /\ apply.moved = <<>> /\ apply.todo = Release!Ships(marker) /\ Whole
      /\ staged = Release!Tree(marker) /\ marker \in Latest /\ marker # 0 /\ engine # "up"
      /\ \A d \in Client : download[d].pc = "idle"
  BY <1>1, QuietWhileMoving DEF Separate, Alone, Moving, OneStage, Unmoved
<1>3. live \in Tree /\ backup \in Tree /\ apply \in [pc : Phase, todo : SUBSET Release!Files, moved : Seq(SUBSET Release!Files)]
  BY DEF Separate, UpdateTyped
<1>4. /\ Release!InDir \in SUBSET Release!Files /\ "script" \in Release!Files \ Release!InDir
      /\ Release!Files = Release!InDir \cup {"script"}
  BY DEF Release!Files, Release!InDir
<1>5. /\ live' \in Tree /\ backup' \in Tree
      /\ \A f \in Release!Files : live'[f] = IF f \in Release!InDir THEN 0 ELSE live[f]
      /\ \A f \in Release!Files : backup'[f] = IF f \in Release!InDir THEN live[f] ELSE backup[f]
  <2> DEFINE dir == Release!InDir
  <2>1. dir \in SUBSET Release!Files /\ backup' = Release!Moved(live, backup, dir) /\ live' = Release!Without(live, dir)
    BY <1>1, <1>4
  <2> HIDE DEF dir
  <2>2. /\ live' \in Tree /\ backup' \in Tree
        /\ \A f \in Release!Files : live'[f] = IF f \in dir THEN 0 ELSE live[f]
        /\ \A f \in Release!Files : backup'[f] = IF f \in dir THEN live[f] ELSE backup[f]
    BY <1>3, <2>1, MovedFacts, WithoutFacts
  <2>3. QED
    BY <2>2 DEF dir
<1>6. /\ apply'.pc = "swap" /\ apply'.todo = Release!Ships(marker) /\ apply'.moved = <<Release!InDir>>
      /\ apply' \in [pc : Phase, todo : SUBSET Release!Files, moved : Seq(SUBSET Release!Files)]
  <2>1. <<Release!InDir>> \in Seq(SUBSET Release!Files)
    BY <1>4
  <2>2. Append(apply.moved, Release!InDir) = <<Release!InDir>>
    BY <1>2
  <2>3. apply' = [apply EXCEPT !.pc = "swap", !.moved = <<Release!InDir>>]
    BY <1>1, <1>3, <2>2
  <2>4. QED
    BY <1>2, <1>3, <2>1, <2>3 DEF Phase
<1>7. UpdateTyped'
  BY <1>1, <1>5, <1>6 DEF Separate, UpdateTyped
<1>8. OneStage'
  BY <1>1, <1>2, <1>6 DEF OneStage, Unmoved
<1>9. Alone'
  BY <1>1, <1>2, <1>6 DEF Alone
<1>10. PICK v \in Published : live = Release!Tree(v)
  BY <1>2 DEF Whole
<1>11. Aside(v)'
  <2>1. \A f \in Release!InDir : backup'[f] = Release!Tree(v)[f]
    BY <1>4, <1>5, <1>10
  <2>2. live'["script"] = v
    BY <1>4, <1>5, <1>10, TreeFacts
  <2>3. QED
    BY <1>6, <2>1, <2>2 DEF Aside
<1>12. Moving'
  <2>1. \A f \in Release!Files : staged[f] = IF f \in Release!Ships(marker) THEN marker ELSE 0
    BY <1>2, TreeFacts DEF Published
  <2>2. \A f \in Release!InDir : live'[f] = 0
    BY <1>4, <1>5
  <2>3. "script" \in Release!Ships(marker)
    BY <1>2, TreeFacts DEF Published
  <2>4. QED
    BY <1>1, <1>6, <1>11, <2>1, <2>2, <2>3 DEF Moving, Unmoved
<1>13. QED
  BY <1>7, <1>8, <1>9, <1>12 DEF Separate

\* A list of two without its last is a list of one.
LEMMA FirstOfTwo ==
    ASSUME NEW S, NEW a \in S, NEW b \in S
    PROVE  SubSeq(<<a, b>>, 1, Len(<<a, b>>) - 1) = <<a>> 
<1> DEFINE s == <<a, b>>
           t == SubSeq(s, 1, 1)
           u == <<a>>
<1>1. s \in Seq(S) /\ Len(s) = 2 /\ s[1] = a
  OBVIOUS
<1>2. u \in Seq(S) /\ Len(u) = 1 /\ u[1] = a
  OBVIOUS
<1> HIDE DEF s, u
<1>3. t \in Seq(S) /\ Len(t) = 1 /\ t[1] = a
  BY <1>1, SubSeqProperties
<1> HIDE DEF t
<1>4. t = u
  BY <1>2, <1>3, SeqEqual
<1>5. QED
  BY <1>1, <1>4 DEF s, t, u

\* A list of one with another at its end is a list of two.
LEMMA OneAndAnother ==
    ASSUME NEW S, NEW a \in S, NEW b \in S
    PROVE  Append(<<a>>, b) = <<a, b>> 
<1> DEFINE s == <<a, b>>
           u == <<a>>
           t == Append(u, b)
<1>1. s \in Seq(S) /\ Len(s) = 2 /\ s[1] = a /\ s[2] = b
  OBVIOUS
<1>2. u \in Seq(S) /\ Len(u) = 1 /\ u[1] = a
  OBVIOUS
<1> HIDE DEF s, u
<1>3. /\ t \in Seq(S) /\ Len(t) = Len(u) + 1 /\ t[Len(u) + 1] = b
      /\ \A i \in 1 .. Len(u) : t[i] = u[i]
  BY <1>2, AppendProperties, ZenonT(20)
<1> HIDE DEF t
<1>4. \A i \in 1 .. Len(s) : s[i] = t[i]
  BY <1>1, <1>2, <1>3
<1>5. s = t
  BY <1>1, <1>2, <1>3, <1>4, SeqEqual
<1>6. QED
  BY <1>5 DEF s, t, u

\* What a list of one or two moves holds.
LEMMA MovesFacts ==
    /\ Release!InDir # {"script"}
    /\ LET one == <<Release!InDir>>
           two == <<Release!InDir, {"script"}>>
       IN  /\ one # <<>> /\ two # <<>> /\ one # two
           /\ {"script"} \notin {one[i] : i \in 1..Len(one)}
           /\ {"script"} \in {two[i] : i \in 1..Len(two)}
           /\ one[Len(one)] = Release!InDir /\ two[Len(two)] = {"script"}
           /\ SubSeq(one, 1, Len(one) - 1) = <<>> /\ SubSeq(two, 1, Len(two) - 1) = one
           /\ Append(one, {"script"}) = two
           /\ one \in Seq(SUBSET Release!Files) /\ two \in Seq(SUBSET Release!Files)
<1>1. Release!InDir # {"script"} /\ Release!InDir \in SUBSET Release!Files /\ {"script"} \in SUBSET Release!Files
  BY DEF Release!InDir, Release!Files
<1> DEFINE dir == Release!InDir
           one == <<dir>>
           two == <<dir, {"script"}>>
<1>2. dir # {"script"} /\ dir \in SUBSET Release!Files /\ {"script"} \in SUBSET Release!Files
  BY <1>1
<1> HIDE DEF dir
<1>3. one # <<>> /\ two # <<>> /\ one # two /\ Len(one) = 1 /\ Len(two) = 2
      /\ one[1] = dir /\ two[1] = dir /\ two[2] = {"script"}
  OBVIOUS
<1>4. {"script"} \notin {one[i] : i \in 1..Len(one)}
  BY <1>2, <1>3
<1>5. {"script"} \in {two[i] : i \in 1..Len(two)}
  BY <1>3
<1>6. SubSeq(one, 1, Len(one) - 1) = <<>> /\ SubSeq(two, 1, Len(two) - 1) = one
  <2>1. SubSeq(two, 1, Len(two) - 1) = one
    BY <1>2, FirstOfTwo
  <2>2. SubSeq(one, 1, 0) = <<>>
    BY SubSeqEmpty
  <2>3. QED
    BY <1>3, <2>1, <2>2
<1>7. Append(one, {"script"}) = two
  BY <1>2, OneAndAnother
<1>8. one \in Seq(SUBSET Release!Files) /\ two \in Seq(SUBSET Release!Files)
  BY <1>2
<1>9. QED
  BY <1>1, <1>3, <1>4, <1>5, <1>6, <1>7, <1>8 DEF dir

LEMMA SwapKeeps ==
    ASSUME 0 \notin Latest, Separate, NEW f \in Release!Files, Release!Swap(f)
    PROVE  Separate'
<1>1. /\ apply.pc = "swap" /\ f \in apply.todo
      /\ f \notin Release!InDir /\ live[f] # 0 => {f} \in {apply.moved[i] : i \in 1..Len(apply.moved)}
      /\ live' = [live EXCEPT ![f] = staged[f]] /\ staged' = [staged EXCEPT ![f] = 0]
      /\ apply' = [apply EXCEPT !.todo = @ \ {f}]
      /\ UNCHANGED <<backup, marker, engine, download>>
  BY DEF Release!Swap
<1>2. /\ marker \in Latest /\ marker # 0 /\ engine # "up"
      /\ \A d \in Client : download[d].pc = "idle"
  BY <1>1, QuietWhileMoving
<1>3. /\ \E v \in Published : Aside(v)
      /\ apply.todo \subseteq Release!Ships(marker)
      /\ \A g \in Release!Files : staged[g] = IF g \in apply.todo THEN marker ELSE 0
      /\ \A g \in Release!InDir : live[g] = IF g \in Release!Ships(marker) \ apply.todo THEN marker ELSE 0
      /\ "script" \notin apply.todo =>
             live["script"] = marker /\ apply.moved = <<Release!InDir, {"script"}>>
  BY <1>1 DEF Separate, Moving
<1>4. /\ live \in Tree /\ staged \in Tree
      /\ apply \in [pc : Phase, todo : SUBSET Release!Files, moved : Seq(SUBSET Release!Files)]
  BY DEF Separate, UpdateTyped
<1>5. /\ "script" \notin Release!InDir /\ Release!Files = Release!InDir \cup {"script"} /\ marker \in {0} \cup Published
  BY <1>2 DEF Release!Files, Release!InDir, Published
<1>6. /\ \A g \in Release!Files : live'[g] = IF g = f THEN marker ELSE live[g]
      /\ \A g \in Release!Files : staged'[g] = IF g = f THEN 0 ELSE staged[g]
      /\ live' \in Tree /\ staged' \in Tree
  BY <1>1, <1>3, <1>4, <1>5 DEF Tree
<1>7. /\ apply'.pc = "swap" /\ apply'.moved = apply.moved /\ apply'.todo = apply.todo \ {f}
      /\ apply' \in [pc : Phase, todo : SUBSET Release!Files, moved : Seq(SUBSET Release!Files)]
  BY <1>1, <1>4
<1>8. UpdateTyped'
  BY <1>1, <1>6, <1>7 DEF Separate, UpdateTyped
<1>9. OneStage'
  BY <1>1, <1>2, <1>7 DEF OneStage, Unmoved
<1>10. Alone'
  BY <1>1, <1>2, <1>7 DEF Alone
<1>11. PICK v \in Published : Aside(v)
  BY <1>3
<1>12. f = "script" => apply.moved = <<Release!InDir, {"script"}>>
  BY <1>1, <1>5, <1>11, TreeFacts, MovesFacts DEF Aside
<1>13. Aside(v)'
  BY <1>1, <1>5, <1>6, <1>7, <1>11, <1>12 DEF Aside
<1>14. /\ apply'.todo \subseteq Release!Ships(marker)
       /\ \A g \in Release!Files : staged'[g] = IF g \in apply'.todo THEN marker ELSE 0
       /\ \A g \in Release!InDir : live'[g] = IF g \in Release!Ships(marker) \ apply'.todo THEN marker ELSE 0
  BY <1>1, <1>3, <1>5, <1>6, <1>7
<1>15. "script" \notin apply'.todo =>
             live'["script"] = marker /\ apply'.moved = <<Release!InDir, {"script"}>>
  BY <1>3, <1>5, <1>6, <1>7, <1>12
<1>16. Moving'
  BY <1>1, <1>7, <1>13, <1>14, <1>15 DEF Moving, Unmoved
<1>17. QED
  BY <1>8, <1>9, <1>10, <1>16 DEF Separate

LEMMA SetFileAsideKeeps ==
    ASSUME 0 \notin Latest, Separate, NEW f \in Release!Files, Release!SetFileAside(f)
    PROVE  Separate'
<1>1. /\ apply.pc = "swap" /\ f \in apply.todo \ Release!InDir /\ live[f] # 0
      /\ {f} \notin {apply.moved[i] : i \in 1..Len(apply.moved)}
      /\ backup' = Release!Moved(live, backup, {f}) /\ live' = Release!Without(live, {f})
      /\ apply' = [apply EXCEPT !.moved = Append(@, {f})]
      /\ UNCHANGED <<staged, marker, engine, download>>
  BY DEF Release!SetFileAside, Release!SetAside
<1>2. /\ marker \in Latest /\ marker # 0 /\ engine # "up"
      /\ \A d \in Client : download[d].pc = "idle"
  BY <1>1, QuietWhileMoving
<1>3. /\ \E v \in Published : Aside(v)
      /\ apply.todo \subseteq Release!Ships(marker)
      /\ \A g \in Release!Files : staged[g] = IF g \in apply.todo THEN marker ELSE 0
      /\ \A g \in Release!InDir : live[g] = IF g \in Release!Ships(marker) \ apply.todo THEN marker ELSE 0
  BY <1>1 DEF Separate, Moving
<1>4. /\ live \in Tree /\ backup \in Tree
      /\ apply \in [pc : Phase, todo : SUBSET Release!Files, moved : Seq(SUBSET Release!Files)]
  BY DEF Separate, UpdateTyped
<1>5. /\ "script" \notin Release!InDir /\ Release!Files = Release!InDir \cup {"script"} /\ f = "script"
      /\ {f} \in SUBSET Release!Files
  BY <1>1 DEF Release!Files, Release!InDir
<1>6. /\ live' \in Tree /\ backup' \in Tree
      /\ \A g \in Release!Files : live'[g] = IF g \in {f} THEN 0 ELSE live[g]
      /\ \A g \in Release!Files : backup'[g] = IF g \in {f} THEN live[g] ELSE backup[g]
  <2> DEFINE what == {f}
  <2>1. what \in SUBSET Release!Files /\ backup' = Release!Moved(live, backup, what) /\ live' = Release!Without(live, what)
    BY <1>1, <1>5
  <2> HIDE DEF what
  <2>2. /\ live' \in Tree /\ backup' \in Tree
        /\ \A g \in Release!Files : live'[g] = IF g \in what THEN 0 ELSE live[g]
        /\ \A g \in Release!Files : backup'[g] = IF g \in what THEN live[g] ELSE backup[g]
    BY <1>4, <2>1, MovedFacts, WithoutFacts
  <2>3. QED
    BY <2>2 DEF what
<1>7. PICK v \in Published : Aside(v)
  BY <1>3
<1>8. apply.moved = <<Release!InDir>> /\ live["script"] = v
  <2>1. ASSUME apply.moved = <<Release!InDir, {"script"}>> PROVE FALSE
    <3>1. 2 \in 1..Len(apply.moved) /\ apply.moved[2] = {"script"}
      BY <2>1
    <3>2. QED
      BY <1>1, <1>5, <3>1
  <2>2. QED
    BY <1>7, <2>1 DEF Aside
<1>9. /\ apply'.pc = "swap" /\ apply'.todo = apply.todo /\ apply'.moved = <<Release!InDir, {"script"}>>
      /\ apply' \in [pc : Phase, todo : SUBSET Release!Files, moved : Seq(SUBSET Release!Files)]
  <2>1. Append(apply.moved, {f}) = <<Release!InDir, {"script"}>>
    BY <1>5, <1>8, MovesFacts
  <2>2. apply' = [apply EXCEPT !.moved = <<Release!InDir, {"script"}>>]
    BY <1>1, <1>4, <2>1
  <2>3. <<Release!InDir, {"script"}>> \in Seq(SUBSET Release!Files)
    BY MovesFacts
  <2>4. QED
    BY <1>1, <1>4, <2>2, <2>3
<1>10. UpdateTyped'
  BY <1>1, <1>6, <1>9 DEF Separate, UpdateTyped
<1>11. OneStage'
  BY <1>1, <1>2, <1>9 DEF OneStage, Unmoved
<1>12. Alone'
  BY <1>1, <1>2, <1>9 DEF Alone
<1>13. Aside(v)'
  BY <1>5, <1>6, <1>7, <1>8, <1>9 DEF Aside
<1>14. Moving'
  BY <1>1, <1>3, <1>5, <1>6, <1>9, <1>13 DEF Moving, Unmoved
<1>15. QED
  BY <1>10, <1>11, <1>12, <1>14 DEF Separate

LEMMA AppliedKeeps ==
    ASSUME 0 \notin Latest, Separate, Release!Applied
    PROVE  Separate'
<1>1. /\ apply.pc = "swap" /\ apply.todo = {} /\ staged' = Release!Empty /\ marker' = 0
      /\ apply' = [Release!NoApply EXCEPT !.pc = "start"]
      /\ UNCHANGED <<live, backup, engine, download>>
  BY DEF Release!Applied
<1>2. apply' = [pc |-> "start", todo |-> {}, moved |-> <<>>]
  BY <1>1 DEF Release!NoApply
<1>3. /\ marker \in Latest /\ \A d \in Client : download[d].pc = "idle"
      /\ \A f \in Release!InDir : live[f] = IF f \in Release!Ships(marker) THEN marker ELSE 0
      /\ live["script"] = marker /\ live \in Tree
  BY <1>1, QuietWhileMoving DEF Separate, UpdateTyped, Moving
<1>4. live = Release!Tree(marker)
  <2>1. "script" \in Release!Ships(marker) /\ Release!Files = Release!InDir \cup {"script"}
    BY <1>3, TreeFacts DEF Published
  <2>2. \A f \in Release!Files : live[f] = IF f \in Release!Ships(marker) THEN marker ELSE 0
    BY <1>3, <2>1
  <2>3. QED
    BY <1>3, <2>2 DEF Tree, Release!Tree
<1>5. live' \in Tree /\ \E v \in Published : live' = Release!Tree(v)
  BY <1>1, <1>3, <1>4 DEF Published
<1>6. UpdateTyped'
  <2>1. /\ "start" \in Phase /\ {} \in SUBSET Release!Files /\ <<>> \in Seq(SUBSET Release!Files)
    BY DEF Phase
  <2>2. apply' \in [pc : Phase, todo : SUBSET Release!Files, moved : Seq(SUBSET Release!Files)]
    BY <1>2, <2>1
  <2>3. QED
    BY <1>1, <2>2 DEF Separate, UpdateTyped, Release!Empty, Tree
<1>7. OneStage'
  BY <1>1, <1>3 DEF OneStage
<1>8. Alone' /\ Moving'
  BY <1>2, <1>5 DEF Alone, Moving, Unmoved, Whole
<1>9. QED
  BY <1>6, <1>7, <1>8 DEF Separate

LEMMA MoveFailsKeeps ==
    ASSUME Separate, Release!MoveFails
    PROVE  Separate'
<1>1. /\ apply.pc \in {"set dir aside", "swap"} /\ apply' = [apply EXCEPT !.pc = "roll back"]
      /\ UNCHANGED <<live, staged, backup, marker, engine, download>>
  BY DEF Release!MoveFails
<1>2. /\ marker # 0 /\ engine # "up" /\ \A d \in Client : download[d].pc = "idle"
  BY <1>1, QuietWhileMoving
<1>3. /\ apply'.pc = "roll back" /\ apply'.moved = apply.moved
      /\ apply' \in [pc : Phase, todo : SUBSET Release!Files, moved : Seq(SUBSET Release!Files)]
  BY <1>1 DEF Separate, UpdateTyped, Phase
<1>4. UpdateTyped'
  BY <1>1, <1>3 DEF Separate, UpdateTyped
<1>5. OneStage' /\ Alone'
  BY <1>1, <1>2, <1>3 DEF OneStage, Alone, Unmoved
<1>6. \/ apply.moved = <<>> /\ Whole
      \/ \E v \in Published : Aside(v)
  BY <1>1 DEF Separate, Alone, Moving, Unmoved
<1>7. Moving'
  BY <1>1, <1>3, <1>6 DEF Moving, Unmoved, Whole, Aside
<1>8. QED
  BY <1>4, <1>5, <1>7 DEF Separate

\* The script comes back before the directory; then the old release is whole.
LEMMA RollBackKeeps ==
    ASSUME 0 \notin Latest, Separate, Release!RollBack
    PROVE  Separate'
<1> DEFINE what == apply.moved[Len(apply.moved)]
           rest == SubSeq(apply.moved, 1, Len(apply.moved) - 1)
<1>1. /\ apply.pc = "roll back" /\ apply.moved # <<>>
      /\ live' = Release!Restored(what) /\ backup' = Release!Without(backup, what)
      /\ apply' = [apply EXCEPT !.moved = rest]
      /\ UNCHANGED <<staged, marker, engine, download>>
  BY DEF Release!RollBack
<1>2. /\ marker \in Latest /\ marker # 0 /\ engine # "up"
      /\ \A d \in Client : download[d].pc = "idle"
  BY <1>1, QuietWhileMoving
<1>3. PICK v \in Published : Aside(v)
  BY <1>1 DEF Separate, Moving
<1>4. /\ live \in Tree /\ backup \in Tree
      /\ apply \in [pc : Phase, todo : SUBSET Release!Files, moved : Seq(SUBSET Release!Files)]
  BY DEF Separate, UpdateTyped
<1>5. /\ "script" \notin Release!InDir /\ Release!Files = Release!InDir \cup {"script"} /\ "kept" \in Release!InDir
      /\ Release!InDir \in SUBSET Release!Files /\ {"script"} \in SUBSET Release!Files
      /\ v # 0 /\ Release!Tree(v)["kept"] = v /\ Release!Tree(v)["script"] = v
  BY <1>3, TreeFacts DEF Release!Files, Release!InDir
<1>6. \/ what = Release!InDir /\ rest = <<>> /\ live["script"] = v
      \/ what = {"script"} /\ rest = <<Release!InDir>> /\ backup["script"] = v
  BY <1>3, MovesFacts DEF Aside
<1>7. \A f \in Release!InDir : backup[f] = Release!Tree(v)[f]
  BY <1>3 DEF Aside
<1> HIDE DEF what, rest
<1>8. /\ what \in SUBSET Release!Files /\ rest \in Seq(SUBSET Release!Files)
      /\ Release!In(backup) \cap what # {}
  <2>1. what \in SUBSET Release!Files
    <3>1. what = Release!InDir \/ what = {"script"}
      BY <1>6
    <3>2. QED
      BY <1>5, <3>1
  <2>2. rest \in Seq(SUBSET Release!Files)
    <3>1. rest = <<>> \/ rest = <<Release!InDir>>
      BY <1>6
    <3>2. <<>> \in Seq(SUBSET Release!Files) /\ <<Release!InDir>> \in Seq(SUBSET Release!Files)
      BY MovesFacts
    <3>3. QED
      BY <3>1, <3>2
  <2>3. what = Release!InDir => "kept" \in Release!In(backup) \cap what
    BY <1>5, <1>7 DEF Release!In
  <2>4. what = {"script"} => "script" \in Release!In(backup) \cap what
    <3>1. what = {"script"} => backup["script"] = v
      BY <1>5, <1>6
    <3>2. QED
      BY <1>5, <3>1 DEF Release!In
  <2>5. QED
    BY <1>6, <2>1, <2>2, <2>3, <2>4
<1>9. /\ live' \in Tree /\ backup' \in Tree
      /\ \A f \in Release!Files : live'[f] = IF f \in what THEN backup[f] ELSE live[f]
      /\ \A f \in Release!Files : backup'[f] = IF f \in what THEN 0 ELSE backup[f]
  <2>1. live' = Release!Moved(backup, live, what)
    BY <1>1, <1>8, Zenon DEF Release!Restored
  <2>2. /\ live' \in Tree
        /\ \A f \in Release!Files : live'[f] = IF f \in what THEN backup[f] ELSE live[f]
    BY <1>4, <1>8, <2>1, MovedFacts
  <2>3. /\ backup' \in Tree
        /\ \A f \in Release!Files : backup'[f] = IF f \in what THEN 0 ELSE backup[f]
    <3>1. backup' = Release!Without(backup, what) /\ backup \in Tree /\ what \in SUBSET Release!Files
      BY <1>1, <1>4, <1>8
    <3>2. QED
      BY <3>1, WithoutFacts
  <2>4. QED
    BY <2>2, <2>3
<1>10. /\ apply'.pc = "roll back" /\ apply'.moved = rest
       /\ apply' \in [pc : Phase, todo : SUBSET Release!Files, moved : Seq(SUBSET Release!Files)]
  BY <1>1, <1>4, <1>8
<1>11. UpdateTyped'
  BY <1>1, <1>9, <1>10 DEF Separate, UpdateTyped
<1>12. OneStage' /\ Alone'
  BY <1>1, <1>2, <1>10 DEF OneStage, Alone, Unmoved
<1>13. \/ apply'.moved = <<>> /\ Whole'
       \/ \E u \in Published : Aside(u)'
  <2>1. CASE what = {"script"}
    <3>1. rest = <<Release!InDir>> /\ backup["script"] = v
      BY <1>5, <1>6, <2>1
    <3>2. live'["script"] = v /\ \A f \in Release!InDir : backup'[f] = Release!Tree(v)[f]
      BY <1>5, <1>7, <1>9, <2>1, <3>1
    <3>3. Aside(v)'
      BY <1>10, <3>1, <3>2 DEF Aside
    <3>4. QED
      BY <3>3
  <2>2. CASE what = Release!InDir
    <3>1. rest = <<>> /\ live["script"] = v
      BY <1>5, <1>6, <2>2
    <3>2. \A f \in Release!Files : live'[f] = Release!Tree(v)[f]
      BY <1>5, <1>7, <1>9, <2>2, <3>1
    <3>3. live' = Release!Tree(v)
      BY <1>9, <3>2, TreeFacts DEF Tree
    <3>4. QED
      BY <1>10, <3>1, <3>3 DEF Whole
  <2>3. QED
    BY <1>6, <2>1, <2>2
<1>14. Moving'
  BY <1>10, <1>13 DEF Moving, Unmoved
<1>15. QED
  BY <1>11, <1>12, <1>14 DEF Separate

LEMMA RolledBackKeeps ==
    ASSUME Separate, Release!RolledBack
    PROVE  Separate'
<1>1. /\ apply.pc = "roll back" /\ apply.moved = <<>> /\ staged' = Release!Empty /\ marker' = 0
      /\ apply' = [Release!NoApply EXCEPT !.pc = "start"]
      /\ UNCHANGED <<live, backup, engine, download>>
  BY DEF Release!RolledBack
<1>2. apply' = [pc |-> "start", todo |-> {}, moved |-> <<>>]
  BY <1>1 DEF Release!NoApply
<1>3. \A d \in Client : download[d].pc = "idle"
  BY <1>1, QuietWhileMoving
<1>4. Whole
  BY <1>1, MovesFacts DEF Separate, Moving, Aside
<1>5. UpdateTyped'
  <2>1. /\ "start" \in Phase /\ {} \in SUBSET Release!Files /\ <<>> \in Seq(SUBSET Release!Files)
    BY DEF Phase
  <2>2. apply' \in [pc : Phase, todo : SUBSET Release!Files, moved : Seq(SUBSET Release!Files)]
    BY <1>2, <2>1
  <2>3. QED
    BY <1>1, <2>2 DEF Separate, UpdateTyped, Release!Empty, Tree
<1>6. OneStage'
  BY <1>1, <1>3 DEF OneStage
<1>7. Alone' /\ Moving'
  BY <1>1, <1>2, <1>4 DEF Alone, Moving, Unmoved, Whole
<1>8. QED
  BY <1>5, <1>6, <1>7 DEF Separate

\* The script ends, with an engine or by an interrupt that moved nothing.
LEMMA ScriptEndsKeeps ==
    ASSUME Separate, Unmoved, apply' = Release!NoApply, engine' \in {engine, "up"},
           UNCHANGED <<live, staged, backup, marker, download>>
    PROVE  Separate'
<1>1. apply' = [pc |-> "none", todo |-> {}, moved |-> <<>>]
  BY DEF Release!NoApply
<1>2. UpdateTyped'
  <2>1. /\ "none" \in Phase /\ {} \in SUBSET Release!Files /\ <<>> \in Seq(SUBSET Release!Files)
    BY DEF Phase
  <2>2. apply' \in [pc : Phase, todo : SUBSET Release!Files, moved : Seq(SUBSET Release!Files)]
    BY <1>1, <2>1
  <2>3. QED
    BY <2>2 DEF Separate, UpdateTyped
<1>3. OneStage'
  <2>1. /\ \A d \in Client : download[d].pc # "idle" => engine' = "up"
        /\ marker # 0 => staged = Release!Tree(marker)
    BY DEF Separate, OneStage
  <2>2. QED
    BY <2>1 DEF Separate, OneStage
<1>4. apply'.pc = "none"
  BY <1>1
<1>5. Alone'
  BY <1>4 DEF Alone
<1>6. Whole'
  BY DEF Separate, Moving, Whole
<1>7. Moving'
  BY <1>4, <1>6 DEF Moving
<1>8. QED
  BY <1>2, <1>3, <1>5, <1>7 DEF Separate

LEMMA StopKeeps ==
    ASSUME Separate, Release!Stop
    PROVE  Separate'
<1>1. /\ engine' = "down" /\ download' = [d \in Client |-> Release!Quiet]
      /\ UNCHANGED <<live, staged, backup, marker, apply>>
  BY DEF Release!Stop
<1>2. \A d \in Client : download'[d].pc = "idle"
  BY <1>1 DEF Release!Quiet
<1>3. UpdateTyped'
  BY <1>1 DEF Separate, UpdateTyped, Release!Quiet
<1>4. OneStage' /\ Alone' /\ Moving'
  BY <1>1, <1>2 DEF Separate, OneStage, Alone, Moving, Unmoved, Whole, Aside
<1>5. QED
  BY <1>3, <1>4 DEF Separate

LEMMA UpdateInit ==
    ASSUME Release!Init
    PROVE  Separate
<1>1. /\ live = Release!Tree(1) /\ staged = Release!Empty /\ backup = Release!Empty /\ marker = 0
      /\ apply = [pc |-> "none", todo |-> {}, moved |-> <<>>] /\ apply = Release!NoApply
      /\ download = [d \in Client |-> Release!Quiet]
  BY DEF Release!Init, Release!NoApply
<1>2. \A d \in Client : download[d].pc = "idle"
  BY <1>1 DEF Release!Quiet
<1>3. UpdateTyped
  <2>1. /\ "none" \in Phase /\ {} \in SUBSET Release!Files /\ <<>> \in Seq(SUBSET Release!Files)
    BY DEF Phase
  <2>2. apply \in [pc : Phase, todo : SUBSET Release!Files, moved : Seq(SUBSET Release!Files)]
    BY <1>1, <2>1
  <2>3. live \in Tree /\ staged \in Tree /\ backup \in Tree
    BY <1>1 DEF Release!Tree, Release!Empty, Tree, Published
  <2>4. QED
    BY <1>1, <2>2, <2>3 DEF UpdateTyped, Release!Quiet
<1>4. OneStage /\ Alone /\ Moving
  BY <1>1, <1>2 DEF OneStage, Alone, Moving, Unmoved, Whole, Published
<1>5. QED
  BY <1>3, <1>4 DEF Separate

LEMMA UpdateStep ==
    ASSUME 0 \notin Latest, ~mixed => Separate, [Release!Next]_Release!updateVars
    PROVE  ~mixed' => Separate'
<1> SUFFICES ASSUME ~mixed' PROVE Separate'
  OBVIOUS
<1>1. CASE UNCHANGED Release!updateVars
  BY <1>1 DEF Release!updateVars, Separate, UpdateTyped, OneStage, Alone, Moving, Unmoved, Whole, Aside
<1>2. CASE Release!Next
  <2>1. ~mixed
    BY <1>2 DEF Release!Next, Release!Stage, Release!Unpack, Release!Mark, Release!UnpackFails, Release!Discard, Release!Start, Release!Targets,
         Release!SetDirAside, Release!Applied, Release!Swap, Release!SetFileAside, Release!MoveFails, Release!RollBack, Release!RolledBack,
         Release!RollBackFails, Release!Serve, Release!Stop, Release!Interrupt
  <2>2. Separate
    BY <2>1
  <2>3. ASSUME NEW d \in Client,
               \/ \E v \in Latest : Release!Stage(d, v)
               \/ \E f \in Release!Files : Release!Unpack(d, f)
               \/ Release!Mark(d) \/ Release!UnpackFails(d)
        PROVE Separate'
    BY <2>2, <2>3, DownloadKeeps
  <2>4. CASE Release!Discard \/ Release!Start \/ Release!Targets \/ Release!SetDirAside \/ Release!Applied
    BY <2>2, <2>4, DiscardKeeps, StartKeeps, TargetsKeep, SetDirAsideKeeps, AppliedKeeps
  <2>5. ASSUME NEW f \in Release!Files, Release!Swap(f) \/ Release!SetFileAside(f) PROVE Separate'
    BY <2>2, <2>5, SwapKeeps, SetFileAsideKeeps
  <2>6. CASE Release!MoveFails \/ Release!RollBack \/ Release!RolledBack \/ Release!Stop
    BY <2>2, <2>6, MoveFailsKeeps, RollBackKeeps, RolledBackKeeps, StopKeeps
  <2>7. CASE Release!RollBackFails
    BY <2>7 DEF Release!RollBackFails
  <2>8. CASE Release!Serve
    BY <2>2, <2>8, ScriptEndsKeeps DEF Release!Serve, Unmoved
  <2>9. CASE Release!Interrupt
    <3>1. Unmoved
      BY <2>2, <2>9 DEF Release!Interrupt, Unmoved, Separate, UpdateTyped, Phase
    <3>2. QED
      BY <2>2, <2>9, <3>1, ScriptEndsKeeps DEF Release!Interrupt
  <2>10. QED
    BY <1>2, <2>3, <2>4, <2>5, <2>6, <2>7, <2>8, <2>9 DEF Release!Next
<1>3. QED
  BY <1>1, <1>2

\* An engine that serves runs the files of one release, for any number of downloads and any
\* releases: app_update_service.stage and apply_update.py, as long as nothing broke the
\* separation of the two.
THEOREM AnEngineRunsOneRelease == Spec => []OneRelease
<1> DEFINE Inv == "release" \in focus => (~mixed => Separate)
<1>1. Init => Inv
  BY ServicesOK, UpdateInit DEF Init
<1>2. Inv /\ [Next]_<<focus, services>> => Inv'
  BY ServicesOK, UpdateStep, Apart
<1>3. Inv => OneRelease
  BY DEF OneRelease, Release!OneRelease, Separate, Moving, Unmoved, Whole, Published, Release!NoApply
<1>4. QED
  BY <1>1, <1>2, <1>3, PTL DEF Spec

-----------------------------------------------------------------------------
(* ComfyUI's launcher (Launcher).  While all that happened could be seen,   *)
(* a checked request that nothing overtook still finds what it checked      *)
(* (Checked), the launch owns the only process that may run (Launching),    *)
(* and a running process listens where the checks look (InSight).           *)

Port == {Launch!Default, Launch!Pinned}
Process == [state : {"loading", "serving", "gone"}, port : Port]
Requests ==
    {Launch!Idle}
    \cup [pc : {"shown"}, op : {"update", "start"}, id : {"recommended"} \cup StartScript \cup Updater,
          path : StartScript \cup Updater]
    \cup [pc : {"checked"}, op : {"update", "start"}, path : StartScript \cup Updater, behind : BOOLEAN]

LauncherTyped ==
    /\ install.scripts \subseteq StartScript /\ install.updaters \subseteq Updater
    /\ comfy \in Seq(Process)
    /\ request \in [Client -> Requests]
    /\ launch \in [status : {"idle", "starting", "ready", "failed"},
                   script : {"none"} \cup StartScript \cup Updater, process : Nat]

\* A program that may come to listen does so on a port that is probed.
InSight ==
    /\ \A i \in Launch!Alive : comfy[i].port \in Launch!Probed
    /\ Launch!Busy => Launch!PortOf(launch.script) \in Launch!Probed
    /\ \A c \in Client : request[c].pc = "checked" /\ request[c].op = "start" =>
         Launch!PortOf(request[c].path) \in Launch!Probed

Checked ==
    \A c \in Client : request[c].pc = "checked" /\ ~request[c].behind =>
        /\ request[c].op = "update" => Launch!Alive = {} /\ ~Launch!Busy
        /\ request[c].op = "start" => Launch!Busy \/ (Launch!Alive = {} /\ update # "running")

Launching ==
    /\ \A i, j \in Launch!Alive : i = j
    /\ \A i \in Launch!Alive : comfy[i].state = "loading" => Launch!Busy /\ launch.process = i
    /\ Launch!Busy =>
         /\ update # "running"
         /\ Launch!Alive \subseteq {launch.process}
         /\ launch.process # 0 => launch.process \in DOMAIN comfy
    /\ update = "running" => Launch!Alive = {}

InSightAlone == LauncherTyped /\ (~unseen => InSight /\ Checked /\ Launching)

LEMMA SightSame ==
    ASSUME install' = install
    PROVE  Launch!Probed' = Launch!Probed
BY DEF Launch!Probed, Launch!Offered, Launch!Verified

\* A checked request that is overtaken stays what it was, and behind.
LEMMA OvertakenFacts ==
    ASSUME LauncherTyped
    PROVE  /\ Launch!Overtaken \in [Client -> Requests]
           /\ \A d \in Client : /\ Launch!Overtaken[d].pc = request[d].pc
                                /\ request[d].pc = "checked" =>
                                     /\ Launch!Overtaken[d].behind
                                     /\ Launch!Overtaken[d].op = request[d].op
                                     /\ Launch!Overtaken[d].path = request[d].path
<1>1. ASSUME NEW d \in Client
      PROVE  /\ Launch!Overtaken[d] \in Requests /\ Launch!Overtaken[d].pc = request[d].pc
             /\ request[d].pc = "checked" =>
                  /\ Launch!Overtaken[d].behind
                  /\ Launch!Overtaken[d].op = request[d].op
                  /\ Launch!Overtaken[d].path = request[d].path
  <2>1. request[d] \in Requests
    BY DEF LauncherTyped
  <2>2. CASE request[d].pc # "checked"
    BY <2>1, <2>2 DEF Launch!Overtaken
  <2>3. CASE request[d].pc = "checked"
    <3>1. request[d] \in [pc : {"checked"}, op : {"update", "start"},
                          path : StartScript \cup Updater, behind : BOOLEAN]
      BY <2>1, <2>3 DEF Requests, Launch!Idle
    <3>2. Launch!Overtaken[d] = [request[d] EXCEPT !.behind = TRUE]
      BY <2>3 DEF Launch!Overtaken
    <3>3. Launch!Overtaken[d] \in [pc : {"checked"}, op : {"update", "start"},
                              path : StartScript \cup Updater, behind : BOOLEAN]
      BY <3>1, <3>2
    <3>4. QED
      BY <2>3, <3>1, <3>2, <3>3 DEF Requests
  <2>4. QED
    BY <2>2, <2>3
<1>2. Launch!Overtaken \in [Client -> Requests]
  BY <1>1 DEF Launch!Overtaken
<1>3. QED
  BY <1>1, <1>2

LEMMA EveryProcess ==
    ASSUME LauncherTyped, NEW i \in DOMAIN comfy
    PROVE  comfy[i] \in Process /\ i \in Nat \ {0}
           /\ comfy[i].state \in {"loading", "serving", "gone"} /\ comfy[i].port \in Port
<1>1. comfy[i] \in Process /\ i \in Nat \ {0}
  BY DEF LauncherTyped
<1>2. QED
  BY <1>1 DEF Process

\* One process changes its state.
LEMMA OneProcess ==
    ASSUME LauncherTyped, NEW i \in DOMAIN comfy, NEW s \in {"loading", "serving", "gone"},
           comfy' = [comfy EXCEPT ![i].state = s]
    PROVE  /\ comfy' \in Seq(Process)
           /\ DOMAIN comfy' = DOMAIN comfy
           /\ \A j \in DOMAIN comfy : /\ comfy'[j].port = comfy[j].port
                                      /\ comfy'[j].state = IF j = i THEN s ELSE comfy[j].state
<1> DEFINE p == [comfy[i] EXCEPT !.state = s]
<1>1. comfy \in Seq(Process) /\ i \in 1..Len(comfy) /\ DOMAIN comfy = 1..Len(comfy)
  BY DEF LauncherTyped
<1>2. comfy[i] \in Process
  BY EveryProcess
<1>3. p \in Process /\ p.state = s /\ p.port = comfy[i].port
  BY <1>2 DEF Process
<1>4. comfy' = [comfy EXCEPT ![i] = p]
  OBVIOUS
<1> HIDE DEF p
<1>5. comfy' \in Seq(Process) /\ DOMAIN comfy' = DOMAIN comfy
      /\ \A j \in DOMAIN comfy : comfy'[j] = IF j = i THEN p ELSE comfy[j]
  BY <1>1, <1>3, <1>4
<1>6. QED
  BY <1>3, <1>5

LEMMA PlanKeepsSight ==
    ASSUME InSightAlone, NEW c \in Client, NEW op \in {"update", "start"},
           NEW id \in {"recommended"} \cup Launch!Offered(op), Launch!Plan(c, op, id)
    PROVE  InSightAlone'
<1> DEFINE r == [pc |-> "shown", op |-> op, id |-> id, path |-> Launch!Resolve(Launch!Offered(op), id)]
<1>1. /\ Launch!Offered(op) # {} /\ id \in {"recommended"} \cup Launch!Offered(op)
      /\ request' = [request EXCEPT ![c] = r]
      /\ UNCHANGED <<install, comfy, update, launch, unseen>>
  BY DEF Launch!Plan, Launch!Resolves
<1>2. Launch!Offered(op) \subseteq StartScript \cup Updater
  BY DEF Launch!Offered, InSightAlone, LauncherTyped
<1>3. Launch!Resolve(Launch!Offered(op), id) \in Launch!Offered(op)
  BY <1>1 DEF Launch!Resolve, Launch!Recommended
<1>4. r \in Requests /\ r.pc = "shown"
  BY <1>1, <1>2, <1>3 DEF Requests
<1> HIDE DEF r
<1>5. LauncherTyped'
  BY <1>1, <1>4 DEF InSightAlone, LauncherTyped
<1>6. \A d \in Client : request'[d] = request[d] \/ request'[d].pc = "shown"
  BY <1>1, <1>4 DEF InSightAlone, LauncherTyped
<1>7. ~unseen' => InSight' /\ Checked' /\ Launching'
  BY <1>1, <1>6, SightSame DEF InSightAlone, InSight, Checked, Launching, Launch!Alive, Launch!Busy
<1>8. QED
  BY <1>5, <1>7 DEF InSightAlone

LEMMA AskKeepsSight ==
    ASSUME InSightAlone, NEW c \in Client, Launch!Ask(c)
    PROVE  InSightAlone'
<1> DEFINE r == request[c]
           asking == [pc |-> "checked", op |-> r.op, path |-> r.path,
                    behind |-> r.op = "update" /\ launch.status = "starting"]
           may == Launch!MayUpdate(r) \/ Launch!MayStart(r)
<1>1. /\ r.pc = "shown" /\ request' = [request EXCEPT ![c] = IF may THEN asking ELSE Launch!Idle]
      /\ UNCHANGED <<install, comfy, update, launch, unseen>>
  BY DEF Launch!Ask
<1>2. r \in [pc : {"shown"}, op : {"update", "start"}, id : {"recommended"} \cup StartScript \cup Updater,
             path : StartScript \cup Updater]
  BY <1>1 DEF InSightAlone, LauncherTyped, Requests, Launch!Idle
<1>3. asking \in [pc : {"checked"}, op : {"update", "start"}, path : StartScript \cup Updater, behind : BOOLEAN]
  BY <1>2
<1>4. Launch!Idle \in Requests /\ asking \in Requests /\ Launch!Idle.pc = "idle"
  BY <1>3 DEF Requests, Launch!Idle
<1>5. may => ~Launch!Running /\ r.path \in Launch!Offered(r.op) /\ (r.op = "start" => update # "running")
  BY DEF Launch!MayUpdate, Launch!MayStart, Launch!Confirmed, Launch!Resolves, Launch!Resolve, Launch!Recommended
<1>6. /\ asking.pc = "checked" /\ asking.op = r.op /\ asking.path = r.path
      /\ asking.behind <=> (r.op = "update" /\ Launch!Busy)
  BY DEF Launch!Busy
<1>7. may /\ r.op = "start" => Launch!PortOf(r.path) \in Launch!Probed
  BY <1>5 DEF Launch!Probed
<1> HIDE DEF r, asking, may
<1>8. LauncherTyped'
  BY <1>1, <1>4 DEF InSightAlone, LauncherTyped
<1>9. \A d \in Client : request'[d] = IF d # c THEN request[d] ELSE IF may THEN asking ELSE Launch!Idle
  BY <1>1 DEF InSightAlone, LauncherTyped
<1>10. ASSUME ~unseen PROVE InSight' /\ Checked' /\ Launching'
  <2>1. InSight /\ Checked /\ Launching
    BY <1>10 DEF InSightAlone
  <2>2. ~Launch!Running => Launch!Serving = {}
    BY <2>1 DEF Launch!Running, Launch!Serving, InSight
  <2>3. ~Launch!Running => Launch!Busy \/ Launch!Alive = {}
    <3>1. \A i \in Launch!Alive : comfy[i].state \in {"loading", "serving"}
      BY EveryProcess DEF Launch!Alive, InSightAlone
    <3>2. QED
      BY <2>1, <2>2, <3>1 DEF Launch!Serving, Launching
  <2>4. Launching'
    BY <1>1, <2>1 DEF Launching, Launch!Alive, Launch!Busy
  <2>5. InSight'
    BY <1>1, <1>4, <1>6, <1>7, <1>9, <2>1, SightSame DEF InSight, Launch!Alive, Launch!Busy
  <2>6. Launch!Alive' = Launch!Alive /\ Launch!Busy' = Launch!Busy /\ update' = update
    BY <1>1 DEF Launch!Alive, Launch!Busy
  <2>7. Checked'
    <3> SUFFICES ASSUME NEW d \in Client, request'[d].pc = "checked", ~request'[d].behind
                 PROVE  /\ request'[d].op = "update" => Launch!Alive = {} /\ ~Launch!Busy
                        /\ request'[d].op = "start" => Launch!Busy \/ (Launch!Alive = {} /\ update # "running")
      BY <2>6 DEF Checked
    <3>1. CASE d # c
      BY <1>9, <2>1, <3>1 DEF Checked
    <3>2. CASE d = c
      BY <1>4, <1>5, <1>6, <1>9, <2>3, <3>2
    <3>3. QED
      BY <3>1, <3>2
  <2>8. QED
    BY <2>4, <2>5, <2>7
<1>11. QED
  BY <1>1, <1>8, <1>10 DEF InSightAlone

LEMMA BeginUpdateKeepsSight ==
    ASSUME InSightAlone, NEW c \in Client, Launch!BeginUpdate(c)
    PROVE  InSightAlone'
<1>1. /\ request[c].pc = "checked" /\ request[c].op = "update"
      /\ UNCHANGED <<install, comfy, launch>>
  BY DEF Launch!BeginUpdate
<1>2. Launch!Idle \in Requests /\ Launch!Idle.pc = "idle"
  BY DEF Requests, Launch!Idle
<1>3. Launch!Alive' = Launch!Alive /\ Launch!Busy' = Launch!Busy /\ Launch!Probed' = Launch!Probed
  BY <1>1, SightSame DEF Launch!Alive, Launch!Busy
<1>4. CASE update = "running"
  <2>1. request' = [request EXCEPT ![c] = Launch!Idle] /\ UNCHANGED <<update, unseen>>
    BY <1>4 DEF Launch!BeginUpdate
  <2>2. LauncherTyped'
    BY <1>1, <1>2, <2>1 DEF InSightAlone, LauncherTyped
  <2>3. \A d \in Client : request'[d] = request[d] \/ request'[d].pc = "idle"
    BY <1>2, <2>1 DEF InSightAlone, LauncherTyped
  <2>4. ~unseen => InSight' /\ Checked' /\ Launching'
    BY <1>1, <1>3, <2>1, <2>3 DEF InSightAlone, InSight, Checked, Launching
  <2>5. QED
    BY <2>1, <2>2, <2>4 DEF InSightAlone
<1>5. CASE update # "running"
  <2>1. /\ update' = "running" /\ request' = [Launch!Overtaken EXCEPT ![c] = Launch!Idle]
        /\ unseen' = (unseen \/ request[c].behind)
    BY <1>5 DEF Launch!BeginUpdate
  <2>2. LauncherTyped'
    BY <1>1, <1>2, <2>1, OvertakenFacts DEF InSightAlone, LauncherTyped
  <2>3. \A d \in Client : request'[d] = IF d = c THEN Launch!Idle ELSE Launch!Overtaken[d]
    BY <2>1, OvertakenFacts DEF InSightAlone
  <2>4. \A d \in Client : request'[d].pc = "checked" =>
            /\ request'[d].behind /\ request[d].pc = "checked"
            /\ request'[d].op = request[d].op /\ request'[d].path = request[d].path
    BY <1>2, <2>3, OvertakenFacts DEF InSightAlone
  <2>5. ASSUME ~unseen' PROVE InSight' /\ Checked' /\ Launching'
    <3>1. InSight /\ Launching /\ Launch!Alive = {} /\ ~Launch!Busy
      BY <1>1, <2>1, <2>5 DEF InSightAlone, Checked
    <3>2. InSight'
      BY <1>1, <1>3, <2>4, <3>1 DEF InSight
    <3>3. Checked'
      BY <2>4 DEF Checked
    <3>4. Launching'
      BY <1>3, <3>1 DEF Launching
    <3>5. QED
      BY <3>2, <3>3, <3>4
  <2>6. QED
    BY <2>2, <2>5 DEF InSightAlone
<1>6. QED
  BY <1>4, <1>5

LEMMA BeginLaunchKeepsSight ==
    ASSUME InSightAlone, NEW c \in Client, Launch!BeginLaunch(c)
    PROVE  InSightAlone'
<1> DEFINE begun == [status |-> "starting", script |-> request[c].path, process |-> 0]
<1>1. /\ request[c].pc = "checked" /\ request[c].op = "start"
      /\ UNCHANGED <<install, comfy, update>>
  BY DEF Launch!BeginLaunch
<1>2. Launch!Idle \in Requests /\ Launch!Idle.pc = "idle"
  BY DEF Requests, Launch!Idle
<1>3. Launch!Alive' = Launch!Alive /\ Launch!Probed' = Launch!Probed
  BY <1>1, SightSame DEF Launch!Alive
<1>4. CASE Launch!Busy
  <2>1. request' = [request EXCEPT ![c] = Launch!Idle] /\ UNCHANGED <<launch, unseen>>
    BY <1>4 DEF Launch!BeginLaunch
  <2>2. LauncherTyped'
    BY <1>1, <1>2, <2>1 DEF InSightAlone, LauncherTyped
  <2>3. \A d \in Client : request'[d] = request[d] \/ request'[d].pc = "idle"
    BY <1>2, <2>1 DEF InSightAlone, LauncherTyped
  <2>4. ~unseen => InSight' /\ Checked' /\ Launching'
    BY <1>1, <1>3, <2>1, <2>3 DEF InSightAlone, InSight, Checked, Launching, Launch!Busy
  <2>5. QED
    BY <2>1, <2>2, <2>4 DEF InSightAlone
<1>5. CASE ~Launch!Busy
  <2>1. /\ launch' = begun /\ request' = [Launch!Overtaken EXCEPT ![c] = Launch!Idle]
        /\ unseen' = (unseen \/ request[c].behind)
    BY <1>5 DEF Launch!BeginLaunch
  <2>2. request[c].path \in StartScript \cup Updater
    BY <1>1 DEF InSightAlone, LauncherTyped, Requests, Launch!Idle
  <2>3. /\ launch'.status = "starting" /\ launch'.script = request[c].path /\ launch'.process = 0
        /\ launch' \in [status : {"idle", "starting", "ready", "failed"},
                        script : {"none"} \cup StartScript \cup Updater, process : Nat]
    BY <2>1, <2>2
  <2>4. LauncherTyped'
    BY <1>1, <1>2, <2>1, <2>3, OvertakenFacts DEF InSightAlone, LauncherTyped
  <2>5. \A d \in Client : request'[d] = IF d = c THEN Launch!Idle ELSE Launch!Overtaken[d]
    BY <2>1, OvertakenFacts DEF InSightAlone
  <2>6. \A d \in Client : request'[d].pc = "checked" =>
            /\ request'[d].behind /\ request[d].pc = "checked"
            /\ request'[d].op = request[d].op /\ request'[d].path = request[d].path
    BY <1>2, <2>5, OvertakenFacts DEF InSightAlone
  <2>7. ASSUME ~unseen' PROVE InSight' /\ Checked' /\ Launching'
    <3>1. InSight /\ Launching /\ Launch!Alive = {} /\ update # "running"
      BY <1>1, <1>5, <2>1, <2>7 DEF InSightAlone, Checked
    <3>2. Launch!PortOf(launch'.script) \in Launch!Probed
      BY <1>1, <2>3, <3>1 DEF InSight
    <3>3. InSight'
      BY <1>1, <1>3, <2>6, <3>1, <3>2 DEF InSight
    <3>4. Checked'
      BY <2>6 DEF Checked
    <3>5. Launching'
      BY <1>1, <1>3, <2>3, <3>1 DEF Launching
    <3>6. QED
      BY <3>3, <3>4, <3>5
  <2>8. QED
    BY <2>4, <2>7 DEF InSightAlone
<1>6. QED
  BY <1>4, <1>5

LEMMA UpdateEndsKeepsSight ==
    ASSUME InSightAlone, Launch!UpdateEnds
    PROVE  InSightAlone'
<1>1. update' # "running" /\ UNCHANGED <<install, comfy, request, launch, unseen>>
  BY DEF Launch!UpdateEnds
<1>2. LauncherTyped'
  BY <1>1 DEF InSightAlone, LauncherTyped
<1>3. ~unseen => InSight' /\ Checked' /\ Launching'
  BY <1>1, SightSame DEF InSightAlone, InSight, Checked, Launching, Launch!Alive, Launch!Busy
<1>4. QED
  BY <1>1, <1>2, <1>3 DEF InSightAlone

LEMMA SpawnKeepsSight ==
    ASSUME InSightAlone, Launch!Spawn
    PROVE  InSightAlone'
<1> DEFINE p == [state |-> "loading", port |-> Launch!PortOf(launch.script)]
           n == Len(comfy) + 1
<1>1. /\ Launch!Busy /\ launch.process = 0 /\ comfy' = Append(comfy, p)
      /\ launch' = [launch EXCEPT !.process = Len(comfy')]
      /\ UNCHANGED <<install, request, update, unseen>>
  BY DEF Launch!Spawn, Launch!Busy
<1>2. comfy \in Seq(Process) /\ p \in Process /\ p.port = Launch!PortOf(launch.script) /\ p.state = "loading"
  BY DEF InSightAlone, LauncherTyped, Process, Launch!PortOf, Port
<1> HIDE DEF p
<1>3. /\ comfy' \in Seq(Process) /\ Len(comfy') = n /\ comfy'[n] = p
      /\ \A i \in DOMAIN comfy : comfy'[i] = comfy[i]
      /\ DOMAIN comfy' = DOMAIN comfy \cup {n} /\ n \in Nat \ {0} /\ n \notin DOMAIN comfy
  BY <1>1, <1>2
<1>4. /\ launch' \in [status : {"idle", "starting", "ready", "failed"},
                      script : {"none"} \cup StartScript \cup Updater, process : Nat]
      /\ launch'.status = "starting" /\ launch'.script = launch.script /\ launch'.process = n
  BY <1>1, <1>3 DEF InSightAlone, LauncherTyped, Launch!Busy
<1>5. LauncherTyped'
  BY <1>1, <1>3, <1>4 DEF InSightAlone, LauncherTyped
<1>6. ASSUME ~unseen PROVE InSight' /\ Checked' /\ Launching'
  <2>1. InSight /\ Checked /\ Launching
    BY <1>6 DEF InSightAlone
  <2>2. Launch!Alive = {}
    <3>1. 0 \notin Launch!Alive
      BY EveryProcess DEF Launch!Alive, InSightAlone
    <3>2. QED
      BY <1>1, <2>1, <3>1 DEF Launching
  <2>3. Launch!Alive' = {n}
    BY <1>2, <1>3, <2>2 DEF Launch!Alive
  <2>4. Launch!Busy' /\ Launch!Probed' = Launch!Probed
    BY <1>1, <1>4, SightSame DEF Launch!Busy
  <2>5. InSight'
    BY <1>1, <1>2, <1>3, <1>4, <2>1, <2>3, <2>4 DEF InSight
  <2>6. Checked'
    BY <1>1, <2>1, <2>4 DEF Checked
  <2>7. Launching'
    BY <1>1, <1>3, <1>4, <2>1, <2>3, <2>4 DEF Launching
  <2>8. QED
    BY <2>5, <2>6, <2>7
<1>7. QED
  BY <1>1, <1>5, <1>6 DEF InSightAlone

\* A launch that is over and left no process that could not be seen.
LEMMA LaunchOverKeepsSight ==
    ASSUME InSightAlone, Launch!Busy, launch' = [launch EXCEPT !.status = "failed"],
           ~unseen => Launch!Alive = {},
           UNCHANGED <<install, comfy, request, update, unseen>>
    PROVE  InSightAlone'
<1>1. /\ launch' \in [status : {"idle", "starting", "ready", "failed"},
                      script : {"none"} \cup StartScript \cup Updater, process : Nat]
      /\ launch'.status = "failed"
  BY DEF InSightAlone, LauncherTyped
<1>2. LauncherTyped'
  BY <1>1 DEF InSightAlone, LauncherTyped
<1>3. Launch!Alive' = Launch!Alive /\ ~Launch!Busy' /\ Launch!Probed' = Launch!Probed
  BY <1>1, SightSame DEF Launch!Alive, Launch!Busy
<1>4. ASSUME ~unseen PROVE InSight' /\ Checked' /\ Launching'
  <2>1. InSight /\ Launching /\ Launch!Alive = {} /\ update # "running"
    BY <1>4 DEF InSightAlone, Launching
  <2>2. InSight'
    BY <1>3, <2>1 DEF InSight
  <2>3. Checked' /\ Launching'
    BY <1>3, <2>1 DEF Checked, Launching
  <2>4. QED
    BY <2>2, <2>3
<1>5. QED
  BY <1>2, <1>4 DEF InSightAlone

LEMMA LaunchEndsKeepsSight ==
    ASSUME InSightAlone, Launch!SpawnFails \/ Launch!Exited \/ Launch!GivesUp
    PROVE  InSightAlone'
<1>1. CASE Launch!SpawnFails
  <2>1. /\ Launch!Busy /\ launch.process = 0 /\ launch' = [launch EXCEPT !.status = "failed"]
        /\ UNCHANGED <<install, comfy, request, update, unseen>>
    BY <1>1 DEF Launch!SpawnFails, Launch!Busy
  <2>2. 0 \notin Launch!Alive
    BY EveryProcess DEF Launch!Alive, InSightAlone
  <2>3. ~unseen => Launch!Alive = {}
    BY <2>1, <2>2 DEF InSightAlone, Launching
  <2>4. QED
    BY <2>1, <2>3, LaunchOverKeepsSight
<1>2. CASE Launch!Exited
  <2>1. /\ Launch!Busy /\ comfy[launch.process].state = "gone"
        /\ launch' = [launch EXCEPT !.status = "failed"]
        /\ UNCHANGED <<install, comfy, request, update, unseen>>
    BY <1>2 DEF Launch!Exited, Launch!Busy
  <2>2. launch.process \notin Launch!Alive
    BY <2>1 DEF Launch!Alive
  <2>3. ~unseen => Launch!Alive = {}
    BY <2>1, <2>2 DEF InSightAlone, Launching
  <2>4. QED
    BY <2>1, <2>3, LaunchOverKeepsSight
<1>3. CASE Launch!GivesUp
  <2>1. /\ launch' = [launch EXCEPT !.status = "failed"] /\ unseen'
        /\ UNCHANGED <<install, comfy, request, update>>
    BY <1>3 DEF Launch!GivesUp
  <2>2. LauncherTyped'
    BY <2>1 DEF InSightAlone, LauncherTyped
  <2>3. QED
    BY <2>1, <2>2 DEF InSightAlone
<1>4. QED
  BY <1>1, <1>2, <1>3

LEMMA ReadyKeepsSight ==
    ASSUME InSightAlone, Launch!Ready
    PROVE  InSightAlone'
<1>1. /\ Launch!Busy /\ Launch!Serving # {} /\ launch' = [launch EXCEPT !.status = "ready"]
      /\ request' = Launch!Overtaken /\ UNCHANGED <<install, comfy, update, unseen>>
  BY DEF Launch!Ready, Launch!Busy
<1>2. /\ launch' \in [status : {"idle", "starting", "ready", "failed"},
                      script : {"none"} \cup StartScript \cup Updater, process : Nat]
      /\ launch'.status = "ready"
  BY <1>1 DEF InSightAlone, LauncherTyped
<1>3. LauncherTyped'
  BY <1>1, <1>2, OvertakenFacts DEF InSightAlone, LauncherTyped
<1>4. Launch!Alive' = Launch!Alive /\ ~Launch!Busy' /\ Launch!Probed' = Launch!Probed
  BY <1>1, <1>2, SightSame DEF Launch!Alive, Launch!Busy
<1>5. \A d \in Client : request'[d].pc = "checked" =>
          /\ request'[d].behind /\ request[d].pc = "checked"
          /\ request'[d].op = request[d].op /\ request'[d].path = request[d].path
  BY <1>1, OvertakenFacts DEF InSightAlone
<1>6. ASSUME ~unseen PROVE InSight' /\ Checked' /\ Launching'
  <2>1. InSight /\ Launching /\ update # "running"
    BY <1>1, <1>6 DEF InSightAlone, Launching
  <2>2. \A i \in Launch!Alive : comfy[i].state # "loading"
    <3>1. PICK j \in Launch!Serving : TRUE
      BY <1>1
    <3>2. QED
      BY <2>1, <3>1 DEF Launch!Serving, Launching
  <2>3. InSight'
    BY <1>1, <1>4, <1>5, <2>1 DEF InSight
  <2>4. Checked'
    BY <1>5 DEF Checked
  <2>5. Launching'
    BY <1>1, <1>4, <2>1, <2>2 DEF Launching
  <2>6. QED
    BY <2>3, <2>4, <2>5
<1>7. QED
  BY <1>1, <1>3, <1>6 DEF InSightAlone

LEMMA ProcessKeepsSight ==
    ASSUME InSightAlone, NEW i \in DOMAIN comfy, Launch!Listens(i) \/ Launch!Close(i)
    PROVE  InSightAlone'
<1>1. PICK s \in {"serving", "gone"} : comfy' = [comfy EXCEPT ![i].state = s]
  BY DEF Launch!Listens, Launch!Close
<1>2. i \in Launch!Alive /\ UNCHANGED <<install, request, update, launch, unseen>>
  BY DEF Launch!Listens, Launch!Close, Launch!Alive
<1>3. /\ comfy' \in Seq(Process) /\ DOMAIN comfy' = DOMAIN comfy
      /\ \A j \in DOMAIN comfy : /\ comfy'[j].port = comfy[j].port
                                 /\ comfy'[j].state = IF j = i THEN s ELSE comfy[j].state
  <2>1. s \in {"loading", "serving", "gone"}
    OBVIOUS
  <2>2. QED
    BY <1>1, <2>1, OneProcess DEF InSightAlone
<1>4. LauncherTyped'
  BY <1>2, <1>3 DEF InSightAlone, LauncherTyped
<1>5. Launch!Alive' \subseteq Launch!Alive /\ Launch!Busy' = Launch!Busy /\ Launch!Probed' = Launch!Probed
  BY <1>2, <1>3, SightSame DEF Launch!Alive, Launch!Busy
<1>6. Launch!Alive \subseteq DOMAIN comfy
  BY DEF Launch!Alive
<1>7. ASSUME ~unseen PROVE InSight' /\ Checked' /\ Launching'
  <2>1. InSight /\ Checked /\ Launching
    BY <1>7 DEF InSightAlone
  <2>2. InSight'
    BY <1>2, <1>3, <1>5, <1>6, <2>1 DEF InSight
  <2>3. Checked'
    BY <1>2, <1>5, <2>1 DEF Checked
  <2>4. Launching'
    <3>1. \A j, k \in Launch!Alive' : j = k
      BY <1>5, <2>1 DEF Launching
    <3>2. \A j \in Launch!Alive' : comfy'[j].state = "loading" => Launch!Busy /\ launch.process = j
      BY <1>3, <1>5, <1>6, <2>1 DEF Launching
    <3>3. QED
      BY <1>2, <1>3, <1>5, <2>1, <3>1, <3>2 DEF Launching
  <2>5. QED
    BY <2>2, <2>3, <2>4
<1>8. QED
  BY <1>2, <1>4, <1>7 DEF InSightAlone

LEMMA AppearsKeepsSight ==
    ASSUME InSightAlone, Launch!Appears
    PROVE  InSightAlone'
<1> DEFINE p == [state |-> "serving", port |-> Launch!Default]
           n == Len(comfy) + 1
<1>1. /\ comfy' = Append(comfy, p) /\ unseen' = (unseen \/ update = "running" \/ Launch!InProgress)
      /\ UNCHANGED <<install, request, update, launch>>
  BY DEF Launch!Appears
<1>2. comfy \in Seq(Process) /\ p \in Process /\ p.port = Launch!Default /\ p.state = "serving"
  BY DEF InSightAlone, LauncherTyped, Process, Port
<1> HIDE DEF p
<1>3. /\ comfy' \in Seq(Process) /\ Len(comfy') = n /\ comfy'[n] = p
      /\ \A i \in DOMAIN comfy : comfy'[i] = comfy[i]
      /\ DOMAIN comfy' = DOMAIN comfy \cup {n} /\ n \in Nat \ {0} /\ n \notin DOMAIN comfy
  BY <1>1, <1>2
<1>4. LauncherTyped'
  BY <1>1, <1>3 DEF InSightAlone, LauncherTyped
<1>5. ASSUME ~unseen' PROVE InSight' /\ Checked' /\ Launching'
  <2>1. /\ InSight /\ Launch!Alive = {} /\ ~Launch!Busy /\ update # "running"
        /\ \A c \in Client : request[c].pc # "checked"
    BY <1>1, <1>5 DEF InSightAlone, Launch!InProgress
  <2>2. Launch!Alive' = {n}
    BY <1>2, <1>3, <2>1 DEF Launch!Alive
  <2>3. ~Launch!Busy' /\ Launch!Default \in Launch!Probed'
    BY <1>1, <2>1 DEF Launch!Busy, Launch!Probed
  <2>4. InSight' /\ Checked'
    BY <1>1, <1>2, <1>3, <2>1, <2>2, <2>3 DEF InSight, Checked
  <2>5. Launching'
    BY <1>1, <1>2, <1>3, <2>1, <2>2, <2>3 DEF Launching
  <2>6. QED
    BY <2>4, <2>5
<1>6. QED
  BY <1>4, <1>5 DEF InSightAlone

LEMMA RearrangeKeepsSight ==
    ASSUME InSightAlone, Launch!Rearrange
    PROVE  InSightAlone'
<1>1. /\ install' \in [proof : BOOLEAN, scripts : SUBSET StartScript, updaters : {Updater},
                       unsafe : {install.unsafe}]
      /\ unseen' = (unseen \/ (Launch!Pinned \notin Launch!Probed' /\ Launch!InProgress))
      /\ UNCHANGED <<comfy, request, update, launch>>
  BY DEF Launch!Rearrange
<1>2. LauncherTyped'
  BY <1>1 DEF InSightAlone, LauncherTyped
<1>3. Launch!Alive' = Launch!Alive /\ Launch!Busy' = Launch!Busy
  BY <1>1 DEF Launch!Alive, Launch!Busy
<1>4. ASSUME ~unseen' PROVE InSight' /\ Checked' /\ Launching'
  <2>1. InSight /\ Checked /\ Launching
    BY <1>1, <1>4 DEF InSightAlone
  <2>2. Launch!InProgress => Port \subseteq Launch!Probed'
    BY <1>1, <1>4 DEF Launch!Probed, Port
  <2>3. /\ \A i \in Launch!Alive : comfy[i].port \in Port
        /\ \A s : Launch!PortOf(s) \in Port
    BY EveryProcess DEF InSightAlone, Launch!Alive, Launch!PortOf, Port
  <2>4. InSight'
    <3>1. ASSUME NEW i \in Launch!Alive PROVE comfy[i].port \in Launch!Probed'
      BY <2>2, <2>3, <3>1 DEF Launch!InProgress
    <3>2. Launch!Busy => Launch!PortOf(launch.script) \in Launch!Probed'
      BY <2>2, <2>3 DEF Launch!InProgress
    <3>3. ASSUME NEW c \in Client, request[c].pc = "checked" PROVE Launch!PortOf(request[c].path) \in Launch!Probed'
      BY <2>2, <2>3, <3>3 DEF Launch!InProgress
    <3>4. QED
      BY <1>1, <1>3, <3>1, <3>2, <3>3 DEF InSight
  <2>5. Checked' /\ Launching'
    BY <1>1, <1>3, <2>1 DEF Checked, Launching
  <2>6. QED
    BY <2>4, <2>5
<1>5. QED
  BY <1>2, <1>4 DEF InSightAlone

LEMMA LauncherInit ==
    ASSUME Launch!Init
    PROVE  InSightAlone
<1>1. /\ install.scripts = StartScript /\ install.updaters = Updater /\ comfy = <<>>
      /\ request = [c \in Client |-> Launch!Idle] /\ update = "idle"
      /\ launch = [status |-> "idle", script |-> "none", process |-> 0]
  BY DEF Launch!Init, Launch!NoLaunch
<1>2. LauncherTyped
  BY <1>1 DEF LauncherTyped, Requests
<1>3. Launch!Alive = {} /\ ~Launch!Busy /\ \A c \in Client : request[c].pc = "idle"
  BY <1>1 DEF Launch!Alive, Launch!Busy, Launch!Idle
<1>4. InSight /\ Checked /\ Launching
  BY <1>1, <1>3 DEF InSight, Checked, Launching
<1>5. QED
  BY <1>2, <1>4 DEF InSightAlone

LEMMA LauncherStep ==
    ASSUME InSightAlone, [Launch!Next]_Launch!launcherVars
    PROVE  InSightAlone'
<1>1. CASE UNCHANGED Launch!launcherVars
  <2>1. UNCHANGED <<install, comfy, request, update, launch, unseen>>
    BY <1>1 DEF Launch!launcherVars
  <2>2. LauncherTyped'
    BY <2>1 DEF InSightAlone, LauncherTyped
  <2>3. QED
    BY <2>1, <2>2, SightSame DEF InSightAlone, InSight, Checked, Launching, Launch!Alive, Launch!Busy
<1>2. CASE Launch!Next
  BY <1>2, PlanKeepsSight, AskKeepsSight, BeginUpdateKeepsSight, BeginLaunchKeepsSight,
     UpdateEndsKeepsSight, SpawnKeepsSight, LaunchEndsKeepsSight, ReadyKeepsSight,
     ProcessKeepsSight, AppearsKeepsSight, RearrangeKeepsSight DEF Launch!Next
<1>3. QED
  BY <1>1, <1>2

\* The invariant is strong enough.
LEMMA InSightIsOne == InSightAlone => Launch!OneComfyUI
<1>1. ASSUME InSightAlone, ~unseen
      PROVE  Launch!Cardinality(Launch!Alive) <= 1 /\ (update = "running" => Launch!Alive = {})
  <2>1. Launching
    BY <1>1 DEF InSightAlone
  <2>2. Launch!Cardinality(Launch!Alive) = Cardinality(Launch!Alive)
    BY DEF Launch!Cardinality, Cardinality
  <2>3. \A i, j \in Launch!Alive : i = j
    BY <2>1 DEF Launching
  <2>4. Cardinality(Launch!Alive) <= 1
    <3> DEFINE alive == Launch!Alive
    <3>1. CASE alive = {}
      BY <3>1, FS_EmptySet
    <3>2. ASSUME NEW i \in alive PROVE Cardinality(alive) = 1
      <4>1. alive = {i}
        BY <2>3
      <4>2. QED
        BY <4>1, FS_Singleton
    <3>3. QED
      BY <3>1, <3>2
  <2>5. QED
    BY <2>1, <2>2, <2>4 DEF Launching
<1>2. QED
  BY <1>1 DEF Launch!OneComfyUI

\* The vault never runs a second ComfyUI beside one that could be seen, nor the updater
\* under one, for any callers, scripts and processes (comfyui_service: run_updater and
\* open_workflow).
THEOREM OneComfyUIRuns == Spec => []OneComfyUI
<1> DEFINE Inv == "launcher" \in focus => InSightAlone
<1>1. Init => Inv
  BY LauncherInit DEF Init
<1>2. Inv /\ [Next]_<<focus, services>> => Inv'
  BY LauncherStep, Apart
<1>3. Inv => OneComfyUI
  BY InSightIsOne DEF OneComfyUI
<1>4. QED
  BY <1>1, <1>2, <1>3, PTL DEF Spec

-----------------------------------------------------------------------------
(* The rows of a file (AssetRows).  A digest is of bytes at least as new as *)
(* the row it stands in, and of none that are still to come (Hashed).       *)

Kinds == {"model", "node", "workflow", "output"}
Digest == [state : {"unhashed", "done", "stale"}, of : Nat]
Verdict == {"ok", "invalid_header", "no_classes_found", "registry_only", "partial", "unreadable"}
Row == [stamp : Nat \ {0}, names : SUBSET (NodeName \cup Registered), status : Verdict,
        side : BOOLEAN, hash : Digest, user : Nat]

RowsTyped ==
    /\ file \in [Asset -> [stamp : Nat \ {0}, py : SUBSET NodeName, js : SUBSET NodeName, whole : BOOLEAN]]
    /\ beside \in [Asset -> BOOLEAN] /\ entered \in [Asset -> Nat]
    /\ row \in [Asset -> {Rows!NoRow} \cup Row]

Hashed ==
    \A a \in Asset : Rows!HasRow(a) =>
        /\ row[a].stamp <= file[a].stamp
        /\ row[a].hash.state = "done" =>
             /\ row[a].stamp <= row[a].hash.of /\ row[a].hash.of <= file[a].stamp
             /\ AssetKind[a] = "model"

Exact == RowsTyped /\ Hashed /\ Rows!ReindexExact
             /\ \A a \in Asset : ~Rows!HasRow(a) => entered[a] = 0

LEMMA EveryRow ==
    ASSUME RowsTyped, NEW a \in Asset
    PROVE  /\ row[a] # Rows!NoRow => /\ row[a] \in Row /\ row[a].stamp \in Nat \ {0}
                                  /\ row[a].hash \in Digest /\ row[a].user \in Nat
                                  /\ row[a].names \in SUBSET (NodeName \cup Registered)
                                  /\ row[a].hash.of \in Nat
           /\ \A r \in Row : r # Rows!NoRow
           /\ file[a].stamp \in Nat \ {0} /\ file[a].whole \in BOOLEAN
           /\ file[a].py \in SUBSET NodeName /\ file[a].js \in SUBSET NodeName
<1>1. \A r \in Row : r.stamp # 0
  BY DEF Row
<1>2. \A r \in Row : r # Rows!NoRow
  BY <1>1 DEF Rows!NoRow
<1>3. row[a] # Rows!NoRow => row[a] \in Row
  BY DEF RowsTyped
<1>4. row[a] # Rows!NoRow => /\ row[a].stamp \in Nat \ {0} /\ row[a].hash \in Digest
                          /\ row[a].user \in Nat /\ row[a].names \in SUBSET (NodeName \cup Registered)
  BY <1>3 DEF Row
<1>5. \A d \in Digest : d.of \in Nat
  BY DEF Digest
<1>6. /\ file[a].stamp \in Nat \ {0} /\ file[a].whole \in BOOLEAN
      /\ file[a].py \in SUBSET NodeName /\ file[a].js \in SUBSET NodeName
  BY DEF RowsTyped
<1>7. QED
  BY <1>2, <1>3, <1>4, <1>5, <1>6

\* What an analysis returns.
LEMMA ParsedFacts ==
    ASSUME RowsTyped, AssetKind \in [Asset -> Kinds], NEW a \in Asset
    PROVE  /\ Rows!Parsed(a).names \in SUBSET (NodeName \cup Registered) /\ Rows!Parsed(a).status \in Verdict
<1>1. /\ file[a].whole \in BOOLEAN /\ file[a].py \in SUBSET NodeName /\ file[a].js \in SUBSET NodeName
  BY EveryRow
<1>2. CASE AssetKind[a] = "model"
  <2>1. Rows!Parsed(a) = Rows!ModelParsed(file[a])
    BY <1>2 DEF Rows!Parsed
  <2>2. QED
    BY <2>1 DEF Rows!ModelParsed, Verdict
<1>3. CASE AssetKind[a] = "node"
  <2>1. Rows!Parsed(a) = Rows!PackageParsed(file[a])
    BY <1>3 DEF Rows!Parsed
  <2>2. Rows!Parsed(a).names \in SUBSET (NodeName \cup Registered)
    BY <1>1, <2>1 DEF Rows!PackageParsed, Rows!Extracted
  <2>3. Rows!Parsed(a).status \in Verdict
    BY <2>1 DEF Rows!PackageParsed, Rows!ExtractionStatus, Verdict
  <2>4. QED
    BY <2>2, <2>3
<1>4. CASE AssetKind[a] = "workflow"
  <2>1. Rows!Parsed(a) = Rows!WorkflowParsed(file[a])
    BY <1>4 DEF Rows!Parsed
  <2>2. QED
    BY <1>1, <2>1 DEF Rows!WorkflowParsed, Verdict
<1>5. CASE AssetKind[a] = "output"
  <2>1. Rows!Parsed(a) = Rows!OutputParsed(file[a])
    BY <1>5 DEF Rows!Parsed
  <2>2. QED
    BY <1>1, <2>1 DEF Rows!OutputParsed, Verdict
<1>6. QED
  BY <1>2, <1>3, <1>4, <1>5 DEF Kinds

\* What a scan writes carries the file's fingerprint and is what an empty database would get.
LEMMA UpsertFacts ==
    ASSUME Exact, AssetKind \in [Asset -> Kinds], NEW a \in Asset
    PROVE  LET r == Rows!Upsert(a)
           IN  /\ r \in Row /\ r.stamp = file[a].stamp /\ r.status = Rows!Parsed(a).status
               /\ r.names = Rows!Parsed(a).names \/ (AssetKind[a] = "output" /\ Rows!Parsed(a).names = {})
               /\ r.user = entered[a]
               /\ r.hash.state = "done" => r.hash.of = file[a].stamp /\ AssetKind[a] = "model"
<1> DEFINE names == Rows!Parsed(a).names
           status == Rows!Parsed(a).status
           user == IF Rows!HasRow(a) THEN row[a].user ELSE 0
           Of(n, h) == [stamp |-> file[a].stamp, names |-> n, status |-> status,
                        side |-> beside[a], hash |-> h, user |-> user]
<1>1. names \in SUBSET (NodeName \cup Registered) /\ status \in Verdict
  BY ParsedFacts DEF Exact
<1>2. user \in Nat /\ user = entered[a] /\ file[a].stamp \in Nat \ {0} /\ beside[a] \in BOOLEAN
  BY EveryRow DEF Exact, RowsTyped, Rows!ReindexExact, Rows!HasRow
<1> HIDE DEF names, status, user
<1>3. ASSUME NEW n \in SUBSET (NodeName \cup Registered), NEW h \in Digest
      PROVE  /\ Of(n, h) \in Row /\ Of(n, h).stamp = file[a].stamp /\ Of(n, h).status = status
             /\ Of(n, h).names = n /\ Of(n, h).user = user /\ Of(n, h).hash = h
  BY <1>1, <1>2 DEF Row
<1>4. \A n, h : Rows!Base(a, n, h) = Of(n, h)
  BY DEF Rows!Base, status, user
<1> HIDE DEF Of
<1> DEFINE good(h) == h \in Digest /\ (h.state = "done" => h.of = file[a].stamp /\ AssetKind[a] = "model")
           changed == [Rows!Hash(a) EXCEPT !.state = "stale"]
<1>5. Rows!Hash(a) \in Digest
  BY EveryRow DEF Exact, Rows!Hash, Rows!HasRow, Digest
<1>6. Rows!Hash(a).state = "done" => Rows!HasRow(a) /\ Rows!Hash(a) = row[a].hash
  BY DEF Rows!Hash
<1>7. Rows!HasRow(a) /\ row[a].stamp = file[a].stamp => good(Rows!Hash(a))
  BY <1>5, <1>6 DEF Exact, Hashed, Rows!ReindexExact
<1>8. changed \in Digest /\ changed.state = "stale"
  BY <1>5 DEF Digest
<1>9. CASE AssetKind[a] = "model"
  <2> DEFINE h == IF Rows!Hash(a).state = "done" /\ row[a].stamp # file[a].stamp THEN changed ELSE Rows!Hash(a)
  <2>1. good(h)
    BY <1>5, <1>6, <1>7, <1>8
  <2>2. Rows!Upsert(a) = Of({}, h)
    BY <1>4, <1>9 DEF Rows!Upsert, Rows!UpsertModel
  <2>3. names = {}
    BY <1>9 DEF names, Rows!Parsed, Rows!ModelParsed
  <2> HIDE DEF h
  <2>4. QED
    BY <1>2, <1>3, <2>1, <2>2, <2>3 DEF names, status
<1>10. AssetKind[a] # "model" => good(Rows!Hash(a))
  BY <1>5, <1>6 DEF Exact, Hashed
<1>11. CASE AssetKind[a] \in {"node", "workflow"}
  <2>1. Rows!Upsert(a) = Of(names, Rows!Hash(a))
    BY <1>4, <1>11 DEF Rows!Upsert, Rows!UpsertPackage, Rows!UpsertWorkflow, names
  <2>2. QED
    BY <1>1, <1>2, <1>3, <1>10, <1>11, <2>1 DEF names, status
<1>12. CASE AssetKind[a] = "output"
  <2> DEFINE n == IF names = {} /\ Rows!HasRow(a) THEN row[a].names ELSE names
  <2>1. Rows!Upsert(a) = Of(n, Rows!Hash(a))
    BY <1>4, <1>12 DEF Rows!Upsert, Rows!UpsertOutput, names
  <2>2. n \in SUBSET (NodeName \cup Registered) /\ (n = names \/ names = {})
    BY <1>1, EveryRow DEF Exact, Rows!HasRow
  <2> HIDE DEF n
  <2>3. QED
    BY <1>2, <1>3, <1>10, <1>12, <2>1, <2>2 DEF names, status
<1>13. QED
  BY <1>9, <1>10, <1>11, <1>12 DEF Kinds

\* The parts of the invariant for an asset whose file and row a step leaves as they are.
ExactFor(a) ==
    /\ Rows!HasRow(a) =>
         /\ row[a].stamp <= file[a].stamp
         /\ row[a].hash.state = "done" =>
              /\ row[a].stamp <= row[a].hash.of /\ row[a].hash.of <= file[a].stamp
              /\ AssetKind[a] = "model"
         /\ row[a].user = entered[a]
         /\ row[a].stamp = file[a].stamp =>
             /\ row[a].status = Rows!Parsed(a).status
             /\ \/ row[a].names = Rows!Parsed(a).names
                \/ AssetKind[a] = "output" /\ Rows!Parsed(a).names = {}
             /\ row[a].hash.state = "done" => row[a].hash.of = file[a].stamp
    /\ ~Rows!HasRow(a) => entered[a] = 0

LEMMA ExactForAll == Exact <=> RowsTyped /\ \A a \in Asset : ExactFor(a)
BY DEF Exact, Hashed, Rows!ReindexExact, ExactFor

LEMMA SameAsset ==
    ASSUME NEW a \in Asset, ExactFor(a), file'[a] = file[a], row'[a] = row[a],
           entered'[a] = entered[a]
    PROVE  ExactFor(a)'
<1>1. Rows!Parsed(a)' = Rows!Parsed(a)
  BY DEF Rows!Parsed
<1>2. QED
  BY <1>1 DEF ExactFor, Rows!HasRow

LEMMA ScanExact ==
    ASSUME Exact, AssetKind \in [Asset -> Kinds], NEW a \in Asset, NEW force \in BOOLEAN,
           Rows!ScanAsset(a, force)
    PROVE  Exact'
<1> DEFINE r == Rows!Upsert(a)
<1>1. row' = [row EXCEPT ![a] = r] /\ UNCHANGED <<file, beside, entered>>
  BY DEF Rows!ScanAsset
<1>2. /\ r \in Row /\ r.stamp = file[a].stamp /\ r.status = Rows!Parsed(a).status
      /\ r.names = Rows!Parsed(a).names \/ (AssetKind[a] = "output" /\ Rows!Parsed(a).names = {})
      /\ r.user = entered[a]
      /\ r.hash.state = "done" => r.hash.of = file[a].stamp /\ AssetKind[a] = "model"
  BY UpsertFacts
<1> HIDE DEF r
<1>3. RowsTyped'
  BY <1>1, <1>2 DEF Exact, RowsTyped
<1>4. row'[a] = r /\ \A b \in Asset \ {a} : row'[b] = row[b]
  BY <1>1 DEF Exact, RowsTyped
<1>5. Rows!Parsed(a)' = Rows!Parsed(a)
  BY <1>1 DEF Rows!Parsed
<1>6. ExactFor(a)'
  <2>1. file[a].stamp \in Nat /\ r # Rows!NoRow
    BY <1>2, EveryRow DEF Exact
  <2>2. QED
    BY <1>1, <1>2, <1>4, <1>5, <2>1 DEF ExactFor, Rows!HasRow
<1>7. ASSUME NEW b \in Asset \ {a} PROVE ExactFor(b)'
  BY <1>1, <1>4, SameAsset, ExactForAll
<1>8. \A b \in Asset : ExactFor(b)'
  BY <1>6, <1>7
<1>9. QED
  BY <1>3, <1>8 DEF Exact, Hashed, Rows!ReindexExact, ExactFor

LEMMA EditExact ==
    ASSUME Exact, NEW a \in Asset, Rows!Edit(a)
    PROVE  Exact'
<1>1. PICK f \in Rows!Files : f.stamp = file[a].stamp + 1 /\ file' = [file EXCEPT ![a] = f]
  BY DEF Rows!Edit
<1>2. UNCHANGED <<beside, row, entered>>
  BY DEF Rows!Edit
<1>3. file[a].stamp \in Nat \ {0}
  BY EveryRow DEF Exact
<1>4. f \in [stamp : Nat \ {0}, py : SUBSET NodeName, js : SUBSET NodeName, whole : BOOLEAN]
  BY <1>1, <1>3 DEF Rows!Files
<1>5. RowsTyped'
  BY <1>1, <1>2, <1>4 DEF Exact, RowsTyped
<1>6. file'[a] = f /\ \A b \in Asset \ {a} : file'[b] = file[b]
  BY <1>1 DEF Exact, RowsTyped
<1>7. ExactFor(a)'
  <2>1. Rows!HasRow(a) => row[a].stamp \in Nat /\ row[a].hash.of \in Nat
    BY EveryRow DEF Exact, Rows!HasRow
  <2>2. QED
    BY <1>1, <1>2, <1>3, <1>6, <2>1, ExactForAll DEF ExactFor, Rows!HasRow
<1>8. ASSUME NEW b \in Asset \ {a} PROVE ExactFor(b)'
  BY <1>2, <1>6, SameAsset, ExactForAll
<1>9. \A b \in Asset : ExactFor(b)'
  BY <1>7, <1>8
<1>10. QED
  BY <1>5, <1>9 DEF Exact, Hashed, Rows!ReindexExact, ExactFor

LEMMA HashExact ==
    ASSUME Exact, NEW a \in Asset, Rows!HashModel(a)
    PROVE  Exact'
<1> DEFINE h == [state |-> "done", of |-> file[a].stamp]
           r == [row[a] EXCEPT !.hash = h]
<1>1. /\ AssetKind[a] = "model" /\ Rows!HasRow(a) /\ row' = [row EXCEPT ![a] = r]
      /\ UNCHANGED <<file, beside, entered>>
  BY DEF Rows!HashModel
<1>2. row[a] \in Row /\ file[a].stamp \in Nat \ {0}
  BY <1>1, EveryRow DEF Exact, Rows!HasRow
<1>3. h \in Digest /\ h.of = file[a].stamp
  BY <1>2 DEF Digest
<1> HIDE DEF h
<1>4. /\ r \in Row /\ r.stamp = row[a].stamp /\ r.status = row[a].status /\ r.names = row[a].names
      /\ r.user = row[a].user /\ r.hash = h
  BY <1>2, <1>3 DEF Row
<1> HIDE DEF r
<1>5. RowsTyped'
  BY <1>1, <1>4 DEF Exact, RowsTyped
<1>6. row'[a] = r /\ \A b \in Asset \ {a} : row'[b] = row[b]
  BY <1>1 DEF Exact, RowsTyped
<1>7. Rows!Parsed(a)' = Rows!Parsed(a)
  BY <1>1 DEF Rows!Parsed
<1>8. ExactFor(a)'
  <2>1. row[a].stamp \in Nat /\ r # Rows!NoRow
    BY <1>1, <1>4, EveryRow DEF Exact, Rows!HasRow
  <2>2. QED
    BY <1>1, <1>2, <1>3, <1>4, <1>6, <1>7, <2>1, ExactForAll DEF ExactFor, Rows!HasRow
<1>9. ASSUME NEW b \in Asset \ {a} PROVE ExactFor(b)'
  BY <1>1, <1>6, SameAsset, ExactForAll
<1>10. \A b \in Asset : ExactFor(b)'
  BY <1>8, <1>9
<1>11. QED
  BY <1>5, <1>10 DEF Exact, Hashed, Rows!ReindexExact, ExactFor

LEMMA RateExact ==
    ASSUME Exact, NEW a \in Asset, Rows!Rate(a)
    PROVE  Exact'
<1> DEFINE r == [row[a] EXCEPT !.user = 1]
<1>1. /\ Rows!HasRow(a) /\ row' = [row EXCEPT ![a] = r] /\ entered' = [entered EXCEPT ![a] = 1]
      /\ UNCHANGED <<file, beside>>
  BY DEF Rows!Rate
<1>2. row[a] \in Row
  BY <1>1, EveryRow DEF Exact, Rows!HasRow
<1>3. /\ r \in Row /\ r.stamp = row[a].stamp /\ r.status = row[a].status /\ r.names = row[a].names
      /\ r.user = 1 /\ r.hash = row[a].hash
  BY <1>2 DEF Row
<1> HIDE DEF r
<1>4. RowsTyped'
  BY <1>1, <1>3 DEF Exact, RowsTyped
<1>5. row'[a] = r /\ entered'[a] = 1
      /\ \A b \in Asset \ {a} : row'[b] = row[b] /\ entered'[b] = entered[b]
  BY <1>1 DEF Exact, RowsTyped
<1>6. Rows!Parsed(a)' = Rows!Parsed(a)
  BY <1>1 DEF Rows!Parsed
<1>7. ExactFor(a)'
  <2>1. r # Rows!NoRow
    BY <1>3, EveryRow DEF Exact
  <2>2. QED
    BY <1>1, <1>3, <1>5, <1>6, <2>1, ExactForAll DEF ExactFor, Rows!HasRow
<1>8. ASSUME NEW b \in Asset \ {a} PROVE ExactFor(b)'
  BY <1>1, <1>5, SameAsset, ExactForAll
<1>9. \A b \in Asset : ExactFor(b)'
  BY <1>7, <1>8
<1>10. QED
  BY <1>4, <1>9 DEF Exact, Hashed, Rows!ReindexExact, ExactFor

LEMMA RestExact ==
    ASSUME Exact, UNCHANGED <<file, row, entered>>, beside' \in [Asset -> BOOLEAN]
    PROVE  Exact'
<1>1. RowsTyped'
  BY DEF Exact, RowsTyped
<1>2. \A a \in Asset : ExactFor(a)'
  BY SameAsset, ExactForAll
<1>3. QED
  BY <1>1, <1>2 DEF Exact, Hashed, Rows!ReindexExact, ExactFor

LEMMA RowsInit ==
    ASSUME Rows!Init
    PROVE  Exact
<1>1. RowsTyped
  <2>1. [stamp : {1}, py : {{}, NodeName}, js : {{}}, whole : {TRUE}]
            \subseteq [stamp : Nat \ {0}, py : SUBSET NodeName, js : SUBSET NodeName, whole : BOOLEAN]
    <3>1. /\ {1} \subseteq Nat \ {0} /\ {{}, NodeName} \subseteq SUBSET NodeName
          /\ {{}} \subseteq SUBSET NodeName /\ {TRUE} \subseteq BOOLEAN
      OBVIOUS
    <3> DEFINE S1 == {1}
               S2 == {{}, NodeName}
               S3 == {{}}
               S4 == {TRUE}
               T1 == Nat \ {0}
               T2 == SUBSET NodeName
    <3>2. S1 \subseteq T1 /\ S2 \subseteq T2 /\ S3 \subseteq T2 /\ S4 \subseteq BOOLEAN
      BY <3>1
    <3> HIDE DEF S1, S2, S3, S4, T1, T2
    <3>3. [stamp : S1, py : S2, js : S3, whole : S4]
            \subseteq [stamp : T1, py : T2, js : T2, whole : BOOLEAN]
      BY <3>2
    <3>4. QED
      BY <3>3 DEF S1, S2, S3, S4, T1, T2
  <2>2. file \in [Asset -> [stamp : Nat \ {0}, py : SUBSET NodeName, js : SUBSET NodeName, whole : BOOLEAN]]
    BY <2>1 DEF Rows!Init
  <2>3. QED
    BY <2>2 DEF Rows!Init, RowsTyped
<1>2. \A a \in Asset : ~Rows!HasRow(a) /\ entered[a] = 0
  BY DEF Rows!Init, Rows!HasRow
<1>3. QED
  BY <1>1, <1>2 DEF Exact, Hashed, Rows!ReindexExact

LEMMA RowsStep ==
    ASSUME AssetKind \in [Asset -> Kinds], Exact, [Rows!Next]_Rows!assetVars
    PROVE  Exact'
<1>1. CASE UNCHANGED Rows!assetVars
  BY <1>1, RestExact DEF Rows!assetVars, Exact, RowsTyped
<1>2. ASSUME NEW a \in Asset, Rows!PlaceBeside(a) PROVE Exact'
  BY <1>2, RestExact DEF Rows!PlaceBeside, Exact, RowsTyped
<1>3. ASSUME NEW a \in Asset, Rows!Step(a) PROVE Exact'
  BY <1>2, <1>3, ScanExact, EditExact, HashExact, RateExact DEF Rows!Step
<1>4. QED
  BY <1>1, <1>3 DEF Rows!Next

\* While a row carries its file's fingerprint it is the one a scan of an empty database would
\* write, for any assets, names and versions (phases models, nodes, workflows, outputs).
THEOREM RowsAreExact == Spec => []RowsExact
<1> DEFINE Inv == "rows" \in focus => Exact
<1>1. AssetKind \in [Asset -> Kinds]
  BY ServicesOK DEF Kinds
<1>2. Init => Inv
  BY RowsInit DEF Init
<1>3. Inv /\ [Next]_<<focus, services>> => Inv'
  BY <1>1, RowsStep, Apart
<1>4. Inv => RowsExact
  BY DEF RowsExact, Exact
<1>5. QED
  BY <1>2, <1>3, <1>4, PTL DEF Spec

-----------------------------------------------------------------------------
(* Thumbnails (Thumbs).  Of an image or a video only the rendering under    *)
(* way writes; what it draws is at least as new as the fingerprint it was   *)
(* asked with (Drawn), and no row is newer than that (Behind).              *)

Picture == [is : {"nothing", "gradient", "picture"}, of : Nat]
Drawing == [at : {"part", "place", "failed", "row", "done"}, stamp : Nat, row : Nat, draws : Picture]
Upload == [at : {"part", "place", "row"}, stamp : Nat, draws : Picture]
Asking == [at : {"render"}, stamp : Nat, row : Nat]

ThumbsTyped ==
    /\ art \in [media : Media, holds : Nat, stamp : Nat]
    /\ tile \in [file : Picture, row : Nat] /\ drafts \in Picture
    /\ flight \in {Tiles!Idle} \cup Asking \cup Drawing
    /\ posters \in [Poster -> [at : {"idle", "error", "done"}] \cup Upload]

Behind ==
    /\ art.stamp <= art.holds /\ tile.row <= art.stamp
    /\ flight # Tiles!Idle => tile.row <= flight.stamp /\ flight.stamp <= art.stamp

Drawn ==
    /\ flight \in Drawing => flight.draws.of >= flight.stamp
    /\ drafts # Tiles!Nothing => flight.at = "place" /\ drafts = flight.draws
    /\ flight.at = "row" => tile.file \in {Tiles!Nothing, flight.draws}
    /\ tile.file # Tiles!Nothing => tile.file.of >= tile.row

Current ==
    /\ ThumbsTyped
    /\ art.media # "model3d" =>
         Behind /\ Drawn /\ \A p \in Poster : posters[p] = Tiles!Idle

LEMMA FlightFacts ==
    ASSUME ThumbsTyped
    PROVE  /\ flight = Tiles!Idle <=> flight.at = "idle"
           /\ flight \in Asking <=> flight.at = "render"
           /\ flight \in Drawing <=> flight.at \in {"part", "place", "failed", "row", "done"}
           /\ flight # Tiles!Idle => flight.stamp \in Nat /\ flight.row \in Nat
           /\ flight \in Drawing => flight.draws \in Picture /\ flight.draws.of \in Nat
           /\ art.media \in Media /\ art.holds \in Nat /\ art.stamp \in Nat
           /\ tile.row \in Nat /\ tile.file \in Picture /\ tile.file.of \in Nat
           /\ drafts \in Picture /\ drafts.of \in Nat
           /\ Tiles!Nothing \in Picture /\ Tiles!Nothing.of = 0
<1>1. \A p \in Picture : p.of \in Nat
  BY DEF Picture
<1>2. Tiles!Nothing \in Picture /\ Tiles!Nothing.of = 0
  BY DEF Picture, Tiles!Nothing
<1>3. /\ flight = Tiles!Idle <=> flight.at = "idle"
      /\ flight \in Asking <=> flight.at = "render"
      /\ flight \in Drawing <=> flight.at \in {"part", "place", "failed", "row", "done"}
      /\ flight # Tiles!Idle => flight.stamp \in Nat /\ flight.row \in Nat
      /\ flight \in Drawing => flight.draws \in Picture
  BY DEF ThumbsTyped, Tiles!Idle, Asking, Drawing
<1>4. /\ art.media \in Media /\ art.holds \in Nat /\ art.stamp \in Nat
      /\ tile.row \in Nat /\ tile.file \in Picture /\ drafts \in Picture
  BY DEF ThumbsTyped
<1>5. QED
  BY <1>1, <1>2, <1>3, <1>4

LEMMA GetKeepsTiles ==
    ASSUME Current, NEW v \in Client, Tiles!Get(v)
    PROVE  Current'
<1>1. UNCHANGED <<art, tile, drafts, posters>>
  BY DEF Tiles!Get
<1>2. CASE flight' = flight
  BY <1>1, <1>2 DEF Current, ThumbsTyped, Behind, Drawn
<1>3. CASE flight' # flight
  <2> DEFINE asking == [at |-> "render", stamp |-> art.stamp, row |-> tile.row]
  <2>1. flight = Tiles!Idle /\ flight' = asking
    BY <1>3 DEF Tiles!Get
  <2>2. asking \in Asking /\ asking.at = "render" /\ asking.stamp = art.stamp
    BY FlightFacts DEF Current, Asking
  <2> HIDE DEF asking
  <2>3. ThumbsTyped'
    BY <1>1, <2>1, <2>2 DEF Current, ThumbsTyped
  <2>4. flight' \notin Drawing
    BY <2>1, <2>2 DEF Drawing
  <2>5. ASSUME art.media # "model3d" PROVE Behind' /\ Drawn'
    <3>1. Behind /\ Drawn /\ flight.at = "idle"
      BY <2>1, <2>5, FlightFacts DEF Current
    <3>2. Behind'
      BY <1>1, <2>1, <2>2, <3>1, FlightFacts DEF Current, Behind
    <3>3. Drawn'
      BY <1>1, <2>1, <2>2, <2>4, <3>1 DEF Drawn
    <3>4. QED
      BY <3>2, <3>3
  <2>6. QED
    BY <1>1, <2>3, <2>5 DEF Current
<1>4. QED
  BY <1>2, <1>3

LEMMA RenderKeepsTiles ==
    ASSUME Current, Tiles!Render
    PROVE  Current'
<1>1. PICK s \in {Tiles!Gradient(art.holds), Tiles!Shot(art.holds)} :
          flight' = [at |-> "part", stamp |-> flight.stamp, row |-> flight.row, draws |-> s]
  BY DEF Tiles!Render
<1>2. flight.at = "render" /\ UNCHANGED <<art, tile, drafts, posters>>
  BY DEF Tiles!Render
<1>3. s \in Picture /\ s.of = art.holds
  BY FlightFacts DEF Current, Tiles!Gradient, Tiles!Shot, Picture
<1>4. flight # Tiles!Idle /\ flight.stamp \in Nat /\ flight.row \in Nat
  BY <1>2, FlightFacts DEF Current
<1>5. /\ flight' \in Drawing /\ flight'.at = "part" /\ flight'.stamp = flight.stamp
      /\ flight'.draws = s
  BY <1>1, <1>3, <1>4 DEF Drawing
<1>6. ThumbsTyped'
  BY <1>2, <1>5 DEF Current, ThumbsTyped
<1>7. ASSUME art.media # "model3d" PROVE Behind' /\ Drawn'
  <2>1. Behind /\ Drawn
    BY <1>7 DEF Current
  <2>2. Behind'
    BY <1>2, <1>4, <1>5, <2>1 DEF Behind
  <2>3. Drawn'
    BY <1>2, <1>3, <1>4, <1>5, <2>1, FlightFacts DEF Current, Behind, Drawn
  <2>4. QED
    BY <2>2, <2>3
<1>8. QED
  BY <1>2, <1>6, <1>7 DEF Current

\* A rendering that goes on with what it has.
LEMMA FlightMoves ==
    ASSUME ThumbsTyped, flight \in Drawing, NEW stage \in {"part", "place", "failed", "row", "done"},
           flight' = [flight EXCEPT !.at = stage]
    PROVE  /\ flight' \in Drawing /\ flight'.at = stage /\ flight'.stamp = flight.stamp
           /\ flight'.draws = flight.draws /\ flight' # Tiles!Idle
<1>1. /\ flight' \in Drawing /\ flight'.at = stage /\ flight'.stamp = flight.stamp
      /\ flight'.draws = flight.draws
  BY DEF Drawing
<1>2. QED
  BY <1>1 DEF Tiles!Idle

LEMMA FlightKeepsTiles ==
    ASSUME Current, Tiles!Part \/ Tiles!Place \/ Tiles!Record
    PROVE  Current'
<1>1. UNCHANGED <<art, posters>> /\ flight.at \in {"part", "place", "row"}
  BY DEF Tiles!Part, Tiles!Place, Tiles!Record
<1>2. flight \in Drawing /\ flight # Tiles!Idle /\ flight.draws \in Picture
      /\ flight.draws.of \in Nat /\ flight.stamp \in Nat
  BY <1>1, FlightFacts DEF Current
<1>3. CASE Tiles!Part
  <2>1. drafts' = flight.draws /\ flight' = [flight EXCEPT !.at = "place"] /\ tile' = tile
    BY <1>3 DEF Tiles!Part
  <2>2. /\ flight' \in Drawing /\ flight'.at = "place" /\ flight'.stamp = flight.stamp
        /\ flight'.draws = flight.draws /\ flight' # Tiles!Idle
    BY <1>2, <2>1, FlightMoves DEF Current
  <2>3. ThumbsTyped'
    BY <1>1, <1>2, <2>1, <2>2 DEF Current, ThumbsTyped
  <2>4. ASSUME art.media # "model3d" PROVE Behind' /\ Drawn'
    BY <1>1, <1>2, <2>1, <2>2, <2>4 DEF Current, Behind, Drawn
  <2>5. QED
    BY <1>1, <2>3, <2>4 DEF Current
<1>4. CASE Tiles!Place /\ drafts = Tiles!Nothing
  <2>1. flight' = [flight EXCEPT !.at = "failed"] /\ UNCHANGED <<tile, drafts>>
    BY <1>4 DEF Tiles!Place
  <2>2. /\ flight' \in Drawing /\ flight'.at = "failed" /\ flight'.stamp = flight.stamp
        /\ flight'.draws = flight.draws /\ flight' # Tiles!Idle
    BY <1>2, <2>1, FlightMoves DEF Current
  <2>3. ThumbsTyped'
    BY <1>1, <1>2, <2>1, <2>2 DEF Current, ThumbsTyped
  <2>4. ASSUME art.media # "model3d" PROVE Behind' /\ Drawn'
    BY <1>1, <1>2, <1>4, <2>1, <2>2, <2>4 DEF Current, Behind, Drawn
  <2>5. QED
    BY <1>1, <2>3, <2>4 DEF Current
<1>5. CASE Tiles!Place /\ drafts # Tiles!Nothing
  <2>1. /\ flight' = [flight EXCEPT !.at = "row"] /\ drafts' = Tiles!Nothing
        /\ tile' = [tile EXCEPT !.file = drafts]
    BY <1>5 DEF Tiles!Place
  <2>2. /\ flight' \in Drawing /\ flight'.at = "row" /\ flight'.stamp = flight.stamp
        /\ flight'.draws = flight.draws /\ flight' # Tiles!Idle
    BY <1>2, <2>1, FlightMoves DEF Current
  <2>3. tile' \in [file : Picture, row : Nat] /\ tile'.file = drafts /\ tile'.row = tile.row
    BY <2>1 DEF Current, ThumbsTyped
  <2>4. ThumbsTyped'
    BY <1>1, <2>1, <2>2, <2>3, FlightFacts DEF Current, ThumbsTyped
  <2>5. ASSUME art.media # "model3d" PROVE Behind' /\ Drawn'
    <3>1. Behind /\ Drawn
      BY <2>5 DEF Current
    <3>2. Behind'
      BY <1>1, <1>2, <2>2, <2>3, <3>1 DEF Behind
    <3>3. drafts = flight.draws /\ flight.draws.of >= flight.stamp /\ tile.row <= flight.stamp
      BY <1>2, <1>5, <3>1 DEF Behind, Drawn
    <3>4. Drawn'
      BY <1>2, <2>1, <2>2, <2>3, <3>3, FlightFacts DEF Current, Drawn
    <3>5. QED
      BY <3>2, <3>4
  <2>6. QED
    BY <1>1, <2>4, <2>5 DEF Current
<1>6. CASE Tiles!Record
  <2>1. /\ flight.at = "row" /\ flight' = [flight EXCEPT !.at = "done"] /\ drafts' = drafts
        /\ \/ tile' = [tile EXCEPT !.row = IF Tiles!Transient THEN tile.row ELSE flight.stamp]
           \/ tile' = tile
    BY <1>6 DEF Tiles!Record, Tiles!Vouched
  <2>2. /\ flight' \in Drawing /\ flight'.at = "done" /\ flight'.stamp = flight.stamp
        /\ flight'.draws = flight.draws /\ flight' # Tiles!Idle
    BY <1>2, <2>1, FlightMoves DEF Current
  <2>3. /\ tile' \in [file : Picture, row : Nat] /\ tile'.file = tile.file
        /\ tile'.row \in {tile.row, flight.stamp}
    BY <1>2, <2>1 DEF Current, ThumbsTyped
  <2>4. ThumbsTyped'
    BY <1>1, <2>1, <2>2, <2>3 DEF Current, ThumbsTyped
  <2>5. ASSUME art.media # "model3d" PROVE Behind' /\ Drawn'
    <3>1. Behind /\ Drawn
      BY <2>5 DEF Current
    <3>2. Behind'
      BY <1>1, <1>2, <2>2, <2>3, <3>1, FlightFacts DEF Current, Behind
    <3>3. drafts = Tiles!Nothing /\ tile.file \in {Tiles!Nothing, flight.draws}
          /\ flight.draws.of >= flight.stamp
      BY <1>2, <2>1, <3>1 DEF Drawn
    <3>4. Drawn'
      BY <1>2, <2>1, <2>2, <2>3, <3>1, <3>3 DEF Drawn
    <3>5. QED
      BY <3>2, <3>4
  <2>6. QED
    BY <1>1, <2>4, <2>5 DEF Current
<1>7. QED
  BY <1>3, <1>4, <1>5, <1>6

LEMMA LandKeepsTiles ==
    ASSUME Current, Tiles!Land
    PROVE  Current'
<1>1. /\ flight.at \in {"done", "failed"} /\ flight' = Tiles!Idle
      /\ UNCHANGED <<art, tile, drafts, posters>>
  BY DEF Tiles!Land
<1>2. Tiles!Idle \notin Drawing /\ Tiles!Idle.at = "idle"
  BY DEF Drawing, Tiles!Idle
<1>3. ThumbsTyped'
  BY <1>1 DEF Current, ThumbsTyped
<1>4. ASSUME art.media # "model3d" PROVE Behind' /\ Drawn'
  BY <1>1, <1>2, <1>4 DEF Current, Behind, Drawn
<1>5. QED
  BY <1>1, <1>3, <1>4 DEF Current

\* Posters are of 3D models.
LEMMA PosterKeepsTiles ==
    ASSUME Current, NEW p \in Poster,
           Tiles!Upload(p) \/ Tiles!UploadPart(p) \/ Tiles!UploadPlace(p) \/ Tiles!UploadRow(p)
    PROVE  Current'
<1> DEFINE Posters == [at : {"idle", "error", "done"}] \cup Upload
<1>1. UNCHANGED <<art, flight>>
  BY DEF Tiles!Upload, Tiles!UploadPart, Tiles!UploadPlace, Tiles!UploadRow
<1>2. art.media = "model3d"
  BY DEF Current, Tiles!Upload, Tiles!UploadPart, Tiles!UploadPlace, Tiles!UploadRow, Tiles!Idle
<1>3. /\ posters \in [Poster -> Posters] /\ posters[p] \in Posters
      /\ posters[p].at \in {"part", "place", "row"} => posters[p] \in Upload
  BY DEF Current, ThumbsTyped, Upload
<1>4. [at |-> "error"] \in Posters /\ [at |-> "done"] \in Posters
  OBVIOUS
<1>5. ASSUME posters[p] \in Upload, NEW stage \in {"part", "place", "row"}
      PROVE  /\ [posters[p] EXCEPT !.at = stage] \in Upload
             /\ posters[p].draws \in Picture /\ posters[p].stamp \in Nat
  BY <1>5 DEF Upload
<1>6. [at |-> "part", stamp |-> art.stamp, draws |-> Tiles!Shot(art.holds)] \in Upload
  BY FlightFacts DEF Current, Upload, Picture, Tiles!Shot
<1>7. /\ \E q \in Posters : posters' = [posters EXCEPT ![p] = q]
      /\ drafts' \in Picture
      /\ \/ tile' = tile \/ tile' = [tile EXCEPT !.file = drafts]
         \/ \E n \in Nat : tile' = [tile EXCEPT !.row = n]
  <2>1. CASE Tiles!Upload(p)
    BY <1>6, <2>1, FlightFacts DEF Current, Tiles!Upload
  <2>2. CASE Tiles!UploadPart(p)
    <3>1. posters[p] \in Upload
      BY <1>3, <2>2 DEF Tiles!UploadPart
    <3>2. QED
      BY <1>5, <2>2, <3>1 DEF Tiles!UploadPart
  <2>3. CASE Tiles!UploadPlace(p)
    <3>1. posters[p] \in Upload
      BY <1>3, <2>3 DEF Tiles!UploadPlace
    <3>2. QED
      BY <1>4, <1>5, <2>3, <3>1, FlightFacts DEF Current, Tiles!UploadPlace
  <2>4. CASE Tiles!UploadRow(p)
    <3>1. posters[p] \in Upload
      BY <1>3, <2>4 DEF Tiles!UploadRow
    <3>2. QED
      BY <1>4, <1>5, <2>4, <3>1, FlightFacts DEF Current, Tiles!UploadRow
  <2>5. QED
    BY <2>1, <2>2, <2>3, <2>4
<1> HIDE DEF Posters
<1>8. posters' \in [Poster -> Posters]
  BY <1>3, <1>7
<1>9. tile' \in [file : Picture, row : Nat]
  BY <1>7 DEF Current, ThumbsTyped
<1>10. ThumbsTyped'
  BY <1>1, <1>7, <1>8, <1>9 DEF Current, ThumbsTyped, Posters
<1>11. QED
  BY <1>1, <1>2, <1>10 DEF Current

\* A cleaning takes a row or a file away.
LEMMA CleaningKeepsTiles ==
    ASSUME Current, Tiles!Forget \/ Tiles!Unlink \/ Tiles!Collect \/ Tiles!CollectRow
    PROVE  Current'
<1>1. /\ UNCHANGED <<art, drafts, flight, posters>>
      /\ \/ tile' = [tile EXCEPT !.row = 0]
         \/ tile' = [tile EXCEPT !.file = Tiles!Nothing]
  BY DEF Tiles!Forget, Tiles!Unlink, Tiles!Collect, Tiles!CollectRow
<1>2. /\ tile' \in [file : Picture, row : Nat]
      /\ \/ tile'.row = 0 /\ tile'.file = tile.file
         \/ tile'.row = tile.row /\ tile'.file = Tiles!Nothing
  BY <1>1, FlightFacts DEF Current, ThumbsTyped
<1>3. ThumbsTyped'
  BY <1>1, <1>2 DEF Current, ThumbsTyped
<1>4. ASSUME art.media # "model3d" PROVE Behind' /\ Drawn'
  <2>1. Behind /\ Drawn
    BY <1>4 DEF Current
  <2>2. Behind'
    BY <1>1, <1>2, <2>1, FlightFacts DEF Current, Behind
  <2>3. Drawn'
    BY <1>1, <1>2, <2>1, FlightFacts DEF Current, Drawn
  <2>4. QED
    BY <2>2, <2>3
<1>5. QED
  BY <1>1, <1>3, <1>4 DEF Current

LEMMA ArtKeepsTiles ==
    ASSUME Current, Tiles!Repaint \/ Tiles!Scan
    PROVE  Current'
<1>1. /\ UNCHANGED <<tile, drafts, flight, posters>>
      /\ \/ art.holds = art.stamp /\ art' = [art EXCEPT !.holds = @ + 1]
         \/ art' = [art EXCEPT !.stamp = art.holds]
  BY DEF Tiles!Repaint, Tiles!Scan
<1>2. /\ art' \in [media : Media, holds : Nat, stamp : Nat] /\ art'.media = art.media
      /\ \/ art'.holds = art.holds + 1 /\ art'.stamp = art.stamp
         \/ art'.holds = art.holds /\ art'.stamp = art.holds
  BY <1>1 DEF Current, ThumbsTyped
<1>3. ThumbsTyped'
  BY <1>1, <1>2 DEF Current, ThumbsTyped
<1>4. ASSUME art.media # "model3d" PROVE Behind' /\ Drawn'
  <2>1. Behind /\ Drawn
    BY <1>4 DEF Current
  <2>2. Behind'
    BY <1>1, <1>2, <2>1, FlightFacts DEF Current, Behind
  <2>3. Drawn'
    BY <1>1, <2>1 DEF Drawn
  <2>4. QED
    BY <2>2, <2>3
<1>5. QED
  BY <1>1, <1>2, <1>3, <1>4 DEF Current

LEMMA ThumbsInit ==
    ASSUME Tiles!Init
    PROVE  Current
<1>1. PICK m \in Media : art = [media |-> m, holds |-> 1, stamp |-> 1]
  BY DEF Tiles!Init
<1>2. /\ tile = [file |-> Tiles!Nothing, row |-> 0] /\ drafts = Tiles!Nothing /\ flight = Tiles!Idle
      /\ posters = [p \in Poster |-> Tiles!Idle]
  BY DEF Tiles!Init
<1>3. Tiles!Nothing \in Picture
  BY DEF Tiles!Nothing, Picture
<1>4. ThumbsTyped
  BY <1>1, <1>2, <1>3 DEF ThumbsTyped, Tiles!Idle
<1>5. Behind
  BY <1>1, <1>2 DEF Behind
<1>6. Drawn
  BY <1>2 DEF Drawn, Drawing, Tiles!Idle
<1>7. QED
  BY <1>2, <1>4, <1>5, <1>6 DEF Current

LEMMA ThumbsStep ==
    ASSUME Current, [Tiles!Next]_Tiles!thumbsVars
    PROVE  Current'
<1>1. CASE UNCHANGED Tiles!thumbsVars
  BY <1>1 DEF Tiles!thumbsVars, Current, ThumbsTyped, Behind, Drawn
<1>2. CASE Tiles!Next
  BY <1>2, GetKeepsTiles, RenderKeepsTiles, FlightKeepsTiles, LandKeepsTiles, PosterKeepsTiles,
     CleaningKeepsTiles, ArtKeepsTiles DEF Tiles!Next
<1>3. QED
  BY <1>1, <1>2

\* A row with the fingerprint of an image or a video vouches for a file that shows it at least
\* as new, for any viewers, uploads and media (thumb_service: get, _generate, gc, relocate).
THEOREM ThumbsStayCurrent == Spec => []ThumbsCurrent
<1> DEFINE Inv == "thumbs" \in focus => Current
<1>1. Init => Inv
  BY ThumbsInit DEF Init
<1>2. Inv /\ [Next]_<<focus, services>> => Inv'
  BY ThumbsStep, Apart
<1>3. Inv => ThumbsCurrent
  BY DEF ThumbsCurrent, Current, Drawn, Tiles!ThumbsCurrent
<1>4. QED
  BY <1>1, <1>2, <1>3, PTL DEF Spec

-----------------------------------------------------------------------------
(* The catalogue (Catalogue).  While no two requests had the .tmp file open *)
(* at once, one request at most writes (OneWriter), what it writes is not   *)
(* the cache and is whole when it is renamed (Kept), and a request that is  *)
(* still fetching has a number no file has (Unused).                        *)

Number == 1..MaxFetch
Request ==
    [at : {"rest"}, shown : Nat] \cup [at : {"fetch"}, had : Nat, number : Number]
    \cup [at : {"write", "place"}, number : Number, of : Number]

CatalogueTyped ==
    /\ MaxFetch \in Nat
    /\ files \in [Number -> Nat] /\ cachePath \in Nat /\ tmpPath \in Nat
    /\ (cachePath # 0 => cachePath \in Number) /\ (tmpPath # 0 => tmpPath \in Number)
    /\ readers \in [Client -> Request]
    /\ fetches \in 0..MaxFetch /\ shared \in BOOLEAN

\* Fetches are numbered one by one, and a file has the number of the fetch that made it.
Unused ==
    /\ cachePath <= fetches /\ tmpPath <= fetches
    /\ \A r \in Client : readers[r].at = "fetch" =>
         /\ readers[r].number <= fetches
         /\ readers[r].number # cachePath /\ readers[r].number # tmpPath
         /\ \A o \in Client \ {r} : readers[o].at = "fetch" => readers[o].number # readers[r].number

Writing(r) == readers[r].at \in {"write", "place"}

OneWriter ==
    \A r \in Client : Writing(r) =>
        /\ readers[r].of = tmpPath /\ tmpPath # 0
        /\ files[tmpPath] = 0 <=> readers[r].at = "write"
        /\ \A o \in Client : Writing(o) => o = r

Kept ==
    /\ tmpPath # 0 => tmpPath # cachePath
    /\ cachePath # 0 => files[cachePath] # 0

CatalogueInv == CatalogueTyped /\ (~shared => Unused /\ OneWriter /\ Kept)

LEMMA RequestFacts ==
    ASSUME CatalogueTyped, NEW r \in Client
    PROVE  /\ readers[r].at \in {"rest", "fetch", "write", "place"}
           /\ readers[r].at = "fetch" => readers[r].had \in Nat /\ readers[r].number \in Number
           /\ Writing(r) => readers[r].number \in Number /\ readers[r].of \in Number
<1>1. readers[r] \in Request
  BY DEF CatalogueTyped
<1>2. QED
  BY <1>1 DEF Request, Writing

LEMMA CatalogueInit ==
    ASSUME Served!Init, MaxFetch \in Nat
    PROVE  CatalogueInv
<1>1. CatalogueTyped
  <2>1. [at |-> "rest", shown |-> 0] \in Request
    BY DEF Request
  <2>2. readers \in [Client -> Request] /\ files \in [Number -> Nat]
    BY <2>1 DEF Served!Init, Served!Rest, Number
  <2>3. cachePath = 0 /\ tmpPath = 0 /\ fetches = 0 /\ shared = FALSE
    BY DEF Served!Init
  <2>4. 0 \in 0..MaxFetch /\ 0 \in Nat
    OBVIOUS
  <2>5. QED
    BY <2>2, <2>3, <2>4 DEF CatalogueTyped
<1>2. \A r \in Client : readers[r].at = "rest"
  BY DEF Served!Init, Served!Rest
<1>3. QED
  BY <1>1, <1>2 DEF CatalogueInv, Served!Init, Unused, OneWriter, Kept, Writing

\* A request that ends, or a number that is given away, disturbs no other.
LEMMA ShownKeeps ==
    ASSUME CatalogueInv, NEW r \in Client, NEW n \in Nat, Served!Show(r, n),
           UNCHANGED <<files, cachePath, tmpPath, shared, fetches>>
    PROVE  CatalogueInv'
<1>1. CatalogueTyped'
  BY DEF CatalogueInv, CatalogueTyped, Served!Show, Request
<1>2. /\ readers'[r].at = "rest"
      /\ \A o \in Client : readers'[o].at # "rest" => o # r /\ readers'[o] = readers[o]
  BY DEF Served!Show, CatalogueInv, CatalogueTyped
<1>3. QED
  BY <1>1, <1>2 DEF CatalogueInv, Unused, OneWriter, Kept, Writing

LEMMA FetchKeepsCatalogue ==
    ASSUME CatalogueInv, NEW r \in Client, NEW refresh \in BOOLEAN, Served!Fetch(r, refresh)
    PROVE  CatalogueInv'
<1> DEFINE new == [at |-> "fetch", had |-> Served!Cached, number |-> fetches']
<1>1. /\ fetches < MaxFetch /\ fetches' = fetches + 1 /\ readers' = [readers EXCEPT ![r] = new]
      /\ UNCHANGED <<files, cachePath, tmpPath, shared>>
  BY DEF Served!Fetch
<1>2. Served!Cached \in Nat
  BY DEF Served!Cached, CatalogueInv, CatalogueTyped
<1>3. fetches' \in Number /\ fetches' \in 0..MaxFetch
  BY <1>1 DEF CatalogueInv, CatalogueTyped, Number
<1>4. new \in Request
  BY <1>2, <1>3 DEF Request
<1>5. CatalogueTyped'
  BY <1>1, <1>3, <1>4 DEF CatalogueInv, CatalogueTyped
<1>6. ASSUME ~shared PROVE (Unused /\ OneWriter /\ Kept)'
  <2>1. /\ Unused /\ OneWriter /\ Kept
        /\ readers'[r].at = "fetch" /\ readers'[r].number = fetches + 1
        /\ \A o \in Client \ {r} : readers'[o] = readers[o]
    BY <1>1, <1>6 DEF CatalogueInv, CatalogueTyped
  <2>2. cachePath \in Nat /\ tmpPath \in Nat /\ fetches \in Nat
    BY DEF CatalogueInv, CatalogueTyped
  <2>3. \A o \in Client : readers[o].at = "fetch" => readers[o].number \in Nat
    BY RequestFacts DEF CatalogueInv, Number, CatalogueTyped
  <2>4. Unused'
    BY <1>1, <2>1, <2>2, <2>3 DEF Unused
  <2>5. OneWriter' /\ Kept'
    BY <1>1, <2>1 DEF OneWriter, Kept, Writing
  <2>6. QED
    BY <2>4, <2>5
<1>7. QED
  BY <1>1, <1>5, <1>6 DEF CatalogueInv

LEMMA OpenKeeps ==
    ASSUME CatalogueInv, NEW r \in Client, Served!Open(r)
    PROVE  CatalogueInv'
<1> DEFINE i == IF tmpPath = 0 THEN readers[r].number ELSE tmpPath
           new == [at |-> "write", number |-> readers[r].number, of |-> i]
<1>1. /\ readers[r].at = "fetch" /\ files' = [files EXCEPT ![i] = 0] /\ tmpPath' = i
      /\ shared' = (shared \/ \E o \in Client : Writing(o))
      /\ readers' = [readers EXCEPT ![r] = new] /\ UNCHANGED <<cachePath, fetches>>
  BY DEF Served!Open, Served!Target, Writing
<1>2. readers[r].number \in Number /\ i \in Number /\ i # 0
  BY <1>1, RequestFacts DEF CatalogueInv, CatalogueTyped, Number
<1>3. new \in Request
  BY <1>2 DEF Request
<1> HIDE DEF i, new
<1>4. CatalogueTyped'
  BY <1>1, <1>2, <1>3 DEF CatalogueInv, CatalogueTyped, Number
<1>5. ASSUME ~shared' PROVE (Unused /\ OneWriter /\ Kept)'
  <2>1. /\ Unused /\ Kept /\ \A o \in Client : ~Writing(o)
        /\ readers'[r].at = "write" /\ readers'[r].of = i
        /\ \A o \in Client \ {r} : readers'[o] = readers[o]
    BY <1>1, <1>5 DEF CatalogueInv, CatalogueTyped, new
  <2>2. /\ i # cachePath /\ i <= fetches
        /\ \A o \in Client \ {r} : readers[o].at = "fetch" => readers[o].number # i
    BY <1>1, <2>1 DEF Unused, Kept, i
  <2>3. Unused'
    BY <1>1, <2>1, <2>2 DEF Unused
  <2>4. files'[i] = 0 /\ (cachePath # 0 => files'[cachePath] = files[cachePath])
    BY <1>1, <1>2, <2>2 DEF CatalogueInv, CatalogueTyped
  <2>5. OneWriter' /\ Kept'
    BY <1>1, <1>2, <2>1, <2>2, <2>4 DEF OneWriter, Kept, Writing
  <2>6. QED
    BY <2>3, <2>5
<1>6. QED
  BY <1>4, <1>5 DEF CatalogueInv

LEMMA WriteKeepsCatalogue ==
    ASSUME CatalogueInv, NEW r \in Client, Served!Write(r)
    PROVE  CatalogueInv'
<1>1. /\ readers[r].at = "write" /\ readers' = [readers EXCEPT ![r].at = "place"]
      /\ UNCHANGED <<cachePath, tmpPath, shared, fetches>>
  BY DEF Served!Write
<1>2. PICK n \in {readers[r].number} \cup (IF files[readers[r].of] = 0 THEN {} ELSE {0}) :
         files' = [files EXCEPT ![readers[r].of] = n]
  BY DEF Served!Write
<1>3. /\ readers[r] \in Request /\ readers[r].number \in Number /\ readers[r].of \in Number
      /\ readers[r].number # 0
  BY <1>1, RequestFacts DEF CatalogueInv, CatalogueTyped, Writing, Number
<1>4. [readers[r] EXCEPT !.at = "place"] \in Request
  BY <1>1, <1>3 DEF Request
<1>5. n \in Nat
  BY <1>3 DEF CatalogueInv, CatalogueTyped, Number
<1>6. CatalogueTyped'
  BY <1>1, <1>2, <1>3, <1>4, <1>5 DEF CatalogueInv, CatalogueTyped
<1>7. ASSUME ~shared PROVE (Unused /\ OneWriter /\ Kept)'
  <2>1. Unused /\ OneWriter /\ Kept /\ Writing(r)
    BY <1>1, <1>7 DEF CatalogueInv, Writing
  <2>2. readers[r].of = tmpPath /\ tmpPath # 0 /\ files[tmpPath] = 0 /\ n # 0
    BY <1>1, <1>2, <1>3, <2>1 DEF OneWriter
  <2>3. /\ readers'[r].at = "place" /\ readers'[r].of = tmpPath
        /\ \A o \in Client \ {r} : readers'[o] = readers[o] /\ ~Writing(o)
    BY <1>1, <1>3, <2>1, <2>2 DEF CatalogueInv, CatalogueTyped, OneWriter, Request
  <2>4. files'[tmpPath] # 0 /\ (cachePath # 0 => files'[cachePath] = files[cachePath])
    BY <1>2, <1>3, <2>1, <2>2 DEF Kept, CatalogueInv, CatalogueTyped
  <2>5. Unused'
    BY <1>1, <2>1, <2>3 DEF Unused
  <2>6. OneWriter'
    BY <1>1, <2>2, <2>3, <2>4 DEF OneWriter, Writing
  <2>7. Kept'
    BY <1>1, <2>1, <2>4 DEF Kept
  <2>8. QED
    BY <2>5, <2>6, <2>7
<1>8. QED
  BY <1>1, <1>6, <1>7 DEF CatalogueInv

LEMMA PlaceKeepsCatalogue ==
    ASSUME CatalogueInv, NEW r \in Client, Served!Place(r)
    PROVE  CatalogueInv'
<1>1. /\ readers[r].at = "place" /\ UNCHANGED <<files, shared, fetches>>
      /\ readers' = [readers EXCEPT ![r] = [at |-> "rest", shown |-> readers[r].number]]
      /\ IF tmpPath = 0 THEN UNCHANGED <<cachePath, tmpPath>> ELSE cachePath' = tmpPath /\ tmpPath' = 0
  BY DEF Served!Place, Served!Show
<1>2. readers[r].number \in Number
  BY <1>1, RequestFacts DEF CatalogueInv, Writing
<1>3. readers[r].number \in Nat
  BY <1>2 DEF Number, CatalogueInv, CatalogueTyped
<1>4. [at |-> "rest", shown |-> readers[r].number] \in Request
  BY <1>3 DEF Request
<1>5. CatalogueTyped'
  BY <1>1, <1>4 DEF CatalogueInv, CatalogueTyped
<1>6. ASSUME ~shared PROVE (Unused /\ OneWriter /\ Kept)'
  <2>1. Unused /\ OneWriter /\ Kept /\ Writing(r)
    BY <1>1, <1>6 DEF CatalogueInv, Writing
  <2>2. /\ cachePath' = tmpPath /\ tmpPath' = 0 /\ files'[tmpPath] # 0
        /\ \A o \in Client : o # r => ~Writing(o)
    BY <1>1, <2>1 DEF OneWriter
  <2>3. /\ readers'[r].at = "rest"
        /\ \A o \in Client \ {r} : readers'[o] = readers[o]
    BY <1>1 DEF CatalogueInv, CatalogueTyped
  <2>4. Unused'
    <3>1. \A o \in Client : readers[o].at = "fetch" => readers[o].number # 0
      BY RequestFacts DEF CatalogueInv, CatalogueTyped, Number
    <3>2. fetches' \in Nat
      BY <1>5 DEF CatalogueTyped
    <3>3. QED
      BY <1>1, <2>1, <2>2, <2>3, <3>1, <3>2 DEF Unused
  <2>5. OneWriter' /\ Kept'
    BY <2>2, <2>3 DEF OneWriter, Kept, Writing
  <2>6. QED
    BY <2>4, <2>5
<1>7. QED
  BY <1>1, <1>5, <1>6 DEF CatalogueInv

LEMMA CatalogueStep ==
    ASSUME CatalogueInv, [Served!Next]_Served!catalogueVars
    PROVE  CatalogueInv'
<1>1. CASE UNCHANGED <<files, cachePath, tmpPath, readers, shared, fetches>>
  BY <1>1 DEF CatalogueInv, CatalogueTyped, Unused, OneWriter, Kept, Writing
<1>2. ASSUME NEW r \in Client, Served!FromCache(r) PROVE CatalogueInv'
  <2>1. Served!Cached \in Nat
    BY DEF Served!Cached, CatalogueInv, CatalogueTyped
  <2>2. QED
    BY <1>2, <2>1, ShownKeeps DEF Served!FromCache
<1>3. ASSUME NEW r \in Client, Served!Refused(r) PROVE CatalogueInv'
  <2>1. readers[r].had \in Nat
    BY <1>3, RequestFacts DEF Served!Refused, CatalogueInv
  <2>2. QED
    BY <1>3, <2>1, ShownKeeps DEF Served!Refused
<1>4. ASSUME NEW r \in Client, Served!WriteFails(r) PROVE CatalogueInv'
  <2>1. readers[r].number \in Nat
    BY <1>4, RequestFacts DEF Served!WriteFails, CatalogueInv, CatalogueTyped, Writing, Number
  <2>2. QED
    BY <1>4, <2>1, ShownKeeps DEF Served!WriteFails
<1>5. CASE Served!Restart
  <2>1. /\ \A r \in Client : readers'[r].at = "rest"
        /\ UNCHANGED <<files, cachePath, tmpPath, shared, fetches>>
    BY <1>5 DEF Served!Restart, Served!Rest
  <2>2. CatalogueTyped'
    BY <1>5, <2>1 DEF Served!Restart, Served!Rest, CatalogueInv, CatalogueTyped, Request
  <2>3. QED
    BY <2>1, <2>2 DEF CatalogueInv, Unused, OneWriter, Kept, Writing
<1>6. CASE Served!Age \/ Served!Switch \/ UNCHANGED Served!catalogueVars
  BY <1>1, <1>6 DEF Served!Age, Served!Switch, Served!catalogueVars
<1>7. QED
  BY <1>2, <1>3, <1>4, <1>5, <1>6, FetchKeepsCatalogue, OpenKeeps, WriteKeepsCatalogue,
     PlaceKeepsCatalogue DEF Served!Next

LEMMA CatalogueIsKept == CatalogueInv => Served!CatalogueKept
  BY DEF CatalogueInv, Kept, Served!CatalogueKept

-----------------------------------------------------------------------------
(* The map of node classes (NodeRegistry).  While no two threads asked at   *)
(* the same time, at most one is on its way (OnlyAsker), the object that is *)
(* held, once loaded, is of the root it is noted under (Keyed), and the     *)
(* thread on its way works on that object and will be told of its own root. *)

Asker ==
    [at : {"compare", "note"}, asks : ComfyRoot] \cup [at : {"load", "fill", "look"}, asks : ComfyRoot, of : Nat]

Object == 1..(MaxLook + 1)

RegistryTyped ==
    /\ MaxLook \in Nat /\ root \in ComfyRoot
    /\ registries \in [Object -> [loaded : BOOLEAN, from : SUBSET ComfyRoot]]
    /\ heldRoot \in ComfyRoot \cup {Registry!NoRoot}
    /\ threads = [t \in Client |-> threads[t]]
    /\ \A t \in Client : threads[t].at = "rest" \/ threads[t] \in Asker
    /\ looks \in 0..MaxLook /\ held \in Nat \ {0}

OnlyAsker == \A t, u \in Client : threads[t].at # "rest" /\ threads[u].at # "rest" => t = u

\* An object is made only by a thread that asks.
Numbered ==
    /\ held <= looks + 1
    /\ \A t \in Client : threads[t].at = "compare" => held <= looks
    /\ \A o \in Object : o > held => registries[o] = Registry!Fresh

\* What is held maps the root asked for last.
OfRoot(r) == registries[held].from = IF registries[held].loaded THEN {r} \cap Managed ELSE {}

Keyed ==
    /\ (\A t \in Client : threads[t].at \in {"rest", "compare"}) => OfRoot(heldRoot)
    /\ \A t \in Client :
         /\ threads[t].at = "note" => OfRoot(threads[t].asks)
         /\ threads[t].at \in {"load", "fill", "look"} =>
              threads[t].of = held /\ heldRoot = threads[t].asks
         /\ threads[t].at = "load" => OfRoot(heldRoot)
         /\ threads[t].at = "fill" => registries[held].loaded /\ registries[held].from = {}
         /\ threads[t].at = "look" =>
              OfRoot(heldRoot) /\ (registries[held].loaded \/ heldRoot = Registry!NoRoot)

Answered ==
    \A t \in Client : threads[t].at = "rest" /\ "told" \in DOMAIN threads[t] =>
        threads[t].told = {threads[t].asked} \cap Managed

RegistryInv == RegistryTyped /\ (~overlap => OnlyAsker /\ Numbered /\ Keyed /\ Answered)

LEMMA AskerFacts ==
    ASSUME RegistryTyped, NEW t \in Client
    PROVE  /\ threads[t].at \in {"rest", "compare", "note", "load", "fill", "look"}
           /\ threads[t].at # "rest" => threads[t].asks \in ComfyRoot /\ "told" \notin DOMAIN threads[t]
           /\ threads[t].at \in {"load", "fill", "look"} => threads[t].of \in Nat
<1>1. threads[t].at = "rest" \/ threads[t] \in Asker
  BY DEF RegistryTyped
<1>2. QED
  BY <1>1 DEF Asker

LEMMA RegistryInit ==
    ASSUME Registry!Init, MaxLook \in Nat
    PROVE  RegistryInv
<1>1. /\ root \in ComfyRoot /\ registries = [o \in Object |-> Registry!Fresh] /\ held = 1
      /\ heldRoot = Registry!NoRoot /\ reverse = {} /\ looks = 0
      /\ threads = [t \in Client |-> Registry!Rest]
  BY DEF Registry!Init, Object
<1>2. 1 \in Object
  BY DEF Object
<1>3. Registry!Rest.at = "rest" /\ Registry!Fresh \in [loaded : BOOLEAN, from : SUBSET ComfyRoot]
  BY DEF Registry!Rest, Registry!Fresh
<1>4. RegistryTyped
  BY <1>1, <1>2, <1>3 DEF RegistryTyped
<1>5. \A t \in Client : threads[t] = Registry!Rest /\ threads[t].at = "rest"
  BY <1>1 DEF Registry!Rest
<1>6. OnlyAsker /\ Answered
  BY <1>5 DEF OnlyAsker, Answered, Registry!Rest
<1>7. Numbered /\ Keyed
  BY <1>1, <1>2, <1>5 DEF Numbered, Keyed, OfRoot, Registry!Fresh
<1>8. QED
  BY <1>4, <1>6, <1>7 DEF RegistryInv

LEMMA AskKeepsRegistry ==
    ASSUME RegistryInv, NEW t \in Client, Registry!Ask(t)
    PROVE  RegistryInv'
<1> DEFINE new == [at |-> "compare", asks |-> root]
<1>1. /\ threads[t].at = "rest" /\ looks < MaxLook /\ looks' = looks + 1
      /\ threads' = [threads EXCEPT ![t] = new]
      /\ overlap' = (overlap \/ \E o \in Client : threads[o].at # "rest")
      /\ UNCHANGED <<root, registries, held, heldRoot, reverse>>
  BY DEF Registry!Ask
<1>2. new \in Asker
  BY DEF Asker, RegistryInv, RegistryTyped
<1>3. RegistryTyped'
  BY <1>1, <1>2 DEF RegistryInv, RegistryTyped
<1>4. ASSUME ~overlap' PROVE (OnlyAsker /\ Numbered /\ Keyed /\ Answered)'
  <2>1. /\ \A o \in Client : threads[o].at = "rest"
        /\ OnlyAsker /\ Numbered /\ Keyed /\ Answered
    BY <1>1, <1>4 DEF RegistryInv
  <2>2. /\ threads'[t].at = "compare" /\ threads'[t] = new
        /\ \A o \in Client \ {t} : threads'[o] = threads[o]
    BY <1>1 DEF RegistryInv, RegistryTyped
  <2>3. held \in Nat /\ looks \in Nat
    BY DEF RegistryInv, RegistryTyped, Object
  <2>4. OnlyAsker' /\ Numbered'
    BY <1>1, <2>1, <2>2, <2>3 DEF OnlyAsker, Numbered
  <2>5. Keyed' /\ Answered'
    BY <1>1, <2>1, <2>2 DEF Keyed, Answered, OfRoot
  <2>6. QED
    BY <2>4, <2>5
<1>5. QED
  BY <1>3, <1>4 DEF RegistryInv

\* The thread on its way is the only one, and the others have their answers.
LEMMA Others ==
    ASSUME RegistryInv, ~overlap, NEW t \in Client, threads[t].at # "rest"
    PROVE  /\ OnlyAsker /\ Numbered /\ Keyed /\ Answered
           /\ \A o \in Client \ {t} : threads[o].at = "rest"
  BY DEF RegistryInv, OnlyAsker

LEMMA CompareKeeps ==
    ASSUME RegistryInv, NEW t \in Client, Registry!Compare(t)
    PROVE  RegistryInv'
<1>1. /\ threads[t].at = "compare" /\ threads' = [threads EXCEPT ![t].at = "note"]
      /\ held' = IF Registry!Outdated(t) THEN held + 1 ELSE held
      /\ UNCHANGED <<root, registries, heldRoot, reverse, overlap, looks>>
  BY DEF Registry!Compare
<1>2. threads[t] \in [at : {"compare", "note"}, asks : ComfyRoot]
  BY <1>1 DEF RegistryInv, RegistryTyped, Asker
<1>3. /\ threads'[t] \in [at : {"compare", "note"}, asks : ComfyRoot]
      /\ threads'[t].at = "note" /\ threads'[t].asks = threads[t].asks
      /\ \A o \in Client \ {t} : threads'[o] = threads[o]
  BY <1>1, <1>2 DEF RegistryInv, RegistryTyped
<1>4. threads' = [o \in Client |-> threads'[o]] /\ threads'[t] \in Asker
  BY <1>1, <1>3 DEF RegistryInv, RegistryTyped, Asker
<1>5. ASSUME ~overlap PROVE (OnlyAsker /\ Numbered /\ Keyed /\ Answered)'
  <2>1. /\ OnlyAsker /\ Numbered /\ Keyed /\ Answered
        /\ \A o \in Client \ {t} : threads[o].at = "rest"
    BY <1>1, <1>5, Others
  <2>2. held \in Nat \ {0} /\ looks \in Nat /\ looks <= MaxLook /\ MaxLook \in Nat /\ held <= looks
    BY <1>1, <2>1 DEF RegistryInv, RegistryTyped, Object, Numbered
  <2>3. held' \in Object /\ held' <= looks + 1 /\ held <= held'
    BY <1>1, <2>2 DEF Object
  <2>4. OnlyAsker' /\ Answered'
    BY <1>3, <2>1 DEF OnlyAsker, Answered
  <2>5. Numbered'
    BY <1>1, <1>3, <2>1, <2>2, <2>3 DEF Numbered, Object
  <2>6. OfRoot(heldRoot)
    BY <1>1, <2>1 DEF Keyed
  <2>7. OfRoot(threads[t].asks)'
    <3>1. CASE Registry!Outdated(t)
      <4>1. registries'[held'] = Registry!Fresh
        BY <1>1, <2>1, <2>2, <2>3, <3>1 DEF Numbered
      <4>2. QED
        BY <4>1 DEF OfRoot, Registry!Fresh
    <3>2. CASE ~Registry!Outdated(t)
      BY <1>1, <1>3, <2>6, <3>2 DEF Registry!Outdated, OfRoot
    <3>3. QED
      BY <3>1, <3>2
  <2>8. Keyed'
    BY <1>3, <2>1, <2>7 DEF Keyed
  <2>9. QED
    BY <2>4, <2>5, <2>8
<1>6. held' \in Nat \ {0}
  BY <1>1 DEF RegistryInv, RegistryTyped
<1>7. QED
  BY <1>1, <1>3, <1>4, <1>5, <1>6 DEF RegistryInv, RegistryTyped

LEMMA NoteKeeps ==
    ASSUME RegistryInv, NEW t \in Client, Registry!Note(t)
    PROVE  RegistryInv'
<1> DEFINE new == [at |-> "load", asks |-> threads[t].asks, of |-> held]
<1>1. /\ threads[t].at = "note" /\ threads' = [threads EXCEPT ![t] = new]
      /\ heldRoot' = threads[t].asks
      /\ UNCHANGED <<root, registries, held, reverse, overlap, looks>>
  BY DEF Registry!Note
<1>2. threads[t].asks \in ComfyRoot /\ held \in Nat
  BY <1>1, AskerFacts DEF RegistryInv, RegistryTyped
<1>3. new \in Asker
  BY <1>2 DEF Asker
<1>4. RegistryTyped'
  BY <1>1, <1>2, <1>3 DEF RegistryInv, RegistryTyped
<1>5. ASSUME ~overlap PROVE (OnlyAsker /\ Numbered /\ Keyed /\ Answered)'
  <2>1. /\ OnlyAsker /\ Numbered /\ Keyed /\ Answered
        /\ \A o \in Client \ {t} : threads[o].at = "rest"
    BY <1>1, <1>5, Others
  <2>2. /\ threads'[t] = new /\ threads'[t].at = "load"
        /\ \A o \in Client \ {t} : threads'[o] = threads[o]
    BY <1>1 DEF RegistryInv, RegistryTyped
  <2>3. OnlyAsker' /\ Numbered' /\ Answered'
    BY <1>1, <2>1, <2>2 DEF OnlyAsker, Numbered, Answered
  <2>4. OfRoot(threads[t].asks)
    BY <1>1, <2>1 DEF Keyed
  <2>5. OfRoot(heldRoot)'
    BY <1>1, <2>4 DEF OfRoot
  <2>6. new.of = held' /\ heldRoot' = new.asks
    BY <1>1
  <2>7. Keyed'
    BY <2>1, <2>2, <2>5, <2>6 DEF Keyed
  <2>8. QED
    BY <2>3, <2>7
<1>6. QED
  BY <1>1, <1>4, <1>5 DEF RegistryInv

LEMMA LoadKeeps ==
    ASSUME RegistryInv, NEW t \in Client, Registry!Load(t) \/ Registry!Fill(t)
    PROVE  RegistryInv'
<1>1. /\ threads[t].at \in {"load", "fill"}
      /\ UNCHANGED <<root, held, heldRoot, reverse, overlap, looks>>
  BY DEF Registry!Load, Registry!Fill
<1>2. /\ threads[t] \in [at : {"load", "fill", "look"}, asks : ComfyRoot, of : Nat]
      /\ threads[t].asks \in ComfyRoot /\ threads[t].of \in Nat
  BY <1>1 DEF RegistryInv, RegistryTyped, Asker
<1>3. PICK stage \in {"fill", "look"} : threads' = [threads EXCEPT ![t].at = stage]
  BY DEF Registry!Load, Registry!Fill
<1>4. /\ threads'[t].at = stage /\ threads'[t].asks = threads[t].asks
      /\ threads'[t].of = threads[t].of /\ "told" \notin DOMAIN threads'[t]
      /\ \A o \in Client \ {t} : threads'[o] = threads[o]
      /\ threads' = [o \in Client |-> threads'[o]] /\ threads'[t] \in Asker
  BY <1>2, <1>3 DEF RegistryInv, RegistryTyped, Asker
<1> DEFINE o == threads[t].of
<1>5. CASE Registry!Load(t)
  <2> DEFINE reads == ~registries[o].loaded /\ threads[t].asks # Registry!NoRoot
  <2>1. /\ threads[t].at = "load"
        /\ registries' = [registries EXCEPT ![o].loaded = @ \/ reads]
        /\ stage = (IF reads THEN "fill" ELSE "look")
    <3>1. threads' = [threads EXCEPT ![t].at = IF reads THEN "fill" ELSE "look"]
      BY <1>5 DEF Registry!Load
    <3>2. threads'[t].at = IF reads THEN "fill" ELSE "look"
      BY <1>2, <3>1 DEF RegistryInv, RegistryTyped
    <3>3. QED
      BY <1>4, <1>5, <3>2 DEF Registry!Load
  <2>2. registries' \in [Object -> [loaded : BOOLEAN, from : SUBSET ComfyRoot]]
    <3>1. \A p \in Object : registries[p] \in [loaded : BOOLEAN, from : SUBSET ComfyRoot]
      BY DEF RegistryInv, RegistryTyped
    <3>2. \A p \in Object :
            registries'[p] = IF p = o THEN [registries[p] EXCEPT !.loaded = @ \/ reads]
                             ELSE registries[p]
      BY <2>1 DEF RegistryInv, RegistryTyped
    <3>3. reads \in BOOLEAN
      OBVIOUS
    <3>4. \A p \in Object : registries'[p] \in [loaded : BOOLEAN, from : SUBSET ComfyRoot]
      BY <3>1, <3>2, <3>3
    <3>5. registries' = [p \in Object |-> registries'[p]]
      BY <2>1 DEF RegistryInv, RegistryTyped
    <3>6. QED
      BY <3>4, <3>5
  <2>3. RegistryTyped'
    BY <1>1, <1>4, <2>2 DEF RegistryInv, RegistryTyped
  <2>4. ASSUME ~overlap PROVE (OnlyAsker /\ Numbered /\ Keyed /\ Answered)'
    <3>1. /\ OnlyAsker /\ Numbered /\ Keyed /\ Answered
          /\ \A u \in Client \ {t} : threads[u].at = "rest"
      BY <1>1, <2>4, Others
    <3>2. o = held /\ heldRoot = threads[t].asks /\ OfRoot(heldRoot)
      BY <2>1, <3>1 DEF Keyed
    <3>3. held \in Object
      BY <3>1 DEF RegistryInv, RegistryTyped, Numbered, Object
    <3>4. /\ registries'[held].loaded = (registries[held].loaded \/ reads)
          /\ registries'[held].from = registries[held].from
          /\ \A p \in Object \ {held} : registries'[p] = registries[p]
      BY <2>1, <3>2, <3>3 DEF RegistryInv, RegistryTyped
    <3>5. OnlyAsker' /\ Answered'
      BY <1>4, <3>1 DEF OnlyAsker, Answered
    <3>6. Numbered'
      BY <1>1, <1>4, <3>1, <3>4 DEF Numbered, RegistryInv, RegistryTyped, Object
    <3>7. Keyed'
      BY <1>1, <1>4, <2>1, <3>1, <3>2, <3>4 DEF Keyed, OfRoot
    <3>8. QED
      BY <3>5, <3>6, <3>7
  <2>5. QED
    BY <1>1, <2>3, <2>4 DEF RegistryInv
<1>6. CASE Registry!Fill(t)
  <2> DEFINE mapped == {threads[t].asks} \cap Managed
  <2>1. /\ threads[t].at = "fill" /\ stage = "look"
        /\ registries' = [registries EXCEPT ![o].from = @ \cup mapped]
    <3>1. threads' = [threads EXCEPT ![t].at = "look"]
      BY <1>6 DEF Registry!Fill
    <3>2. threads'[t].at = "look"
      BY <1>2, <3>1 DEF RegistryInv, RegistryTyped
    <3>3. QED
      BY <1>4, <1>6, <3>2 DEF Registry!Fill
  <2>2. mapped \in SUBSET ComfyRoot
    BY <1>2
  <2>3. registries' \in [Object -> [loaded : BOOLEAN, from : SUBSET ComfyRoot]]
    BY <2>1, <2>2 DEF RegistryInv, RegistryTyped
  <2>4. RegistryTyped'
    BY <1>1, <1>4, <2>3 DEF RegistryInv, RegistryTyped
  <2>5. ASSUME ~overlap PROVE (OnlyAsker /\ Numbered /\ Keyed /\ Answered)'
    <3>1. /\ OnlyAsker /\ Numbered /\ Keyed /\ Answered
          /\ \A u \in Client \ {t} : threads[u].at = "rest"
      BY <1>1, <2>5, Others
    <3>2. /\ o = held /\ heldRoot = threads[t].asks
          /\ registries[held].loaded /\ registries[held].from = {}
      BY <2>1, <3>1 DEF Keyed
    <3>3. held \in Object
      BY <3>1 DEF RegistryInv, RegistryTyped, Numbered, Object
    <3>4. /\ registries'[held].loaded = registries[held].loaded
          /\ registries'[held].from = mapped
          /\ \A p \in Object \ {held} : registries'[p] = registries[p]
      BY <2>1, <3>2, <3>3 DEF RegistryInv, RegistryTyped
    <3>5. OnlyAsker' /\ Answered'
      BY <1>4, <3>1 DEF OnlyAsker, Answered
    <3>6. Numbered'
      BY <1>1, <1>4, <3>1, <3>4 DEF Numbered, RegistryInv, RegistryTyped, Object
    <3>7. Keyed'
      BY <1>1, <1>4, <2>1, <3>1, <3>2, <3>4 DEF Keyed, OfRoot
    <3>8. QED
      BY <3>5, <3>6, <3>7
  <2>6. QED
    BY <1>1, <2>4, <2>5 DEF RegistryInv
<1>7. QED
  BY <1>5, <1>6

\* What is held by now is what the thread asked about, so that is what it is told.
LEMMA LookUpKeeps ==
    ASSUME RegistryInv, Registry!NoRoot \notin Managed, NEW t \in Client,
           Registry!LookUp(t) \/ Registry!LookUpClass(t)
    PROVE  RegistryInv'
<1>1. /\ threads[t].at = "look" /\ UNCHANGED <<root, registries, held, heldRoot, overlap, looks>>
  BY DEF Registry!LookUp, Registry!LookUpClass
<1>2. threads[t].asks \in ComfyRoot
  BY <1>1, AskerFacts DEF RegistryInv
<1>3. PICK new : /\ threads' = [threads EXCEPT ![t] = new] /\ new.at = "rest"
                 /\ \/ new = [at |-> "rest", asked |-> threads[t].asks,
                             told |-> registries[threads[t].of].from] /\ reverse' = reverse
                    \/ new = [at |-> "rest", class |-> reverse']
                       /\ reverse' = IF reverse = {} THEN registries[threads[t].of].from ELSE reverse
  BY DEF Registry!LookUp, Registry!LookUpClass, Registry!Told
<1>4. /\ threads'[t] = new /\ \A o \in Client \ {t} : threads'[o] = threads[o]
      /\ threads' = [o \in Client |-> threads'[o]]
  BY <1>3 DEF RegistryInv, RegistryTyped
<1>5. RegistryTyped'
  BY <1>1, <1>3, <1>4 DEF RegistryInv, RegistryTyped
<1>6. ASSUME ~overlap PROVE (OnlyAsker /\ Numbered /\ Keyed /\ Answered)'
  <2>1. /\ OnlyAsker /\ Numbered /\ Keyed /\ Answered
        /\ \A o \in Client \ {t} : threads[o].at = "rest"
    BY <1>1, <1>6, Others
  <2>2. /\ threads[t].of = held /\ heldRoot = threads[t].asks /\ OfRoot(heldRoot)
        /\ registries[held].loaded \/ heldRoot = Registry!NoRoot
    BY <1>1, <2>1 DEF Keyed
  <2>3. registries[held].from = {threads[t].asks} \cap Managed
    BY <2>2 DEF OfRoot
  <2>4. OnlyAsker' /\ Numbered'
    BY <1>1, <1>3, <1>4, <2>1 DEF OnlyAsker, Numbered
  <2>5. Keyed'
    BY <1>1, <1>3, <1>4, <2>1, <2>2 DEF Keyed, OfRoot
  <2>6. "told" \in DOMAIN new => new.told = {new.asked} \cap Managed
    BY <1>3, <2>2, <2>3
  <2>7. Answered'
    BY <1>4, <2>1, <2>6 DEF Answered
  <2>8. QED
    BY <2>4, <2>5, <2>7
<1>7. QED
  BY <1>1, <1>5, <1>6 DEF RegistryInv

LEMMA RegistryStep ==
    ASSUME RegistryInv, Registry!NoRoot \notin Managed, [Registry!Next]_Registry!registryVars
    PROVE  RegistryInv'
<1>1. CASE Registry!Move \/ UNCHANGED Registry!registryVars
  <2>1. root' \in ComfyRoot /\ UNCHANGED <<registries, held, heldRoot, threads, overlap, looks>>
    BY <1>1 DEF Registry!Move, Registry!registryVars, RegistryInv, RegistryTyped
  <2>2. QED
    BY <2>1 DEF RegistryInv, RegistryTyped, OnlyAsker, Numbered, Keyed, Answered, OfRoot
<1>2. QED
  BY <1>1, AskKeepsRegistry, CompareKeeps, NoteKeeps, LoadKeeps, LookUpKeeps DEF Registry!Next

LEMMA RegistryIsOwn == RegistryInv => Registry!OwnRoot
  BY DEF RegistryInv, Answered, Registry!OwnRoot

-----------------------------------------------------------------------------
(* Checks for updates (UpdateChecks).  A question asks about a commit that  *)
(* was recorded (UpdatesTyped); the flag is up exactly while there is a     *)
(* batch thread (Flagged), and what waits while it leaves or is gone is     *)
(* somebody's (Tended).                                                     *)

PackageRow == [state : {"none", "pending", "suspect_remote", "error", "ok", "offline"},
               url : {"right", "suspect", "none"}, commit : 0..2, update : BOOLEAN, latest : 0..2]

Inquiry == [at : {"ask"}, of : Package, commit : Updates!Commit]

UpdatesTyped ==
    /\ package \in [Package -> PackageRow]
    /\ batch \in [at : {"none", "look", "leave"}] \cup [at : {"take"}, of : Package] \cup Inquiry
    /\ callers \in [Client -> [at : {"rest"}] \cup [at : {"marked"}, queued : SUBSET Package] \cup Inquiry]

Flagged == running = (batch.at # "none")

Looked(p) ==
    p \in late \/ \E c \in Client : callers[c].at = "marked" /\ p \in callers[c].queued

Tended == batch.at \in {"none", "leave"} => \A p \in Updates!Pending : Looked(p)

UpdatesInv == UpdatesTyped /\ Flagged /\ Tended /\ Updates!UpdatesSeen

LEMMA BatchFacts ==
    ASSUME UpdatesTyped
    PROVE  /\ batch.at \in {"none", "look", "leave", "take", "ask"}
           /\ batch.at \in {"take", "ask"} => batch.of \in Package
           /\ batch.at = "ask" => batch \in Inquiry
           /\ batch.at = "none" => batch = Updates!None
  BY DEF UpdatesTyped, Inquiry, Updates!None

LEMMA CallerFacts ==
    ASSUME UpdatesTyped, NEW c \in Client
    PROVE  /\ callers[c].at \in {"rest", "marked", "ask"}
           /\ callers[c].at = "marked" => callers[c].queued \subseteq Package
           /\ callers[c].at = "ask" => callers[c] \in Inquiry
           /\ callers[c].at = "rest" <=> callers[c] = Updates!Rest
<1>1. callers[c] \in [at : {"rest"}] \cup [at : {"marked"}, queued : SUBSET Package] \cup Inquiry
  BY DEF UpdatesTyped
<1>2. QED
  BY <1>1 DEF Inquiry, Updates!Rest

LEMMA UpdatesInit == Updates!Init => UpdatesInv
<1> SUFFICES ASSUME Updates!Init PROVE UpdatesInv
  OBVIOUS
<1>1. /\ package = [p \in Package |->
           [state |-> "none", url |-> "right", commit |-> 1, update |-> FALSE, latest |-> 0]]
      /\ running = FALSE /\ batch = Updates!None /\ callers = [c \in Client |-> Updates!Rest]
  BY DEF Updates!Init
<1>2. UpdatesTyped
  <2>1. [state |-> "none", url |-> "right", commit |-> 1, update |-> FALSE, latest |-> 0] \in PackageRow
    BY DEF PackageRow
  <2>2. Updates!None \in [at : {"none", "look", "leave"}] /\ Updates!Rest \in [at : {"rest"}]
    BY DEF Updates!None, Updates!Rest
  <2>3. QED
    BY <1>1, <2>1, <2>2 DEF UpdatesTyped
<1>3. Flagged
  BY <1>1 DEF Flagged, Updates!None
<1>4. Updates!Pending = {}
  BY <1>1 DEF Updates!Pending
<1>5. Tended /\ Updates!UpdatesSeen
  BY <1>1, <1>4 DEF Tended, Updates!UpdatesSeen
<1>6. QED
  BY <1>2, <1>3, <1>5 DEF UpdatesInv

\* What a check writes into a row, before it asks, is no new request, and no new update.
LEMMA ReadFacts ==
    ASSUME UpdatesTyped, NEW p \in Package, Updates!Read(p) \/ Updates!Persist(p, "offline")
    PROVE  /\ package' \in [Package -> PackageRow]
           /\ \A q \in Package : /\ package'[q].update = package[q].update
                                 /\ package'[q].latest = package[q].latest
           /\ Updates!Pending' \subseteq Updates!Pending
<1>1. PICK s \in {"suspect_remote", "error", "offline"} :
        UNCHANGED package \/ package' = [package EXCEPT ![p].state = s]
  BY DEF Updates!Read, Updates!Persist, Updates!Verdict
<1>2. \A q \in Package : package[q] \in PackageRow
  BY DEF UpdatesTyped
<1>3. package' \in [Package -> PackageRow]
  <2>1. [package[p] EXCEPT !.state = s] \in PackageRow
    BY <1>2 DEF PackageRow
  <2>2. QED
    BY <1>1, <1>2, <2>1 DEF UpdatesTyped
<1>4. \A q \in Package : /\ package'[q].update = package[q].update
                         /\ package'[q].latest = package[q].latest
                         /\ package'[q].state \in {package[q].state, s}
  BY <1>1, <1>2 DEF UpdatesTyped, PackageRow
<1>5. QED
  BY <1>3, <1>4 DEF Updates!Pending

LEMMA AskingFacts ==
    ASSUME UpdatesTyped, NEW p \in Package, Updates!Verdict(package[p]) = "ask"
    PROVE  Updates!Asking(p) \in Inquiry /\ Updates!Asking(p).at = "ask"
<1>1. package[p].commit \in 0..2 /\ package[p].commit # 0
  BY DEF UpdatesTyped, PackageRow, Updates!Verdict
<1>2. QED
  BY <1>1 DEF Updates!Asking, Inquiry, Updates!Commit

\* What an answer writes: an update only where the remote's commit was another one.
LEMMA AnswerFacts ==
    ASSUME UpdatesTyped, Updates!UpdatesSeen, NEW check \in Inquiry, Updates!Answer(check)
    PROVE  /\ package' \in [Package -> PackageRow]
           /\ Updates!UpdatesSeen'
           /\ Updates!Pending' \subseteq Updates!Pending
<1> DEFINE p == check.of
<1>1. PICK tip \in Updates!Commit \cup {0} :
        /\ package' = [package EXCEPT ![p] =
             IF tip = 0 THEN [@ EXCEPT !.state = "error"]
             ELSE [@ EXCEPT !.state = "ok", !.update = tip # check.commit, !.latest = tip]]
        /\ seen' = IF tip = 0 THEN seen ELSE seen \cup {<<p, check.commit, tip>>}
  BY DEF Updates!Answer, Updates!Compare
<1>2. p \in Package /\ check.commit \in Updates!Commit /\ tip \in 0..2
  BY DEF Inquiry, Updates!Commit
<1>3. \A q \in Package : package[q] \in PackageRow
  BY DEF UpdatesTyped
<1>4. package' \in [Package -> PackageRow]
  <2>1. /\ [package[p] EXCEPT !.state = "error"] \in PackageRow
        /\ [package[p] EXCEPT !.state = "ok", !.update = tip # check.commit, !.latest = tip] \in PackageRow
    BY <1>2, <1>3 DEF PackageRow
  <2>2. QED
    BY <1>1, <1>2, <2>1 DEF UpdatesTyped
<1>5. \A q \in Package \ {p} : package'[q] = package[q]
  BY <1>1 DEF UpdatesTyped
<1>6. package'[p].state \in {"error", "ok"}
  BY <1>1, <1>2, <1>3 DEF UpdatesTyped, PackageRow
<1>7. Updates!Pending' \subseteq Updates!Pending
  BY <1>5, <1>6 DEF Updates!Pending
<1>8. Updates!UpdatesSeen'
  <2>1. CASE tip = 0
    <3>1. seen' = seen
      BY <1>1, <2>1
    <3>2. package'[p].update = package[p].update /\ package'[p].latest = package[p].latest
      BY <1>1, <1>2, <1>3, <2>1 DEF UpdatesTyped, PackageRow
    <3>3. \A q \in Package : package'[q].update = package[q].update /\ package'[q].latest = package[q].latest
      BY <1>5, <3>2
    <3>4. QED
      BY <3>1, <3>3 DEF Updates!UpdatesSeen
  <2>2. CASE tip # 0
    <3>1. package'[p].update = (tip # check.commit) /\ package'[p].latest = tip
      BY <1>1, <1>2, <1>3, <2>2 DEF UpdatesTyped, PackageRow
    <3>2. <<p, check.commit, tip>> \in seen' /\ seen \subseteq seen'
      BY <1>1, <2>2
    <3>3. ASSUME NEW q \in Package, package'[q].update
          PROVE  \E c \in Updates!Commit : c # package'[q].latest /\ <<q, c, package'[q].latest>> \in seen'
      <4>1. CASE q = p
        BY <1>2, <3>1, <3>2, <3>3, <4>1
      <4>2. CASE q # p
        BY <1>5, <3>2, <3>3, <4>2 DEF Updates!UpdatesSeen
      <4>3. QED
        BY <4>1, <4>2
    <3>4. QED
      BY <3>3 DEF Updates!UpdatesSeen
  <2>3. QED
    BY <2>1, <2>2
<1>9. QED
  BY <1>4, <1>7, <1>8

\* A request that does not wait with marks covers nothing, so it may change.
LEMMA FewerPending ==
    ASSUME Tended, Updates!Pending' \subseteq Updates!Pending, late \subseteq late',
           batch'.at \in {"none", "leave"} => batch.at \in {"none", "leave"},
           \A c \in Client : callers[c].at = "marked" => callers'[c] = callers[c]
    PROVE  Tended'
  BY DEF Tended, Looked

LEMMA SameRows ==
    ASSUME UNCHANGED package, seen \subseteq seen'
    PROVE  /\ Updates!Pending' = Updates!Pending
           /\ Updates!UpdatesSeen => Updates!UpdatesSeen'
  BY DEF Updates!Pending, Updates!UpdatesSeen

LEMMA MarkKeepsUpdates ==
    ASSUME UpdatesInv, NEW c \in Client, NEW ids \in SUBSET Package, Updates!Mark(c, ids)
    PROVE  UpdatesInv'
<1> DEFINE marked == {p \in ids : package[p].url = "right"}
           new == [at |-> "marked", queued |-> marked]
<1>1. /\ callers[c] = Updates!Rest
      /\ package' = [p \in Package |->
           IF p \in marked THEN [package[p] EXCEPT !.state = "pending"] ELSE package[p]]
      /\ callers' = [callers EXCEPT ![c] = new]
      /\ UNCHANGED <<running, batch, seen, late>>
  BY DEF Updates!Mark
<1>2. \A p \in Package : package[p] \in PackageRow
  BY DEF UpdatesInv, UpdatesTyped
<1>3. \A p \in Package : package'[p] \in PackageRow
  BY <1>1, <1>2 DEF PackageRow
<1>4. new \in [at : {"marked"}, queued : SUBSET Package]
  OBVIOUS
<1>5. UpdatesTyped'
  BY <1>1, <1>3, <1>4 DEF UpdatesInv, UpdatesTyped
<1>6. /\ callers'[c] = new /\ callers[c].at = "rest"
      /\ \A o \in Client \ {c} : callers'[o] = callers[o]
  BY <1>1 DEF UpdatesInv, UpdatesTyped, Updates!Rest
<1>7. ASSUME NEW p \in Updates!Pending', batch.at \in {"none", "leave"} PROVE Looked(p)'
  <2>1. CASE p \in marked
    BY <1>6, <2>1 DEF Looked
  <2>2. CASE p \notin marked
    <3>1. p \in Updates!Pending
      BY <1>1, <2>2 DEF Updates!Pending
    <3>2. Looked(p)
      BY <1>7, <3>1 DEF UpdatesInv, Tended
    <3>3. QED
      BY <1>1, <1>6, <3>2 DEF Looked
  <2>3. QED
    BY <2>1, <2>2
<1>8. Tended' /\ Flagged'
  BY <1>1, <1>7 DEF Tended, Flagged, UpdatesInv
<1>9. \A p \in Package : package'[p].update = package[p].update /\ package'[p].latest = package[p].latest
  BY <1>1, <1>2 DEF PackageRow
<1>10. Updates!UpdatesSeen'
  BY <1>1, <1>9 DEF UpdatesInv, Updates!UpdatesSeen
<1>11. QED
  BY <1>5, <1>8, <1>10 DEF UpdatesInv

LEMMA StartKeepsUpdates ==
    ASSUME UpdatesInv, NEW c \in Client, Updates!Start(c)
    PROVE  UpdatesInv'
<1> DEFINE starts == callers[c].queued # {} /\ ~running
<1>1. /\ callers[c].at = "marked" /\ callers' = [callers EXCEPT ![c] = Updates!Rest]
      /\ starts => running' = TRUE /\ batch' = [at |-> "look"]
      /\ ~starts => UNCHANGED <<running, batch>>
      /\ late' = IF batch.at = "leave" THEN late \cup callers[c].queued ELSE late
      /\ UNCHANGED <<package, seen>>
  BY DEF Updates!Start
<1>2. UpdatesTyped'
  <2>1. Updates!Rest \in [at : {"rest"}]
    BY DEF Updates!Rest
  <2>2. batch' \in [at : {"none", "look", "leave"}] \cup [at : {"take"}, of : Package] \cup Inquiry
    BY <1>1 DEF UpdatesInv, UpdatesTyped
  <2>3. QED
    BY <1>1, <2>1, <2>2 DEF UpdatesInv, UpdatesTyped
<1>3. Flagged'
  <2>1. CASE starts
    <3>1. running' = TRUE /\ batch'.at = "look"
      BY <1>1, <2>1
    <3>2. QED
      BY <3>1 DEF Flagged
  <2>2. CASE ~starts
    BY <1>1, <2>2 DEF UpdatesInv, Flagged
  <2>3. QED
    BY <2>1, <2>2
<1>4. Updates!Pending' = Updates!Pending /\ Updates!UpdatesSeen'
  BY <1>1, SameRows DEF UpdatesInv
<1>5. \A o \in Client \ {c} : callers'[o] = callers[o]
  BY <1>1 DEF UpdatesInv, UpdatesTyped
<1>6. ASSUME batch'.at \in {"none", "leave"}, NEW p \in Updates!Pending PROVE Looked(p)'
  <2>1. ~starts /\ batch' = batch
    BY <1>1, <1>6
  <2>2. Looked(p)
    BY <1>6, <2>1 DEF UpdatesInv, Tended
  <2>3. CASE batch.at = "leave"
    BY <1>1, <1>5, <2>2, <2>3 DEF Looked
  <2>4. CASE batch.at = "none"
    <3>1. callers[c].queued = {}
      BY <2>1, <2>4 DEF UpdatesInv, Flagged
    <3>2. QED
      BY <1>1, <1>5, <2>2, <2>4, <3>1 DEF Looked
  <2>5. QED
    BY <1>6, <2>1, <2>3, <2>4
<1>7. Tended'
  BY <1>4, <1>6 DEF Tended
<1>8. QED
  BY <1>2, <1>3, <1>4, <1>7 DEF UpdatesInv

LEMMA CheckKeepsUpdates ==
    ASSUME UpdatesInv, NEW c \in Client, NEW p \in Package, Updates!Check(c, p)
    PROVE  UpdatesInv'
<1>1. /\ callers[c] = Updates!Rest /\ Updates!Read(p)
      /\ callers' = IF Updates!Verdict(package[p]) = "ask" THEN [callers EXCEPT ![c] = Updates!Asking(p)]
                    ELSE callers
      /\ UNCHANGED <<running, batch, seen, late>>
  BY DEF Updates!Check
<1>2. /\ package' \in [Package -> PackageRow] /\ Updates!Pending' \subseteq Updates!Pending
      /\ \A q \in Package : package'[q].update = package[q].update /\ package'[q].latest = package[q].latest
  BY <1>1, ReadFacts DEF UpdatesInv
<1>3. UpdatesTyped'
  BY <1>1, <1>2, AskingFacts DEF UpdatesInv, UpdatesTyped
<1>4. \A o \in Client : callers[o].at = "marked" => callers'[o] = callers[o]
  BY <1>1 DEF UpdatesInv, UpdatesTyped, Updates!Rest
<1>5. Tended'
  BY <1>1, <1>2, <1>4, FewerPending DEF UpdatesInv
<1>6. Flagged' /\ Updates!UpdatesSeen'
  BY <1>1, <1>2 DEF UpdatesInv, Flagged, Updates!UpdatesSeen
<1>7. QED
  BY <1>3, <1>5, <1>6 DEF UpdatesInv

LEMMA CheckedKeeps ==
    ASSUME UpdatesInv, NEW c \in Client, Updates!Checked(c)
    PROVE  UpdatesInv'
<1>1. /\ callers[c].at = "ask" /\ Updates!Answer(callers[c])
      /\ callers' = [callers EXCEPT ![c] = Updates!Rest]
      /\ UNCHANGED <<running, batch, late>>
  BY DEF Updates!Checked
<1>2. callers[c] \in Inquiry
  BY <1>1, CallerFacts DEF UpdatesInv
<1>3. /\ package' \in [Package -> PackageRow] /\ Updates!UpdatesSeen'
      /\ Updates!Pending' \subseteq Updates!Pending
  BY <1>1, <1>2, AnswerFacts DEF UpdatesInv
<1>4. UpdatesTyped'
  BY <1>1, <1>3 DEF UpdatesInv, UpdatesTyped, Updates!Rest
<1>5. \A o \in Client : callers[o].at = "marked" => callers'[o] = callers[o]
  BY <1>1 DEF UpdatesInv, UpdatesTyped
<1>6. Tended'
  BY <1>1, <1>3, <1>5, FewerPending DEF UpdatesInv
<1>7. Flagged'
  BY <1>1 DEF UpdatesInv, Flagged
<1>8. QED
  BY <1>3, <1>4, <1>6, <1>7 DEF UpdatesInv

LEMMA BatchKeeps ==
    ASSUME UpdatesInv, Package \subseteq Nat,
           Updates!Look \/ Updates!Take \/ Updates!Conclude \/ Updates!Leave
    PROVE  UpdatesInv'
<1>1. CASE Updates!Look
  <2>1. /\ batch.at = "look" /\ UNCHANGED <<package, running, callers, seen, late>>
        /\ batch' = IF Updates!Pending = {} THEN [at |-> "leave"]
                    ELSE [at |-> "take", of |-> CHOOSE p \in Updates!Pending : \A q \in Updates!Pending : p <= q]
    BY <1>1 DEF Updates!Look
  <2>2. Updates!Pending' = Updates!Pending /\ Updates!UpdatesSeen' /\ Updates!Pending \subseteq Package
    BY <2>1, SameRows DEF UpdatesInv, Updates!Pending
  <2>3. CASE Updates!Pending = {}
    <3>1. batch' = [at |-> "leave"]
      BY <2>1, <2>3
    <3>2. QED
      BY <2>1, <2>2, <2>3, <3>1 DEF UpdatesInv, UpdatesTyped, Flagged, Tended
  <2>4. CASE Updates!Pending # {}
    <3>1. PICK p \in Package : batch' = [at |-> "take", of |-> p]
      BY <2>1, <2>2, <2>4, Least
    <3>2. batch'.at = "take" /\ batch' \in [at : {"take"}, of : Package]
      BY <3>1
    <3>3. UpdatesTyped'
      BY <2>1, <3>2 DEF UpdatesInv, UpdatesTyped
    <3>4. QED
      BY <2>1, <2>2, <3>2, <3>3 DEF UpdatesInv, Flagged, Tended
  <2>5. QED
    BY <2>3, <2>4
<1>2. CASE Updates!Take
  <2>1. /\ batch.at = "take" /\ UNCHANGED <<running, callers, seen, late>>
        /\ Updates!Read(batch.of) \/ Updates!Persist(batch.of, "offline")
        /\ \/ batch' = [at |-> "look"]
           \/ Updates!Verdict(package[batch.of]) = "ask" /\ batch' = Updates!Asking(batch.of)
    BY <1>2, Zenon DEF Updates!Take
  <2>2. batch.of \in Package
    BY <2>1, BatchFacts DEF UpdatesInv
  <2>3. /\ package' \in [Package -> PackageRow] /\ Updates!Pending' \subseteq Updates!Pending
        /\ \A q \in Package : package'[q].update = package[q].update /\ package'[q].latest = package[q].latest
    BY <2>1, <2>2, ReadFacts DEF UpdatesInv
  <2>4. \/ batch' = [at |-> "look"]
        \/ batch' \in Inquiry /\ batch'.at = "ask"
    <3>1. CASE Updates!Verdict(package[batch.of]) = "ask" /\ batch' = Updates!Asking(batch.of)
      BY <2>2, <3>1, AskingFacts DEF UpdatesInv
    <3>2. QED
      BY <2>1, <3>1
  <2>5. UpdatesTyped'
    BY <2>1, <2>3, <2>4 DEF UpdatesInv, UpdatesTyped
  <2>6. batch'.at \in {"look", "ask"}
    BY <2>4
  <2>7. Flagged' /\ Tended' /\ Updates!UpdatesSeen'
    BY <2>1, <2>3, <2>6 DEF UpdatesInv, Flagged, Tended, Updates!UpdatesSeen
  <2>8. QED
    BY <2>5, <2>7 DEF UpdatesInv
<1>3. CASE Updates!Conclude
  <2>1. /\ batch.at = "ask" /\ UNCHANGED <<running, callers, late>>
        /\ Updates!Answer(batch) /\ batch' = [at |-> "look"]
    BY <1>3 DEF Updates!Conclude
  <2>2. batch \in Inquiry
    BY <2>1, BatchFacts DEF UpdatesInv
  <2>3. package' \in [Package -> PackageRow] /\ Updates!UpdatesSeen'
    BY <2>1, <2>2, AnswerFacts DEF UpdatesInv
  <2>4. QED
    BY <2>1, <2>3 DEF UpdatesInv, UpdatesTyped, Flagged, Tended
<1>4. CASE Updates!Leave
  <2>1. /\ batch.at = "leave" /\ UNCHANGED <<package, callers, seen, late>>
        /\ batch' = [at |-> "none"] /\ running' = FALSE
    BY <1>4 DEF Updates!Leave, Updates!None
  <2>2. Updates!Pending' = Updates!Pending /\ Updates!UpdatesSeen'
    BY <2>1, SameRows DEF UpdatesInv
  <2>3. QED
    BY <2>1, <2>2 DEF UpdatesInv, UpdatesTyped, Flagged, Tended, Looked
<1>5. QED
  BY <1>1, <1>2, <1>3, <1>4

LEMMA ScanKeeps ==
    ASSUME UpdatesInv, NEW p \in Package, Updates!Scan(p)
    PROVE  UpdatesInv'
<1>1. PICK u \in {"right", "suspect", "none"}, commit \in Updates!Commit \cup {0} :
        package' = [package EXCEPT ![p] = [@ EXCEPT !.url = u, !.commit = commit]]
  BY DEF Updates!Scan
<1>2. UNCHANGED <<running, batch, callers, seen, late>>
  BY DEF Updates!Scan
<1>3. \A q \in Package : package[q] \in PackageRow
  BY DEF UpdatesInv, UpdatesTyped
<1> commit \in 0..2
  BY DEF Updates!Commit
<1>4. [package[p] EXCEPT !.url = u, !.commit = commit] \in PackageRow
  BY <1>3 DEF PackageRow
<1>5. UpdatesTyped'
  BY <1>1, <1>2, <1>3, <1>4 DEF UpdatesInv, UpdatesTyped
<1>6. \A q \in Package : /\ package'[q].update = package[q].update /\ package'[q].latest = package[q].latest
                         /\ package'[q].state = package[q].state
  BY <1>1, <1>3 DEF UpdatesInv, UpdatesTyped, PackageRow
<1>7. Updates!Pending' = Updates!Pending /\ Updates!UpdatesSeen'
  BY <1>2, <1>6 DEF UpdatesInv, Updates!Pending, Updates!UpdatesSeen
<1>8. Flagged' /\ Tended'
  BY <1>2, <1>7 DEF UpdatesInv, Flagged, Tended, Looked
<1>9. QED
  BY <1>5, <1>7, <1>8 DEF UpdatesInv

LEMMA UpdatesStep ==
    ASSUME UpdatesInv, Package \subseteq Nat, [Updates!Next]_Updates!updatesVars
    PROVE  UpdatesInv'
<1>1. CASE Updates!Switch \/ UNCHANGED Updates!updatesVars
  <2>1. UNCHANGED <<package, running, batch, callers, seen, late>>
    BY <1>1 DEF Updates!Switch, Updates!updatesVars
  <2>2. Updates!Pending' = Updates!Pending /\ Updates!UpdatesSeen'
    BY <2>1, SameRows DEF UpdatesInv
  <2>3. QED
    BY <2>1, <2>2 DEF UpdatesInv, UpdatesTyped, Flagged, Tended, Looked
<1>2. CASE Updates!Restart
  <2>1. /\ batch' = [at |-> "none"] /\ running' = FALSE /\ late' = late \cup Updates!Pending
        /\ callers' = [c \in Client |-> [at |-> "rest"]] /\ UNCHANGED <<package, seen>>
    BY <1>2 DEF Updates!Restart, Updates!None, Updates!Rest
  <2>2. Updates!Pending' = Updates!Pending /\ Updates!UpdatesSeen'
    BY <2>1, SameRows DEF UpdatesInv
  <2>3. QED
    BY <2>1, <2>2 DEF UpdatesInv, UpdatesTyped, Flagged, Tended, Looked
<1>3. QED
  BY <1>1, <1>2, MarkKeepsUpdates, StartKeepsUpdates, CheckKeepsUpdates, CheckedKeeps, BatchKeeps, ScanKeeps DEF Updates!Next

LEMMA UpdatesAreKept == UpdatesInv => Updates!UpdatesSeen /\ Updates!NobodyForgotten
<1> SUFFICES ASSUME UpdatesInv PROVE Updates!NobodyForgotten
  BY DEF UpdatesInv
<1>1. batch # Updates!None \/ batch.at = "none"
  BY DEF Updates!None
<1>2. QED
  BY <1>1 DEF UpdatesInv, Tended, Looked, Updates!NobodyForgotten

-----------------------------------------------------------------------------
(* Lookups (Online).  Whatever is cached, on its way to the cache, or in a  *)
(* task's hands was said by the site (Backed), so a match made of it is,    *)
(* too.                                                                     *)

Number0 == Releases \cup {0}
ModelRow == [digest : Lookups!Question, state : {"pending", "matched", "not_found"}, of : Lookups!Question,
             release : Number0, newest : Number0, update : BOOLEAN]
CacheRow == [status : {"found", "missing", "error"}, holds : Number0]
CachePut == [of : Lookups!Question, row : CacheRow]
TaskState ==
    [at : {"rest"}] \cup [at : {"digest"}, digest : Lookups!Digest, tries : Nat, force : BOOLEAN]
    \cup [at : {"newest"}, digest : Lookups!Digest, own : Number0, force : BOOLEAN]

OnlineTyped ==
    /\ model \in ModelRow
    /\ cache \in [Lookups!Question -> CacheRow \cup {Lookups!Nothing}]
    /\ puts \in Seq(CachePut)
    /\ tasks \in [Client -> TaskState]

Backed(q, entry, by) ==
    /\ entry.status = "found" => <<q, entry.holds>> \in by
    /\ entry.status = "missing" /\ q # 0 => <<q, 0>> \in by

AllBacked ==
    /\ \A q \in Lookups!Question : Backed(q, cache[q], said)
    /\ \A i \in 1..Len(puts) : Backed(puts[i].of, puts[i].row, said)
    /\ \A t \in Client : tasks[t].at = "newest" => <<tasks[t].digest, tasks[t].own>> \in said

OnlineInv == OnlineTyped /\ AllBacked /\ Lookups!SiteSaid

LEMMA OnlineInit == Lookups!Init => OnlineInv
<1> SUFFICES ASSUME Lookups!Init PROVE OnlineInv
  OBVIOUS
<1>1. /\ model = [digest |-> 1, state |-> "pending", of |-> 0, release |-> 0, newest |-> 0, update |-> FALSE]
      /\ cache = [q \in Lookups!Question |-> [status |-> "nothing"]] /\ puts = <<>>
      /\ tasks = [t \in Client |-> [at |-> "rest"]]
  BY DEF Lookups!Init, Lookups!Nothing, Lookups!Rest
<1>2. 0 \in Lookups!Question /\ 1 \in Lookups!Question /\ 0 \in Number0
  BY DEF Lookups!Question, Lookups!Digest, Lookups!Newest, Number0
<1>3. model \in ModelRow
  BY <1>1, <1>2 DEF ModelRow
<1>4. OnlineTyped
  BY <1>1, <1>3 DEF OnlineTyped, Lookups!Nothing, TaskState
<1>5. AllBacked
  BY <1>1 DEF AllBacked, Backed
<1>6. Lookups!SiteSaid
  BY <1>1 DEF Lookups!SiteSaid
<1>7. QED
  BY <1>4, <1>5, <1>6 DEF OnlineInv

\* What apply_enrichment makes of the entry.
LEMMA MatchedFacts ==
    ASSUME OnlineTyped, NEW d \in Lookups!Digest, NEW own \in Number0, NEW newest \in Number0,
           Lookups!Matched(d, own, newest)
    PROVE  /\ model' \in ModelRow /\ model'.state = "matched" /\ model'.of = d
           /\ model'.release = own /\ model'.newest = newest /\ model'.update = (own # newest)
<1>1. model \in ModelRow /\ d \in Lookups!Question
  BY DEF OnlineTyped, Lookups!Question
<1>2. model' = [model EXCEPT !.state = "matched", !.of = d, !.release = own, !.newest = newest,
                             !.update = own # newest]
  BY DEF Lookups!Matched
<1>3. QED
  BY <1>1, <1>2 DEF ModelRow

\* A match with a release the site named, and a newest one that is this one or that it named.
LEMMA MatchedIsSaid ==
    ASSUME OnlineTyped, NEW d \in Lookups!Digest, NEW own \in Number0, NEW newest \in Number0,
           Lookups!Matched(d, own, newest),
           <<d, own>> \in said', newest = own \/ <<0, newest>> \in said'
    PROVE  model' \in ModelRow /\ Lookups!SiteSaid'
<1>1. /\ model' \in ModelRow /\ model'.state = "matched" /\ model'.of = d
      /\ model'.release = own /\ model'.newest = newest /\ model'.update = (own # newest)
  BY MatchedFacts
<1>2. QED
  BY <1>1 DEF Lookups!SiteSaid, Lookups!Newest

LEMMA MissedIsSaid ==
    ASSUME OnlineInv, NEW d \in Lookups!Digest, <<d, 0>> \in said', said \subseteq said',
           model' = [model EXCEPT !.state = "not_found", !.of = d]
    PROVE  model' \in ModelRow /\ Lookups!SiteSaid'
<1>1. model \in ModelRow /\ d \in Lookups!Question
  BY DEF OnlineInv, OnlineTyped, Lookups!Question
<1>2. /\ model' \in ModelRow /\ model'.state = "not_found" /\ model'.of = d
      /\ model'.release = model.release /\ model'.newest = model.newest /\ model'.update = model.update
  BY <1>1 DEF ModelRow
<1>3. QED
  BY <1>2 DEF OnlineInv, Lookups!SiteSaid

\* More may be said, and nothing is unsaid.
LEMMA StillSaid ==
    ASSUME OnlineInv, UNCHANGED model, said \subseteq said'
    PROVE  model' \in ModelRow /\ Lookups!SiteSaid'
  BY DEF OnlineInv, OnlineTyped, Lookups!SiteSaid

\* A task goes on to the newest release, or comes to its end with a match that was said.
LEMMA NewestAsked ==
    ASSUME OnlineInv, NEW t \in Client, NEW d \in Lookups!Digest, NEW own \in Number0,
           NEW force \in BOOLEAN, <<d, own>> \in said', said \subseteq said',
           Lookups!AskNewest(t, d, own, force)
    PROVE  /\ model' \in ModelRow /\ Lookups!SiteSaid' /\ tasks' \in [Client -> TaskState]
           /\ \A o \in Client : tasks'[o].at = "newest" => <<tasks'[o].digest, tasks'[o].own>> \in said'
<1> DEFINE known == cache[Lookups!Newest]
           next == [at |-> "newest", digest |-> d, own |-> own, force |-> force]
<1>1. CASE tasks' = [tasks EXCEPT ![t] = next] /\ UNCHANGED model
  <2>1. next \in TaskState
    BY DEF TaskState
  <2>2. tasks' \in [Client -> TaskState]
    BY <1>1, <2>1 DEF OnlineInv, OnlineTyped
  <2>3. tasks'[t] = next /\ \A o \in Client \ {t} : tasks'[o] = tasks[o]
    BY <1>1 DEF OnlineInv, OnlineTyped
  <2>4. \A o \in Client : tasks'[o].at = "newest" => <<tasks'[o].digest, tasks'[o].own>> \in said'
    <3>1. next.digest = d /\ next.own = own
      OBVIOUS
    <3>2. <<tasks'[t].digest, tasks'[t].own>> \in said'
      BY <2>3, <3>1
    <3>3. \A o \in Client \ {t} : tasks'[o].at = "newest" => <<tasks'[o].digest, tasks'[o].own>> \in said'
      BY <2>3 DEF OnlineInv, AllBacked
    <3>4. QED
      BY <3>2, <3>3
  <2>5. QED
    BY <1>1, <2>2, <2>4, StillSaid
<1>2. ASSUME NEW newest \in Number0, Lookups!Matched(d, own, newest), Lookups!End(t),
             newest = own \/ <<0, newest>> \in said'
      PROVE  /\ model' \in ModelRow /\ Lookups!SiteSaid' /\ tasks' \in [Client -> TaskState]
             /\ \A o \in Client : tasks'[o].at = "newest" => <<tasks'[o].digest, tasks'[o].own>> \in said'
  <2>1. model' \in ModelRow /\ Lookups!SiteSaid'
    BY <1>2, MatchedIsSaid DEF OnlineInv
  <2>2. tasks' = [tasks EXCEPT ![t] = [at |-> "rest"]]
    BY <1>2 DEF Lookups!End, Lookups!Rest
  <2>3. [at |-> "rest"] \in TaskState
    BY DEF TaskState
  <2>4. QED
    BY <2>1, <2>2, <2>3 DEF OnlineInv, OnlineTyped, AllBacked
<1>3. ASSUME Lookups!Matched(d, own, IF known.status = "found" THEN known.holds ELSE own), known # Lookups!Nothing
      PROVE  \E newest \in Number0 : Lookups!Matched(d, own, newest) /\ (newest = own \/ <<0, newest>> \in said')
  <2>1. known \in CacheRow
    BY <1>3 DEF OnlineInv, OnlineTyped, Lookups!Question
  <2>2. Backed(0, known, said)
    BY DEF OnlineInv, AllBacked, Lookups!Question, Lookups!Newest
  <2>3. CASE known.status = "found"
    <3>1. known.holds \in Number0 /\ <<0, known.holds>> \in said
      BY <2>1, <2>2, <2>3 DEF CacheRow, Backed
    <3>2. QED
      BY <1>3, <2>3, <3>1
  <2>4. CASE known.status # "found"
    BY <1>3, <2>4
  <2>5. QED
    BY <2>3, <2>4
<1>4. \/ Lookups!Matched(d, own, own) /\ Lookups!End(t)
      \/ /\ known # Lookups!Nothing /\ Lookups!End(t)
         /\ Lookups!Matched(d, own, IF known.status = "found" THEN known.holds ELSE own)
      \/ tasks' = [tasks EXCEPT ![t] = next] /\ UNCHANGED model
  BY Zenon DEF Lookups!AskNewest
<1>5. QED
  BY <1>1, <1>2, <1>3, <1>4

\* A cache entry handed to the writer.
LEMMA PutKept ==
    ASSUME OnlineInv, said \subseteq said', NEW q \in Lookups!Question, NEW entry \in CacheRow,
           puts' = Append(puts, [of |-> q, row |-> entry]), Backed(q, entry, said')
    PROVE  puts' \in Seq(CachePut) /\ \A i \in 1..Len(puts') : Backed(puts'[i].of, puts'[i].row, said')
<1> DEFINE put == [of |-> q, row |-> entry]
<1>1. put \in CachePut /\ puts \in Seq(CachePut)
  BY DEF CachePut, OnlineInv, OnlineTyped
<1>2. /\ puts' \in Seq(CachePut) /\ Len(puts') = Len(puts) + 1 /\ puts'[Len(puts) + 1] = put
      /\ \A i \in 1..Len(puts) : puts'[i] = puts[i]
  BY <1>1
<1>3. ASSUME NEW i \in 1..Len(puts') PROVE Backed(puts'[i].of, puts'[i].row, said')
  <2>1. CASE i = Len(puts) + 1
    <3>1. puts'[i].of = q /\ puts'[i].row = entry
      BY <1>2, <2>1
    <3>2. QED
      BY <3>1
  <2>2. CASE i # Len(puts) + 1
    <3>1. i \in 1..Len(puts)
      BY <1>1, <1>2, <2>2
    <3>2. QED
      BY <1>2, <3>1 DEF OnlineInv, AllBacked, Backed
  <2>3. QED
    BY <2>1, <2>2
<1>4. QED
  BY <1>2, <1>3

LEMMA PutsStay ==
    ASSUME OnlineInv, said \subseteq said', UNCHANGED puts
    PROVE  puts' \in Seq(CachePut) /\ \A i \in 1..Len(puts') : Backed(puts'[i].of, puts'[i].row, said')
  BY DEF OnlineInv, OnlineTyped, AllBacked, Backed

LEMMA CacheStays ==
    ASSUME OnlineInv, said \subseteq said', UNCHANGED cache
    PROVE  /\ cache' \in [Lookups!Question -> CacheRow \cup {Lookups!Nothing}]
           /\ \A q \in Lookups!Question : Backed(q, cache'[q], said')
  BY DEF OnlineInv, OnlineTyped, AllBacked, Backed

\* A task at its end, one that goes on trying, and tasks nobody touched.
LEMMA TasksStay ==
    ASSUME OnlineInv, said \subseteq said', NEW t \in Client, NEW new \in TaskState,
           new.at # "newest", tasks' = [tasks EXCEPT ![t] = new] \/ UNCHANGED tasks
    PROVE  /\ tasks' \in [Client -> TaskState]
           /\ \A o \in Client : tasks'[o].at = "newest" => <<tasks'[o].digest, tasks'[o].own>> \in said'
<1>1. tasks' \in [Client -> TaskState]
  BY DEF OnlineInv, OnlineTyped
<1>2. \A o \in Client : tasks'[o] = tasks[o] \/ tasks'[o] = new
  BY DEF OnlineInv, OnlineTyped
<1>3. QED
  BY <1>1, <1>2 DEF OnlineInv, AllBacked

LEMMA RestIsState == Lookups!Rest \in TaskState /\ Lookups!Rest.at # "newest"
  BY DEF Lookups!Rest, TaskState

LEMMA DigestFacts ==
    ASSUME OnlineInv, NEW t \in Client, tasks[t].at \in {"digest", "newest"}
    PROVE  /\ tasks[t].digest \in Lookups!Digest /\ tasks[t].force \in BOOLEAN
           /\ tasks[t].digest \in Lookups!Question /\ tasks[t].digest # 0
           /\ tasks[t].at = "newest" => tasks[t].own \in Number0
           /\ tasks[t].at = "digest" => [tasks[t] EXCEPT !.tries = @ + 1] \in TaskState
           /\ tasks[t].at = "digest" => [tasks[t] EXCEPT !.tries = @ + 1].at = "digest"
<1>1. tasks[t] \in TaskState
  BY DEF OnlineInv, OnlineTyped
<1>2. QED
  BY <1>1 DEF TaskState, Lookups!Question, Lookups!Digest

LEMMA NewestAnsweredKeeps ==
    ASSUME OnlineInv, NEW t \in Client, Lookups!NewestAnswered(t)
    PROVE  OnlineInv'
<1> DEFINE d == tasks[t].digest
           own == tasks[t].own
<1>1. /\ tasks[t].at = "newest" /\ UNCHANGED cache /\ tasks' = [tasks EXCEPT ![t] = Lookups!Rest]
  BY DEF Lookups!NewestAnswered, Lookups!End
<1>2. d \in Lookups!Digest /\ own \in Number0 /\ <<d, own>> \in said
  BY <1>1, DigestFacts DEF OnlineInv, AllBacked
<1>3. \/ \E n \in Releases : /\ Lookups!Matched(d, own, n) /\ Lookups!Put(Lookups!Newest, "found", n)
                             /\ said' = said \cup {<<0, n>>}
      \/ /\ Lookups!Matched(d, own, own) /\ said' = said
         /\ \/ \E s \in {"missing", "error"} : Lookups!Put(Lookups!Newest, s, 0)
            \/ UNCHANGED puts
  BY DEF Lookups!NewestAnswered, Lookups!Newest
<1>4. Lookups!Newest \in Lookups!Question /\ Lookups!Newest = 0 /\ 0 \in Number0 /\ Releases \subseteq Number0
  BY DEF Lookups!Question, Lookups!Newest, Number0
<1>5. said \subseteq said'
  BY <1>3
<1>6. model' \in ModelRow /\ Lookups!SiteSaid'
  BY <1>2, <1>3, <1>4, MatchedIsSaid DEF OnlineInv
<1>7. puts' \in Seq(CachePut) /\ \A i \in 1..Len(puts') : Backed(puts'[i].of, puts'[i].row, said')
  <2>1. ASSUME NEW n \in Releases, Lookups!Put(Lookups!Newest, "found", n), said' = said \cup {<<0, n>>}
        PROVE  puts' \in Seq(CachePut) /\ \A i \in 1..Len(puts') : Backed(puts'[i].of, puts'[i].row, said')
    <3> DEFINE entry == [status |-> "found", holds |-> n]
    <3>1. entry \in CacheRow /\ puts' = Append(puts, [of |-> Lookups!Newest, row |-> entry])
      BY <1>4, <2>1 DEF CacheRow, Lookups!Put
    <3>2. Backed(Lookups!Newest, entry, said')
      BY <1>4, <2>1 DEF Backed
    <3>3. QED
      BY <1>4, <1>5, <3>1, <3>2, PutKept
  <2>2. ASSUME NEW s \in {"missing", "error"}, Lookups!Put(Lookups!Newest, s, 0)
        PROVE  puts' \in Seq(CachePut) /\ \A i \in 1..Len(puts') : Backed(puts'[i].of, puts'[i].row, said')
    <3> DEFINE entry == [status |-> s, holds |-> 0]
    <3>1. entry \in CacheRow /\ puts' = Append(puts, [of |-> Lookups!Newest, row |-> entry])
      BY <1>4, <2>2 DEF CacheRow, Lookups!Put
    <3>2. Backed(Lookups!Newest, entry, said')
      BY <1>4 DEF Backed
    <3>3. QED
      BY <1>4, <1>5, <3>1, <3>2, PutKept
  <2>3. QED
    BY <1>3, <1>5, <2>1, <2>2, PutsStay
<1>8. /\ tasks' \in [Client -> TaskState]
      /\ \A o \in Client : tasks'[o].at = "newest" => <<tasks'[o].digest, tasks'[o].own>> \in said'
  BY <1>1, <1>5, RestIsState, TasksStay
<1>9. QED
  BY <1>1, <1>5, <1>6, <1>7, <1>8, CacheStays DEF OnlineInv, OnlineTyped, AllBacked

LEMMA EnrichKeeps ==
    ASSUME OnlineInv, NEW t \in Client, NEW force \in BOOLEAN, Lookups!Enrich(t, force)
    PROVE  OnlineInv'
<1> DEFINE d == model.digest
           known == cache[d]
           first == [at |-> "digest", digest |-> d, tries |-> 0, force |-> force]
<1>1. d # 0 /\ UNCHANGED <<cache, puts, said>>
  BY DEF Lookups!Enrich
<1>2. d \in Lookups!Digest /\ d \in Lookups!Question
  BY <1>1 DEF OnlineInv, OnlineTyped, ModelRow, Lookups!Question, Lookups!Newest
<1>3. \/ known.status = "found" /\ Lookups!AskNewest(t, d, known.holds, force)
      \/ /\ known.status = "missing" /\ UNCHANGED tasks
         /\ model' = [model EXCEPT !.state = "not_found", !.of = d]
      \/ UNCHANGED <<model, tasks>>
      \/ tasks' = [tasks EXCEPT ![t] = first] /\ UNCHANGED model
  BY Zenon DEF Lookups!Enrich, Lookups!Unreachable
<1>4. known \in CacheRow \cup {Lookups!Nothing} /\ Backed(d, known, said)
  BY <1>2 DEF OnlineInv, OnlineTyped, AllBacked
<1>5. said \subseteq said'
  BY <1>1
<1>6. first \in TaskState /\ first.at # "newest"
  BY <1>2 DEF TaskState
<1>7. /\ model' \in ModelRow /\ Lookups!SiteSaid' /\ tasks' \in [Client -> TaskState]
      /\ \A o \in Client : tasks'[o].at = "newest" => <<tasks'[o].digest, tasks'[o].own>> \in said'
  <2>1. CASE known.status = "found" /\ Lookups!AskNewest(t, d, known.holds, force)
    <3>1. known.holds \in Number0 /\ <<d, known.holds>> \in said'
      BY <1>1, <1>4, <2>1 DEF CacheRow, Lookups!Nothing, Backed
    <3>2. QED
      BY <1>2, <1>5, <2>1, <3>1, NewestAsked
  <2>2. CASE /\ known.status = "missing" /\ UNCHANGED tasks
             /\ model' = [model EXCEPT !.state = "not_found", !.of = d]
    <3>1. <<d, 0>> \in said'
      BY <1>1, <1>4, <2>2 DEF Backed
    <3>2. model' \in ModelRow /\ Lookups!SiteSaid'
      BY <1>2, <1>5, <2>2, <3>1, MissedIsSaid
    <3>3. QED
      BY <1>5, <2>2, <3>2, RestIsState, TasksStay
  <2>3. CASE UNCHANGED model /\ (tasks' = [tasks EXCEPT ![t] = first] \/ UNCHANGED tasks)
    BY <1>5, <1>6, <2>3, StillSaid, TasksStay
  <2>4. QED
    BY <1>3, <2>1, <2>2, <2>3
<1>8. QED
  BY <1>1, <1>5, <1>7, CacheStays, PutsStay DEF OnlineInv, OnlineTyped, AllBacked

LEMMA FoundKeeps ==
    ASSUME OnlineInv, NEW t \in Client, Lookups!Found(t)
    PROVE  OnlineInv'
<1> DEFINE d == tasks[t].digest
           force == tasks[t].force
<1>1. PICK own \in Releases : /\ Lookups!Put(d, "found", own) /\ said' = said \cup {<<d, own>>}
                              /\ Lookups!AskNewest(t, d, own, force)
  BY DEF Lookups!Found
<1>2. tasks[t].at = "digest" /\ UNCHANGED cache
  BY DEF Lookups!Found
<1>3. /\ d \in Lookups!Digest /\ d \in Lookups!Question /\ force \in BOOLEAN /\ own \in Number0
      /\ said \subseteq said' /\ <<d, own>> \in said'
  BY <1>1, <1>2, DigestFacts DEF Number0
<1> DEFINE entry == [status |-> "found", holds |-> own]
<1>4. entry \in CacheRow /\ puts' = Append(puts, [of |-> d, row |-> entry])
  BY <1>1, <1>3 DEF CacheRow, Lookups!Put
<1>5. Backed(d, entry, said')
  BY <1>3 DEF Backed
<1>6. puts' \in Seq(CachePut) /\ \A i \in 1..Len(puts') : Backed(puts'[i].of, puts'[i].row, said')
  BY <1>3, <1>4, <1>5, PutKept
<1>7. /\ model' \in ModelRow /\ Lookups!SiteSaid' /\ tasks' \in [Client -> TaskState]
      /\ \A o \in Client : tasks'[o].at = "newest" => <<tasks'[o].digest, tasks'[o].own>> \in said'
  BY <1>1, <1>3, NewestAsked
<1>8. QED
  BY <1>2, <1>3, <1>6, <1>7, CacheStays DEF OnlineInv, OnlineTyped, AllBacked

\* An answer that settles or puts off the question: the cache entry is a miss that was said, or no answer.
LEMMA UnfoundKeeps ==
    ASSUME OnlineInv, NEW t \in Client,
           Lookups!NotFound(t) \/ Lookups!RateLimited(t) \/ Lookups!Unanswered(t)
    PROVE  OnlineInv'
<1> DEFINE d == tasks[t].digest
           retried == [tasks[t] EXCEPT !.tries = @ + 1]
<1>1. tasks[t].at = "digest" /\ UNCHANGED cache
  BY DEF Lookups!NotFound, Lookups!RateLimited, Lookups!Unanswered
<1>2. /\ d \in Lookups!Digest /\ d \in Lookups!Question /\ d # 0
      /\ retried \in TaskState /\ retried.at # "newest" /\ 0 \in Number0
  BY <1>1, DigestFacts DEF Number0
<1>3. \/ /\ Lookups!Put(d, "missing", 0) /\ said' = said \cup {<<d, 0>>}
         /\ model' = [model EXCEPT !.state = "not_found", !.of = d]
         /\ tasks' = [tasks EXCEPT ![t] = Lookups!Rest]
      \/ /\ Lookups!Put(d, "error", 0) /\ said' = said /\ UNCHANGED model
         /\ tasks' = [tasks EXCEPT ![t] = Lookups!Rest]
      \/ UNCHANGED <<puts, said, model>> /\ tasks' = [tasks EXCEPT ![t].tries = @ + 1]
  BY DEF Lookups!NotFound, Lookups!RateLimited, Lookups!Unanswered, Lookups!Missed,
         Lookups!Unreachable, Lookups!End
<1>4. said \subseteq said'
  BY <1>3
<1>5. model' \in ModelRow /\ Lookups!SiteSaid'
  BY <1>2, <1>3, <1>4, MissedIsSaid, StillSaid
<1>6. puts' \in Seq(CachePut) /\ \A i \in 1..Len(puts') : Backed(puts'[i].of, puts'[i].row, said')
  <2>1. ASSUME NEW s \in {"missing", "error"}, Lookups!Put(d, s, 0), s = "missing" => <<d, 0>> \in said'
        PROVE  puts' \in Seq(CachePut) /\ \A i \in 1..Len(puts') : Backed(puts'[i].of, puts'[i].row, said')
    <3> DEFINE entry == [status |-> s, holds |-> 0]
    <3>1. entry \in CacheRow /\ puts' = Append(puts, [of |-> d, row |-> entry])
      BY <1>2, <2>1 DEF CacheRow, Lookups!Put
    <3>2. Backed(d, entry, said')
      BY <2>1 DEF Backed
    <3>3. QED
      BY <1>2, <1>4, <3>1, <3>2, PutKept
  <2>2. QED
    BY <1>3, <1>4, <2>1, PutsStay
<1>7. tasks' = [tasks EXCEPT ![t] = retried] \/ tasks' = [tasks EXCEPT ![t] = Lookups!Rest]
  BY <1>3 DEF OnlineInv, OnlineTyped
<1>8. /\ tasks' \in [Client -> TaskState]
      /\ \A o \in Client : tasks'[o].at = "newest" => <<tasks'[o].digest, tasks'[o].own>> \in said'
  BY <1>2, <1>4, <1>7, RestIsState, TasksStay
<1>9. QED
  BY <1>1, <1>4, <1>5, <1>6, <1>8, CacheStays DEF OnlineInv, OnlineTyped, AllBacked

\* What lands in the cache was on its way there, and what expires is gone.
LEMMA CacheKeeps ==
    ASSUME OnlineInv, Lookups!Land \/ \E q \in Lookups!Question : Lookups!Expire(q)
    PROVE  OnlineInv'
<1>1. UNCHANGED <<model, tasks, said>> /\ said \subseteq said'
  BY DEF Lookups!Land, Lookups!Expire
<1>2. /\ model' \in ModelRow /\ Lookups!SiteSaid' /\ tasks' \in [Client -> TaskState]
      /\ \A o \in Client : tasks'[o].at = "newest" => <<tasks'[o].digest, tasks'[o].own>> \in said'
  BY <1>1, StillSaid DEF OnlineInv, OnlineTyped, AllBacked
<1>3. CASE Lookups!Land
  <2>1. /\ puts # <<>> /\ puts' = Tail(puts)
        /\ UNCHANGED cache \/ cache' = [cache EXCEPT ![puts[1].of] = puts[1].row]
    BY <1>3 DEF Lookups!Land
  <2>2. puts \in Seq(CachePut)
    BY DEF OnlineInv, OnlineTyped
  <2>3. /\ puts' \in Seq(CachePut) /\ Len(puts) \in Nat \ {0} /\ Len(puts') = Len(puts) - 1
        /\ puts[1] \in CachePut /\ \A i \in 1..Len(puts') : puts'[i] = puts[i + 1] /\ i + 1 \in 1..Len(puts)
    BY <2>1, <2>2
  <2>4. \A i \in 1..Len(puts) : Backed(puts[i].of, puts[i].row, said')
    BY <1>1 DEF OnlineInv, AllBacked, Backed
  <2>5. \A i \in 1..Len(puts') : Backed(puts'[i].of, puts'[i].row, said')
    BY <2>3, <2>4 DEF Backed
  <2>6. puts[1].row \in CacheRow /\ Backed(puts[1].of, puts[1].row, said)
    BY <2>3 DEF CachePut, OnlineInv, AllBacked
  <2>7. cache' \in [Lookups!Question -> CacheRow \cup {Lookups!Nothing}]
    BY <2>1, <2>6 DEF OnlineInv, OnlineTyped
  <2>8. \A q \in Lookups!Question :
          \/ cache'[q] = cache[q]
          \/ q = puts[1].of /\ cache'[q] = puts[1].row
    BY <2>1 DEF OnlineInv, OnlineTyped
  <2>9. \A q \in Lookups!Question : Backed(q, cache'[q], said')
    BY <1>1, <2>6, <2>8 DEF Backed, OnlineInv, AllBacked
  <2>10. QED
    BY <1>2, <2>3, <2>5, <2>7, <2>9 DEF OnlineInv, OnlineTyped, AllBacked
<1>4. CASE \E q \in Lookups!Question : Lookups!Expire(q)
  <2>1. PICK q \in Lookups!Question : cache' = [cache EXCEPT ![q] = Lookups!Nothing]
    BY <1>4 DEF Lookups!Expire
  <2>2. UNCHANGED puts
    BY <1>4 DEF Lookups!Expire
  <2>3. \A p \in Lookups!Question : cache'[p] = cache[p] \/ cache'[p] = Lookups!Nothing
    BY <2>1 DEF OnlineInv, OnlineTyped
  <2>4. cache' \in [Lookups!Question -> CacheRow \cup {Lookups!Nothing}]
    BY <2>1 DEF OnlineInv, OnlineTyped
  <2>5. \A p \in Lookups!Question : Backed(p, cache'[p], said')
    <3>1. ASSUME NEW p \in Lookups!Question PROVE Backed(p, cache'[p], said')
      <4>1. Backed(p, cache[p], said')
        BY <1>1 DEF OnlineInv, AllBacked
      <4>2. Backed(p, Lookups!Nothing, said')
        BY DEF Backed, Lookups!Nothing
      <4>3. QED
        BY <2>3, <4>1, <4>2
    <3>2. QED
      BY <3>1
  <2>6. QED
    BY <1>1, <1>2, <2>2, <2>4, <2>5, PutsStay DEF OnlineInv, OnlineTyped, AllBacked
<1>5. QED
  BY <1>3, <1>4

LEMMA OnlineStep == OnlineInv /\ [Lookups!Next]_Lookups!onlineVars => OnlineInv'
<1> SUFFICES ASSUME OnlineInv, [Lookups!Next]_Lookups!onlineVars PROVE OnlineInv'
  OBVIOUS
<1>1. CASE Lookups!CoolDown \/ Lookups!SwitchOff \/ UNCHANGED Lookups!onlineVars
  <2>1. UNCHANGED <<model, cache, puts, tasks, said>>
    BY <1>1 DEF Lookups!CoolDown, Lookups!SwitchOff, Lookups!onlineVars
  <2>2. QED
    BY <2>1 DEF OnlineInv, OnlineTyped, AllBacked, Backed, Lookups!SiteSaid
<1>2. CASE Lookups!Replaced \/ Lookups!Hashed
  <2>1. /\ UNCHANGED <<cache, puts, tasks, said>>
        /\ \E d \in Lookups!Question : model' = [model EXCEPT !.digest = d]
    BY <1>2 DEF Lookups!Replaced, Lookups!Hashed, Lookups!Question, Lookups!Newest
  <2>2. model \in ModelRow
    BY DEF OnlineInv, OnlineTyped
  <2>3. /\ model' \in ModelRow /\ model'.state = model.state /\ model'.of = model.of
        /\ model'.release = model.release /\ model'.newest = model.newest /\ model'.update = model.update
    BY <2>1, <2>2 DEF ModelRow
  <2>4. Lookups!SiteSaid'
    BY <2>1, <2>3 DEF OnlineInv, Lookups!SiteSaid
  <2>5. QED
    BY <2>1, <2>3, <2>4 DEF OnlineInv, OnlineTyped, AllBacked, Backed
<1>3. QED
  BY <1>1, <1>2, NewestAnsweredKeeps, EnrichKeeps, FoundKeeps, UnfoundKeeps, CacheKeeps DEF Lookups!Next

-----------------------------------------------------------------------------
\* What is said of a model, a package, a class or the catalogue comes from an answer to that
\* question, and what waits or was fetched is not lost, for any tasks, packages, callers,
\* threads and roots (civitai_service.py, node_update_service.py, node_registry.py,
\* node_registry_service.py).
THEOREM AnswersAreOwn == Spec => []LookupsSound
<1> DEFINE Inv == /\ "online" \in focus => OnlineInv
                  /\ "updates" \in focus => UpdatesInv
                  /\ "registry" \in focus => RegistryInv
                  /\ "catalogue" \in focus => CatalogueInv
<1>1. Init => Inv
  BY ServicesOK, OnlineInit, UpdatesInit, RegistryInit, CatalogueInit DEF Init
<1>2. Inv /\ [Next]_<<focus, services>> => Inv'
  BY ServicesOK, OnlineStep, UpdatesStep, RegistryStep, CatalogueStep, Apart DEF Registry!NoRoot
<1>3. Inv => LookupsSound
  BY UpdatesAreKept, RegistryIsOwn, CatalogueIsKept DEF LookupsSound, OnlineInv
<1>4. QED
  BY <1>1, <1>2, <1>3, PTL DEF Spec

-----------------------------------------------------------------------------
(* The configuration (Config).  Whoever loads holds the lock (Locked); what *)
(* is cached or being loaded is what the table gives unless a saving has    *)
(* still to empty the cache (Fresh), and is not older than what anyone      *)
(* saved who is about to read it (AsNew).                                   *)

Going(r) ==
    /\ r = [at |-> r.at, op |-> r.op, cfg |-> r.cfg, wrote |-> r.wrote]
       \/ r = [at |-> r.at, op |-> r.op, cfg |-> r.cfg, wrote |-> r.wrote, patch |-> r.patch]
    /\ r.at \in {"get", "load", "decide", "write", "drop", "again", "saved", "upsert"}
    /\ r.wrote \in Nat /\ r.cfg.values.version \in Nat
    /\ r.at \in {"get", "decide", "write", "upsert"} => r.wrote = 0

ConfigTyped ==
    /\ clients = [c \in Client |-> clients[c]]
    /\ \A c \in Client : clients[c] = Conf!Resting \/ Going(clients[c])
    /\ settings.version \in Nat /\ cached.values.version \in Nat

Locked == \A c \in Client : clients[c].at = "load" => holder = c

Given(cfg, table) == cfg.values = Conf!DEFAULTS \/ cfg = Conf!build(table)

Fresh ==
    (\A c \in Client : clients[c].at # "drop") =>
        /\ Given(cached, settings)
        /\ \A c \in Client : clients[c].at = "load" => Given(clients[c].cfg, settings)

NotBefore(cfg, wrote) == cfg.values = Conf!DEFAULTS \/ cfg.values.version >= wrote

AsNew ==
    \A c \in Client :
        /\ clients[c].at \in {"drop", "again", "load"} => clients[c].wrote <= settings.version
        /\ clients[c].at \in {"again", "load"} =>
             /\ NotBefore(cached, clients[c].wrote)
             /\ \A o \in Client : clients[o].at = "load" => NotBefore(clients[o].cfg, clients[c].wrote)
        /\ clients[c].at = "saved" => NotBefore(clients[c].cfg, clients[c].wrote)

ConfigInv == ConfigTyped /\ Locked /\ Fresh /\ AsNew

LEMMA GoingFacts ==
    ASSUME ConfigTyped, NEW c \in Client
    PROVE  /\ clients[c] # Conf!Resting => Going(clients[c]) /\ clients[c].at # "idle"
           /\ clients[c] = Conf!Resting => clients[c].at = "idle"
           /\ clients[c].at # "idle" => Going(clients[c]) /\ clients[c] # Conf!Resting
<1>1. Conf!Resting.at = "idle"
  BY DEF Conf!Resting
<1>2. QED
  BY <1>1 DEF ConfigTyped, Going

\* A thread goes on with a configuration.
Onward(r, stage, cfg) == [r EXCEPT !.at = stage, !.cfg = cfg]

LEMMA OnwardFacts ==
    ASSUME NEW r, Going(r), NEW stage, NEW cfg, NEW new, new = Onward(r, stage, cfg)
    PROVE  /\ new.at = stage /\ new.cfg = cfg /\ new.wrote = r.wrote
           /\ \/ new = [at |-> new.at, op |-> new.op, cfg |-> new.cfg, wrote |-> new.wrote]
              \/ new = [at |-> new.at, op |-> new.op, cfg |-> new.cfg, wrote |-> new.wrote,
                        patch |-> new.patch]
<1>1. ASSUME NEW a, NEW o, NEW g, NEW w, r = [at |-> a, op |-> o, cfg |-> g, wrote |-> w]
      PROVE  new = [at |-> stage, op |-> o, cfg |-> cfg, wrote |-> w] /\ r.wrote = w
  BY <1>1 DEF Onward
<1>2. ASSUME NEW a, NEW o, NEW g, NEW w, NEW p,
             r = [at |-> a, op |-> o, cfg |-> g, wrote |-> w, patch |-> p]
      PROVE  new = [at |-> stage, op |-> o, cfg |-> cfg, wrote |-> w, patch |-> p] /\ r.wrote = w
  BY <1>2 DEF Onward
<1>3. CASE r = [at |-> r.at, op |-> r.op, cfg |-> r.cfg, wrote |-> r.wrote]
  BY <1>1, <1>3
<1>4. CASE r = [at |-> r.at, op |-> r.op, cfg |-> r.cfg, wrote |-> r.wrote, patch |-> r.patch]
  BY <1>2, <1>4
<1>5. QED
  BY <1>3, <1>4 DEF Going

LEMMA BuildFacts ==
    /\ \A v : Conf!build(v).values = v
    /\ Conf!None.values = Conf!DEFAULTS /\ Conf!None.values.version = 0
    /\ Conf!DEFAULTS.version = 0
  BY DEF Conf!build, Conf!None, Conf!DEFAULTS

LEMMA ConfigInit == Conf!Init => ConfigInv
<1> SUFFICES ASSUME Conf!Init PROVE ConfigInv
  OBVIOUS
<1>1. /\ settings.version = 1 /\ cached = Conf!None
      /\ clients = [c \in Client |-> Conf!Resting]
  BY DEF Conf!Init
<1>2. \A c \in Client : clients[c] = Conf!Resting /\ clients[c].at = "idle"
  BY <1>1 DEF Conf!Resting
<1>3. ConfigTyped
  BY <1>1, <1>2, BuildFacts DEF ConfigTyped
<1>4. Locked /\ Fresh /\ AsNew
  BY <1>1, <1>2, BuildFacts DEF Locked, Fresh, AsNew, Given
<1>5. QED
  BY <1>3, <1>4 DEF ConfigInv

\* A thread that neither loads nor empties the cache, and does not begin to.
LEMMA AsideKeeps ==
    ASSUME ConfigInv, NEW c \in Client, NEW new,
           clients' = [clients EXCEPT ![c] = new], UNCHANGED <<settings, cached, holder>>,
           clients[c].at \notin {"load", "drop"},
           new = Conf!Resting \/ (Going(new) /\ new.at \notin {"load", "again"}),
           new.at = "saved" => NotBefore(new.cfg, new.wrote),
           new.at = "drop" => new.wrote <= settings.version
    PROVE  ConfigInv'
<1>1. /\ clients'[c] = new /\ \A o \in Client \ {c} : clients'[o] = clients[o]
      /\ clients' = [o \in Client |-> clients'[o]]
  BY DEF ConfigInv, ConfigTyped
<1>2. /\ Conf!Resting.at = "idle"
      /\ new.at \notin {"load", "again"} /\ (new = Conf!Resting \/ Going(new))
  BY DEF Conf!Resting, Going
<1>3. ConfigTyped'
  BY <1>1, <1>2 DEF ConfigInv, ConfigTyped
<1>4. Locked'
  BY <1>1, <1>2 DEF ConfigInv, Locked
<1>5. Fresh'
  BY <1>1, <1>2 DEF ConfigInv, Fresh, Given
<1>6. AsNew'
  BY <1>1, <1>2 DEF ConfigInv, AsNew
<1>7. QED
  BY <1>3, <1>4, <1>5, <1>6 DEF ConfigInv

LEMMA AskKeepsConfig ==
    ASSUME ConfigInv, NEW c \in Client, Conf!Ask(c) \/ Conf!Saved(c)
    PROVE  ConfigInv'
<1>1. CASE Conf!Ask(c)
  <2>1. PICK o \in ConfigAsks :
          clients' = [clients EXCEPT ![c] = [at |-> "get", op |-> o, cfg |-> Conf!None, wrote |-> 0]]
    BY <1>1 DEF Conf!Ask
  <2>2. /\ clients[c] = Conf!Resting /\ UNCHANGED <<settings, cached, holder>>
        /\ clients[c].at = "idle"
    BY <1>1, GoingFacts DEF Conf!Ask, ConfigInv
  <2> DEFINE new == [at |-> "get", op |-> o, cfg |-> Conf!None, wrote |-> 0]
  <2>3. Going(new) /\ new.at = "get"
    BY BuildFacts DEF Going
  <2>4. QED
    BY <2>1, <2>2, <2>3, AsideKeeps
<1>2. CASE Conf!Saved(c)
  <2>1. /\ clients[c].at = "saved" /\ clients' = [clients EXCEPT ![c] = Conf!Resting]
        /\ UNCHANGED <<settings, cached, holder>>
    BY <1>2 DEF Conf!Saved
  <2>2. Conf!Resting.at = "idle"
    BY DEF Conf!Resting
  <2>3. QED
    BY <2>1, <2>2, AsideKeeps
<1>3. QED
  BY <1>1, <1>2

\* A thread that is given the configuration goes on, or its saving is answered with it.
LEMMA GivenFacts ==
    ASSUME ConfigInv, NEW c \in Client, NEW cfg, cfg.values.version \in Nat, Conf!Given(c, cfg),
           clients[c].at \in {"get", "again", "load"}
    PROVE  \E new : /\ clients' = [clients EXCEPT ![c] = new] /\ Going(new) /\ new.cfg = cfg
                    /\ new.wrote = clients[c].wrote
                    /\ new.at = IF clients[c].wrote = 0 THEN "decide" ELSE "saved"
<1>1. Going(clients[c])
  BY GoingFacts DEF ConfigInv
<1> DEFINE stage == IF clients[c].wrote = 0 THEN "decide" ELSE "saved"
           new == Onward(clients[c], stage, cfg)
<1>2. clients' = [clients EXCEPT ![c] = new]
  BY DEF Conf!Given, Onward
<1> HIDE DEF stage
<1>3. /\ new.cfg = cfg /\ new.wrote = clients[c].wrote /\ new.at = stage
      /\ \/ new = [at |-> new.at, op |-> new.op, cfg |-> new.cfg, wrote |-> new.wrote]
         \/ new = [at |-> new.at, op |-> new.op, cfg |-> new.cfg, wrote |-> new.wrote, patch |-> new.patch]
  BY <1>1, OnwardFacts
<1> USE DEF stage
<1>4. Going(new)
  BY <1>1, <1>3 DEF Going
<1>5. QED
  BY <1>2, <1>3, <1>4

LEMMA CachedKeeps ==
    ASSUME ConfigInv, NEW c \in Client, Conf!Cached(c)
    PROVE  ConfigInv'
<1>1. /\ clients[c].at \in {"get", "again"} /\ Conf!Given(c, cached)
      /\ UNCHANGED <<settings, cached, holder>>
  BY DEF Conf!Cached, Conf!Asked
<1>2. PICK new : /\ clients' = [clients EXCEPT ![c] = new] /\ Going(new) /\ new.cfg = cached
                 /\ new.wrote = clients[c].wrote
                 /\ new.at = IF clients[c].wrote = 0 THEN "decide" ELSE "saved"
  BY <1>1, GivenFacts DEF ConfigInv, ConfigTyped
<1>3. Going(clients[c])
  BY <1>1, GoingFacts DEF ConfigInv
<1>4. new.at = "saved" => NotBefore(new.cfg, new.wrote)
  BY <1>1, <1>2, <1>3 DEF ConfigInv, AsNew, Going
<1>5. QED
  BY <1>1, <1>2, <1>4, AsideKeeps

LEMMA LoadKeepsConfig ==
    ASSUME ConfigInv, Conf!Nobody \notin Client, NEW c \in Client, Conf!Load(c)
    PROVE  ConfigInv'
<1>1. PICK v \in {settings, Conf!DEFAULTS} :
        clients' = [clients EXCEPT ![c].at = "load", ![c].cfg = Conf!build(v)]
  BY DEF Conf!Load
<1>2. /\ clients[c].at \in {"get", "again"} /\ holder = Conf!Nobody /\ holder' = c
      /\ UNCHANGED <<settings, cached>>
  BY DEF Conf!Load, Conf!Asked
<1> DEFINE new == Onward(clients[c], "load", Conf!build(v))
<1>3. Going(clients[c])
  BY <1>2, GoingFacts DEF ConfigInv
<1>4. /\ new.at = "load" /\ new.cfg = Conf!build(v) /\ new.wrote = clients[c].wrote
      /\ \/ new = [at |-> new.at, op |-> new.op, cfg |-> new.cfg, wrote |-> new.wrote]
         \/ new = [at |-> new.at, op |-> new.op, cfg |-> new.cfg, wrote |-> new.wrote, patch |-> new.patch]
  BY <1>3, OnwardFacts
<1>5. v.version \in Nat /\ new.cfg.values = v
  BY <1>4, BuildFacts DEF ConfigInv, ConfigTyped
<1>6. Going(new)
  BY <1>3, <1>4, <1>5 DEF Going
<1>7. clients' = [clients EXCEPT ![c] = new]
  BY <1>1 DEF ConfigInv, ConfigTyped, Onward
<1>8. /\ clients'[c] = new /\ \A o \in Client \ {c} : clients'[o] = clients[o]
      /\ clients' = [o \in Client |-> clients'[o]]
  BY <1>7 DEF ConfigInv, ConfigTyped
<1>9. \A o \in Client : clients[o].at # "load"
  BY <1>2 DEF ConfigInv, Locked
<1>10. ConfigTyped' /\ Locked'
  BY <1>2, <1>4, <1>6, <1>8, <1>9 DEF ConfigInv, ConfigTyped, Locked
<1>11. Fresh'
  <2>1. Given(new.cfg, settings')
    BY <1>2, <1>4, <1>5 DEF Given
  <2>2. clients[c].at # "drop"
    BY <1>2
  <2>3. QED
    BY <1>2, <1>4, <1>8, <1>9, <2>1, <2>2 DEF ConfigInv, Fresh, Given
<1>12. ASSUME NEW o \in Client PROVE
         /\ clients'[o].at \in {"drop", "again", "load"} => clients'[o].wrote <= settings'.version
         /\ clients'[o].at \in {"again", "load"} =>
              /\ NotBefore(cached', clients'[o].wrote)
              /\ NotBefore(new.cfg, clients'[o].wrote)
         /\ clients'[o].at = "saved" => NotBefore(clients'[o].cfg, clients'[o].wrote)
  <2>1. CASE o = c
    <3>1. clients[c].wrote <= settings.version /\ NotBefore(cached, clients[c].wrote)
      BY <1>2, <1>3 DEF ConfigInv, ConfigTyped, AsNew, NotBefore, Going
    <3>2. NotBefore(new.cfg, clients[c].wrote)
      BY <1>3, <1>5, <3>1 DEF NotBefore, Going, ConfigInv, ConfigTyped
    <3>3. QED
      BY <1>2, <1>4, <1>8, <2>1, <3>1, <3>2 DEF NotBefore
  <2>2. CASE o # c
    <3>1. clients'[o] = clients[o]
      BY <1>8, <2>2
    <3>2. clients[o].at \in {"again", "load"} => NotBefore(new.cfg, clients[o].wrote)
      BY <1>5 DEF NotBefore, ConfigInv, AsNew
    <3>3. QED
      BY <1>2, <3>1, <3>2 DEF ConfigInv, AsNew, NotBefore
  <2>3. QED
    BY <2>1, <2>2
<1>13. \A o \in Client : clients'[o].at = "load" => clients'[o].cfg = new.cfg
  BY <1>8, <1>9
<1>14. AsNew'
  BY <1>12, <1>13 DEF AsNew
<1>15. QED
  BY <1>10, <1>11, <1>14 DEF ConfigInv

LEMMA KeepKeeps ==
    ASSUME ConfigInv, Conf!Nobody \notin Client, NEW c \in Client, Conf!Keep(c)
    PROVE  ConfigInv'
<1> DEFINE cfg == clients[c].cfg
<1>1. /\ clients[c].at = "load" /\ cached' = cfg /\ holder' = Conf!Nobody /\ UNCHANGED settings
      /\ Conf!Given(c, cfg)
  BY DEF Conf!Keep
<1>2. Going(clients[c]) /\ cfg.values.version \in Nat
  BY <1>1, GoingFacts DEF ConfigInv, Going
<1>3. PICK new : /\ clients' = [clients EXCEPT ![c] = new] /\ Going(new) /\ new.cfg = cfg
                 /\ new.wrote = clients[c].wrote
                 /\ new.at = IF clients[c].wrote = 0 THEN "decide" ELSE "saved"
  BY <1>1, <1>2, GivenFacts
<1>4. /\ clients'[c] = new /\ \A o \in Client \ {c} : clients'[o] = clients[o]
      /\ clients' = [o \in Client |-> clients'[o]]
      /\ new.at \in {"decide", "saved"}
  BY <1>3 DEF ConfigInv, ConfigTyped
<1>5. \A o \in Client : clients'[o].at # "load"
  BY <1>1, <1>4 DEF ConfigInv, Locked
<1>6. ConfigTyped' /\ Locked'
  BY <1>1, <1>2, <1>3, <1>4, <1>5 DEF ConfigInv, ConfigTyped, Locked
<1>7. Fresh'
  BY <1>1, <1>4, <1>5 DEF ConfigInv, Fresh, Given
<1>8. ASSUME NEW o \in Client PROVE
         /\ clients'[o].at \in {"drop", "again"} => clients'[o].wrote <= settings'.version
         /\ clients'[o].at = "again" => NotBefore(cached', clients'[o].wrote)
         /\ clients'[o].at = "saved" => NotBefore(clients'[o].cfg, clients'[o].wrote)
  <2>1. CASE o = c
    <3>1. NotBefore(cfg, clients[c].wrote)
      BY <1>1 DEF ConfigInv, AsNew
    <3>2. clients'[o].wrote = clients[c].wrote /\ clients'[o].cfg = cfg /\ clients'[o].at \in {"decide", "saved"}
      BY <1>3, <1>4, <2>1
    <3>3. QED
      BY <3>1, <3>2
  <2>2. CASE o # c
    <3>1. clients'[o] = clients[o]
      BY <1>4, <2>2
    <3>2. QED
      BY <1>1, <3>1 DEF ConfigInv, AsNew
  <2>3. QED
    BY <2>1, <2>2
<1>9. AsNew'
  BY <1>5, <1>8 DEF AsNew, NotBefore
<1>10. QED
  BY <1>6, <1>7, <1>9 DEF ConfigInv

\* Whoever has its configuration stops, writes, or upserts the roots.
LEMMA DecideKeeps ==
    ASSUME ConfigInv, NEW c \in Client, Conf!Decide(c)
    PROVE  ConfigInv'
<1>1. clients[c].at = "decide" /\ UNCHANGED <<settings, cached, holder>>
  BY DEF Conf!Decide
<1>2. Going(clients[c])
  BY <1>1, GoingFacts DEF ConfigInv
<1>3. PICK new : /\ clients' = [clients EXCEPT ![c] = new]
                 /\ \/ new = Conf!Resting
                    \/ \E p : new = [at |-> "write", op |-> clients[c].op, cfg |-> clients[c].cfg,
                                     wrote |-> 0, patch |-> p]
                    \/ new = [clients[c] EXCEPT !.at = "upsert"]
  <2>1. CASE clients' = [clients EXCEPT ![c].at = "upsert"]
    BY <2>1 DEF ConfigInv, ConfigTyped
  <2>2. CASE \/ Conf!AddRoot(c, clients[c].op, clients[c].cfg)
             \/ Conf!DeleteRoot(c, clients[c].op, clients[c].cfg)
    BY <2>2, Zenon DEF Conf!AddRoot, Conf!DeleteRoot, Conf!Patched
  <2>3. CASE Conf!Complete(c, clients[c].op)
    <3> DEFINE p == [home |-> Conf!resolve_comfyui_dir(clients[c].op.typed), kind |-> "none", folders |-> <<>>]
               new == [at |-> "write", op |-> clients[c].op, cfg |-> clients[c].cfg, wrote |-> 0, patch |-> p]
    <3>1. clients' = [clients EXCEPT ![c] = new]
      BY <2>3 DEF Conf!Complete, ConfigInv, ConfigTyped
    <3>2. QED
      BY <3>1
  <2>4. CASE clients' = [clients EXCEPT ![c] = Conf!Resting]
    BY <2>4
  <2>5. QED
    BY <2>1, <2>2, <2>3, <2>4 DEF Conf!Decide
<1>4. new = Conf!Resting \/ (Going(new) /\ new.at \in {"write", "upsert"})
  <2>1. ASSUME NEW p, new = [at |-> "write", op |-> clients[c].op, cfg |-> clients[c].cfg,
                             wrote |-> 0, patch |-> p]
        PROVE  Going(new) /\ new.at = "write"
    BY <1>2, <2>1 DEF Going
  <2>2. ASSUME new = [clients[c] EXCEPT !.at = "upsert"]
        PROVE  Going(new) /\ new.at = "upsert"
    BY <1>1, <1>2, <2>2 DEF Going
  <2>3. QED
    <3>1. CASE \E p : new = [at |-> "write", op |-> clients[c].op, cfg |-> clients[c].cfg,
                             wrote |-> 0, patch |-> p]
      BY <2>1, <3>1
    <3>2. QED
      BY <1>3, <2>2, <3>1
<1>5. Conf!Resting.at = "idle"
  BY DEF Conf!Resting
<1>6. QED
  BY <1>1, <1>3, <1>4, <1>5, AsideKeeps

\* Once something is saved its writer has still to empty the cache.
LEMMA WriteKeeps ==
    ASSUME ConfigInv, NEW c \in Client, Conf!Write(c)
    PROVE  ConfigInv'
<1> DEFINE new == [at |-> "drop", op |-> clients[c].op, cfg |-> Conf!None, wrote |-> settings.version + 1]
<1>1. /\ clients[c].at = "write" /\ settings'.version = settings.version + 1
      /\ UNCHANGED <<cached, holder>>
  BY DEF Conf!Write
<1>2. clients' = [clients EXCEPT ![c] = new]
  BY DEF Conf!Write, ConfigInv, ConfigTyped
<1>3. /\ clients'[c] = new /\ \A o \in Client \ {c} : clients'[o] = clients[o]
      /\ clients' = [o \in Client |-> clients'[o]]
  BY <1>2 DEF ConfigInv, ConfigTyped
<1>4. Going(new) /\ new.at = "drop" /\ new.wrote = settings'.version /\ settings.version \in Nat
  BY <1>1, BuildFacts DEF Going, ConfigInv, ConfigTyped
<1>5. ConfigTyped' /\ Locked'
  BY <1>1, <1>3, <1>4 DEF ConfigInv, ConfigTyped, Locked
<1>6. Fresh'
  BY <1>3, <1>4 DEF Fresh
<1>7. ASSUME NEW o \in Client PROVE
         /\ clients'[o].at \in {"drop", "again", "load"} => clients'[o].wrote <= settings'.version
         /\ clients'[o].at \in {"again", "load"} => o # c
         /\ clients'[o].at = "saved" => o # c
  <2>1. CASE o = c
    BY <1>3, <1>4, <2>1
  <2>2. CASE o # c
    <3>1. clients'[o] = clients[o]
      BY <1>3, <2>2
    <3>2. clients[o].at # "idle" => clients[o].wrote \in Nat
      BY GoingFacts DEF ConfigInv, Going
    <3>3. QED
      BY <1>1, <1>4, <2>2, <3>1, <3>2 DEF ConfigInv, AsNew
  <2>3. QED
    BY <2>1, <2>2
<1>8. AsNew'
  BY <1>1, <1>3, <1>4, <1>7 DEF ConfigInv, AsNew, NotBefore
<1>9. QED
  BY <1>5, <1>6, <1>8 DEF ConfigInv

\* The cache is emptied while nobody loads.
LEMMA DropKeeps ==
    ASSUME ConfigInv, Conf!Nobody \notin Client, NEW c \in Client, Conf!Drop(c)
    PROVE  ConfigInv'
<1>1. /\ clients[c].at = "drop" /\ holder = Conf!Nobody /\ cached' = Conf!None
      /\ UNCHANGED <<settings, holder>>
  BY DEF Conf!Drop, Conf!MayDrop
<1>2. Going(clients[c])
  BY <1>1, GoingFacts DEF ConfigInv
<1> DEFINE next == [clients[c] EXCEPT !.at = "again"]
<1>3. PICK new : clients' = [clients EXCEPT ![c] = new] /\ (new = Conf!Resting \/ new = next)
  BY DEF Conf!Drop, ConfigInv, ConfigTyped
<1>4. /\ clients'[c] = new /\ \A o \in Client \ {c} : clients'[o] = clients[o]
      /\ clients' = [o \in Client |-> clients'[o]]
  BY <1>3 DEF ConfigInv, ConfigTyped
<1>5. Going(next) /\ next.at = "again" /\ next.wrote = clients[c].wrote
  BY <1>2 DEF Going
<1>6. Conf!Resting.at = "idle"
  BY DEF Conf!Resting
<1>7. \A o \in Client : clients'[o].at # "load"
  BY <1>1, <1>3, <1>4, <1>5, <1>6 DEF ConfigInv, Locked
<1>8. ConfigTyped' /\ Locked'
  BY <1>1, <1>3, <1>4, <1>5, <1>6, <1>7, BuildFacts DEF ConfigInv, ConfigTyped, Locked
<1>9. cached'.values = Conf!DEFAULTS
  BY <1>1, BuildFacts
<1>10. Fresh'
  BY <1>7, <1>9 DEF Fresh, Given
<1>11. ASSUME NEW o \in Client PROVE
         /\ clients'[o].at \in {"drop", "again"} => clients'[o].wrote <= settings'.version
         /\ clients'[o].at = "saved" => NotBefore(clients'[o].cfg, clients'[o].wrote)
  <2>1. CASE o = c
    BY <1>1, <1>3, <1>4, <1>5, <1>6, <2>1 DEF ConfigInv, AsNew
  <2>2. CASE o # c
    <3>1. clients'[o] = clients[o]
      BY <1>4, <2>2
    <3>2. QED
      BY <1>1, <3>1 DEF ConfigInv, AsNew
  <2>3. QED
    BY <2>1, <2>2
<1>12. AsNew'
  BY <1>7, <1>9, <1>11 DEF AsNew, NotBefore
<1>13. QED
  BY <1>8, <1>10, <1>12 DEF ConfigInv

LEMMA UpsertKeeps ==
    ASSUME ConfigInv, NEW c \in Client, Conf!Upsert(c)
    PROVE  ConfigInv'
<1> DEFINE new == [clients[c] EXCEPT !.at = "drop"]
<1>1. /\ clients[c].at = "upsert" /\ UNCHANGED <<settings, cached, holder>>
      /\ clients' = [clients EXCEPT ![c] = new]
  BY DEF Conf!Upsert, ConfigInv, ConfigTyped
<1>2. Going(clients[c])
  BY <1>1, GoingFacts DEF ConfigInv
<1>3. Going(new) /\ new.at = "drop" /\ new.wrote = 0
  BY <1>1, <1>2 DEF Going
<1>4. new.wrote <= settings.version
  BY <1>3 DEF ConfigInv, ConfigTyped
<1>5. QED
  BY <1>1, <1>3, <1>4, AsideKeeps

LEMMA ConfigStep ==
    ASSUME ConfigInv, Conf!Nobody \notin Client, [Conf!Next]_Conf!configVars
    PROVE  ConfigInv'
<1>1. CASE UNCHANGED Conf!configVars
  <2>1. UNCHANGED <<settings, cached, holder, clients>>
    BY <1>1 DEF Conf!configVars
  <2>2. ConfigTyped' /\ Locked'
    BY <2>1 DEF ConfigInv, ConfigTyped, Locked
  <2>3. Fresh' /\ AsNew'
    BY <2>1 DEF ConfigInv, Fresh, AsNew, Given, NotBefore
  <2>4. QED
    BY <2>2, <2>3 DEF ConfigInv
<1>2. QED
  BY <1>1, AskKeepsConfig, CachedKeeps, LoadKeepsConfig, KeepKeeps, DecideKeeps, WriteKeeps, DropKeeps,
     UpsertKeeps DEF Conf!Next

\* Of the children that are looked at, the first with sources is there if any has them.
LEMMA FirstFull ==
    ASSUME NEW S, NEW s \in Seq(S), NEW q \in Conf!Range(s), look[q] = "full"
    PROVE  Conf!FirstWith(s, Conf!looks_like_comfyui) # {}
<1> DEFINE full == {k \in DOMAIN s : look[s[k]] = "full"}
<1>1. full \subseteq Nat /\ full # {} /\ DOMAIN s = 1..Len(s) /\ Len(s) \in Nat
  BY DEF Conf!Range
<1>2. PICK k \in full : \A j \in full : k <= j
  BY <1>1, Least
<1>3. \A j \in 1..(k - 1) : j \in DOMAIN s /\ j \notin full
  BY <1>1, <1>2
<1>4. k \in DOMAIN s /\ look[s[k]] = "full" /\ \A j \in 1..(k - 1) : ~(look[s[j]] = "full")
  BY <1>2, <1>3
<1>5. s[k] \in Conf!FirstWith(s, Conf!looks_like_comfyui)
  BY <1>4 DEF Conf!FirstWith, Conf!looks_like_comfyui
<1>6. QED
  BY <1>5

\* What is found inside a directory is an install or a data folder.
LEMMA InsideFacts ==
    ASSUME NEW d, NEW p \in Conf!Inside(d)
    PROVE  look[p] \in {"full", "data"}
<1>1. \A s : \A x \in Conf!FirstWith(s, Conf!looks_like_comfyui) : look[x] = "full"
  BY DEF Conf!FirstWith, Conf!looks_like_comfyui
<1>2. \A s : \A x \in Conf!FirstWith(s, Conf!looks_like_comfyui_data) : look[x] = "data"
  BY DEF Conf!FirstWith, Conf!looks_like_comfyui_data
<1>3. \/ p \in Conf!FirstWith(HintsOf(d), Conf!looks_like_comfyui)
      \/ p \in Conf!FirstWith(Conf!Probed(d), Conf!looks_like_comfyui)
      \/ p \in Conf!FirstWith(Conf!Probed(d), Conf!looks_like_comfyui_data)
  BY DEF Conf!Inside
<1>4. QED
  BY <1>1, <1>2, <1>3

LEMMA InstallIsFound ==
    ASSUME \A d \in Dir : ChildrenOf(d) \in Seq(Dir), MAX_CHILD_PROBE \in Nat
    PROVE  Conf!InstallFound
<1> SUFFICES ASSUME NEW d \in Dir
    PROVE  LET p == Conf!resolve_comfyui_dir(d)
           IN  /\ Conf!resolve_comfyui_dir(p) = p
               /\ look[d] = "other" /\ (\E q \in Conf!Range(Conf!Probed(d)) : look[q] = "full")
                  => look[p] = "full"
  BY DEF Conf!InstallFound
<1> DEFINE p == Conf!resolve_comfyui_dir(d)
<1>1. p = d \/ p \in Conf!Inside(d)
  BY DEF Conf!resolve_comfyui_dir
<1>2. Conf!resolve_comfyui_dir(p) = p
  <2>1. CASE p = d
    BY <2>1
  <2>2. CASE p \in Conf!Inside(d)
    <3>1. look[p] \in {"full", "data"}
      BY <2>2, InsideFacts
    <3>2. QED
      BY <3>1 DEF Conf!resolve_comfyui_dir, Conf!looks_like_comfyui, Conf!looks_like_comfyui_data
  <2>3. QED
    BY <1>1, <2>1, <2>2
<1>3. ASSUME look[d] = "other", NEW q \in Conf!Range(Conf!Probed(d)), look[q] = "full"
      PROVE  look[p] = "full"
  <2>1. Conf!Probed(d) \in Seq(Dir)
    <3> DEFINE n == IF Len(ChildrenOf(d)) < MAX_CHILD_PROBE THEN Len(ChildrenOf(d)) ELSE MAX_CHILD_PROBE
    <3>1. Conf!Probed(d) = SubSeq(ChildrenOf(d), 1, n) /\ n \in Nat /\ n <= Len(ChildrenOf(d))
      BY DEF Conf!Probed
    <3>2. QED
      BY <3>1
  <2>2. Conf!FirstWith(Conf!Probed(d), Conf!looks_like_comfyui) # {}
    BY <1>3, <2>1, FirstFull
  <2>3. /\ Conf!Inside(d) # {}
        /\ \A x \in Conf!Inside(d) : look[x] = "full"
    <3>1. \A s : \A x \in Conf!FirstWith(s, Conf!looks_like_comfyui) : look[x] = "full"
      BY DEF Conf!FirstWith, Conf!looks_like_comfyui
    <3>2. QED
      BY <2>2, <3>1 DEF Conf!Inside
  <2>4. p \in Conf!Inside(d)
    BY <1>3, <2>3 DEF Conf!resolve_comfyui_dir, Conf!looks_like_comfyui, Conf!looks_like_comfyui_data
  <2>5. QED
    BY <2>3, <2>4
<1>4. QED
  BY <1>2, <1>3

LEMMA ConfigIsCurrent == ConfigInv => Conf!ConfigCurrent
<1> SUFFICES ASSUME ConfigInv PROVE Conf!ConfigCurrent
  OBVIOUS
<1>1. \A c \in Client : clients[c] # Conf!Resting \/ clients[c].at = "idle"
  BY GoingFacts DEF ConfigInv
<1>2. ASSUME \A c \in Client : clients[c] # Conf!Resting => clients[c].at # "drop"
      PROVE  Given(cached, settings)
  <2>1. \A c \in Client : clients[c].at # "drop"
    BY <1>1, <1>2
  <2>2. QED
    BY <2>1 DEF ConfigInv, Fresh
<1>3. ASSUME NEW c \in Client, clients[c].at = "saved"
      PROVE  NotBefore(clients[c].cfg, clients[c].wrote)
  BY <1>3 DEF ConfigInv, AsNew
<1>4. QED
  BY <1>2, <1>3 DEF Conf!ConfigCurrent, Given, NotBefore

-----------------------------------------------------------------------------
\* What is cached is what is stored once nobody saves or loads, a saving is answered with
\* nothing older than itself, and an install behind what was typed is found, for any threads,
\* wishes, directories and tables (config_service.py get_config, set_config,
\* resolve_comfyui_dir).
THEOREM TheConfigurationIsCurrent == Spec => []ConfigSound
<1> DEFINE Inv == "config" \in focus => ConfigInv
<1>1. Init => Inv
  BY ConfigInit DEF Init
<1>2. Inv /\ [Next]_<<focus, services>> => Inv'
  BY ServicesOK, ConfigStep, Apart DEF Conf!Nobody
<1>3. Inv => ConfigSound
  BY ServicesOK, InstallIsFound, ConfigIsCurrent DEF ConfigSound
<1>4. QED
  BY <1>1, <1>2, <1>3, PTL DEF Spec

-----------------------------------------------------------------------------
(* The tool server (ToolServer).  What a call may still do is what it was   *)
(* let through for (Allowed), what calls did is what they were allowed and  *)
(* is accounted for (Accounted), a session of a stdio server is nobody      *)
(* else's (Seated), and the stamps of a session with the calls about to be  *)
(* stamped stay below the rate and the requests side by side (Paced).       *)

Servers == Http \cup Stdio

SessionRow == [ready : BOOLEAN, seen : Nat, stamps : Seq(Nat)]
CallMade == [tool : Called, ids : SUBSET Item, permanent : BOOLEAN, confirm : BOOLEAN]
Free == [stage : {"free"}]
Waiting == [stage : {"next"}, by : Nat]
Handled == [stage : {"count", "run"}, by : Nat, call : CallMade, no : Nat, open : BOOLEAN,
            todo : SUBSET Item, outcome : {"ok", "error"}]
Working(w) == w.stage \in {"count", "run"}

AgentsTyped ==
    /\ session \in Seq(SessionRow) /\ \A id \in 1..Len(session) : session[id].seen <= now
    /\ now \in Nat /\ calls \in Nat /\ policy \in {"open", "closed", "unreadable"}
    /\ handling \in [Servers -> Free \cup Waiting \cup Handled]

Seated ==
    /\ seats \subseteq 1..Len(session) /\ Cardinality(seats) <= Cap
    /\ \A r \in Servers : handling[r].stage # "free" => handling[r].by \in 1..Len(session)
    /\ \A r \in Stdio : handling[r].stage # "free" =>
         /\ handling[r].by \notin seats
         /\ \A q \in Servers \ {r} : handling[q].stage # "free" => handling[q].by # handling[r].by

Named(c) == c.ids \cup (IF c.ids = {} THEN Item ELSE {})

Allowed(w) ==
    /\ session[w.by].ready /\ w.no \in 1..calls
    /\ w.stage = "count" => /\ w.todo = {} /\ (policy # "closed" => w.open)
                            /\ \A e \in effects : e.no # w.no
    /\ w.todo # {} => /\ w.open /\ Agents!Mutating(w.call.tool) /\ w.todo \subseteq Named(w.call)
                      /\ Agents!NeedsConfirm(w.call) => w.call.confirm
    /\ (\E e \in effects : e.no = w.no) => Agents!Mutating(w.call.tool)
    /\ \A x \in audit : x.no # w.no

AllAllowed ==
    /\ \A r \in Servers : Working(handling[r]) => Allowed(handling[r])
    /\ \A r, q \in Servers : Working(handling[r]) /\ Working(handling[q]) /\ r # q =>
         handling[r].no # handling[q].no

Accounted ==
    /\ \A e \in effects :
         /\ e.ready /\ e.open /\ e.item \in e.named /\ (e.erased => e.sure) /\ e.no \in 1..calls
         /\ \/ \E r \in Servers : Working(handling[r]) /\ handling[r].no = e.no
            \/ e.no \in lost
            \/ \E x \in audit : x.no = e.no
    /\ \A x \in audit :
         /\ x.no \in 1..calls /\ (x.outcome = "ok" => x.affected = Agents!Done(x.no))
         /\ \A y \in audit : y.no = x.no => y = x

Counting(id) == {r \in Servers : handling[r].stage = "count" /\ handling[r].by = id}

Paced == \A id \in 1..Len(session) :
    Len(session[id].stamps) + Cardinality(Counting(id)) <= CallRate - 1 + Cardinality(Http)

AgentsInv == AgentsTyped /\ Seated /\ AllAllowed /\ Accounted /\ Paced

AgentsGiven ==
    /\ IsFiniteSet(Http) /\ Http # {} /\ IsFiniteSet(Stdio) /\ Http \cap Stdio = {}
    /\ CallRate \in Nat \ {0} /\ Cap \in Nat \ {0}

-----------------------------------------------------------------------------
LEMMA HandlerFacts ==
    ASSUME AgentsTyped, NEW r \in Servers
    PROVE  /\ handling[r].stage \in {"free", "next", "count", "run"}
           /\ handling[r].stage = "free" => handling[r] \in Free
           /\ handling[r].stage = "next" => handling[r] \in Waiting
           /\ Working(handling[r]) => handling[r] \in Handled
           /\ Working(handling[r]) <=> "no" \in DOMAIN handling[r]
           /\ Working(handling[r]) <=> "open" \in DOMAIN handling[r]
<1>1. handling[r] \in Free \cup Waiting \cup Handled
  BY DEF AgentsTyped
<1>2. CASE handling[r] \in Free
  BY <1>2 DEF Free, Working
<1>3. CASE handling[r] \in Waiting
  BY <1>3 DEF Waiting, Working
<1>4. CASE handling[r] \in Handled
  BY <1>4 DEF Handled, Working
<1>5. QED
  BY <1>1, <1>2, <1>3, <1>4

LEMMA AgentsInit ==
    ASSUME Agents!Init, AgentsGiven
    PROVE  AgentsInv
<1>1. /\ seats = {} /\ session = <<>> /\ policy = "open" /\ calls = 0 /\ now = 0
      /\ handling = [r \in Servers |-> [stage |-> "free"]] /\ effects = {} /\ audit = {}
  BY DEF Agents!Init, Agents!Rest, Servers
<1>2. AgentsTyped
  BY <1>1 DEF AgentsTyped, Free
<1>3. Cardinality(seats) = 0
  BY <1>1, FS_EmptySet
<1>4. Seated
  BY <1>1, <1>3 DEF Seated, AgentsGiven, Servers
<1>5. AllAllowed /\ Accounted /\ Paced
  BY <1>1 DEF AllAllowed, Accounted, Paced, Working
<1>6. QED
  BY <1>2, <1>4, <1>5 DEF AgentsInv

\* No call begins, goes on or ends: what was allowed and done stays.
LEMMA NoCallMoves ==
    ASSUME AgentsInv, UNCHANGED <<policy, effects, audit>>, calls' \in {calls, calls + 1},
           lost \subseteq lost',
           \A r \in Servers : Working(handling'[r]) => handling'[r] = handling[r],
           \A r \in Servers : Working(handling[r]) => handling'[r] = handling[r] \/ handling[r].no \in lost',
           \A id \in 1..Len(session) : session[id].ready => session'[id].ready
    PROVE  AllAllowed' /\ Accounted'
<1>1. ASSUME NEW r \in Servers, Working(handling'[r]) PROVE Allowed(handling[r])'
  <2>1. handling'[r] = handling[r] /\ Working(handling[r]) /\ Allowed(handling[r])
    BY <1>1 DEF AgentsInv, AllAllowed
  <2>2. handling[r].by \in 1..Len(session)
    BY <2>1 DEF AgentsInv, Seated, Working
  <2>3. handling[r].no \in 1..calls'
    BY <2>1 DEF Allowed, AgentsInv, AgentsTyped
  <2>4. QED
    BY <2>1, <2>2, <2>3 DEF Allowed
<1>2. \A r, q \in Servers : Working(handling'[r]) /\ Working(handling'[q]) /\ r # q =>
         handling'[r].no # handling'[q].no
  BY DEF AgentsInv, AllAllowed
<1>3. AllAllowed'
  BY <1>1, <1>2 DEF AllAllowed, Working
<1>4. \A e \in effects :
         \/ \E r \in Servers : Working(handling'[r]) /\ handling'[r].no = e.no
         \/ e.no \in lost'
         \/ \E x \in audit : x.no = e.no
  BY DEF AgentsInv, Accounted
<1>5. \A n \in 1..calls : n \in 1..calls'
  BY DEF AgentsInv, AgentsTyped
<1>6. Accounted'
  BY <1>4, <1>5 DEF AgentsInv, Accounted, Agents!Done, Working
<1>7. QED
  BY <1>3, <1>6

\* Nobody gets a session he did not have.
LEMMA NobodySitsDown ==
    ASSUME AgentsInv, AgentsGiven, seats' \subseteq seats, Len(session) \in Nat, Len(session') = Len(session),
           \A r \in Servers : handling'[r].stage # "free" =>
               handling[r].stage # "free" /\ handling'[r].by = handling[r].by
    PROVE  Seated'
<1>1. IsFiniteSet(seats) /\ Cardinality(seats') <= Cardinality(seats) /\ Cardinality(seats') \in Nat
      /\ Cardinality(seats) \in Nat
  <2>1. IsFiniteSet(1..Len(session))
    BY FS_Interval
  <2>2. IsFiniteSet(seats)
    BY <2>1, FS_Subset DEF AgentsInv, Seated
  <2>3. QED
    BY <2>2, FS_Subset, FS_CardinalityType
<1>2. Cardinality(seats') <= Cap
  BY <1>1 DEF AgentsInv, Seated, AgentsGiven
<1>3. QED
  BY <1>2 DEF AgentsInv, Seated, Servers

LEMMA CountingFinite ==
    ASSUME AgentsGiven, NEW id
    PROVE  IsFiniteSet(Counting(id)) /\ Cardinality(Counting(id)) \in Nat
<1>1. IsFiniteSet(Servers)
  BY FS_Union DEF AgentsGiven, Servers
<1>2. Counting(id) \subseteq Servers
  BY DEF Counting
<1>3. QED
  BY <1>1, <1>2, FS_Subset, FS_CardinalityType

\* A session is nobody's who counts, or that of requests, or of one stdio server.
LEMMA FewCount ==
    ASSUME AgentsGiven, NEW h, NEW id, NEW k, k \subseteq Servers,
           \A r \in k : h[r].stage = "count" /\ h[r].by = id,
           \A r \in Stdio : h[r].stage # "free" =>
               \A q \in Servers \ {r} : h[q].stage # "free" => h[q].by # h[r].by
    PROVE  Cardinality(k) <= Cardinality(Http)
<1>1. Cardinality(Http) \in Nat \ {0}
  BY FS_CardinalityType, FS_EmptySet DEF AgentsGiven
<1>2. CASE k \subseteq Http
  BY <1>2, FS_Subset DEF AgentsGiven
<1>3. CASE ~(k \subseteq Http)
  <2>1. PICK r \in Stdio : r \in k
    BY <1>3 DEF Servers
  <2>2. \A q \in k : q = r
    BY <2>1
  <2>3. k = {r}
    BY <2>1, <2>2
  <2>4. Cardinality({r}) = 1
    BY FS_Singleton
  <2>5. QED
    BY <1>1, <2>3, <2>4
<1>4. QED
  BY <1>2, <1>3

\* Nobody begins to count.
LEMMA NobodyCounts ==
    ASSUME AgentsInv, AgentsGiven, Len(session') = Len(session), Len(session) \in Nat,
           \A id \in 1..Len(session) :
               /\ Len(session'[id].stamps) \in Nat /\ Len(session'[id].stamps) <= Len(session[id].stamps),
           \A r \in Servers : handling'[r].stage = "count" =>
               handling[r].stage = "count" /\ handling'[r].by = handling[r].by
    PROVE  Paced'
<1> SUFFICES ASSUME NEW id \in 1..Len(session)
    PROVE  Len(session'[id].stamps) + Cardinality(Counting(id)') <= CallRate - 1 + Cardinality(Http)
  BY DEF Paced
<1>1. Counting(id)' \subseteq Counting(id)
  BY DEF Counting
<1>2. IsFiniteSet(Counting(id)) /\ Cardinality(Counting(id)) \in Nat
  BY CountingFinite
<1>3. Cardinality(Counting(id)') <= Cardinality(Counting(id)) /\ Cardinality(Counting(id)') \in Nat
  BY <1>1, <1>2, FS_Subset, FS_CardinalityType
<1>4. Len(session[id].stamps) \in Nat /\ CallRate \in Nat /\ Cardinality(Http) \in Nat
  BY FS_CardinalityType DEF AgentsGiven, AgentsInv, AgentsTyped, SessionRow
<1>5. Len(session[id].stamps) + Cardinality(Counting(id)) <= CallRate - 1 + Cardinality(Http)
  BY DEF AgentsInv, Paced
<1>6. QED
  BY <1>2, <1>3, <1>4, <1>5

LEMMA SessionFacts ==
    ASSUME AgentsInv
    PROVE  /\ Len(session) \in Nat /\ DOMAIN session = 1..Len(session)
           /\ \A id \in 1..Len(session) :
                /\ session[id] \in SessionRow /\ session[id].ready \in BOOLEAN
                /\ session[id].seen \in 0..now /\ session[id].stamps \in Seq(Nat)
                /\ Len(session[id].stamps) \in Nat
<1>1. session \in Seq(SessionRow) /\ \A id \in 1..Len(session) : session[id].seen <= now
  BY DEF AgentsInv, AgentsTyped
<1>2. Len(session) \in Nat /\ DOMAIN session = 1..Len(session)
      /\ \A id \in 1..Len(session) : session[id] \in SessionRow
  BY <1>1
<1>3. \A x \in SessionRow : x.ready \in BOOLEAN /\ x.seen \in Nat /\ x.stamps \in Seq(Nat)
                             /\ Len(x.stamps) \in Nat
  BY DEF SessionRow
<1>4. now \in Nat
  BY DEF AgentsInv, AgentsTyped
<1>5. QED
  BY <1>1, <1>2, <1>3, <1>4

LEMMA AmongSessions ==
    ASSUME AgentsInv, NEW t, t \subseteq 1..Len(session)
    PROVE  IsFiniteSet(t) /\ Cardinality(t) \in Nat
<1>1. Len(session) \in Nat
  BY SessionFacts
<1>2. IsFiniteSet(1..Len(session))
  BY <1>1, FS_Interval
<1>3. IsFiniteSet(t)
  BY <1>2, FS_Subset
<1>4. QED
  BY <1>3, FS_CardinalityType

\* Of any sessions in the table, as many as there is room for can be kept that were seen last.
LEMMA TopThere ==
    ASSUME AgentsInv, NEW t, t \subseteq 1..Len(session), NEW n \in 0..Cardinality(t)
    PROVE  \E k \in SUBSET t : /\ Cardinality(k) = n
                               /\ \A x \in k, y \in t \ k : session[x].seen >= session[y].seen
<1> DEFINE Top(m, k) == /\ Cardinality(k) = m
                        /\ \A x \in k, y \in t \ k : session[x].seen >= session[y].seen
           bad == {m \in 0..Cardinality(t) : \A k \in SUBSET t : ~Top(m, k)}
<1>1. IsFiniteSet(t) /\ Cardinality(t) \in Nat
  BY AmongSessions
<1>2. \A x \in t : session[x].seen \in 0..now
  BY SessionFacts
<1>3. now \in Nat
  BY DEF AgentsInv, AgentsTyped
<1>4. ASSUME bad # {} PROVE FALSE
  <2>0. bad \subseteq Nat
    BY <1>1
  <2>1. PICK m \in bad : \A j \in bad : m <= j
    <3> HIDE DEF bad
    <3>1. QED
      BY <2>0, <1>4, Least
  <2>2. CASE m = 0
    <3>1. Top(0, {}) /\ {} \in SUBSET t
      BY FS_EmptySet
    <3>2. QED
      BY <2>1, <2>2, <3>1
  <2>3. CASE m # 0
    <3>1. m - 1 \in 0..Cardinality(t) /\ m - 1 \notin bad /\ m - 1 < Cardinality(t) /\ m \in Nat
      BY <1>1, <2>1, <2>3
    <3>2. PICK k \in SUBSET t : Top(m - 1, k)
      BY <3>1
    <3>3. IsFiniteSet(k) /\ t \ k # {}
      <4>1. IsFiniteSet(k)
        BY <1>1, FS_Subset
      <4>2. ASSUME t \ k = {} PROVE FALSE
        <5>1. k = t
          BY <4>2
        <5>2. QED
          BY <1>1, <3>1, <3>2, <5>1
      <4>3. QED
        BY <4>1, <4>2
    <3> DEFINE ages == {now - session[x].seen : x \in t \ k}
    <3>4. PICK x \in t \ k : \A y \in t \ k : now - session[x].seen <= now - session[y].seen
      <4>0. \A z \in t \ k : now - session[z].seen \in Nat
        BY <1>2, <1>3
      <4>1. ages \subseteq Nat /\ ages # {}
        <5>1. PICK z \in t \ k : TRUE
          BY <3>3
        <5>2. now - session[z].seen \in ages
          BY <5>1
        <5>3. QED
          BY <4>0, <5>2
      <4>2. PICK u \in ages : \A v \in ages : u <= v
        <5> HIDE DEF ages
        <5>1. QED
          BY <4>1, Least
      <4>3. PICK x \in t \ k : u = now - session[x].seen
        BY <4>2
      <4>4. \A y \in t \ k : now - session[y].seen \in ages
        OBVIOUS
      <4>5. QED
        BY <4>2, <4>3, <4>4
    <3>5. \A y \in t \ k : session[x].seen >= session[y].seen
      BY <1>2, <1>3, <3>4
    <3>6. Cardinality(k \cup {x}) = m
      <4>1. x \notin k
        BY <3>4
      <4>2. Cardinality(k \cup {x}) = Cardinality(k) + 1
        BY <3>3, <4>1, FS_AddElement
      <4>3. QED
        BY <3>1, <3>2, <4>2
    <3>7. ASSUME NEW a \in k \cup {x}, NEW b \in t \ (k \cup {x}) PROVE session[a].seen >= session[b].seen
      BY <3>2, <3>5, <3>7
    <3>8. k \cup {x} \in SUBSET t /\ Top(m, k \cup {x})
      BY <3>6, <3>7
    <3>9. QED
      BY <2>1, <3>8
  <2>4. QED
    BY <2>2, <2>3
<1>5. QED
  BY <1>4

LEMMA CountedAlike == \A S : Agents!Cardinality(S) = Cardinality(S)
BY DEF Agents!Cardinality, Cardinality

LEMMA KeptFacts ==
    ASSUME AgentsInv, AgentsGiven, NEW t, t \subseteq 1..Len(session)
    PROVE  /\ Agents!Kept(t) \subseteq t /\ IsFiniteSet(Agents!Kept(t))
           /\ Cardinality(Agents!Kept(t)) \in Nat /\ Cardinality(Agents!Kept(t)) <= Cap - 1
<1>1. IsFiniteSet(t) /\ Cardinality(t) \in Nat /\ Cap - 1 \in Nat
  <2>1. Cap \in Nat \ {0}
    BY DEF AgentsGiven
  <2>2. Cap - 1 \in Nat
    BY <2>1
  <2>3. QED
    BY <2>2, AmongSessions
<1> DEFINE n == IF Cardinality(t) < Cap THEN Cardinality(t) ELSE Cap - 1
<1>2. n \in {Cardinality(t), Cap - 1} /\ n <= Cardinality(t) /\ n <= Cap - 1
  BY <1>1 DEF AgentsGiven
<1>3. n \in 0..Cardinality(t)
  BY <1>1, <1>2
<1> HIDE DEF n
<1>4. \E k \in SUBSET t : /\ Cardinality(k) = n
                          /\ \A x \in k, y \in t \ k : session[x].seen >= session[y].seen
  BY <1>3, TopThere
<1>5. Agents!Kept(t) \in SUBSET t /\ Cardinality(Agents!Kept(t)) = n
  <2>1. Agents!Kept(t) = CHOOSE k \in SUBSET t :
            /\ Cardinality(k) = n
            /\ \A x \in k, y \in t \ k : session[x].seen >= session[y].seen
    BY CountedAlike DEF Agents!Kept, n
  <2>2. QED
    BY <1>4, <2>1
<1>6. QED
  BY <1>1, <1>2, <1>5, FS_Subset, FS_CardinalityType

LEMMA MoreSessions ==
    ASSUME AgentsInv, NEW s \in SessionRow, s.seen = now, s.stamps = <<>>, session' = Append(session, s)
    PROVE  /\ Len(session') = Len(session) + 1 /\ session' \in Seq(SessionRow)
           /\ \A id \in 1..Len(session) : session'[id] = session[id]
           /\ session'[Len(session) + 1] = s
           /\ \A id \in 1..Len(session') : session'[id].seen <= now
           /\ 1..Len(session) \subseteq 1..Len(session')
           /\ Len(session) + 1 \in 1..Len(session') /\ Len(session) + 1 \notin 1..Len(session)
<1>1. session \in Seq(SessionRow) /\ Len(session) \in Nat /\ now \in Nat
  BY DEF AgentsInv, AgentsTyped
<1>2. /\ Len(session') = Len(session) + 1 /\ session' \in Seq(SessionRow)
      /\ \A id \in 1..Len(session) : session'[id] = session[id]
      /\ session'[Len(session) + 1] = s
  BY <1>1
<1>3. \A id \in 1..Len(session') : id \in 1..Len(session) \/ id = Len(session) + 1
  BY <1>1, <1>2
<1>4. \A id \in 1..Len(session') : session'[id].seen <= now
  BY <1>1, <1>2, <1>3 DEF AgentsInv, AgentsTyped
<1>5. QED
  BY <1>1, <1>2, <1>4

LEMMA FewSit ==
    ASSUME AgentsInv, AgentsGiven, NEW id
    PROVE  Cardinality(Counting(id)) <= Cardinality(Http)
<1>1. \A r \in Stdio : handling[r].stage # "free" =>
          \A q \in Servers \ {r} : handling[q].stage # "free" => handling[q].by # handling[r].by
  BY DEF AgentsInv, Seated
<1>2. Counting(id) \subseteq Servers /\ \A r \in Counting(id) : handling[r].stage = "count" /\ handling[r].by = id
  BY DEF Counting
<1>3. QED
  BY <1>1, <1>2, FewCount

\* A session of nobody has no stamps and nobody counts on it.
LEMMA NewPace ==
    ASSUME AgentsInv, AgentsGiven, NEW s \in SessionRow, s.seen = now, s.stamps = <<>>,
           session' = Append(session, s),
           \A r \in Servers : handling'[r].stage = "count" =>
               handling[r].stage = "count" /\ handling'[r].by = handling[r].by
    PROVE  Paced'
<1> SUFFICES ASSUME NEW id \in 1..Len(session')
    PROVE  Len(session'[id].stamps) + Cardinality(Counting(id)') <= CallRate - 1 + Cardinality(Http)
  BY DEF Paced
<1>1. Counting(id)' \subseteq Counting(id)
  BY DEF Counting
<1>2. Cardinality(Counting(id)') <= Cardinality(Counting(id)) /\ Cardinality(Counting(id)') \in Nat
      /\ Cardinality(Counting(id)) \in Nat
  BY <1>1, CountingFinite, FS_Subset, FS_CardinalityType
<1>3. /\ Len(session) \in Nat /\ CallRate \in Nat \ {0} /\ Cardinality(Http) \in Nat
  BY SessionFacts, FS_CardinalityType DEF AgentsGiven
<1>4. CASE id \in 1..Len(session)
  <2>1. session'[id] = session[id] /\ Len(session[id].stamps) \in Nat
    BY <1>4, MoreSessions, SessionFacts
  <2>2. Len(session[id].stamps) + Cardinality(Counting(id)) <= CallRate - 1 + Cardinality(Http)
    BY <1>4 DEF AgentsInv, Paced
  <2>3. QED
    BY <1>2, <1>3, <2>1, <2>2
<1>5. CASE id \notin 1..Len(session)
  <2>1. id = Len(session) + 1
    BY <1>3, <1>5, MoreSessions
  <2>2. Len(session'[id].stamps) = 0
    BY <2>1, MoreSessions
  <2>3. Cardinality(Counting(id)) <= Cardinality(Http)
    BY FewSit
  <2>4. QED
    BY <1>2, <1>3, <2>2, <2>3
<1>6. QED
  BY <1>4, <1>5

LEMMA ArriveKeeps ==
    ASSUME AgentsInv, AgentsGiven, NEW r \in Http, NEW id, NEW greets \in BOOLEAN,
           Agents!Arrive(r, id, greets)
    PROVE  AgentsInv'
<1> DEFINE next(n) == [stage |-> "next", by |-> n]
<1>1. /\ handling[r].stage = "free" /\ r \in Servers
      /\ UNCHANGED <<policy, things, effects, audit, calls, now, events, lost>>
  BY DEF Agents!Arrive, Agents!At, Servers
<1>2. /\ Len(session) \in Nat /\ DOMAIN session = 1..Len(session)
      /\ handling \in [Servers -> Free \cup Waiting \cup Handled]
  BY SessionFacts DEF AgentsInv, AgentsTyped
<1>3. ASSUME NEW n \in Nat, handling' = [handling EXCEPT ![r] = next(n)]
      PROVE  /\ handling' \in [Servers -> Free \cup Waiting \cup Handled]
             /\ handling'[r] = next(n) /\ \A q \in Servers \ {r} : handling'[q] = handling[q]
             /\ \A q \in Servers : Working(handling'[q]) => handling'[q] = handling[q]
             /\ \A q \in Servers : Working(handling[q]) => handling'[q] = handling[q]
             /\ \A q \in Servers : handling'[q].stage = "count" =>
                  handling[q].stage = "count" /\ handling'[q].by = handling[q].by
  <2>1. next(n) \in Waiting
    BY DEF Waiting
  <2>2. handling'[r] = next(n) /\ \A q \in Servers \ {r} : handling'[q] = handling[q]
    BY <1>1, <1>2, <1>3
  <2>3. QED
    BY <1>1, <1>2, <1>3, <2>1, <2>2 DEF Working
<1>4. CASE /\ id \in seats /\ session' = [session EXCEPT ![id].seen = now]
           /\ handling' = [handling EXCEPT ![r] = next(id)] /\ UNCHANGED seats
  <2>1. id \in 1..Len(session) /\ id \in Nat
    BY <1>4 DEF AgentsInv, Seated
  <2> DEFINE s == [session[id] EXCEPT !.seen = now]
  <2>2. now \in Nat /\ session[id] \in SessionRow
    BY <2>1, SessionFacts DEF AgentsInv, AgentsTyped
  <2>3. s \in SessionRow /\ s.seen = now /\ s.ready = session[id].ready /\ s.stamps = session[id].stamps
    BY <2>2 DEF SessionRow
  <2>4. session' = [session EXCEPT ![id] = s]
    BY <1>4
  <2>5. /\ session' \in Seq(SessionRow) /\ Len(session') = Len(session)
        /\ session'[id] = s /\ \A x \in 1..Len(session) \ {id} : session'[x] = session[x]
    BY <2>1, <2>3, <2>4 DEF AgentsInv, AgentsTyped
  <2>6. AgentsTyped'
    <3>1. handling' \in [Servers -> Free \cup Waiting \cup Handled]
      BY <1>3, <1>4, <2>1
    <3>2. \A x \in 1..Len(session') : session'[x].seen <= now
      <4>1. now \in Nat /\ \A x \in 1..Len(session) : session[x].seen <= now
        BY DEF AgentsInv, AgentsTyped
      <4>2. session'[id].seen <= now
        BY <4>1, <2>3, <2>5
      <4>3. QED
        BY <2>5, <4>1, <4>2
    <3>3. QED
      BY <1>1, <2>5, <3>1, <3>2 DEF AgentsInv, AgentsTyped
  <2>7. \A x \in 1..Len(session) : session'[x].ready = session[x].ready /\ session'[x].stamps = session[x].stamps
    BY <2>3, <2>5
  <2>8. AllAllowed' /\ Accounted'
    BY <1>1, <1>3, <1>4, <2>1, <2>7, NoCallMoves
  <2>9. Paced'
    BY <1>2, <1>3, <1>4, <2>1, <2>5, <2>7, NobodyCounts, SessionFacts
  <2>10. Seated'
    <3>1. handling'[r].by = id /\ r \notin Stdio
      <4>1. handling'[r] = next(id)
        BY <1>3, <1>4, <2>1
      <4>2. r \notin Stdio
        BY DEF AgentsGiven
      <4>3. QED
        BY <4>1, <4>2
    <3>2. \A q \in Servers \ {r} : handling'[q] = handling[q]
      BY <1>3, <1>4, <2>1
    <3>3. QED
      BY <1>1, <1>4, <2>1, <2>5, <3>1, <3>2 DEF AgentsInv, Seated, Servers
  <2>11. QED
    BY <2>6, <2>8, <2>9, <2>10 DEF AgentsInv
<1>5. CASE /\ session' = Append(session, Agents!Fresh)
           /\ seats' = Agents!Kept(Agents!Sweep(seats)) \cup {Len(session) + 1}
           /\ handling' = [handling EXCEPT ![r] = next(Len(session) + 1)]
  <2> DEFINE new == Len(session) + 1
             stay == Agents!Kept(Agents!Sweep(seats))
  <2>1. Agents!Fresh \in SessionRow /\ Agents!Fresh.seen = now /\ Agents!Fresh.stamps = <<>>
    BY DEF Agents!Fresh, SessionRow, AgentsInv, AgentsTyped
  <2>2. /\ Len(session') = new /\ session' \in Seq(SessionRow) /\ new \in Nat
        /\ \A x \in 1..Len(session) : session'[x] = session[x]
        /\ \A x \in 1..Len(session') : session'[x].seen <= now
        /\ 1..Len(session) \subseteq 1..Len(session') /\ new \in 1..Len(session') /\ new \notin 1..Len(session)
    BY <1>2, <1>5, <2>1, MoreSessions
  <2>3. AgentsTyped'
    BY <1>1, <1>3, <1>5, <2>2 DEF AgentsInv, AgentsTyped
  <2>4. AllAllowed' /\ Accounted'
    BY <1>1, <1>3, <1>5, <2>2, NoCallMoves
  <2>5. Paced'
    BY <1>3, <1>5, <2>1, <2>2, NewPace
  <2>6. Agents!Sweep(seats) \subseteq seats /\ seats \subseteq 1..Len(session)
    BY DEF Agents!Sweep, AgentsInv, Seated
  <2>7. /\ stay \subseteq seats /\ IsFiniteSet(stay)
        /\ Cardinality(stay) \in Nat /\ Cardinality(stay) <= Cap - 1
    BY <2>6, KeptFacts
  <2>8. seats' \subseteq 1..Len(session') /\ Cardinality(seats') <= Cap
    <3>1. new \notin stay
      BY <2>2, <2>6, <2>7
    <3>2. Cardinality(stay \cup {new}) = Cardinality(stay) + 1
      BY <2>7, <3>1, FS_AddElement
    <3>3. QED
      <4>1. Cap \in Nat
        BY DEF AgentsGiven
      <4>2. Cardinality(stay \cup {new}) <= Cap
        BY <4>1, <2>7, <3>2
      <4>3. seats' = stay \cup {new}
        BY <1>5
      <4>4. stay \cup {new} \subseteq 1..Len(session')
        BY <2>2, <2>6, <2>7
      <4> HIDE DEF stay, new
      <4>5. QED
        BY <4>2, <4>3, <4>4
  <2>9. Seated'
    <3>1. handling'[r].by = new /\ r \notin Stdio
      <4>1. handling'[r] = next(new)
        BY <1>3, <1>5, <2>2
      <4>2. r \notin Stdio
        BY DEF AgentsGiven
      <4>3. QED
        BY <4>1, <4>2
    <3>2. \A q \in Servers \ {r} : handling'[q] = handling[q]
      BY <1>3, <1>5, <2>2
    <3>3. \A q \in Servers \ {r} : handling[q].stage # "free" => handling[q].by \in 1..Len(session)
      BY DEF AgentsInv, Seated
    <3>4. ASSUME NEW q \in Stdio, handling'[q].stage # "free"
          PROVE  /\ handling'[q].by \notin seats'
                 /\ \A p \in Servers \ {q} : handling'[p].stage # "free" => handling'[p].by # handling'[q].by
      <4>1. q \in Servers \ {r} /\ handling'[q] = handling[q] /\ handling[q].by \notin seats
        BY <3>1, <3>2, <3>4 DEF AgentsInv, Seated, Servers
      <4>2. handling[q].by # new
        BY <2>2, <3>3, <3>4, <4>1
      <4>3. QED
        BY <1>1, <1>5, <2>7, <3>1, <3>2, <3>4, <4>1, <4>2 DEF AgentsInv, Seated
    <3>5. QED
      BY <2>2, <2>8, <3>1, <3>2, <3>3, <3>4 DEF Seated
  <2>10. QED
    BY <2>3, <2>4, <2>5, <2>9 DEF AgentsInv
<1>6. CASE seats' = seats \ {id} /\ UNCHANGED <<session, handling>>
  <2>1. AgentsTyped'
    BY <1>1, <1>6 DEF AgentsInv, AgentsTyped
  <2>2. AllAllowed' /\ Accounted'
    BY <1>1, <1>6, NoCallMoves
  <2>3. Seated' /\ Paced'
    BY <1>2, <1>6, NobodySitsDown, NobodyCounts, SessionFacts
  <2>4. QED
    BY <2>1, <2>2, <2>3 DEF AgentsInv
<1>7. QED
  BY <1>4, <1>5, <1>6 DEF Agents!Arrive


LEMMA TerminateKeeps ==
    ASSUME AgentsInv, AgentsGiven, NEW id, Agents!Terminate(id)
    PROVE  AgentsInv'
<1>1. seats' \subseteq seats
      /\ UNCHANGED <<session, policy, things, handling, effects, audit, calls, now, lost>>
  BY DEF Agents!Terminate
<1>2. AgentsTyped'
  BY <1>1 DEF AgentsInv, AgentsTyped
<1>3. AllAllowed' /\ Accounted'
  BY <1>1, NoCallMoves
<1>4. Seated' /\ Paced'
  BY <1>1, NobodySitsDown, NobodyCounts, SessionFacts
<1>5. QED
  BY <1>2, <1>3, <1>4 DEF AgentsInv

LEMMA TickKeeps ==
    ASSUME AgentsInv, AgentsGiven, Agents!Tick
    PROVE  AgentsInv'
<1>1. now' = now + 1
      /\ UNCHANGED <<seats, session, policy, things, handling, effects, audit, calls, lost>>
  BY DEF Agents!Tick
<1>2. AgentsTyped'
  <2>1. \A id \in 1..Len(session) : session[id].seen \in Nat /\ session[id].seen <= now
    BY SessionFacts DEF AgentsInv, AgentsTyped
  <2>2. QED
    BY <1>1, <2>1 DEF AgentsInv, AgentsTyped
<1>3. AllAllowed' /\ Accounted'
  BY <1>1, NoCallMoves
<1>4. Seated' /\ Paced'
  BY <1>1, NobodySitsDown, NobodyCounts, SessionFacts
<1>5. QED
  BY <1>2, <1>3, <1>4 DEF AgentsInv

LEMMA RestartKeeps ==
    ASSUME AgentsInv, AgentsGiven, NEW rs \in {Http, Stdio}, Agents!Restart(rs)
    PROVE  AgentsInv'
<1>1. /\ handling \in [Servers -> Free \cup Waiting \cup Handled] /\ DOMAIN handling = Servers
      /\ rs \subseteq Servers
  BY DEF AgentsInv, AgentsTyped, Servers
<1>2. /\ handling' = [q \in Servers |-> IF q \in rs THEN [stage |-> "free"] ELSE handling[q]]
      /\ seats' \subseteq seats
      /\ lost' = lost \cup {handling[q].no : q \in {p \in rs : "no" \in DOMAIN handling[p]}}
      /\ UNCHANGED <<session, policy, things, effects, audit, calls, now>>
  BY <1>1 DEF Agents!Restart, Agents!Rest
<1>3. AgentsTyped'
  <2>1. [stage |-> "free"] \in Free
    BY DEF Free
  <2>2. handling' \in [Servers -> Free \cup Waiting \cup Handled]
    BY <1>1, <1>2, <2>1
  <2>3. QED
    BY <1>2, <2>2 DEF AgentsInv, AgentsTyped
<1>4. AllAllowed' /\ Accounted'
  <2>1. \A q \in Servers : Working(handling'[q]) => handling'[q] = handling[q]
    BY <1>2 DEF Working
  <2>2. ASSUME NEW q \in Servers, Working(handling[q])
        PROVE  handling'[q] = handling[q] \/ handling[q].no \in lost'
    <3>1. "no" \in DOMAIN handling[q]
      BY <2>2, HandlerFacts DEF AgentsInv
    <3>2. QED
      BY <1>2, <3>1
  <2>3. QED
    BY <1>2, <2>1, <2>2, NoCallMoves
<1>5. Seated' /\ Paced'
  <2>1. \A q \in Servers : handling'[q].stage # "free" => handling'[q] = handling[q]
    BY <1>2
  <2>2. QED
    BY <1>2, <2>1, NobodySitsDown, NobodyCounts, SessionFacts
<1>6. QED
  BY <1>3, <1>4, <1>5 DEF AgentsInv

LEMMA RespondKeeps ==
    ASSUME AgentsInv, AgentsGiven, NEW r \in Servers, Agents!Respond(r)
    PROVE  AgentsInv'
<1>1. /\ handling \in [Servers -> Free \cup Waiting \cup Handled]
      /\ handling' = [handling EXCEPT ![r] = [stage |-> "free"]] /\ handling[r].stage = "next"
      /\ UNCHANGED <<seats, session, policy, things, effects, audit, calls, now, events, lost>>
  BY DEF AgentsInv, AgentsTyped, Agents!Respond, Agents!Rest, Agents!At
<1>2. handling'[r] = [stage |-> "free"] /\ \A q \in Servers \ {r} : handling'[q] = handling[q]
  BY <1>1
<1>3. AgentsTyped'
  <2>1. [stage |-> "free"] \in Free
    BY DEF Free
  <2>2. handling' \in [Servers -> Free \cup Waiting \cup Handled]
    BY <1>1, <2>1
  <2>3. QED
    BY <1>1, <2>2 DEF AgentsInv, AgentsTyped
<1>4. AllAllowed' /\ Accounted'
  <2>1. \A q \in Servers : Working(handling'[q]) => handling'[q] = handling[q]
    BY <1>2 DEF Working
  <2>2. \A q \in Servers : Working(handling[q]) => handling'[q] = handling[q]
    BY <1>1, <1>2 DEF Working
  <2>3. QED
    BY <1>1, <2>1, <2>2, NoCallMoves
<1>5. Seated' /\ Paced'
  <2>1. \A q \in Servers : handling'[q].stage # "free" => handling'[q] = handling[q]
    BY <1>2
  <2>2. QED
    BY <1>1, <2>1, NobodySitsDown, NobodyCounts, SessionFacts
<1>6. QED
  BY <1>3, <1>4, <1>5 DEF AgentsInv

LEMMA GreetedKeeps ==
    ASSUME AgentsInv, AgentsGiven, NEW r \in Servers, Agents!Greeted(r)
    PROVE  AgentsInv'
<1> DEFINE id == handling[r].by
           s == [session[id] EXCEPT !.ready = TRUE]
<1>1. /\ handling[r].stage = "next" /\ session' = [session EXCEPT ![id] = s]
      /\ UNCHANGED <<seats, policy, things, handling, effects, audit, calls, now, events, lost>>
  BY DEF Agents!Greeted, Agents!By, Agents!At
<1>2. id \in 1..Len(session) /\ session[id] \in SessionRow
  BY <1>1, SessionFacts DEF AgentsInv, Seated
<1>3. s \in SessionRow /\ s.ready = TRUE /\ s.seen = session[id].seen /\ s.stamps = session[id].stamps
  BY <1>2 DEF SessionRow
<1>4. /\ session' \in Seq(SessionRow) /\ Len(session') = Len(session) /\ session'[id] = s
      /\ \A x \in 1..Len(session) \ {id} : session'[x] = session[x]
  <2>1. session \in Seq(SessionRow)
    BY DEF AgentsInv, AgentsTyped
  <2> HIDE DEF s, id
  <2>2. QED
    BY <1>1, <1>2, <1>3, <2>1
<1> HIDE DEF s, id
<1>5. \A x \in 1..Len(session) : /\ session'[x].stamps = session[x].stamps
                                 /\ session'[x].seen = session[x].seen
                                 /\ session[x].ready => session'[x].ready
  BY <1>3, <1>4
<1>6. AgentsTyped'
  BY <1>1, <1>4, <1>5 DEF AgentsInv, AgentsTyped
<1>7. AllAllowed' /\ Accounted'
  BY <1>1, <1>5, NoCallMoves
<1>8. Seated' /\ Paced'
  BY <1>1, <1>4, <1>5, NobodySitsDown, NobodyCounts, SessionFacts
<1>9. QED
  BY <1>6, <1>7, <1>8 DEF AgentsInv

LEMMA ServeKeeps ==
    ASSUME AgentsInv, AgentsGiven, NEW r \in Stdio, Agents!Serve(r)
    PROVE  AgentsInv'
<1> DEFINE new == Len(session) + 1
<1>1. /\ handling[r].stage = "free" /\ r \in Servers /\ session' = Append(session, Agents!Fresh)
      /\ handling' = [handling EXCEPT ![r] = [stage |-> "next", by |-> new]]
      /\ UNCHANGED <<seats, policy, things, effects, audit, calls, now, events, lost>>
      /\ handling \in [Servers -> Free \cup Waiting \cup Handled]
  BY DEF Agents!Serve, Agents!At, Servers, AgentsInv, AgentsTyped
<1>2. Agents!Fresh \in SessionRow /\ Agents!Fresh.seen = now /\ Agents!Fresh.stamps = <<>>
  BY DEF Agents!Fresh, SessionRow, AgentsInv, AgentsTyped
<1>3. /\ Len(session') = new /\ session' \in Seq(SessionRow) /\ new \in Nat
      /\ \A x \in 1..Len(session) : session'[x] = session[x]
      /\ \A x \in 1..Len(session') : session'[x].seen <= now
      /\ 1..Len(session) \subseteq 1..Len(session') /\ new \in 1..Len(session') /\ new \notin 1..Len(session)
  BY <1>1, <1>2, MoreSessions, SessionFacts
<1>4. /\ handling'[r] = [stage |-> "next", by |-> new] /\ \A q \in Servers \ {r} : handling'[q] = handling[q]
      /\ handling'[r].stage = "next" /\ handling'[r].by = new
  BY <1>1
<1>5. AgentsTyped'
  <2>1. [stage |-> "next", by |-> new] \in Waiting
    BY <1>3 DEF Waiting
  <2>2. handling' \in [Servers -> Free \cup Waiting \cup Handled]
    BY <1>1, <2>1
  <2>3. QED
    BY <1>1, <1>3, <2>2 DEF AgentsInv, AgentsTyped
<1>6. AllAllowed' /\ Accounted'
  <2>1. \A q \in Servers : Working(handling'[q]) => handling'[q] = handling[q]
    BY <1>4 DEF Working
  <2>2. \A q \in Servers : Working(handling[q]) => handling'[q] = handling[q]
    BY <1>1, <1>4 DEF Working
  <2>3. QED
    BY <1>1, <1>3, <2>1, <2>2, NoCallMoves
<1>7. Paced'
  <2>1. \A q \in Servers : handling'[q].stage = "count" =>
            handling[q].stage = "count" /\ handling'[q].by = handling[q].by
    BY <1>4
  <2>2. QED
    BY <1>1, <1>2, <2>1, NewPace
<1>8. Seated'
  <2>1. seats \subseteq 1..Len(session) /\ Cardinality(seats) <= Cap
    BY DEF AgentsInv, Seated
  <2>2. \A q \in Servers \ {r} : handling[q].stage # "free" => handling[q].by \in 1..Len(session)
    BY DEF AgentsInv, Seated
  <2>3. ASSUME NEW q \in Stdio, handling'[q].stage # "free"
        PROVE  /\ handling'[q].by \notin seats
               /\ \A p \in Servers \ {q} : handling'[p].stage # "free" => handling'[p].by # handling'[q].by
    <3>1. CASE q = r
      BY <1>3, <1>4, <2>1, <2>2, <3>1
    <3>2. CASE q # r
      <4>1. q \in Servers \ {r} /\ handling'[q] = handling[q]
        BY <1>4, <3>2 DEF Servers
      <4>2. handling[q].by # new
        BY <1>3, <2>2, <2>3, <4>1
      <4>3. QED
        BY <1>4, <2>3, <4>1, <4>2 DEF AgentsInv, Seated
    <3>3. QED
      BY <3>1, <3>2
  <2>4. QED
    BY <1>1, <1>3, <1>4, <2>1, <2>2, <2>3 DEF Seated
<1>9. QED
  BY <1>5, <1>6, <1>7, <1>8 DEF AgentsInv

\* The stamps that are recent enough are stamps, and no more than there were.
LEMMA RecentFacts ==
    ASSUME AgentsInv, NEW id \in 1..Len(session)
    PROVE  /\ Agents!Recent(id) \in Seq(Nat) /\ Len(Agents!Recent(id)) \in Nat
           /\ Len(Agents!Recent(id)) <= Len(session[id].stamps)
<1> DEFINE s == session[id].stamps
           old == {i \in DOMAIN s : \A j \in 1..i : now - s[j] > Window}
<1>1. s \in Seq(Nat) /\ Len(s) \in Nat /\ DOMAIN s = 1..Len(s)
  BY SessionFacts
<1>2. IsFiniteSet(1..Len(s))
  <2> HIDE DEF s
  <2>1. QED
    BY <1>1, FS_Interval
<1>3. old \subseteq 1..Len(s)
  BY <1>1
<1>4. Cardinality(old) \in Nat
  <2> HIDE DEF old
  <2>1. IsFiniteSet(old)
    BY <1>2, <1>3, FS_Subset
  <2>2. QED
    BY <2>1, FS_CardinalityType
<1>5. Agents!Recent(id) = SubSeq(s, Cardinality(old) + 1, Len(s))
  BY CountedAlike DEF Agents!Recent
<1> HIDE DEF s, old
<1>6. SubSeq(s, Cardinality(old) + 1, Len(s)) \in Seq(Nat)
  BY <1>1, <1>4
<1>7. Len(SubSeq(s, Cardinality(old) + 1, Len(s))) <= Len(s)
  BY <1>1, <1>4
<1>8. QED
  BY <1>5, <1>6, <1>7 DEF s

\* One session gets other stamps.
LEMMA Stamped ==
    ASSUME AgentsInv, NEW id \in 1..Len(session), NEW u \in Seq(Nat),
           session' = [session EXCEPT ![id].stamps = u], now' = now
    PROVE  /\ session' \in Seq(SessionRow) /\ Len(session') = Len(session)
           /\ session'[id].stamps = u
           /\ \A x \in 1..Len(session) \ {id} : session'[x] = session[x]
           /\ \A x \in 1..Len(session) : /\ session'[x].ready = session[x].ready
                                         /\ session'[x].seen = session[x].seen
<1> DEFINE s == [session[id] EXCEPT !.stamps = u]
<1>1. session[id] \in SessionRow
  BY SessionFacts
<1>2. s \in SessionRow /\ s.ready = session[id].ready /\ s.seen = session[id].seen /\ s.stamps = u
  BY <1>1 DEF SessionRow
<1>3. session' = [session EXCEPT ![id] = s]
  OBVIOUS
<1>4. session \in Seq(SessionRow)
  BY DEF AgentsInv, AgentsTyped
<1> HIDE DEF s
<1>5. /\ session' \in Seq(SessionRow) /\ Len(session') = Len(session) /\ session'[id] = s
      /\ \A x \in 1..Len(session) \ {id} : session'[x] = session[x]
  BY <1>2, <1>3, <1>4
<1>6. QED
  BY <1>2, <1>5

LEMMA AdmitKeeps ==
    ASSUME AgentsInv, AgentsGiven, NEW r \in Servers, NEW c \in Agents!Call, Agents!Admit(r, c)
    PROVE  AgentsInv'
<1> DEFINE id == handling[r].by
           u == Agents!Recent(id)
           w == [stage |-> "count", by |-> id, call |-> c, no |-> calls + 1,
                 open |-> policy # "closed", todo |-> {}, outcome |-> "ok"]
<1>1. /\ handling[r].stage = "next" /\ session[id].ready
      /\ calls' = calls + 1 /\ session' = [session EXCEPT ![id].stamps = u]
      /\ handling' = (IF Len(u) >= CallRate THEN handling ELSE [handling EXCEPT ![r] = w])
      /\ UNCHANGED <<seats, policy, things, effects, audit, now, events, lost>>
  BY DEF Agents!Admit, Agents!By, Agents!At
<1>2. id \in 1..Len(session) /\ id \in Nat /\ Len(session) \in Nat
  BY <1>1, SessionFacts DEF AgentsInv, Seated
<1>3. u \in Seq(Nat) /\ Len(u) \in Nat /\ Len(u) <= Len(session[id].stamps)
  BY <1>2, RecentFacts
<1>4. /\ calls \in Nat /\ now \in Nat /\ policy \in {"open", "closed", "unreadable"}
      /\ handling \in [Servers -> Free \cup Waiting \cup Handled]
      /\ \A x \in 1..Len(session) : session[x].seen <= now
  BY DEF AgentsInv, AgentsTyped
<1> HIDE DEF u
<1>5. /\ session' \in Seq(SessionRow) /\ Len(session') = Len(session) /\ session'[id].stamps = u
      /\ \A x \in 1..Len(session) \ {id} : session'[x] = session[x]
      /\ \A x \in 1..Len(session) : session'[x].ready = session[x].ready /\ session'[x].seen = session[x].seen
  BY <1>1, <1>2, <1>3, Stamped
<1>6. \A x \in 1..Len(session) : /\ Len(session'[x].stamps) \in Nat
                                 /\ Len(session'[x].stamps) <= Len(session[x].stamps)
  BY <1>3, <1>5, SessionFacts
<1>7. CASE Len(u) >= CallRate
  <2>1. handling' = handling
    BY <1>1, <1>7
  <2>2. AgentsTyped'
    BY <1>1, <1>4, <1>5, <2>1 DEF AgentsTyped
  <2>3. AllAllowed' /\ Accounted'
    BY <1>1, <1>5, <2>1, NoCallMoves
  <2>4. Seated' /\ Paced'
    BY <1>1, <1>2, <1>5, <1>6, <2>1, NobodySitsDown, NobodyCounts
  <2>5. QED
    BY <2>2, <2>3, <2>4 DEF AgentsInv
<1>8. CASE ~(Len(u) >= CallRate)
  <2>1. /\ handling' = [handling EXCEPT ![r] = w]
        /\ handling'[r] = w /\ \A q \in Servers \ {r} : handling'[q] = handling[q]
    BY <1>1, <1>4, <1>8
  <2>2. /\ w.stage = "count" /\ w.by = id /\ w.call = c /\ w.no = calls + 1
        /\ w.open = (policy # "closed") /\ w.todo = {} /\ w.outcome = "ok"
    OBVIOUS
  <2>3. w \in Handled
    <3>1. c \in CallMade
      BY DEF Agents!Call, CallMade
    <3>2. QED
      BY <1>2, <1>4, <3>1 DEF Handled
  <2>4. AgentsTyped'
    <3>1. handling' \in [Servers -> Free \cup Waiting \cup Handled]
      BY <1>4, <2>1, <2>3
    <3>2. QED
      BY <1>1, <1>4, <1>5, <3>1 DEF AgentsTyped
  <2> HIDE DEF w
  <2>5. Seated'
    <3>1. \A q \in Servers : handling'[q].stage # "free" =>
             handling[q].stage # "free" /\ handling'[q].by = handling[q].by
      BY <1>1, <2>1, <2>2
    <3>2. QED
      BY <1>1, <1>2, <1>5, <3>1, NobodySitsDown
  <2>6. AllAllowed'
    <3>1. Allowed(handling[r])'
      <4>1. w.no \in 1..calls' /\ w.no \notin 1..calls
        BY <1>1, <1>4, <2>2
      <4>2. (\A e \in effects : e.no # w.no) /\ \A x \in audit : x.no # w.no
        BY <4>1 DEF AgentsInv, Accounted
      <4>3. session'[w.by].ready
        BY <1>1, <1>2, <1>5, <2>2
      <4>4. QED
        BY <1>1, <2>1, <2>2, <4>1, <4>2, <4>3 DEF Allowed
    <3>2. ASSUME NEW q \in Servers \ {r}, Working(handling'[q]) PROVE Allowed(handling[q])' /\ handling[q].no \in 1..calls
      <4>1. handling'[q] = handling[q] /\ Working(handling[q]) /\ Allowed(handling[q])
        BY <2>1, <3>2 DEF AgentsInv, AllAllowed
      <4>2. handling[q].by \in 1..Len(session)
        BY <4>1 DEF AgentsInv, Seated, Working
      <4>3. handling[q].no \in 1..calls /\ handling[q].no \in 1..calls'
        BY <1>1, <1>4, <4>1 DEF Allowed
      <4>4. QED
        BY <1>1, <1>5, <4>1, <4>2, <4>3 DEF Allowed
    <3>3. ASSUME NEW q \in Servers, Working(handling'[q]) PROVE Allowed(handling[q])'
      BY <2>1, <3>1, <3>2, <3>3
    <3>4. ASSUME NEW q \in Servers, NEW p \in Servers, Working(handling'[q]), Working(handling'[p]), q # p
          PROVE  handling'[q].no # handling'[p].no
      <4>1. calls + 1 \notin 1..calls
        BY <1>4
      <4>2. CASE q # r /\ p # r
        BY <2>1, <3>4, <4>2 DEF AgentsInv, AllAllowed
      <4>3. CASE q = r \/ p = r
        BY <2>1, <2>2, <3>2, <3>4, <4>1, <4>3
      <4>4. QED
        BY <4>2, <4>3
    <3>5. QED
      BY <3>3, <3>4 DEF AllAllowed, Working
  <2>7. Accounted'
    <3>1. \A q \in Servers : Working(handling[q]) => handling'[q] = handling[q]
      BY <1>1, <2>1 DEF Working
    <3>2. \A n \in 1..calls : n \in 1..calls'
      BY <1>1, <1>4
    <3>3. \A e \in effects :
             \/ \E q \in Servers : Working(handling'[q]) /\ handling'[q].no = e.no
             \/ e.no \in lost
             \/ \E x \in audit : x.no = e.no
      BY <3>1 DEF AgentsInv, Accounted
    <3>4. QED
      BY <1>1, <3>2, <3>3 DEF AgentsInv, Accounted, Agents!Done, Working
  <2>8. Paced'
    <3>1. ASSUME NEW x \in 1..Len(session')
          PROVE  Len(session'[x].stamps) + Cardinality(Counting(x)') <= CallRate - 1 + Cardinality(Http)
      <4>1. CallRate \in Nat \ {0} /\ Cardinality(Http) \in Nat
        BY FS_CardinalityType DEF AgentsGiven
      <4>2. CASE x = id
        <5>1. Cardinality(Counting(x)') <= Cardinality(Http)
          <6>1. \A p \in Stdio : handling'[p].stage # "free" =>
               \A q \in Servers \ {p} : handling'[q].stage # "free" => handling'[q].by # handling'[p].by
            BY <2>5 DEF Seated, Servers
          <6>2. Counting(x)' \subseteq Servers
                /\ \A q \in Counting(x)' : handling'[q].stage = "count" /\ handling'[q].by = x
            BY DEF Counting, Servers
          <6>3. QED
            BY <6>1, <6>2, FewCount
        <5>2. Cardinality(Counting(x)') \in Nat
          <6>1. Counting(x)' \subseteq Servers /\ IsFiniteSet(Servers)
            BY FS_Union DEF Counting, AgentsGiven, Servers
          <6>2. QED
            BY <6>1, FS_Subset, FS_CardinalityType
        <5>3. Len(session'[x].stamps) \in Nat /\ Len(session'[x].stamps) <= CallRate - 1
          BY <1>3, <1>5, <1>8, <4>1, <4>2
        <5>4. QED
          BY <4>1, <5>1, <5>2, <5>3
      <4>3. CASE x # id
        <5>1. Counting(x)' = Counting(x)
          BY <1>1, <2>1, <2>2, <4>3 DEF Counting, Servers
        <5>2. x \in 1..Len(session) /\ session'[x] = session[x]
          BY <1>5, <3>1, <4>3
        <5>3. QED
          BY <5>1, <5>2 DEF AgentsInv, Paced
      <4>4. QED
        BY <4>2, <4>3
    <3>2. QED
      BY <3>1 DEF Paced
  <2>9. QED
    BY <2>4, <2>5, <2>6, <2>7, <2>8 DEF AgentsInv
<1>9. QED
  BY <1>7, <1>8

\* What a handler goes through is what it was asked for, and undoes nothing unasked.
LEMMA AimFacts ==
    ASSUME NEW c \in CallMade, Agents!Aim(c) # {}
    PROVE  Agents!Mutating(c.tool) /\ Agents!Aim(c) \subseteq Named(c) /\ Agents!Aim(c) \subseteq Item
<1>1. c.ids \subseteq Item
  BY DEF CallMade
<1>2. ASSUME c.tool \in Agents!ReadTools PROVE FALSE
  <2>1. c.tool # "vault_trash_empty" /\ c.tool # "vault_trash_restore"
    BY <1>2 DEF Agents!ReadTools
  <2>2. Agents!Aim(c) = {}
    BY <1>2, <2>1, Zenon DEF Agents!Aim
  <2>3. QED
    BY <2>2
<1>3. CASE c.tool = "vault_trash_empty"
  <2>1. Agents!Aim(c) = {i \in IF c.ids = {} THEN Item ELSE c.ids : things[i] = "trashed"}
    BY <1>2, <1>3, Zenon DEF Agents!Aim
  <2>2. QED
    BY <1>1, <1>2, <2>1 DEF Named, Agents!Mutating
<1>4. CASE c.tool = "vault_trash_restore"
  <2>1. Agents!Aim(c) = {i \in c.ids : things[i] = "trashed"}
    BY <1>2, <1>4 DEF Agents!Aim
  <2>2. QED
    BY <1>1, <1>2, <2>1 DEF Named, Agents!Mutating
<1>5. CASE c.tool \notin {"vault_trash_empty", "vault_trash_restore"}
  <2>1. Agents!Aim(c) = {i \in c.ids : things[i] = "kept"}
    BY <1>2, <1>5 DEF Agents!Aim
  <2>2. QED
    BY <1>1, <1>2, <2>1 DEF Named, Agents!Mutating
<1>6. QED
  BY <1>3, <1>4, <1>5

\* One request goes on; everybody else's call stays what it was.
LEMMA OthersKept ==
    ASSUME AgentsInv, NEW r \in Servers, \A q \in Servers \ {r} : handling'[q] = handling[q],
           UNCHANGED <<policy, calls>>,
           \A id \in 1..Len(session) : session[id].ready => session'[id].ready,
           \A q \in Servers \ {r} : Working(handling[q]) =>
               /\ (\E e \in effects' : e.no = handling[q].no) => \E e \in effects : e.no = handling[q].no
               /\ \A x \in audit' : x.no # handling[q].no,
           Working(handling'[r]) =>
               /\ Allowed(handling[r])' /\ Working(handling[r]) /\ handling'[r].no = handling[r].no
    PROVE  AllAllowed'
<1>1. ASSUME NEW q \in Servers \ {r}, Working(handling'[q]) PROVE Allowed(handling[q])'
  <2>1. handling'[q] = handling[q] /\ Working(handling[q]) /\ Allowed(handling[q])
    BY <1>1 DEF AgentsInv, AllAllowed
  <2>2. handling[q].by \in 1..Len(session)
    BY <2>1 DEF AgentsInv, Seated, Working
  <2>3. QED
    BY <2>1, <2>2 DEF Allowed
<1>2. \A q \in Servers : Working(handling'[q]) => Allowed(handling[q])'
  BY <1>1
<1>3. \A q \in Servers : Working(handling'[q]) => Working(handling[q]) /\ handling'[q].no = handling[q].no
  OBVIOUS
<1>4. \A q, p \in Servers : Working(handling'[q]) /\ Working(handling'[p]) /\ q # p =>
         handling'[q].no # handling'[p].no
  BY <1>3 DEF AgentsInv, AllAllowed
<1>5. QED
  BY <1>2, <1>4 DEF AllAllowed, Working

\* Its number is nobody else's.
LEMMA OwnNumber ==
    ASSUME AgentsInv, NEW r \in Servers, Working(handling[r])
    PROVE  /\ Allowed(handling[r]) /\ handling[r] \in Handled /\ handling[r].no \in 1..calls
           /\ handling[r].by \in 1..Len(session) /\ handling[r].call \in CallMade
           /\ handling[r].no \in Nat /\ handling[r].by \in Nat /\ handling[r].todo \subseteq Item
           /\ \A q \in Servers \ {r} : Working(handling[q]) => handling[q].no # handling[r].no
<1>1. handling[r] \in Handled
  BY HandlerFacts DEF AgentsInv
<1>2. Allowed(handling[r]) /\ handling[r].by \in 1..Len(session)
  BY DEF AgentsInv, AllAllowed, Seated, Working
<1>3. \A q \in Servers \ {r} : Working(handling[q]) => handling[q].no # handling[r].no
  BY DEF AgentsInv, AllAllowed
<1>4. handling[r].no \in 1..calls
  BY <1>2 DEF Allowed
<1>5. handling[r].call \in CallMade /\ handling[r].no \in Nat /\ handling[r].by \in Nat
      /\ handling[r].todo \subseteq Item
  BY <1>1 DEF Handled
<1>6. QED
  BY <1>1, <1>2, <1>3, <1>4, <1>5

LEMMA RaiseKeeps ==
    ASSUME AgentsInv, AgentsGiven, NEW r \in Servers, Agents!Raise(r)
    PROVE  AgentsInv'
<1> DEFINE w == handling[r]
           v == [w EXCEPT !.outcome = "error", !.todo = {}]
<1>1. /\ w.stage = "run" /\ handling' = [handling EXCEPT ![r] = v]
      /\ UNCHANGED <<seats, session, policy, things, effects, audit, calls, now, events, lost>>
      /\ handling \in [Servers -> Free \cup Waiting \cup Handled]
  BY DEF Agents!Raise, Agents!At, AgentsInv, AgentsTyped
<1>2. Working(w)
  BY <1>1 DEF Working
<1>3. /\ Allowed(w) /\ w \in Handled /\ \A q \in Servers \ {r} : Working(handling[q]) => handling[q].no # w.no
  BY <1>2, OwnNumber
<1>4. /\ v \in Handled /\ v.stage = "run" /\ v.by = w.by /\ v.call = w.call /\ v.no = w.no
      /\ v.open = w.open /\ v.todo = {} /\ v.outcome = "error"
  BY <1>1, <1>3 DEF Handled
<1> HIDE DEF v
<1>5. handling'[r] = v /\ \A q \in Servers \ {r} : handling'[q] = handling[q]
  BY <1>1
<1>6. AgentsTyped'
  <2>1. handling' \in [Servers -> Free \cup Waiting \cup Handled]
    BY <1>1, <1>4
  <2>2. QED
    BY <1>1, <2>1 DEF AgentsInv, AgentsTyped
<1>7. AllAllowed'
  <2>1. Allowed(handling[r])'
    BY <1>1, <1>3, <1>4, <1>5 DEF Allowed
  <2>2. \A q \in Servers \ {r} : Working(handling[q]) => \A x \in audit : x.no # handling[q].no
    BY DEF AgentsInv, AllAllowed, Allowed
  <2>3. QED
    BY <1>1, <1>2, <1>4, <1>5, <2>1, <2>2, OthersKept
<1>8. Accounted'
  <2>1. \A q \in Servers : Working(handling[q]) => Working(handling'[q]) /\ handling'[q].no = handling[q].no
    BY <1>4, <1>5 DEF Working
  <2>2. \A e \in effects :
           \/ \E q \in Servers : Working(handling'[q]) /\ handling'[q].no = e.no
           \/ e.no \in lost
           \/ \E x \in audit : x.no = e.no
    BY <2>1 DEF AgentsInv, Accounted
  <2>3. QED
    BY <1>1, <2>2 DEF AgentsInv, Accounted, Agents!Done, Working
<1>9. Seated' /\ Paced'
  <2>1. \A q \in Servers : /\ handling'[q].by = handling[q].by
                           /\ handling'[q].stage = handling[q].stage
    BY <1>1, <1>4, <1>5
  <2>2. QED
    BY <1>1, <2>1, NobodySitsDown, NobodyCounts, SessionFacts
<1>10. QED
  BY <1>6, <1>7, <1>8, <1>9 DEF AgentsInv

LEMMA TouchKeeps ==
    ASSUME AgentsInv, AgentsGiven, NEW r \in Servers, NEW i \in Item, NEW ok \in BOOLEAN, Agents!Touch(r, i, ok)
    PROVE  AgentsInv'
<1> DEFINE w == handling[r]
           v == [w EXCEPT !.todo = @ \ {i}]
           new == [no |-> w.no, item |-> i, erased |-> Agents!Becomes(w.call) = "erased",
                   sure |-> w.call.confirm, named |-> Named(w.call),
                   open |-> w.open, ready |-> session[w.by].ready, by |-> w.by]
<1>1. /\ w.stage = "run" /\ i \in w.todo /\ handling' = [handling EXCEPT ![r] = v]
      /\ effects' = effects \cup {new} \/ effects' = effects
      /\ UNCHANGED <<seats, session, policy, audit, calls, now, events, lost>>
      /\ handling \in [Servers -> Free \cup Waiting \cup Handled]
  BY DEF Agents!Touch, Agents!At, AgentsInv, AgentsTyped, Named
<1>2. Working(w)
  BY <1>1 DEF Working
<1>3. /\ Allowed(w) /\ w \in Handled /\ \A q \in Servers \ {r} : Working(handling[q]) => handling[q].no # w.no
      /\ w.call \in CallMade /\ w.no \in 1..calls
  BY <1>2, OwnNumber
<1>4. /\ v \in Handled /\ v.stage = "run" /\ v.by = w.by /\ v.call = w.call /\ v.no = w.no
      /\ v.open = w.open /\ v.todo = w.todo \ {i} /\ v.outcome = w.outcome
  BY <1>1, <1>3 DEF Handled
<1> HIDE DEF v
<1>5. handling'[r] = v /\ \A q \in Servers \ {r} : handling'[q] = handling[q]
  BY <1>1
<1>6. /\ session[w.by].ready /\ w.open /\ Agents!Mutating(w.call.tool) /\ i \in Named(w.call)
      /\ Agents!NeedsConfirm(w.call) => w.call.confirm
      /\ \A x \in audit : x.no # w.no
  BY <1>1, <1>3 DEF Allowed
<1>7. Agents!Becomes(w.call) = "erased" => w.call.confirm
  <2>1. Agents!Becomes(w.call) = "erased" => Agents!NeedsConfirm(w.call)
    BY DEF Agents!Becomes, Agents!NeedsConfirm
  <2>2. QED
    BY <1>6, <2>1
<1>8. /\ new.no = w.no /\ new.ready /\ new.open /\ new.item \in new.named /\ (new.erased => new.sure)
  BY <1>6, <1>7
<1> HIDE DEF new
<1>9. AgentsTyped'
  <2>1. handling' \in [Servers -> Free \cup Waiting \cup Handled]
    BY <1>1, <1>4
  <2>2. QED
    BY <1>1, <2>1 DEF AgentsInv, AgentsTyped
<1>10. AllAllowed'
  <2>1. Allowed(handling[r])'
    BY <1>1, <1>3, <1>4, <1>5, <1>6 DEF Allowed
  <2>2. ASSUME NEW q \in Servers \ {r}, Working(handling[q])
        PROVE  /\ (\E e \in effects' : e.no = handling[q].no) => \E e \in effects : e.no = handling[q].no
               /\ \A x \in audit : x.no # handling[q].no
    BY <1>1, <1>3, <1>8, <2>2 DEF AgentsInv, AllAllowed, Allowed
  <2>3. QED
    BY <1>1, <1>2, <1>4, <1>5, <2>1, <2>2, OthersKept
<1>11. Accounted'
  <2>1. \A q \in Servers : Working(handling[q]) => Working(handling'[q]) /\ handling'[q].no = handling[q].no
    BY <1>4, <1>5 DEF Working
  <2>2. ASSUME NEW e \in effects'
        PROVE  /\ e.ready /\ e.open /\ e.item \in e.named /\ (e.erased => e.sure) /\ e.no \in 1..calls
               /\ \/ \E q \in Servers : Working(handling'[q]) /\ handling'[q].no = e.no
                  \/ e.no \in lost
                  \/ \E x \in audit : x.no = e.no
    <3>1. CASE e \in effects
      BY <2>1, <3>1 DEF AgentsInv, Accounted
    <3>2. CASE e = new
      BY <1>2, <1>3, <1>8, <2>1, <3>2
    <3>3. QED
      BY <1>1, <2>2, <3>1, <3>2
  <2>3. ASSUME NEW x \in audit
        PROVE  /\ x.no \in 1..calls /\ (x.outcome = "ok" => x.affected = Agents!Done(x.no)')
               /\ \A y \in audit : y.no = x.no => y = x
    <3>1. {e \in effects' : e.no = x.no} = {e \in effects : e.no = x.no}
      BY <1>1, <1>6, <1>8
    <3>2. Agents!Done(x.no)' = Agents!Done(x.no)
      BY <3>1 DEF Agents!Done
    <3>3. QED
      BY <3>2 DEF AgentsInv, Accounted
  <2>4. QED
    BY <1>1, <2>2, <2>3 DEF Accounted, Working
<1>12. Seated' /\ Paced'
  <2>1. \A q \in Servers : /\ handling'[q].by = handling[q].by
                           /\ handling'[q].stage = handling[q].stage
    BY <1>1, <1>4, <1>5
  <2>2. QED
    BY <1>1, <2>1, NobodySitsDown, NobodyCounts, SessionFacts
<1>13. QED
  BY <1>9, <1>10, <1>11, <1>12 DEF AgentsInv

LEMMA ToggleKeeps ==
    ASSUME AgentsInv, AgentsGiven, NEW p \in {"open", "closed", "unreadable"}, Agents!Toggle(p)
    PROVE  AgentsInv'
<1>1. handling \in [Servers -> Free \cup Waiting \cup Handled] /\ DOMAIN handling = Servers
  BY DEF AgentsInv, AgentsTyped
<1>2. /\ handling' = [q \in Servers |->
            IF p # "closed" /\ "open" \in DOMAIN handling[q]
            THEN [handling[q] EXCEPT !.open = TRUE] ELSE handling[q]]
      /\ policy' = p
      /\ UNCHANGED <<seats, session, things, effects, audit, calls, now, lost>>
  BY <1>1 DEF Agents!Toggle
<1>3. ASSUME NEW q \in Servers, ~Working(handling[q]) PROVE handling'[q] = handling[q]
  <2>1. "open" \notin DOMAIN handling[q]
    BY <1>3, HandlerFacts DEF AgentsInv
  <2>2. QED
    BY <1>2, <2>1
<1>4. ASSUME NEW q \in Servers, Working(handling[q])
      PROVE  /\ handling'[q] \in Handled /\ handling'[q].stage = handling[q].stage
             /\ handling'[q].by = handling[q].by /\ handling'[q].call = handling[q].call
             /\ handling'[q].no = handling[q].no /\ handling'[q].todo = handling[q].todo
             /\ handling[q].open => handling'[q].open
             /\ p # "closed" => handling'[q].open
  <2>1. handling[q] \in Handled /\ "open" \in DOMAIN handling[q]
    BY <1>4, HandlerFacts DEF AgentsInv
  <2>2. handling'[q] = IF p # "closed" THEN [handling[q] EXCEPT !.open = TRUE] ELSE handling[q]
    BY <1>2, <2>1
  <2>3. CASE p = "closed"
    BY <2>1, <2>2, <2>3
  <2>4. CASE p # "closed"
    <3> DEFINE v == [handling[q] EXCEPT !.open = TRUE]
    <3>1. /\ v \in Handled /\ v.stage = handling[q].stage /\ v.by = handling[q].by
          /\ v.call = handling[q].call /\ v.no = handling[q].no /\ v.todo = handling[q].todo /\ v.open = TRUE
      BY <2>1 DEF Handled
    <3>2. handling'[q] = v
      BY <2>2, <2>4
    <3> HIDE DEF v
    <3>3. QED
      BY <3>1, <3>2
  <2>5. QED
    BY <2>3, <2>4
<1>5. \A q \in Servers : handling'[q].stage = handling[q].stage
  BY <1>3, <1>4
<1>6. AgentsTyped'
  <2>1. \A q \in Servers : handling'[q] \in Free \cup Waiting \cup Handled
    BY <1>1, <1>3, <1>4
  <2>2. handling' \in [Servers -> Free \cup Waiting \cup Handled]
    BY <1>2, <2>1
  <2>3. QED
    BY <1>2, <2>2 DEF AgentsInv, AgentsTyped
<1>7. AllAllowed'
  <2>1. ASSUME NEW q \in Servers, Working(handling'[q]) PROVE Allowed(handling[q])'
    <3>1. Working(handling[q])
      BY <1>5, <2>1 DEF Working
    <3>2. Allowed(handling[q])
      BY <3>1 DEF AgentsInv, AllAllowed
    <3>3. QED
      BY <1>2, <1>4, <3>1, <3>2 DEF Allowed
  <2>2. \A q \in Servers : Working(handling'[q]) => Working(handling[q]) /\ handling'[q].no = handling[q].no
    BY <1>4, <1>5 DEF Working
  <2>3. QED
    BY <2>1, <2>2 DEF AgentsInv, AllAllowed, Working
<1>8. Accounted'
  <2>1. \A q \in Servers : Working(handling[q]) => Working(handling'[q]) /\ handling'[q].no = handling[q].no
    BY <1>4, <1>5 DEF Working
  <2>2. \A e \in effects :
           \/ \E q \in Servers : Working(handling'[q]) /\ handling'[q].no = e.no
           \/ e.no \in lost
           \/ \E x \in audit : x.no = e.no
    BY <2>1 DEF AgentsInv, Accounted
  <2>3. QED
    BY <1>2, <2>2 DEF AgentsInv, Accounted, Agents!Done, Working
<1>9. Seated' /\ Paced'
  <2>1. \A q \in Servers : handling'[q].stage # "free" =>
            /\ handling[q].stage # "free" /\ handling'[q].by = handling[q].by
    BY <1>3, <1>4, <1>5
  <2>2. QED
    BY <1>2, <1>5, <2>1, NobodySitsDown, NobodyCounts, SessionFacts
<1>10. QED
  BY <1>6, <1>7, <1>8, <1>9 DEF AgentsInv

LEMMA FinishKeeps ==
    ASSUME AgentsInv, AgentsGiven, NEW r \in Servers, NEW written \in BOOLEAN, Agents!Finish(r, written)
    PROVE  AgentsInv'
<1> DEFINE w == handling[r]
           v == [stage |-> "next", by |-> w.by]
           entry == [no |-> w.no, outcome |-> w.outcome, written |-> written,
                     affected |-> Agents!Affected(w)]
<1>1. /\ w.stage = "run" /\ handling' = [handling EXCEPT ![r] = v]
      /\ audit' = audit \cup {x \in {entry} : Agents!Mutating(w.call.tool)}
      /\ UNCHANGED <<seats, session, policy, things, effects, calls, now, events, lost>>
      /\ handling \in [Servers -> Free \cup Waiting \cup Handled]
  BY DEF Agents!Finish, Agents!At, Agents!By, AgentsInv, AgentsTyped
<1>2. Working(w)
  BY <1>1 DEF Working
<1>3. /\ Allowed(w) /\ w \in Handled /\ \A q \in Servers \ {r} : Working(handling[q]) => handling[q].no # w.no
      /\ w.no \in 1..calls /\ w.by \in Nat
  BY <1>2, OwnNumber
<1>4. v \in Waiting /\ v.stage = "next" /\ v.by = w.by
  BY <1>3 DEF Waiting
<1>5. entry.no = w.no /\ (entry.outcome = "ok" => entry.affected = Agents!Done(w.no))
  BY DEF Agents!Affected
<1> HIDE DEF v, entry
<1>6. handling'[r] = v /\ \A q \in Servers \ {r} : handling'[q] = handling[q]
  BY <1>1
<1>7. AgentsTyped'
  <2>1. handling' \in [Servers -> Free \cup Waiting \cup Handled]
    BY <1>1, <1>4
  <2>2. QED
    BY <1>1, <2>1 DEF AgentsInv, AgentsTyped
<1>8. AllAllowed'
  <2>1. ASSUME NEW q \in Servers \ {r}, Working(handling[q])
        PROVE  \A x \in audit' : x.no # handling[q].no
    BY <1>1, <1>3, <1>5, <2>1 DEF AgentsInv, AllAllowed, Allowed
  <2>2. ~Working(handling'[r])
    BY <1>4, <1>6 DEF Working
  <2>3. QED
    BY <1>1, <1>6, <2>1, <2>2, OthersKept
<1>9. Accounted'
  <2>1. \A q \in Servers \ {r} : Working(handling[q]) => Working(handling'[q]) /\ handling'[q].no = handling[q].no
    BY <1>6 DEF Working
  <2>2. ASSUME NEW e \in effects
        PROVE  \/ \E q \in Servers : Working(handling'[q]) /\ handling'[q].no = e.no
               \/ e.no \in lost
               \/ \E x \in audit' : x.no = e.no
    <3>1. CASE e.no = w.no
      <4>1. entry \in audit'
        BY <1>1, <1>3, <3>1 DEF Allowed
      <4>2. QED
        BY <1>5, <3>1, <4>1
    <3>2. CASE e.no # w.no
      BY <1>1, <2>1, <3>2 DEF AgentsInv, Accounted
    <3>3. QED
      BY <3>1, <3>2
  <2>3. ASSUME NEW x \in audit'
        PROVE  /\ x.no \in 1..calls /\ (x.outcome = "ok" => x.affected = Agents!Done(x.no))
               /\ \A y \in audit' : y.no = x.no => y = x
    <3>1. \A y \in audit : y.no # w.no
      BY <1>3 DEF Allowed
    <3>2. CASE x \in audit
      BY <1>1, <1>5, <3>1, <3>2 DEF AgentsInv, Accounted
    <3>3. CASE x = entry
      BY <1>1, <1>3, <1>5, <3>1, <3>3
    <3>4. QED
      BY <1>1, <2>3, <3>2, <3>3
  <2>4. \A n : Agents!Done(n)' = Agents!Done(n)
    BY <1>1 DEF Agents!Done
  <2>5. QED
    BY <1>1, <2>2, <2>3, <2>4 DEF AgentsInv, Accounted, Working
<1>10. Seated' /\ Paced'
  <2>1. \A q \in Servers : /\ handling'[q].stage # "free" =>
                                handling[q].stage # "free" /\ handling'[q].by = handling[q].by
                           /\ handling'[q].stage = "count" =>
                                handling[q].stage = "count" /\ handling'[q].by = handling[q].by
    BY <1>1, <1>4, <1>6
  <2>2. QED
    BY <1>1, <2>1, NobodySitsDown, NobodyCounts, SessionFacts
<1>11. QED
  BY <1>7, <1>8, <1>9, <1>10 DEF AgentsInv

\* What a call becomes when it is stamped: refused, without its confirmation, or let through.
LEMMA Begun ==
    ASSUME AgentsInv, NEW r \in Servers, Agents!Begin(r)
    PROVE  /\ handling[r].stage = "count" /\ handling[r].todo = {}
           /\ handling'[r] \in Waiting \cup Handled /\ handling'[r].stage \in {"next", "run"}
           /\ handling'[r].by = handling[r].by
           /\ \A q \in Servers \ {r} : handling'[q] = handling[q]
           /\ handling' = [q \in Servers |-> handling'[q]]
           /\ handling'[r].stage = "run" =>
                /\ handling'[r] \in Handled
                /\ handling'[r].no = handling[r].no /\ handling'[r].call = handling[r].call
                /\ handling'[r].open = handling[r].open
                /\ handling'[r].todo # {} =>
                     /\ handling[r].open /\ Agents!Mutating(handling[r].call.tool)
                     /\ handling'[r].todo \subseteq Named(handling[r].call)
                     /\ Agents!NeedsConfirm(handling[r].call) => handling[r].call.confirm
<1> DEFINE w == handling[r]
           c == w.call
           refused == [stage |-> "next", by |-> w.by]
           unsure == [w EXCEPT !.stage = "run", !.outcome = "error"]
           sent == [w EXCEPT !.stage = "run", !.todo = Agents!Aim(c)]
<1>1. /\ w.stage = "count" /\ handling \in [Servers -> Free \cup Waiting \cup Handled]
      /\ handling' = IF Agents!Refused(r) THEN [handling EXCEPT ![r] = refused]
                    ELSE IF Agents!NeedsConfirm(c) /\ ~c.confirm
                         THEN [handling EXCEPT ![r].stage = "run", ![r].outcome = "error"]
                    ELSE [handling EXCEPT ![r].stage = "run", ![r].todo = Agents!Aim(c)]
  BY DEF Agents!Begin, Agents!At, Agents!By, AgentsInv, AgentsTyped
<1>2. Working(w)
  BY <1>1 DEF Working
<1>3. Allowed(w) /\ w \in Handled /\ c \in CallMade /\ w.by \in Nat
  BY <1>2, OwnNumber
<1>4. w.todo = {} /\ (policy # "closed" => w.open)
  BY <1>1, <1>3 DEF Allowed
<1>5. /\ refused \in Waiting /\ refused.stage = "next" /\ refused.by = w.by
  BY <1>3 DEF Waiting
<1>6. /\ unsure \in Handled /\ unsure.stage = "run" /\ unsure.by = w.by /\ unsure.no = w.no
      /\ unsure.call = c /\ unsure.open = w.open /\ unsure.todo = {}
  BY <1>3, <1>4 DEF Handled
<1>7. Agents!Aim(c) \subseteq Item
  BY <1>3, AimFacts
<1>8. /\ sent \in Handled /\ sent.stage = "run" /\ sent.by = w.by /\ sent.no = w.no
      /\ sent.call = c /\ sent.open = w.open /\ sent.todo = Agents!Aim(c)
  BY <1>3, <1>7 DEF Handled
<1>9. CASE handling' = [handling EXCEPT ![r] = refused]
  <2> HIDE DEF refused
  <2>1. handling'[r] = refused /\ (\A q \in Servers \ {r} : handling'[q] = handling[q])
        /\ handling' = [q \in Servers |-> handling'[q]]
    BY <1>1, <1>9
  <2>2. QED
    BY <1>1, <1>4, <1>5, <2>1
<1>10. CASE handling' = [handling EXCEPT ![r].stage = "run", ![r].outcome = "error"]
  <2>1. handling' = [handling EXCEPT ![r] = unsure]
    BY <1>1, <1>10
  <2> HIDE DEF unsure
  <2>2. handling'[r] = unsure /\ (\A q \in Servers \ {r} : handling'[q] = handling[q])
        /\ handling' = [q \in Servers |-> handling'[q]]
    BY <1>1, <2>1
  <2>3. QED
    BY <1>1, <1>4, <1>6, <2>2
<1>11. CASE /\ ~Agents!Refused(r) /\ ~(Agents!NeedsConfirm(c) /\ ~c.confirm)
            /\ handling' = [handling EXCEPT ![r].stage = "run", ![r].todo = Agents!Aim(c)]
  <2>1. handling' = [handling EXCEPT ![r] = sent]
    BY <1>1, <1>11
  <2>2. ASSUME Agents!Aim(c) # {}
        PROVE  /\ w.open /\ Agents!Mutating(c.tool) /\ Agents!Aim(c) \subseteq Named(c)
               /\ Agents!NeedsConfirm(c) => c.confirm
    <3>1. Agents!Mutating(c.tool) /\ Agents!Aim(c) \subseteq Named(c)
      BY <1>3, <2>2, AimFacts
    <3>2. policy # "closed"
      BY <1>11, <3>1 DEF Agents!Refused, Agents!ReadOnly
    <3>3. c.confirm \in BOOLEAN
      BY <1>3 DEF CallMade
    <3>4. QED
      BY <1>4, <1>11, <3>1, <3>2, <3>3
  <2> HIDE DEF sent
  <2>3. handling'[r] = sent /\ (\A q \in Servers \ {r} : handling'[q] = handling[q])
        /\ handling' = [q \in Servers |-> handling'[q]]
    BY <1>1, <2>1
  <2>4. QED
    BY <1>1, <1>4, <1>8, <2>2, <2>3
<1>12. QED
  <2> HIDE DEF refused
  <2>1. CASE Agents!Refused(r)
    <3>1. handling' = [handling EXCEPT ![r] = refused]
          \/ handling' = [handling EXCEPT ![r].stage = "run", ![r].outcome = "error"]
      BY <1>1, <2>1
    <3>2. QED
      BY <1>9, <1>10, <3>1
  <2>2. CASE ~Agents!Refused(r) /\ Agents!NeedsConfirm(c) /\ ~c.confirm
    <3>1. handling' = [handling EXCEPT ![r].stage = "run", ![r].outcome = "error"]
      BY <1>1, <2>2
    <3>2. QED
      BY <1>10, <3>1
  <2>3. CASE ~Agents!Refused(r) /\ ~(Agents!NeedsConfirm(c) /\ ~c.confirm)
    <3>1. handling' = [handling EXCEPT ![r].stage = "run", ![r].todo = Agents!Aim(c)]
      BY <1>1, <2>3
    <3>2. QED
      BY <1>11, <2>3, <3>1
  <2>4. QED
    BY <2>1, <2>2, <2>3

LEMMA StampKeeps ==
    ASSUME AgentsInv, AgentsGiven, NEW r \in Servers, Agents!Begin(r)
    PROVE  AgentsInv'
<1> DEFINE w == handling[r]
           id == w.by
           u == Append(session[id].stamps, now)
<1>1. /\ session' = [session EXCEPT ![id].stamps = u]
      /\ UNCHANGED <<seats, policy, things, effects, audit, calls, now, events, lost>>
      /\ handling \in [Servers -> Free \cup Waiting \cup Handled]
  BY DEF Agents!Begin, Agents!By, AgentsInv, AgentsTyped
<1>2. /\ w.stage = "count" /\ w.todo = {}
      /\ handling'[r] \in Waiting \cup Handled /\ handling'[r].stage \in {"next", "run"}
      /\ handling'[r].by = id
      /\ \A q \in Servers \ {r} : handling'[q] = handling[q]
      /\ handling' = [q \in Servers |-> handling'[q]]
      /\ handling'[r].stage = "run" =>
           /\ handling'[r] \in Handled /\ handling'[r].no = w.no /\ handling'[r].call = w.call
           /\ handling'[r].open = w.open
           /\ handling'[r].todo # {} =>
                /\ w.open /\ Agents!Mutating(w.call.tool)
                /\ handling'[r].todo \subseteq Named(w.call)
                /\ Agents!NeedsConfirm(w.call) => w.call.confirm
  BY Begun
<1>3. Working(w)
  BY <1>2 DEF Working
<1>4. /\ Allowed(w) /\ w \in Handled /\ \A q \in Servers \ {r} : Working(handling[q]) => handling[q].no # w.no
      /\ id \in 1..Len(session) /\ id \in Nat
  BY <1>3, OwnNumber
<1>5. /\ session[id].stamps \in Seq(Nat) /\ Len(session[id].stamps) \in Nat /\ now \in Nat /\ Len(session) \in Nat
  BY <1>4, SessionFacts DEF AgentsInv, AgentsTyped
<1>6. u \in Seq(Nat) /\ Len(u) = Len(session[id].stamps) + 1
  BY <1>5
<1> HIDE DEF u
<1>7. /\ session' \in Seq(SessionRow) /\ Len(session') = Len(session) /\ session'[id].stamps = u
      /\ \A x \in 1..Len(session) \ {id} : session'[x] = session[x]
      /\ \A x \in 1..Len(session) : session'[x].ready = session[x].ready /\ session'[x].seen = session[x].seen
  BY <1>1, <1>4, <1>6, Stamped
<1>8. AgentsTyped'
  <2>1. handling' = [q \in Servers |-> handling'[q]]
    BY <1>2
  <2>2. \A q \in Servers : handling'[q] \in Free \cup Waiting \cup Handled
    BY <1>1, <1>2
  <2>3. handling' \in [Servers -> Free \cup Waiting \cup Handled]
    BY <2>1, <2>2
  <2>4. QED
    BY <1>1, <1>7, <2>3 DEF AgentsInv, AgentsTyped
<1>9. \A e \in effects : e.no # w.no
  BY <1>2, <1>4 DEF Allowed
<1>10. AllAllowed'
  <2>1. ASSUME Working(handling'[r]) PROVE Allowed(handling[r])' /\ handling'[r].no = w.no
    <3>1. handling'[r].stage = "run"
      BY <1>2, <2>1 DEF Working
    <3>2. QED
      BY <1>1, <1>2, <1>4, <1>7, <1>9, <3>1 DEF Allowed
  <2>2. \A q \in Servers \ {r} : Working(handling[q]) => \A x \in audit : x.no # handling[q].no
    BY DEF AgentsInv, AllAllowed, Allowed
  <2>3. \A x \in 1..Len(session) : session[x].ready => session'[x].ready
    BY <1>7
  <2>4. QED
    BY <1>1, <1>2, <1>3, <2>1, <2>2, <2>3, OthersKept
<1>11. Accounted'
  <2>1. \A q \in Servers \ {r} : Working(handling[q]) => Working(handling'[q]) /\ handling'[q].no = handling[q].no
    BY <1>2 DEF Working
  <2>2. \A e \in effects :
           \/ \E q \in Servers : Working(handling'[q]) /\ handling'[q].no = e.no
           \/ e.no \in lost
           \/ \E x \in audit : x.no = e.no
    BY <1>9, <2>1 DEF AgentsInv, Accounted
  <2>3. QED
    BY <1>1, <2>2 DEF AgentsInv, Accounted, Agents!Done, Working
<1>12. Seated'
  <2>1. \A q \in Servers : handling'[q].stage # "free" =>
            handling[q].stage # "free" /\ handling'[q].by = handling[q].by
    BY <1>2
  <2>2. QED
    BY <1>1, <1>5, <1>7, <2>1, NobodySitsDown
<1>13. Paced'
  <2> SUFFICES ASSUME NEW x \in 1..Len(session')
      PROVE  Len(session'[x].stamps) + Cardinality(Counting(x)') <= CallRate - 1 + Cardinality(Http)
    BY DEF Paced
  <2>1. /\ x \in 1..Len(session)
        /\ Len(session[x].stamps) + Cardinality(Counting(x)) <= CallRate - 1 + Cardinality(Http)
    BY <1>7 DEF AgentsInv, Paced
  <2>2. Counting(x)' = Counting(x) \ {r} /\ (r \in Counting(x) <=> x = id)
    BY <1>2 DEF Counting, Servers
  <2>3. IsFiniteSet(Counting(x)) /\ Cardinality(Counting(x)) \in Nat
    BY CountingFinite
  <2>4. CallRate \in Nat /\ Cardinality(Http) \in Nat
    BY FS_CardinalityType DEF AgentsGiven
  <2>5. CASE x = id
    <3>1. Cardinality(Counting(x)') = Cardinality(Counting(x)) - 1
      BY <2>2, <2>3, <2>5, FS_RemoveElement
    <3>2. Len(session'[x].stamps) = Len(session[x].stamps) + 1
      BY <1>6, <1>7, <2>5
    <3> DEFINE a == Len(session[x].stamps)
               b == Cardinality(Counting(x))
               c == CallRate - 1 + Cardinality(Http)
               a2 == Len(session'[x].stamps)
               b2 == Cardinality(Counting(x)')
    <3>3. a \in Nat /\ b \in Nat /\ c \in Int /\ a + b <= c /\ b2 = b - 1 /\ a2 = a + 1
      BY <1>5, <2>1, <2>3, <2>4, <2>5, <3>1, <3>2
    <3> HIDE DEF a, b, c, a2, b2
    <3>4. a2 + b2 <= c
      BY <3>3
    <3>5. QED
      BY <3>4 DEF a2, b2, c
  <2>6. CASE x # id
    <3>1. Counting(x)' = Counting(x) /\ session'[x] = session[x]
      BY <1>7, <2>1, <2>2, <2>6
    <3>2. QED
      BY <2>1, <3>1
  <2>7. QED
    BY <2>5, <2>6
<1>14. QED
  BY <1>8, <1>10, <1>11, <1>12, <1>13 DEF AgentsInv

-----------------------------------------------------------------------------
LEMMA AgentsStep ==
    ASSUME AgentsInv, AgentsGiven, [Agents!Next]_(Agents!serverVars)
    PROVE  AgentsInv'
<1>1. CASE UNCHANGED Agents!serverVars
  <2>1. UNCHANGED <<seats, session, policy, handling, effects, audit, calls, now, lost>>
    BY <1>1 DEF Agents!serverVars
  <2>2. AgentsTyped' /\ Seated'
    BY <2>1 DEF AgentsInv, AgentsTyped, Seated
  <2>3. AllAllowed' /\ Accounted'
    BY <2>1, NoCallMoves
  <2>4. Paced'
    BY <2>1, NobodyCounts, SessionFacts
  <2>5. QED
    BY <2>2, <2>3, <2>4 DEF AgentsInv
<1>2. ASSUME NEW r \in Http, NEW id \in 0..Len(session), NEW greets \in BOOLEAN, Agents!Arrive(r, id, greets)
      PROVE  AgentsInv'
  BY <1>2, ArriveKeeps
<1>3. ASSUME NEW id \in 1..Len(session), Agents!Terminate(id) PROVE AgentsInv'
  BY <1>3, TerminateKeeps
<1>4. ASSUME NEW r \in Stdio, Agents!Serve(r) PROVE AgentsInv'
  BY <1>4, ServeKeeps
<1>5. ASSUME NEW r \in Servers, Agents!Step(r) PROVE AgentsInv'
  BY <1>5, GreetedKeeps, RespondKeeps, StampKeeps, RaiseKeeps, AdmitKeeps, TouchKeeps, FinishKeeps, Zenon
     DEF Agents!Step
<1>6. ASSUME NEW p \in {"open", "closed", "unreadable"}, Agents!Toggle(p) PROVE AgentsInv'
  BY <1>6, ToggleKeeps
<1>7. CASE Agents!Tick
  BY <1>7, TickKeeps
<1>8. ASSUME NEW rs \in {Http, Stdio}, Agents!Restart(rs) PROVE AgentsInv'
  BY <1>8, RestartKeeps
<1>9. QED
  BY <1>1, <1>2, <1>3, <1>4, <1>5, <1>6, <1>7, <1>8 DEF Agents!Next, Servers

\* A call under way has its number in the table of the handlers.
LEMMA AgentsAsPermitted ==
    ASSUME AgentsInv, AgentsGiven
    PROVE  Agents!Permitted
<1>1. DOMAIN handling = Servers
  BY DEF AgentsInv, AgentsTyped
<1>2. \A e \in effects : Agents!UnderWay(e.no) \/ e.no \in lost \/ \E x \in audit : x.no = e.no
  <2>1. \A r \in Servers : Working(handling[r]) => "no" \in DOMAIN handling[r]
    BY HandlerFacts DEF AgentsInv
  <2>2. QED
    BY <1>1, <2>1 DEF AgentsInv, Accounted, Agents!UnderWay
<1>3. ASSUME NEW id \in DOMAIN session PROVE Len(session[id].stamps) < CallRate + Agents!Cardinality(Http)
  <2>1. id \in 1..Len(session) /\ Len(session[id].stamps) \in Nat
    BY <1>3, SessionFacts
  <2>2. Cardinality(Counting(id)) \in Nat /\ Cardinality(Http) \in Nat /\ CallRate \in Nat
    BY CountingFinite, FS_CardinalityType DEF AgentsGiven
  <2>3. Len(session[id].stamps) + Cardinality(Counting(id)) <= CallRate - 1 + Cardinality(Http)
    BY <2>1 DEF AgentsInv, Paced
  <2>4. Len(session[id].stamps) < CallRate + Cardinality(Http)
    BY <2>1, <2>2, <2>3
  <2>5. QED
    BY <2>4, CountedAlike
<1>4. Agents!Cardinality(seats) <= Cap
  BY CountedAlike DEF AgentsInv, Seated
<1>5. QED
  BY <1>2, <1>3, <1>4 DEF AgentsInv, Accounted, Agents!Permitted

-----------------------------------------------------------------------------
\* Every change an agent made was allowed when it was asked for, what a call did has its row or
\* is still under way or was cut off, a row of success counts what was done, and the table of
\* sessions and their rate keep their limits, for any requests, servers, items, tools, rate and
\* capacity (protocol.py, handlers.py, mcp_audit.py).
THEOREM AgentsActAsAllowed == Spec => []AgentsPermitted
<1> DEFINE Inv == "agents" \in focus => AgentsInv
<1>0. AgentsGiven
  BY ServicesOK DEF AgentsGiven
<1>1. Init => Inv
  BY <1>0, AgentsInit DEF Init
<1>2. Inv /\ [Next]_<<focus, services>> => Inv'
  BY <1>0, AgentsStep, Apart
<1>3. Inv => AgentsPermitted
  BY <1>0, AgentsAsPermitted DEF AgentsPermitted
<1>4. QED
  BY <1>1, <1>2, <1>3, PTL DEF Spec
-----------------------------------------------------------------------------
(* Albums (Albums).  An id is never above the number of albums ever made,   *)
(* so that an id in use, or named by what is in the trash, which is given   *)
(* to a new album is one that was given before (again).                     *)

AlbumRow == [parent : Nat, name : AlbumName \cup System, kind : {"system", "manual"},
             query : {"system", "own"}, serial : Nat]

AlbumsTyped ==
    /\ made \in Nat /\ DOMAIN albums \subseteq 1..made
    /\ albums \in [DOMAIN albums -> AlbumRow] /\ release \subseteq System

OneOfEach == \A x, y \in DOMAIN albums :
    albums[x].parent = albums[y].parent /\ albums[x].name = albums[y].name => x = y

Belongs(id, x) == id \in again \/ <<albums[id].serial, x>> \in meant
Lodged ==
    /\ \A m \in members : m[1] \in DOMAIN albums /\ Belongs(m[1], m[2])
    /\ \A x \in DOMAIN trash : /\ trash[x] \subseteq 1..made
                               /\ \A id \in trash[x] : id \in DOMAIN albums => Belongs(id, x)

SystemKept == \A x \in DOMAIN albums :
    /\ albums[x].parent \in DOMAIN albums \cup {0}
    /\ albums[x].kind = "system" =>
         albums[x].parent = 0 /\ albums[x].name \in release /\ albums[x].query = "system"

AlbumsInv == AlbumsTyped /\ OneOfEach /\ Lodged /\ SystemKept

-----------------------------------------------------------------------------
LEMMA AlbumsInit ==
    ASSUME Shelf!Init
    PROVE  AlbumsInv
<1>1. albums = <<>> /\ DOMAIN albums = {} /\ made = 0 /\ members = {}
      /\ release \in {{s} : s \in System} /\ trash = [x \in {} |-> {}]
  BY DEF Shelf!Init
<1>2. AlbumsTyped
  BY <1>1 DEF AlbumsTyped
<1>3. QED
  BY <1>1, <1>2 DEF AlbumsInv, OneOfEach, Lodged, SystemKept

\* The id after the last one is not in use, and above those ever made at most by one.
LEMMA NextIdFacts ==
    ASSUME AlbumsInv
    PROVE  Shelf!NextId \in 1..(made + 1) /\ Shelf!NextId \notin DOMAIN albums
<1> DEFINE ids == DOMAIN albums
           below == {made - id : id \in ids}
<1>1. made \in Nat /\ ids \subseteq 1..made
  BY DEF AlbumsInv, AlbumsTyped
<1>2. CASE ids = {}
  BY <1>1, <1>2 DEF Shelf!NextId, Shelf!Ids
<1>3. CASE ids # {}
  <2>1. \A id \in ids : made - id \in Nat
    BY <1>1
  <2>2. below \subseteq Nat
    BY <2>1
  <2>3. below # {}
    <3>1. PICK id \in ids : TRUE
      BY <1>3
    <3>2. made - id \in below
      BY <3>1
    <3>3. QED
      BY <3>2
  <2>4. PICK u \in below : \A v \in below : u <= v
    <3> HIDE DEF below
    <3>1. QED
      BY <2>2, <2>3, Least
  <2>5. PICK top \in ids : u = made - top
    BY <2>4
  <2>6. ASSUME NEW y \in ids PROVE top >= y
    <3>1. made - y \in below
      OBVIOUS
    <3>2. made - top <= made - y
      BY <2>4, <2>5, <3>1
    <3>3. QED
      BY <1>1, <3>2
  <2>7. \E x \in ids : \A y \in ids : x >= y
    BY <2>6
  <2> DEFINE last == CHOOSE x \in ids : \A y \in ids : x >= y
  <2>8. last \in ids /\ \A y \in ids : last >= y
    <3> HIDE DEF ids
    <3>1. QED
      BY <2>7
  <2>9. Shelf!NextId = 1 + last
    BY <1>3 DEF Shelf!NextId, Shelf!Ids
  <2> HIDE DEF ids, last
  <2>10. last \in 1..made /\ 1 + last \notin ids
    <3>1. last \in 1..made /\ last \in Nat
      BY <1>1, <2>8
    <3>2. QED
      BY <2>8, <3>1
  <2>11. QED
    BY <1>1, <2>9, <2>10 DEF ids
<1>4. QED
  BY <1>2, <1>3

\* An album is made.
LEMMA MadeKeeps ==
    ASSUME AlbumsInv, NEW record \in AlbumRow,
           record.parent \in DOMAIN albums \cup {0}, Shelf!Same(record.parent, record.name) = {},
           record.kind = "system" =>
               record.parent = 0 /\ record.name \in release /\ record.query = "system",
           made' = made + 1, albums' = Shelf!Add(albums, Shelf!NextId, record),
           again' = (IF Shelf!NextId <= made THEN again \cup {Shelf!NextId} ELSE again),
           UNCHANGED <<members, trash, release, meant>>
    PROVE  AlbumsInv'
<1> DEFINE id == Shelf!NextId
           ids == DOMAIN albums
<1>1. id \in 1..(made + 1) /\ id \notin ids
  BY NextIdFacts
<1>2. /\ made \in Nat /\ ids \subseteq 1..made /\ albums \in [ids -> AlbumRow] /\ release \subseteq System
  BY DEF AlbumsInv, AlbumsTyped
<1>3. albums' = [x \in ids \cup {id} |-> IF x = id THEN record ELSE albums[x]]
  BY DEF Shelf!Add
<1> HIDE DEF id
<1>4. /\ DOMAIN albums' = ids \cup {id} /\ albums'[id] = record
      /\ \A x \in ids : albums'[x] = albums[x]
  BY <1>1, <1>3
<1>5. AlbumsTyped'
  <2>1. albums' \in [ids \cup {id} -> AlbumRow]
    BY <1>2, <1>3
  <2>2. ids \cup {id} \subseteq 1..made'
    BY <1>1, <1>2
  <2>3. QED
    BY <1>2, <1>4, <2>1, <2>2 DEF AlbumsTyped
<1>6. OneOfEach'
  <2>1. \A x \in ids : ~(albums[x].parent = record.parent /\ albums[x].name = record.name)
    BY DEF Shelf!Same, Shelf!Ids
  <2>2. QED
    BY <1>4, <2>1 DEF AlbumsInv, OneOfEach
<1>7. \A x : again \subseteq again' /\ (id <= made => id \in again')
  BY DEF id
<1>8. Lodged'
  <2>1. \A m \in members : m[1] \in ids /\ Belongs(m[1], m[2])
    BY DEF AlbumsInv, Lodged
  <2>2. \A m \in members : m[1] \in DOMAIN albums' /\ (m[1] \in again' \/ <<albums'[m[1]].serial, m[2]>> \in meant)
    BY <1>4, <1>7, <2>1 DEF Belongs
  <2>3. ASSUME NEW x \in DOMAIN trash
        PROVE  /\ trash[x] \subseteq 1..made'
               /\ \A y \in trash[x] : y \in DOMAIN albums' => y \in again' \/ <<albums'[y].serial, x>> \in meant
    <3>1. trash[x] \subseteq 1..made /\ \A y \in trash[x] : y \in ids => Belongs(y, x)
      BY DEF AlbumsInv, Lodged
    <3>2. trash[x] \subseteq 1..made'
      BY <1>2, <3>1
    <3>3. ASSUME NEW y \in trash[x], y \in DOMAIN albums' PROVE y \in again' \/ <<albums'[y].serial, x>> \in meant
      <4>1. CASE y = id
        BY <1>2, <1>7, <3>1, <4>1
      <4>2. CASE y # id
        BY <1>4, <1>7, <3>1, <3>3, <4>2 DEF Belongs
      <4>3. QED
        BY <4>1, <4>2
    <3>4. QED
      BY <3>2, <3>3
  <2>4. QED
    BY <2>2, <2>3 DEF Lodged, Belongs
<1>9. SystemKept'
  BY <1>4 DEF AlbumsInv, SystemKept
<1>10. QED
  BY <1>5, <1>6, <1>8, <1>9 DEF AlbumsInv

\* Albums are changed, none is made and none goes.
LEMMA EditedKeeps ==
    ASSUME AlbumsInv, DOMAIN albums' = DOMAIN albums, albums' \in [DOMAIN albums -> AlbumRow],
           \A x \in DOMAIN albums : albums'[x].serial = albums[x].serial,
           OneOfEach', SystemKept',
           UNCHANGED <<members, trash, release, made, meant, again>>
    PROVE  AlbumsInv'
<1>1. AlbumsTyped'
  BY DEF AlbumsInv, AlbumsTyped
<1>2. Lodged'
  BY DEF AlbumsInv, Lodged, Belongs
<1>3. QED
  BY <1>1, <1>2 DEF AlbumsInv

LEMMA EnsureKeeps ==
    ASSUME AlbumsInv, NEW n \in System, Shelf!Ensure(n)
    PROVE  AlbumsInv'
<1> DEFINE ids == DOMAIN albums
           record == Shelf!Row(0, n, "system", "system")
<1>1. /\ n \in release /\ Shelf!Conflict(n) = Shelf!Same(0, n) /\ Shelf!Conflict(n) \subseteq ids
      /\ UNCHANGED <<members, trash, release, meant, edits>>
  BY DEF Shelf!Ensure, Shelf!Conflict, Shelf!Same, Shelf!Root, Shelf!Ids
<1>2. made \in Nat /\ albums \in [ids -> AlbumRow]
  BY DEF AlbumsInv, AlbumsTyped
<1>3. CASE Shelf!Conflict(n) = {}
  <2>1. /\ record \in AlbumRow /\ record.parent = 0 /\ record.name = n /\ record.query = "system"
    BY <1>2 DEF Shelf!Row, AlbumRow
  <2>2. /\ made' = made + 1 /\ albums' = Shelf!Add(albums, Shelf!NextId, record)
        /\ again' = IF Shelf!NextId <= made THEN again \cup {Shelf!NextId} ELSE again
    BY <1>2, <1>3 DEF Shelf!Ensure, Shelf!Root
  <2> HIDE DEF record
  <2>3. QED
    BY <1>1, <1>3, <2>1, <2>2, MadeKeeps
<1>4. CASE Shelf!Conflict(n) # {}
  <2>1. /\ albums' = [x \in ids |-> IF x \in Shelf!Conflict(n)
                                    THEN [albums[x] EXCEPT !.query = "system"] ELSE albums[x]]
        /\ made' = made /\ again' = again
    BY <1>4 DEF Shelf!Ensure, Shelf!Ids
  <2>2. ASSUME NEW x \in ids
        PROVE  /\ albums'[x] \in AlbumRow /\ albums'[x].serial = albums[x].serial
               /\ albums'[x].parent = albums[x].parent /\ albums'[x].name = albums[x].name
               /\ albums'[x].kind = albums[x].kind
               /\ albums[x].query = "system" => albums'[x].query = "system"
    <3> DEFINE v == [albums[x] EXCEPT !.query = "system"]
    <3>1. albums[x] \in AlbumRow
      BY <1>2
    <3>2. /\ v \in AlbumRow /\ v.serial = albums[x].serial /\ v.parent = albums[x].parent
          /\ v.name = albums[x].name /\ v.kind = albums[x].kind /\ v.query = "system"
      BY <3>1 DEF AlbumRow
    <3>3. albums'[x] = v \/ albums'[x] = albums[x]
      BY <2>1
    <3> HIDE DEF v
    <3>4. QED
      BY <3>1, <3>2, <3>3
  <2>3. DOMAIN albums' = ids /\ albums' \in [ids -> AlbumRow]
    BY <2>1, <2>2
  <2>4. OneOfEach' /\ SystemKept'
    BY <1>1, <2>2, <2>3 DEF AlbumsInv, OneOfEach, SystemKept
  <2>5. QED
    BY <1>1, <2>1, <2>2, <2>3, <2>4, EditedKeeps
<1>5. QED
  BY <1>3, <1>4

LEMMA CreateKeeps ==
    ASSUME AlbumsInv, NEW p, NEW n \in AlbumName, Shelf!Create(p, n)
    PROVE  AlbumsInv'
<1> DEFINE record == Shelf!Row(p, n, "manual", "own")
<1>1. /\ p \in DOMAIN albums \cup {0} /\ Shelf!Same(p, n) = {} /\ made' = made + 1
      /\ albums' = Shelf!Add(albums, Shelf!NextId, record)
      /\ again' = IF Shelf!NextId <= made THEN again \cup {Shelf!NextId} ELSE again
      /\ UNCHANGED <<members, trash, release, meant>>
  BY DEF Shelf!Create, Shelf!Ids, Shelf!Root
<1>2. made \in Nat /\ DOMAIN albums \subseteq 1..made
  BY DEF AlbumsInv, AlbumsTyped
<1>3. record \in AlbumRow /\ record.parent = p /\ record.name = n /\ record.kind = "manual"
  BY <1>1, <1>2 DEF Shelf!Row, AlbumRow
<1> HIDE DEF record
<1>4. QED
  BY <1>1, <1>3, MadeKeeps

LEMMA UpdateKeeps ==
    ASSUME AlbumsInv, NEW id \in DOMAIN albums, NEW p, NEW n \in AlbumName, Shelf!Update(id, p, n)
    PROVE  AlbumsInv'
<1> DEFINE ids == DOMAIN albums
           v == [albums[id] EXCEPT !.parent = p, !.name = n]
<1>1. /\ p \in ids \cup {0} /\ albums[id].kind # "system"
      /\ \A x \in ids : albums[x].parent = p /\ albums[x].name = n => x = id
      /\ UNCHANGED <<members, trash, release, made, meant, again>>
  BY DEF Shelf!Update, Shelf!Editable, Shelf!Same, Shelf!Ids, Shelf!Root
<1>2. made \in Nat /\ ids \subseteq 1..made /\ albums \in [ids -> AlbumRow]
  BY DEF AlbumsInv, AlbumsTyped
<1>3. p \in Nat /\ albums[id] \in AlbumRow
  BY <1>1, <1>2
<1>4. /\ v \in AlbumRow /\ v.parent = p /\ v.name = n /\ v.kind = albums[id].kind /\ v.serial = albums[id].serial
  BY <1>3 DEF AlbumRow
<1>5. albums' = [albums EXCEPT ![id] = v]
  BY <1>2 DEF Shelf!Update
<1> HIDE DEF v
<1>6. /\ DOMAIN albums' = ids /\ albums' \in [ids -> AlbumRow] /\ albums'[id] = v
      /\ \A x \in ids \ {id} : albums'[x] = albums[x]
  BY <1>2, <1>4, <1>5
<1>7. OneOfEach'
  BY <1>1, <1>4, <1>6 DEF AlbumsInv, OneOfEach
<1>8. SystemKept'
  BY <1>1, <1>4, <1>6 DEF AlbumsInv, SystemKept
<1>9. \A x \in ids : albums'[x].serial = albums[x].serial
  BY <1>4, <1>6
<1>10. QED
  BY <1>1, <1>6, <1>7, <1>8, <1>9, EditedKeeps

\* What is left has its parent left.
LEMMA DeleteKeeps ==
    ASSUME AlbumsInv, NEW id \in DOMAIN albums, Shelf!Delete(id)
    PROVE  AlbumsInv'
<1> DEFINE ids == DOMAIN albums
           gone == Shelf!Cascade(id)
<1>1. /\ albums' = [x \in ids \ gone |-> albums[x]]
      /\ members' = {m \in members : m[1] \notin gone}
      /\ UNCHANGED <<trash, release, made, meant, again>>
  BY DEF Shelf!Delete, Shelf!Without, Shelf!Ids
<1>2. ASSUME NEW x \in ids, albums[x].parent \in gone PROVE x \in gone
  <2>1. ASSUME NEW S \in SUBSET ids, id \in S, Shelf!Children(S) \subseteq S PROVE x \in S
    <3>1. albums[x].parent \in S
      BY <1>2, <2>1 DEF Shelf!Cascade, Shelf!Ids
    <3>2. x \in Shelf!Children(S)
      BY <3>1 DEF Shelf!Children, Shelf!Ids
    <3>3. QED
      BY <2>1, <3>2
  <2>2. QED
    BY <2>1 DEF Shelf!Cascade, Shelf!Ids
<1>3. DOMAIN albums' = ids \ gone /\ \A x \in ids \ gone : albums'[x] = albums[x]
  BY <1>1
<1>4. 0 \notin gone
  BY DEF Shelf!Cascade, Shelf!Ids, AlbumsInv, AlbumsTyped
<1> HIDE DEF gone
<1>5. AlbumsTyped'
  <2>1. made \in Nat /\ ids \subseteq 1..made /\ albums \in [ids -> AlbumRow] /\ release \subseteq System
    BY DEF AlbumsInv, AlbumsTyped
  <2>2. albums' \in [ids \ gone -> AlbumRow]
    BY <1>1, <2>1
  <2>3. QED
    BY <1>1, <1>3, <2>1, <2>2 DEF AlbumsTyped
<1>6. OneOfEach'
  BY <1>3 DEF AlbumsInv, OneOfEach
<1>7. Lodged'
  BY <1>1, <1>3 DEF AlbumsInv, Lodged, Belongs
<1>8. SystemKept'
  BY <1>1, <1>2, <1>3, <1>4 DEF AlbumsInv, SystemKept
<1>9. QED
  BY <1>5, <1>6, <1>7, <1>8 DEF AlbumsInv

LEMMA ItemsKept ==
    ASSUME AlbumsInv, NEW id \in DOMAIN albums, NEW x \in Item,
           Shelf!AddItem(id, x) \/ Shelf!RemoveItem(id, x)
    PROVE  AlbumsInv'
<1>1. /\ \A m \in members' : m \in members \/ (m = <<id, x>> /\ <<albums[id].serial, x>> \in meant')
      /\ meant \subseteq meant'
      /\ UNCHANGED <<albums, trash, release, made, again>>
  BY DEF Shelf!AddItem, Shelf!RemoveItem
<1>2. AlbumsTyped' /\ OneOfEach' /\ SystemKept'
  BY <1>1 DEF AlbumsInv, AlbumsTyped, OneOfEach, SystemKept
<1>3. \A m \in members' : m[1] \in DOMAIN albums /\ (m[1] \in again \/ <<albums[m[1]].serial, m[2]>> \in meant')
  BY <1>1 DEF AlbumsInv, Lodged, Belongs
<1>4. \A y \in DOMAIN trash :
         /\ trash[y] \subseteq 1..made
         /\ \A i \in trash[y] : i \in DOMAIN albums => i \in again \/ <<albums[i].serial, y>> \in meant'
  BY <1>1 DEF AlbumsInv, Lodged, Belongs
<1>5. Lodged'
  BY <1>1, <1>3, <1>4 DEF Lodged, Belongs
<1>6. QED
  BY <1>2, <1>5 DEF AlbumsInv

LEMMA TrashKeeps ==
    ASSUME AlbumsInv, NEW x \in Item, Shelf!Trash(x)
    PROVE  AlbumsInv'
<1>1. /\ trash' = [y \in DOMAIN trash \cup {x} |-> IF y = x THEN Shelf!AlbumsOf(x) ELSE trash[y]]
      /\ members' \subseteq members /\ x \notin DOMAIN trash
      /\ UNCHANGED <<albums, release, made, meant, again>>
  BY DEF Shelf!Trash, Shelf!Add
<1>2. AlbumsTyped' /\ OneOfEach' /\ SystemKept'
  BY <1>1 DEF AlbumsInv, AlbumsTyped, OneOfEach, SystemKept
<1>3. \A i \in Shelf!AlbumsOf(x) : i \in DOMAIN albums /\ Belongs(i, x)
  BY DEF Shelf!AlbumsOf, AlbumsInv, Lodged
<1>4. Shelf!AlbumsOf(x) \subseteq 1..made
  BY <1>3 DEF AlbumsInv, AlbumsTyped
<1>5. DOMAIN trash' = DOMAIN trash \cup {x} /\ trash'[x] = Shelf!AlbumsOf(x)
      /\ \A y \in DOMAIN trash : trash'[y] = trash[y]
  BY <1>1
<1>6. Lodged'
  BY <1>1, <1>3, <1>4, <1>5 DEF AlbumsInv, Lodged, Belongs
<1>7. QED
  BY <1>2, <1>6 DEF AlbumsInv

LEMMA RestoreKeeps ==
    ASSUME AlbumsInv, NEW x \in Item, Shelf!Restore(x)
    PROVE  AlbumsInv'
<1>1. /\ x \in DOMAIN trash /\ members' = members \cup ((trash[x] \cap DOMAIN albums) \X {x})
      /\ trash' = [y \in DOMAIN trash \ {x} |-> trash[y]]
      /\ UNCHANGED <<albums, release, made, meant, again>>
  BY DEF Shelf!Restore, Shelf!Ids
<1>2. AlbumsTyped' /\ OneOfEach' /\ SystemKept'
  BY <1>1 DEF AlbumsInv, AlbumsTyped, OneOfEach, SystemKept
<1>3. \A m \in (trash[x] \cap DOMAIN albums) \X {x} : m[1] \in DOMAIN albums /\ Belongs(m[1], m[2])
  BY <1>1 DEF AlbumsInv, Lodged
<1>4. DOMAIN trash' = DOMAIN trash \ {x} /\ \A y \in DOMAIN trash \ {x} : trash'[y] = trash[y]
  BY <1>1
<1>5. Lodged'
  BY <1>1, <1>3, <1>4 DEF AlbumsInv, Lodged, Belongs
<1>6. QED
  BY <1>2, <1>5 DEF AlbumsInv

LEMMA AlbumsStep ==
    ASSUME AlbumsInv, [Shelf!Next]_(Shelf!albumVars)
    PROVE  AlbumsInv'
<1>1. CASE UNCHANGED Shelf!albumVars
  BY <1>1 DEF Shelf!albumVars, AlbumsInv, AlbumsTyped, OneOfEach, Lodged, Belongs, SystemKept
<1>2. CASE Shelf!Upgrade
  <2>1. release' = System /\ UNCHANGED <<albums, members, trash, made, meant, again>>
    BY <1>2 DEF Shelf!Upgrade
  <2>2. release \subseteq System
    BY DEF AlbumsInv, AlbumsTyped
  <2>3. AlbumsTyped' /\ OneOfEach' /\ SystemKept'
    BY <2>1, <2>2 DEF AlbumsInv, AlbumsTyped, OneOfEach, SystemKept
  <2>4. Lodged'
    BY <2>1 DEF AlbumsInv, Lodged, Belongs
  <2>5. QED
    BY <2>3, <2>4 DEF AlbumsInv
<1>3. ASSUME NEW n \in System, Shelf!Ensure(n) PROVE AlbumsInv'
  BY <1>3, EnsureKeeps
<1>4. ASSUME NEW n \in AlbumName, NEW p \in 0..MaxAlbum,
             Shelf!Create(p, n) \/ \E id \in Shelf!Ids : Shelf!Update(id, p, n)
      PROVE  AlbumsInv'
  BY <1>4, CreateKeeps, UpdateKeeps DEF Shelf!Ids
<1>5. ASSUME NEW id \in Shelf!Ids, Shelf!Delete(id) PROVE AlbumsInv'
  BY <1>5, DeleteKeeps DEF Shelf!Ids
<1>6. ASSUME NEW id \in Shelf!Ids, NEW x \in Item, Shelf!AddItem(id, x) \/ Shelf!RemoveItem(id, x)
      PROVE  AlbumsInv'
  BY <1>6, ItemsKept DEF Shelf!Ids
<1>7. ASSUME NEW x \in Item, Shelf!Trash(x) \/ Shelf!Restore(x) PROVE AlbumsInv'
  BY <1>7, TrashKeeps, RestoreKeeps
<1>8. QED
  BY <1>1, <1>2, <1>3, <1>4, <1>5, <1>6, <1>7 DEF Shelf!Next

LEMMA AlbumsAreSound ==
    ASSUME AlbumsInv
    PROVE  Shelf!AlbumsSound
BY DEF AlbumsInv, AlbumsTyped, OneOfEach, Lodged, Belongs, SystemKept, Shelf!AlbumsSound, Shelf!Ids, Shelf!Root

-----------------------------------------------------------------------------
(* The migrations (Migrations).  What the connection sees in the middle of  *)
(* a migration are the features of the version before and those of the      *)
(* statements that ran (Reached); the first one, a script, commits each of  *)
(* its statements (Started).                                                *)

DbShape(d) ==
    d \in [version : {d.version}, features : {d.features}, rows : {d.rows}, links : {d.links},
           albums : {d.albums}, items : {d.items}]

FirstFeatures == {"schema_migrations", "tables", "views"}

Started(i, d) ==
    /\ d.features \subseteq FirstFeatures
    /\ i > 1 => "schema_migrations" \in d.features
    /\ i > 2 => "tables" \in d.features
    /\ i > 3 => "views" \in d.features

Reached(m, i) ==
    CASE m = 3 -> Upgrade!FeaturesOf(IF i <= 2 THEN 2 ELSE 3)
      [] m = 6 /\ i = 2 -> Upgrade!FeaturesOf(5) \cup {"subgraph_count"}
      [] m = 6 /\ i # 2 -> Upgrade!FeaturesOf(IF i = 1 THEN 5 ELSE 6)
      [] m = 7 -> IF i = 2 THEN Upgrade!FeaturesOf(6) \ {"views"} ELSE Upgrade!FeaturesOf(6)
      [] m = 8 -> IF i \in {2, 3, 4} THEN Upgrade!FeaturesOf(7) \cup {"roots_new"} ELSE Upgrade!FeaturesOf(7)
      [] OTHER -> Upgrade!FeaturesOf(IF i = 1 THEN m - 1 ELSE m)

Steps(m) == CASE m \in {1} -> 3 [] m \in {2, 3, 6, 7} -> 2 [] m \in {4, 5} -> 1 [] OTHER -> 4

Covers(d) == DOMAIN d.albums # {} => {i[2] : i \in d.items} = OldAlbum

Between ==
    /\ at = Upgrade!Closed
    /\ work = db

Within ==
    /\ state = "migrating" /\ at.m \in 1..8 /\ at.m = db.version + 1 /\ at.i \in 1..(Steps(at.m) + 1)
    /\ at = [m |-> at.m, i |-> at.i, open |-> at.open]
    /\ at.m = 1 => work = db /\ Started(at.i, work)
    /\ at.m # 1 => work.features = Reached(at.m, at.i)
    /\ at.m > 3 \/ (at.m = 3 /\ at.i > 1) => Upgrade!ByIdentity(work)

Imported ==
    /\ legacyFile \in {"none", "there", "aside"}
    /\ at.m = 2 /\ at.i > 1 /\ legacyFile = "there" => "config" \in work.rows
    /\ at.m = 2 /\ at.i <= 2 /\ legacyFile = "aside" => importCut
    /\ legacyFile = "aside" /\ ~importCut =>
         /\ "config" \in work.rows
         /\ (at.m = 2 /\ at.i = 3) \/ (db.version >= 2 /\ "config" \in db.rows)

UpgradeInv ==
    /\ DbShape(db) /\ DbShape(work) /\ db.version \in Nat
    /\ Between \/ Within
    /\ db.version = 0 => db.features \subseteq FirstFeatures
    /\ db.version \in 1..8 => db.features = Upgrade!FeaturesOf(db.version)
    /\ db.version \in 3..8 => Upgrade!ByIdentity(db)
    /\ Covers(db) /\ Covers(work)
    /\ Imported

-----------------------------------------------------------------------------
LEMMA MigrationTable ==
    /\ \A m \in 1..8 : Len(Upgrade!MIGRATIONS[m]) = Steps(m)
    /\ Upgrade!MIGRATIONS[1][1].op = "create if missing" /\ Upgrade!MIGRATIONS[1][1].f = "schema_migrations"
    /\ Upgrade!MIGRATIONS[1][2].op = "create" /\ Upgrade!MIGRATIONS[1][2].f = "tables"
    /\ Upgrade!MIGRATIONS[1][3].op = "create" /\ Upgrade!MIGRATIONS[1][3].f = "views"
    /\ Upgrade!MIGRATIONS[2][1].op = "import config" /\ Upgrade!MIGRATIONS[2][1].f = "import config"
    /\ Upgrade!MIGRATIONS[2][2].op = "set legacy aside" /\ Upgrade!MIGRATIONS[2][2].f = "set legacy aside"
    /\ Upgrade!MIGRATIONS[3][1].op = "merge albums" /\ Upgrade!MIGRATIONS[3][1].f = "merge albums"
    /\ Upgrade!MIGRATIONS[3][2].op = "create if missing" /\ Upgrade!MIGRATIONS[3][2].f = "album identity"
    /\ Upgrade!MIGRATIONS[4][1].op = "create if missing" /\ Upgrade!MIGRATIONS[4][1].f = "origin"
    /\ Upgrade!MIGRATIONS[5][1].op = "create if missing" /\ Upgrade!MIGRATIONS[5][1].f = "enable_jobs"
    /\ Upgrade!MIGRATIONS[6][1].op = "create if missing" /\ Upgrade!MIGRATIONS[6][1].f = "subgraph_count"
    /\ Upgrade!MIGRATIONS[6][2].op = "create if missing" /\ Upgrade!MIGRATIONS[6][2].f = "registration"
    /\ Upgrade!MIGRATIONS[7][1].op = "drop view" /\ Upgrade!MIGRATIONS[7][1].f = "drop view"
    /\ Upgrade!MIGRATIONS[7][2].op = "create" /\ Upgrade!MIGRATIONS[7][2].f = "views"
    /\ Upgrade!MIGRATIONS[8][1].op = "create" /\ Upgrade!MIGRATIONS[8][1].f = "roots_new"
    /\ Upgrade!MIGRATIONS[8][2].op = "copy roots" /\ Upgrade!MIGRATIONS[8][2].f = "copy roots"
    /\ Upgrade!MIGRATIONS[8][3].op = "drop roots" /\ Upgrade!MIGRATIONS[8][3].f = "drop roots"
    /\ Upgrade!MIGRATIONS[8][4].op = "rename roots_new" /\ Upgrade!MIGRATIONS[8][4].f = "rename roots_new"
<1>1. /\ Upgrade!MIGRATIONS[1] = Upgrade!Initial /\ Upgrade!MIGRATIONS[2] = Upgrade!ImportLegacy
      /\ Upgrade!MIGRATIONS[3] = Upgrade!AlbumIdentity /\ Upgrade!MIGRATIONS[4] = Upgrade!Origin
      /\ Upgrade!MIGRATIONS[5] = Upgrade!EnableJobs /\ Upgrade!MIGRATIONS[6] = Upgrade!ProvidedNodes
      /\ Upgrade!MIGRATIONS[7] = Upgrade!CommunityStats /\ Upgrade!MIGRATIONS[8] = Upgrade!ExtraOutputs
  BY DEF Upgrade!MIGRATIONS
<1>2. /\ Len(Upgrade!Initial) = 3 /\ Len(Upgrade!ImportLegacy) = 2 /\ Len(Upgrade!AlbumIdentity) = 2
      /\ Len(Upgrade!Origin) = 1 /\ Len(Upgrade!EnableJobs) = 1 /\ Len(Upgrade!ProvidedNodes) = 2
      /\ Len(Upgrade!CommunityStats) = 2 /\ Len(Upgrade!ExtraOutputs) = 4
  BY DEF Upgrade!Initial, Upgrade!ImportLegacy, Upgrade!AlbumIdentity, Upgrade!Origin, Upgrade!EnableJobs,
     Upgrade!ProvidedNodes, Upgrade!CommunityStats, Upgrade!ExtraOutputs
<1>3. \A m \in 1..8 : Len(Upgrade!MIGRATIONS[m]) = Steps(m)
  <2>1. /\ Steps(1) = 3 /\ Steps(2) = 2 /\ Steps(3) = 2 /\ Steps(4) = 1
        /\ Steps(5) = 1 /\ Steps(6) = 2 /\ Steps(7) = 2 /\ Steps(8) = 4
    BY DEF Steps
  <2>2. \A m \in 1..8 : m = 1 \/ m = 2 \/ m = 3 \/ m = 4 \/ m = 5 \/ m = 6 \/ m = 7 \/ m = 8
    OBVIOUS
  <2>3. QED
    BY <1>1, <1>2, <2>1, <2>2
<1>4. /\ Upgrade!Initial[1].op = "create if missing" /\ Upgrade!Initial[1].f = "schema_migrations"
      /\ Upgrade!Initial[2].op = "create" /\ Upgrade!Initial[2].f = "tables"
      /\ Upgrade!Initial[3].op = "create" /\ Upgrade!Initial[3].f = "views"
  BY DEF Upgrade!Initial, Upgrade!Create, Upgrade!IfMissing
<1>5. /\ Upgrade!ImportLegacy[1].op = "import config" /\ Upgrade!ImportLegacy[1].f = "import config"
      /\ Upgrade!ImportLegacy[2].op = "set legacy aside" /\ Upgrade!ImportLegacy[2].f = "set legacy aside"
      /\ Upgrade!AlbumIdentity[1].op = "merge albums" /\ Upgrade!AlbumIdentity[1].f = "merge albums"
      /\ Upgrade!AlbumIdentity[2].op = "create if missing" /\ Upgrade!AlbumIdentity[2].f = "album identity"
  BY DEF Upgrade!ImportLegacy, Upgrade!AlbumIdentity, Upgrade!IfMissing, Upgrade!Do
<1>6. /\ Upgrade!Origin[1].op = "create if missing" /\ Upgrade!Origin[1].f = "origin"
      /\ Upgrade!EnableJobs[1].op = "create if missing" /\ Upgrade!EnableJobs[1].f = "enable_jobs"
      /\ Upgrade!ProvidedNodes[1].op = "create if missing" /\ Upgrade!ProvidedNodes[1].f = "subgraph_count"
      /\ Upgrade!ProvidedNodes[2].op = "create if missing" /\ Upgrade!ProvidedNodes[2].f = "registration"
  BY DEF Upgrade!Origin, Upgrade!EnableJobs, Upgrade!ProvidedNodes, Upgrade!IfMissing
<1>7. /\ Upgrade!CommunityStats[1].op = "drop view" /\ Upgrade!CommunityStats[1].f = "drop view"
      /\ Upgrade!CommunityStats[2].op = "create" /\ Upgrade!CommunityStats[2].f = "views"
      /\ Upgrade!ExtraOutputs[1].op = "create" /\ Upgrade!ExtraOutputs[1].f = "roots_new"
      /\ Upgrade!ExtraOutputs[2].op = "copy roots" /\ Upgrade!ExtraOutputs[2].f = "copy roots"
      /\ Upgrade!ExtraOutputs[3].op = "drop roots" /\ Upgrade!ExtraOutputs[3].f = "drop roots"
      /\ Upgrade!ExtraOutputs[4].op = "rename roots_new" /\ Upgrade!ExtraOutputs[4].f = "rename roots_new"
  BY DEF Upgrade!CommunityStats, Upgrade!ExtraOutputs, Upgrade!Create, Upgrade!Do
<1>8. QED
  <2>1. /\ Upgrade!MIGRATIONS[1][1] = Upgrade!Initial[1] /\ Upgrade!MIGRATIONS[1][2] = Upgrade!Initial[2]
        /\ Upgrade!MIGRATIONS[1][3] = Upgrade!Initial[3]
        /\ Upgrade!MIGRATIONS[2][1] = Upgrade!ImportLegacy[1] /\ Upgrade!MIGRATIONS[2][2] = Upgrade!ImportLegacy[2]
        /\ Upgrade!MIGRATIONS[3][1] = Upgrade!AlbumIdentity[1] /\ Upgrade!MIGRATIONS[3][2] = Upgrade!AlbumIdentity[2]
        /\ Upgrade!MIGRATIONS[4][1] = Upgrade!Origin[1] /\ Upgrade!MIGRATIONS[5][1] = Upgrade!EnableJobs[1]
        /\ Upgrade!MIGRATIONS[6][1] = Upgrade!ProvidedNodes[1] /\ Upgrade!MIGRATIONS[6][2] = Upgrade!ProvidedNodes[2]
        /\ Upgrade!MIGRATIONS[7][1] = Upgrade!CommunityStats[1] /\ Upgrade!MIGRATIONS[7][2] = Upgrade!CommunityStats[2]
        /\ Upgrade!MIGRATIONS[8][1] = Upgrade!ExtraOutputs[1] /\ Upgrade!MIGRATIONS[8][2] = Upgrade!ExtraOutputs[2]
        /\ Upgrade!MIGRATIONS[8][3] = Upgrade!ExtraOutputs[3] /\ Upgrade!MIGRATIONS[8][4] = Upgrade!ExtraOutputs[4]
    BY <1>1
  <2>2. /\ Upgrade!MIGRATIONS[1][1].op = "create if missing" /\ Upgrade!MIGRATIONS[1][1].f = "schema_migrations"
        /\ Upgrade!MIGRATIONS[1][2].op = "create" /\ Upgrade!MIGRATIONS[1][2].f = "tables"
        /\ Upgrade!MIGRATIONS[1][3].op = "create" /\ Upgrade!MIGRATIONS[1][3].f = "views"
    BY <2>1, <1>4
  <2>3. /\ Upgrade!MIGRATIONS[2][1].op = "import config" /\ Upgrade!MIGRATIONS[2][1].f = "import config"
        /\ Upgrade!MIGRATIONS[2][2].op = "set legacy aside" /\ Upgrade!MIGRATIONS[2][2].f = "set legacy aside"
        /\ Upgrade!MIGRATIONS[3][1].op = "merge albums" /\ Upgrade!MIGRATIONS[3][1].f = "merge albums"
        /\ Upgrade!MIGRATIONS[3][2].op = "create if missing" /\ Upgrade!MIGRATIONS[3][2].f = "album identity"
    BY <2>1, <1>5
  <2>4. /\ Upgrade!MIGRATIONS[4][1].op = "create if missing" /\ Upgrade!MIGRATIONS[4][1].f = "origin"
        /\ Upgrade!MIGRATIONS[5][1].op = "create if missing" /\ Upgrade!MIGRATIONS[5][1].f = "enable_jobs"
        /\ Upgrade!MIGRATIONS[6][1].op = "create if missing" /\ Upgrade!MIGRATIONS[6][1].f = "subgraph_count"
        /\ Upgrade!MIGRATIONS[6][2].op = "create if missing" /\ Upgrade!MIGRATIONS[6][2].f = "registration"
    BY <2>1, <1>6
  <2>5. /\ Upgrade!MIGRATIONS[7][1].op = "drop view" /\ Upgrade!MIGRATIONS[7][1].f = "drop view"
        /\ Upgrade!MIGRATIONS[7][2].op = "create" /\ Upgrade!MIGRATIONS[7][2].f = "views"
        /\ Upgrade!MIGRATIONS[8][1].op = "create" /\ Upgrade!MIGRATIONS[8][1].f = "roots_new"
        /\ Upgrade!MIGRATIONS[8][2].op = "copy roots" /\ Upgrade!MIGRATIONS[8][2].f = "copy roots"
        /\ Upgrade!MIGRATIONS[8][3].op = "drop roots" /\ Upgrade!MIGRATIONS[8][3].f = "drop roots"
        /\ Upgrade!MIGRATIONS[8][4].op = "rename roots_new" /\ Upgrade!MIGRATIONS[8][4].f = "rename roots_new"
    BY <2>1, <1>7
  <2>6. QED
    BY <1>3, <2>2, <2>3, <2>4, <2>5

\* Merging moves assets between albums and loses none.
LEMMA MergedFacts ==
    ASSUME NEW d, DbShape(d)
    PROVE  /\ DbShape(Upgrade!Merged(d)) /\ Upgrade!Merged(d).version = d.version
           /\ Upgrade!Merged(d).features = d.features /\ Upgrade!Merged(d).rows = d.rows
           /\ Covers(d) => Covers(Upgrade!Merged(d))
<1> DEFINE up(x) == IF x = 0 THEN 0 ELSE Upgrade!Survivor(d, x)
           those == {x \in DOMAIN d.albums : Upgrade!Survivor(d, x) = x}
           some == [x \in those |-> [d.albums[x] EXCEPT !.parent = up(@)]]
           moved == {<<up(i[1]), i[2]>> : i \in d.items}
<1>1. Upgrade!Merged(d) = [d EXCEPT !.albums = some, !.items = moved]
  BY DEF Upgrade!Merged, Upgrade!Albums
<1>2. DOMAIN some \subseteq DOMAIN d.albums
  OBVIOUS
<1>3. {i[2] : i \in moved} = {i[2] : i \in d.items}
  <2>1. ASSUME NEW i \in moved PROVE i[2] \in {j[2] : j \in d.items}
    OBVIOUS
  <2>2. ASSUME NEW i \in d.items PROVE i[2] \in {j[2] : j \in moved}
    <3>1. <<up(i[1]), i[2]>> \in moved
      OBVIOUS
    <3>2. <<up(i[1]), i[2]>>[2] = i[2]
      OBVIOUS
    <3> HIDE DEF moved
    <3>3. QED
      BY <3>1, <3>2
  <2> HIDE DEF moved
  <2>3. QED
    BY <2>1, <2>2
<1> HIDE DEF some, moved
<1>4. /\ DbShape(Upgrade!Merged(d)) /\ Upgrade!Merged(d).version = d.version
      /\ Upgrade!Merged(d).features = d.features /\ Upgrade!Merged(d).rows = d.rows
      /\ Upgrade!Merged(d).albums = some /\ Upgrade!Merged(d).items = moved
  BY <1>1 DEF DbShape
<1>5. QED
  BY <1>2, <1>3, <1>4 DEF Covers

\* The deletion of the roots reaches the files, what was made of them and their hashing.
LEMMA ConfigStays ==
    ASSUME NEW d, DbShape(d)
    PROVE  LET r == Upgrade!DeleteFrom(d, "roots")
           IN  /\ DbShape(r) /\ r.version = d.version /\ r.features = d.features
               /\ r.albums = d.albums /\ r.items = d.items
               /\ "config" \in d.rows => "config" \in r.rows
<1> DEFINE gone == Upgrade!DeletedWith({"roots"})
<1>1. "config" \notin gone
  <2>1. \A t \in Upgrade!Cascades : t[1] # "config"
    BY DEF Upgrade!Cascades
  <2>2. \A s : "config" \notin s => "config" \notin Upgrade!With(s)
    BY <2>1 DEF Upgrade!With
  <2>3. QED
    BY <2>2 DEF Upgrade!DeletedWith
<1>2. Upgrade!DeleteFrom(d, "roots") =
        [d EXCEPT !.rows = @ \ gone, !.links = {l \in @ : l[1] \notin gone /\ l[2] \notin gone}]
  BY DEF Upgrade!DeleteFrom
<1> HIDE DEF gone
<1>3. QED
  BY <1>1, <1>2 DEF DbShape

LEMMA MergeResult ==
    ASSUME NEW d, NEW s, s.op = "merge albums"
    PROVE  Upgrade!Result(s, d) = Upgrade!Merged(d)
BY DEF Upgrade!Result

Ops == {"create", "create if missing", "import config", "set legacy aside", "merge albums",
        "drop view", "copy roots", "drop roots", "rename roots_new"}

\* The features a statement leaves.
After(s, F) ==
    CASE s.op \in {"create", "create if missing"} -> F \cup {s.f}
      [] s.op = "drop view" -> F \ {"views"}
      [] s.op = "rename roots_new" -> F \ {"roots_new"}
      [] OTHER -> F

LEMMA AfterIs ==
    ASSUME NEW s, NEW F
    PROVE  /\ s.op \in {"create", "create if missing"} => After(s, F) = F \cup {s.f}
           /\ s.op = "drop view" => After(s, F) = F \ {"views"}
           /\ s.op = "rename roots_new" => After(s, F) = F \ {"roots_new"}
           /\ s.op \in {"import config", "set legacy aside", "merge albums", "copy roots", "drop roots"} =>
                After(s, F) = F
BY DEF After

LEMMA ResultFacts ==
    ASSUME NEW d, NEW s, NEW r, r = Upgrade!Result(s, d), DbShape(d),
           s.op \in Ops
    PROVE  /\ DbShape(r) /\ r.version = d.version
           /\ "config" \in d.rows => "config" \in r.rows
           /\ Covers(d) => Covers(r)
           /\ s.op # "merge albums" => r.albums = d.albums
           /\ r.features = After(s, d.features)
           /\ s.op = "import config" /\ legacyFile = "there" => "config" \in r.rows
<1>1. CASE s.op \in {"create", "create if missing"}
  <2>1. r = [d EXCEPT !.features = @ \cup {s.f}]
    BY <1>1 DEF Upgrade!Result
  <2>2. /\ DbShape(r) /\ r.version = d.version /\ r.albums = d.albums /\ r.items = d.items /\ r.features = d.features \cup {s.f}
        /\ "config" \in d.rows => "config" \in r.rows
    BY <2>1 DEF DbShape
  <2>3. After(s, d.features) = d.features \cup {s.f}
    BY <1>1, AfterIs
  <2>4. Covers(d) => Covers(r)
    BY <2>2 DEF Covers
  <2>5. QED
    BY <1>1, <2>2, <2>3, <2>4
<1>2. CASE s.op = "import config"
  <2>1. r = IF legacyFile = "there" THEN [d EXCEPT !.rows = @ \cup {"config"}] ELSE d
    BY <1>2 DEF Upgrade!Result
  <2>2. /\ DbShape(r) /\ r.version = d.version /\ r.albums = d.albums /\ r.items = d.items /\ r.features = d.features
        /\ "config" \in d.rows => "config" \in r.rows
        /\ legacyFile = "there" => "config" \in r.rows
    BY <2>1 DEF DbShape
  <2>3. After(s, d.features) = d.features
    BY <1>2, AfterIs
  <2>4. Covers(d) => Covers(r)
    BY <2>2 DEF Covers
  <2>5. QED
    BY <1>2, <2>2, <2>3, <2>4
<1>3. CASE s.op = "set legacy aside"
  <2>1. r = d
    BY <1>3 DEF Upgrade!Result
  <2>2. /\ DbShape(r) /\ r.version = d.version /\ r.albums = d.albums /\ r.items = d.items /\ r.features = d.features
        /\ "config" \in d.rows => "config" \in r.rows
    BY <2>1
  <2>3. After(s, d.features) = d.features
    BY <1>3, AfterIs
  <2>4. Covers(d) => Covers(r)
    BY <2>2 DEF Covers
  <2>5. QED
    BY <1>3, <2>2, <2>3, <2>4
<1>4. CASE s.op = "merge albums"
  <2>1. r = Upgrade!Merged(d)
    BY <1>4 DEF Upgrade!Result
  <2>2. /\ DbShape(r) /\ r.version = d.version /\ r.features = d.features
        /\ "config" \in d.rows => "config" \in r.rows
    BY <2>1, MergedFacts
  <2>3. After(s, d.features) = d.features
    BY <1>4, AfterIs
  <2>4. Covers(d) => Covers(r)
    BY <2>1, MergedFacts
  <2>5. QED
    BY <1>4, <2>2, <2>3, <2>4
<1>5. CASE s.op = "drop view"
  <2>1. r = [d EXCEPT !.features = @ \ {"views"}]
    BY <1>5 DEF Upgrade!Result
  <2>2. /\ DbShape(r) /\ r.version = d.version /\ r.albums = d.albums /\ r.items = d.items /\ r.features = d.features \ {"views"}
        /\ "config" \in d.rows => "config" \in r.rows
    BY <2>1 DEF DbShape
  <2>3. After(s, d.features) = d.features \ {"views"}
    BY <1>5, AfterIs
  <2>4. Covers(d) => Covers(r)
    BY <2>2 DEF Covers
  <2>5. QED
    BY <1>5, <2>2, <2>3, <2>4
<1>6. CASE s.op = "copy roots"
  <2>1. r = [d EXCEPT !.rows = IF "roots" \in @ THEN @ \cup {"roots_new"} ELSE @]
    BY <1>6 DEF Upgrade!Result
  <2>2. /\ DbShape(r) /\ r.version = d.version /\ r.albums = d.albums /\ r.items = d.items /\ r.features = d.features
        /\ "config" \in d.rows => "config" \in r.rows
    BY <2>1 DEF DbShape
  <2>3. After(s, d.features) = d.features
    BY <1>6, AfterIs
  <2>4. Covers(d) => Covers(r)
    BY <2>2 DEF Covers
  <2>5. QED
    BY <1>6, <2>2, <2>3, <2>4
<1>7. CASE s.op = "drop roots"
  <2>1. r = Upgrade!DeleteFrom(d, "roots")
    BY <1>7 DEF Upgrade!Result
  <2>2. /\ DbShape(r) /\ r.version = d.version /\ r.albums = d.albums /\ r.items = d.items /\ r.features = d.features
        /\ "config" \in d.rows => "config" \in r.rows
    BY <2>1, ConfigStays
  <2>3. After(s, d.features) = d.features
    BY <1>7, AfterIs
  <2>4. Covers(d) => Covers(r)
    BY <2>2 DEF Covers
  <2>5. QED
    BY <1>7, <2>2, <2>3, <2>4
<1>8. CASE s.op = "rename roots_new"
  <2> DEFINE named == {IF t = "roots_new" THEN "roots" ELSE t : t \in d.rows}
  <2>1. r = [d EXCEPT !.features = @ \ {"roots_new"}, !.rows = named]
    BY <1>8 DEF Upgrade!Result
  <2>2. "config" \in d.rows => "config" \in named
    OBVIOUS
  <2> HIDE DEF named
  <2>3. /\ DbShape(r) /\ r.version = d.version /\ r.albums = d.albums /\ r.items = d.items /\ r.features = d.features \ {"roots_new"}
        /\ "config" \in d.rows => "config" \in r.rows
    BY <2>1, <2>2 DEF DbShape
  <2>4. After(s, d.features) = d.features \ {"roots_new"}
    BY <1>8, AfterIs
  <2>5. Covers(d) => Covers(r)
    BY <2>3 DEF Covers
  <2>6. QED
    BY <1>8, <2>3, <2>4, <2>5
<1>9. QED
  BY <1>1, <1>2, <1>3, <1>4, <1>5, <1>6, <1>7, <1>8 DEF Ops

\* Albums that are the same are one of each as before.
LEMMA SameAlbums ==
    ASSUME NEW d, NEW e, d.albums = e.albums, Upgrade!ByIdentity(d)
    PROVE  Upgrade!ByIdentity(e)
BY DEF Upgrade!ByIdentity, Upgrade!Albums, Upgrade!Key

LEMMA UpgradeInit ==
    ASSUME Upgrade!Init
    PROVE  UpgradeInv
<1>1. /\ db \in Upgrade!StartState /\ work = db /\ legacyFile \in {"none", "there"}
      /\ at = Upgrade!Closed /\ importCut = FALSE /\ at.m = 0
  BY DEF Upgrade!Init, Upgrade!Closed
<1>2. \E v \in {0, 2, 7, 9} : \E x, y :
        /\ db = Upgrade!Older(v, x, y)
        /\ x = Upgrade!NoAlbums \/ (v = 2 /\ y = {<<a, a>> : a \in OldAlbum} /\ DOMAIN x = OldAlbum)
  BY <1>1 DEF Upgrade!StartState, Upgrade!Duplicated
<1>11. PICK v \in {0, 2, 7, 9} : \E x, y :
        /\ db = Upgrade!Older(v, x, y)
        /\ x = Upgrade!NoAlbums \/ (v = 2 /\ y = {<<a, a>> : a \in OldAlbum} /\ DOMAIN x = OldAlbum)
  BY <1>2
<1>3. PICK x, y :
        /\ db = Upgrade!Older(v, x, y)
        /\ x = Upgrade!NoAlbums \/ (v = 2 /\ y = {<<a, a>> : a \in OldAlbum} /\ DOMAIN x = OldAlbum)
  BY <1>11
<1>4. /\ DbShape(db) /\ db.version = v /\ db.features = Upgrade!FeaturesOf(v) /\ db.albums = x /\ db.items = y
  BY <1>3 DEF Upgrade!Older, DbShape
<1>5. DOMAIN Upgrade!NoAlbums = {}
  BY DEF Upgrade!NoAlbums
<1>6. Covers(db)
  <2>1. {i[2] : i \in {<<a, a>> : a \in OldAlbum}} = OldAlbum
    <3> DEFINE own == {<<a, a>> : a \in OldAlbum}
    <3>1. \A i \in own : i[2] \in OldAlbum
      OBVIOUS
    <3>2. ASSUME NEW a \in OldAlbum PROVE a \in {i[2] : i \in own}
      <4>1. <<a, a>> \in own /\ <<a, a>>[2] = a
        OBVIOUS
      <4> HIDE DEF own
      <4>2. QED
        BY <4>1
    <3> HIDE DEF own
    <3>3. {i[2] : i \in own} = OldAlbum
      BY <3>1, <3>2
    <3>4. QED
      BY <3>3 DEF own
  <2>2. QED
    BY <1>3, <1>4, <1>5, <2>1 DEF Covers
<1>7. db.version \in 3..8 => Upgrade!ByIdentity(db)
  BY <1>3, <1>4, <1>5 DEF Upgrade!ByIdentity, Upgrade!Albums
<1>8. db.version = 0 => db.features \subseteq FirstFeatures
  BY <1>4 DEF Upgrade!FeaturesOf
<1>9. Imported
  BY <1>1 DEF Imported
<1>10. QED
  BY <1>1, <1>4, <1>6, <1>7, <1>8, <1>9 DEF UpgradeInv, Between

LEMMA StartKeepsDb ==
    ASSUME UpgradeInv, Upgrade!StartUp
    PROVE  UpgradeInv'
<1>1. state = "down" /\ work' = db /\ UNCHANGED <<db, legacyFile, at, importCut, crashes>>
  BY DEF Upgrade!StartUp
<1>2. Between /\ at.m = 0
  BY <1>1 DEF UpgradeInv, Within, Between, Upgrade!Closed
<1>3. Between' /\ work' = work
  BY <1>1, <1>2 DEF Between, Upgrade!Closed
<1>4. Imported'
  BY <1>1, <1>2, <1>3 DEF UpgradeInv, Imported
<1>5. QED
  BY <1>1, <1>3, <1>4 DEF UpgradeInv

LEMMA BeginUpgrades ==
    ASSUME UpgradeInv, Upgrade!Begin
    PROVE  UpgradeInv'
<1> DEFINE m == db.version + 1
<1>1. /\ state = "migrating" /\ at = Upgrade!Closed /\ db.version < 8
      /\ at' = [m |-> m, i |-> 1, open |-> TRUE]
      /\ UNCHANGED <<db, work, legacyFile, state, importCut, crashes>>
  BY DEF Upgrade!Begin, Upgrade!SchemaVersion
<1>2. at.m = 0 /\ work = db /\ db.version \in Nat
  BY <1>1 DEF UpgradeInv, Between, Within, Upgrade!Closed
<1>3. at'.m = m /\ at'.i = 1 /\ m \in 1..8 /\ at' = [m |-> at'.m, i |-> at'.i, open |-> at'.open]
  BY <1>1, <1>2
<1>4. m = 1 => Started(1, work)
  BY <1>2 DEF UpgradeInv, Started
<1>5. m # 1 => work.features = Reached(m, 1)
  <2>1. m # 1 => work.features = Upgrade!FeaturesOf(m - 1)
    BY <1>2, <1>3 DEF UpgradeInv
  <2>2. m = 3 \/ m = 6 \/ m = 7 \/ m = 8 \/ m \notin {3, 6, 7, 8}
    OBVIOUS
  <2>3. m # 1 => Reached(m, 1) = Upgrade!FeaturesOf(m - 1)
    BY <1>3, <2>2 DEF Reached
  <2>4. QED
    BY <2>1, <2>3
<1>6. m > 3 => Upgrade!ByIdentity(work)
  BY <1>2, <1>3 DEF UpgradeInv
<1>7. 1 \in 1..(Steps(m) + 1)
  BY <1>3 DEF Steps
<1> HIDE DEF m
<1>8. Within'
  BY <1>1, <1>2, <1>3, <1>4, <1>5, <1>6, <1>7 DEF Within, Started, m
<1>9. Imported'
  BY <1>1, <1>2, <1>3 DEF UpgradeInv, Imported, m
<1>10. QED
  BY <1>1, <1>8, <1>9 DEF UpgradeInv

LEMMA StatementFailsKeeps ==
    ASSUME UpgradeInv, Upgrade!StatementFails \/ Upgrade!Die
    PROVE  UpgradeInv'
<1>1. work' = db /\ at' = Upgrade!Closed /\ UNCHANGED <<db, legacyFile>>
  BY DEF Upgrade!StatementFails, Upgrade!Die
<1>2. Between' /\ at'.m = 0
  BY <1>1 DEF Between, Upgrade!Closed
<1>3. at.m = 2 /\ at.i = 3 => importCut'
  <2>1. at.m = 2 /\ at.i = 3 => ~Upgrade!StatementFails
    <3>1. 2 \in 1..8 /\ Steps(2) = 2
      BY DEF Steps
    <3>2. Len(Upgrade!MIGRATIONS[2]) = 2
      BY <3>1, MigrationTable
    <3>3. Upgrade!StatementFails => at.i <= Len(Upgrade!MIGRATIONS[at.m])
      BY DEF Upgrade!StatementFails, Upgrade!Script
    <3>4. ASSUME at.m = 2, at.i = 3, at.i <= Len(Upgrade!MIGRATIONS[at.m]) PROVE FALSE
      <4> DEFINE len == Len(Upgrade!MIGRATIONS[2])
      <4>1. Len(Upgrade!MIGRATIONS[at.m]) = len /\ len = 2
        BY <3>2, <3>4
      <4>2. 3 <= len
        BY <3>4, <4>1
      <4> HIDE DEF len
      <4>3. QED
        BY <4>1, <4>2
    <3>5. QED
      BY <3>3, <3>4
  <2>2. at.m = 2 /\ at.i = 3 /\ Upgrade!Die => importCut'
    <3>1. at.m = 2 /\ at.i > 2 /\ Upgrade!Die => importCut'
      BY Zenon DEF Upgrade!Die
    <3>2. at.i = 3 => at.i > 2
      OBVIOUS
    <3>3. QED
      BY <3>1, <3>2
  <2>3. QED
    BY <2>1, <2>2
<1>4. importCut => importCut'
  BY DEF Upgrade!StatementFails, Upgrade!Die
<1>5. Imported'
  BY <1>1, <1>2, <1>3, <1>4 DEF UpgradeInv, Imported
<1>6. QED
  BY <1>1, <1>2, <1>5 DEF UpgradeInv

LEMMA CommitKeeps ==
    ASSUME UpgradeInv, Upgrade!Commit
    PROVE  UpgradeInv'
<1> DEFINE m == at.m
           d == Upgrade!Versioned(work, m)
<1>1. /\ m > 0 /\ at.i > Len(Upgrade!MIGRATIONS[m]) /\ work' = d /\ db' = d /\ at' = Upgrade!Closed
      /\ UNCHANGED <<legacyFile, state, importCut, crashes>>
  BY DEF Upgrade!Commit, Upgrade!Script
<1>2. Within
  BY <1>1 DEF UpgradeInv, Between, Upgrade!Closed
<1>3. m \in 1..8 /\ at.i = Steps(m) + 1 /\ m = db.version + 1
  <2>1. m \in 1..8 /\ at.i \in 1..(Steps(m) + 1) /\ m = db.version + 1
    BY <1>2 DEF Within
  <2>2. Len(Upgrade!MIGRATIONS[m]) = Steps(m) /\ Steps(m) \in Nat
    BY <2>1, MigrationTable DEF Steps
  <2>3. QED
    BY <1>1, <2>1, <2>2
<1>4. /\ DbShape(d) /\ d.version = m /\ d.features = work.features /\ d.rows = work.rows
      /\ d.albums = work.albums /\ d.items = work.items
  BY DEF UpgradeInv, Upgrade!Versioned, DbShape
<1>5. d.features = Upgrade!FeaturesOf(m)
  <2>1. CASE m = 1
    <3>1. Started(4, work)
      BY <1>2, <1>3, <2>1 DEF Within, Steps
    <3>2. work.features = FirstFeatures
      BY <3>1 DEF Started, FirstFeatures
    <3>3. QED
      BY <1>4, <2>1, <3>2 DEF FirstFeatures, Upgrade!FeaturesOf
  <2>2. CASE m # 1
    <3>1. work.features = Reached(m, Steps(m) + 1)
      BY <1>2, <1>3, <2>2 DEF Within
    <3>2. m = 2 \/ m = 3 \/ m = 4 \/ m = 5 \/ m = 6 \/ m = 7 \/ m = 8
      BY <1>3, <2>2
    <3>3. ASSUME m = 2 \/ m = 4 \/ m = 5 PROVE Reached(m, Steps(m) + 1) = Upgrade!FeaturesOf(m)
      BY <3>3 DEF Reached, Steps
    <3>4. ASSUME m = 3 PROVE Reached(m, Steps(m) + 1) = Upgrade!FeaturesOf(m)
      BY <3>4 DEF Reached, Steps
    <3>5. ASSUME m = 6 PROVE Reached(m, Steps(m) + 1) = Upgrade!FeaturesOf(m)
      BY <3>5 DEF Reached, Steps
    <3>6. ASSUME m = 7 PROVE Reached(m, Steps(m) + 1) = Upgrade!FeaturesOf(m)
      BY <3>6 DEF Reached, Steps, Upgrade!FeaturesOf
    <3>7. ASSUME m = 8 PROVE Reached(m, Steps(m) + 1) = Upgrade!FeaturesOf(m)
      BY <3>7 DEF Reached, Steps, Upgrade!FeaturesOf
    <3>8. QED
      BY <1>4, <3>1, <3>2, <3>3, <3>4, <3>5, <3>6, <3>7
  <2>3. QED
    BY <2>1, <2>2
<1>6. m \in 3..8 => Upgrade!ByIdentity(d)
  <2>1. m \in 3..8 => Upgrade!ByIdentity(work)
    BY <1>2, <1>3 DEF Within, Steps
  <2>2. QED
    BY <1>4, <2>1, SameAlbums
<1>7. Covers(d)
  BY <1>4 DEF UpgradeInv, Covers
<1> HIDE DEF d
<1>8. Between' /\ at'.m = 0
  BY <1>1 DEF Between, Upgrade!Closed
<1>9. Imported'
  BY <1>1, <1>3, <1>4, <1>8 DEF UpgradeInv, Imported, Steps
<1>10. QED
  BY <1>1, <1>3, <1>4, <1>5, <1>6, <1>7, <1>8, <1>9 DEF UpgradeInv


Here(m, i, a, b) == m = a /\ i = b

\* Statement i of migration m is one of these, and takes the features to the next point.
Leads(m, i) ==
    LET s == Upgrade!MIGRATIONS[m][i]
    IN  /\ s.op \in Ops
        /\ s.op = "merge albums" <=> Here(m, i, 3, 1)
        /\ s.op = "set legacy aside" <=> Here(m, i, 2, 2)
        /\ s.op = "import config" <=> Here(m, i, 2, 1)
        /\ m = 1 => \A d, e : Started(i, d) /\ e.features = After(s, d.features) => Started(i + 1, e)
        /\ m # 1 => After(s, Reached(m, i)) = Reached(m, i + 1)

\* What each version adds.
LEMMA Features ==
    /\ Upgrade!FeaturesOf(2) = Upgrade!FeaturesOf(1)
    /\ Upgrade!FeaturesOf(3) = Upgrade!FeaturesOf(2) \cup {"album identity"}
    /\ Upgrade!FeaturesOf(4) = Upgrade!FeaturesOf(3) \cup {"origin"}
    /\ Upgrade!FeaturesOf(5) = Upgrade!FeaturesOf(4) \cup {"enable_jobs"}
    /\ Upgrade!FeaturesOf(6) = (Upgrade!FeaturesOf(5) \cup {"subgraph_count"}) \cup {"registration"}
    /\ Upgrade!FeaturesOf(7) = Upgrade!FeaturesOf(6)
    /\ Upgrade!FeaturesOf(6) = (Upgrade!FeaturesOf(6) \ {"views"}) \cup {"views"}
    /\ Upgrade!FeaturesOf(7) = (Upgrade!FeaturesOf(7) \cup {"roots_new"}) \ {"roots_new"}
    /\ Upgrade!FeaturesOf(8) = Upgrade!FeaturesOf(7)
<1> DEFINE old == {"schema_migrations", "tables", "views"}
<1>1. /\ Upgrade!FeaturesOf(1) = old
      /\ Upgrade!FeaturesOf(2) = old
      /\ Upgrade!FeaturesOf(3) = old \cup {"album identity"}
  BY DEF Upgrade!FeaturesOf
<1>2. Upgrade!FeaturesOf(4) = (old \cup {"album identity"}) \cup {"origin"}
  BY DEF Upgrade!FeaturesOf
<1>3. Upgrade!FeaturesOf(5) = ((old \cup {"album identity"}) \cup {"origin"}) \cup {"enable_jobs"}
  BY DEF Upgrade!FeaturesOf
<1>4. /\ Upgrade!FeaturesOf(6) = (((old \cup {"album identity"}) \cup {"origin"}) \cup {"enable_jobs"})
                                   \cup {"subgraph_count", "registration"}
      /\ Upgrade!FeaturesOf(7) = Upgrade!FeaturesOf(6) /\ Upgrade!FeaturesOf(8) = Upgrade!FeaturesOf(6)
  BY DEF Upgrade!FeaturesOf
<1>5. "views" \in Upgrade!FeaturesOf(6) /\ "roots_new" \notin Upgrade!FeaturesOf(6)
  BY <1>4
<1> HIDE DEF old
<1>6. Upgrade!FeaturesOf(6) = (Upgrade!FeaturesOf(5) \cup {"subgraph_count"}) \cup {"registration"}
  BY <1>3, <1>4
<1>7. /\ Upgrade!FeaturesOf(6) = (Upgrade!FeaturesOf(6) \ {"views"}) \cup {"views"}
      /\ Upgrade!FeaturesOf(6) = (Upgrade!FeaturesOf(6) \cup {"roots_new"}) \ {"roots_new"}
  BY <1>5
<1>8. QED
  BY <1>1, <1>2, <1>3, <1>4, <1>6, <1>7

LEMMA InitialLeads ==
    Leads(1, 1) /\ Leads(1, 2) /\ Leads(1, 3)
<1>1. Leads(1, 1)
  <2> DEFINE s == Upgrade!MIGRATIONS[1][1]
  <2>1. s.op = "create if missing" /\ s.f = "schema_migrations"
    BY MigrationTable
  <2> HIDE DEF s
  <2>2. \A F : After(s, F) = F \cup {"schema_migrations"}
    BY <2>1, AfterIs
  <2>3. ASSUME NEW d, NEW e, Started(1, d), e.features = After(s, d.features)
        PROVE  Started(2, e)
    <3>1. e.features = d.features \cup {"schema_migrations"}
      BY <2>2, <2>3
    <3>2. QED
      BY <2>3, <3>1 DEF Started, FirstFeatures
  <2>4. 1 + 1 = 2
    OBVIOUS
  <2>5. ~Here(1, 1, 3, 1) /\ ~Here(1, 1, 2, 2) /\ ~Here(1, 1, 2, 1)
    BY DEF Here
  <2>6. /\ s.op \in Ops
        /\ s.op = "merge albums" <=> Here(1, 1, 3, 1)
        /\ s.op = "set legacy aside" <=> Here(1, 1, 2, 2)
        /\ s.op = "import config" <=> Here(1, 1, 2, 1)
    BY <2>1, <2>5 DEF Ops
  <2>7. QED
    BY <2>3, <2>4, <2>6 DEF Leads, s
<1>2. Leads(1, 2)
  <2> DEFINE s == Upgrade!MIGRATIONS[1][2]
  <2>1. s.op = "create" /\ s.f = "tables"
    BY MigrationTable
  <2> HIDE DEF s
  <2>2. \A F : After(s, F) = F \cup {"tables"}
    BY <2>1, AfterIs
  <2>3. ASSUME NEW d, NEW e, Started(2, d), e.features = After(s, d.features)
        PROVE  Started(3, e)
    <3>1. e.features = d.features \cup {"tables"}
      BY <2>2, <2>3
    <3>2. QED
      BY <2>3, <3>1 DEF Started, FirstFeatures
  <2>4. 2 + 1 = 3
    OBVIOUS
  <2>5. ~Here(1, 2, 3, 1) /\ ~Here(1, 2, 2, 2) /\ ~Here(1, 2, 2, 1)
    BY DEF Here
  <2>6. /\ s.op \in Ops
        /\ s.op = "merge albums" <=> Here(1, 2, 3, 1)
        /\ s.op = "set legacy aside" <=> Here(1, 2, 2, 2)
        /\ s.op = "import config" <=> Here(1, 2, 2, 1)
    BY <2>1, <2>5 DEF Ops
  <2>7. QED
    BY <2>3, <2>4, <2>6 DEF Leads, s
<1>3. Leads(1, 3)
  <2> DEFINE s == Upgrade!MIGRATIONS[1][3]
  <2>1. s.op = "create" /\ s.f = "views"
    BY MigrationTable
  <2> HIDE DEF s
  <2>2. \A F : After(s, F) = F \cup {"views"}
    BY <2>1, AfterIs
  <2>3. ASSUME NEW d, NEW e, Started(3, d), e.features = After(s, d.features)
        PROVE  Started(4, e)
    <3>1. e.features = d.features \cup {"views"}
      BY <2>2, <2>3
    <3>2. QED
      BY <2>3, <3>1 DEF Started, FirstFeatures
  <2>4. 3 + 1 = 4
    OBVIOUS
  <2>5. ~Here(1, 3, 3, 1) /\ ~Here(1, 3, 2, 2) /\ ~Here(1, 3, 2, 1)
    BY DEF Here
  <2>6. /\ s.op \in Ops
        /\ s.op = "merge albums" <=> Here(1, 3, 3, 1)
        /\ s.op = "set legacy aside" <=> Here(1, 3, 2, 2)
        /\ s.op = "import config" <=> Here(1, 3, 2, 1)
    BY <2>1, <2>5 DEF Ops
  <2>7. QED
    BY <2>3, <2>4, <2>6 DEF Leads, s
<1>4. QED
  BY <1>1, <1>2, <1>3

LEMMA ImportLeads ==
    Leads(2, 1) /\ Leads(2, 2)
<1>1. Leads(2, 1)
  <2> DEFINE s == Upgrade!MIGRATIONS[2][1]
  <2>1. s.op = "import config" /\ s.f = "import config"
    BY MigrationTable
  <2> HIDE DEF s
  <2>2. \A F : After(s, F) = F
    BY <2>1, AfterIs
  <2>3. After(s, Reached(2, 1)) = Reached(2, 1 + 1)
    <3>1. Reached(2, 1) = Upgrade!FeaturesOf(1)
      BY DEF Reached
    <3>2. Reached(2, 1 + 1) = Upgrade!FeaturesOf(2)
      BY DEF Reached
    <3>3. QED
      BY <2>2, <3>1, <3>2, Features
  <2>4. ~Here(2, 1, 3, 1) /\ ~Here(2, 1, 2, 2) /\ Here(2, 1, 2, 1)
    BY DEF Here
  <2>5. /\ s.op \in Ops
        /\ s.op = "merge albums" <=> Here(2, 1, 3, 1)
        /\ s.op = "set legacy aside" <=> Here(2, 1, 2, 2)
        /\ s.op = "import config" <=> Here(2, 1, 2, 1)
    BY <2>1, <2>4 DEF Ops
  <2>6. (2 = 1) = FALSE
    OBVIOUS
  <2>7. QED
    BY <2>3, <2>6, <2>5 DEF Leads, s
<1>2. Leads(2, 2)
  <2> DEFINE s == Upgrade!MIGRATIONS[2][2]
  <2>1. s.op = "set legacy aside" /\ s.f = "set legacy aside"
    BY MigrationTable
  <2> HIDE DEF s
  <2>2. \A F : After(s, F) = F
    BY <2>1, AfterIs
  <2>3. After(s, Reached(2, 2)) = Reached(2, 2 + 1)
    <3>1. Reached(2, 2) = Upgrade!FeaturesOf(2)
      BY DEF Reached
    <3>2. Reached(2, 2 + 1) = Upgrade!FeaturesOf(2)
      BY DEF Reached
    <3>3. QED
      BY <2>2, <3>1, <3>2, Features
  <2>4. ~Here(2, 2, 3, 1) /\ Here(2, 2, 2, 2) /\ ~Here(2, 2, 2, 1)
    BY DEF Here
  <2>5. /\ s.op \in Ops
        /\ s.op = "merge albums" <=> Here(2, 2, 3, 1)
        /\ s.op = "set legacy aside" <=> Here(2, 2, 2, 2)
        /\ s.op = "import config" <=> Here(2, 2, 2, 1)
    BY <2>1, <2>4 DEF Ops
  <2>6. (2 = 1) = FALSE
    OBVIOUS
  <2>7. QED
    BY <2>3, <2>6, <2>5 DEF Leads, s
<1>3. QED
  BY <1>1, <1>2

LEMMA IdentityLeads ==
    Leads(3, 1) /\ Leads(3, 2)
<1>1. Leads(3, 1)
  <2> DEFINE s == Upgrade!MIGRATIONS[3][1]
  <2>1. s.op = "merge albums" /\ s.f = "merge albums"
    BY MigrationTable
  <2> HIDE DEF s
  <2>2. \A F : After(s, F) = F
    BY <2>1, AfterIs
  <2>3. After(s, Reached(3, 1)) = Reached(3, 1 + 1)
    <3>1. Reached(3, 1) = Upgrade!FeaturesOf(2)
      BY DEF Reached
    <3>2. Reached(3, 1 + 1) = Upgrade!FeaturesOf(2)
      BY DEF Reached
    <3>3. QED
      BY <2>2, <3>1, <3>2, Features
  <2>4. Here(3, 1, 3, 1) /\ ~Here(3, 1, 2, 2) /\ ~Here(3, 1, 2, 1)
    BY DEF Here
  <2>5. /\ s.op \in Ops
        /\ s.op = "merge albums" <=> Here(3, 1, 3, 1)
        /\ s.op = "set legacy aside" <=> Here(3, 1, 2, 2)
        /\ s.op = "import config" <=> Here(3, 1, 2, 1)
    BY <2>1, <2>4 DEF Ops
  <2>6. (3 = 1) = FALSE
    OBVIOUS
  <2>7. QED
    BY <2>3, <2>6, <2>5 DEF Leads, s
<1>2. Leads(3, 2)
  <2> DEFINE s == Upgrade!MIGRATIONS[3][2]
  <2>1. s.op = "create if missing" /\ s.f = "album identity"
    BY MigrationTable
  <2> HIDE DEF s
  <2>2. \A F : After(s, F) = F \cup {"album identity"}
    BY <2>1, AfterIs
  <2>3. After(s, Reached(3, 2)) = Reached(3, 2 + 1)
    <3>1. Reached(3, 2) = Upgrade!FeaturesOf(2)
      BY DEF Reached
    <3>2. Reached(3, 2 + 1) = Upgrade!FeaturesOf(3)
      BY DEF Reached
    <3>3. QED
      BY <2>2, <3>1, <3>2, Features
  <2>4. ~Here(3, 2, 3, 1) /\ ~Here(3, 2, 2, 2) /\ ~Here(3, 2, 2, 1)
    BY DEF Here
  <2>5. /\ s.op \in Ops
        /\ s.op = "merge albums" <=> Here(3, 2, 3, 1)
        /\ s.op = "set legacy aside" <=> Here(3, 2, 2, 2)
        /\ s.op = "import config" <=> Here(3, 2, 2, 1)
    BY <2>1, <2>4 DEF Ops
  <2>6. (3 = 1) = FALSE
    OBVIOUS
  <2>7. QED
    BY <2>3, <2>6, <2>5 DEF Leads, s
<1>3. QED
  BY <1>1, <1>2

LEMMA OriginLeads ==
    Leads(4, 1)
<1>1. Leads(4, 1)
  <2> DEFINE s == Upgrade!MIGRATIONS[4][1]
  <2>1. s.op = "create if missing" /\ s.f = "origin"
    BY MigrationTable
  <2> HIDE DEF s
  <2>2. \A F : After(s, F) = F \cup {"origin"}
    BY <2>1, AfterIs
  <2>3. After(s, Reached(4, 1)) = Reached(4, 1 + 1)
    <3>1. Reached(4, 1) = Upgrade!FeaturesOf(3)
      BY DEF Reached
    <3>2. Reached(4, 1 + 1) = Upgrade!FeaturesOf(4)
      BY DEF Reached
    <3>3. QED
      BY <2>2, <3>1, <3>2, Features
  <2>4. ~Here(4, 1, 3, 1) /\ ~Here(4, 1, 2, 2) /\ ~Here(4, 1, 2, 1)
    BY DEF Here
  <2>5. /\ s.op \in Ops
        /\ s.op = "merge albums" <=> Here(4, 1, 3, 1)
        /\ s.op = "set legacy aside" <=> Here(4, 1, 2, 2)
        /\ s.op = "import config" <=> Here(4, 1, 2, 1)
    BY <2>1, <2>4 DEF Ops
  <2>6. (4 = 1) = FALSE
    OBVIOUS
  <2>7. QED
    BY <2>3, <2>6, <2>5 DEF Leads, s
<1>2. QED
  BY <1>1

LEMMA EnableLeads ==
    Leads(5, 1)
<1>1. Leads(5, 1)
  <2> DEFINE s == Upgrade!MIGRATIONS[5][1]
  <2>1. s.op = "create if missing" /\ s.f = "enable_jobs"
    BY MigrationTable
  <2> HIDE DEF s
  <2>2. \A F : After(s, F) = F \cup {"enable_jobs"}
    BY <2>1, AfterIs
  <2>3. After(s, Reached(5, 1)) = Reached(5, 1 + 1)
    <3>1. Reached(5, 1) = Upgrade!FeaturesOf(4)
      BY DEF Reached
    <3>2. Reached(5, 1 + 1) = Upgrade!FeaturesOf(5)
      BY DEF Reached
    <3>3. QED
      BY <2>2, <3>1, <3>2, Features
  <2>4. ~Here(5, 1, 3, 1) /\ ~Here(5, 1, 2, 2) /\ ~Here(5, 1, 2, 1)
    BY DEF Here
  <2>5. /\ s.op \in Ops
        /\ s.op = "merge albums" <=> Here(5, 1, 3, 1)
        /\ s.op = "set legacy aside" <=> Here(5, 1, 2, 2)
        /\ s.op = "import config" <=> Here(5, 1, 2, 1)
    BY <2>1, <2>4 DEF Ops
  <2>6. (5 = 1) = FALSE
    OBVIOUS
  <2>7. QED
    BY <2>3, <2>6, <2>5 DEF Leads, s
<1>2. QED
  BY <1>1

LEMMA ProvidedLeads ==
    Leads(6, 1) /\ Leads(6, 2)
<1>1. Leads(6, 1)
  <2> DEFINE s == Upgrade!MIGRATIONS[6][1]
  <2>1. s.op = "create if missing" /\ s.f = "subgraph_count"
    BY MigrationTable
  <2> HIDE DEF s
  <2>2. \A F : After(s, F) = F \cup {"subgraph_count"}
    BY <2>1, AfterIs
  <2>3. After(s, Reached(6, 1)) = Reached(6, 1 + 1)
    <3>1. Reached(6, 1) = Upgrade!FeaturesOf(5)
      BY DEF Reached
    <3>2. Reached(6, 1 + 1) = Upgrade!FeaturesOf(5) \cup {"subgraph_count"}
      BY DEF Reached
    <3>3. QED
      BY <2>2, <3>1, <3>2, Features
  <2>4. ~Here(6, 1, 3, 1) /\ ~Here(6, 1, 2, 2) /\ ~Here(6, 1, 2, 1)
    BY DEF Here
  <2>5. /\ s.op \in Ops
        /\ s.op = "merge albums" <=> Here(6, 1, 3, 1)
        /\ s.op = "set legacy aside" <=> Here(6, 1, 2, 2)
        /\ s.op = "import config" <=> Here(6, 1, 2, 1)
    BY <2>1, <2>4 DEF Ops
  <2>6. (6 = 1) = FALSE
    OBVIOUS
  <2>7. QED
    BY <2>3, <2>6, <2>5 DEF Leads, s
<1>2. Leads(6, 2)
  <2> DEFINE s == Upgrade!MIGRATIONS[6][2]
  <2>1. s.op = "create if missing" /\ s.f = "registration"
    BY MigrationTable
  <2> HIDE DEF s
  <2>2. \A F : After(s, F) = F \cup {"registration"}
    BY <2>1, AfterIs
  <2>3. After(s, Reached(6, 2)) = Reached(6, 2 + 1)
    <3>1. Reached(6, 2) = Upgrade!FeaturesOf(5) \cup {"subgraph_count"}
      BY DEF Reached
    <3>2. Reached(6, 2 + 1) = Upgrade!FeaturesOf(6)
      BY DEF Reached
    <3>3. QED
      BY <2>2, <3>1, <3>2, Features
  <2>4. ~Here(6, 2, 3, 1) /\ ~Here(6, 2, 2, 2) /\ ~Here(6, 2, 2, 1)
    BY DEF Here
  <2>5. /\ s.op \in Ops
        /\ s.op = "merge albums" <=> Here(6, 2, 3, 1)
        /\ s.op = "set legacy aside" <=> Here(6, 2, 2, 2)
        /\ s.op = "import config" <=> Here(6, 2, 2, 1)
    BY <2>1, <2>4 DEF Ops
  <2>6. (6 = 1) = FALSE
    OBVIOUS
  <2>7. QED
    BY <2>3, <2>6, <2>5 DEF Leads, s
<1>3. QED
  BY <1>1, <1>2

LEMMA CommunityLeads ==
    Leads(7, 1) /\ Leads(7, 2)
<1>1. Leads(7, 1)
  <2> DEFINE s == Upgrade!MIGRATIONS[7][1]
  <2>1. s.op = "drop view" /\ s.f = "drop view"
    BY MigrationTable
  <2> HIDE DEF s
  <2>2. \A F : After(s, F) = F \ {"views"}
    BY <2>1, AfterIs
  <2>3. After(s, Reached(7, 1)) = Reached(7, 1 + 1)
    <3>1. Reached(7, 1) = Upgrade!FeaturesOf(6)
      BY DEF Reached
    <3>2. Reached(7, 1 + 1) = Upgrade!FeaturesOf(6) \ {"views"}
      BY DEF Reached
    <3>3. QED
      BY <2>2, <3>1, <3>2, Features
  <2>4. ~Here(7, 1, 3, 1) /\ ~Here(7, 1, 2, 2) /\ ~Here(7, 1, 2, 1)
    BY DEF Here
  <2>5. /\ s.op \in Ops
        /\ s.op = "merge albums" <=> Here(7, 1, 3, 1)
        /\ s.op = "set legacy aside" <=> Here(7, 1, 2, 2)
        /\ s.op = "import config" <=> Here(7, 1, 2, 1)
    BY <2>1, <2>4 DEF Ops
  <2>6. (7 = 1) = FALSE
    OBVIOUS
  <2>7. QED
    BY <2>3, <2>6, <2>5 DEF Leads, s
<1>2. Leads(7, 2)
  <2> DEFINE s == Upgrade!MIGRATIONS[7][2]
  <2>1. s.op = "create" /\ s.f = "views"
    BY MigrationTable
  <2> HIDE DEF s
  <2>2. \A F : After(s, F) = F \cup {"views"}
    BY <2>1, AfterIs
  <2>3. After(s, Reached(7, 2)) = Reached(7, 2 + 1)
    <3>1. Reached(7, 2) = Upgrade!FeaturesOf(6) \ {"views"}
      BY DEF Reached
    <3>2. Reached(7, 2 + 1) = Upgrade!FeaturesOf(6)
      BY DEF Reached
    <3>3. QED
      BY <2>2, <3>1, <3>2, Features
  <2>4. ~Here(7, 2, 3, 1) /\ ~Here(7, 2, 2, 2) /\ ~Here(7, 2, 2, 1)
    BY DEF Here
  <2>5. /\ s.op \in Ops
        /\ s.op = "merge albums" <=> Here(7, 2, 3, 1)
        /\ s.op = "set legacy aside" <=> Here(7, 2, 2, 2)
        /\ s.op = "import config" <=> Here(7, 2, 2, 1)
    BY <2>1, <2>4 DEF Ops
  <2>6. (7 = 1) = FALSE
    OBVIOUS
  <2>7. QED
    BY <2>3, <2>6, <2>5 DEF Leads, s
<1>3. QED
  BY <1>1, <1>2

LEMMA ExtraLeads ==
    Leads(8, 1) /\ Leads(8, 2) /\ Leads(8, 3) /\ Leads(8, 4)
<1>1. Leads(8, 1)
  <2> DEFINE s == Upgrade!MIGRATIONS[8][1]
  <2>1. s.op = "create" /\ s.f = "roots_new"
    BY MigrationTable
  <2> HIDE DEF s
  <2>2. \A F : After(s, F) = F \cup {"roots_new"}
    BY <2>1, AfterIs
  <2>3. After(s, Reached(8, 1)) = Reached(8, 1 + 1)
    <3>1. Reached(8, 1) = Upgrade!FeaturesOf(7)
      BY DEF Reached
    <3>2. Reached(8, 1 + 1) = Upgrade!FeaturesOf(7) \cup {"roots_new"}
      BY DEF Reached
    <3>3. QED
      BY <2>2, <3>1, <3>2, Features
  <2>4. ~Here(8, 1, 3, 1) /\ ~Here(8, 1, 2, 2) /\ ~Here(8, 1, 2, 1)
    BY DEF Here
  <2>5. /\ s.op \in Ops
        /\ s.op = "merge albums" <=> Here(8, 1, 3, 1)
        /\ s.op = "set legacy aside" <=> Here(8, 1, 2, 2)
        /\ s.op = "import config" <=> Here(8, 1, 2, 1)
    BY <2>1, <2>4 DEF Ops
  <2>6. (8 = 1) = FALSE
    OBVIOUS
  <2>7. QED
    BY <2>3, <2>6, <2>5 DEF Leads, s
<1>2. Leads(8, 2)
  <2> DEFINE s == Upgrade!MIGRATIONS[8][2]
  <2>1. s.op = "copy roots" /\ s.f = "copy roots"
    BY MigrationTable
  <2> HIDE DEF s
  <2>2. \A F : After(s, F) = F
    BY <2>1, AfterIs
  <2>3. After(s, Reached(8, 2)) = Reached(8, 2 + 1)
    <3>1. Reached(8, 2) = Upgrade!FeaturesOf(7) \cup {"roots_new"}
      BY DEF Reached
    <3>2. Reached(8, 2 + 1) = Upgrade!FeaturesOf(7) \cup {"roots_new"}
      BY DEF Reached
    <3>3. QED
      BY <2>2, <3>1, <3>2, Features
  <2>4. ~Here(8, 2, 3, 1) /\ ~Here(8, 2, 2, 2) /\ ~Here(8, 2, 2, 1)
    BY DEF Here
  <2>5. /\ s.op \in Ops
        /\ s.op = "merge albums" <=> Here(8, 2, 3, 1)
        /\ s.op = "set legacy aside" <=> Here(8, 2, 2, 2)
        /\ s.op = "import config" <=> Here(8, 2, 2, 1)
    BY <2>1, <2>4 DEF Ops
  <2>6. (8 = 1) = FALSE
    OBVIOUS
  <2>7. QED
    BY <2>3, <2>6, <2>5 DEF Leads, s
<1>3. Leads(8, 3)
  <2> DEFINE s == Upgrade!MIGRATIONS[8][3]
  <2>1. s.op = "drop roots" /\ s.f = "drop roots"
    BY MigrationTable
  <2> HIDE DEF s
  <2>2. \A F : After(s, F) = F
    BY <2>1, AfterIs
  <2>3. After(s, Reached(8, 3)) = Reached(8, 3 + 1)
    <3>1. Reached(8, 3) = Upgrade!FeaturesOf(7) \cup {"roots_new"}
      BY DEF Reached
    <3>2. Reached(8, 3 + 1) = Upgrade!FeaturesOf(7) \cup {"roots_new"}
      BY DEF Reached
    <3>3. QED
      BY <2>2, <3>1, <3>2, Features
  <2>4. ~Here(8, 3, 3, 1) /\ ~Here(8, 3, 2, 2) /\ ~Here(8, 3, 2, 1)
    BY DEF Here
  <2>5. /\ s.op \in Ops
        /\ s.op = "merge albums" <=> Here(8, 3, 3, 1)
        /\ s.op = "set legacy aside" <=> Here(8, 3, 2, 2)
        /\ s.op = "import config" <=> Here(8, 3, 2, 1)
    BY <2>1, <2>4 DEF Ops
  <2>6. (8 = 1) = FALSE
    OBVIOUS
  <2>7. QED
    BY <2>3, <2>6, <2>5 DEF Leads, s
<1>4. Leads(8, 4)
  <2> DEFINE s == Upgrade!MIGRATIONS[8][4]
  <2>1. s.op = "rename roots_new" /\ s.f = "rename roots_new"
    BY MigrationTable
  <2> HIDE DEF s
  <2>2. \A F : After(s, F) = F \ {"roots_new"}
    BY <2>1, AfterIs
  <2>3. After(s, Reached(8, 4)) = Reached(8, 4 + 1)
    <3>1. Reached(8, 4) = Upgrade!FeaturesOf(7) \cup {"roots_new"}
      BY DEF Reached
    <3>2. Reached(8, 4 + 1) = Upgrade!FeaturesOf(7)
      BY DEF Reached
    <3>3. QED
      BY <2>2, <3>1, <3>2, Features
  <2>4. ~Here(8, 4, 3, 1) /\ ~Here(8, 4, 2, 2) /\ ~Here(8, 4, 2, 1)
    BY DEF Here
  <2>5. /\ s.op \in Ops
        /\ s.op = "merge albums" <=> Here(8, 4, 3, 1)
        /\ s.op = "set legacy aside" <=> Here(8, 4, 2, 2)
        /\ s.op = "import config" <=> Here(8, 4, 2, 1)
    BY <2>1, <2>4 DEF Ops
  <2>6. (8 = 1) = FALSE
    OBVIOUS
  <2>7. QED
    BY <2>3, <2>6, <2>5 DEF Leads, s
<1>5. QED
  BY <1>1, <1>2, <1>3, <1>4

LEMMA AllLead ==
    \A m \in 1..8 : \A i \in 1..Steps(m) : Leads(m, i)
<1>1. /\ Steps(1) = 3 /\ Steps(2) = 2 /\ Steps(3) = 2 /\ Steps(4) = 1
      /\ Steps(5) = 1 /\ Steps(6) = 2 /\ Steps(7) = 2 /\ Steps(8) = 4
  BY DEF Steps
<1>2. \A m \in 1..8 : m = 1 \/ m = 2 \/ m = 3 \/ m = 4 \/ m = 5 \/ m = 6 \/ m = 7 \/ m = 8
  OBVIOUS
<1>3. /\ \A i \in 1..1 : i = 1
      /\ \A i \in 1..2 : i = 1 \/ i = 2
      /\ \A i \in 1..3 : i = 1 \/ i = 2 \/ i = 3
      /\ \A i \in 1..4 : i = 1 \/ i = 2 \/ i = 3 \/ i = 4
  OBVIOUS
<1>4. /\ \A i \in 1..Steps(1) : Leads(1, i)
      /\ \A i \in 1..Steps(2) : Leads(2, i)
      /\ \A i \in 1..Steps(3) : Leads(3, i)
      /\ \A i \in 1..Steps(4) : Leads(4, i)
      /\ \A i \in 1..Steps(5) : Leads(5, i)
      /\ \A i \in 1..Steps(6) : Leads(6, i)
      /\ \A i \in 1..Steps(7) : Leads(7, i)
      /\ \A i \in 1..Steps(8) : Leads(8, i)
  BY <1>1, <1>3, InitialLeads, ImportLeads, IdentityLeads, OriginLeads, EnableLeads, ProvidedLeads,
     CommunityLeads, ExtraLeads
<1>5. QED
  BY <1>2, <1>4

LEMMA StatementUpgrades ==
    ASSUME UpgradeInv, Upgrade!Statement
    PROVE  UpgradeInv'
<1> DEFINE m == at.m
           i == at.i
           s == Upgrade!MIGRATIONS[m][i]
           r == Upgrade!Result(s, work)
<1>1. /\ m > 0 /\ work' = r /\ db' = (IF m = 1 THEN r ELSE db)
      /\ legacyFile' = (IF s.op = "set legacy aside" /\ legacyFile = "there" THEN "aside" ELSE legacyFile)
      /\ at' = [at EXCEPT !.i = @ + 1, !.open = ~(m = 1)] /\ UNCHANGED <<state, importCut, crashes>>
  BY DEF Upgrade!Statement, Upgrade!Script, Upgrade!InScript
<1>2. Within
  <2>1. Between => at.m = 0
    BY DEF Between, Upgrade!Closed
  <2>2. Between \/ Within
    BY DEF UpgradeInv
  <2>3. at.m > 0
    BY DEF Upgrade!Statement
  <2>4. QED
    BY <2>1, <2>2, <2>3
<1>3. /\ state = "migrating" /\ m \in 1..8 /\ m = db.version + 1 /\ i \in 1..(Steps(m) + 1)
      /\ at = [m |-> m, i |-> i, open |-> at.open]
      /\ m = 1 => work = db
      /\ m > 3 \/ (m = 3 /\ i > 1) => Upgrade!ByIdentity(work)
  BY <1>2 DEF Within
<1>4. /\ i \in 1..Steps(m) /\ ~Upgrade!Raises(s, work) /\ DbShape(work)
  <2>1. i <= Len(Upgrade!MIGRATIONS[m]) /\ ~Upgrade!Raises(s, work)
    BY DEF Upgrade!Statement, Upgrade!Script
  <2>2. Len(Upgrade!MIGRATIONS[m]) = Steps(m) /\ Steps(m) \in Nat
    BY <1>3, MigrationTable DEF Steps
  <2>3. DbShape(work)
    BY DEF UpgradeInv
  <2>4. QED
    BY <1>3, <2>1, <2>2, <2>3
<1>5. /\ s.op \in Ops
      /\ m = 1 => Started(i + 1, r)
      /\ m # 1 => r.features = Reached(m, i + 1)
      /\ s.op = "merge albums" <=> Here(m, i, 3, 1)
      /\ s.op = "set legacy aside" <=> Here(m, i, 2, 2)
      /\ s.op = "import config" <=> Here(m, i, 2, 1)
  <2>1. (m = 1 => Started(i, work)) /\ (m # 1 => work.features = Reached(m, i))
    BY <1>2 DEF Within
  <2>2. Leads(m, i)
    <3> HIDE DEF m, i
    <3>1. QED
      BY <1>3, <1>4, AllLead
  <2>3. /\ s.op \in Ops
        /\ s.op = "merge albums" <=> Here(m, i, 3, 1)
        /\ s.op = "set legacy aside" <=> Here(m, i, 2, 2)
        /\ s.op = "import config" <=> Here(m, i, 2, 1)
        /\ m = 1 => \A d, e : Started(i, d) /\ e.features = After(s, d.features) => Started(i + 1, e)
        /\ m # 1 => After(s, Reached(m, i)) = Reached(m, i + 1)
    BY <2>2 DEF Leads
  <2> HIDE DEF m, i, s, r
  <2>4. r.features = After(s, work.features)
    BY <1>4, <2>3, ResultFacts DEF r
  <2>5. QED
    BY <2>1, <2>3, <2>4
<1>6. DbShape(work) /\ Covers(work) /\ DbShape(db) /\ Covers(db)
  BY DEF UpgradeInv
<1>7. /\ DbShape(r) /\ r.version = work.version /\ Covers(r)
      /\ "config" \in work.rows => "config" \in r.rows
      /\ s.op # "merge albums" => r.albums = work.albums
      /\ s.op = "import config" /\ legacyFile = "there" => "config" \in r.rows
      /\ s.op = "merge albums" => r = Upgrade!Merged(work)
  <2>1. s.op = "merge albums" => r = Upgrade!Merged(work)
    BY MergeResult
  <2> HIDE DEF m, i, s, r
  <2>2. /\ DbShape(r) /\ r.version = work.version /\ Covers(r)
        /\ "config" \in work.rows => "config" \in r.rows
        /\ s.op # "merge albums" => r.albums = work.albums
        /\ s.op = "import config" /\ legacyFile = "there" => "config" \in r.rows
    <3>1. s.op \in Ops /\ DbShape(work)
      BY <1>5, <1>4
    <3>2. /\ DbShape(r) /\ r.version = work.version
          /\ "config" \in work.rows => "config" \in r.rows
          /\ s.op # "merge albums" => r.albums = work.albums
      BY <3>1, ResultFacts DEF r
    <3>3. s.op = "import config" /\ legacyFile = "there" => "config" \in r.rows
      BY <3>1, ResultFacts DEF r
    <3>4. Covers(work) => Covers(r)
      BY <3>1, ResultFacts DEF r
    <3>5. QED
      BY <1>6, <3>2, <3>3, <3>4
  <2>3. QED
    BY <2>1, <2>2
<1>8. /\ at'.m = m /\ at'.i = i + 1 /\ at' = [m |-> at'.m, i |-> at'.i, open |-> at'.open]
  BY <1>1, <1>3
<1>9. i + 1 \in 1..(Steps(m) + 1) /\ i \in Nat /\ i <= Steps(m)
  <2>1. Steps(m) \in Nat
    BY <1>3 DEF Steps
  <2>2. QED
    BY <1>4, <2>1
<1>10. /\ s.op = "merge albums" => m = 3 /\ i = 1
       /\ m = 3 /\ i = 1 => s.op = "merge albums"
       /\ s.op = "set legacy aside" => m = 2 /\ i = 2
       /\ m = 2 /\ i = 1 => s.op = "import config"
  <2> HIDE DEF m, i, s, r
  <2>1. QED
    BY <1>5 DEF Here
<1>11. /\ legacyFile \in {"none", "there", "aside"}
       /\ m = 2 /\ i > 1 /\ legacyFile = "there" => "config" \in work.rows
       /\ m = 2 /\ i <= 2 /\ legacyFile = "aside" => importCut
       /\ legacyFile = "aside" /\ ~importCut =>
            /\ "config" \in work.rows
            /\ (m = 2 /\ i = 3) \/ (db.version >= 2 /\ "config" \in db.rows)
  BY DEF UpgradeInv, Imported
<1>12. /\ legacyFile' = "there" => legacyFile = "there"
       /\ legacyFile' = "aside" => legacyFile = "aside" \/ (m = 2 /\ i = 2 /\ legacyFile = "there")
       /\ importCut' = importCut
  <2> HIDE DEF m, i, s, r
  <2>1. /\ legacyFile' = (IF s.op = "set legacy aside" /\ legacyFile = "there" THEN "aside" ELSE legacyFile)
        /\ importCut' = importCut
    BY <1>1
  <2>2. QED
    BY <1>10, <2>1
<1>13. m > 3 \/ (m = 3 /\ i + 1 > 1) => Upgrade!ByIdentity(r)
  <2>1. CASE m = 3 /\ i = 1
    <3>1. s.op = "merge albums"
      BY <1>10, <2>1
    <3>2. Upgrade!ByIdentity(Upgrade!Merged(work))
      BY <1>4, <3>1 DEF Upgrade!Raises, Upgrade!MergeFails
    <3>3. r = Upgrade!Merged(work)
      BY <1>7, <3>1
    <3> HIDE DEF r
    <3>4. QED
      BY <3>2, <3>3
  <2>2. CASE ~(m = 3 /\ i = 1)
    <3>1. r.albums = work.albums
      BY <1>10, <1>7, <2>2
    <3>2. m > 3 \/ (m = 3 /\ i + 1 > 1) => Upgrade!ByIdentity(work)
      BY <1>3, <1>9, <2>2
    <3>3. QED
      BY <3>1, <3>2, SameAlbums
  <2>3. QED
    BY <2>1, <2>2
<1> HIDE DEF r, s, m, i
<1>14. m = 1 => db'.version = 0 /\ db.version = 0 /\ db' = r /\ db'.features \subseteq FirstFeatures
  <2>1. ASSUME m = 1 PROVE db.version = 0 /\ db' = r /\ work = db
    <3>1. db.version \in Nat
      BY DEF UpgradeInv
    <3>2. db.version = 0
      BY <1>3, <2>1, <3>1
    <3>3. db' = r /\ work = db
      BY <1>1, <1>3, <2>1
    <3>4. QED
      BY <3>2, <3>3
  <2>2. QED
    BY <1>5, <1>7, <2>1 DEF Started
<1>15. m # 1 => db' = db
  BY <1>1
<1>16. Within'
  <2>1. at'.m = db'.version + 1
    BY <1>3, <1>8, <1>14, <1>15
  <2>2. at'.m = 1 => work' = db' /\ Started(at'.i, work')
    BY <1>1, <1>5, <1>8, <1>14
  <2>3. at'.m # 1 => work'.features = Reached(at'.m, at'.i)
    BY <1>1, <1>5, <1>8
  <2>4. at'.m > 3 \/ (at'.m = 3 /\ at'.i > 1) => Upgrade!ByIdentity(work')
    BY <1>1, <1>8, <1>13
  <2>5. QED
    BY <1>1, <1>3, <1>8, <1>9, <2>1, <2>2, <2>3, <2>4 DEF Within, Started, Upgrade!ByIdentity, Upgrade!Albums,
       Upgrade!Key
<1>17. \A x \in Nat : x = 2 => x > 1 /\ x + 1 = 3
  OBVIOUS
<1>18. Imported'
  <2>1. legacyFile' \in {"none", "there", "aside"}
    BY <1>1 DEF UpgradeInv, Imported
  <2>2. at'.m = 2 /\ at'.i > 1 /\ legacyFile' = "there" => "config" \in work'.rows
    <3>1. ASSUME m = 2, legacyFile = "there" PROVE "config" \in r.rows
      <4>1. i = 1 \/ i > 1
        BY <1>4, <1>9
      <4>2. QED
        BY <1>7, <1>10, <1>11, <3>1, <4>1
    <3>2. QED
      BY <1>1, <1>8, <1>12, <3>1
  <2>3. at'.m = 2 /\ at'.i <= 2 /\ legacyFile' = "aside" => importCut'
    <3>1. at'.m = 2 /\ at'.i <= 2 => m = 2 /\ i <= 1
      BY <1>8, <1>9
    <3>2. m = 2 /\ i <= 1 /\ legacyFile' = "aside" => m = 2 /\ i <= 2 /\ legacyFile = "aside"
      BY <1>9, <1>12
    <3>3. QED
      BY <1>11, <1>12, <3>1, <3>2
  <2>4. ASSUME legacyFile' = "aside", ~importCut'
        PROVE  /\ "config" \in work'.rows
               /\ (at'.m = 2 /\ at'.i = 3) \/ (db'.version >= 2 /\ "config" \in db'.rows)
    <3>1. CASE legacyFile = "aside"
      <4>1. /\ "config" \in work.rows
            /\ (m = 2 /\ i = 3) \/ (db.version >= 2 /\ "config" \in db.rows)
        BY <1>1, <1>11, <2>4, <3>1
      <4>2. m = 2 => i # 3
        BY <1>9 DEF Steps
      <4>3. QED
        BY <1>1, <1>3, <1>7, <1>14, <1>15, <4>1, <4>2
    <3>2. CASE legacyFile # "aside"
      <4>1. s.op = "set legacy aside" /\ legacyFile = "there" /\ m = 2 /\ i = 2
        BY <1>1, <1>10, <1>11, <2>4, <3>2
      <4>2. "config" \in work.rows
        <5>1. m = 2 /\ i > 1 /\ legacyFile = "there"
          BY <1>9, <1>17, <4>1, Zenon
        <5>2. QED
          BY <1>11, <5>1
      <4>3. QED
        <5>1. at'.m = 2 /\ at'.i = 3
          <6>1. i + 1 = 3 /\ m = 2
            BY <1>9, <1>17, <4>1, Zenon
          <6>2. QED
            BY <1>8, <6>1
        <5>2. "config" \in work'.rows
          BY <1>1, <1>7, <4>2
        <5>3. QED
          BY <5>1, <5>2
    <3>3. QED
      BY <3>1, <3>2
  <2>5. QED
    BY <2>1, <2>2, <2>3, <2>4 DEF Imported
<1>19. DbShape(work)' /\ Covers(work)' /\ DbShape(db)' /\ Covers(db)'
  BY <1>1, <1>6, <1>7, <1>14, <1>15 DEF DbShape, Covers
<1>20. QED
  BY <1>3, <1>14, <1>15, <1>16, <1>18, <1>19 DEF UpgradeInv, Upgrade!ByIdentity, Upgrade!Albums, Upgrade!Key

LEMMA UpgradeStep ==
    ASSUME UpgradeInv, [Upgrade!Next]_(Upgrade!migrationVars)
    PROVE  UpgradeInv'
<1>1. CASE UNCHANGED Upgrade!migrationVars
  <2>1. UNCHANGED <<db, work, legacyFile, at, state, importCut>>
    BY <1>1 DEF Upgrade!migrationVars
  <2>2. QED
    BY <2>1 DEF UpgradeInv, Between, Within, Started, Imported, DbShape, Covers, Upgrade!ByIdentity,
       Upgrade!Albums, Upgrade!Key
<1>2. CASE Upgrade!Serve
  <2>1. /\ state' = "up" /\ at = Upgrade!Closed /\ UNCHANGED <<db, work, legacyFile, at, importCut, crashes>>
    BY <1>2 DEF Upgrade!Serve
  <2>2. Between /\ Between'
    BY <2>1 DEF UpgradeInv, Between, Within, Upgrade!Closed
  <2>3. Imported'
    BY <2>1 DEF UpgradeInv, Imported
  <2>4. QED
    BY <2>1, <2>2, <2>3 DEF UpgradeInv, DbShape, Covers, Upgrade!ByIdentity, Upgrade!Albums, Upgrade!Key
<1>3. QED
  BY <1>1, <1>2, StartKeepsDb, BeginUpgrades, StatementUpgrades, StatementFailsKeeps, CommitKeeps
     DEF Upgrade!Next

LEMMA UpgradeIsSound ==
    ASSUME UpgradeInv
    PROVE  Upgrade!UpgradeSound
<1>1. legacyFile = "aside" /\ ~importCut /\ db.version >= 2 => "config" \in db.rows
  <2>1. ASSUME at.m = 2, db.version >= 2, Between \/ Within PROVE FALSE
    BY <2>1 DEF UpgradeInv, Between, Within, Upgrade!Closed
  <2>2. QED
    BY <2>1 DEF UpgradeInv, Imported
<1>2. QED
  BY <1>1 DEF UpgradeInv, Covers, Upgrade!UpgradeSound, Upgrade!SchemaVersion

-----------------------------------------------------------------------------
\* From whatever version and wherever it is cut off, an upgrade leaves the tables of the version
\* written, the albums it merged as they belong and the old configuration imported; and the
\* albums of a session keep their names, their places and their items, for any assets, albums,
\* crashes and bounds (core/migrations, albums_query.py).
THEOREM UpgradesAreSound == Spec => []UpgradeSound
<1> DEFINE Upgrades == "upgrade" \in focus => UpgradeInv
           Shelves == "albums" \in focus => AlbumsInv
           Inv == Upgrades /\ Shelves
<1>1. Init => Inv
  BY UpgradeInit, AlbumsInit DEF Init
<1>2. Upgrades /\ [Next]_<<focus, services>> => Upgrades'
  BY UpgradeStep, Apart
<1>3. Shelves /\ [Next]_<<focus, services>> => Shelves'
  BY AlbumsStep, Apart
<1>4. Inv => UpgradeSound
  BY UpgradeIsSound, AlbumsAreSound DEF UpgradeSound
<1> HIDE DEF Upgrades, Shelves
<1>5. QED
  BY <1>1, <1>2, <1>3, <1>4, PTL DEF Spec

-----------------------------------------------------------------------------
(* Storage.  One connection numbers the commits it notices, so an entry of  *)
(* a cache under the number it has now was derived after all of them        *)
(* (Remembered, Working); the numbers of two connections say nothing of     *)
(* each other.  What was derived when nothing has been committed since is   *)
(* derived from the library there is (AsNow).                               *)

StorageGiven ==
    /\ IsFiniteSet(Shelved)
    /\ \A a \in Shelved : FactsOf[a].kind \in {"model", "output"} /\ FactsOf[a].size \in Nat
    /\ \A lib \in First : DOMAIN lib \subseteq Shelved

OneConnection == \A t, u \in Http : t = u

AsNow(d, value, as) ==
    as \in Nat /\ as <= commits /\ (as = commits => value = Space!Derive(d, shelf))

Remembered(t) ==
    \A d \in Space!Derived :
        memo[d].tag = "kept" =>
            /\ AsNow(d, memo[d].value, memo[d].as)
            /\ memo[d].version \in Nat /\ memo[d].version <= conn[t].version
            /\ memo[d].version = conn[t].version => conn[t].noticed <= memo[d].as

Underway(t) ==
    /\ task[t].at \in {"derive", "store", "answer"} =>
         task[t].of \in Space!Derived /\ task[t].since = conn[t].noticed
    /\ task[t].at \in {"derive", "store"} => task[t].version = conn[t].version
    /\ task[t].at \in {"store", "answer"} =>
         AsNow(task[t].of, task[t].value, task[t].as) /\ task[t].since <= task[t].as

Offered ==
    offers.tag = "shown" =>
        /\ offers.at \in Nat /\ offers.at <= commits
        /\ offers.at = commits => offers.groups = Space!Groups(Space!Signals(shelf), shelf)

StorageInv ==
    /\ commits \in Nat /\ DOMAIN shelf \subseteq Shelved
    /\ conn \in [Http -> [noticed : Nat, version : Nat]]
    /\ DOMAIN memo = Space!Derived /\ DOMAIN task = Http
    /\ \A t \in Http : conn[t].noticed <= commits /\ Remembered(t) /\ Underway(t)
    /\ Offered
    /\ kept \subseteq {shelf[m].holds : m \in Space!Models(shelf)}

-----------------------------------------------------------------------------
\* Finitely many numbers have a bound.
LEMMA Bounded ==
    ASSUME NEW S, IsFiniteSet(S), NEW f, \A x \in S : f[x] \in Nat
    PROVE  \E most \in Nat : \A x \in S : f[x] <= most
<1>1. PICK s \in Seq(S) : \A x \in S : \E n \in 1..Len(s) : s[n] = x
  BY DEF IsFiniteSet
<1> DEFINE Under(n) == \E most \in Nat : \A i \in 1..n : f[s[i]] <= most
           Over == {n \in 0..Len(s) : ~Under(n)}
<1>2. Len(s) \in Nat /\ \A i \in 1..Len(s) : s[i] \in S /\ f[s[i]] \in Nat
  BY <1>1
<1>3. Over = {}
  <2> SUFFICES ASSUME Over # {} PROVE FALSE
    OBVIOUS
  <2>1. Over \subseteq Nat
    BY <1>2
  <2> HIDE DEF Over
  <2>2. PICK n \in Over : \A k \in Over : n <= k
    BY <2>1, Least
  <2> HIDE DEF Under
  <2>3. n \in 0..Len(s) /\ ~Under(n) /\ n \in Nat
    BY <1>2, <2>2 DEF Over
  <2>4. n # 0
    <3>1. \A i \in 1..0 : f[s[i]] <= 0
      OBVIOUS
    <3>2. Under(0)
      BY <3>1 DEF Under
    <3>3. QED
      BY <2>3, <3>2
  <2>5. n - 1 \in 0..Len(s) /\ ~(n <= n - 1)
    BY <1>2, <2>3, <2>4
  <2>6. Under(n - 1)
    BY <2>2, <2>5 DEF Over
  <2>7. PICK b \in Nat : \A i \in 1..(n - 1) : f[s[i]] <= b
    BY <2>6 DEF Under
  <2>8. f[s[n]] \in Nat
    BY <1>2, <2>3, <2>4
  <2> DEFINE c == b + f[s[n]]
  <2>9. c \in Nat /\ b <= c /\ f[s[n]] <= c
    BY <2>7, <2>8
  <2> HIDE DEF c
  <2>10. \A i \in 1..n : i \in 1..(n - 1) \/ i = n
    BY <2>3, <2>4
  <2>11. \A i \in 1..(n - 1) : f[s[i]] \in Nat /\ f[s[i]] <= b
    <3>1. \A i \in 1..(n - 1) : i \in 1..Len(s)
      BY <1>2, <2>3
    <3>2. QED
      BY <1>2, <2>7, <3>1, Zenon
  <2>12. \A i \in 1..(n - 1) : f[s[i]] <= c
    BY <2>7, <2>9, <2>11
  <2>13. \A i \in 1..n : f[s[i]] <= c
    BY <2>9, <2>10, <2>12, Zenon
  <2>14. Under(n)
    BY <2>9, <2>13 DEF Under
  <2>15. QED
    BY <2>3, <2>14
<1>4. Under(Len(s))
  <2>1. Len(s) \in 0..Len(s)
    BY <1>2
  <2> HIDE DEF Under
  <2>2. QED
    BY <1>3, <2>1
<1>5. PICK most \in Nat : \A i \in 1..Len(s) : f[s[i]] <= most
  BY <1>4
<1>6. QED
  BY <1>1, <1>5

\* Files said to be identical hold the same, and the larger of them is one of them.
LEMMA KeeperIsOne ==
    ASSUME StorageGiven, NEW g, g \subseteq Shelved, g # {}
    PROVE  Space!Keeper(g) \in g
<1> DEFINE size == [a \in Shelved |-> FactsOf[a].size]
<1>1. IsFiniteSet(g) /\ \A a \in g : size[a] \in Nat /\ size[a] = FactsOf[a].size
  BY FS_Subset DEF StorageGiven
<1> HIDE DEF size
<1>2. PICK most \in Nat : \A a \in g : size[a] <= most
  BY <1>1, Bounded
<1> DEFINE Under == {most - size[a] : a \in g}
<1>3. Under \subseteq Nat /\ Under # {}
  BY <1>1, <1>2
<1> HIDE DEF Under
<1>4. PICK x \in Under : \A y \in Under : x <= y
  BY <1>3, Least
<1>5. PICK m \in g : x = most - size[m]
  BY <1>4 DEF Under
<1>6. \A n \in g : size[m] >= size[n]
  <2> SUFFICES ASSUME NEW n \in g PROVE size[m] >= size[n]
    OBVIOUS
  <2>1. most - size[n] \in Under
    BY DEF Under
  <2>2. most - size[m] <= most - size[n]
    BY <1>4, <1>5, <2>1
  <2>3. QED
    BY <1>1, <1>2, <2>2
<1>7. \E k \in g : \A n \in g : FactsOf[k].size >= FactsOf[n].size
  BY <1>1, <1>6
<1>8. QED
  BY <1>7 DEF Space!Keeper

\* Of a group of identical files what is kept holds what goes, and is kept by every group.
LEMMA KeptAlike ==
    ASSUME StorageGiven, NEW lib, DOMAIN lib \subseteq Shelved,
           NEW g \in Space!Groups(Space!Signals(lib), lib), NEW m \in g
    PROVE  LET gone == UNION {h \ {Space!Keeper(h)} : h \in Space!Groups(Space!Signals(lib), lib)}
           IN  /\ Space!Keeper(g) \in Space!Models(lib) \ gone
               /\ lib[Space!Keeper(g)].holds = lib[m].holds
<1> DEFINE sig == Space!Signals(lib)
           groups == Space!Groups(sig, lib)
           like(n) == {x \in DOMAIN sig : sig[x].duplicate = sig[n].duplicate} \cap DOMAIN lib
<1>1. /\ DOMAIN sig = Space!Models(lib)
      /\ \A x \in DOMAIN sig : sig[x].duplicate = Space!Duplicate(lib, x)
  BY DEF Space!Signals
<1>2. Space!Models(lib) \subseteq DOMAIN lib
  BY DEF Space!Models
<1> HIDE DEF sig
<1>3. \A h \in groups : \E n \in DOMAIN sig : sig[n].duplicate.method = "sha256" /\ h = like(n)
  BY DEF Space!Groups
<1> HIDE DEF groups
<1>4. ASSUME NEW x \in Space!Models(lib), Space!Duplicate(lib, x).method = "sha256"
      PROVE  Space!Duplicate(lib, x).group = Space!SameHash(lib, x) /\ x \in Space!SameHash(lib, x)
  <2>1. CASE Space!Several(Space!SameHash(lib, x))
    <3>1. Space!Duplicate(lib, x) = [method |-> "sha256", group |-> Space!SameHash(lib, x)]
      BY <2>1, Zenon DEF Space!Duplicate
    <3>2. Space!SameHash(lib, x) # {}
      <4>1. ASSUME Space!SameHash(lib, x) = {} PROVE FALSE
        BY <2>1, <4>1, FS_EmptySet DEF Space!Several, Space!Cardinality, Cardinality
      <4>2. QED
        BY <4>1
    <3>3. x \in Space!SameHash(lib, x)
      BY <1>2, <3>2 DEF Space!SameHash
    <3>4. QED
      BY <3>1, <3>3
  <2>2. CASE ~Space!Several(Space!SameHash(lib, x))
    <3>1. Space!Duplicate(lib, x).method \in {"name", "name+size", "none"}
      <4>1. CASE Space!Several(Space!SameName(lib, x))
        <5>1. Space!Duplicate(lib, x) = [method |-> "name", group |-> Space!SameName(lib, x)]
          BY <2>2, <4>1, Zenon DEF Space!Duplicate
        <5>2. QED
          BY <5>1
      <4>2. CASE ~Space!Several(Space!SameName(lib, x)) /\ Space!Several(Space!SameNameSize(lib, x))
        <5>1. Space!Duplicate(lib, x) = [method |-> "name+size", group |-> Space!SameNameSize(lib, x)]
          BY <2>2, <4>2, Zenon DEF Space!Duplicate
        <5>2. QED
          BY <5>1
      <4>3. CASE ~Space!Several(Space!SameName(lib, x)) /\ ~Space!Several(Space!SameNameSize(lib, x))
        <5>1. Space!Duplicate(lib, x) = [method |-> "none", group |-> {}]
          BY <2>2, <4>3, Zenon DEF Space!Duplicate
        <5>2. QED
          BY <5>1
      <4>4. QED
        BY <4>1, <4>2, <4>3
    <3>2. QED
      BY <1>4, <3>1
  <2>3. QED
    BY <2>1, <2>2
<1>5. ASSUME NEW h \in groups
      PROVE  /\ h \subseteq Space!Models(lib) /\ h \subseteq Shelved
             /\ \A x, y \in h : sig[x].duplicate = sig[y].duplicate /\ lib[x].holds = lib[y].holds
             /\ \A x \in h : h = like(x)
  <2>1. PICK n \in DOMAIN sig : sig[n].duplicate.method = "sha256" /\ h = like(n)
    BY <1>3
  <2>2. \A x \in h : x \in Space!Models(lib) /\ x \in DOMAIN sig /\ sig[x].duplicate = sig[n].duplicate
    BY <1>1, <2>1
  <2>3. \A x \in h : Space!Duplicate(lib, x).method = "sha256"
    BY <1>1, <2>1, <2>2
  <2>4. ASSUME NEW x \in h, NEW y \in h PROVE lib[x].holds = lib[y].holds
    <3>1. Space!SameHash(lib, x) = Space!SameHash(lib, y)
      BY <1>1, <1>4, <2>2, <2>3
    <3>2. y \in Space!SameHash(lib, x)
      BY <1>4, <2>2, <2>3, <3>1
    <3>3. QED
      BY <3>2 DEF Space!SameHash
  <2>5. \A x \in h : h = like(x)
    BY <2>1, <2>2
  <2>6. QED
    BY <1>2, <2>2, <2>4, <2>5
<1> HIDE DEF like
<1>6. g \in groups /\ g \subseteq Shelved /\ Space!Keeper(g) \in g
  <2>1. g \in groups
    BY DEF groups, sig
  <2>2. g \subseteq Shelved /\ g # {}
    BY <1>5, <2>1
  <2>3. QED
    BY <2>1, <2>2, KeeperIsOne
<1>7. ASSUME NEW h \in groups, Space!Keeper(g) \in h PROVE h = g
  BY <1>5, <1>6, <1>7
<1>8. \A h \in groups : Space!Keeper(g) \notin h \ {Space!Keeper(h)}
  BY <1>7
<1>9. Space!Keeper(g) \in Space!Models(lib) /\ lib[Space!Keeper(g)].holds = lib[m].holds
  BY <1>5, <1>6
<1>10. groups = Space!Groups(Space!Signals(lib), lib)
  BY DEF groups, sig
<1>11. QED
  BY <1>8, <1>9, <1>10

-----------------------------------------------------------------------------
LEMMA StorageInit ==
    ASSUME StorageGiven, Space!Init
    PROVE  StorageInv
BY DEF StorageGiven, Space!Init, StorageInv, Remembered, Underway, Offered, AsNow, Space!None

LEMMA LookupKeeps ==
    ASSUME StorageInv, OneConnection, NEW t \in Http, NEW d \in Space!Derived, Space!Lookup(t, d)
    PROVE  StorageInv'
<1> DEFINE c == Space!Noticed(t)
           hit == memo[d].tag = "kept" /\ memo[d].version = c.version
           found == [at |-> "answer", of |-> d, value |-> memo[d].value, since |-> commits, as |-> memo[d].as]
           missed == [at |-> "derive", of |-> d, version |-> c.version, since |-> commits]
<1>1. /\ conn' = [conn EXCEPT ![t] = c]
      /\ task' = [task EXCEPT ![t] = IF hit THEN found ELSE missed]
      /\ UNCHANGED <<shelf, commits, memo, offers, kept>>
  BY DEF Space!Lookup
<1>2. /\ commits \in Nat /\ conn[t] \in [noticed : Nat, version : Nat] /\ conn[t].noticed <= commits
      /\ Remembered(t)
  BY DEF StorageInv
<1>3. /\ c \in [noticed : Nat, version : Nat] /\ c.noticed = commits
      /\ c.noticed # conn[t].noticed => c.version = conn[t].version + 1
      /\ c.noticed = conn[t].noticed => c.version = conn[t].version
  BY <1>2 DEF Space!Noticed
<1> HIDE DEF c
<1>4. \A e \in Space!Derived :
        memo[e].tag = "kept" =>
            /\ AsNow(e, memo[e].value, memo[e].as)
            /\ memo[e].version \in Nat /\ memo[e].version <= c.version
            /\ memo[e].version = c.version => c.noticed <= memo[e].as
  BY <1>2, <1>3 DEF Remembered, AsNow
<1>5. conn' \in [Http -> [noticed : Nat, version : Nat]] /\ conn'[t] = c
  BY <1>1, <1>3 DEF StorageInv
<1>6. DOMAIN task' = Http /\ task'[t] = (IF hit THEN found ELSE missed)
  BY <1>1 DEF StorageInv
<1>7. Remembered(t)'
  BY <1>1, <1>4, <1>5 DEF Remembered, AsNow
<1>8. Underway(t)'
  <2>1. CASE hit
    <3>1. task'[t] = found
      BY <1>6, <2>1
    <3>2. /\ task'[t].at = "answer" /\ task'[t].of = d /\ task'[t].value = memo[d].value
          /\ task'[t].since = commits /\ task'[t].as = memo[d].as
      BY <3>1
    <3>3. AsNow(d, memo[d].value, memo[d].as) /\ commits <= memo[d].as
      BY <1>3, <1>4, <2>1
    <3>4. AsNow(d, memo[d].value, memo[d].as)'
      BY <1>1, <3>3 DEF AsNow
    <3>5. QED
      BY <1>1, <1>3, <1>5, <3>2, <3>3, <3>4 DEF Underway, AsNow
  <2>2. CASE ~hit
    <3>1. task'[t] = missed
      BY <1>6, <2>2
    <3>2. task'[t].at = "derive" /\ task'[t].of = d /\ task'[t].version = c.version /\ task'[t].since = commits
      BY <3>1
    <3>3. QED
      BY <1>3, <1>5, <3>2 DEF Underway
  <2>3. QED
    BY <2>1, <2>2
<1>9. \A u \in Http : u = t
  BY DEF OneConnection
<1>10. \A u \in Http : (conn[u].noticed <= commits /\ Remembered(u) /\ Underway(u))'
  <2>1. conn'[t].noticed <= commits'
    BY <1>1, <1>2, <1>3, <1>5
  <2>2. QED
    BY <1>7, <1>8, <1>9, <2>1
<1>11. QED
  BY <1>1, <1>5, <1>6, <1>10 DEF StorageInv, Offered, Space!Models

LEMMA ComputeKeeps ==
    ASSUME StorageInv, OneConnection, NEW t \in Http, Space!Compute(t)
    PROVE  StorageInv'
<1> DEFINE k == task[t]
           new == [at |-> "store", of |-> k.of, value |-> Space!Derive(k.of, shelf),
                   version |-> k.version, since |-> k.since, as |-> commits]
<1>1. /\ k.at = "derive" /\ task' = [task EXCEPT ![t] = new]
      /\ UNCHANGED <<shelf, commits, conn, memo, offers, kept>>
  BY DEF Space!Compute
<1>2. /\ commits \in Nat /\ conn[t].noticed <= commits /\ Remembered(t)
      /\ k.of \in Space!Derived /\ k.since = conn[t].noticed /\ k.version = conn[t].version
  BY <1>1 DEF StorageInv, Underway
<1>3. DOMAIN task' = Http /\ task'[t] = new
  BY <1>1 DEF StorageInv
<1>4. /\ task'[t].at = "store" /\ task'[t].of = k.of /\ task'[t].value = Space!Derive(k.of, shelf)
      /\ task'[t].version = k.version /\ task'[t].since = k.since /\ task'[t].as = commits
  BY <1>3
<1> HIDE DEF k, new
<1>5. Underway(t)'
  <2>1. AsNow(k.of, Space!Derive(k.of, shelf), commits)
    BY <1>2 DEF AsNow
  <2>2. AsNow(task[t].of, task[t].value, task[t].as)'
    BY <1>1, <1>4, <2>1 DEF AsNow, Space!Derive, Space!Signals, Space!Footprint
  <2>3. QED
    BY <1>1, <1>2, <1>4, <2>2 DEF Underway
<1>6. Remembered(t)'
  BY <1>1, <1>2 DEF Remembered, AsNow
<1>7. \A u \in Http : u = t
  BY DEF OneConnection
<1>8. QED
  BY <1>1, <1>2, <1>3, <1>5, <1>6, <1>7 DEF StorageInv, Offered, Space!Models

LEMMA RememberKeeps ==
    ASSUME StorageInv, OneConnection, NEW t \in Http, Space!Remember(t)
    PROVE  StorageInv'
<1> DEFINE k == task[t]
           entry == [tag |-> "kept", version |-> k.version, value |-> k.value, as |-> k.as]
           new == [at |-> "answer", of |-> k.of, value |-> k.value, since |-> k.since, as |-> k.as]
<1>1. /\ k.at = "store" /\ memo' = [memo EXCEPT ![k.of] = entry] /\ task' = [task EXCEPT ![t] = new]
      /\ UNCHANGED <<shelf, commits, conn, offers, kept>>
  BY DEF Space!Remember, Space!StoredAs
<1>2. /\ commits \in Nat /\ conn[t] \in [noticed : Nat, version : Nat] /\ conn[t].noticed <= commits
      /\ Remembered(t)
      /\ k.of \in Space!Derived /\ k.since = conn[t].noticed /\ k.version = conn[t].version
      /\ AsNow(k.of, k.value, k.as) /\ k.since <= k.as
  BY <1>1 DEF StorageInv, Underway
<1>3. /\ DOMAIN task' = Http /\ task'[t] = new
      /\ DOMAIN memo' = Space!Derived /\ memo'[k.of] = entry
      /\ \A e \in Space!Derived \ {k.of} : memo'[e] = memo[e]
  BY <1>1, <1>2 DEF StorageInv
<1>4. /\ task'[t].at = "answer" /\ task'[t].of = k.of /\ task'[t].value = k.value
      /\ task'[t].since = k.since /\ task'[t].as = k.as
      /\ memo'[k.of].version = k.version /\ memo'[k.of].value = k.value /\ memo'[k.of].as = k.as
  BY <1>3
<1>5. AsNow(task[t].of, task[t].value, task[t].as)'
  BY <1>1, <1>2, <1>4 DEF AsNow
<1>6. Underway(t)'
  BY <1>1, <1>2, <1>4, <1>5 DEF Underway
<1>7. Remembered(t)'
  <2> SUFFICES ASSUME NEW e \in Space!Derived, memo'[e].tag = "kept"
      PROVE  /\ AsNow(e, memo[e].value, memo[e].as)'
             /\ memo'[e].version \in Nat /\ memo'[e].version <= conn'[t].version
             /\ memo'[e].version = conn'[t].version => conn'[t].noticed <= memo'[e].as
    BY DEF Remembered
  <2>1. CASE e \in Space!Derived \ {k.of}
    <3>1. memo'[e] = memo[e]
      BY <1>3, <2>1
    <3>2. QED
      BY <1>1, <1>2, <3>1 DEF Remembered, AsNow
  <2>2. CASE e = k.of
    <3>1. AsNow(e, memo[e].value, memo[e].as)'
      BY <1>1, <1>2, <1>4, <2>2 DEF AsNow
    <3>2. /\ memo'[e].version = conn[t].version /\ conn'[t] = conn[t]
          /\ conn[t].noticed <= memo'[e].as
      BY <1>1, <1>2, <1>4, <2>2
    <3>3. conn[t].version \in Nat
      BY <1>2
    <3>4. QED
      BY <3>1, <3>2, <3>3
  <2>3. QED
    BY <2>1, <2>2
<1>8. \A u \in Http : u = t
  BY DEF OneConnection
<1>9. QED
  BY <1>1, <1>2, <1>3, <1>6, <1>7, <1>8 DEF StorageInv, Offered, Space!Models

LEMMA AnswerKeeps ==
    ASSUME StorageInv, OneConnection, NEW t \in Http, Space!Answer(t)
    PROVE  StorageInv'
<1> DEFINE k == task[t]
<1>1. /\ k.at = "answer" /\ task' = [task EXCEPT ![t] = [at |-> "idle"]]
      /\ offers' = (IF k.of = "signals"
                    THEN [tag |-> "shown", groups |-> Space!Groups(k.value, shelf), at |-> k.since]
                    ELSE offers)
      /\ UNCHANGED <<shelf, commits, conn, memo, kept>>
  BY DEF Space!Answer
<1>2. /\ commits \in Nat /\ conn[t] \in [noticed : Nat, version : Nat] /\ conn[t].noticed <= commits
      /\ Remembered(t)
      /\ k.of \in Space!Derived /\ k.since = conn[t].noticed
      /\ AsNow(k.of, k.value, k.as) /\ k.since <= k.as
  BY <1>1 DEF StorageInv, Underway
<1>3. DOMAIN task' = Http /\ task'[t].at = "idle"
  BY <1>1 DEF StorageInv
<1>4. Underway(t)'
  BY <1>3 DEF Underway
<1>5. Remembered(t)'
  BY <1>1, <1>2 DEF Remembered, AsNow
<1>6. Offered'
  <2>1. CASE k.of = "signals"
    <3>1. offers' = [tag |-> "shown", groups |-> Space!Groups(k.value, shelf), at |-> k.since]
      BY <1>1, <2>1
    <3>2. offers'.groups = Space!Groups(k.value, shelf) /\ offers'.at = k.since
      BY <3>1
    <3>3. k.since = commits => k.value = Space!Signals(shelf)
      BY <1>2, <2>1 DEF AsNow, Space!Derive
    <3>4. k.since \in Nat /\ k.since <= commits
      BY <1>2
    <3>5. QED
      BY <1>1, <3>2, <3>3, <3>4 DEF Offered
  <2>2. CASE k.of # "signals"
    BY <1>1, <2>2 DEF StorageInv, Offered
  <2>3. QED
    BY <2>1, <2>2
<1>7. \A u \in Http : u = t
  BY DEF OneConnection
<1>8. QED
  BY <1>1, <1>2, <1>3, <1>4, <1>5, <1>6, <1>7 DEF StorageInv, Space!Models

\* A commit leaves what is in hand and what is remembered as old as it was.
LEMMA StillOlder ==
    ASSUME StorageInv, NEW t \in Http, commits' = commits + 1, UNCHANGED <<conn, task>>,
           memo' = memo \/ memo' = Space!Dropped
    PROVE  /\ Remembered(t)' /\ Underway(t)' /\ conn'[t].noticed <= commits'
<1>1. /\ commits \in Nat /\ conn[t] \in [noticed : Nat, version : Nat] /\ conn[t].noticed <= commits
      /\ Remembered(t) /\ Underway(t)
  BY DEF StorageInv
<1>2. conn[t].noticed <= commits'
  <2>1. conn[t].noticed \in Nat
    BY <1>1
  <2>2. QED
    BY <1>1, <2>1
<1>3. Underway(t)'
  <2>1. ASSUME task[t].at \in {"store", "answer"} PROVE AsNow(task[t].of, task[t].value, task[t].as)'
    <3>1. AsNow(task[t].of, task[t].value, task[t].as)
      BY <1>1, <2>1 DEF Underway
    <3>2. task[t].as \in Nat /\ task[t].as <= commits /\ task'[t] = task[t]
      BY <3>1 DEF AsNow
    <3>3. task[t].as <= commits' /\ task[t].as # commits'
      BY <1>1, <3>2
    <3>4. QED
      BY <3>2, <3>3 DEF AsNow
  <2>2. QED
    BY <1>1, <2>1 DEF Underway
<1>4. Remembered(t)'
  <2> SUFFICES ASSUME NEW e \in Space!Derived, memo'[e].tag = "kept"
      PROVE  /\ AsNow(e, memo[e].value, memo[e].as)'
             /\ memo'[e].version \in Nat /\ memo'[e].version <= conn'[t].version
             /\ memo'[e].version = conn'[t].version => conn'[t].noticed <= memo'[e].as
    BY DEF Remembered
  <2>1. memo' = memo
    BY DEF Space!Dropped, Space!None
  <2>2. /\ AsNow(e, memo[e].value, memo[e].as)
        /\ memo[e].version \in Nat /\ memo[e].version <= conn[t].version
        /\ memo[e].version = conn[t].version => conn[t].noticed <= memo[e].as
    BY <1>1, <2>1 DEF Remembered
  <2>3. memo[e].as \in Nat /\ memo[e].as <= commits
    BY <2>2 DEF AsNow
  <2>4. memo[e].as <= commits' /\ memo[e].as # commits'
    BY <1>1, <2>3
  <2>5. AsNow(e, memo[e].value, memo[e].as)'
    BY <2>1, <2>3, <2>4 DEF AsNow
  <2>6. QED
    BY <2>1, <2>2, <2>5
<1>5. QED
  BY <1>2, <1>3, <1>4

LEMMA CleanupKeeps ==
    ASSUME StorageGiven, StorageInv, Space!Cleanup
    PROVE  StorageInv'
<1> DEFINE gone == UNION {g \ {Space!Keeper(g)} : g \in offers.groups}
           left == DOMAIN shelf \ gone
<1>1. /\ offers.tag = "shown" /\ shelf' = Space!Restrict(shelf, left)
      /\ commits' = commits + 1
      /\ kept' = (IF offers.at = commits THEN {shelf[m].holds : m \in Space!Models(shelf)} ELSE {})
      /\ memo' = Space!Dropped /\ offers' = Space!None /\ UNCHANGED <<conn, task>>
  BY DEF Space!Cleanup
<1>2. DOMAIN shelf' = left /\ \A m \in left : shelf'[m] = shelf[m]
  BY <1>1 DEF Space!Restrict
<1>3. DOMAIN memo' = Space!Derived /\ ~(offers'.tag = "shown")
  BY <1>1 DEF Space!Dropped, Space!None
<1>4. \A t \in Http : Remembered(t)' /\ Underway(t)' /\ conn'[t].noticed <= commits'
  BY <1>1, StillOlder
<1>5. kept' \subseteq {shelf'[m].holds : m \in Space!Models(shelf')}
  <2>1. CASE offers.at = commits
    <3>1. offers.groups = Space!Groups(Space!Signals(shelf), shelf) /\ DOMAIN shelf \subseteq Shelved
      BY <1>1, <2>1 DEF StorageInv, Offered
    <3> SUFFICES ASSUME NEW m \in Space!Models(shelf)
        PROVE  \E n \in Space!Models(shelf') : shelf'[n].holds = shelf[m].holds
      BY <1>1, <2>1
    <3>2. \E n \in Space!Models(shelf) \ gone : shelf[n].holds = shelf[m].holds
      <4>1. CASE m \notin gone
        BY <4>1
      <4>2. CASE m \in gone
        <5>1. PICK g \in offers.groups : m \in g
          BY <4>2
        <5>2. g \in Space!Groups(Space!Signals(shelf), shelf)
          BY <3>1, <5>1
        <5>3. /\ Space!Keeper(g) \in Space!Models(shelf) \ gone
              /\ shelf[Space!Keeper(g)].holds = shelf[m].holds
          BY <3>1, <5>1, <5>2, KeptAlike
        <5>4. QED
          BY <5>3
      <4>3. QED
        BY <4>1, <4>2
    <3>3. PICK n \in Space!Models(shelf) \ gone : shelf[n].holds = shelf[m].holds
      BY <3>2
    <3> HIDE DEF gone
    <3>4. n \in left /\ n \in Space!Models(shelf')
      BY <1>2 DEF Space!Models
    <3>5. QED
      BY <1>2, <3>3, <3>4
  <2>2. CASE offers.at # commits
    BY <1>1, <2>2
  <2>3. QED
    BY <2>1, <2>2
<1> HIDE DEF gone
<1>6. /\ commits' \in Nat /\ DOMAIN shelf' \subseteq Shelved /\ conn' = conn /\ task' = task
      /\ conn \in [Http -> [noticed : Nat, version : Nat]] /\ DOMAIN task = Http
  BY <1>1, <1>2 DEF StorageInv
<1>7. Offered'
  BY <1>3 DEF Offered
<1>8. QED
  BY <1>3, <1>4, <1>5, <1>6, <1>7 DEF StorageInv

LEMMA LibraryCommits ==
    ASSUME StorageInv, Space!Commit
    PROVE  StorageInv'
<1>1. commits' = commits + 1 /\ kept' = {} /\ UNCHANGED <<conn, memo, task, offers>>
  BY DEF Space!Commit
<1>2. DOMAIN shelf' \subseteq DOMAIN shelf
  BY DEF Space!Commit, Space!Restrict
<1>3. \A t \in Http : Remembered(t)' /\ Underway(t)' /\ conn'[t].noticed <= commits'
  BY <1>1, StillOlder
<1>4. Offered'
  <2>1. ASSUME offers.tag = "shown" PROVE offers.at \in Nat /\ offers.at <= commits' /\ offers.at # commits'
    <3>1. offers.at \in Nat /\ offers.at <= commits /\ commits \in Nat
      BY <2>1 DEF StorageInv, Offered
    <3>2. QED
      BY <1>1, <3>1
  <2>2. QED
    BY <1>1, <2>1 DEF Offered
<1>5. QED
  BY <1>1, <1>2, <1>3, <1>4 DEF StorageInv

LEMMA StorageStep ==
    ASSUME StorageGiven, OneConnection, StorageInv, [Space!Next]_(Space!storageVars)
    PROVE  StorageInv'
<1>1. CASE UNCHANGED Space!storageVars
  <2>1. UNCHANGED <<shelf, commits, conn, memo, task, offers, kept>>
    BY <1>1 DEF Space!storageVars
  <2>2. QED
    BY <2>1 DEF StorageInv, Remembered, Underway, Offered, AsNow, Space!Models
<1>2. QED
  BY <1>1, LookupKeeps, ComputeKeeps, RememberKeeps, AnswerKeeps, CleanupKeeps, LibraryCommits DEF Space!Next

LEMMA StorageIsSound ==
    ASSUME StorageGiven, StaleDays = 180, StorageInv
    PROVE  Space!AnswersCurrent /\ Space!CleanupKeepsContent
<1>1. Space!AnswersCurrent
  BY DEF StorageInv, Underway, Space!AnswersCurrent
<1>2. \A sig : \A m \in Shelved : \A r \in Space!Asks : r \in Space!Reasons(sig, m) <=> Space!Clause(sig, m, r)
  BY DEF Space!Reasons, Space!Clause, Space!Asks, Space!Headlines
<1>3. \A sig : \A m \in Shelved : Space!Reasons(sig, m) = {r \in Space!Asks : Space!Clause(sig, m, r)}
  <2>1. \A sig : \A m \in Shelved : Space!Reasons(sig, m) \subseteq Space!Asks
    BY DEF Space!Reasons
  <2>2. QED
    BY <1>2, <2>1
<1>4. ASSUME NEW sig, NEW r \in Space!Headlines
      PROVE  Space!Counted(sig, shelf, r) \cap DOMAIN shelf = {m \in DOMAIN shelf : Space!Clause(sig, m, r)}
  <2>1. \A m \in DOMAIN shelf : FactsOf[m].kind \in {"model", "output"}
    BY DEF StorageInv, StorageGiven
  <2>2. CASE r = "duplicate"
    <3>1. Space!Counted(sig, shelf, r) = {m \in DOMAIN sig : sig[m].duplicate.method # "none"}
      BY <2>2 DEF Space!Counted
    <3>2. \A m : Space!Clause(sig, m, r) <=> m \in DOMAIN sig /\ sig[m].duplicate.method # "none"
      BY <2>2 DEF Space!Clause
    <3>3. QED
      BY <3>1, <3>2
  <2>3. CASE r = "superseded"
    <3>1. Space!Counted(sig, shelf, r) = {m \in DOMAIN sig : sig[m].superseded}
      BY <2>3 DEF Space!Counted
    <3>2. \A m : Space!Clause(sig, m, r) <=> m \in DOMAIN sig /\ sig[m].superseded
      BY <2>3 DEF Space!Clause
    <3>3. QED
      BY <3>1, <3>2
  <2>4. CASE r = "unused"
    <3>1. Space!Counted(sig, shelf, r) = {m \in Space!Models(shelf) : FactsOf[m].uses = 0}
      BY <2>4 DEF Space!Counted
    <3>2. \A m : Space!Clause(sig, m, r) <=> Space!Unused(m)
      BY <2>4 DEF Space!Clause
    <3>3. QED
      BY <3>1, <3>2 DEF Space!Unused, Space!Models
  <2>5. CASE r = "integrity"
    <3>1. Space!Counted(sig, shelf, r) = {m \in Space!Models(shelf) : FactsOf[m].integrity # "ok"}
      BY <2>5 DEF Space!Counted
    <3>2. \A m : Space!Clause(sig, m, r) <=> Space!Broken(m)
      BY <2>5 DEF Space!Clause
    <3>3. QED
      BY <3>1, <3>2 DEF Space!Broken, Space!Models
  <2>6. CASE r = "orphan_output"
    <3>1. Space!Counted(sig, shelf, r) = {m \in DOMAIN shelf \ Space!Models(shelf) : FactsOf[m].source = "gone"}
      BY <2>6 DEF Space!Counted
    <3>2. \A m : Space!Clause(sig, m, r) <=> Space!Orphan(m)
      BY <2>6 DEF Space!Clause
    <3>3. QED
      BY <2>1, <3>1, <3>2 DEF Space!Orphan, Space!Models
  <2>7. CASE r = "non_media"
    <3>1. Space!Counted(sig, shelf, r) = {m \in DOMAIN shelf \ Space!Models(shelf) : FactsOf[m].media = "other"}
      BY <2>7 DEF Space!Counted
    <3>2. \A m : Space!Clause(sig, m, r) <=> Space!NonMedia(m)
      BY <2>7 DEF Space!Clause
    <3>3. QED
      BY <2>1, <3>1, <3>2 DEF Space!NonMedia, Space!Models
  <2>8. QED
    BY <2>2, <2>3, <2>4, <2>5, <2>6, <2>7 DEF Space!Headlines
<1>5. kept \subseteq {shelf[m].holds : m \in Space!Models(shelf)}
  BY DEF StorageInv
<1>6. QED
  BY <1>1, <1>3, <1>4, <1>5 DEF Space!CleanupKeepsContent

-----------------------------------------------------------------------------
\* What a request about storage answers with was derived no earlier than the last commit its
\* connection noticed, what the cleanup offered now keeps of each file's content is still there,
\* and a list of reasons agrees with the counts beside it, for any library and any commits,
\* where the requests read over one connection (the numbers two connections give to what they
\* notice cannot be compared) and an output is stale after the 180 days the code starts with
\* (storage_query.py, database.py).
THEOREM StorageStaysSound ==
    ASSUME OneConnection, StaleDays = 180
    PROVE  Spec => []StorageSound
<1> DEFINE Inv == "storage" \in focus => StorageInv
<1>0. StorageGiven
  BY ServicesOK DEF StorageGiven
<1>1. Init => Inv
  BY <1>0, StorageInit DEF Init
<1>2. Inv /\ [Next]_<<focus, services>> => Inv'
  BY <1>0, StorageStep, Apart
<1>3. Inv => StorageSound
  BY <1>0, StorageIsSound DEF StorageSound
<1>4. QED
  BY <1>1, <1>2, <1>3, PTL DEF Spec

=============================================================================
