------------------------------ MODULE Services -----------------------------
(***************************************************************************)
(* The services that share no state, side by side: each takes its own      *)
(* steps on its own variables.  focus says which of them a behaviour is    *)
(* about, all of them or a few; the others rest.                           *)
(***************************************************************************)
EXTENDS Naturals, Sequences, FiniteSets

CONSTANTS
    Focus,          \* which services, and which rows, a behaviour is about
    Client,         \* request threads of the HTTP API
    Http, Stdio,    \* requests and processes of the MCP server
    Item            \* assets, as agents and albums name them

\* The constants of each service, which its module explains.
CONSTANTS
    Asset, AssetKind, NodeName, Registered, MaxStamp,
    OldAlbum, Crashes,
    StartScript, Updater, MaxProcess, MaxTurn,
    Latest, MaxMishap,
    Workflow, Dep, RefOf, CategoryOf, Unhashed, Missing, MaxVersion, TTL, MaxPlans,
    MaxRedirects, MaxIssued, MaxClock, MaxMoves,
    Called, Cap, SessionIdle, CallRate, Window, Batch, MaxSession, MaxCall, MaxEvent,
    Shelved, FactsOf, Content, First, StaleDays, MaxCommit,
    Poster, Media, MaxClean,
    ConfigAsks, Looks, Dir, HintsOf(_), ChildrenOf(_), MAX_CHILD_PROBE, MaxSaves, MaxFailures,
    Releases, RETRIES, BREAKER_THRESHOLD, MaxAsk, MaxScan,
    Package, ComfyRoot, Managed, MaxLook, MaxFetch,
    AlbumName, System, MaxAlbum, MaxEdit,
    MaxChange

\* The installed release is not among the later ones, no manager is where there is no ComfyUI,
\* ids are numbers, storage is asked about finitely many models and outputs, and the tables of
\* kinds, of what workflows miss and of bounds are of their types.
ASSUME ServicesOK ==
    /\ AssetKind \in [Asset -> {"model", "node", "workflow", "output"}]
    /\ 0 \notin Latest
    /\ Missing \in [Workflow -> SUBSET Dep]
    /\ MaxVersion \in Nat \ {0} /\ MaxRedirects \in Nat /\ TTL \in Nat
    /\ Package \subseteq Nat
    /\ "none" \notin Managed
    /\ MaxFetch \in Nat /\ MaxLook \in Nat
    /\ "nobody" \notin Client
    /\ MAX_CHILD_PROBE \in Nat /\ \A d \in Dir : ChildrenOf(d) \in Seq(Dir)
    /\ IsFiniteSet(Http) /\ Http # {} /\ IsFiniteSet(Stdio) /\ Http \cap Stdio = {}
    /\ CallRate \in Nat \ {0} /\ Cap \in Nat \ {0}
    /\ IsFiniteSet(Shelved)
    /\ \A a \in Shelved : FactsOf[a].kind \in {"model", "output"} /\ FactsOf[a].size \in Nat
    /\ \A lib \in First : DOMAIN lib \subseteq Shelved

VARIABLES focus
VARIABLES file, beside, row, entered
VARIABLES db, work, legacyFile, at, state, importCut, crashes
VARIABLES install, comfy, request, update, launch, unseen, turns
VARIABLES live, staged, backup, marker, engine, download, apply, mixed, mishaps
VARIABLES source, disk, owned, plans, current, shown, clock, asks, queue, worker, moves
VARIABLES seats, session, policy, things, handling, effects, audit, calls, now, events, lost
VARIABLES shelf, commits, conn, memo, task, offers, kept
VARIABLES art, tile, drafts, flight, viewers, posters, cleaning, cleans
VARIABLES look, settings, cached, holder, clients, rootRows, placed, failures
VARIABLES model, cache, puts, breaker, tasks, lookups, said, uses
VARIABLES package, running, batch, callers, checksOn, seen, late, rounds
VARIABLES root, registries, held, heldRoot, reverse, threads, overlap, looks
VARIABLES files, cachePath, tmpPath, aged, allowed, readers, shared, fetches
VARIABLES albums, members, trash, release, made, meant, again, edits

rowsVars == <<file, beside, row, entered>>
upgradeVars == <<db, work, legacyFile, at, state, importCut, crashes>>
launcherVars == <<install, comfy, request, update, launch, unseen, turns>>
releaseVars ==
    <<live, staged, backup, marker, engine, download, apply, mixed, mishaps>>
plansVars ==
    <<source, disk, owned, plans, current, shown, clock, asks, queue, worker, moves>>
agentsVars ==
    <<seats, session, policy, things, handling, effects, audit, calls, now, events, lost>>
storageVars == <<shelf, commits, conn, memo, task, offers, kept>>
thumbsVars == <<art, tile, drafts, flight, viewers, posters, cleaning, cleans>>
configVars == <<look, settings, cached, holder, clients, rootRows, placed, failures>>
onlineVars == <<model, cache, puts, breaker, tasks, lookups, said, uses>>
updatesVars == <<package, running, batch, callers, checksOn, seen, late, rounds>>
registryVars == <<root, registries, held, heldRoot, reverse, threads, overlap, looks>>
catalogueVars == <<files, cachePath, tmpPath, aged, allowed, readers, shared, fetches>>
albumsVars == <<albums, members, trash, release, made, meant, again, edits>>
services == <<rowsVars, upgradeVars, launcherVars, releaseVars, plansVars,
              agentsVars, storageVars, thumbsVars, configVars, onlineVars,
              updatesVars, registryVars, catalogueVars, albumsVars>>

-----------------------------------------------------------------------------
Rows == INSTANCE AssetRows WITH KindOf <- AssetKind, Name <- NodeName
Upgrade == INSTANCE Migrations WITH Album <- OldAlbum
Launch == INSTANCE Launcher WITH Caller <- Client, Script <- StartScript
Release == INSTANCE AppUpdate WITH Downloader <- Client
Planned == INSTANCE Plans
Agents == INSTANCE ToolServer WITH Asked <- Called, Idle <- SessionIdle, Rate <- CallRate
Space == INSTANCE Storage WITH Asset <- Shelved, Thread <- Http
Tiles == INSTANCE Thumbs WITH Viewer <- Client
Conf == INSTANCE Config WITH Asks <- ConfigAsks
Lookups == INSTANCE Online WITH Task <- Client
Updates == INSTANCE UpdateChecks WITH Caller <- Client
Registry == INSTANCE NodeRegistry WITH Thread <- Client, Root <- ComfyRoot
Served == INSTANCE Catalogue WITH Reader <- Client
Shelf == INSTANCE Albums WITH Name <- AlbumName, Asset <- Item, MaxChange <- MaxEdit

-----------------------------------------------------------------------------
(* A service at rest has no state. *)

RowsRests == file = "rests" /\ beside = "rests" /\ row = "rests" /\ entered = "rests"
UpgradeRests == 
    /\ db = "rests" /\ work = "rests" /\ legacyFile = "rests" /\ at = "rests" /\ state = "rests"
    /\ importCut = "rests" /\ crashes = "rests"
LaunchRests == 
    /\ install = "rests" /\ comfy = "rests" /\ request = "rests" /\ update = "rests" /\ launch = "rests"
    /\ unseen = "rests" /\ turns = "rests"
ReleaseRests == 
    /\ live = "rests" /\ staged = "rests" /\ backup = "rests" /\ marker = "rests" /\ engine = "rests"
    /\ download = "rests" /\ apply = "rests" /\ mixed = "rests" /\ mishaps = "rests"
PlannedRests == 
    /\ source = "rests" /\ disk = "rests" /\ owned = "rests" /\ plans = "rests" /\ current = "rests"
    /\ shown = "rests" /\ clock = "rests" /\ asks = "rests" /\ queue = "rests" /\ worker = "rests"
    /\ moves = "rests"
AgentsRests == 
    /\ seats = "rests" /\ session = "rests" /\ policy = "rests" /\ things = "rests" /\ handling = "rests"
    /\ effects = "rests" /\ audit = "rests" /\ calls = "rests" /\ now = "rests" /\ events = "rests"
    /\ lost = "rests"
SpaceRests == 
    /\ shelf = "rests" /\ commits = "rests" /\ conn = "rests" /\ memo = "rests" /\ task = "rests"
    /\ offers = "rests" /\ kept = "rests"
TilesRests == 
    /\ art = "rests" /\ tile = "rests" /\ drafts = "rests" /\ flight = "rests" /\ viewers = "rests"
    /\ posters = "rests" /\ cleaning = "rests" /\ cleans = "rests"
ConfRests == 
    /\ look = "rests" /\ settings = "rests" /\ cached = "rests" /\ holder = "rests" /\ clients = "rests"
    /\ rootRows = "rests" /\ placed = "rests" /\ failures = "rests"
LookupsRests == 
    /\ model = "rests" /\ cache = "rests" /\ puts = "rests" /\ breaker = "rests" /\ tasks = "rests"
    /\ lookups = "rests" /\ said = "rests" /\ uses = "rests"
UpdatesRests == 
    /\ package = "rests" /\ running = "rests" /\ batch = "rests" /\ callers = "rests" /\ checksOn = "rests"
    /\ seen = "rests" /\ late = "rests" /\ rounds = "rests"
RegistryRests == 
    /\ root = "rests" /\ registries = "rests" /\ held = "rests" /\ heldRoot = "rests" /\ reverse = "rests"
    /\ threads = "rests" /\ overlap = "rests" /\ looks = "rests"
ServedRests == 
    /\ files = "rests" /\ cachePath = "rests" /\ tmpPath = "rests" /\ aged = "rests" /\ allowed = "rests"
    /\ readers = "rests" /\ shared = "rests" /\ fetches = "rests"
ShelfRests == 
    /\ albums = "rests" /\ members = "rests" /\ trash = "rests" /\ release = "rests" /\ made = "rests"
    /\ meant = "rests" /\ again = "rests" /\ edits = "rests"

Init ==
    /\ focus \in Focus
    /\ IF "rows" \in focus THEN Rows!Init ELSE RowsRests
    /\ IF "upgrade" \in focus THEN Upgrade!Init ELSE UpgradeRests
    /\ IF "launcher" \in focus THEN Launch!Init ELSE LaunchRests
    /\ IF "release" \in focus THEN Release!Init ELSE ReleaseRests
    /\ IF "plans" \in focus THEN Planned!Init ELSE PlannedRests
    /\ IF "agents" \in focus THEN Agents!Init ELSE AgentsRests
    /\ IF "storage" \in focus THEN Space!Init ELSE SpaceRests
    /\ IF "thumbs" \in focus THEN Tiles!Init ELSE TilesRests
    /\ IF "config" \in focus THEN Conf!Init ELSE ConfRests
    /\ IF "online" \in focus THEN Lookups!Init ELSE LookupsRests
    /\ IF "updates" \in focus THEN Updates!Init ELSE UpdatesRests
    /\ IF "registry" \in focus THEN Registry!Init ELSE RegistryRests
    /\ IF "catalogue" \in focus THEN Served!Init ELSE ServedRests
    /\ IF "albums" \in focus THEN Shelf!Init ELSE ShelfRests

\* The services but one do nothing.
Only(name) ==
    /\ UNCHANGED focus
    /\ name # "rows" => UNCHANGED rowsVars
    /\ name # "upgrade" => UNCHANGED upgradeVars
    /\ name # "launcher" => UNCHANGED launcherVars
    /\ name # "release" => UNCHANGED releaseVars
    /\ name # "plans" => UNCHANGED plansVars
    /\ name # "agents" => UNCHANGED agentsVars
    /\ name # "storage" => UNCHANGED storageVars
    /\ name # "thumbs" => UNCHANGED thumbsVars
    /\ name # "config" => UNCHANGED configVars
    /\ name # "online" => UNCHANGED onlineVars
    /\ name # "updates" => UNCHANGED updatesVars
    /\ name # "registry" => UNCHANGED registryVars
    /\ name # "catalogue" => UNCHANGED catalogueVars
    /\ name # "albums" => UNCHANGED albumsVars

Next ==
    \/ "rows" \in focus /\ (\E r \in Asset \cap focus : Rows!Step(r)) /\ Only("rows")
    \/ "upgrade" \in focus /\ Upgrade!Next /\ Only("upgrade")
    \/ "launcher" \in focus /\ Launch!Next /\ Only("launcher")
    \/ "release" \in focus /\ Release!Next /\ Only("release")
    \/ "plans" \in focus /\ Planned!Next /\ Only("plans")
    \/ "agents" \in focus /\ Agents!Next /\ Only("agents")
    \/ "storage" \in focus /\ Space!Next /\ Only("storage")
    \/ "thumbs" \in focus /\ Tiles!Next /\ Only("thumbs")
    \/ "config" \in focus /\ Conf!Next /\ Only("config")
    \/ "online" \in focus /\ Lookups!Next /\ Only("online")
    \/ "updates" \in focus /\ Updates!Next /\ Only("updates")
    \/ "registry" \in focus /\ Registry!Next /\ Only("registry")
    \/ "catalogue" \in focus /\ Served!Next /\ Only("catalogue")
    \/ "albums" \in focus /\ Shelf!Next /\ Only("albums")

Spec == Init /\ [][Next]_<<focus, services>>

-----------------------------------------------------------------------------

\* Whatever was indexed before, a row that carries its file's fingerprint is the row a scan
\* of an empty database would write, and keeps what the user entered (phases models, nodes,
\* workflows, outputs).
RowsExact == "rows" \in focus => Rows!ReindexExact

\* From whatever version and wherever it was cut off, an upgrade leaves the tables of the
\* version it says, no album twice and no asset without its album (migrations); from then on
\* no album is there twice, and what is in one was put there (albums_query.py).
UpgradeSound ==
    /\ "upgrade" \in focus => Upgrade!UpgradeSound
    /\ "albums" \in focus => Shelf!AlbumsSound

\* The vault starts no second ComfyUI beside one it could see and updates none that runs
\* (comfyui_service launch, run_updater).
OneComfyUI == "launcher" \in focus => Launch!OneComfyUI

\* A serving engine runs the files of one release, whatever download or move failed
\* (app_update_service, apply_update.py).
OneRelease == "release" \in focus => Release!OneRelease

\* Whatever is fetched was shown in the newest plan of its workflow and confirmed in time
\* (enable/plan.py, report.py, sources.py, git_fetch.py).
FetchedAsShown == "plans" \in focus => Planned!FetchedAsShown

\* What an agent changed was permitted when it asked, and is audited as what it was
\* (mcp/protocol.py, handlers.py, mcp_audit.py).
AgentsPermitted == "agents" \in focus => Agents!Permitted

\* What the storage page shows is as new as its request, and deleting the duplicates it
\* offers loses no content (storage_query.py, storage_service.py).
StorageSound == "storage" \in focus => Space!AnswersCurrent /\ Space!CleanupKeepsContent

\* A row with an image's fingerprint vouches for a thumbnail at least as new
\* (thumb_service.py).
ThumbsCurrent == "thumbs" \in focus => Tiles!ThumbsCurrent

\* The cached configuration is the stored one once no saving or loading is under way, and
\* the install stored is one if one is behind what was typed (config_service.py).
ConfigSound == "config" \in focus => Conf!ConfigCurrent /\ Conf!InstallFound

\* What is said of a model, a package or a class comes from an answer to that question, and
\* what waits or was fetched is not lost (civitai_service.py, node_update_service.py,
\* node_registry.py, node_registry_service.py).
LookupsSound ==
    /\ "online" \in focus => Lookups!SiteSaid
    /\ "updates" \in focus => Updates!UpdatesSeen /\ Updates!NobodyForgotten
    /\ "registry" \in focus => Registry!OwnRoot
    /\ "catalogue" \in focus => Served!CatalogueKept
=============================================================================
