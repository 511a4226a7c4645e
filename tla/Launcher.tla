------------------------------ MODULE Launcher -----------------------------
(***************************************************************************)
(* ComfyUI seen from the vault (services/comfyui_service.py): what of an   *)
(* install may be run, the two requests that start a program, the updater  *)
(* and ComfyUI itself with the threads that watch them.                    *)
(*                                                                         *)
(* Abstractions.  A program is a name.  A port is the default one or the   *)
(* one that a script pins.  A ComfyUI started by hand appears when it      *)
(* begins to listen.  The address of a workflow is in DeepLinks.           *)
(***************************************************************************)
EXTENDS Naturals, Sequences, FiniteSets

CONSTANTS
    Script,         \* launcher scripts: the first in order pins its port
    Updater,        \* update mechanisms
    Caller,         \* request threads
    MaxProcess,     \* bound of ComfyUI's processes
    MaxTurn         \* bound of what the user and other programs do

VARIABLES
    install,        \* the folder: [proof, scripts, updaters, unsafe]
    comfy,          \* ComfyUI's processes: [state, port]
    request,        \* where each caller is in run_updater or open_workflow
    update,         \* _run_state with its thread
    launch,         \* _launch_state with its thread
    unseen,         \* something happened that the checks cannot see
    turns

launcherVars == <<install, comfy, request, update, launch, unseen, turns>>

Default == 1
Pinned == 2
PortOf(s) == IF s = CHOOSE x \in Script : TRUE THEN Pinned ELSE Default

-----------------------------------------------------------------------------
(* Discovery.                                                              *)

\* What an install offers, if it is a verified one; an entry whose path cmd.exe would parse
\* again is listed, and cannot be run.
Verified == install.proof
Unsafe == install.unsafe
Offered(op) ==
    IF ~Verified THEN {} ELSE IF op = "update" THEN install.updaters ELSE install.scripts

\* The entry asked for, or the recommended one: the first that can be run, if any.
Recommended(found) ==
    IF found \ Unsafe # {} THEN CHOOSE x \in found \ Unsafe : TRUE
                                   ELSE CHOOSE x \in found : TRUE
Resolve(found, id) == IF id = "recommended" THEN Recommended(found) ELSE id
Resolves(found, id) ==
    /\ found # {}
    /\ id = "recommended" \/ id \in found
    /\ Resolve(found, id) \notin Unsafe

\* is_running: something listens on a default port or on one a launcher pins.
Probed == {Default} \cup {PortOf(s) : s \in Offered("start")}

Alive == {i \in DOMAIN comfy : comfy[i].state # "gone"}
Serving == {i \in Alive : comfy[i].state = "serving"}
Running == \E i \in Serving : comfy[i].port \in Probed

-----------------------------------------------------------------------------
Idle == [pc |-> "idle"]
NoLaunch == [status |-> "idle", script |-> "none", process |-> 0]
Turn == turns < MaxTurn /\ turns' = turns + 1

Init ==
    /\ install \in [proof : {TRUE}, scripts : {Script}, updaters : {Updater},
                    unsafe : {{}, {CHOOSE s \in Script : TRUE}}]
    /\ comfy = <<>>
    /\ request = [c \in Caller |-> Idle]
    /\ update = "idle" /\ launch = NoLaunch
    /\ unseen = FALSE /\ turns = 0

\* The plan routes: the user sees what would run.
Plan(c, op, id) ==
    /\ request[c] = Idle
    /\ Resolves(Offered(op), id)
    /\ request' = [request EXCEPT ![c] =
            [pc |-> "shown", op |-> op, id |-> id, path |-> Resolve(Offered(op), id)]]
    /\ UNCHANGED <<install, comfy, update, launch, unseen, turns>>

\* run_updater and open_workflow's start_comfyui up to their locks: the program is resolved
\* again and must be the confirmed one, and nothing may listen; a start also looks at the
\* updater.
Confirmed(r) ==
    /\ Resolves(Offered(r.op), r.id)
    /\ Resolve(Offered(r.op), r.id) = r.path
MayUpdate(r) == r.op = "update" /\ Confirmed(r) /\ ~Running
MayStart(r) == r.op = "start" /\ Confirmed(r) /\ ~Running /\ update # "running"

Ask(c) ==
    /\ request[c].pc = "shown"
    /\ LET r == request[c]
       IN  request' = [request EXCEPT ![c] =
              IF MayUpdate(r) \/ MayStart(r)
              THEN [pc |-> "checked", op |-> r.op, path |-> r.path,
                    behind |-> r.op = "update" /\ launch.status = "starting"]
              ELSE Idle]
    /\ UNCHANGED <<install, comfy, update, launch, unseen, turns>>

\* The locks: test and set, then the thread.  Callers that made their checks before a
\* thread began or a start ended are behind: they do not see it.
Overtaken ==
    [d \in Caller |-> IF request[d].pc = "checked" THEN [request[d] EXCEPT !.behind = TRUE]
                      ELSE request[d]]

BeginUpdate(c) ==
    /\ request[c].pc = "checked" /\ request[c].op = "update"
    /\ IF update = "running"
       THEN request' = [request EXCEPT ![c] = Idle] /\ UNCHANGED <<update, unseen>>
       ELSE /\ update' = "running"
            /\ unseen' = (unseen \/ request[c].behind)
            /\ request' = [Overtaken EXCEPT ![c] = Idle]
    /\ UNCHANGED <<install, comfy, launch, turns>>

BusyNever == FALSE                                    \* mutant of Busy
Busy == launch.status = "starting"
BeginLaunch(c) ==
    /\ request[c].pc = "checked" /\ request[c].op = "start"
    /\ IF Busy
       THEN request' = [request EXCEPT ![c] = Idle] /\ UNCHANGED <<launch, unseen>>
       ELSE /\ launch' = [status |-> "starting", script |-> request[c].path, process |-> 0]
            /\ unseen' = (unseen \/ request[c].behind)
            /\ request' = [Overtaken EXCEPT ![c] = Idle]
    /\ UNCHANGED <<install, comfy, update, turns>>

-----------------------------------------------------------------------------
(* The threads and the programs they watch.                                *)

UpdateEnds ==
    /\ update = "running"
    /\ update' \in {"completed", "failed"}
    /\ UNCHANGED <<install, comfy, request, launch, unseen, turns>>

Spawn ==
    /\ launch.status = "starting" /\ launch.process = 0 /\ Len(comfy) < MaxProcess
    /\ comfy' = Append(comfy, [state |-> "loading", port |-> PortOf(launch.script)])
    /\ launch' = [launch EXCEPT !.process = Len(comfy')]
    /\ UNCHANGED <<install, request, update, unseen, turns>>

SpawnFails ==
    /\ launch.status = "starting" /\ launch.process = 0
    /\ launch' = [launch EXCEPT !.status = "failed"]
    /\ UNCHANGED <<install, comfy, request, update, unseen, turns>>

\* A process listens once it has loaded, unless its port is taken.
Listens(i) ==
    /\ comfy[i].state = "loading"
    /\ comfy' = [comfy EXCEPT ![i].state =
            IF \E j \in Serving : comfy[j].port = comfy[i].port THEN "gone" ELSE "serving"]
    /\ UNCHANGED <<install, request, update, launch, unseen, turns>>

\* The port answers as ComfyUI; or the process has ended; or five minutes are over, and
\* it may still be loading.
Ready ==
    /\ launch.status = "starting" /\ launch.process # 0
    /\ \E i \in Serving : comfy[i].port = PortOf(launch.script)
    /\ launch' = [launch EXCEPT !.status = "ready"]
    /\ request' = Overtaken
    /\ UNCHANGED <<install, comfy, update, unseen, turns>>

Exited ==
    /\ launch.status = "starting" /\ launch.process # 0
    /\ comfy[launch.process].state = "gone"
    /\ launch' = [launch EXCEPT !.status = "failed"]
    /\ UNCHANGED <<install, comfy, request, update, unseen, turns>>

GivesUp ==
    /\ launch.status = "starting" /\ launch.process # 0
    /\ comfy[launch.process].state = "loading"
    /\ launch' = [launch EXCEPT !.status = "failed"]
    /\ unseen' = TRUE
    /\ UNCHANGED <<install, comfy, request, update, turns>>

-----------------------------------------------------------------------------
(* The user and other programs.                                            *)

\* ComfyUI closed, or started by hand.
Close(i) ==
    /\ i \in Alive
    /\ comfy' = [comfy EXCEPT ![i].state = "gone"]
    /\ UNCHANGED <<install, request, update, launch, unseen, turns>>

InProgress == Alive # {} \/ Busy \/ \E c \in Caller : request[c].pc = "checked"
Appears ==
    /\ Turn /\ Len(comfy) < MaxProcess
    /\ ~\E i \in Serving : comfy[i].port = Default
    /\ comfy' = Append(comfy, [state |-> "serving", port |-> Default])
    /\ unseen' = (unseen \/ update = "running" \/ InProgress)
    /\ UNCHANGED <<install, request, update, launch>>

\* Another folder is configured, a script comes or goes or is renamed.
Rearrange ==
    /\ Turn
    /\ install' \in [proof : BOOLEAN, scripts : SUBSET Script, updaters : {Updater},
                     unsafe : {install.unsafe}]
    /\ unseen' = (unseen \/ (Pinned \notin Probed' /\ InProgress))
    /\ UNCHANGED <<comfy, request, update, launch>>

Next ==
    \/ \E c \in Caller :
        \/ \E op \in {"update", "start"} : \E id \in {"recommended"} \cup Offered(op) : Plan(c, op, id)
        \/ Ask(c) \/ BeginUpdate(c) \/ BeginLaunch(c)
    \/ UpdateEnds \/ Spawn \/ SpawnFails \/ Ready \/ Exited \/ GivesUp
    \/ \E i \in DOMAIN comfy : Listens(i) \/ Close(i)
    \/ Appears \/ Rearrange

Spec == Init /\ [][Next]_launcherVars

-----------------------------------------------------------------------------
(* Properties.                                                             *)

\* The vault never starts a second ComfyUI beside one it could have seen, and never runs
\* the updater under one.  What it cannot see: a ComfyUI that was started between check and
\* lock, by hand or by another request; one that still loads when an update is asked for, or
\* after a start gave up on it; one on a port that no script pins any more.
OneComfyUI ==
    /\ ~unseen => Cardinality(Alive) <= 1
    /\ ~unseen /\ update = "running" => Alive = {}
=============================================================================
