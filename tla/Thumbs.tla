------------------------------- MODULE Thumbs ------------------------------
(***************************************************************************)
(* The thumbnail cache of one asset at one size.  Requests that find no    *)
(* current thumbnail share one rendering; what is rendered is put in place *)
(* by a rename and recorded with the fingerprint the asset had when it was *)
(* asked for.  Posters of 3D models are rendered by the browser.           *)
(***************************************************************************)
EXTENDS Naturals, FiniteSets

CONSTANTS
    Viewer,         \* requests for the thumbnail
    Poster,         \* uploads of a poster
    Media,          \* media the asset may be of
    MaxChange,      \* bounds of the model
    MaxClean

VARIABLES
    art,        \* the asset: its media, its content, its fingerprint
    tile,       \* the file in the cache and the row that vouches for it
    drafts,     \* .part files under the one name
    flight,     \* the rendering under way, if any
    viewers,    \* what the requests are doing
    posters,    \* what the uploads are doing
    cleaning,   \* what a cleaning under way still has to remove
    cleans      \* how often the cache was cleaned, bounded

thumbsVars == <<art, tile, drafts, flight, viewers, posters, cleaning, cleans>>

Nothing == [is |-> "nothing", of |-> 0]
Gradient(n) == [is |-> "gradient", of |-> n]
Shot(n) == [is |-> "picture", of |-> n]

Idle == [at |-> "idle"]

Init ==
    /\ \E m \in Media : art = [media |-> m, holds |-> 1, stamp |-> 1]
    /\ tile = [file |-> Nothing, row |-> 0]
    /\ drafts = Nothing
    /\ flight = Idle
    /\ viewers = [v \in Viewer |-> Idle]
    /\ posters = [p \in Poster |-> Idle]
    /\ cleaning = "no"
    /\ cleans = 0

\* get: the row must have the fingerprint of the asset, and the file be there.
Cached == tile.row = art.stamp /\ tile.file # Nothing

\* A request is answered from the cache, joins the rendering, or starts one.
Get(v) ==
    /\ viewers[v] = Idle
    /\ IF Cached
       THEN /\ viewers' = [viewers EXCEPT ![v] = [at |-> "sent"]]
            /\ UNCHANGED flight
       ELSE /\ viewers' = [viewers EXCEPT ![v] = [at |-> "wait"]]
            /\ flight' = IF flight # Idle THEN flight
                         ELSE [at |-> "render", stamp |-> art.stamp, row |-> tile.row]
    /\ UNCHANGED <<art, tile, drafts, posters, cleaning, cleans>>

\* _generate: the picture as the file is now, or a gradient.
Render ==
    /\ flight.at = "render"
    /\ \E s \in {Gradient(art.holds)} \cup
                (IF art.media = "model3d" THEN {} ELSE {Shot(art.holds)}) :
          flight' = [at |-> "part", stamp |-> flight.stamp, row |-> flight.row, draws |-> s]
    /\ UNCHANGED <<art, tile, drafts, viewers, posters, cleaning, cleans>>

Part ==
    /\ flight.at = "part"
    /\ drafts' = flight.draws
    /\ flight' = [flight EXCEPT !.at = "place"]
    /\ UNCHANGED <<art, tile, viewers, posters, cleaning, cleans>>

\* The file may have been renamed by the other writer: the request fails.
Place ==
    /\ flight.at = "place"
    /\ IF drafts = Nothing
       THEN /\ flight' = [flight EXCEPT !.at = "failed"]
            /\ UNCHANGED <<tile, drafts>>
       ELSE /\ tile' = [tile EXCEPT !.file = drafts]
            /\ drafts' = Nothing
            /\ flight' = [flight EXCEPT !.at = "row"]
    /\ UNCHANGED <<art, viewers, posters, cleaning, cleans>>

\* A gradient for a 3D model does not claim the slot of the poster.
Transient == flight.draws.is = "gradient" /\ art.media = "model3d"

\* mutant of Vouched: the one the asset has by now
VouchedLate == art.stamp

\* The fingerprint the row gets.
Vouched == flight.stamp

\* The row may fail to be written; the file is on disk either way.
Record ==
    /\ flight.at = "row"
    /\ \/ tile' = [tile EXCEPT !.row = IF Transient THEN @ ELSE Vouched]
       \/ UNCHANGED tile
    /\ flight' = [flight EXCEPT !.at = "done"]
    /\ UNCHANGED <<art, drafts, viewers, posters, cleaning, cleans>>

\* The rendering ends: all that waited get its result.
Land ==
    /\ flight.at \in {"done", "failed"}
    /\ viewers' = [v \in Viewer |->
         IF viewers[v].at = "wait"
         THEN IF flight.at = "done" THEN [at |-> "sent"] ELSE [at |-> "error"]
         ELSE viewers[v]]
    /\ flight' = Idle
    /\ UNCHANGED <<art, tile, drafts, posters, cleaning, cleans>>

-----------------------------------------------------------------------------
(* Posters, cleaning, changes of the asset *)

\* store_rendered: only for a 3D model.
Upload(p) ==
    /\ posters[p] = Idle /\ art.media = "model3d"
    /\ posters' = [posters EXCEPT ![p] =
         [at |-> "part", stamp |-> art.stamp, draws |-> Shot(art.holds)]]
    /\ UNCHANGED <<art, tile, drafts, flight, viewers, cleaning, cleans>>

UploadPart(p) ==
    /\ posters[p].at = "part"
    /\ drafts' = posters[p].draws
    /\ posters' = [posters EXCEPT ![p].at = "place"]
    /\ UNCHANGED <<art, tile, flight, viewers, cleaning, cleans>>

UploadPlace(p) ==
    /\ posters[p].at = "place"
    /\ IF drafts = Nothing
       THEN /\ posters' = [posters EXCEPT ![p] = [at |-> "error"]]
            /\ UNCHANGED <<tile, drafts>>
       ELSE /\ tile' = [tile EXCEPT !.file = drafts]
            /\ drafts' = Nothing
            /\ posters' = [posters EXCEPT ![p].at = "row"]
    /\ UNCHANGED <<art, flight, viewers, cleaning, cleans>>

UploadRow(p) ==
    /\ posters[p].at = "row"
    /\ tile' = [tile EXCEPT !.row = posters[p].stamp]
    /\ posters' = [posters EXCEPT ![p] = [at |-> "done"]]
    /\ UNCHANGED <<art, drafts, flight, viewers, cleaning, cleans>>

\* relocate: after a rename or a move the row goes, then the file.
Forget ==
    /\ cleans < MaxClean /\ cleaning = "no"
    /\ cleans' = cleans + 1
    /\ cleaning' = "file"
    /\ tile' = [tile EXCEPT !.row = 0]
    /\ UNCHANGED <<art, drafts, flight, viewers, posters>>

Unlink ==
    /\ cleaning = "file"
    /\ cleaning' = "no"
    /\ tile' = [tile EXCEPT !.file = Nothing]
    /\ UNCHANGED <<art, drafts, flight, viewers, posters, cleans>>

\* gc: the files of the victims go at once, then their rows together.
Collect ==
    /\ cleans < MaxClean /\ cleaning = "no" /\ tile.row # 0
    /\ cleans' = cleans + 1
    /\ tile' = [tile EXCEPT !.file = Nothing]
    /\ cleaning' = "row"
    /\ UNCHANGED <<art, drafts, flight, viewers, posters>>

CollectRow ==
    /\ cleaning = "row"
    /\ cleaning' = "no"
    /\ tile' = [tile EXCEPT !.row = 0]
    /\ UNCHANGED <<art, drafts, flight, viewers, posters, cleans>>

\* The file changes, and a scan finds it changed.
Repaint ==
    /\ art.holds = art.stamp /\ art.holds <= MaxChange
    /\ art' = [art EXCEPT !.holds = @ + 1]
    /\ UNCHANGED <<tile, drafts, flight, viewers, posters, cleaning, cleans>>

Scan ==
    /\ art.stamp # art.holds
    /\ art' = [art EXCEPT !.stamp = art.holds]
    /\ UNCHANGED <<tile, drafts, flight, viewers, posters, cleaning, cleans>>

Next ==
    \/ \E v \in Viewer : Get(v)
    \/ Render \/ Part \/ Place \/ Record \/ Land
    \/ \E p \in Poster : Upload(p) \/ UploadPart(p) \/ UploadPlace(p) \/ UploadRow(p)
    \/ Forget \/ Unlink \/ Collect \/ CollectRow \/ Repaint \/ Scan

-----------------------------------------------------------------------------
\* A row with the fingerprint of an image or a video vouches for a file that
\* shows it at least as new (thumb_service.py get, _generate, gc, relocate).
ThumbsCurrent ==
    art.media # "model3d" /\ tile.row # 0 /\ tile.file # Nothing =>
        tile.file.of >= tile.row
=============================================================================
