------------------------------ MODULE Download -----------------------------
(***************************************************************************)
(* The model fetcher (backend/app/enable/download.py): resolve the name,   *)
(* resume or restart the .part file, stream the body, verify it from disk, *)
(* quarantine or place it.  Fetches follow one another (EnableQueue shows  *)
(* that one thread runs them), while the user cancels, other programs      *)
(* create and remove files, the source publishes new versions and fails,   *)
(* and the process crashes.                                                *)
(*                                                                         *)
(* Abstractions.  A file is a sequence of chunks, a chunk is the version   *)
(* it came from, and a digest is the sequence itself.  An absent .part and *)
(* an empty one are the same (_size_of is 0 for both).  Free space, hosts, *)
(* redirects and HTTP error bodies are one "the fetch fails" outcome.      *)
(***************************************************************************)
EXTENDS Naturals, Sequences

CONSTANTS
    Path,       \* names in the folder: the target and its "name (n)" siblings
    Target,     \* spec.target_abs_path
    Version,    \* versions the source may publish
    Length,     \* chunks in each version
    Metadata,   \* what a source may publish of a version: sets of "size", "sha256"
    OnConflict, \* the on_conflict modes in use
    Budget,     \* how often each kind of outside event may happen
    NoFile, Foreign

Kind == {"fault", "cancel", "crash", "publish", "foreign", "race"}

ASSUME DownloadOK ==
    /\ Target \in Path
    /\ Length \in [Version -> Nat \ {0}]
    /\ Metadata \subseteq SUBSET {"size", "sha256"}
    /\ OnConflict \subseteq {"fail", "skip", "keep_both"}
    /\ Budget \in [Kind -> Nat]
    /\ NoFile \notin Seq(Version) \cup {Foreign}
    /\ Foreign \notin Seq(Version)

VARIABLES
    files,    \* the model folder
    parts,    \* path -> the bytes of <path>.part
    served,   \* the version the source serves now
    spec,     \* the FetchSpec: the version it was made for, what is known of it
    pc,       \* where fetch is
    target,   \* the effective target
    body,     \* what the response still has to deliver
    cancel,   \* the event passed to fetch
    outcome,  \* FetchResult.state of the last fetch
    left

diskVars == <<files, parts>>
runVars  == <<spec, pc, target, body>>
vars == <<diskVars, served, runVars, cancel, outcome, left>>

Folder == INSTANCE ModelFolder
Whole(v) == Folder!Whole(v)

Content == Seq(Version)
FetchSpec == [want : Version, known : Metadata, on_conflict : OnConflict]

TypeOK ==
    /\ files \in [Path -> Content \cup {NoFile, Foreign}]
    /\ parts \in [Path -> Content]
    /\ served \in Version
    /\ spec \in FetchSpec
    /\ pc \in {"idle", "resolve", "open", "stream", "verify", "exists", "replace"}
    /\ target \in Path
    /\ body \in Content
    /\ cancel \in BOOLEAN
    /\ outcome \in {"none", "done", "skipped", "quarantined", "failed", "cancelled"}
    /\ left \in [Kind -> Nat]

Init ==
    /\ files \in [Path -> {NoFile, Foreign}]
    /\ parts = [p \in Path |-> <<>>]
    /\ served \in Version
    /\ spec \in FetchSpec /\ spec.want = served
    /\ pc = "idle" /\ target = Target /\ body = <<>>
    /\ cancel = FALSE /\ outcome = "none"
    /\ left = Budget

Spend(k) == left[k] > 0 /\ left' = [left EXCEPT ![k] = @ - 1]

\* fetch returns; whatever the .part file holds by now stays for the next fetch.
Return(result) ==
    /\ pc' = "idle"
    /\ outcome' = result
    /\ body' = <<>>
    /\ UNCHANGED <<spec, target>>

-----------------------------------------------------------------------------
(* One fetch *)

\* A confirmed plan item reaches the fetcher: its metadata was read when the
\* plan was made, from what the source then published.
Start(known, mode) ==
    /\ pc = "idle"
    /\ spec' = [want |-> served, known |-> known, on_conflict |-> mode]
    /\ pc' = "resolve"
    /\ cancel' = FALSE
    /\ outcome' = "none"
    /\ UNCHANGED <<diskVars, served, target, body, left>>

\* resolve_conflict, then the destination of the .part file.
Resolve ==
    /\ pc = "resolve"
    /\ \/ /\ files[Target] = NoFile
          /\ target' = Target /\ pc' = "open"
          /\ UNCHANGED <<spec, body, outcome>>
       \/ /\ files[Target] # NoFile /\ spec.on_conflict = "skip"
          /\ Return("skipped")
       \/ /\ files[Target] # NoFile /\ spec.on_conflict = "keep_both"
          /\ \E p \in Path : files[p] = NoFile /\ target' = p
          /\ pc' = "open"
          /\ UNCHANGED <<spec, body, outcome>>
       \/ /\ files[Target] # NoFile
          /\ spec.on_conflict # "skip"
          /\ spec.on_conflict = "keep_both" => \A p \in Path : files[p] # NoFile
          /\ Return("failed")
    /\ UNCHANGED <<diskVars, served, cancel, left>>

\* How much of the .part file the fetch builds on: nothing once it is as long
\* as the file should be.
ResumeFromAll == Len(parts[target])
ResumeFrom ==
    IF "size" \in spec.known /\ Len(parts[target]) >= Length[spec.want]
    THEN 0 ELSE Len(parts[target])

\* The answer pins the version; the body is opened for appending after a 206 and
\* truncated otherwise, also when a Range was asked for and ignored.
Restart ==
    /\ parts' = [parts EXCEPT ![target] = <<>>]
    /\ body' = Whole(served)
    /\ pc' = "stream"
    /\ UNCHANGED outcome

Continue ==
    /\ body' = SubSeq(Whole(served), ResumeFrom + 1, Length[served])
    /\ pc' = "stream"
    /\ UNCHANGED <<parts, outcome>>

\* The request.  A source answers 200 without a Range, 206 to a Range inside
\* the file and 416 to one past its end; as a fault, it ignores the Range, is
\* unreachable or answers anything else.
Open ==
    /\ pc = "open"
    /\ \/ ResumeFrom = 0 /\ Restart /\ UNCHANGED left
       \/ ResumeFrom \in 1 .. (Length[served] - 1) /\ Continue /\ UNCHANGED left
       \/ ResumeFrom >= Length[served] /\ Return("failed") /\ UNCHANGED <<parts, left>>
       \/ ResumeFrom > 0 /\ Restart /\ Spend("fault")
       \/ Return("failed") /\ Spend("fault") /\ UNCHANGED parts
    /\ UNCHANGED <<files, served, spec, target, cancel>>

\* _stream_to_part: a chunk arrives and the event is looked at before it is
\* written; the body ends; or the connection, the disk or the space fails.
Receive ==
    /\ pc = "stream"
    /\ \/ /\ body # <<>> /\ cancel
          /\ Return("cancelled")
          /\ UNCHANGED <<parts, left>>
       \/ /\ body # <<>> /\ ~cancel
          /\ parts' = [parts EXCEPT ![target] = Append(@, Head(body))]
          /\ body' = Tail(body)
          /\ UNCHANGED <<spec, pc, target, outcome, left>>
       \/ /\ body = <<>>
          /\ pc' = "verify"
          /\ UNCHANGED <<parts, spec, target, body, outcome, left>>
       \/ Return("failed") /\ Spend("fault") /\ UNCHANGED parts
    /\ UNCHANGED <<files, served, cancel>>

\* The comparison of _verify_and_place; with nothing published nothing passes.
PassesSizeOnly(bytes) ==
    /\ spec.known # {}
    /\ "size" \in spec.known => Len(bytes) = Length[spec.want]
Passes(bytes) ==
    /\ spec.known # {}
    /\ "size" \in spec.known => Len(bytes) = Length[spec.want]
    /\ "sha256" \in spec.known => bytes = Whole(spec.want)

\* A .part file that does not pass is moved to the quarantine folder.
Quarantine(p) == parts' = [parts EXCEPT ![p] = <<>>]

\* _verify_and_place up to the comparison, which reads the .part file in full.
Verify ==
    /\ pc = "verify"
    /\ \/ cancel /\ Return("cancelled") /\ UNCHANGED <<parts, left>>
       \/ ~cancel /\ ~Passes(parts[target])
          /\ Quarantine(target) /\ Return("quarantined") /\ UNCHANGED left
       \/ ~cancel /\ Passes(parts[target])
          /\ pc' = "exists"
          /\ UNCHANGED <<parts, spec, target, body, outcome, left>>
       \/ Return("failed") /\ Spend("fault") /\ UNCHANGED parts
    /\ UNCHANGED <<files, served, cancel>>

\* os.path.exists on the target ...
MayPlaceAnyway == TRUE
MayPlace == files[target] = NoFile
Exists ==
    /\ pc = "exists"
    /\ \/ MayPlace /\ pc' = "replace" /\ UNCHANGED <<spec, target, body, outcome>>
       \/ ~MayPlace /\ Return("failed")
    /\ UNCHANGED <<diskVars, served, cancel, left>>

\* ... then os.replace.
Replace ==
    /\ pc = "replace"
    /\ \/ /\ files' = [files EXCEPT ![target] = parts[target]]
          /\ parts' = [parts EXCEPT ![target] = <<>>]
          /\ Return("done")
          /\ UNCHANGED left
       \/ Return("failed") /\ Spend("fault") /\ UNCHANGED diskVars
    /\ UNCHANGED <<served, cancel>>

FetchStep == Resolve \/ Open \/ Receive \/ Verify \/ Exists \/ Replace

-----------------------------------------------------------------------------
(* Everybody else *)

\* cancel() of everything, or shutdown, sets the event of the running fetch.
Cancel ==
    /\ pc # "idle" /\ ~cancel /\ Spend("cancel")
    /\ cancel' = TRUE
    /\ UNCHANGED <<diskVars, served, runVars, outcome>>

\* The process dies; os.replace is atomic, so the disk is as it was.
Crash ==
    /\ pc # "idle" /\ Spend("crash")
    /\ Return("none")
    /\ cancel' = FALSE
    /\ UNCHANGED <<diskVars, served>>

\* The source replaces the file behind the URL.
Publish(v) ==
    /\ v # served /\ Spend("publish")
    /\ served' = v
    /\ UNCHANGED <<diskVars, runVars, cancel, outcome>>

\* Another program writes a file into the folder; in the instant between the
\* last look at the name and the replacement of it, this is a "race".
Appear(p) ==
    /\ files[p] = NoFile
    /\ Spend(IF pc = "replace" /\ p = target THEN "race" ELSE "foreign")
    /\ files' = [files EXCEPT ![p] = Foreign]
    /\ UNCHANGED <<parts, served, runVars, cancel, outcome>>

\* The user moves a file away.
Vanish(p) ==
    /\ files[p] # NoFile /\ Spend("foreign")
    /\ files' = [files EXCEPT ![p] = NoFile]
    /\ UNCHANGED <<parts, served, runVars, cancel, outcome>>

Next ==
    \/ \E known \in Metadata, mode \in OnConflict : Start(known, mode)
    \/ FetchStep
    \/ Cancel
    \/ Crash
    \/ \E v \in Version : Publish(v)
    \/ \E p \in Path : Appear(p) \/ Vanish(p)

Spec == Init /\ [][Next]_vars

\* A fetch that runs goes on, and a user who still misses the file asks again and
\* again, also from a description that has the size; in between anybody asks for
\* anything.  Faults, cancels and new versions are finitely many.
Retry ==
    /\ outcome \notin {"done", "skipped"}
    /\ \E known \in Metadata : "size" \in known /\ Start(known, "keep_both")
FairSpec == Spec /\ WF_vars(FetchStep) /\ SF_vars(Retry)

-----------------------------------------------------------------------------
(* Properties *)

\* Whatever was resumed, cancelled, crashed or changed at the source in between,
\* a file in the model folder is a foreign one or the whole of one published
\* version (_verify_and_place; needs a published SHA-256).
WholeOrForeign ==
    \A p \in Path : files[p] \in {NoFile, Foreign} \cup {Whole(v) : v \in Version}

\* The variables keep their types, and the model folder holds foreign files and whole
\* versions only (_verify_and_place).
FolderSound == TypeOK /\ WholeOrForeign

\* The folder only ever changes as the abstract specification allows: the
\* fetcher fills free names with whole versions and overwrites nothing.
FolderSpec == Folder!Spec

\* Faults, cancels, crashes and new versions being finitely many, a user who
\* asks again gets the file, or is told that its name is taken: no .part file left
\* behind, complete, of an older version or longer than the file, blocks it for
\* ever (fetch discards it where the size is known, _verify_and_place quarantines).
RetriesSucceed ==
    <>(outcome \in {"done", "skipped"} \/ \A p \in Path : files[p] # NoFile)

=============================================================================
