----------------------------- MODULE Catalogue ------------------------------
(***************************************************************************)
(* The catalogue of the Comfy Registry: requests on a pool of threads read *)
(* the cache file, fetch all pages when it is old or a refresh is asked    *)
(* for, and rename a .tmp file of one name over it.                        *)
(*                                                                         *)
(* Abstractions.  A catalogue is the number of its fetch; 0 is what no     *)
(* JSON reader takes: nothing, a part, or what two writers left.           *)
(***************************************************************************)
EXTENDS Naturals

CONSTANTS
    Reader,         \* requests
    MaxFetch        \* bound of the model

VARIABLES
    files,      \* what the files made so far hold
    cachePath,  \* the file the cache's name stands for, 0 if none
    tmpPath,    \* the file the .tmp name stands for, 0 if none
    aged,       \* the cache is a day old
    allowed,    \* online_enabled
    readers,    \* what the requests are doing
    shared,     \* two requests had the .tmp file open at once
    fetches     \* fetches so far, bounded

catalogueVars == <<files, cachePath, tmpPath, aged, allowed, readers, shared, fetches>>

Rest == [at |-> "rest", shown |-> 0]
Cached == IF cachePath = 0 THEN 0 ELSE files[cachePath]

Init ==
    /\ files = [i \in 1..MaxFetch |-> 0] /\ cachePath = 0 /\ tmpPath = 0
    /\ aged = FALSE /\ allowed = TRUE
    /\ readers = [r \in Reader |-> Rest]
    /\ shared = FALSE
    /\ fetches = 0

-----------------------------------------------------------------------------
(* _catalogue.                                                             *)

Show(r, n) == readers' = [readers EXCEPT ![r] = [at |-> "rest", shown |-> n]]

\* The switch is off, or the cache is fresh and no refresh asked for.
FromCache(r) ==
    /\ readers[r].at = "rest"
    /\ ~allowed \/ (~aged /\ Cached # 0)
    /\ Show(r, Cached)
    /\ UNCHANGED <<files, cachePath, tmpPath, aged, allowed, shared, fetches>>

Fetch(r, refresh) ==
    /\ readers[r].at = "rest" /\ fetches < MaxFetch
    /\ allowed /\ (refresh \/ aged \/ Cached = 0)
    /\ fetches' = fetches + 1
    /\ readers' = [readers EXCEPT ![r] = [at |-> "fetch", had |-> Cached, number |-> fetches']]
    /\ UNCHANGED <<files, cachePath, tmpPath, aged, allowed, shared>>

\* One page that does not come, is too large or no list is enough.
Refused(r) ==
    /\ readers[r].at = "fetch"
    /\ Show(r, readers[r].had)
    /\ UNCHANGED <<files, cachePath, tmpPath, aged, allowed, shared, fetches>>

-----------------------------------------------------------------------------
(* _cache_write.                                                           *)

\* mutant of Target: the file is opened under its own name
TargetInPlace(r) == cachePath
Target(r) == tmpPath

\* An existing file is emptied; a new one has the number of this fetch.
Open(r) ==
    /\ readers[r].at = "fetch"
    /\ LET i == IF Target(r) = 0 THEN readers[r].number ELSE Target(r)
       IN  /\ files' = [files EXCEPT ![i] = 0]
           /\ tmpPath' = i
           /\ shared' = (shared \/ \E o \in Reader : readers[o].at \in {"write", "place"})
           /\ readers' = [readers EXCEPT ![r] = [at |-> "write", number |-> readers[r].number, of |-> i]]
    /\ UNCHANGED <<cachePath, aged, allowed, fetches>>

\* Over another's text the end of that text may stay.
Write(r) ==
    /\ readers[r].at = "write"
    /\ \E n \in {readers[r].number} \cup (IF files[readers[r].of] = 0 THEN {} ELSE {0}) :
          files' = [files EXCEPT ![readers[r].of] = n]
    /\ readers' = [readers EXCEPT ![r].at = "place"]
    /\ UNCHANGED <<cachePath, tmpPath, aged, allowed, shared, fetches>>

\* The rename fails when another request has renamed the file away.
Place(r) ==
    /\ readers[r].at = "place"
    /\ IF tmpPath = 0 THEN UNCHANGED <<cachePath, tmpPath, aged>>
       ELSE cachePath' = tmpPath /\ tmpPath' = 0 /\ aged' = FALSE
    /\ Show(r, readers[r].number)
    /\ UNCHANGED <<files, allowed, shared, fetches>>

\* The disk is full, or the file is locked: what was fetched is shown all the same.
WriteFails(r) ==
    /\ readers[r].at \in {"write", "place"}
    /\ Show(r, readers[r].number)
    /\ UNCHANGED <<files, cachePath, tmpPath, aged, allowed, shared, fetches>>

-----------------------------------------------------------------------------

Age ==
    /\ cachePath # 0 /\ ~aged /\ aged' = TRUE
    /\ UNCHANGED <<files, cachePath, tmpPath, allowed, readers, shared, fetches>>

Switch ==
    /\ allowed' = ~allowed
    /\ UNCHANGED <<files, cachePath, tmpPath, aged, readers, shared, fetches>>

\* The application is killed and started again.
Restart ==
    /\ \E r \in Reader : readers[r].at # "rest"
    /\ readers' = [r \in Reader |-> Rest]
    /\ UNCHANGED <<files, cachePath, tmpPath, aged, allowed, shared, fetches>>

Next ==
    \/ \E r \in Reader : \/ FromCache(r) \/ \E refresh \in BOOLEAN : Fetch(r, refresh)
                         \/ Refused(r) \/ Open(r) \/ Write(r) \/ Place(r) \/ WriteFails(r)
    \/ Age \/ Switch \/ Restart

-----------------------------------------------------------------------------
\* Once there is a catalogue there is always one to show, whatever fails or is killed,
\* unless two requests wrote the one .tmp file at once (node_registry_service.py
\* _cache_write, _catalogue).
CatalogueKept == cachePath # 0 /\ ~shared => files[cachePath] # 0
=============================================================================
