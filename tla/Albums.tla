------------------------------- MODULE Albums -------------------------------
(***************************************************************************)
(* Albums: the ones the application makes at every start, the user's, and  *)
(* who is in them, also after a file went to the trash and came back.      *)
(*                                                                         *)
(* Abstractions.  One scope; an album's query is the system's or the       *)
(* user's own.  Each operation is one transaction.  An id is the lowest    *)
(* above all in use, as SQLite gives it, so the last one is used again.    *)
(***************************************************************************)
EXTENDS Naturals, FiniteSets

CONSTANTS
    Name, System,   \* names, and those SYSTEM_ALBUMS may have
    Asset,          \* uids
    MaxAlbum, MaxChange         \* bounds of the model

VARIABLES
    albums,     \* rows of albums, by id
    members,    \* rows of album_items
    trash,      \* trashed assets: the albums their payload names
    release,    \* the names SYSTEM_ALBUMS has in the release that runs
    made,       \* how many albums were ever made
    meant,      \* which asset was put into which album, by the order of their making
    again,      \* ids given more than once
    edits       \* edits so far, bounded

albumVars == <<albums, members, trash, release, made, meant, again, edits>>

Root == 0
Ids == DOMAIN albums
Without(gone) == [a \in Ids \ gone |-> albums[a]]
Change == edits < MaxChange /\ edits' = edits + 1

\* ux_albums_identity: those that have this parent and this name.
Same(parent, name) == {a \in Ids : albums[a].parent = parent /\ albums[a].name = name}

NextId == IF Ids = {} THEN 1 ELSE 1 + CHOOSE a \in Ids : \A b \in Ids : a >= b
Add(rows, id, row) == [a \in DOMAIN rows \cup {id} |-> IF a = id THEN row ELSE rows[a]]
Row(parent, name, kind, query) ==
    [parent |-> parent, name |-> name, kind |-> kind, query |-> query, serial |-> made + 1]

Init ==
    /\ albums = <<>> /\ members = {} /\ trash = [x \in {} |-> {}]
    /\ release \in {{s} : s \in System}
    /\ made = 0 /\ meant = {} /\ again = {}
    /\ edits = 0

-----------------------------------------------------------------------------
(* ensure_system_albums, at every start and a name at a time.              *)

\* mutant of Conflict: the table's own UNIQUE, to which no root album equals another
ConflictNever(name) == {}
\* The rows the upsert of a system album runs into.
Conflict(name) == Same(Root, name)

\* A row of that name gets the system's query, whoever made it.
Ensure(name) ==
    /\ name \in release
    /\ IF Conflict(name) = {}
       THEN /\ made < MaxAlbum /\ made' = made + 1
            /\ albums' = Add(albums, NextId, Row(Root, name, "system", "system"))
       ELSE /\ albums' = [a \in Ids |-> IF a \in Conflict(name)
                                       THEN [albums[a] EXCEPT !.query = "system"] ELSE albums[a]]
            /\ UNCHANGED made
    /\ again' = IF made' # made /\ NextId <= made THEN again \cup {NextId} ELSE again
    /\ UNCHANGED <<members, trash, release, meant, edits>>

\* The next release has every system album, and is started.
Upgrade ==
    /\ release # System
    /\ release' = System
    /\ UNCHANGED <<albums, members, trash, made, meant, again, edits>>

-----------------------------------------------------------------------------
(* The user's albums.                                                      *)

Create(parent, name) ==
    /\ Change /\ made < MaxAlbum
    /\ parent \in Ids \cup {Root} /\ Same(parent, name) = {}
    /\ made' = made + 1
    /\ albums' = Add(albums, NextId, Row(parent, name, "manual", "own"))
    /\ again' = IF NextId <= made THEN again \cup {NextId} ELSE again
    /\ UNCHANGED <<members, trash, release, meant>>

Editable(a) == a \in Ids /\ albums[a].kind # "system"

\* update_album: any parent will do, one of its own descendants too.
Update(a, parent, name) ==
    /\ Change /\ Editable(a)
    /\ parent \in Ids \cup {Root} /\ Same(parent, name) \subseteq {a}
    /\ albums' = [albums EXCEPT ![a].parent = parent, ![a].name = name]
    /\ UNCHANGED <<members, trash, release, made, meant, again>>

Children(gone) == {a \in Ids : albums[a].parent \in gone}

\* ON DELETE CASCADE, to the bottom: the least set that has the album and, with an album,
\* its children.
Cascade(a) ==
    {x \in Ids : \A S \in SUBSET Ids : a \in S /\ Children(S) \subseteq S => x \in S}

Delete(a) ==
    /\ Change /\ Editable(a)
    /\ albums' = Without(Cascade(a))
    /\ members' = {m \in members : m[1] \notin Cascade(a)}
    /\ UNCHANGED <<trash, release, made, meant, again>>

\* set_album_items, of any album.
AddItem(a, x) ==
    /\ Change /\ a \in Ids /\ x \notin DOMAIN trash
    /\ members' = members \cup {<<a, x>>}
    /\ meant' = meant \cup {<<albums[a].serial, x>>}
    /\ UNCHANGED <<albums, trash, release, made, again>>

RemoveItem(a, x) ==
    /\ Change /\ <<a, x>> \in members
    /\ members' = members \ {<<a, x>>}
    /\ UNCHANGED <<albums, trash, release, made, meant, again>>

-----------------------------------------------------------------------------
(* The trash: the payload names the albums by id.                          *)

AlbumsOf(x) == {m[1] : m \in {n \in members : n[2] = x}}

Trash(x) ==
    /\ Change /\ x \notin DOMAIN trash
    /\ trash' = Add(trash, x, AlbumsOf(x))
    /\ members' = {m \in members : m[2] # x}
    /\ UNCHANGED <<albums, release, made, meant, again>>

\* _restore_metadata: into those of the albums that are there.
Restore(x) ==
    /\ x \in DOMAIN trash
    /\ members' = members \cup ((trash[x] \cap Ids) \X {x})
    /\ trash' = [y \in DOMAIN trash \ {x} |-> trash[y]]
    /\ UNCHANGED <<albums, release, made, meant, again, edits>>

Next ==
    \/ \E n \in System : Ensure(n)
    \/ Upgrade
    \/ \E n \in Name, p \in 0..MaxAlbum : Create(p, n) \/ \E a \in Ids : Update(a, p, n)
    \/ \E a \in Ids : Delete(a)
    \/ \E a \in Ids, x \in Asset : AddItem(a, x) \/ RemoveItem(a, x)
    \/ \E x \in Asset : Trash(x) \/ Restore(x)

-----------------------------------------------------------------------------
\* m003: "a real identity constraint": one album per parent and name; what is in an album
\* was put into that album, also after deletions, new albums and restores, unless the
\* album has the id of one that was deleted; system albums keep their name and query, and
\* members their album (albums_query.py, _restore_metadata).
AlbumsSound ==
    /\ \A a, b \in Ids : albums[a].parent = albums[b].parent /\ albums[a].name = albums[b].name => a = b
    /\ \A m \in members : m[1] \in again \/ <<albums[m[1]].serial, m[2]>> \in meant
    /\ \A a \in Ids : albums[a].kind = "system" =>
         albums[a].parent = Root /\ albums[a].name \in release /\ albums[a].query = "system"
    /\ \A a \in Ids : albums[a].parent \in Ids \cup {Root}
=============================================================================
