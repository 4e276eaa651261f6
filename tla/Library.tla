------------------------------ MODULE Library ------------------------------
(***************************************************************************)
(* The photo library the server keeps in SQLite: albums, photos (assets),  *)
(* which album holds which photo, the recycle bin and the reference count  *)
(* of every stored content.  The store runs on one database connection and *)
(* every operation is one transaction: one operator of this module is one  *)
(* transaction of store.go, and a step of the specification is a request   *)
(* handler of api.go, which checks what its caller may see and runs the    *)
(* transaction.  The upload, which runs several, is several steps, and     *)
(* `uploads' holds those in progress.                                      *)
(*                                                                         *)
(* Left out: display names inside an album, sizes, dates, sort order, the  *)
(* change log, sessions and files on disk.                                 *)
(***************************************************************************)
EXTENDS Integers, FiniteSets, FiniteSetsExt, Functions

CONSTANTS
    Identity,   \* the family members who may register
    Hash,       \* contents (SHA-256) a photo may have
    UserName,   \* the album names a user types
    NULL,       \* SQL NULL
    MaxAlbum,   \* bound: album ids ever handed out
    MaxAsset,   \* bound: photo ids ever handed out
    MaxCopies,  \* bound: photo rows with the same content at one time
    MaxHomes,   \* bound: albums a user files one photo in
    MaxUploads, \* bound: uploads in progress at one time
    Nesting,    \* TRUE: an API client that nests albums; FALSE: the bundled client,
                \* whose albums are the children of trunks
    Patching,   \* TRUE: an API client that re-parents and hides albums by PATCH
    Legacy      \* TRUE: the database may hold the ownerless private trunk of an
                \* earlier version

Shared == "shared"        \* the trunk of the whole family
Private == "private"      \* the name of every identity's own trunk
Favorites == "favorites"  \* the starred bucket of a trunk
Scatter == "scatter"      \* the bucket of photos in no other album
OldScatter == "oldscatter" \* the name of that bucket in early databases
Builtin == {Shared, Private, Favorites, Scatter, OldScatter}

AlbumName == Builtin \cup UserName
AlbumId == 1..MaxAlbum
AssetId == 1..MaxAsset

ASSUME BoundsAssumption ==
    /\ MaxAlbum \in Nat /\ MaxAsset \in Nat
    /\ MaxCopies \in Nat /\ MaxHomes \in Nat /\ MaxUploads \in Nat
    /\ MaxAlbum >= 6
ASSUME FamilyAssumption == IsFiniteSet(Identity)
ASSUME ModeAssumption ==
    Nesting \in BOOLEAN /\ Patching \in BOOLEAN /\ Legacy \in BOOLEAN
ASSUME NullAssumption ==
    /\ NULL \notin AlbumId \cup AssetId
    /\ NULL \notin Identity
    /\ NULL \notin AlbumName
    /\ NULL \notin [trunk: AlbumId, album: AlbumId \cup {NULL},
                    name: AlbumName \cup {NULL}]

VARIABLES
    identities,  \* the registered identities
    albums,      \* id -> row, for the rows of table albums
    albumSeq,    \* AUTOINCREMENT of albums: the last id handed out
    assets,      \* id -> row, for the rows of table assets
    assetSeq,    \* AUTOINCREMENT of assets
    members,     \* table album_assets, as a set of <<album, asset>>
    refs,        \* hash -> ref_count of its blobs row, 0 when there is no row
    uploads      \* uploads admitted and not yet filed

vars == <<identities, albums, albumSeq, assets, assetSeq, members, refs, uploads>>

AlbumRow == [name: AlbumName, parent: AlbumId \cup {NULL},
             owner: Identity \cup {NULL}, hidden: BOOLEAN]

\* Where a photo in the recycle bin came from: deleted_trunk_id,
\* deleted_album_id and deleted_album_name.
Origin == [trunk: AlbumId, album: AlbumId \cup {NULL},
           name: AlbumName \cup {NULL}]

\* `trash' is NULL while deleted_at is NULL, else the recorded origin.
AssetRow == [hash: Hash, trash: Origin \cup {NULL}]

\* `asset' is NULL until the photo row exists, `album' when none was named.
Upload == [asset: AssetId \cup {NULL}, album: AlbumId \cup {NULL},
           by: Identity, hash: Hash]

-----------------------------------------------------------------------------
(* Queries                                                                  *)

Roots == {a \in DOMAIN albums : albums[a].parent = NULL}
Filed == DOMAIN albums \ Roots
Children(p) == {a \in DOMAIN albums : albums[a].parent = p}
ChildrenNamed(p, n) == {a \in Children(p) : albums[a].name = n}
RootsNamed(n) == {a \in Roots : albums[a].name = n}

\* The album sub-tree below and including r (WITH RECURSIVE, and the parent_id
\* cascade): the albums filed in r or in the least set of filed parents that holds
\* every filed parent filed in r or in itself.
Subtree(r) ==
    LET inner == Filed \cap {albums[a].parent : a \in Filed}
        closed == {S \in SUBSET inner :
                    \A b \in inner : albums[b].parent \in S \cup {r} => b \in S}
    IN  {r} \cup {a \in Filed : \A S \in closed : albums[a].parent \in S \cup {r}}

Held(x) == {a \in DOMAIN albums : <<a, x>> \in members}
HasHash(a, h) == {x \in DOMAIN assets : <<a, x>> \in members /\ assets[x].hash = h}
Copies(h) == {x \in DOMAIN assets : assets[x].hash = h}
Trashed == {x \in DOMAIN assets : assets[x].trash # NULL}
Active == DOMAIN assets \ Trashed

VisibleAlbum(i, a) ==
    a \in DOMAIN albums /\ albums[a].owner \in {NULL, i}

\* Held by a visible album, or in the recycle bin of a visible trunk.
VisibleAsset(i, x) ==
    /\ x \in DOMAIN assets
    /\ \/ \E a \in Held(x) : VisibleAlbum(i, a)
       \/ x \in Trashed /\ VisibleAlbum(i, assets[x].trash.trunk)

\* Mutant: always the trunk of the family.
TrunkOfFamily(a) == Min(RootsNamed(Shared))

\* An album of its own trunk, or the trunk when it has no parent.
TrunkOf(a) == IF albums[a].parent = NULL THEN a ELSE albums[a].parent

\* Deleting inside a real album drops that album's reference only; favourites
\* and trunks are views of the library, where deleting deletes the photo.
AlbumScopedDelete(a) ==
    albums[a].parent # NULL /\ albums[a].name # Favorites

\* The bucket of trunk t for photos in no other album, NULL when it has none.
ScatterBucket(t) ==
    IF ChildrenNamed(t, Scatter) # {} THEN Min(ChildrenNamed(t, Scatter))
    ELSE IF ChildrenNamed(t, OldScatter) # {} THEN Min(ChildrenNamed(t, OldScatter))
    ELSE NULL

\* Mutant: the album itself taken for the trunk.
TrashOriginInAlbum(a) ==
    [trunk |-> a, album |-> a, name |-> albums[a].name]

\* Where a photo deleted from album a came from.
TrashOrigin(a) ==
    [trunk |-> TrunkOf(a), album |-> a, name |-> albums[a].name]

\* What the recycle bin remembers of an active photo: its first album that is not
\* the favourites, else the favourites, else the shared trunk and no album.
SourceAlbum(x) ==
    LET real == {a \in Held(x) : albums[a].name # Favorites}
    IN  IF Held(x) = {}
        THEN [trunk |-> Min(RootsNamed(Shared)), album |-> NULL, name |-> NULL]
        ELSE TrashOrigin(Min(IF real # {} THEN real ELSE Held(x)))

-----------------------------------------------------------------------------
(* Row changes shared by the operations                                     *)

\* A table with one more row.
With(tbl, id, row) == [k \in DOMAIN tbl \cup {id} |-> IF k = id THEN row ELSE tbl[k]]

\* The album the next INSERT makes, and the table after it.
NextAlbum == albumSeq + 1
WithAlbum(n, p, o, h) ==
    With(albums, NextAlbum, [name |-> n, parent |-> p, owner |-> o, hidden |-> h])

\* Mutant: the id is not used up.
InsertAlbumNoSeq(n, p, o, h) ==
    /\ NextAlbum + 3 * Cardinality(Identity \ identities) \in AlbumId
    /\ albums' = WithAlbum(n, p, o, h)
    /\ UNCHANGED albumSeq

\* Bound: the ids the registrations to come will take are left to them.
InsertAlbum(n, p, o, h) ==
    /\ NextAlbum + 3 * Cardinality(Identity \ identities) \in AlbumId
    /\ albums' = WithAlbum(n, p, o, h)
    /\ albumSeq' = NextAlbum

\* Finds the child of trunk t named n or makes one, hidden and owned like t.
ChildAlbum(t, n) ==
    IF ChildrenNamed(t, n) # {} THEN Min(ChildrenNamed(t, n)) ELSE NextAlbum

EnsureChild(t, n) ==
    IF ChildrenNamed(t, n) # {}
    THEN UNCHANGED <<albums, albumSeq>>
    ELSE t \in DOMAIN albums /\ InsertAlbum(n, t, albums[t].owner, albums[t].hidden)

\* The bucket a photo without a home is parked in, made when missing.
ParkBucket(t) ==
    IF ScatterBucket(t) # NULL THEN ScatterBucket(t) ELSE NextAlbum
EnsureBucket(t) ==
    IF ScatterBucket(t) # NULL
    THEN UNCHANGED <<albums, albumSeq>>
    ELSE EnsureChild(t, Scatter)

\* Mutant: one reference given back per content, not per row.
DestroyOneRef(S) ==
    /\ S \subseteq Trashed
    /\ assets' = Restrict(assets, DOMAIN assets \ S)
    /\ members' = {m \in members : m[2] \notin S}
    /\ refs' = [h \in Hash |-> IF S \cap Copies(h) = {} THEN refs[h] ELSE refs[h] - 1]
    /\ UNCHANGED <<identities, albums, albumSeq, assetSeq, uploads>>

\* Rows of `assets' destroyed for good: only rows in the recycle bin, and each
\* gives back one reference to its content.
Destroy(S) ==
    /\ S \subseteq Trashed
    /\ assets' = Restrict(assets, DOMAIN assets \ S)
    /\ members' = {m \in members : m[2] \notin S}
    /\ refs' = [h \in Hash |->
                    refs[h] - Cardinality({x \in S : assets[x].hash = h})]
    /\ UNCHANGED <<identities, albums, albumSeq, assetSeq, uploads>>

\* Mutant: a photo in two albums of S is not orphaned.
OrphanedByOne(S) ==
    {x \in Active : \E a \in S : Held(x) = {a}}

\* Photos only the albums S hold, which a delete of S would leave nowhere.
OrphanedMembers(S) ==
    {x \in Active : Held(x) # {} /\ Held(x) \subseteq S}

\* A photo goes to the recycle bin: its row records where it was, and every
\* album lets go of it.
Trash(x, origin) ==
    /\ assets' = [assets EXCEPT ![x].trash = origin]
    /\ members' = {m \in members : m[2] # x}

-----------------------------------------------------------------------------
(* Identities and albums                                                    *)

\* Mutant: owned or not.
UnclaimedAny == {a \in RootsNamed(Private) : albums[a].hidden}

\* An unowned private trunk of an earlier version, which the first identity to
\* register takes over with everything below it.
Unclaimed == {a \in RootsNamed(Private) : albums[a].hidden /\ albums[a].owner = NULL}

Claimed ==
    Unclaimed \cup (IF Cardinality(Unclaimed) = 1
                    THEN Subtree(Min(RootsNamed(Private))) ELSE {})
OwnedBy(i, S) ==
    [a \in DOMAIN albums |-> IF a \in S THEN [albums[a] EXCEPT !.owner = i] ELSE albums[a]]

PrivateRow(n, p, i) == [name |-> n, parent |-> p, owner |-> i, hidden |-> TRUE]

\* A new name registers and is handed its private trunk and the two buckets.
Register(i) ==
    /\ i \notin identities
    /\ identities' = identities \cup {i}
    /\ IF Cardinality(Unclaimed) = 1
       THEN albums' = OwnedBy(i, Claimed) /\ UNCHANGED albumSeq
       ELSE /\ albumSeq + 3 \in AlbumId
            /\ albums' = With(With(With(OwnedBy(i, Claimed),
                    albumSeq + 1, PrivateRow(Private, NULL, i)),
                    albumSeq + 2, PrivateRow(Favorites, albumSeq + 1, i)),
                    albumSeq + 3, PrivateRow(Scatter, albumSeq + 1, i))
            /\ albumSeq' = albumSeq + 3
    /\ UNCHANGED <<assets, assetSeq, members, refs, uploads>>

\* Which albums a request may change, and what it may name as parent.
Movable == {a \in DOMAIN albums : albums[a].name \notin Builtin}
Parents == Roots \cup (IF Nesting THEN Movable \cup {NULL} ELSE {})

\* A child belongs to whoever its parent belongs to; a new root to the family.
CreateAlbum(i, n, p, h) ==
    /\ p \in Parents
    /\ p # NULL => VisibleAlbum(i, p)
    /\ Patching \/ h = (p # NULL /\ albums[p].hidden)
    /\ InsertAlbum(n, p, IF p = NULL THEN NULL ELSE albums[p].owner, h)
    /\ UNCHANGED <<identities, assets, assetSeq, members, refs, uploads>>

\* The patch may rename, re-parent or hide an album; the new parent only has to
\* exist.  The bundled client sends a name and nothing else.
UpdateAlbum(a, n, p, h) ==
    /\ a \in Movable
    /\ p \in DOMAIN albums \cup {NULL}
    /\ Patching \/ (p = albums[a].parent /\ h = albums[a].hidden)
    /\ albums' = [albums EXCEPT ![a].name = n, ![a].parent = p, ![a].hidden = h]
    /\ UNCHANGED <<identities, albumSeq, assets, assetSeq, members, refs, uploads>>

\* The whole sub-tree goes; what nothing else holds goes to the recycle bin with
\* the deleted album's name, or the trunk alone when a trunk is deleted.  The
\* sub-tree query does not end on a parent cycle.
DeleteAlbum(a) ==
    /\ a \in DOMAIN albums
    /\ albums[a].parent \notin Subtree(a)
    /\ LET gone == Subtree(a)
           orphans == OrphanedMembers(gone)
           origin == IF albums[a].parent # NULL THEN TrashOrigin(a)
                     ELSE [trunk |-> a, album |-> NULL, name |-> NULL]
       IN  /\ assets' = [x \in DOMAIN assets |->
                            IF x \in orphans THEN [assets[x] EXCEPT !.trash = origin]
                            ELSE assets[x]]
           /\ members' = {m \in members : m[1] \notin gone /\ m[2] \notin orphans}
           /\ albums' = Restrict(albums, DOMAIN albums \ gone)
    /\ UNCHANGED <<identities, albumSeq, assetSeq, refs, uploads>>

\* The album at the destination an album moved there is folded into: one of the
\* same name, and never a trunk.
MergeTargets(a, p) ==
    IF p = NULL
    THEN {b \in RootsNamed(albums[a].name) : b # a /\ albums[b].name \notin {Shared, Private}}
    ELSE ChildrenNamed(p, albums[a].name) \ {a}

\* Mutant: the owner stays behind.
RehangSameOwner(a, p) ==
    /\ albums' = [albums EXCEPT
                    ![a].parent = p,
                    ![a].hidden = IF p = NULL THEN FALSE ELSE albums[p].hidden]
    /\ UNCHANGED members

\* No album of that name at the destination: the row itself moves, and takes the
\* owner and the visibility of where it lands.
Rehang(a, p) ==
    /\ albums' = [albums EXCEPT
                    ![a].parent = p,
                    ![a].owner = IF p = NULL THEN NULL ELSE albums[p].owner,
                    ![a].hidden = IF p = NULL THEN FALSE ELSE albums[p].hidden]
    /\ UNCHANGED members

\* Mutant: the rows of the folded album stay.
MergeIntoNoCascade(a, t) ==
    /\ members' = members \cup {<<t, m[2]>> : m \in {m \in members : m[1] = a}}
    /\ albums' = [b \in DOMAIN albums \ {a} |->
                    IF albums[b].parent = a THEN [albums[b] EXCEPT !.parent = t]
                    ELSE albums[b]]

\* Otherwise album t survives: it takes the photos and the sub-albums of a, and
\* the row of a is deleted.
MergeInto(a, t) ==
    /\ members' = {m \in members : m[1] # a}
                  \cup {<<t, m[2]>> : m \in {m \in members : m[1] = a}}
    /\ albums' = [b \in DOMAIN albums \ {a} |->
                    IF albums[b].parent = a THEN [albums[b] EXCEPT !.parent = t]
                    ELSE albums[b]]

\* Mutant: only the album itself is refused as its own parent.
MoveAlbumUnderOwnChild(i, a, p) ==
    /\ VisibleAlbum(i, a)
    /\ a \in Movable
    /\ p \in Parents
    /\ p # NULL => VisibleAlbum(i, p) /\ p # a
    /\ IF MergeTargets(a, p) = {}
       THEN Rehang(a, p)
       ELSE MergeInto(a, Min(MergeTargets(a, p)))
    /\ UNCHANGED <<identities, albumSeq, assets, assetSeq, refs, uploads>>

\* Refused when p lies in the sub-tree of a.  The climb from p that decides this
\* does not end on a parent cycle.
MoveAlbum(i, a, p) ==
    /\ VisibleAlbum(i, a)
    /\ a \in Movable
    /\ p \in Parents
    /\ p # NULL =>
        /\ VisibleAlbum(i, p)
        /\ p \notin Subtree(a)
        /\ \E r \in Roots : p \in Subtree(r)
    /\ IF MergeTargets(a, p) = {}
       THEN Rehang(a, p)
       ELSE MergeInto(a, Min(MergeTargets(a, p)))
    /\ UNCHANGED <<identities, albumSeq, assets, assetSeq, refs, uploads>>

-----------------------------------------------------------------------------
(* Photos                                                                   *)

\* Linking a photo: `onlyHere' first takes it out of every shared album.  Bytes
\* the album already holds under another row are not added a second time.
Linked(a, x, onlyHere) ==
    LET kept == IF onlyHere
                THEN {m \in members : ~(m[2] = x /\ albums[m[1]].owner = NULL)}
                ELSE members
    IN  IF HasHash(a, assets[x].hash) \ {x} # {}
        THEN kept
        ELSE kept \cup {<<a, x>>}

AddAssetToAlbum(a, x, onlyHere) ==
    /\ a \in DOMAIN albums
    /\ x \in DOMAIN assets
    /\ Cardinality(Held(x) \cup {a}) <= MaxHomes
    /\ members' = Linked(a, x, onlyHere)
    /\ UNCHANGED <<identities, albums, albumSeq, assets, assetSeq, refs, uploads>>

\* An upload begins: the album it names must be visible.  Bytes that album already
\* holds are linked instead, which changes nothing.
StartUpload(i, a, h) ==
    /\ a # NULL => VisibleAlbum(i, a) /\ HasHash(a, h) = {}
    /\ Cardinality(uploads) < MaxUploads
    /\ uploads' = uploads \cup {[asset |-> NULL, album |-> a, by |-> i, hash |-> h]}
    /\ UNCHANGED <<identities, albums, albumSeq, assets, assetSeq, members, refs>>

\* Its first transaction: the photo row and its reference to the content.  An
\* upload that names no album ends here.
CreateAsset(u) ==
    /\ u.asset = NULL
    /\ Cardinality(Copies(u.hash)) < MaxCopies
    /\ assetSeq + 1 \in AssetId
    /\ assets' = With(assets, assetSeq + 1, [hash |-> u.hash, trash |-> NULL])
    /\ assetSeq' = assetSeq + 1
    /\ refs' = [refs EXCEPT ![u.hash] = refs[u.hash] + 1]
    /\ uploads' = (uploads \ {u})
                  \cup (IF u.album = NULL THEN {} ELSE {[u EXCEPT !.asset = assetSeq + 1]})
    /\ UNCHANGED <<identities, albums, albumSeq, members>>

\* Where an upload that missed its album lands: the trunk of that album, or the
\* shared trunk when the album is gone.
ParkTrunk(a) ==
    IF a \in DOMAIN albums THEN TrunkOf(a)
    ELSE IF RootsNamed(Shared) # {} THEN Min(RootsNamed(Shared))
    ELSE NULL

\* An active photo no album holds is parked in a bucket.
ParkAsset(x, a) ==
    IF x \in Active /\ Held(x) = {} /\ ParkTrunk(a) # NULL
    THEN /\ EnsureBucket(ParkTrunk(a))
         /\ members' = members \cup {<<ParkBucket(ParkTrunk(a)), x>>}
    ELSE UNCHANGED <<members, albums, albumSeq>>

\* Its second transaction: the photo is linked to its album if AddAssetToAlbum
\* finds both of them, and parked otherwise.
FileUpload(u) ==
    /\ u.asset # NULL
    /\ uploads' = uploads \ {u}
    /\ IF VisibleAlbum(u.by, u.album) /\ VisibleAsset(u.by, u.asset)
       THEN /\ members' = Linked(u.album, u.asset, FALSE)
            /\ UNCHANGED <<albums, albumSeq>>
       ELSE ParkAsset(u.asset, u.album)
    /\ UNCHANGED <<identities, assets, assetSeq, refs>>

\* Deleting in the library views: the photo leaves every album for the bin.
TrashAsset(x) ==
    /\ x \in Active
    /\ Trash(x, SourceAlbum(x))
    /\ UNCHANGED <<identities, albums, albumSeq, assetSeq, refs, uploads>>

\* Deleting inside album a: the reference goes, and the photo follows it into
\* the bin when no other album holds it.
RemoveOrTrash(a, x) ==
    /\ x \in Active
    /\ <<a, x>> \in members
    /\ IF Held(x) # {a}
       THEN members' = members \ {<<a, x>>} /\ UNCHANGED assets
       ELSE Trash(x, TrashOrigin(a))
    /\ UNCHANGED <<identities, albums, albumSeq, assetSeq, refs, uploads>>

\* Un-filing: the reference goes, and a photo left without album is parked.
RemoveOrPark(a, x) ==
    /\ x \in Active
    /\ <<a, x>> \in members
    /\ IF Held(x) # {a}
       THEN members' = members \ {<<a, x>>} /\ UNCHANGED <<albums, albumSeq>>
       ELSE /\ EnsureBucket(TrunkOf(a))
            /\ members' = (members \ {<<a, x>>}) \cup {<<ParkBucket(TrunkOf(a)), x>>}
    /\ UNCHANGED <<identities, assets, assetSeq, refs, uploads>>

\* Mutant: a deleted album is not made again.
RestoreNoRebuild(x) ==
    /\ x \in Trashed
    /\ assets' = [assets EXCEPT ![x].trash = NULL]
    /\ members' = members \cup {<<a, x>> : a \in {assets[x].trash.album} \cap DOMAIN albums}
    /\ UNCHANGED <<identities, albums, albumSeq, assetSeq, refs, uploads>>

\* Back to the album the photo was deleted from; to an album of that name under
\* the recorded trunk when it is gone; to the trunk's bucket when no name was
\* recorded; to no album when there is no such bucket either.
RestoreAsset(x) ==
    /\ x \in Trashed
    /\ assets' = [assets EXCEPT ![x].trash = NULL]
    /\ LET o == assets[x].trash
       IN  IF o.album \in DOMAIN albums
           THEN /\ members' = members \cup {<<o.album, x>>}
                /\ UNCHANGED <<albums, albumSeq>>
           ELSE IF o.name # NULL
           THEN /\ EnsureChild(o.trunk, o.name)
                /\ members' = members \cup {<<ChildAlbum(o.trunk, o.name), x>>}
           ELSE /\ members' = IF ScatterBucket(o.trunk) = NULL THEN members
                              ELSE members \cup {<<ScatterBucket(o.trunk), x>>}
                /\ UNCHANGED <<albums, albumSeq>>
    /\ UNCHANGED <<identities, assetSeq, refs, uploads>>

DeleteAsset(x) == x \in Trashed /\ Destroy({x})

\* Emptying the bin of one trunk, or of every trunk when none is named.
Cleared(t) == {x \in Trashed : t = NULL \/ assets[x].trash.trunk = t}
ClearTrash(t) == Destroy(Cleared(t))

\* Listing the bin first purges what has been in it for 30 days, whoever lists.
PurgeExpiredTrash(S) == Destroy(S)

-----------------------------------------------------------------------------
(* Start-up: seedTrunks makes the shared trunk and its two buckets.  Every    *)
(* request leaves them in place (TrunksKept), so a later start adds nothing,   *)
(* and the uploads the stop of the server interrupted are gone.                *)

Restart ==
    /\ uploads' = {}
    /\ UNCHANGED <<identities, albums, albumSeq, assets, assetSeq, members, refs>>

SeedRow(n, p) == [name |-> n, parent |-> p, owner |-> NULL, hidden |-> FALSE]
SeedAlbums ==
    [a \in 1..3 |-> CASE a = 1 -> SeedRow(Shared, NULL)
                      [] a = 2 -> SeedRow(Favorites, 1)
                      [] a = 3 -> SeedRow(Scatter, 1)]
LegacyAlbums ==
    [a \in 1..6 |-> CASE a \in 1..3 -> SeedAlbums[a]
                      [] a = 4 -> PrivateRow(Private, NULL, NULL)
                      [] a = 5 -> PrivateRow(Favorites, 4, NULL)
                      [] a = 6 -> PrivateRow(Scatter, 4, NULL)]

Init ==
    /\ identities = {}
    /\ \/ albums = SeedAlbums /\ albumSeq = 3
       \/ Legacy /\ albums = LegacyAlbums /\ albumSeq = 6
    /\ assets = [x \in {} |-> NULL]
    /\ assetSeq = 0
    /\ members = {}
    /\ refs = [h \in Hash |-> 0]
    /\ uploads = {}

-----------------------------------------------------------------------------
(* The requests of a logged-in identity i: what it must be able to see, then *)
(* the transaction.  CreateAlbum and MoveAlbum look inside theirs.           *)

AlbumRequest(i) ==
    \/ \E n \in UserName, p \in Parents, h \in BOOLEAN : CreateAlbum(i, n, p, h)
    \/ \E a \in Movable, p \in Parents : MoveAlbum(i, a, p)
    \/ \E a \in DOMAIN albums :
        /\ VisibleAlbum(i, a)
        /\ \/ \E n \in UserName, p \in DOMAIN albums \cup {NULL}, h \in BOOLEAN :
                    UpdateAlbum(a, n, p, h)
           \/ a \in Movable /\ albums[a].parent # NULL /\ DeleteAlbum(a)

\* DELETE /assets/{id}, with the album it was deleted in or without one.
DeleteRequest(i, x) ==
    /\ VisibleAsset(i, x)
    /\ \/ TrashAsset(x)
       \/ \E a \in DOMAIN albums :
            /\ VisibleAlbum(i, a)
            /\ AlbumScopedDelete(a)
            /\ RemoveOrTrash(a, x)

FileRequest(i, x) ==
    \E a \in DOMAIN albums :
        /\ VisibleAlbum(i, a)
        /\ \/ /\ VisibleAsset(i, x)
              /\ \E onlyHere \in BOOLEAN : AddAssetToAlbum(a, x, onlyHere)
           \/ RemoveOrPark(a, x)

BinRequest(i) ==
    \/ \E x \in Trashed : VisibleAsset(i, x) /\ (RestoreAsset(x) \/ DeleteAsset(x))
    \/ \E t \in Roots \cup {NULL} :
            (t # NULL => VisibleAlbum(i, t)) /\ ClearTrash(t)
    \/ \E S \in SUBSET Trashed : S # {} /\ PurgeExpiredTrash(S)

Request(i) ==
    \/ AlbumRequest(i)
    \/ \E x \in DOMAIN assets : DeleteRequest(i, x) \/ FileRequest(i, x)
    \/ BinRequest(i)
    \/ \E a \in DOMAIN albums \cup {NULL}, h \in Hash : StartUpload(i, a, h)

Next ==
    \/ \E i \in Identity : Register(i)
    \/ \E i \in identities : Request(i)
    \/ \E u \in uploads : CreateAsset(u) \/ FileUpload(u)
    \/ Restart

Spec == Init /\ [][Next]_vars
-----------------------------------------------------------------------------
(* Properties                                                               *)

\* Every variable keeps its type: ids are handed out in order and never twice (store.go
\* AUTOINCREMENT), and no content has a negative number of references.
TypeOK ==
    /\ identities \subseteq Identity
    /\ albumSeq \in AlbumId
    /\ DOMAIN albums \subseteq 1..albumSeq
    /\ albums \in [DOMAIN albums -> AlbumRow]
    /\ assetSeq \in 0..MaxAsset
    /\ DOMAIN assets \subseteq 1..assetSeq
    /\ assets \in [DOMAIN assets -> AssetRow]
    /\ refs \in [Hash -> Nat]
    /\ uploads \subseteq Upload

\* Foreign keys, which no operation may leave dangling after its cascade: a
\* parent exists, a membership names an album and a photo that exist.
ForeignKeys ==
    /\ \A a \in Filed : albums[a].parent \in DOMAIN albums
    /\ members \subseteq (DOMAIN albums) \X (DOMAIN assets)

\* The reference count of a content is the number of photo rows that have it:
\* one row too few and a purge deletes the bytes of a photo still in use, one
\* too many and the bytes are never deleted.
RefCountExact == \A h \in Hash : refs[h] = Cardinality(Copies(h))

\* Who an album belongs to has one source: a sub-album is owned by whoever owns
\* its parent.
OwnedByTrunk == \A a \in Filed : albums[a].owner = albums[albums[a].parent].owner

\* The family has one shared trunk, and every identity one private trunk of its
\* own, each with its two buckets: without it an identity cannot find its own
\* photos any more.
HasBuckets(t) == ChildrenNamed(t, Favorites) # {} /\ ChildrenNamed(t, Scatter) # {}
TrunksKept ==
    /\ \E t \in Roots : RootsNamed(Shared) = {t} /\ HasBuckets(t)
    /\ \A i \in identities : \E t \in Roots :
        /\ {a \in RootsNamed(Private) : albums[a].owner = i} = {t}
        /\ HasBuckets(t)

\* Every album is filed under some trunk or root: no chain of parents closes on
\* itself, which no query over the tree would ever return from.
Acyclic == DOMAIN albums = UNION {Subtree(r) : r \in Roots}

\* Every photo in the recycle bin was deleted from a trunk that still exists, so
\* someone sees it there and its album can be rebuilt.
TrashReachable == \A x \in Trashed : assets[x].trash.trunk \in DOMAIN albums

\* A photo an album holds is never lost by a step: its row stays, and either an
\* album still holds it or it is in the recycle bin.
NothingLost ==
    [][\A x \in Active :
        Held(x) # {} => /\ x \in (DOMAIN assets)'
                        /\ Held(x)' # {} \/ x \in Trashed']_vars

\* A photo that leaves the recycle bin alive is in an album again.
RestoredIsFiled ==
    [][\A x \in Trashed : x \in Active' => Held(x)' # {}]_vars

\* Who sees a photo; NULL stands for the rest of the family.
Viewers(x) == {i \in identities \cup {NULL} : VisibleAsset(i, x)}

\* Deleting, un-filing, deleting an album and rebuilding one for a restore show a
\* photo to nobody who could not see it before.
Quiet(x) ==
    \/ \E a \in DOMAIN albums : RemoveOrPark(a, x) \/ RemoveOrTrash(a, x) \/ DeleteAlbum(a)
    \/ TrashAsset(x)
    \/ RestoreAsset(x) /\ assets[x].trash.album \notin DOMAIN albums
NoSilentExposure ==
    [][\A x \in DOMAIN assets : Viewers(x)' \subseteq Viewers(x) \/ ~Quiet(x)]_vars

\* What a photo's restore promises is in vain once it is destroyed: a photo that
\* an album holds is never destroyed.
FiledNotDestroyed ==
    [][\A x \in DOMAIN assets : Held(x) # {} => x \in (DOMAIN assets)']_vars

\* An upload is filed in the album it named, as long as the album is there.
UploadReachesAlbum ==
    [][\A u \in uploads :
        FileUpload(u) /\ VisibleAlbum(u.by, u.album)
            => <<u.album, u.asset>> \in members']_vars
=============================================================================
