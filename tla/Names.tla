------------------------------- MODULE Names -------------------------------
(***************************************************************************)
(* What photos are called inside the albums (store.go): the name of the     *)
(* photo's row, or the membership's own where the clash rule numbered an    *)
(* arrival.  Which albums an operation reaches is the subject of Library;   *)
(* here every album may be the one, and an album that is gone is an empty   *)
(* one.  Who sees what plays no part.                                       *)
(*                                                                         *)
(* A name is a stem and the numbers it was given: "x (1) (2).jpg" is x with *)
(* <<1, 2>>.  Stems that differ in case are the same name to an album.      *)
(***************************************************************************)
EXTENDS Integers, Sequences, FiniteSets

CONSTANTS
    Album,
    Scatter,          \* the bucket parked photos go to
    Shared,           \* albums everybody sees
    Hash,
    Stem,
    Lower,            \* lower() on stems
    MaxAsset,         \* bound: photo rows
    MaxNameAttempts,  \* bound: in the code 10000
    MaxNumbers,       \* bound: numbers in a name
    MaxRequests,      \* bound: requests of users
    NULL

ASSUME AlbumAssumption == Scatter \in Shared /\ Shared \subseteq Album
ASSUME LowerAssumption == Lower \in [Stem -> Stem]
ASSUME BoundAssumption == MaxAsset \in Nat /\ MaxNameAttempts \in Nat \ {0}
                           /\ MaxNumbers \in Nat \ {0} /\ MaxRequests \in Nat

Asset == 1..MaxAsset
Numbers == UNION {[1..n -> 1..MaxNameAttempts] : n \in 0..MaxNumbers}
Name == [stem : Stem, nums : Numbers]
Bin == [album : Album, name : Name]
Row == [name : Name, hash : Hash, trash : Bin \cup {NULL}]
Upload == [album : Album, name : Name, hash : Hash]

ASSUME NullAssumption == NULL \notin [stem : Stem, nums : Seq(Nat)] \cup Bin \cup Row

VARIABLES
    assets,   \* Asset -> Row, NULL where there is no row
    members,  \* album_assets: <<album, photo>> -> its name there, NULL to inherit
    seq,      \* the last id given
    requests, \* requests still to come
    uploads   \* uploads whose name is settled and whose row is still to be made

vars == <<assets, members, seq, uploads, requests>>

Exists(x) == assets[x] # NULL
Holds(a) == {x \in Asset : <<a, x>> \in DOMAIN members}
Held(x) == {a \in Album : <<a, x>> \in DOMAIN members}

\* COALESCE(aa.name, a.original_name)
Display(a, x) ==
    IF members[<<a, x>>] = NULL THEN assets[x].name ELSE members[<<a, x>>]

SameName(n, m) == Lower[n.stem] = Lower[m.stem] /\ n.nums = m.nums

-----------------------------------------------------------------------------
(* The clash rule, over the names f that the members of an album show       *)

NamesIn(a) == [x \in Holds(a) |-> Display(a, x)]

albumNameClashTx(f, n, except) == {x \in DOMAIN f \ {except} : SameName(f[x], n)}

Numbered(n, k) == [stem |-> n.stem, nums |-> Append(n.nums, k)]

Free(f, n) ==
    {k \in 1..MaxNameAttempts : \A x \in DOMAIN f : ~SameName(f[x], Numbered(n, k))}

\* The lowest number that is free; the request fails when there is none.
freeNameInAlbumTx(f, n) ==
    {Numbered(n, k) : k \in {k \in Free(f, n) : \A j \in Free(f, n) : k <= j}}

\* NameInAlbum: what an arrival called n may be called among f.
NameInAlbum(f, n, except) ==
    IF albumNameClashTx(f, n, except) = {} THEN {n} ELSE freeNameInAlbumTx(f, n)

\* Mutant: numbers are taken without looking who has them.
membershipNameFirst(f, n, except) ==
    IF albumNameClashTx(f, n, except) = {} THEN {NULL} ELSE {Numbered(n, 1)}

\* What its membership records: nothing when it keeps its own name.
membershipNameTx(f, n, except) ==
    {IF m = n THEN NULL ELSE m : m \in NameInAlbum(f, n, except)}

Fits(n) == IF n = NULL THEN TRUE ELSE Len(n.nums) <= MaxNumbers

\* INSERT OR IGNORE on memberships m.
Insert(m, a, x, n) ==
    IF <<a, x>> \in DOMAIN m THEN m
    ELSE [e \in DOMAIN m \cup {<<a, x>>} |-> IF e = <<a, x>> THEN n ELSE m[e]]

Without(E) == [e \in DOMAIN members \ E |-> members[e]]

-----------------------------------------------------------------------------
(* Uploads                                                                  *)

\* NameInAlbum: bytes the album has already end the upload, a taken name is
\* numbered.  The row is made later.
StartUpload(a, h, n) ==
    /\ \A x \in Holds(a) : assets[x].hash # h
    /\ Cardinality(uploads) + seq < MaxAsset
    /\ \E m \in NameInAlbum(NamesIn(a), n, NULL) :
          /\ Fits(m)
          /\ uploads' = uploads \cup {[album |-> a, name |-> m, hash |-> h]}
    /\ UNCHANGED <<assets, members, seq>>

\* CreateAsset, and filing, which for a photo just made always ends in the bucket
\* (AddAssetToAlbum does not see it).
FileUpload(u) ==
    LET x == seq + 1
    IN  /\ u \in uploads
        /\ seq' = x
        /\ assets' = [assets EXCEPT ![x] = [name |-> u.name, hash |-> u.hash, trash |-> NULL]]
        /\ uploads' = uploads \ {u}
        /\ \E m \in membershipNameTx(NamesIn(Scatter), u.name, x) :
              Fits(m) /\ members' = Insert(members, Scatter, x, m)

-----------------------------------------------------------------------------
(* Memberships                                                              *)

\* The same bytes are linked once.  The photo may be in the bin.
AddAssetToAlbum(a, x, onlyHere) ==
    LET gone == IF onlyHere THEN {<<s, x>> : s \in Shared} ELSE {}
        kept == Without(gone)
        twin == \E y \in Holds(a) \ {x} : assets[y].hash = assets[x].hash
    IN  /\ Exists(x)
        /\ Held(x) # {} \/ assets[x].trash # NULL
        /\ IF twin THEN members' = kept
           ELSE \E m \in membershipNameTx(NamesIn(a), assets[x].name, x) :
                   Fits(m) /\ members' = Insert(kept, a, x, m)
        /\ UNCHANGED <<assets, seq, uploads>>

\* Taking the last reference of a photo trashes it under the name it had there.
RemoveOrTrash(a, x) ==
    /\ Exists(x) /\ assets[x].trash = NULL /\ a \in Held(x)
    /\ members' = Without({<<a, x>>})
    /\ assets' = IF Held(x) = {a}
                 THEN [assets EXCEPT ![x] = [name |-> assets[x].name, hash |-> assets[x].hash,
                                             trash |-> [album |-> a, name |-> Display(a, x)]]]
                 ELSE assets
    /\ UNCHANGED <<seq, uploads>>

\* A delete of the photo, or of an album with all that only it holds.
TrashAsset(x) ==
    /\ Exists(x) /\ assets[x].trash = NULL
    /\ \E a \in Held(x) :
          assets' = [assets EXCEPT ![x] = [name |-> assets[x].name, hash |-> assets[x].hash,
                                           trash |-> [album |-> a, name |-> Display(a, x)]]]
    /\ members' = Without({<<a, x>> : a \in Album})
    /\ UNCHANGED <<seq, uploads>>

RemoveOrPark(a, x) ==
    /\ Exists(x) /\ assets[x].trash = NULL /\ a \in Held(x)
    /\ LET kept == Without({<<a, x>>})
       IN  IF Held(x) # {a} THEN members' = kept
           ELSE LET there == [y \in Holds(Scatter) \ {x} |-> Display(Scatter, y)]
                IN  \E m \in membershipNameTx(there, assets[x].name, x) :
                       Fits(m) /\ members' = Insert(kept, Scatter, x, m)
    /\ UNCHANGED <<assets, seq, uploads>>

\* Mutant: the photo returns under the name of its row.
RestoreAssetRowName(a, x) ==
    /\ Exists(x) /\ assets[x].trash # NULL
    /\ assets' = [assets EXCEPT ![x] = [name |-> assets[x].name, hash |-> assets[x].hash,
                                        trash |-> NULL]]
    /\ \E m \in membershipNameTx(NamesIn(a), assets[x].name, x) :
          Fits(m) /\ members' = Insert(members, a, x, m)
    /\ UNCHANGED <<seq, uploads>>

\* Into the album it was in, the one rebuilt for it or the bucket, under the name it
\* had there; numbered if others have that name now.
RestoreAsset(a, x) ==
    /\ Exists(x) /\ assets[x].trash # NULL
    /\ assets' = [assets EXCEPT ![x] = [name |-> assets[x].name, hash |-> assets[x].hash,
                                        trash |-> NULL]]
    /\ LET n == assets[x].trash.name
       IN  \E m \in NameInAlbum(NamesIn(a), n, x) :
              /\ Fits(m)
              /\ members' = Insert(members, a, x, IF m = assets[x].name THEN NULL ELSE m)
    /\ UNCHANGED <<seq, uploads>>

\* Mutant: the memberships stay.
DeleteAssetRow(x) ==
    /\ Exists(x) /\ assets[x].trash # NULL
    /\ assets' = [assets EXCEPT ![x] = NULL]
    /\ UNCHANGED <<members, seq, uploads>>

\* The bin forgets it; memberships go with the row.
DeleteAsset(x) ==
    /\ Exists(x) /\ assets[x].trash # NULL
    /\ assets' = [assets EXCEPT ![x] = NULL]
    /\ members' = Without({<<a, x>> : a \in Album})
    /\ UNCHANGED <<seq, uploads>>

\* MoveAlbum, merging a into b.  f is what b's members show, y the newcomer whose
\* turn it is: only a clash whose oldest holder has other bytes numbers it.
Renumber(f, y) ==
    LET clash == albumNameClashTx(f, f[y], y)
    IN  IF clash = {} \/ \E x \in clash : /\ \A z \in clash : x <= z
                                          /\ assets[x].hash = assets[y].hash
        THEN {f}
        ELSE {[f EXCEPT ![y] = m] : m \in freeNameInAlbumTx(f, f[y])}

\* Mutant: the members there were are numbered like the newcomers.
MergedAll(f, new) ==
    LET Steps[n \in 0..MaxAsset] ==
            IF n = 0 THEN {f}
            ELSE IF n \notin DOMAIN f THEN Steps[n - 1]
            ELSE UNION {Renumber(g, n) : g \in Steps[n - 1]}
    IN  Steps[MaxAsset]

\* Newcomers are numbered one after the other, in the order of their ids.
Merged(f, new) ==
    LET Steps[n \in 0..MaxAsset] ==
            IF n = 0 THEN {f}
            ELSE IF n \notin new THEN Steps[n - 1]
            ELSE UNION {Renumber(g, n) : g \in Steps[n - 1]}
    IN  Steps[MaxAsset]

MoveAlbum(a, b) ==
    LET new == Holds(a) \ Holds(b)
        start == [x \in Holds(b) \cup new |->
                     IF x \in new THEN Display(a, x) ELSE Display(b, x)]
    IN  /\ a # b /\ a # Scatter /\ Holds(a) # {}
        /\ \E f \in Merged(start, new) :
              /\ \A y \in DOMAIN f : Fits(f[y])
              /\ members' =
                   [e \in (DOMAIN members \ ({a} \X Asset)) \cup ({b} \X new) |->
                      IF e[1] # b THEN members[e]
                      ELSE IF f[e[2]] # start[e[2]] THEN f[e[2]]
                      ELSE IF e \in DOMAIN members THEN members[e]
                      ELSE members[<<a, e[2]>>]]
        /\ UNCHANGED <<assets, seq, uploads>>

\* A manual rename: the numbered names go with the old one.
UpdateAssetName(x, n) ==
    /\ Exists(x)
    /\ Held(x) # {} \/ assets[x].trash # NULL
    /\ assets' = [assets EXCEPT ![x] = [name |-> n, hash |-> assets[x].hash,
                                        trash |-> assets[x].trash]]
    /\ members' = [e \in DOMAIN members |-> IF e[2] = x THEN NULL ELSE members[e]]
    /\ UNCHANGED <<seq, uploads>>

Init ==
    /\ assets = [x \in Asset |-> NULL]
    /\ members = <<>>
    /\ seq = 0
    /\ requests = MaxRequests
    /\ uploads = {}

\* Users type stems, also with a number of their own.
Typed == [stem : Stem, nums : {<<>>}] \cup [stem : {Lower[s] : s \in Stem}, nums : {<<1>>}]

Request ==
    \/ \E a \in Album, h \in Hash, n \in Typed : StartUpload(a, h, n)
    \/ \E a \in Album, x \in Asset :
          \/ AddAssetToAlbum(a, x, FALSE)
          \/ a \notin Shared /\ AddAssetToAlbum(a, x, TRUE)
          \/ RemoveOrTrash(a, x) \/ RemoveOrPark(a, x) \/ RestoreAsset(a, x)
    \/ \E x \in Asset : TrashAsset(x) \/ DeleteAsset(x)
    \/ \E a \in Album, b \in Album : MoveAlbum(a, b)
    \/ \E x \in Asset, n \in Typed : UpdateAssetName(x, n)

Next ==
    \/ Request /\ requests > 0 /\ requests' = requests - 1
    \/ \E u \in uploads : FileUpload(u) /\ UNCHANGED requests
    \/ requests = 0 /\ UNCHANGED vars

Spec == Init /\ [][Next]_vars

-----------------------------------------------------------------------------
(* Properties                                                               *)

\* Types; only rows are filed.
TypeOK ==
    /\ assets \in [Asset -> Row \cup {NULL}]
    /\ DOMAIN members \subseteq Album \X {x \in Asset : Exists(x)}
    /\ \A e \in DOMAIN members : members[e] \in Name \cup {NULL}
    /\ seq \in 0..MaxAsset
    /\ requests \in 0..MaxRequests
    /\ uploads \subseteq Upload

\* Two photos of different bytes that an album shows under one name.
Clashes ==
    {c \in Album \X Asset \X Asset :
        LET a == c[1] x == c[2] y == c[3]
        IN  /\ x \in Holds(a) /\ y \in Holds(a)
            /\ assets[x].hash # assets[y].hash
            /\ SameName(Display(a, x), Display(a, y))}

\* An album that shows x's bytes twice under the same name.
Twice(a, x) ==
    \E y \in Holds(a) \ {x} :
        assets[y].hash = assets[x].hash /\ SameName(Display(a, x), Display(a, y))

\* Only a manual rename gives two different photos of an album the same name; the
\* clash rule sees to every other arrival, whatever numbers were given before and in
\* whichever order (store.go membershipNameTx, RestoreAsset, MoveAlbum).  Except where
\* a merge meets two copies of the same bytes.
NoNewClash ==
    [][\A c \in Clashes' :
        \/ c \in Clashes
        \/ \E n \in Typed : UpdateAssetName(c[2], n) \/ UpdateAssetName(c[3], n)
        \/ Twice(c[1], c[2])' \/ Twice(c[1], c[3])']_vars

\* The photos in an album keep the names the user knows them by, whatever arrives and
\* leaves: only a rename, or taking out and filing that photo, changes one (store.go
\* AddAssetToAlbum, MoveAlbum).
NamesStay ==
    [][\A e \in DOMAIN members \cap (DOMAIN members)' :
        \/ Display(e[1], e[2])' = Display(e[1], e[2])
        \/ \E n \in Typed : UpdateAssetName(e[2], n)
        \/ AddAssetToAlbum(e[1], e[2], TRUE) \/ RemoveOrPark(e[1], e[2])]_vars

\* A photo returns from the bin under the name it was deleted under, unless that name
\* is taken by then (store.go RestoreAsset).
NameRestored ==
    [][\A a \in Album, x \in Asset :
        RestoreAsset(a, x) /\ a \notin Held(x) =>
            \/ Display(a, x)' = assets[x].trash.name
            \/ \E y \in Holds(a) : SameName(Display(a, y), assets[x].trash.name)]_vars
=============================================================================
