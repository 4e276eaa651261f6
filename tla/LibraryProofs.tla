--------------------------- MODULE LibraryProofs ---------------------------
(***************************************************************************)
(* Theorems about Library, for every value of its constants, in three       *)
(* parts: its types and reference counts; its tables as a forest of albums  *)
(* that hold photos; the recycle bin, the library of the bundled client, in *)
(* which albums are the children of trunks, who sees a photo, and that none *)
(* is lost.                                                                *)
(***************************************************************************)
EXTENDS Library, FiniteSetTheorems, WellFoundedInduction, TLAPS

-----------------------------------------------------------------------------
(* The parts of the type invariant an operation touches together.          *)

AlbumsOK ==
    /\ albumSeq \in AlbumId
    /\ DOMAIN albums \subseteq 1..albumSeq
    /\ albums \in [DOMAIN albums -> AlbumRow]

AssetsOK ==
    /\ assetSeq \in 0..MaxAsset
    /\ DOMAIN assets \subseteq 1..assetSeq
    /\ assets \in [DOMAIN assets -> AssetRow]

\* The inductive invariant: a reference count stays a natural number only
\* because it is exact.
IInv == TypeOK /\ RefCountExact

\* The photo rows with the same content are finitely many.
LEMMA CopiesFinite ==
  ASSUME AssetsOK, NEW h
  PROVE  IsFiniteSet(Copies(h)) /\ Cardinality(Copies(h)) \in Nat
<1>1. IsFiniteSet(1..assetSeq)
  BY FS_Interval DEF AssetsOK
<1>2. Copies(h) \in SUBSET (1..assetSeq)
  BY DEF AssetsOK, Copies
<1> QED
  BY <1>1, <1>2, FS_Subset, FS_CardinalityType

\* What a row of albums holds.
LEMMA AlbumTyped ==
  ASSUME AlbumsOK, NEW a \in DOMAIN albums
  PROVE  /\ a \in AlbumId
         /\ albums[a].name \in AlbumName
         /\ albums[a].parent \in AlbumId \cup {NULL}
         /\ albums[a].owner \in Identity \cup {NULL}
         /\ albums[a].hidden \in BOOLEAN
<1>1. albums[a] \in AlbumRow
  BY DEF AlbumsOK
<1>2. a \in AlbumId
  BY BoundsAssumption DEF AlbumsOK, AlbumId
<1> QED
  BY <1>1, <1>2 DEF AlbumRow

\* The ids that a bound leaves are ids.
LEMMA NextIsId ==
  ASSUME AlbumsOK,
         NextAlbum + 3 * Cardinality(Identity \ identities) \in AlbumId
  PROVE  NextAlbum \in AlbumId
<1>1. IsFiniteSet(Identity \ identities)
  BY FS_Difference, FamilyAssumption
<1>2. Cardinality(Identity \ identities) \in Nat
  BY <1>1, FS_CardinalityType
<1> QED
  BY <1>2, BoundsAssumption DEF AlbumId, NextAlbum, AlbumsOK

\* INSERT INTO albums keeps the table well typed.
LEMMA InsertAlbumType ==
  ASSUME AlbumsOK, NEW n \in AlbumName, NEW p \in AlbumId \cup {NULL},
         NEW o \in Identity \cup {NULL}, NEW h \in BOOLEAN,
         InsertAlbum(n, p, o, h)
  PROVE  AlbumsOK'
<1> DEFINE row == [name |-> n, parent |-> p, owner |-> o, hidden |-> h]
<1>1. NextAlbum \in AlbumId
  BY NextIsId DEF InsertAlbum
<1>2. row \in AlbumRow
  BY DEF AlbumRow
<1>3. albumSeq' = albumSeq + 1 /\ albumSeq' \in AlbumId /\ albumSeq \in Nat
  BY <1>1 DEF InsertAlbum, NextAlbum, AlbumsOK, AlbumId
<1>4. /\ DOMAIN albums' = DOMAIN albums \cup {albumSeq + 1}
      /\ albums' = [a \in DOMAIN albums \cup {albumSeq + 1} |->
                        IF a = albumSeq + 1 THEN row ELSE albums[a]]
  BY DEF InsertAlbum, WithAlbum, NextAlbum, With
<1> QED
  BY <1>2, <1>3, <1>4 DEF AlbumsOK

\* Looking up the child of a trunk, or making it, keeps the table well typed.
LEMMA EnsureChildType ==
  ASSUME AlbumsOK, NEW t, NEW n \in AlbumName, EnsureChild(t, n)
  PROVE  AlbumsOK'
<1>1. CASE ChildrenNamed(t, n) # {}
  BY <1>1 DEF EnsureChild, AlbumsOK
<1>2. CASE ChildrenNamed(t, n) = {}
  <2>1. t \in DOMAIN albums /\ InsertAlbum(n, t, albums[t].owner, albums[t].hidden)
    BY <1>2 DEF EnsureChild
  <2>2. PICK o, h : o = albums[t].owner /\ h = albums[t].hidden
    OBVIOUS
  <2>3. t \in AlbumId /\ o \in Identity \cup {NULL} /\ h \in BOOLEAN
    BY <2>1, <2>2, AlbumTyped
  <2> QED
    BY <2>1, <2>2, <2>3, InsertAlbumType
<1> QED
  BY <1>1, <1>2

LEMMA EnsureBucketType ==
  ASSUME AlbumsOK, NEW t, EnsureBucket(t)
  PROVE  AlbumsOK'
<1>1. Scatter \in AlbumName
  BY DEF AlbumName, Builtin
<1> QED
  BY <1>1, EnsureChildType DEF EnsureBucket, AlbumsOK

\* A non-empty set of ids has a least one.
LEMMA MinIsLeast ==
  ASSUME NEW S \in SUBSET Nat, S # {}
  PROVE  Min(S) \in S /\ \A y \in S : Min(S) =< y
<1> DEFINE R == {ss \in Nat \X Nat : ss[1] < ss[2]}
<1>1. IsWellFoundedOn(R, Nat)
  BY NatLessThanWellFounded, Zenon DEF OpToRel
<1>2. PICK x \in S : \A y \in S : <<y, x>> \notin R
  <2> HIDE DEF R
  <2> QED
    BY <1>1, WFMin
<1>3. ASSUME NEW y \in S PROVE x =< y
  <2>1. x \in Nat /\ y \in Nat
    OBVIOUS
  <2>2. ~ (y < x)
    BY <1>2, <2>1
  <2> QED
    BY <2>1, <2>2
<1> QED
  BY <1>3 DEF Min

LEMMA TrashOriginType ==
  ASSUME AlbumsOK, NEW a \in DOMAIN albums
  PROVE  TrashOrigin(a) \in Origin
<1>1. /\ albums[a].parent \in AlbumId \cup {NULL}
      /\ albums[a].name \in AlbumName
      /\ a \in AlbumId
  BY AlbumTyped
<1>2. TrunkOf(a) \in AlbumId
  BY <1>1 DEF TrunkOf
<1> QED
  BY <1>1, <1>2 DEF TrashOrigin, Origin

LEMMA SourceAlbumType ==
  ASSUME AlbumsOK, NEW x, Held(x) # {}
  PROVE  SourceAlbum(x) \in Origin
<1> DEFINE real == {a \in Held(x) : albums[a].name # Favorites}
           S == IF real # {} THEN real ELSE Held(x)
<1>1. S # {} /\ S \subseteq DOMAIN albums
  BY DEF Held
<1>2. S \in SUBSET Nat
  BY <1>1 DEF AlbumsOK, AlbumId
<1>3. Min(S) \in DOMAIN albums
  BY <1>1, <1>2, MinIsLeast
<1>4. SourceAlbum(x) = TrashOrigin(Min(S))
  BY DEF SourceAlbum
<1> QED
  BY <1>3, <1>4, TrashOriginType

-----------------------------------------------------------------------------
(* Reference counts.                                                        *)

\* A step that neither makes nor destroys photo rows keeps the counts exact.
LEMMA SameContents ==
  ASSUME RefCountExact, DOMAIN assets' = DOMAIN assets, refs' = refs,
         \A x \in DOMAIN assets : assets'[x].hash = assets[x].hash
  PROVE  RefCountExact'
<1>1. \A h \in Hash : Copies(h)' = Copies(h)
  BY DEF Copies
<1> QED
  BY <1>1 DEF RefCountExact

\* Destroying rows gives back as many references as there were rows.
LEMMA DestroyExact ==
  ASSUME AssetsOK, RefCountExact, NEW S, Destroy(S)
  PROVE  AssetsOK' /\ refs' \in [Hash -> Nat] /\ RefCountExact'
<1>1. /\ DOMAIN assets' = DOMAIN assets \ S
      /\ \A x \in DOMAIN assets' : assets'[x] = assets[x]
      /\ assets' \in [DOMAIN assets' -> AssetRow]
  BY DEF Destroy, Restrict, AssetsOK
<1>2. AssetsOK'
  BY <1>1 DEF Destroy, AssetsOK
<1>3. ASSUME NEW h \in Hash
      PROVE  refs'[h] = Cardinality(Copies(h)') /\ refs'[h] \in Nat
  <2>1. {x \in S : assets[x].hash = h} = Copies(h) \cap S
    BY DEF Destroy, Trashed, Copies
  <2>2. Copies(h)' = Copies(h) \ S
    BY <1>1 DEF Copies
  <2>3. IsFiniteSet(Copies(h)) /\ IsFiniteSet(Copies(h) \ S)
    BY CopiesFinite, FS_Difference
  <2>4. Cardinality(Copies(h) \ S)
          = Cardinality(Copies(h)) - Cardinality(Copies(h) \cap S)
    BY <2>3, FS_Difference
  <2>5. Cardinality(Copies(h) \ S) \in Nat
    BY <2>3, FS_CardinalityType
  <2>6. refs'[h] = refs[h] - Cardinality({x \in S : assets[x].hash = h})
    BY DEF Destroy
  <2> QED
    BY <2>1, <2>2, <2>4, <2>5, <2>6 DEF RefCountExact
<1>4. refs' = [h \in Hash |-> refs'[h]]
  BY DEF Destroy
<1>5. refs' \in [Hash -> Nat]
  BY <1>3, <1>4
<1> QED
  BY <1>2, <1>3, <1>5 DEF RefCountExact

-----------------------------------------------------------------------------
(* Init, and one lemma per request.                                         *)

LEMMA InitInv == Init => IInv
<1> SUFFICES ASSUME Init PROVE IInv
  OBVIOUS
<1>1. /\ Shared \in AlbumName /\ Private \in AlbumName
      /\ Favorites \in AlbumName /\ Scatter \in AlbumName
  BY DEF AlbumName, Builtin
<1>2. 1..6 \subseteq AlbumId
  BY BoundsAssumption DEF AlbumId
<1>3. SeedAlbums \in [1..3 -> AlbumRow]
  BY <1>1, <1>2 DEF SeedAlbums, SeedRow, AlbumRow
<1>4. LegacyAlbums \in [1..6 -> AlbumRow]
  <2>1. ASSUME NEW a \in 1..6 PROVE LegacyAlbums[a] \in AlbumRow
    <3>1. CASE a \in 1..3
      BY <1>3, <3>1 DEF LegacyAlbums
    <3>2. CASE a \in 4..6
      BY <1>1, <1>2, <3>2 DEF LegacyAlbums, PrivateRow, AlbumRow
    <3> QED
      BY <3>1, <3>2
  <2> QED
    BY <2>1 DEF LegacyAlbums
<1>5. AlbumsOK
  <2>1. CASE albums = LegacyAlbums /\ albumSeq = 6
    BY <1>2, <1>4, <2>1 DEF AlbumsOK
  <2>2. CASE albums = SeedAlbums /\ albumSeq = 3
    BY <1>2, <1>3, <2>2 DEF AlbumsOK
  <2> QED
    BY <2>1, <2>2 DEF Init
<1>6. AssetsOK /\ DOMAIN assets = {}
  BY BoundsAssumption DEF Init, AssetsOK
<1>7. RefCountExact /\ refs \in [Hash -> Nat]
  <2>1. \A h \in Hash : Copies(h) = {}
    BY <1>6 DEF Copies
  <2> QED
    BY <2>1, FS_EmptySet DEF Init, RefCountExact
<1> QED
  BY <1>5, <1>6, <1>7 DEF Init, IInv, TypeOK, AlbumsOK, AssetsOK

\* A step that only re-files photos: nothing but memberships and albums change.
LEMMA FilingInv ==
  ASSUME IInv, AlbumsOK', uploads' \subseteq Upload,
         UNCHANGED <<identities, assets, assetSeq, refs>>
  PROVE  IInv'
<1>1. RefCountExact'
  BY SameContents DEF IInv
<1> QED
  BY <1>1 DEF IInv, TypeOK, AlbumsOK

\* A step that moves photos into the recycle bin or out of it.
LEMMA BinInv ==
  ASSUME IInv, AlbumsOK', DOMAIN assets' = DOMAIN assets,
         assets' \in [DOMAIN assets' -> AssetRow],
         \A x \in DOMAIN assets : assets'[x].hash = assets[x].hash,
         UNCHANGED <<identities, assetSeq, refs, uploads>>
  PROVE  IInv'
<1>1. RefCountExact'
  BY SameContents DEF IInv
<1> QED
  BY <1>1 DEF IInv, TypeOK, AlbumsOK

LEMMA OwnedByType ==
  ASSUME AlbumsOK, NEW i \in Identity, NEW S
  PROVE  OwnedBy(i, S) \in [DOMAIN albums -> AlbumRow]
<1>1. ASSUME NEW a \in DOMAIN albums PROVE OwnedBy(i, S)[a] \in AlbumRow
  BY AlbumTyped DEF OwnedBy, AlbumRow, AlbumsOK
<1> QED
  BY <1>1 DEF OwnedBy

\* Three more rows in the table of albums.
LEMMA ThreeRowsType ==
  ASSUME NEW D, NEW tbl \in [D -> AlbumRow], NEW id1, NEW id2, NEW id3,
         NEW row1 \in AlbumRow, NEW row2 \in AlbumRow, NEW row3 \in AlbumRow
  PROVE  With(With(With(tbl, id1, row1), id2, row2), id3, row3)
            \in [D \cup {id1, id2, id3} -> AlbumRow]
<1>1. PICK one : one = With(tbl, id1, row1)
  OBVIOUS
<1>2. one \in [D \cup {id1} -> AlbumRow]
  BY <1>1 DEF With
<1>3. PICK two : two = With(one, id2, row2)
  OBVIOUS
<1>4. two \in [D \cup {id1, id2} -> AlbumRow]
  BY <1>2, <1>3 DEF With
<1>5. With(two, id3, row3) \in [D \cup {id1, id2, id3} -> AlbumRow]
  BY <1>4 DEF With
<1> QED
  BY <1>1, <1>3, <1>5

LEMMA RegisterInv ==
  ASSUME IInv, NEW i \in Identity, Register(i)
  PROVE  IInv'
<1>1. AlbumsOK
  BY DEF IInv, TypeOK, AlbumsOK
<1>2. PICK owned : owned = OwnedBy(i, Claimed)
  OBVIOUS
<1>3. owned \in [DOMAIN albums -> AlbumRow] /\ DOMAIN owned = DOMAIN albums
  BY <1>1, <1>2, OwnedByType
<1>4. AlbumsOK'
  <2>1. CASE Cardinality(Unclaimed) = 1
    BY <1>1, <1>2, <1>3, <2>1 DEF Register, AlbumsOK
  <2>2. CASE Cardinality(Unclaimed) # 1
    <3>1. PICK k : k = albumSeq
      OBVIOUS
    <3>2. PICK row1, row2, row3 :
            /\ row1 = PrivateRow(Private, NULL, i)
            /\ row2 = PrivateRow(Favorites, k + 1, i)
            /\ row3 = PrivateRow(Scatter, k + 1, i)
      OBVIOUS
    <3>3. /\ k + 3 \in AlbumId
          /\ albumSeq' = k + 3
          /\ albums' = With(With(With(owned, k + 1, row1), k + 2, row2), k + 3, row3)
      BY <1>2, <2>2, <3>1, <3>2 DEF Register
    <3>4. k \in Nat /\ k + 1 \in AlbumId
      BY <1>1, <3>1, <3>3, BoundsAssumption DEF AlbumsOK, AlbumId
    <3>5. row1 \in AlbumRow /\ row2 \in AlbumRow /\ row3 \in AlbumRow
      BY <3>2, <3>4 DEF PrivateRow, AlbumRow, AlbumName, Builtin
    <3>6. PICK all : all = albums'
      OBVIOUS
    <3>7. all \in [DOMAIN albums \cup {k + 1, k + 2, k + 3} -> AlbumRow]
      <4>1. PICK n1, n2, n3 : n1 = k + 1 /\ n2 = k + 2 /\ n3 = k + 3
        OBVIOUS
      <4>2. all = With(With(With(owned, n1, row1), n2, row2), n3, row3)
        BY <3>3, <3>6, <4>1
      <4> QED
        BY <1>3, <3>5, <4>1, <4>2, ThreeRowsType
    <3>8. DOMAIN all \subseteq 1..(k + 3)
      BY <1>1, <1>3, <3>1, <3>4, <3>7 DEF AlbumsOK
    <3> QED
      BY <3>3, <3>6, <3>7, <3>8 DEF AlbumsOK
  <2> QED
    BY <2>1, <2>2
<1>5. RefCountExact'
  BY SameContents DEF IInv, Register
<1> QED
  BY <1>4, <1>5 DEF IInv, TypeOK, AlbumsOK, Register

LEMMA MovableTyped ==
  ASSUME NEW p \in Parents
  PROVE  p \in DOMAIN albums \cup {NULL}
BY DEF Parents, Roots, Movable

LEMMA CreateAlbumInv ==
  ASSUME IInv, NEW i \in Identity, NEW n \in UserName, NEW p \in Parents,
         NEW h \in BOOLEAN, CreateAlbum(i, n, p, h)
  PROVE  IInv'
<1>1. AlbumsOK
  BY DEF IInv, TypeOK, AlbumsOK
<1>2. PICK o : o = IF p = NULL THEN NULL ELSE albums[p].owner
  OBVIOUS
<1>3. p \in AlbumId \cup {NULL} /\ o \in Identity \cup {NULL}
  BY <1>1, <1>2, MovableTyped, AlbumTyped
<1>4. n \in AlbumName
  BY DEF AlbumName
<1>5. InsertAlbum(n, p, o, h)
  BY <1>2 DEF CreateAlbum
<1>6. AlbumsOK'
  BY <1>1, <1>3, <1>4, <1>5, InsertAlbumType
<1>7. uploads' \subseteq Upload
  BY DEF CreateAlbum, IInv, TypeOK
<1> QED
  BY <1>6, <1>7, FilingInv DEF CreateAlbum

LEMMA UpdateAlbumInv ==
  ASSUME IInv, NEW a, NEW n \in UserName, NEW p, NEW h \in BOOLEAN,
         UpdateAlbum(a, n, p, h)
  PROVE  IInv'
<1>1. AlbumsOK
  BY DEF IInv, TypeOK, AlbumsOK
<1>2. a \in DOMAIN albums /\ p \in AlbumId \cup {NULL} /\ n \in AlbumName
  BY <1>1, AlbumTyped DEF UpdateAlbum, Movable, AlbumName
<1>3. albums' = [albums EXCEPT ![a] = [albums[a] EXCEPT !.name = n, !.parent = p,
                                                        !.hidden = h]]
  BY <1>1, <1>2 DEF UpdateAlbum, AlbumsOK, AlbumRow
<1>4. [albums[a] EXCEPT !.name = n, !.parent = p, !.hidden = h] \in AlbumRow
  BY <1>1, <1>2 DEF AlbumsOK, AlbumRow
<1>5. AlbumsOK'
  BY <1>1, <1>3, <1>4 DEF AlbumsOK, UpdateAlbum
<1>6. uploads' \subseteq Upload
  BY DEF UpdateAlbum, IInv, TypeOK
<1> QED
  BY <1>5, <1>6, FilingInv DEF UpdateAlbum

LEMMA DeleteAlbumInv ==
  ASSUME IInv, NEW a, DeleteAlbum(a)
  PROVE  IInv'
<1>1. AlbumsOK
  BY DEF IInv, TypeOK, AlbumsOK
<1>2. PICK origin : origin = IF albums[a].parent # NULL THEN TrashOrigin(a)
                             ELSE [trunk |-> a, album |-> NULL, name |-> NULL]
  OBVIOUS
<1>3. a \in DOMAIN albums /\ a \in AlbumId
  BY <1>1, AlbumTyped DEF DeleteAlbum
<1>4. origin \in Origin
  BY <1>1, <1>2, <1>3, TrashOriginType DEF Origin
<1>5. PICK orphans, gone :
        /\ assets' = [x \in DOMAIN assets |->
                        IF x \in orphans THEN [assets[x] EXCEPT !.trash = origin]
                        ELSE assets[x]]
        /\ albums' = Restrict(albums, DOMAIN albums \ gone)
  BY <1>2 DEF DeleteAlbum
<1>6. AlbumsOK'
  BY <1>1, <1>5 DEF AlbumsOK, DeleteAlbum, Restrict
<1>7. \A x \in DOMAIN assets : assets[x] \in AssetRow
  BY DEF IInv, TypeOK
<1>8. /\ DOMAIN assets' = DOMAIN assets
      /\ assets' \in [DOMAIN assets' -> AssetRow]
      /\ \A x \in DOMAIN assets : assets'[x].hash = assets[x].hash
  BY <1>4, <1>5, <1>7 DEF AssetRow
<1> QED
  BY <1>6, <1>8, BinInv DEF DeleteAlbum

LEMMA RehangType ==
  ASSUME AlbumsOK, NEW a \in DOMAIN albums, NEW p \in DOMAIN albums \cup {NULL},
         Rehang(a, p), UNCHANGED albumSeq
  PROVE  AlbumsOK'
<1>1. PICK o, h : /\ o = IF p = NULL THEN NULL ELSE albums[p].owner
                  /\ h = IF p = NULL THEN FALSE ELSE albums[p].hidden
  OBVIOUS
<1>2. p \in AlbumId \cup {NULL} /\ o \in Identity \cup {NULL} /\ h \in BOOLEAN
  BY <1>1, AlbumTyped
<1>3. albums' = [albums EXCEPT ![a] = [albums[a] EXCEPT !.parent = p, !.owner = o,
                                                        !.hidden = h]]
  BY <1>1 DEF Rehang, AlbumsOK, AlbumRow
<1>4. [albums[a] EXCEPT !.parent = p, !.owner = o, !.hidden = h] \in AlbumRow
  BY <1>2 DEF AlbumsOK, AlbumRow
<1> QED
  BY <1>3, <1>4 DEF AlbumsOK

LEMMA MergeIntoType ==
  ASSUME AlbumsOK, NEW a, NEW t \in DOMAIN albums, MergeInto(a, t), UNCHANGED albumSeq
  PROVE  AlbumsOK'
<1>1. t \in AlbumId
  BY AlbumTyped
<1>2. \A b \in DOMAIN albums :
        albums[b] \in AlbumRow /\ [albums[b] EXCEPT !.parent = t] \in AlbumRow
  BY <1>1 DEF AlbumsOK, AlbumRow
<1> QED
  BY <1>2 DEF AlbumsOK, MergeInto

LEMMA MoveAlbumInv ==
  ASSUME IInv, NEW i, NEW a, NEW p, MoveAlbum(i, a, p)
  PROVE  IInv'
<1>1. AlbumsOK
  BY DEF IInv, TypeOK, AlbumsOK
<1>2. a \in DOMAIN albums /\ p \in DOMAIN albums \cup {NULL}
  BY MovableTyped DEF MoveAlbum, Movable
<1>3. AlbumsOK'
  <2>1. CASE MergeTargets(a, p) = {}
    BY <1>1, <1>2, <2>1, RehangType DEF MoveAlbum
  <2>2. CASE MergeTargets(a, p) # {}
    <3>1. MergeTargets(a, p) \subseteq DOMAIN albums
      BY DEF MergeTargets, RootsNamed, Roots, ChildrenNamed, Children
    <3>2. MergeTargets(a, p) \in SUBSET Nat
      BY <1>1, <3>1 DEF AlbumsOK, AlbumId
    <3>3. Min(MergeTargets(a, p)) \in DOMAIN albums
      BY <2>2, <3>1, <3>2, MinIsLeast
    <3>4. PICK t : t = Min(MergeTargets(a, p))
      OBVIOUS
    <3>5. t \in DOMAIN albums /\ MergeInto(a, t)
      BY <2>2, <3>3, <3>4 DEF MoveAlbum
    <3> QED
      BY <1>1, <3>5, MergeIntoType DEF MoveAlbum
  <2> QED
    BY <2>1, <2>2
<1>4. uploads' \subseteq Upload
  BY DEF MoveAlbum, IInv, TypeOK
<1> QED
  BY <1>3, <1>4, FilingInv DEF MoveAlbum

LEMMA AddAssetToAlbumInv ==
  ASSUME IInv, NEW a, NEW x, NEW onlyHere, AddAssetToAlbum(a, x, onlyHere)
  PROVE  IInv'
<1>1. AlbumsOK' /\ uploads' \subseteq Upload
  BY DEF IInv, TypeOK, AlbumsOK, AddAssetToAlbum
<1> QED
  BY <1>1, FilingInv DEF AddAssetToAlbum

LEMMA StartUploadInv ==
  ASSUME IInv, NEW i \in Identity, NEW a \in DOMAIN albums \cup {NULL}, NEW h \in Hash,
         StartUpload(i, a, h)
  PROVE  IInv'
<1>1. AlbumsOK /\ AlbumsOK'
  BY DEF IInv, TypeOK, AlbumsOK, StartUpload
<1>2. a \in AlbumId \cup {NULL}
  BY <1>1, AlbumTyped
<1>3. [asset |-> NULL, album |-> a, by |-> i, hash |-> h] \in Upload
  BY <1>2 DEF Upload
<1>4. uploads' \subseteq Upload
  BY <1>3 DEF StartUpload, IInv, TypeOK
<1> QED
  BY <1>1, <1>4, FilingInv DEF StartUpload

\* A new photo row is one reference more to its content and to no other.
LEMMA CreateAssetInv ==
  ASSUME IInv, NEW u \in uploads, CreateAsset(u)
  PROVE  IInv'
<1>1. AlbumsOK' /\ AssetsOK /\ u \in Upload
  BY DEF IInv, TypeOK, AlbumsOK, AssetsOK, CreateAsset
<1>2. PICK x : x = assetSeq + 1
  OBVIOUS
<1>3. x \in AssetId /\ x \notin DOMAIN assets /\ assetSeq \in Nat
  BY <1>1, <1>2 DEF AssetsOK, CreateAsset, AssetId
<1>4. PICK row : row = [hash |-> u.hash, trash |-> NULL]
  OBVIOUS
<1>5. row \in AssetRow /\ row.hash = u.hash
  BY <1>1, <1>4 DEF Upload, AssetRow
<1>6. /\ DOMAIN assets' = DOMAIN assets \cup {x}
      /\ assets' = [y \in DOMAIN assets \cup {x} |-> IF y = x THEN row ELSE assets[y]]
  BY <1>2, <1>4 DEF CreateAsset, With
<1>7. AssetsOK'
  <2>1. assets' \in [DOMAIN assets' -> AssetRow]
    BY <1>1, <1>5, <1>6 DEF AssetsOK
  <2>2. assetSeq' = x /\ x \in 0..MaxAsset
    BY <1>2, <1>3, BoundsAssumption DEF CreateAsset, AssetId
  <2>3. DOMAIN assets' \subseteq 1..assetSeq'
    BY <1>1, <1>2, <1>3, <1>6, <2>2 DEF AssetsOK
  <2> QED
    BY <2>1, <2>2, <2>3 DEF AssetsOK
<1>8. u.hash \in Hash
  BY <1>1 DEF Upload
<1>9. refs \in [Hash -> Nat] /\ refs' = [refs EXCEPT ![u.hash] = refs[u.hash] + 1]
  BY DEF IInv, TypeOK, CreateAsset
<1>10. refs' \in [Hash -> Nat]
  BY <1>8, <1>9
<1>11. ASSUME NEW h \in Hash
       PROVE  refs'[h] = Cardinality(Copies(h)')
  <2>1. refs[h] = Cardinality(Copies(h))
    BY DEF IInv, RefCountExact
  <2>2. CASE h = u.hash
    <3>1. Copies(h)' = Copies(h) \cup {x}
      BY <1>5, <1>6, <2>2 DEF Copies
    <3>2. x \notin Copies(h)
      BY <1>3 DEF Copies
    <3>3. IsFiniteSet(Copies(h))
      BY <1>1, CopiesFinite
    <3>4. Cardinality(Copies(h) \cup {x}) = Cardinality(Copies(h)) + 1
      BY <3>2, <3>3, FS_AddElement
    <3> QED
      BY <1>8, <1>9, <2>1, <2>2, <3>1, <3>4
  <2>3. CASE h # u.hash
    <3>1. Copies(h)' = Copies(h)
      BY <1>3, <1>5, <1>6, <2>3 DEF Copies
    <3> QED
      BY <1>8, <1>9, <2>1, <2>3, <3>1
  <2> QED
    BY <2>2, <2>3
<1>12. uploads' \subseteq Upload
  <2>1. PICK v : v = [u EXCEPT !.asset = x]
    OBVIOUS
  <2>2. v \in Upload
    BY <1>1, <1>3, <2>1 DEF Upload
  <2>3. uploads' \subseteq uploads \cup {v}
    BY <1>2, <2>1 DEF CreateAsset
  <2> QED
    BY <2>2, <2>3 DEF IInv, TypeOK
<1> QED
  BY <1>1, <1>7, <1>10, <1>11, <1>12
     DEF IInv, TypeOK, AlbumsOK, AssetsOK, RefCountExact, CreateAsset

LEMMA FileUploadInv ==
  ASSUME IInv, NEW u \in uploads, FileUpload(u)
  PROVE  IInv'
<1>1. AlbumsOK
  BY DEF IInv, TypeOK, AlbumsOK
<1>2. AlbumsOK'
  <2>1. CASE UNCHANGED <<albums, albumSeq>>
    BY <1>1, <2>1 DEF AlbumsOK
  <2>2. CASE EnsureBucket(ParkTrunk(u.album))
    BY <1>1, <2>2, EnsureBucketType
  <2> QED
    BY <2>1, <2>2 DEF FileUpload, ParkAsset
<1>3. uploads' \subseteq Upload
  BY DEF FileUpload, IInv, TypeOK
<1> QED
  BY <1>2, <1>3, FilingInv DEF FileUpload

\* Moving an active photo to the bin keeps its row well typed.
LEMMA TrashInv ==
  ASSUME IInv, NEW x, NEW origin \in Origin, Trash(x, origin),
         UNCHANGED <<identities, albums, albumSeq, assetSeq, refs, uploads>>
  PROVE  IInv'
<1>1. AlbumsOK'
  BY DEF IInv, TypeOK, AlbumsOK
<1>2. \A y \in DOMAIN assets : assets[y] \in AssetRow
  BY DEF IInv, TypeOK
<1>3. \A y \in DOMAIN assets : [assets[y] EXCEPT !.trash = origin] \in AssetRow
  BY <1>2 DEF AssetRow
<1>4. /\ DOMAIN assets' = DOMAIN assets
      /\ assets' \in [DOMAIN assets' -> AssetRow]
      /\ \A y \in DOMAIN assets : assets'[y].hash = assets[y].hash
  BY <1>2, <1>3 DEF Trash, AssetRow
<1> QED
  BY <1>1, <1>4, BinInv

\* A photo a caller sees outside the bin is in an album.
LEMMA TrashAssetInv ==
  ASSUME IInv, NEW i, NEW x, VisibleAsset(i, x), TrashAsset(x)
  PROVE  IInv'
<1>1. AlbumsOK
  BY DEF IInv, TypeOK, AlbumsOK
<1>2. Held(x) # {}
  BY DEF VisibleAsset, TrashAsset, Active
<1>3. PICK origin : origin = SourceAlbum(x)
  OBVIOUS
<1>4. origin \in Origin
  BY <1>1, <1>2, <1>3, SourceAlbumType
<1> QED
  BY <1>3, <1>4, TrashInv DEF TrashAsset

LEMMA RemoveOrTrashInv ==
  ASSUME IInv, NEW a \in DOMAIN albums, NEW x, RemoveOrTrash(a, x)
  PROVE  IInv'
<1>1. AlbumsOK /\ uploads \subseteq Upload
  BY DEF IInv, TypeOK, AlbumsOK
<1>2. CASE Held(x) # {a}
  <2>1. AlbumsOK' /\ uploads' \subseteq Upload
    BY <1>1 DEF RemoveOrTrash, AlbumsOK
  <2> QED
    BY <1>2, <2>1, FilingInv DEF RemoveOrTrash
<1>3. CASE Held(x) = {a}
  <2>1. PICK origin : origin = TrashOrigin(a)
    OBVIOUS
  <2>2. origin \in Origin
    BY <1>1, <2>1, TrashOriginType
  <2> QED
    BY <1>3, <2>1, <2>2, TrashInv DEF RemoveOrTrash
<1> QED
  BY <1>2, <1>3

LEMMA RemoveOrParkInv ==
  ASSUME IInv, NEW a, NEW x, RemoveOrPark(a, x)
  PROVE  IInv'
<1>1. AlbumsOK
  BY DEF IInv, TypeOK, AlbumsOK
<1>2. AlbumsOK'
  <2>1. CASE UNCHANGED <<albums, albumSeq>>
    BY <1>1, <2>1 DEF AlbumsOK
  <2>2. CASE EnsureBucket(TrunkOf(a))
    BY <1>1, <2>2, EnsureBucketType
  <2> QED
    BY <2>1, <2>2 DEF RemoveOrPark
<1>3. uploads' \subseteq Upload
  BY DEF RemoveOrPark, IInv, TypeOK
<1> QED
  BY <1>2, <1>3, FilingInv DEF RemoveOrPark

LEMMA RestoreAssetInv ==
  ASSUME IInv, NEW x, RestoreAsset(x)
  PROVE  IInv'
<1>1. AlbumsOK /\ \A y \in DOMAIN assets : assets[y] \in AssetRow
  BY DEF IInv, TypeOK, AlbumsOK
<1>2. PICK o : o = assets[x].trash
  OBVIOUS
<1>3. o \in Origin
  BY <1>1, <1>2 DEF RestoreAsset, Trashed, AssetRow
<1>4. AlbumsOK'
  <2>1. CASE UNCHANGED <<albums, albumSeq>>
    BY <1>1, <2>1 DEF AlbumsOK
  <2>2. CASE o.name # NULL /\ EnsureChild(o.trunk, o.name)
    <3>1. o.name \in AlbumName
      BY <1>3, <2>2 DEF Origin
    <3> QED
      BY <1>1, <2>2, <3>1, EnsureChildType
  <2> QED
    BY <1>2, <2>1, <2>2 DEF RestoreAsset
<1>5. \A y \in DOMAIN assets : [assets[y] EXCEPT !.trash = NULL] \in AssetRow
  BY <1>1 DEF AssetRow
<1>6. /\ DOMAIN assets' = DOMAIN assets
      /\ assets' \in [DOMAIN assets' -> AssetRow]
      /\ \A y \in DOMAIN assets : assets'[y].hash = assets[y].hash
  BY <1>1, <1>5 DEF RestoreAsset, AssetRow
<1> QED
  BY <1>4, <1>6, BinInv DEF RestoreAsset

LEMMA DestroyInv ==
  ASSUME IInv, NEW S, Destroy(S)
  PROVE  IInv'
<1>1. AssetsOK /\ AlbumsOK'
  BY DEF IInv, TypeOK, AssetsOK, AlbumsOK, Destroy
<1>2. AssetsOK' /\ refs' \in [Hash -> Nat] /\ RefCountExact'
  BY <1>1, DestroyExact DEF IInv
<1> QED
  BY <1>1, <1>2 DEF IInv, TypeOK, AssetsOK, AlbumsOK, Destroy

-----------------------------------------------------------------------------
(* Every step, and the theorems.                                            *)

LEMMA AlbumRequestInv ==
  ASSUME IInv, NEW i \in Identity, AlbumRequest(i)
  PROVE  IInv'
BY CreateAlbumInv, MoveAlbumInv, UpdateAlbumInv, DeleteAlbumInv DEF AlbumRequest

LEMMA PhotoRequestInv ==
  ASSUME IInv, NEW i, NEW x, DeleteRequest(i, x) \/ FileRequest(i, x)
  PROVE  IInv'
<1>1. CASE DeleteRequest(i, x)
  BY <1>1, TrashAssetInv, RemoveOrTrashInv DEF DeleteRequest
<1>2. CASE FileRequest(i, x)
  BY <1>2, AddAssetToAlbumInv, RemoveOrParkInv DEF FileRequest
<1> QED
  BY <1>1, <1>2

LEMMA BinRequestInv ==
  ASSUME IInv, NEW i, BinRequest(i)
  PROVE  IInv'
BY RestoreAssetInv, DestroyInv
   DEF BinRequest, DeleteAsset, ClearTrash, PurgeExpiredTrash

LEMMA NextInv ==
  ASSUME IInv, [Next]_vars
  PROVE  IInv'
<1>1. ASSUME NEW i \in Identity, Register(i) PROVE IInv'
  BY <1>1, RegisterInv
<1>2. ASSUME NEW i \in identities, Request(i) PROVE IInv'
  <2>1. i \in Identity
    BY DEF IInv, TypeOK
  <2>2. CASE AlbumRequest(i)
    BY <2>1, <2>2, AlbumRequestInv
  <2>3. CASE \E x \in DOMAIN assets : DeleteRequest(i, x) \/ FileRequest(i, x)
    BY <2>3, PhotoRequestInv
  <2>4. CASE BinRequest(i)
    BY <2>4, BinRequestInv
  <2>5. CASE \E a \in DOMAIN albums \cup {NULL}, h \in Hash : StartUpload(i, a, h)
    BY <2>1, <2>5, StartUploadInv
  <2> QED
    BY <1>2, <2>2, <2>3, <2>4, <2>5 DEF Request
<1>3. ASSUME NEW u \in uploads, CreateAsset(u) \/ FileUpload(u) PROVE IInv'
  BY <1>3, CreateAssetInv, FileUploadInv
<1>4. CASE Restart
  <2>1. AlbumsOK' /\ uploads' \subseteq Upload
    BY <1>4 DEF Restart, IInv, TypeOK, AlbumsOK
  <2> QED
    BY <1>4, <2>1, FilingInv DEF Restart
<1>5. CASE UNCHANGED vars
  <2>1. AlbumsOK' /\ uploads' \subseteq Upload
    BY <1>5 DEF vars, IInv, TypeOK, AlbumsOK
  <2> QED
    BY <1>5, <2>1, FilingInv DEF vars
<1> QED
  BY <1>1, <1>2, <1>3, <1>4, <1>5 DEF Next

\* The inductive invariant holds in every behaviour of the store.
THEOREM Inductive == Spec => []IInv
<1>1. Init => IInv
  BY InitInv
<1>2. IInv /\ [Next]_vars => IInv'
  BY NextInv
<1> QED
  BY <1>1, <1>2, PTL DEF Spec

\* Every table is well typed whatever the sizes of the family and of the library.
THEOREM TypeCorrect == Spec => []TypeOK
<1>1. IInv => TypeOK
  BY DEF IInv
<1> QED
  BY <1>1, Inductive, PTL

\* The reference count of a content is the number of photo rows that have it, so
\* a blob is deleted with its last photo and not before.
THEOREM ReferenceCounts == Spec => []RefCountExact
<1>1. IInv => RefCountExact
  BY DEF IInv
<1> QED
  BY <1>1, Inductive, PTL

-----------------------------------------------------------------------------
(* The tables as a forest of albums that hold photos.                       *)

ParentsOK == \A a \in DOMAIN albums : albums[a].parent \in DOMAIN albums \cup {NULL}
MembersOK == members \subseteq (DOMAIN albums) \X (DOMAIN assets)
Keys == ParentsOK /\ MembersOK

LEMMA KeysAreForeign == Keys <=> ForeignKeys
BY DEF Keys, ParentsOK, MembersOK, ForeignKeys, Filed, Roots

\* A sub-tree has all that is filed in it: without it deleting one would leave
\* children without parent.
LEMMA SubtreeIsClosed ==
  ASSUME NEW r, NEW a \in Filed, albums[a].parent \in Subtree(r)
  PROVE  a \in Subtree(r)
<1> DEFINE inner == Filed \cap {albums[b].parent : b \in Filed}
           closed == {S \in SUBSET inner :
                        \A b \in inner : albums[b].parent \in S \cup {r} => b \in S}
<1>1. Subtree(r) = {r} \cup {b \in Filed : \A S \in closed : albums[b].parent \in S \cup {r}}
  BY DEF Subtree
<1> HIDE DEF closed
<1>2. CASE albums[a].parent = r
  BY <1>1, <1>2
<1>3. CASE albums[a].parent # r
  <2>1. PICK b \in Filed : b = albums[a].parent
    BY <1>1, <1>3
  <2>2. \A S \in closed : albums[b].parent \in S \cup {r}
    BY <1>1, <1>3, <2>1
  <2>3. b \in inner
    BY <2>1
  <2>4. \A S \in closed : b \in S
    BY <2>2, <2>3 DEF closed
  <2> QED
    BY <1>1, <2>1, <2>4
<1> QED
  BY <1>2, <1>3

-----------------------------------------------------------------------------
(* Finding or making an album.                                              *)

\* A step that adds album rows whose parents exist.
Grown ==
  /\ DOMAIN albums \subseteq DOMAIN albums'
  /\ \A a \in DOMAIN albums : albums'[a] = albums[a]
  /\ ParentsOK => ParentsOK'

LEMMA Unchanged == ASSUME UNCHANGED <<albums, albumSeq>> PROVE Grown
BY DEF Grown, ParentsOK

LEMMA InsertAlbumGrows ==
  ASSUME AlbumsOK, NEW n, NEW p \in DOMAIN albums \cup {NULL}, NEW o, NEW h,
         InsertAlbum(n, p, o, h)
  PROVE  Grown /\ NextAlbum \in DOMAIN albums'
<1>1. PICK row : row = [name |-> n, parent |-> p, owner |-> o, hidden |-> h]
  OBVIOUS
<1>2. row.parent = p
  BY <1>1
<1>3. PICK k : k = NextAlbum
  OBVIOUS
<1>4. k \notin DOMAIN albums
  BY <1>3 DEF NextAlbum, AlbumsOK, AlbumId
<1>5. albums' = [a \in DOMAIN albums \cup {k} |-> IF a = k THEN row ELSE albums[a]]
  BY <1>1, <1>3 DEF InsertAlbum, WithAlbum, With
<1> QED
  BY <1>2, <1>3, <1>4, <1>5 DEF Grown, ParentsOK

LEMMA ChildrenAreAlbums ==
  ASSUME AlbumsOK, NEW t, NEW n, ChildrenNamed(t, n) # {}
  PROVE  Min(ChildrenNamed(t, n)) \in ChildrenNamed(t, n)
<1>1. ChildrenNamed(t, n) \in SUBSET Nat
  BY DEF ChildrenNamed, Children, AlbumsOK, AlbumId
<1> QED
  BY <1>1, MinIsLeast

LEMMA EnsureChildGrows ==
  ASSUME AlbumsOK, NEW t, NEW n, EnsureChild(t, n)
  PROVE  Grown /\ ChildAlbum(t, n) \in DOMAIN albums'
<1>1. CASE ChildrenNamed(t, n) # {}
  <2>1. Grown
    BY <1>1, Unchanged DEF EnsureChild
  <2>2. ChildAlbum(t, n) \in DOMAIN albums
    BY <1>1, ChildrenAreAlbums DEF ChildAlbum, ChildrenNamed, Children
  <2> QED
    BY <2>1, <2>2 DEF Grown
<1>2. CASE ChildrenNamed(t, n) = {}
  <2>1. PICK o, h : InsertAlbum(n, t, o, h) /\ t \in DOMAIN albums
    BY <1>2 DEF EnsureChild
  <2>2. ChildAlbum(t, n) = NextAlbum
    BY <1>2 DEF ChildAlbum
  <2> QED
    BY <2>1, <2>2, InsertAlbumGrows
<1> QED
  BY <1>1, <1>2

LEMMA ScatterIsAlbum ==
  ASSUME AlbumsOK, NEW t, ScatterBucket(t) # NULL
  PROVE  ScatterBucket(t) \in DOMAIN albums
<1>1. ASSUME NEW n, ChildrenNamed(t, n) # {}
      PROVE  Min(ChildrenNamed(t, n)) \in DOMAIN albums
  BY <1>1, ChildrenAreAlbums DEF ChildrenNamed, Children
<1> QED
  BY <1>1 DEF ScatterBucket

LEMMA EnsureBucketGrows ==
  ASSUME AlbumsOK, NEW t, EnsureBucket(t)
  PROVE  Grown /\ ParkBucket(t) \in DOMAIN albums'
<1>1. CASE ScatterBucket(t) # NULL
  BY <1>1, Unchanged, ScatterIsAlbum DEF EnsureBucket, ParkBucket, Grown
<1>2. CASE ScatterBucket(t) = NULL
  <2>1. ChildrenNamed(t, Scatter) = {}
    <3> SUFFICES ASSUME ChildrenNamed(t, Scatter) # {} PROVE FALSE
      OBVIOUS
    <3>1. Min(ChildrenNamed(t, Scatter)) \in DOMAIN albums
      BY ChildrenAreAlbums DEF ChildrenNamed, Children
    <3>2. Min(ChildrenNamed(t, Scatter)) # NULL
      BY <3>1, AlbumTyped, NullAssumption
    <3> QED
      BY <1>2, <3>2 DEF ScatterBucket
  <2> QED
    BY <1>2, <2>1, EnsureChildGrows DEF EnsureBucket, ParkBucket, ChildAlbum
<1> QED
  BY <1>1, <1>2

-----------------------------------------------------------------------------
(* One lemma per request.                                                   *)

\* A step that files photos that are there in albums that are there.
LEMMA FilingKeys ==
  ASSUME Keys, Grown, DOMAIN assets \subseteq DOMAIN assets',
         members' \subseteq members \cup ((DOMAIN albums') \X (DOMAIN assets'))
  PROVE  Keys'
BY DEF Keys, Grown, MembersOK

LEMMA InitKeys == Init => Keys
<1> SUFFICES ASSUME Init PROVE ParentsOK /\ MembersOK
  BY DEF Keys
<1>1. ParentsOK
  <2>1. CASE albums = SeedAlbums
    BY <2>1 DEF ParentsOK, SeedAlbums, SeedRow
  <2>2. CASE albums = LegacyAlbums
    BY <2>2 DEF ParentsOK, LegacyAlbums, SeedAlbums, SeedRow, PrivateRow
  <2> QED
    BY <2>1, <2>2 DEF Init
<1>2. MembersOK
  BY DEF Init, MembersOK
<1> QED
  BY <1>1, <1>2

LEMMA RegisterKeys ==
  ASSUME AlbumsOK, Keys, NEW i, Register(i)
  PROVE  Keys'
<1>1. PICK owned : owned = OwnedBy(i, Claimed)
  OBVIOUS
<1>2. DOMAIN owned = DOMAIN albums /\ \A a \in DOMAIN albums : owned[a].parent = albums[a].parent
  BY <1>1 DEF OwnedBy
<1>3. CASE Cardinality(Unclaimed) = 1
  BY <1>1, <1>2, <1>3 DEF Register, Keys, ParentsOK, MembersOK
<1>4. CASE Cardinality(Unclaimed) # 1
  <2>1. PICK k1, k2, k3, r1, r2, r3 :
          /\ k1 = albumSeq + 1 /\ k2 = albumSeq + 2 /\ k3 = albumSeq + 3
          /\ r1 = PrivateRow(Private, NULL, i)
          /\ r2 = PrivateRow(Favorites, k1, i)
          /\ r3 = PrivateRow(Scatter, k1, i)
    OBVIOUS
  <2>2. r1.parent = NULL /\ r2.parent = k1 /\ r3.parent = k1
    BY <2>1 DEF PrivateRow
  <2>3. albums' = With(With(With(owned, k1, r1), k2, r2), k3, r3)
    BY <1>1, <1>4, <2>1 DEF Register
  <2>4. PICK all : all = With(With(With(owned, k1, r1), k2, r2), k3, r3)
    OBVIOUS
  <2>5. /\ DOMAIN all = DOMAIN albums \cup {k1, k2, k3}
        /\ \A a \in DOMAIN all : \/ a \in DOMAIN albums /\ all[a] = owned[a]
                                 \/ all[a] \in {r1, r2, r3}
    BY <1>2, <2>4 DEF With
  <2>6. \A a \in DOMAIN all : all[a].parent \in DOMAIN all \cup {NULL}
    BY <1>2, <2>2, <2>5 DEF Keys, ParentsOK
  <2> QED
    BY <2>3, <2>4, <2>5, <2>6 DEF Register, Keys, ParentsOK, MembersOK
<1> QED
  BY <1>3, <1>4

LEMMA CreateAlbumKeys ==
  ASSUME AlbumsOK, Keys, NEW i, NEW n, NEW p \in Parents, NEW h, CreateAlbum(i, n, p, h)
  PROVE  Keys'
<1>1. PICK o : InsertAlbum(n, p, o, h)
  BY DEF CreateAlbum
<1>2. Grown
  BY <1>1, MovableTyped, InsertAlbumGrows
<1> QED
  BY <1>2, FilingKeys DEF CreateAlbum

LEMMA UpdateAlbumKeys ==
  ASSUME Keys, NEW a, NEW n, NEW p, NEW h, UpdateAlbum(a, n, p, h)
  PROVE  Keys'
<1>1. DOMAIN albums' = DOMAIN albums
  BY DEF UpdateAlbum
<1>2. \A b \in DOMAIN albums : albums'[b].parent \in {albums[b].parent, p}
  BY DEF UpdateAlbum
<1> QED
  BY <1>1, <1>2 DEF UpdateAlbum, Keys, ParentsOK, MembersOK

LEMMA DeleteAlbumKeys ==
  ASSUME Keys, NEW a, DeleteAlbum(a)
  PROVE  Keys'
<1>1. PICK gone : gone = Subtree(a)
  OBVIOUS
<1>2. /\ DOMAIN albums' = DOMAIN albums \ gone
      /\ \A b \in DOMAIN albums' : albums'[b] = albums[b]
  BY <1>1 DEF DeleteAlbum, Restrict
<1>3. ParentsOK'
  <2> SUFFICES ASSUME NEW b \in DOMAIN albums, b \notin gone, albums[b].parent # NULL
               PROVE  albums[b].parent \in DOMAIN albums \ gone
    BY <1>2 DEF ParentsOK
  <2>1. b \in Filed
    BY DEF Filed, Roots
  <2> QED
    BY <1>1, <2>1, SubtreeIsClosed DEF Keys, ParentsOK
<1>4. DOMAIN assets' = DOMAIN assets
  BY DEF DeleteAlbum
<1>5. members' \subseteq {m \in members : m[1] \notin gone}
  BY <1>1 DEF DeleteAlbum
<1>6. MembersOK'
  BY <1>2, <1>4, <1>5 DEF Keys, MembersOK
<1> QED
  BY <1>3, <1>6 DEF Keys

LEMMA MoveAlbumKeys ==
  ASSUME AlbumsOK, Keys, NEW i, NEW a, NEW p, MoveAlbum(i, a, p)
  PROVE  Keys'
<1>1. a \in DOMAIN albums /\ p \in DOMAIN albums \cup {NULL} /\ assets' = assets
  BY MovableTyped DEF MoveAlbum, Movable
<1>2. CASE Rehang(a, p)
  <2>1. DOMAIN albums' = DOMAIN albums
    BY <1>2 DEF Rehang
  <2>2. \A b \in DOMAIN albums : albums'[b].parent \in {albums[b].parent, p}
    BY <1>2 DEF Rehang
  <2> QED
    BY <1>1, <1>2, <2>1, <2>2 DEF Rehang, Keys, ParentsOK, MembersOK
<1>3. ASSUME NEW t \in DOMAIN albums, t # a, MergeInto(a, t) PROVE Keys'
  <2>1. /\ DOMAIN albums' = DOMAIN albums \ {a}
        /\ \A b \in DOMAIN albums' :
             albums'[b].parent = IF albums[b].parent = a THEN t ELSE albums[b].parent
    BY <1>3 DEF MergeInto
  <2>2. ParentsOK'
    BY <1>3, <2>1 DEF Keys, ParentsOK
  <2>3. MembersOK'
    BY <1>1, <1>3, <2>1 DEF Keys, MembersOK, MergeInto
  <2> QED
    BY <2>2, <2>3 DEF Keys
<1>4. CASE MergeTargets(a, p) # {}
  <2>1. MergeTargets(a, p) \in SUBSET (DOMAIN albums \ {a})
    BY DEF MergeTargets, RootsNamed, Roots, ChildrenNamed, Children
  <2>2. MergeTargets(a, p) \in SUBSET Nat
    BY <2>1 DEF AlbumsOK, AlbumId
  <2>3. Min(MergeTargets(a, p)) \in MergeTargets(a, p)
    BY <1>4, <2>2, MinIsLeast
  <2> QED
    BY <1>3, <1>4, <2>1, <2>3 DEF MoveAlbum
<1> QED
  BY <1>2, <1>4 DEF MoveAlbum

\* Linking adds the one membership at most.
LEMMA LinkedKeys ==
  ASSUME Keys, NEW a \in DOMAIN albums, NEW x \in DOMAIN assets, NEW onlyHere,
         members' = Linked(a, x, onlyHere), UNCHANGED <<albums, albumSeq, assets>>
  PROVE  Keys'
<1>1. members' \subseteq members \cup {<<a, x>>}
  BY DEF Linked
<1> QED
  BY <1>1, Unchanged, FilingKeys

LEMMA FileUploadKeys ==
  ASSUME AlbumsOK, Keys, NEW u, FileUpload(u)
  PROVE  Keys'
<1>1. CASE VisibleAlbum(u.by, u.album) /\ VisibleAsset(u.by, u.asset)
  BY <1>1, LinkedKeys DEF FileUpload, VisibleAlbum, VisibleAsset
<1>2. CASE ParkAsset(u.asset, u.album)
  <2> DEFINE t == ParkTrunk(u.album)
  <2>1. CASE u.asset \in Active /\ EnsureBucket(t)
              /\ members' = members \cup {<<ParkBucket(t), u.asset>>}
    <3>1. Grown /\ ParkBucket(t) \in DOMAIN albums'
      BY <2>1, EnsureBucketGrows
    <3> QED
      BY <2>1, <3>1, FilingKeys DEF FileUpload, Active
  <2>2. CASE UNCHANGED <<members, albums, albumSeq>>
    BY <2>2, Unchanged, FilingKeys DEF FileUpload
  <2> QED
    BY <1>2, <2>1, <2>2 DEF ParkAsset
<1> QED
  BY <1>1, <1>2 DEF FileUpload

LEMMA RemoveOrParkKeys ==
  ASSUME AlbumsOK, Keys, NEW a, NEW x, RemoveOrPark(a, x)
  PROVE  Keys'
<1>1. CASE UNCHANGED <<albums, albumSeq>> /\ members' \subseteq members
  BY <1>1, Unchanged, FilingKeys DEF RemoveOrPark
<1>2. CASE EnsureBucket(TrunkOf(a))
           /\ members' \subseteq members \cup {<<ParkBucket(TrunkOf(a)), x>>}
  <2>1. Grown /\ ParkBucket(TrunkOf(a)) \in DOMAIN albums'
    BY <1>2, EnsureBucketGrows
  <2> QED
    BY <1>2, <2>1, FilingKeys DEF RemoveOrPark, Active
<1> QED
  BY <1>1, <1>2 DEF RemoveOrPark

LEMMA RestoreAssetKeys ==
  ASSUME AlbumsOK, Keys, NEW x, RestoreAsset(x)
  PROVE  Keys'
<1>1. x \in DOMAIN assets /\ DOMAIN assets' = DOMAIN assets
  BY DEF RestoreAsset, Trashed
<1>2. PICK o : o = assets[x].trash
  OBVIOUS
<1>3. CASE o.album \in DOMAIN albums /\ UNCHANGED <<albums, albumSeq>>
           /\ members' = members \cup {<<o.album, x>>}
  BY <1>1, <1>3, Unchanged, FilingKeys
<1>4. CASE EnsureChild(o.trunk, o.name)
           /\ members' = members \cup {<<ChildAlbum(o.trunk, o.name), x>>}
  BY <1>1, <1>4, EnsureChildGrows, FilingKeys
<1>5. CASE UNCHANGED <<albums, albumSeq>>
           /\ members' = IF ScatterBucket(o.trunk) = NULL THEN members
                         ELSE members \cup {<<ScatterBucket(o.trunk), x>>}
  BY <1>1, <1>5, Unchanged, ScatterIsAlbum, FilingKeys
<1> QED
  BY <1>2, <1>3, <1>4, <1>5 DEF RestoreAsset

\* Steps that neither add a membership nor take an album away.
LEMMA LossKeys ==
  ASSUME Keys, UNCHANGED <<albums, albumSeq>>, DOMAIN assets \subseteq DOMAIN assets',
         members' \subseteq members
  PROVE  Keys'
BY Unchanged, FilingKeys

LEMMA DestroyKeys ==
  ASSUME Keys, NEW S, Destroy(S)
  PROVE  Keys'
<1>1. DOMAIN assets' = DOMAIN assets \ S /\ members' = {m \in members : m[2] \notin S}
      /\ albums' = albums
  BY DEF Destroy, Restrict
<1> QED
  BY <1>1 DEF Keys, ParentsOK, MembersOK

-----------------------------------------------------------------------------
(* Every step.                                                              *)

LEMMA RequestKeys ==
  ASSUME AlbumsOK, Keys, NEW i, Request(i)
  PROVE  Keys'
<1>1. CASE AlbumRequest(i)
  BY <1>1, CreateAlbumKeys, MoveAlbumKeys, UpdateAlbumKeys, DeleteAlbumKeys DEF AlbumRequest
<1>2. ASSUME NEW x, TrashAsset(x) PROVE Keys'
  BY <1>2, LossKeys DEF TrashAsset, Trash
<1>3. ASSUME NEW a, NEW x, RemoveOrTrash(a, x) PROVE Keys'
  BY <1>3, LossKeys DEF RemoveOrTrash, Trash
<1>4. ASSUME NEW a, NEW x, NEW o, AddAssetToAlbum(a, x, o) PROVE Keys'
  BY <1>4, LinkedKeys DEF AddAssetToAlbum
<1>5. ASSUME NEW x \in DOMAIN assets, DeleteRequest(i, x) \/ FileRequest(i, x) PROVE Keys'
  BY <1>2, <1>3, <1>4, <1>5, RemoveOrParkKeys DEF DeleteRequest, FileRequest
<1>6. CASE BinRequest(i)
  BY <1>6, RestoreAssetKeys, DestroyKeys
     DEF BinRequest, DeleteAsset, ClearTrash, PurgeExpiredTrash
<1>7. ASSUME NEW a, NEW h, StartUpload(i, a, h) PROVE Keys'
  BY <1>7, LossKeys DEF StartUpload
<1> QED
  BY <1>1, <1>5, <1>6, <1>7 DEF Request

LEMMA NextKeys ==
  ASSUME AlbumsOK, Keys, [Next]_vars
  PROVE  Keys'
<1>1. ASSUME NEW u, CreateAsset(u) PROVE Keys'
  BY <1>1, LossKeys DEF CreateAsset, With
<1>2. CASE Restart \/ UNCHANGED vars
  BY <1>2, LossKeys DEF Restart, vars
<1> QED
  BY <1>1, <1>2, RegisterKeys, RequestKeys, FileUploadKeys DEF Next

\* No request leaves a parent or a membership dangling: what store.go leaves to the
\* cascades of SQLite, and the merge of MoveAlbum does by hand, whatever the depth of
\* the tree and whoever nests albums.
THEOREM KeysHold == Spec => []ForeignKeys
<1>1. IInv => AlbumsOK
  BY DEF IInv, TypeOK, AlbumsOK
<1>2. IInv /\ Keys /\ [Next]_vars => Keys'
  BY <1>1, NextKeys
<1>3. Keys => ForeignKeys
  BY KeysAreForeign
<1> QED
  BY <1>2, <1>3, InitKeys, Inductive, PTL DEF Spec
-----------------------------------------------------------------------------
(* Trunks                                                                   *)

\* The private trunk of an identity, as TrunksKept has it.
HasTrunk(i) ==
  \E t \in Roots : {a \in RootsNamed(Private) : albums[a].owner = i} = {t} /\ HasBuckets(t)
HasShared == \E t \in Roots : RootsNamed(Shared) = {t} /\ HasBuckets(t)

\* Only those who registered own albums, so that a newcomer's trunk is its first.
Owners == \A a \in DOMAIN albums : albums[a].owner \in identities \cup {NULL}

\* The trunk of an earlier version is there until somebody registers, and is then
\* the only private one.
OldTrunk ==
  IF identities = {}
  THEN RootsNamed(Private) = Unclaimed
       /\ (Unclaimed = {} \/ \E u \in Roots : Unclaimed = {u} /\ HasBuckets(u))
  ELSE Unclaimed = {}

\* An upload is somebody's.
Uploaders == uploads # {} => identities # {}

Trunks ==
  HasShared /\ (\A i \in identities : HasTrunk(i)) /\ Owners /\ OldTrunk /\ Uploaders

\* The trunks and their buckets, and whatever else has such a name there.
Fixtures ==
  {a \in DOMAIN albums :
     /\ albums[a].name \in Builtin
     /\ a \in Roots \/ (albums[a].parent \in Roots /\ albums[albums[a].parent].name \in Builtin)}

\* What the request of somebody registered has to show: it leaves the fixtures, makes
\* no root of their names, and gives albums to nobody new.
Untouched ==
  /\ \A a \in Fixtures : a \in DOMAIN albums' /\ albums'[a] = albums[a]
  /\ \A a \in DOMAIN albums' :
       albums'[a].parent = NULL /\ albums'[a].name \in Builtin
         => a \in DOMAIN albums /\ albums'[a] = albums[a]
  /\ Owners'

LEMMA UntouchedTrunks ==
  ASSUME Trunks, Untouched, identities' = identities, identities # {}
  PROVE  Trunks'
<1>0. /\ Shared \in Builtin /\ Private \in Builtin
      /\ Favorites \in Builtin /\ Scatter \in Builtin
  BY DEF Builtin
<1>1. ASSUME NEW n \in {Shared, Private}
      PROVE  /\ RootsNamed(n)' = RootsNamed(n)
             /\ \A a \in RootsNamed(n) : albums'[a] = albums[a]
  <2>1. \A a \in RootsNamed(n) : a \in Fixtures
    BY <1>0 DEF RootsNamed, Roots, Fixtures
  <2>2. \A a \in RootsNamed(n) : a \in RootsNamed(n)' /\ albums'[a] = albums[a]
    BY <2>1 DEF Untouched, RootsNamed, Roots
  <2>3. \A a \in RootsNamed(n)' : a \in RootsNamed(n)
    BY <1>0 DEF Untouched, RootsNamed, Roots
  <2> QED
    BY <2>2, <2>3
<1>2. ASSUME NEW t, t \in RootsNamed(Shared) \/ t \in RootsNamed(Private), HasBuckets(t)
      PROVE  HasBuckets(t)'
  <2>1. t \in Roots /\ albums[t].name \in Builtin
    BY <1>0, <1>2 DEF RootsNamed
  <2>2. ASSUME NEW n \in {Favorites, Scatter}, NEW b \in ChildrenNamed(t, n)
        PROVE  b \in ChildrenNamed(t, n)'
    <3>1. b \in Fixtures
      BY <1>0, <2>1, <2>2 DEF Fixtures, ChildrenNamed, Children
    <3> QED
      BY <2>2, <3>1 DEF Untouched, ChildrenNamed, Children
  <2> QED
    BY <1>2, <2>2 DEF HasBuckets
<1>3. RootsNamed(Shared)' = RootsNamed(Shared) /\ RootsNamed(Private)' = RootsNamed(Private)
  BY <1>1
<1>4. HasShared'
  <2>1. PICK t \in Roots : RootsNamed(Shared) = {t} /\ HasBuckets(t)
    BY DEF Trunks, HasShared
  <2>2. t \in Roots' /\ RootsNamed(Shared)' = {t}
    BY <1>3, <2>1 DEF RootsNamed
  <2> QED
    BY <1>2, <2>1, <2>2 DEF HasShared
<1>5. ASSUME NEW i \in identities PROVE HasTrunk(i)'
  <2> DEFINE Own == {a \in RootsNamed(Private) : albums[a].owner = i}
  <2>1. PICK t \in Roots : Own = {t} /\ HasBuckets(t)
    BY DEF Trunks, HasTrunk
  <2>2. Own' = Own
    BY <1>1, <1>3
  <2>3. t \in RootsNamed(Private)
    BY <2>1
  <2>4. t \in Roots' /\ HasBuckets(t)'
    BY <1>2, <1>3, <2>1, <2>3 DEF RootsNamed
  <2> QED
    BY <2>1, <2>2, <2>4 DEF HasTrunk
<1>6. OldTrunk'
  BY <1>1, <1>3 DEF Trunks, OldTrunk, Unclaimed
<1> QED
  BY <1>4, <1>5, <1>6 DEF Trunks, Untouched, Uploaders

\* Rows that do not change leave everything untouched.
LEMMA SameAlbums ==
  ASSUME Trunks, UNCHANGED <<albums, albumSeq>>, identities' = identities
  PROVE  Untouched
BY DEF Trunks, Untouched, Owners, Fixtures

\* A new row with a parent, or with a name a user typed.
LEMMA InsertUntouched ==
  ASSUME AlbumsOK, Trunks, identities' = identities, NEW n, NEW p, NEW o, NEW h,
         p # NULL \/ n \notin Builtin, o \in identities \cup {NULL},
         InsertAlbum(n, p, o, h)
  PROVE  Untouched
<1>1. PICK row : row = [name |-> n, parent |-> p, owner |-> o, hidden |-> h]
  OBVIOUS
<1>2. row.name = n /\ row.parent = p /\ row.owner = o
  BY <1>1
<1>3. PICK k : k = NextAlbum
  OBVIOUS
<1>4. k \notin DOMAIN albums
  BY <1>3 DEF NextAlbum, AlbumsOK, AlbumId
<1>5. albums' = [a \in DOMAIN albums \cup {k} |-> IF a = k THEN row ELSE albums[a]]
  BY <1>1, <1>3 DEF InsertAlbum, WithAlbum, With
<1>6. Owners'
  BY <1>2, <1>5 DEF Trunks, Owners
<1> QED
  BY <1>2, <1>4, <1>5, <1>6 DEF Untouched, Fixtures

LEMMA EnsureChildUntouched ==
  ASSUME AlbumsOK, Trunks, identities' = identities, NEW t, NEW n, EnsureChild(t, n)
  PROVE  Untouched
<1>1. CASE ChildrenNamed(t, n) # {}
  BY <1>1, SameAlbums DEF EnsureChild
<1>2. CASE ChildrenNamed(t, n) = {}
  <2>1. t \in DOMAIN albums /\ InsertAlbum(n, t, albums[t].owner, albums[t].hidden)
    BY <1>2 DEF EnsureChild
  <2>2. t # NULL /\ albums[t].owner \in identities \cup {NULL}
    BY <2>1, AlbumTyped, NullAssumption DEF Trunks, Owners
  <2>3. PICK o, h : o = albums[t].owner /\ h = albums[t].hidden
    OBVIOUS
  <2> QED
    BY <2>1, <2>2, <2>3, InsertUntouched
<1> QED
  BY <1>1, <1>2

LEMMA CreateAlbumUntouched ==
  ASSUME UserName \cap Builtin = {}, AlbumsOK, Trunks, NEW i, NEW n \in UserName,
         NEW p \in Parents, NEW h, CreateAlbum(i, n, p, h)
  PROVE  Untouched
<1>1. PICK o : o = IF p = NULL THEN NULL ELSE albums[p].owner
  OBVIOUS
<1>2. o \in identities \cup {NULL}
  BY <1>1, MovableTyped DEF Trunks, Owners
<1>3. InsertAlbum(n, p, o, h)
  BY <1>1 DEF CreateAlbum
<1> QED
  BY <1>2, <1>3, InsertUntouched DEF CreateAlbum

\* Changing the row of an album that is no fixture, under a name a user typed.
LEMMA MovableUntouched ==
  ASSUME Trunks, identities' = identities, NEW a \in Movable,
         DOMAIN albums' = DOMAIN albums,
         \A b \in DOMAIN albums \ {a} : albums'[b] = albums[b],
         albums'[a].name \notin Builtin, albums'[a].owner \in identities \cup {NULL}
  PROVE  Untouched
<1>1. a \notin Fixtures
  BY DEF Movable, Fixtures
<1>2. Owners'
  BY DEF Trunks, Owners
<1> QED
  BY <1>1, <1>2 DEF Untouched, Fixtures

LEMMA UpdateAlbumUntouched ==
  ASSUME UserName \cap Builtin = {}, AlbumsOK, Trunks, NEW a, NEW n \in UserName, NEW p,
         NEW h, UpdateAlbum(a, n, p, h)
  PROVE  Untouched
<1>1. a \in Movable /\ a \in DOMAIN albums /\ identities' = identities
  BY DEF UpdateAlbum, Movable
<1>2. albums[a] \in AlbumRow
  BY <1>1 DEF AlbumsOK
<1>3. /\ DOMAIN albums' = DOMAIN albums
      /\ \A b \in DOMAIN albums \ {a} : albums'[b] = albums[b]
      /\ albums'[a].name = n /\ albums'[a].owner = albums[a].owner
  BY <1>1, <1>2 DEF UpdateAlbum, AlbumRow
<1>4. albums'[a].name \notin Builtin /\ albums'[a].owner \in identities \cup {NULL}
  BY <1>1, <1>3 DEF Trunks, Owners
<1> QED
  BY <1>1, <1>3, <1>4, MovableUntouched

\* A fixture is in no sub-tree but that of its trunk and its own.
LEMMA FixturesAreElsewhere ==
  ASSUME NEW a \in Movable, NEW b \in Fixtures
  PROVE  b \notin Subtree(a)
<1> DEFINE inner == Filed \cap {albums[c].parent : c \in Filed}
           closed == {S \in SUBSET inner :
                        \A c \in inner : albums[c].parent \in S \cup {a} => c \in S}
<1>1. Subtree(a) = {a} \cup {c \in Filed : \A S \in closed : albums[c].parent \in S \cup {a}}
  BY DEF Subtree
<1>2. inner \in closed
  OBVIOUS
<1> HIDE DEF closed
<1>3. a # b
  BY DEF Movable, Fixtures
<1>4. CASE b \in Roots
  BY <1>1, <1>3, <1>4 DEF Filed
<1>5. CASE albums[b].parent \in Roots /\ albums[albums[b].parent].name \in Builtin
  <2>1. albums[b].parent \notin inner /\ albums[b].parent # a
    BY <1>5 DEF Filed, Movable
  <2> QED
    BY <1>1, <1>2, <1>3, <2>1
<1> QED
  BY <1>4, <1>5 DEF Fixtures

LEMMA DeleteAlbumUntouched ==
  ASSUME Trunks, NEW a \in Movable, DeleteAlbum(a)
  PROVE  Untouched
<1>1. PICK gone : gone = Subtree(a)
  OBVIOUS
<1>2. /\ DOMAIN albums' = DOMAIN albums \ gone
      /\ \A b \in DOMAIN albums' : albums'[b] = albums[b]
  BY <1>1 DEF DeleteAlbum, Restrict
<1>3. \A b \in Fixtures : b \in DOMAIN albums'
  BY <1>1, <1>2, FixturesAreElsewhere DEF Fixtures
<1>4. Owners'
  BY <1>2 DEF Trunks, Owners, DeleteAlbum
<1> QED
  BY <1>2, <1>3, <1>4 DEF Untouched

LEMMA MoveAlbumUntouched ==
  ASSUME AlbumsOK, Trunks, NEW i, NEW a, NEW p, MoveAlbum(i, a, p)
  PROVE  Untouched
<1>1. /\ a \in Movable /\ a \in DOMAIN albums /\ p \in DOMAIN albums \cup {NULL}
      /\ identities' = identities
  BY MovableTyped DEF MoveAlbum, Movable
<1>2. CASE Rehang(a, p)
  <2>1. PICK o : o = IF p = NULL THEN NULL ELSE albums[p].owner
    OBVIOUS
  <2>2. albums[a] \in AlbumRow
    BY <1>1 DEF AlbumsOK
  <2>3. /\ DOMAIN albums' = DOMAIN albums
        /\ \A b \in DOMAIN albums \ {a} : albums'[b] = albums[b]
        /\ albums'[a].name = albums[a].name /\ albums'[a].owner = o
    BY <1>1, <1>2, <2>1, <2>2 DEF Rehang, AlbumRow
  <2>4. albums'[a].name \notin Builtin /\ albums'[a].owner \in identities \cup {NULL}
    BY <1>1, <2>1, <2>3 DEF Trunks, Owners, Movable
  <2> QED
    BY <1>1, <2>3, <2>4, MovableUntouched
<1>3. ASSUME NEW t \in DOMAIN albums, t # a, MergeInto(a, t) PROVE Untouched
  <2>1. /\ DOMAIN albums' = DOMAIN albums \ {a}
        /\ \A b \in DOMAIN albums' :
             albums'[b] = IF albums[b].parent = a THEN [albums[b] EXCEPT !.parent = t]
                          ELSE albums[b]
    BY <1>3 DEF MergeInto
  <2>2. ASSUME NEW b \in DOMAIN albums'
        PROVE  /\ albums'[b].owner = albums[b].owner
               /\ albums[b].parent = a => albums'[b].parent = t
    BY <2>1 DEF AlbumsOK, AlbumRow
  <2>3. t # NULL /\ a # NULL
    BY <1>1, <1>3, AlbumTyped, NullAssumption
  <2>4. Owners'
    BY <1>1, <2>1, <2>2 DEF Trunks, Owners
  <2>5. \A b \in Fixtures : b # a /\ albums[b].parent # a /\ b \in DOMAIN albums
    BY <1>1, <2>3 DEF Fixtures, Roots, Movable
  <2>6. \A b \in Fixtures : b \in DOMAIN albums' /\ albums'[b] = albums[b]
    BY <2>1, <2>5
  <2>7. \A b \in DOMAIN albums' : albums'[b].parent = NULL => albums'[b] = albums[b]
    BY <2>1, <2>2, <2>3
  <2> QED
    BY <2>1, <2>4, <2>6, <2>7 DEF Untouched
<1>4. CASE MergeTargets(a, p) # {}
  <2>1. MergeTargets(a, p) \in SUBSET (DOMAIN albums \ {a})
    BY DEF MergeTargets, RootsNamed, Roots, ChildrenNamed, Children
  <2>2. MergeTargets(a, p) \in SUBSET Nat
    BY <2>1 DEF AlbumsOK, AlbumId
  <2>3. Min(MergeTargets(a, p)) \in MergeTargets(a, p)
    BY <1>4, <2>2, MinIsLeast
  <2> QED
    BY <1>3, <1>4, <2>1, <2>3 DEF MoveAlbum
<1> QED
  BY <1>2, <1>4 DEF MoveAlbum

\* Parking and restoring make a child of an album at most.
LEMMA ParkUntouched ==
  ASSUME AlbumsOK, Trunks, NEW u, FileUpload(u)
  PROVE  Untouched
BY SameAlbums, EnsureChildUntouched DEF FileUpload, ParkAsset, EnsureBucket

LEMMA RemoveOrParkUntouched ==
  ASSUME AlbumsOK, Trunks, NEW a, NEW x, RemoveOrPark(a, x)
  PROVE  Untouched
BY SameAlbums, EnsureChildUntouched DEF RemoveOrPark, EnsureBucket

LEMMA RestoreUntouched ==
  ASSUME AlbumsOK, Trunks, NEW x, RestoreAsset(x)
  PROVE  Untouched
BY SameAlbums, EnsureChildUntouched DEF RestoreAsset

LEMMA RequestUntouched ==
  ASSUME UserName \cap Builtin = {}, AlbumsOK, Trunks, NEW i, Request(i)
  PROVE  Untouched /\ identities' = identities
<1>1. CASE AlbumRequest(i)
  <2>1. ASSUME NEW n \in UserName, NEW p \in Parents, NEW h, CreateAlbum(i, n, p, h)
        PROVE  Untouched /\ identities' = identities
    BY <2>1, CreateAlbumUntouched DEF CreateAlbum
  <2>2. ASSUME NEW a, NEW p, MoveAlbum(i, a, p)
        PROVE  Untouched /\ identities' = identities
    BY <2>2, MoveAlbumUntouched DEF MoveAlbum
  <2>3. ASSUME NEW a, NEW n \in UserName, NEW p, NEW h, UpdateAlbum(a, n, p, h)
        PROVE  Untouched /\ identities' = identities
    BY <2>3, UpdateAlbumUntouched DEF UpdateAlbum
  <2>4. ASSUME NEW a \in Movable, DeleteAlbum(a)
        PROVE  Untouched /\ identities' = identities
    BY <2>4, DeleteAlbumUntouched DEF DeleteAlbum
  <2> QED
    BY <1>1, <2>1, <2>2, <2>3, <2>4 DEF AlbumRequest
<1>2. ASSUME NEW x, DeleteRequest(i, x)
      PROVE  Untouched /\ identities' = identities
  BY <1>2, SameAlbums DEF DeleteRequest, TrashAsset, RemoveOrTrash
<1>3. ASSUME NEW x, FileRequest(i, x)
      PROVE  Untouched /\ identities' = identities
  <2>1. ASSUME NEW a, NEW o, AddAssetToAlbum(a, x, o)
        PROVE  Untouched /\ identities' = identities
    BY <2>1, SameAlbums DEF AddAssetToAlbum
  <2>2. ASSUME NEW a, RemoveOrPark(a, x)
        PROVE  Untouched /\ identities' = identities
    BY <2>2, RemoveOrParkUntouched DEF RemoveOrPark
  <2> QED
    BY <1>3, <2>1, <2>2 DEF FileRequest
<1>4. CASE BinRequest(i)
  <2>1. ASSUME NEW S, Destroy(S) PROVE Untouched /\ identities' = identities
    BY <2>1, SameAlbums DEF Destroy
  <2>2. ASSUME NEW x, RestoreAsset(x) PROVE Untouched /\ identities' = identities
    BY <2>2, RestoreUntouched DEF RestoreAsset
  <2> QED
    BY <1>4, <2>1, <2>2 DEF BinRequest, DeleteAsset, ClearTrash, PurgeExpiredTrash
<1>5. ASSUME NEW a, NEW h, StartUpload(i, a, h)
      PROVE  Untouched /\ identities' = identities
  BY <1>5, SameAlbums DEF StartUpload
<1> QED
  BY <1>1, <1>2, <1>3, <1>4, <1>5 DEF Request

LEMMA InitTrunks == Init => Trunks
<1> SUFFICES ASSUME Init PROVE Trunks
  OBVIOUS
<1> USE DEF Shared, Private, Favorites, Scatter
<1>0. NULL \notin {1, 4}
  BY NullAssumption, BoundsAssumption DEF AlbumId
<1>1. CASE albums = SeedAlbums
  <2>1. DOMAIN albums = 1..3
    BY <1>1 DEF SeedAlbums
  <2>2. /\ albums[1] = SeedRow(Shared, NULL)
        /\ albums[2] = SeedRow(Favorites, 1) /\ albums[3] = SeedRow(Scatter, 1)
    BY <1>1 DEF SeedAlbums
  <2>3. Roots = {1} /\ RootsNamed(Shared) = {1} /\ RootsNamed(Private) = {}
    BY <1>0, <2>1, <2>2 DEF Roots, RootsNamed, SeedRow
  <2>4. 2 \in ChildrenNamed(1, Favorites) /\ 3 \in ChildrenNamed(1, Scatter)
    BY <2>1, <2>2 DEF ChildrenNamed, Children, SeedRow
  <2>5. Owners
    BY <2>1, <2>2 DEF Owners, SeedRow
  <2> QED
    BY <2>3, <2>4, <2>5 DEF Init, Trunks, HasShared, HasBuckets, OldTrunk, Unclaimed, Uploaders
<1>2. CASE albums = LegacyAlbums
  <2>1. DOMAIN albums = 1..6
    BY <1>2 DEF LegacyAlbums
  <2>2. /\ albums[1] = SeedRow(Shared, NULL)
        /\ albums[2] = SeedRow(Favorites, 1) /\ albums[3] = SeedRow(Scatter, 1)
        /\ albums[4] = PrivateRow(Private, NULL, NULL)
        /\ albums[5] = PrivateRow(Favorites, 4, NULL)
        /\ albums[6] = PrivateRow(Scatter, 4, NULL)
    BY <1>2 DEF LegacyAlbums, SeedAlbums
  <2>3. Roots = {1, 4} /\ RootsNamed(Shared) = {1} /\ RootsNamed(Private) = {4}
    BY <1>0, <2>1, <2>2 DEF Roots, RootsNamed, SeedRow, PrivateRow
  <2>4. /\ 2 \in ChildrenNamed(1, Favorites) /\ 3 \in ChildrenNamed(1, Scatter)
        /\ 5 \in ChildrenNamed(4, Favorites) /\ 6 \in ChildrenNamed(4, Scatter)
    BY <2>1, <2>2 DEF ChildrenNamed, Children, SeedRow, PrivateRow
  <2>5. Owners
    BY <2>1, <2>2 DEF Owners, SeedRow, PrivateRow
  <2>6. Unclaimed = {4}
    BY <2>2, <2>3 DEF Unclaimed, PrivateRow
  <2> QED
    BY <2>3, <2>4, <2>5, <2>6 DEF Init, Trunks, HasShared, HasBuckets, OldTrunk, Uploaders
<1> QED
  BY <1>1, <1>2 DEF Init

\* A newcomer is given the trunk nobody owns, or one of its own; everybody else keeps
\* theirs.
LEMMA RegisterTrunks ==
  ASSUME AlbumsOK, Trunks, NEW i \in Identity, Register(i)
  PROVE  Trunks'
<1> USE DEF Shared, Private, Favorites, Scatter
<1>1. i \notin identities /\ identities' = identities \cup {i} /\ i # NULL
  BY NullAssumption DEF Register
<1>2. Uploaders'
  BY <1>1 DEF Uploaders
<1>3. \A a \in DOMAIN albums : albums[a].owner # i
  BY <1>1 DEF Trunks, Owners
<1>4. PICK owned : owned = OwnedBy(i, Claimed)
  OBVIOUS
<1>5. DOMAIN owned = DOMAIN albums
  BY <1>4 DEF OwnedBy
<1>6. ASSUME NEW a \in DOMAIN albums
      PROVE  /\ owned[a].parent = albums[a].parent /\ owned[a].name = albums[a].name
             /\ owned[a].owner = IF a \in Claimed THEN i ELSE albums[a].owner
  <2>1. albums[a] \in AlbumRow
    BY DEF AlbumsOK
  <2> QED
    BY <1>4, <2>1 DEF OwnedBy, AlbumRow
<1>7. CASE Unclaimed # {}
  <2>1. PICK u \in Roots : Unclaimed = {u} /\ HasBuckets(u)
    BY <1>7 DEF Trunks, OldTrunk
  <2>2. identities = {} /\ RootsNamed(Private) = {u}
    BY <1>7, <2>1 DEF Trunks, OldTrunk
  <2>3. Cardinality(Unclaimed) = 1
    BY <2>1, FS_Singleton
  <2>4. albums' = owned
    BY <1>4, <2>3 DEF Register
  <2>5. Roots' = Roots
    BY <1>5, <1>6, <2>4 DEF Roots
  <2>6. \A n : RootsNamed(n)' = RootsNamed(n)
    BY <1>6, <2>4, <2>5 DEF RootsNamed, Roots
  <2>7. \A t, n : ChildrenNamed(t, n)' = ChildrenNamed(t, n)
    BY <1>5, <1>6, <2>4 DEF ChildrenNamed, Children
  <2>8. HasShared'
    BY <2>5, <2>6, <2>7 DEF Trunks, HasShared, HasBuckets
  <2>9. u \in Claimed
    BY <2>1 DEF Claimed
  <2>10. albums'[u].owner = i
    BY <1>6, <2>1, <2>4, <2>9 DEF Roots
  <2>11. HasTrunk(i)'
    <3>1. {a \in RootsNamed(Private)' : albums'[a].owner = i} = {u}
      BY <2>2, <2>6, <2>10
    <3>2. HasBuckets(u)'
      BY <2>1, <2>7 DEF HasBuckets
    <3> QED
      BY <2>1, <2>5, <3>1, <3>2 DEF HasTrunk
  <2>12. Owners'
    BY <1>1, <1>5, <1>6, <2>4 DEF Trunks, Owners
  <2>13. OldTrunk'
    BY <1>1, <2>2, <2>6, <2>10 DEF OldTrunk, Unclaimed
  <2> QED
    BY <1>1, <1>2, <2>2, <2>8, <2>11, <2>12, <2>13 DEF Trunks
<1>8. CASE Unclaimed = {}
  <2>1. Cardinality(Unclaimed) # 1 /\ Claimed = {}
    BY <1>8, FS_EmptySet DEF Claimed
  <2>2. owned = albums
    BY <1>4, <2>1 DEF OwnedBy, AlbumsOK
  <2>3. PICK k1, k2, k3, r1, r2, r3 :
          /\ k1 = albumSeq + 1 /\ k2 = albumSeq + 2 /\ k3 = albumSeq + 3
          /\ r1 = PrivateRow(Private, NULL, i)
          /\ r2 = PrivateRow(Favorites, k1, i)
          /\ r3 = PrivateRow(Scatter, k1, i)
    OBVIOUS
  <2>4. k1 \notin DOMAIN albums /\ k2 \notin DOMAIN albums /\ k3 \notin DOMAIN albums
        /\ k1 # k2 /\ k1 # k3 /\ k2 # k3 /\ k1 \in AlbumId
    BY <2>1, <2>3, BoundsAssumption DEF AlbumsOK, AlbumId, Register
  <2>5. /\ r1.parent = NULL /\ r2.parent = k1 /\ r3.parent = k1
        /\ r1.name = Private /\ r2.name = Favorites /\ r3.name = Scatter
        /\ r1.owner = i /\ r2.owner = i /\ r3.owner = i
    BY <2>3 DEF PrivateRow
  <2>6. k1 # NULL
    BY <2>4, NullAssumption
  <2>7. albums' = With(With(With(albums, k1, r1), k2, r2), k3, r3)
    BY <1>4, <2>1, <2>2, <2>3 DEF Register
  <2>8. PICK all : all = albums'
    OBVIOUS
  <2>9. /\ DOMAIN all = DOMAIN albums \cup {k1, k2, k3}
        /\ \A a \in DOMAIN albums : all[a] = albums[a]
        /\ all[k1] = r1 /\ all[k2] = r2 /\ all[k3] = r3
    BY <2>4, <2>7, <2>8 DEF With
  <2>10. Roots' = Roots \cup {k1}
    BY <2>4, <2>5, <2>6, <2>8, <2>9 DEF Roots
  <2>11. \A a \in Roots : all[a] = albums[a] /\ a # k1
    BY <2>4, <2>9 DEF Roots
  <2>12. RootsNamed(Shared)' = RootsNamed(Shared)
    BY <2>5, <2>8, <2>9, <2>10, <2>11 DEF RootsNamed
  <2>13. RootsNamed(Private)' = RootsNamed(Private) \cup {k1}
    BY <2>5, <2>8, <2>9, <2>10, <2>11 DEF RootsNamed
  <2>14. \A t, n : ChildrenNamed(t, n) \subseteq ChildrenNamed(t, n)'
    BY <2>8, <2>9 DEF ChildrenNamed, Children
  <2>15. HasShared'
    BY <2>10, <2>12, <2>14 DEF Trunks, HasShared, HasBuckets
  <2>16. HasTrunk(i)'
    <3>1. {a \in RootsNamed(Private)' : all[a].owner = i} = {k1}
      BY <1>3, <2>5, <2>9, <2>11, <2>13 DEF RootsNamed, Roots
    <3>2. k2 \in ChildrenNamed(k1, Favorites)' /\ k3 \in ChildrenNamed(k1, Scatter)'
      BY <2>5, <2>8, <2>9 DEF ChildrenNamed, Children
    <3> QED
      BY <2>8, <2>10, <3>1, <3>2 DEF HasTrunk, HasBuckets
  <2>17. ASSUME NEW j \in identities PROVE HasTrunk(j)'
    <3>1. PICK t \in Roots :
            {a \in RootsNamed(Private) : albums[a].owner = j} = {t} /\ HasBuckets(t)
      BY DEF Trunks, HasTrunk
    <3>2. {a \in RootsNamed(Private)' : all[a].owner = j}
            = {a \in RootsNamed(Private) : albums[a].owner = j}
      BY <1>1, <2>5, <2>9, <2>11, <2>13 DEF RootsNamed
    <3> QED
      BY <2>8, <2>10, <2>14, <3>1, <3>2 DEF HasTrunk, HasBuckets
  <2>18. Owners'
    BY <1>1, <2>5, <2>8, <2>9 DEF Trunks, Owners
  <2>19. Unclaimed' = {}
    BY <1>1, <1>8, <2>5, <2>8, <2>9, <2>11, <2>13 DEF Unclaimed, RootsNamed
  <2>20. OldTrunk'
    BY <1>1, <2>19 DEF OldTrunk
  <2> QED
    BY <1>1, <1>2, <2>15, <2>16, <2>17, <2>18, <2>20 DEF Trunks
<1> QED
  BY <1>7, <1>8

LEMMA NextTrunks ==
  ASSUME UserName \cap Builtin = {}, AlbumsOK, Trunks, [Next]_vars
  PROVE  Trunks'
<1>1. ASSUME NEW i \in identities, Request(i) PROVE Trunks'
  BY <1>1, RequestUntouched, UntouchedTrunks
<1>2. ASSUME NEW u \in uploads, FileUpload(u) PROVE Trunks'
  <2>1. identities # {} /\ identities' = identities
    BY <1>2 DEF Trunks, Uploaders, FileUpload
  <2> QED
    BY <1>2, <2>1, ParkUntouched, UntouchedTrunks
<1>3. CASE UNCHANGED <<albums, identities>> /\ (uploads' # {} => uploads # {})
  BY <1>3 DEF Trunks, HasShared, HasTrunk, HasBuckets, Owners, OldTrunk, Uploaders,
              Unclaimed, RootsNamed, Roots, ChildrenNamed, Children
<1>4. ASSUME NEW u \in uploads, CreateAsset(u) PROVE Trunks'
  BY <1>3, <1>4 DEF CreateAsset
<1>5. CASE Restart \/ UNCHANGED vars
  BY <1>3, <1>5 DEF Restart, vars
<1> QED
  BY <1>1, <1>2, <1>4, <1>5, RegisterTrunks DEF Next

\* The family has one shared trunk and every identity one private trunk, each with its
\* buckets, whatever albums are made, moved, merged, patched and deleted, nested or not:
\* what api.go takes for granted whenever it looks up where an identity's photos are.
\* User names other than the built-in ones are assumed.
THEOREM TrunksAreKept == UserName \cap Builtin = {} => (Spec => []TrunksKept)
<1> SUFFICES ASSUME UserName \cap Builtin = {} PROVE Spec => []TrunksKept
  OBVIOUS
<1>1. IInv => AlbumsOK
  BY DEF IInv, TypeOK, AlbumsOK
<1>2. IInv /\ Trunks /\ [Next]_vars => Trunks'
  BY <1>1, NextTrunks
<1>3. Trunks => TrunksKept
  BY DEF Trunks, HasShared, HasTrunk, TrunksKept
<1> QED
  BY <1>2, <1>3, InitTrunks, Inductive, PTL DEF Spec

-----------------------------------------------------------------------------
(* Cycles                                                                   *)

\* Albums each of which is filed in one of them: a cycle, or what hangs on one.
Loop(C) == C \in SUBSET Filed /\ \A a \in C : albums[a].parent \in C
NoLoop == \A C : Loop(C) => C = {}

\* Acyclic without the detour over sub-trees: what no root reaches is a loop, and a
\* loop is reached by no root.
LEMMA LoopsAreCycles ==
  ASSUME ParentsOK
  PROVE  Acyclic <=> NoLoop
<1> DEFINE U == UNION {Subtree(r) : r \in Roots}
<1>1. ASSUME NoLoop PROVE Acyclic
  <2>1. \A r \in Roots : r \in U
    BY DEF Subtree
  <2>2. U \subseteq DOMAIN albums
    BY DEF Subtree, Filed, Roots
  <2>3. Loop(DOMAIN albums \ U)
    <3>1. ASSUME NEW a \in DOMAIN albums \ U
          PROVE  a \in Filed /\ albums[a].parent \in DOMAIN albums \ U
      <4>1. a \in Filed
        BY <2>1 DEF Filed
      <4>2. albums[a].parent \in DOMAIN albums
        BY <4>1 DEF ParentsOK, Filed, Roots
      <4>3. albums[a].parent \notin U
        BY <3>1, <4>1, SubtreeIsClosed
      <4> QED
        BY <4>1, <4>2, <4>3
    <3> QED
      BY <3>1 DEF Loop
  <2>4. DOMAIN albums \ U = {}
    BY <1>1, <2>3 DEF NoLoop
  <2> QED
    BY <2>2, <2>4 DEF Acyclic
<1>2. ASSUME Acyclic, NEW C, Loop(C), NEW a \in C PROVE FALSE
  <2>1. a \in Filed /\ albums[a].parent \in C /\ C \subseteq Filed
    BY <1>2 DEF Loop
  <2>2. PICK r \in Roots : a \in Subtree(r)
    BY <1>2, <2>1 DEF Acyclic, Filed
  <2> DEFINE inner == Filed \cap {albums[b].parent : b \in Filed}
             closed == {S \in SUBSET inner :
                          \A b \in inner : albums[b].parent \in S \cup {r} => b \in S}
  <2>3. Subtree(r) = {r} \cup {b \in Filed : \A S \in closed : albums[b].parent \in S \cup {r}}
    BY DEF Subtree
  <2>4. r \notin C
    BY <2>1 DEF Filed
  <2>5. inner \ C \in closed
    BY <1>2, <2>4 DEF Loop
  <2> HIDE DEF closed
  <2> QED
    BY <2>1, <2>2, <2>3, <2>4, <2>5
<1> QED
  BY <1>1, <1>2 DEF NoLoop

\* Where old rows keep their parents and nothing old hangs on a new row, there is no
\* new loop.
LEMMA LoopsAreOld ==
  ASSUME NoLoop, NEW C, Loop(C)',
         \A a \in C : a \in Filed /\ albums[a].parent = albums'[a].parent
  PROVE  C = {}
BY DEF Loop, NoLoop

LEMMA InsertNoLoop ==
  ASSUME AlbumsOK, ParentsOK, NoLoop, NEW n, NEW p \in DOMAIN albums \cup {NULL},
         NEW o, NEW h, InsertAlbum(n, p, o, h)
  PROVE  NoLoop'
<1>1. PICK row : row = [name |-> n, parent |-> p, owner |-> o, hidden |-> h]
  OBVIOUS
<1>2. PICK k : k = NextAlbum
  OBVIOUS
<1>3. k \notin DOMAIN albums /\ row.parent = p
  BY <1>1, <1>2 DEF NextAlbum, AlbumsOK, AlbumId
<1>4. albums' = [a \in DOMAIN albums \cup {k} |-> IF a = k THEN row ELSE albums[a]]
  BY <1>1, <1>2 DEF InsertAlbum, WithAlbum, With
<1> SUFFICES ASSUME NEW C, Loop(C)' PROVE C = {}
  BY DEF NoLoop
<1>5. \A a \in C : /\ a \in DOMAIN albums \cup {k}
                   /\ albums'[a].parent \in C /\ albums'[a].parent # NULL
  BY <1>4 DEF Loop, Filed, Roots
<1>6. k \notin C
  <2> SUFFICES ASSUME k \in C PROVE FALSE
    OBVIOUS
  <2>1. p \in C \ {k}
    BY <1>3, <1>4, <1>5
  <2>2. Loop(C \ {k})
    <3>1. ASSUME NEW b \in C \ {k}
          PROVE  b \in Filed /\ albums[b].parent \in C \ {k}
      <4>1. b \in DOMAIN albums /\ albums'[b] = albums[b]
        BY <1>4, <1>5
      <4>2. albums[b].parent \in C /\ albums[b].parent # NULL
        BY <1>5, <4>1
      <4>3. albums[b].parent \in DOMAIN albums
        BY <4>1, <4>2 DEF ParentsOK
      <4> QED
        BY <1>3, <4>1, <4>2, <4>3 DEF Filed, Roots
    <3> QED
      BY <3>1 DEF Loop
  <2> QED
    BY <2>1, <2>2 DEF NoLoop
<1>7. \A a \in C : a \in Filed /\ albums[a].parent = albums'[a].parent
  BY <1>4, <1>5, <1>6 DEF Filed, Roots
<1> QED
  BY <1>7, LoopsAreOld

LEMMA SameNoLoop ==
  ASSUME NoLoop, UNCHANGED <<albums, albumSeq>>
  PROVE  NoLoop'
BY DEF NoLoop, Loop, Filed, Roots

LEMMA EnsureChildNoLoop ==
  ASSUME AlbumsOK, ParentsOK, NoLoop, NEW t, NEW n, EnsureChild(t, n)
  PROVE  NoLoop'
<1>1. CASE ChildrenNamed(t, n) # {}
  BY <1>1, SameNoLoop DEF EnsureChild
<1>2. CASE ChildrenNamed(t, n) = {}
  <2>1. PICK o, h : t \in DOMAIN albums /\ InsertAlbum(n, t, o, h)
    BY <1>2 DEF EnsureChild
  <2> QED
    BY <2>1, InsertNoLoop
<1> QED
  BY <1>1, <1>2

LEMMA RegisterNoLoop ==
  ASSUME AlbumsOK, ParentsOK, NoLoop, NEW i, Register(i)
  PROVE  NoLoop'
<1> SUFFICES ASSUME NEW C, Loop(C)' PROVE C = {}
  BY DEF NoLoop
<1>0. \A a \in C : a \in DOMAIN albums' /\ albums'[a].parent \in C
                   /\ albums'[a].parent # NULL
  BY DEF Loop, Filed, Roots
<1>1. PICK owned : owned = OwnedBy(i, Claimed)
  OBVIOUS
<1>2. DOMAIN owned = DOMAIN albums /\ \A a \in DOMAIN albums : owned[a].parent = albums[a].parent
  BY <1>1 DEF OwnedBy
<1>3. CASE Cardinality(Unclaimed) = 1
  <2>1. albums' = owned
    BY <1>1, <1>3 DEF Register
  <2> QED
    BY <1>0, <1>2, <2>1, LoopsAreOld DEF Filed, Roots
<1>4. CASE Cardinality(Unclaimed) # 1
  <2>1. PICK k1, k2, k3, r1, r2, r3 :
          /\ k1 = albumSeq + 1 /\ k2 = albumSeq + 2 /\ k3 = albumSeq + 3
          /\ r1 = PrivateRow(Private, NULL, i)
          /\ r2 = PrivateRow(Favorites, k1, i)
          /\ r3 = PrivateRow(Scatter, k1, i)
    OBVIOUS
  <2>2. r1.parent = NULL /\ r2.parent = k1 /\ r3.parent = k1
    BY <2>1 DEF PrivateRow
  <2>3. /\ k1 \notin DOMAIN albums /\ k2 \notin DOMAIN albums /\ k3 \notin DOMAIN albums
        /\ k1 # k2 /\ k1 # k3 /\ k2 # k3
    BY <1>4, <2>1, BoundsAssumption DEF AlbumsOK, AlbumId, Register
  <2>4. PICK all : all = With(With(With(owned, k1, r1), k2, r2), k3, r3)
    OBVIOUS
  <2>5. albums' = all
    BY <1>1, <1>4, <2>1, <2>4 DEF Register
  <2>6. /\ DOMAIN all = DOMAIN albums \cup {k1, k2, k3}
        /\ \A a \in DOMAIN albums : all[a] = owned[a]
        /\ all[k1] = r1 /\ all[k2] = r2 /\ all[k3] = r3
    BY <1>2, <2>3, <2>4 DEF With
  <2>7. k1 \notin C /\ k2 \notin C /\ k3 \notin C
    BY <1>0, <2>2, <2>5, <2>6
  <2>8. \A a \in C : a \in DOMAIN albums /\ albums[a].parent = albums'[a].parent
    BY <1>0, <1>2, <2>5, <2>6, <2>7
  <2> QED
    BY <1>0, <2>8, LoopsAreOld DEF Filed, Roots
<1> QED
  BY <1>3, <1>4

LEMMA DeleteAlbumNoLoop ==
  ASSUME NoLoop, NEW a, DeleteAlbum(a)
  PROVE  NoLoop'
<1>1. DOMAIN albums' \subseteq DOMAIN albums /\ \A b \in DOMAIN albums' : albums'[b] = albums[b]
  BY DEF DeleteAlbum, Restrict
<1> QED
  BY <1>1, LoopsAreOld DEF NoLoop, Loop, Filed, Roots

LEMMA UpdateAlbumNoLoop ==
  ASSUME ~Patching, AlbumsOK, NoLoop, NEW a, NEW n, NEW p, NEW h, UpdateAlbum(a, n, p, h)
  PROVE  NoLoop'
<1>1. DOMAIN albums' = DOMAIN albums
      /\ \A b \in DOMAIN albums : albums'[b].parent = albums[b].parent
  BY DEF UpdateAlbum, AlbumsOK, AlbumRow
<1> QED
  BY <1>1, LoopsAreOld DEF NoLoop, Loop, Filed, Roots

\* Albums of a loop that a move makes, other than those below the album that moves,
\* were a loop before.
LEMMA LoopBesideSubtree ==
  ASSUME NoLoop, NEW a, NEW C, NEW p \in C, p \notin Subtree(a),
         \A b \in C \ {a} : \/ b \in Filed /\ albums[b].parent \in C
                            \/ b \in Filed /\ albums[b].parent = a
  PROVE  FALSE
<1>1. a \in Subtree(a)
  BY DEF Subtree
<1>2. \A b \in C \ Subtree(a) : b \in Filed /\ albums[b].parent \in C \ Subtree(a)
  BY <1>1, SubtreeIsClosed
<1>3. Loop(C \ Subtree(a))
  BY <1>2 DEF Loop
<1> QED
  BY <1>3 DEF NoLoop

LEMMA MoveAlbumNoLoop ==
  ASSUME AlbumsOK, NoLoop, NEW i, NEW a, NEW p, MoveAlbum(i, a, p)
  PROVE  NoLoop'
<1>1. a \in DOMAIN albums /\ p \in DOMAIN albums \cup {NULL}
  BY MovableTyped DEF MoveAlbum, Movable
<1>2. a # NULL
  BY <1>1, AlbumTyped, NullAssumption
<1>3. p # NULL => p \notin Subtree(a)
  BY DEF MoveAlbum
<1> SUFFICES ASSUME NEW C, Loop(C)' PROVE C = {}
  BY DEF NoLoop
<1>4. \A b \in C : b \in DOMAIN albums' /\ albums'[b].parent \in C
                   /\ albums'[b].parent # NULL
  BY DEF Loop, Filed, Roots
<1>5. CASE Rehang(a, p)
  <2>1. albums[a] \in AlbumRow /\ DOMAIN albums' = DOMAIN albums
    BY <1>1, <1>5 DEF AlbumsOK, Rehang
  <2>2. albums'[a].parent = p /\ \A b \in DOMAIN albums \ {a} : albums'[b] = albums[b]
    BY <1>1, <1>5, <2>1 DEF Rehang, AlbumRow
  <2>3. \A b \in C \ {a} : b \in Filed /\ albums[b].parent = albums'[b].parent
    BY <1>4, <2>1, <2>2 DEF Filed, Roots
  <2>4. CASE a \in C
    <3>1. p \in C /\ p # NULL
      BY <1>4, <2>2, <2>4
    <3> QED
      BY <1>3, <1>4, <2>3, <3>1, LoopBesideSubtree
  <2>5. CASE a \notin C
    BY <2>3, <2>5, LoopsAreOld
  <2> QED
    BY <2>4, <2>5
<1>6. ASSUME NEW t \in MergeTargets(a, p), MergeInto(a, t) PROVE C = {}
  <2>1. /\ t \in DOMAIN albums \ {a}
        /\ albums[t].parent = p
    BY DEF MergeTargets, RootsNamed, Roots, ChildrenNamed, Children
  <2>2. /\ DOMAIN albums' = DOMAIN albums \ {a}
        /\ \A b \in DOMAIN albums' :
             albums'[b].parent = IF albums[b].parent = a THEN t ELSE albums[b].parent
    BY <1>6 DEF MergeInto
  <2>3. \A b \in C : b \in Filed /\ b # a
    BY <1>2, <1>4, <2>2 DEF Filed, Roots
  <2>4. CASE t \notin C
    <3>1. \A b \in C : albums[b].parent = albums'[b].parent
      BY <1>4, <2>2, <2>4
    <3> QED
      BY <2>3, <3>1, LoopsAreOld
  <2>5. CASE t \in C
    <3>1. a \in Subtree(a)
      BY DEF Subtree
    <3>2. p # a
      BY <1>2, <1>3, <3>1
    <3>3. p \in C /\ p # NULL
      BY <1>4, <2>1, <2>2, <2>5, <3>2
    <3>4. \A b \in C \ {a} : b \in Filed /\ (albums[b].parent \in C \/ albums[b].parent = a)
      BY <1>4, <2>2, <2>3
    <3> QED
      BY <1>3, <3>3, <3>4, LoopBesideSubtree
  <2> QED
    BY <2>4, <2>5
<1>7. CASE MergeTargets(a, p) # {}
  <2>1. MergeTargets(a, p) \in SUBSET (DOMAIN albums \ {a})
    BY DEF MergeTargets, RootsNamed, Roots, ChildrenNamed, Children
  <2>2. MergeTargets(a, p) \in SUBSET Nat
    BY <2>1 DEF AlbumsOK, AlbumId
  <2>3. Min(MergeTargets(a, p)) \in MergeTargets(a, p)
    BY <1>7, <2>2, MinIsLeast
  <2> QED
    BY <1>6, <1>7, <2>3 DEF MoveAlbum
<1> QED
  BY <1>5, <1>7 DEF MoveAlbum

LEMMA RequestNoLoop ==
  ASSUME ~Patching, AlbumsOK, ParentsOK, NoLoop, NEW i, Request(i)
  PROVE  NoLoop'
<1>1. CASE AlbumRequest(i)
  <2>1. ASSUME NEW n, NEW p \in Parents, NEW h, CreateAlbum(i, n, p, h) PROVE NoLoop'
    <3>1. PICK o : InsertAlbum(n, p, o, h)
      BY <2>1 DEF CreateAlbum
    <3> QED
      BY <3>1, MovableTyped, InsertNoLoop
  <2> QED
    BY <1>1, <2>1, MoveAlbumNoLoop, UpdateAlbumNoLoop, DeleteAlbumNoLoop DEF AlbumRequest
<1>2. ASSUME NEW x, DeleteRequest(i, x) PROVE NoLoop'
  BY <1>2, SameNoLoop DEF DeleteRequest, TrashAsset, RemoveOrTrash
<1>3. ASSUME NEW x, FileRequest(i, x) PROVE NoLoop'
  <2>1. ASSUME NEW a, NEW o, AddAssetToAlbum(a, x, o) PROVE NoLoop'
    BY <2>1, SameNoLoop DEF AddAssetToAlbum
  <2>2. ASSUME NEW a, RemoveOrPark(a, x) PROVE NoLoop'
    BY <2>2, SameNoLoop, EnsureChildNoLoop DEF RemoveOrPark, EnsureBucket
  <2> QED
    BY <1>3, <2>1, <2>2 DEF FileRequest
<1>4. CASE BinRequest(i)
  <2>1. ASSUME NEW S, Destroy(S) PROVE NoLoop'
    BY <2>1, SameNoLoop DEF Destroy
  <2>2. ASSUME NEW x, RestoreAsset(x) PROVE NoLoop'
    BY <2>2, SameNoLoop, EnsureChildNoLoop DEF RestoreAsset
  <2> QED
    BY <1>4, <2>1, <2>2 DEF BinRequest, DeleteAsset, ClearTrash, PurgeExpiredTrash
<1>5. ASSUME NEW a, NEW h, StartUpload(i, a, h) PROVE NoLoop'
  BY <1>5, SameNoLoop DEF StartUpload
<1> QED
  BY <1>1, <1>2, <1>3, <1>4, <1>5 DEF Request

LEMMA NextNoLoop ==
  ASSUME ~Patching, AlbumsOK, ParentsOK, NoLoop, [Next]_vars
  PROVE  NoLoop'
<1>1. ASSUME NEW u, CreateAsset(u) PROVE NoLoop'
  BY <1>1, SameNoLoop DEF CreateAsset
<1>2. ASSUME NEW u, FileUpload(u) PROVE NoLoop'
  BY <1>2, SameNoLoop, EnsureChildNoLoop DEF FileUpload, ParkAsset, EnsureBucket
<1>3. CASE Restart \/ UNCHANGED vars
  BY <1>3, SameNoLoop DEF Restart, vars
<1> QED
  BY <1>1, <1>2, <1>3, RegisterNoLoop, RequestNoLoop DEF Next

LEMMA InitNoLoop == Init => NoLoop
<1> SUFFICES ASSUME Init, NEW C, Loop(C) PROVE C = {}
  BY DEF NoLoop
<1>1. \A a \in C : a \in Filed /\ albums[a].parent \in C \cap Filed
  BY DEF Loop
<1>2. \A a \in Filed : albums[a].parent \in Roots
  <2>0. NULL \notin {1, 4}
    BY NullAssumption, BoundsAssumption DEF AlbumId
  <2>1. CASE albums = SeedAlbums
    BY <2>0, <2>1 DEF SeedAlbums, SeedRow, Filed, Roots
  <2>2. CASE albums = LegacyAlbums
    BY <2>0, <2>2 DEF LegacyAlbums, SeedAlbums, SeedRow, PrivateRow, Filed, Roots
  <2> QED
    BY <2>1, <2>2 DEF Init
<1> QED
  BY <1>1, <1>2 DEF Filed

\* As long as nobody re-parents an album by PATCH, no sequence of moves and merges closes
\* a chain of parents on itself, at any depth of nesting: the climb of MoveAlbum
\* (store.go) refuses enough, and the queries that climb or descend always end.
THEOREM TreesStayTrees == ~Patching => (Spec => []Acyclic)
<1> SUFFICES ASSUME ~Patching PROVE Spec => []Acyclic
  OBVIOUS
<1>1. IInv => AlbumsOK
  BY DEF IInv, TypeOK, AlbumsOK
<1>2. IInv /\ Keys /\ [Next]_vars => Keys'
  BY <1>1, NextKeys
<1>3. IInv /\ Keys /\ NoLoop /\ [Next]_vars => NoLoop'
  BY <1>1, NextNoLoop DEF Keys
<1>4. Keys /\ NoLoop => Acyclic
  BY LoopsAreCycles DEF Keys
<1> QED
  BY <1>2, <1>3, <1>4, InitKeys, InitNoLoop, Inductive, PTL DEF Spec

-----------------------------------------------------------------------------
(* Where the photos in the bin come from.                                   *)

\* A step leaves a photo's place in the bin alone, makes a photo outside it, records
\* an album that was there of a photo in albums, or restores the photo.
BinStep ==
  \A x \in DOMAIN assets' :
    \/ x \in DOMAIN assets /\ assets'[x].trash = assets[x].trash
    \/ x \notin DOMAIN assets /\ assets'[x].trash = NULL
    \/ Held(x) # {} /\ \E b \in DOMAIN albums : assets'[x].trash = TrashOrigin(b)
    \/ RestoreAsset(x)

\* A name is recorded of every photo in the bin.
NamedOrigins == \A x \in Trashed : assets[x].trash.name # NULL

LEMMA SamePhotos == ASSUME UNCHANGED assets PROVE BinStep
BY DEF BinStep

LEMMA OriginIsNamed ==
  ASSUME AlbumsOK, NEW b \in DOMAIN albums
  PROVE  TrashOrigin(b).name # NULL /\ TrashOrigin(b) # NULL
<1>1. TrashOrigin(b) \in Origin
  BY TrashOriginType
<1>2. TrashOrigin(b).name = albums[b].name /\ albums[b].name \in AlbumName
  BY AlbumTyped DEF TrashOrigin
<1> QED
  BY <1>1, <1>2, NullAssumption DEF Origin

LEMMA NamedStep ==
  ASSUME IInv, AlbumsOK, NamedOrigins, BinStep
  PROVE  NamedOrigins'
<1> SUFFICES ASSUME NEW x \in DOMAIN assets', assets'[x].trash # NULL
             PROVE  assets'[x].trash.name # NULL
  BY DEF NamedOrigins, Trashed
<1>1. CASE x \in DOMAIN assets /\ assets'[x].trash = assets[x].trash
  BY <1>1 DEF NamedOrigins, Trashed
<1>2. CASE \E b \in DOMAIN albums : assets'[x].trash = TrashOrigin(b)
  BY <1>2, OriginIsNamed
<1>3. CASE RestoreAsset(x)
  <2>1. x \in DOMAIN assets /\ assets[x] \in AssetRow
    BY <1>3 DEF RestoreAsset, Trashed, IInv, TypeOK
  <2>2. assets'[x] = [assets[x] EXCEPT !.trash = NULL]
    BY <1>3, <2>1 DEF RestoreAsset
  <2> QED
    BY <2>1, <2>2 DEF AssetRow
<1> QED
  BY <1>1, <1>2, <1>3 DEF BinStep

\* What is recorded of an active photo in some album.
LEMMA SourceIsAlbum ==
  ASSUME AlbumsOK, NEW x, Held(x) # {}
  PROVE  \E b \in Held(x) : b \in DOMAIN albums /\ SourceAlbum(x) = TrashOrigin(b)
<1> DEFINE real == {a \in Held(x) : albums[a].name # Favorites}
           S == IF real # {} THEN real ELSE Held(x)
<1>1. S # {} /\ S \subseteq DOMAIN albums
  BY DEF Held
<1>2. S \in SUBSET Nat
  BY <1>1 DEF AlbumsOK, AlbumId
<1>3. Min(S) \in Held(x) /\ Min(S) \in DOMAIN albums
  BY <1>1, <1>2, MinIsLeast
<1>4. SourceAlbum(x) = TrashOrigin(Min(S))
  BY DEF SourceAlbum
<1> QED
  BY <1>3, <1>4

LEMMA TrashBin ==
  ASSUME IInv, NEW x \in DOMAIN assets, NEW b \in DOMAIN albums, Trash(x, TrashOrigin(b)),
         Held(x) # {}
  PROVE  BinStep
<1>1. PICK o : o = TrashOrigin(b)
  OBVIOUS
<1>2. \A y \in DOMAIN assets : assets[y] \in AssetRow
  BY DEF IInv, TypeOK
<1>3. DOMAIN assets' = DOMAIN assets
  BY DEF Trash
<1>4. \A y \in DOMAIN assets :
        assets'[y].trash = IF y = x THEN o ELSE assets[y].trash
  BY <1>1, <1>2 DEF Trash, AssetRow
<1> QED
  BY <1>1, <1>3, <1>4 DEF BinStep

LEMMA TrashAssetBin ==
  ASSUME IInv, NEW i, NEW x, VisibleAsset(i, x), TrashAsset(x)
  PROVE  BinStep
<1>1. AlbumsOK /\ Held(x) # {}
  BY DEF IInv, TypeOK, AlbumsOK, VisibleAsset, TrashAsset, Active
<1>2. PICK b \in DOMAIN albums : SourceAlbum(x) = TrashOrigin(b)
  BY <1>1, SourceIsAlbum
<1>3. x \in DOMAIN assets /\ Trash(x, TrashOrigin(b))
  BY <1>2 DEF TrashAsset, Active
<1> QED
  BY <1>1, <1>3, TrashBin

LEMMA RemoveOrTrashBin ==
  ASSUME IInv, NEW a \in DOMAIN albums, NEW x, RemoveOrTrash(a, x)
  PROVE  BinStep
<1>1. x \in DOMAIN assets /\ Held(x) # {}
  BY DEF RemoveOrTrash, Active, Held
<1> QED
  BY <1>1, SamePhotos, TrashBin DEF RemoveOrTrash

LEMMA DeleteAlbumBin ==
  ASSUME IInv, NEW a \in DOMAIN albums, albums[a].parent # NULL, DeleteAlbum(a)
  PROVE  BinStep
<1>1. PICK o : o = TrashOrigin(a)
  OBVIOUS
<1>2. PICK orphans :
        /\ \A x \in orphans : Held(x) # {}
        /\ assets' = [x \in DOMAIN assets |->
                     IF x \in orphans THEN [assets[x] EXCEPT !.trash = o] ELSE assets[x]]
  BY <1>1 DEF DeleteAlbum, OrphanedMembers
<1>3. \A x \in DOMAIN assets : assets[x] \in AssetRow
  BY DEF IInv, TypeOK
<1>4. \A x \in DOMAIN assets :
        assets'[x].trash = IF x \in orphans THEN o ELSE assets[x].trash
  BY <1>2, <1>3 DEF AssetRow
<1>5. DOMAIN assets' = DOMAIN assets
  BY <1>2
<1> QED
  BY <1>1, <1>2, <1>4, <1>5 DEF BinStep

LEMMA RestoreBin ==
  ASSUME NEW x, RestoreAsset(x)
  PROVE  BinStep
<1>1. DOMAIN assets' = DOMAIN assets /\ \A y \in DOMAIN assets \ {x} : assets'[y] = assets[y]
  BY DEF RestoreAsset
<1> QED
  BY <1>1 DEF BinStep

LEMMA DestroyBin ==
  ASSUME NEW S, Destroy(S)
  PROVE  BinStep
<1>1. DOMAIN assets' \subseteq DOMAIN assets /\ \A y \in DOMAIN assets' : assets'[y] = assets[y]
  BY DEF Destroy, Restrict
<1> QED
  BY <1>1 DEF BinStep

LEMMA CreateAssetBin ==
  ASSUME IInv, NEW u, CreateAsset(u)
  PROVE  BinStep
<1>1. PICK k, row : k = assetSeq + 1 /\ row = [hash |-> u.hash, trash |-> NULL]
  OBVIOUS
<1>2. row.trash = NULL
  BY <1>1
<1>3. k \notin DOMAIN assets
  BY <1>1 DEF IInv, TypeOK
<1>4. assets' = [y \in DOMAIN assets \cup {k} |-> IF y = k THEN row ELSE assets[y]]
  BY <1>1 DEF CreateAsset, With
<1> QED
  BY <1>2, <1>3, <1>4 DEF BinStep

LEMMA RequestBin ==
  ASSUME IInv, NEW i, Request(i)
  PROVE  BinStep
<1>1. CASE AlbumRequest(i)
  <2>1. ASSUME NEW n, NEW p, NEW h, CreateAlbum(i, n, p, h) PROVE BinStep
    BY <2>1, SamePhotos DEF CreateAlbum
  <2>2. ASSUME NEW a, NEW p, MoveAlbum(i, a, p) PROVE BinStep
    BY <2>2, SamePhotos DEF MoveAlbum
  <2>3. ASSUME NEW a, NEW n, NEW p, NEW h, UpdateAlbum(a, n, p, h) PROVE BinStep
    BY <2>3, SamePhotos DEF UpdateAlbum
  <2> QED
    BY <1>1, <2>1, <2>2, <2>3, DeleteAlbumBin DEF AlbumRequest
<1>2. ASSUME NEW x, DeleteRequest(i, x) PROVE BinStep
  BY <1>2, TrashAssetBin, RemoveOrTrashBin DEF DeleteRequest
<1>3. ASSUME NEW x, FileRequest(i, x) PROVE BinStep
  <2>1. ASSUME NEW a, NEW o, AddAssetToAlbum(a, x, o) PROVE BinStep
    BY <2>1, SamePhotos DEF AddAssetToAlbum
  <2>2. ASSUME NEW a, RemoveOrPark(a, x) PROVE BinStep
    BY <2>2, SamePhotos DEF RemoveOrPark
  <2> QED
    BY <1>3, <2>1, <2>2 DEF FileRequest
<1>4. CASE BinRequest(i)
  BY <1>4, RestoreBin, DestroyBin
     DEF BinRequest, DeleteAsset, ClearTrash, PurgeExpiredTrash
<1>5. ASSUME NEW a, NEW h, StartUpload(i, a, h) PROVE BinStep
  BY <1>5, SamePhotos DEF StartUpload
<1> QED
  BY <1>1, <1>2, <1>3, <1>4, <1>5 DEF Request

LEMMA NextBin ==
  ASSUME IInv, [Next]_vars
  PROVE  BinStep
<1>1. ASSUME NEW i, Register(i) PROVE BinStep
  BY <1>1, SamePhotos DEF Register
<1>2. ASSUME NEW u, FileUpload(u) PROVE BinStep
  BY <1>2, SamePhotos DEF FileUpload
<1>3. CASE Restart \/ UNCHANGED vars
  BY <1>3, SamePhotos DEF Restart, vars
<1> QED
  BY <1>1, <1>2, <1>3, RequestBin, CreateAssetBin DEF Next

\* A photo comes out of the bin by a restore alone, which has an album to put it in.
LEMMA FiledAgain ==
  ASSUME IInv, NamedOrigins, [Next]_vars, NEW x \in Trashed, x \in Active'
  PROVE  Held(x)' # {}
<1>1. AlbumsOK
  BY DEF IInv, TypeOK, AlbumsOK
<1>2. x \in DOMAIN assets' /\ assets'[x].trash = NULL
  BY DEF Active, Trashed
<1>3. RestoreAsset(x)
  BY <1>1, <1>2, NextBin, OriginIsNamed DEF BinStep, Trashed
<1>4. PICK o : o = assets[x].trash /\ o.name # NULL
  BY DEF NamedOrigins
<1>5. CASE o.album \in DOMAIN albums
  <2>1. albums' = albums /\ <<o.album, x>> \in members'
    BY <1>3, <1>4, <1>5 DEF RestoreAsset
  <2> QED
    BY <1>5, <2>1 DEF Held
<1>6. CASE o.album \notin DOMAIN albums
  <2>1. PICK b : b = ChildAlbum(o.trunk, o.name)
    OBVIOUS
  <2>2. EnsureChild(o.trunk, o.name) /\ <<b, x>> \in members'
    BY <1>3, <1>4, <1>6, <2>1 DEF RestoreAsset
  <2>3. b \in DOMAIN albums'
    BY <1>1, <2>1, <2>2, EnsureChildGrows
  <2> QED
    BY <2>2, <2>3 DEF Held
<1> QED
  BY <1>5, <1>6

LEMMA NamedAlways == Spec => []NamedOrigins
<1>1. Init => NamedOrigins
  BY DEF Init, NamedOrigins, Trashed
<1>2. IInv /\ NamedOrigins /\ [Next]_vars => NamedOrigins'
  <2>1. IInv => AlbumsOK
    BY DEF IInv, TypeOK, AlbumsOK
  <2> QED
    BY <2>1, NextBin, NamedStep
<1> QED
  BY <1>1, <1>2, Inductive, PTL DEF Spec

\* A photo that leaves the bin alive is in an album again, whatever became meanwhile of
\* the album it was deleted from (store.go RestoreAsset), albums nested or not.
THEOREM RestoresAreFiled == Spec => RestoredIsFiled
<1>1. IInv /\ NamedOrigins /\ [Next]_vars
        => [\A x \in Trashed : x \in Active' => Held(x)' # {}]_vars
  BY FiledAgain
<1> QED
  BY <1>1, Inductive, NamedAlways, PTL DEF Spec, RestoredIsFiled

-----------------------------------------------------------------------------
(* The bundled client                                                       *)

\* Albums are children of trunks, and belong to whoever the trunk belongs to; what is
\* in the bin came from a trunk.
FlatTree ==
  /\ \A a \in Roots : albums[a].name \in Builtin
  /\ \A a \in Filed : /\ albums[a].parent \in Roots
                      /\ albums[a].owner = albums[albums[a].parent].owner
FlatBin == \A x \in Trashed : assets[x].trash.trunk \in Roots
Flat == FlatTree /\ FlatBin

\* A request leaves the trunks as they are, and every other album in one.
FlatStep ==
  /\ \A a \in Roots : a \in DOMAIN albums' /\ albums'[a] = albums[a]
  /\ \A a \in DOMAIN albums' : a \notin Roots =>
        /\ albums'[a].parent \in Roots
        /\ albums'[a].owner = albums[albums'[a].parent].owner

LEMMA FlatStepTree ==
  ASSUME AlbumsOK, FlatTree, FlatStep
  PROVE  FlatTree' /\ Roots' = Roots
<1>1. \A a \in Roots : a # NULL
  BY AlbumTyped, NullAssumption DEF Roots
<1>2. Roots' = Roots
  BY <1>1 DEF FlatStep, Roots
<1> QED
  BY <1>2 DEF FlatStep, FlatTree, Filed, Roots

LEMMA TrunkIsRoot ==
  ASSUME FlatTree, NEW a \in DOMAIN albums
  PROVE  TrunkOf(a) \in Roots
BY DEF FlatTree, TrunkOf, Filed, Roots

LEMMA FlatStepBin ==
  ASSUME IInv, Flat, BinStep, Roots' = Roots
  PROVE  FlatBin'
<1> SUFFICES ASSUME NEW x \in DOMAIN assets', assets'[x].trash # NULL
             PROVE  assets'[x].trash.trunk \in Roots
  BY DEF FlatBin, Trashed
<1>1. CASE x \in DOMAIN assets /\ assets'[x].trash = assets[x].trash
  BY <1>1 DEF Flat, FlatBin, Trashed
<1>2. CASE \E b \in DOMAIN albums : assets'[x].trash = TrashOrigin(b)
  BY <1>2, TrunkIsRoot DEF Flat, TrashOrigin
<1>3. CASE RestoreAsset(x)
  <2>1. x \in DOMAIN assets /\ assets[x] \in AssetRow
    BY <1>3 DEF RestoreAsset, Trashed, IInv, TypeOK
  <2>2. assets'[x] = [assets[x] EXCEPT !.trash = NULL]
    BY <1>3, <2>1 DEF RestoreAsset
  <2> QED
    BY <2>1, <2>2 DEF AssetRow
<1> QED
  BY <1>1, <1>2, <1>3 DEF BinStep

LEMMA FlatSame ==
  ASSUME FlatTree, UNCHANGED <<albums, albumSeq>>
  PROVE  FlatStep
BY DEF FlatTree, FlatStep, Filed, Roots

LEMMA InsertFlat ==
  ASSUME AlbumsOK, FlatTree, NEW n, NEW p \in Roots, NEW h,
         InsertAlbum(n, p, albums[p].owner, h)
  PROVE  FlatStep
<1>1. PICK o, row : /\ o = albums[p].owner
                    /\ row = [name |-> n, parent |-> p, owner |-> o, hidden |-> h]
  OBVIOUS
<1>2. row.parent = p /\ row.owner = albums[p].owner
  BY <1>1
<1>3. PICK k : k = NextAlbum
  OBVIOUS
<1>4. k \notin DOMAIN albums
  BY <1>3 DEF NextAlbum, AlbumsOK, AlbumId
<1>5. albums' = [a \in DOMAIN albums \cup {k} |-> IF a = k THEN row ELSE albums[a]]
  BY <1>1, <1>3 DEF InsertAlbum, WithAlbum, With
<1> QED
  BY <1>2, <1>4, <1>5 DEF FlatTree, FlatStep, Filed, Roots

LEMMA EnsureChildFlat ==
  ASSUME AlbumsOK, FlatTree, NEW t \in Roots, NEW n, EnsureChild(t, n)
  PROVE  FlatStep
BY FlatSame, InsertFlat DEF EnsureChild

LEMMA EnsureBucketFlat ==
  ASSUME AlbumsOK, FlatTree, NEW t \in Roots, EnsureBucket(t)
  PROVE  FlatStep
BY FlatSame, EnsureChildFlat DEF EnsureBucket

\* Without nesting a child is all a request can make.
LEMMA CreateAlbumFlat ==
  ASSUME ~Nesting, AlbumsOK, FlatTree, NEW i, NEW n, NEW p \in Parents, NEW h,
         CreateAlbum(i, n, p, h)
  PROVE  FlatStep
<1>1. p \in Roots
  BY DEF Parents
<1>2. p # NULL
  BY <1>1, AlbumTyped, NullAssumption DEF Roots
<1>3. InsertAlbum(n, p, albums[p].owner, h)
  BY <1>2 DEF CreateAlbum
<1> QED
  BY <1>1, <1>3, InsertFlat

\* Changing the row of an album that is no trunk, its parent a trunk.
LEMMA MovableFlat ==
  ASSUME FlatTree, NEW a \in Movable, DOMAIN albums' = DOMAIN albums,
         \A b \in DOMAIN albums \ {a} : albums'[b] = albums[b],
         albums'[a].parent \in Roots,
         albums'[a].owner = albums[albums'[a].parent].owner
  PROVE  FlatStep
<1>1. a \notin Roots
  BY DEF FlatTree, Movable
<1> QED
  BY <1>1 DEF FlatTree, FlatStep, Filed, Roots

LEMMA UpdateAlbumFlat ==
  ASSUME ~Patching, AlbumsOK, FlatTree, NEW a, NEW n, NEW p, NEW h, UpdateAlbum(a, n, p, h)
  PROVE  FlatStep
<1>1. a \in Movable /\ a \in DOMAIN albums /\ a \notin Roots /\ p = albums[a].parent
  BY DEF UpdateAlbum, Movable, FlatTree
<1>2. albums[a] \in AlbumRow
  BY <1>1 DEF AlbumsOK
<1>3. /\ DOMAIN albums' = DOMAIN albums
      /\ \A b \in DOMAIN albums \ {a} : albums'[b] = albums[b]
      /\ albums'[a].parent = albums[a].parent /\ albums'[a].owner = albums[a].owner
  BY <1>1, <1>2 DEF UpdateAlbum, AlbumRow
<1>4. albums[a].parent \in Roots /\ albums[a].owner = albums[albums[a].parent].owner
  BY <1>1 DEF FlatTree, Filed
<1> QED
  BY <1>1, <1>3, <1>4, MovableFlat

LEMMA DeleteAlbumFlat ==
  ASSUME FlatTree, NEW a \in Movable, DeleteAlbum(a)
  PROVE  FlatStep
<1>1. PICK gone : gone = Subtree(a)
  OBVIOUS
<1>2. /\ DOMAIN albums' = DOMAIN albums \ gone
      /\ \A b \in DOMAIN albums' : albums'[b] = albums[b]
  BY <1>1 DEF DeleteAlbum, Restrict
<1>3. \A b \in Roots : b \in Fixtures /\ b \in DOMAIN albums
  BY DEF FlatTree, Fixtures, Roots
<1>4. \A b \in Roots : b \in DOMAIN albums'
  BY <1>1, <1>2, <1>3, FixturesAreElsewhere
<1> QED
  BY <1>2, <1>4 DEF FlatTree, FlatStep, Filed, Roots

\* An album that moves to a trunk has no sub-albums that stay behind with another owner.
LEMMA MoveAlbumFlat ==
  ASSUME ~Nesting, AlbumsOK, FlatTree, NEW i, NEW a, NEW p, MoveAlbum(i, a, p)
  PROVE  FlatStep
<1>1. a \in Movable /\ a \in DOMAIN albums /\ a \notin Roots /\ p \in Roots
  BY DEF MoveAlbum, Movable, Parents, FlatTree
<1>2. p # NULL
  BY <1>1, AlbumTyped, NullAssumption DEF Roots
<1>3. CASE Rehang(a, p)
  <2>1. PICK o : o = albums[p].owner
    OBVIOUS
  <2>2. albums[a] \in AlbumRow
    BY <1>1 DEF AlbumsOK
  <2>3. /\ DOMAIN albums' = DOMAIN albums
        /\ \A b \in DOMAIN albums \ {a} : albums'[b] = albums[b]
        /\ albums'[a].parent = p /\ albums'[a].owner = o
    BY <1>1, <1>2, <1>3, <2>1, <2>2 DEF Rehang, AlbumRow
  <2> QED
    BY <1>1, <2>1, <2>3, MovableFlat
<1>4. ASSUME NEW t, MergeInto(a, t) PROVE FlatStep
  <2>1. \A b \in DOMAIN albums : albums[b].parent # a
    <3>1. a # NULL
      BY <1>1, AlbumTyped, NullAssumption
    <3> QED
      BY <1>1, <3>1 DEF FlatTree, Filed, Roots
  <2>2. /\ DOMAIN albums' = DOMAIN albums \ {a}
        /\ \A b \in DOMAIN albums' : albums'[b] = albums[b]
    BY <1>4, <2>1 DEF MergeInto
  <2> QED
    BY <1>1, <2>2 DEF FlatTree, FlatStep, Filed, Roots
<1> QED
  BY <1>3, <1>4 DEF MoveAlbum

LEMMA FileUploadFlat ==
  ASSUME AlbumsOK, FlatTree, NEW u, FileUpload(u)
  PROVE  FlatStep
<1>1. CASE UNCHANGED <<albums, albumSeq>>
  BY <1>1, FlatSame
<1>2. CASE EnsureBucket(ParkTrunk(u.album)) /\ ParkTrunk(u.album) # NULL
  <2>1. CASE u.album \in DOMAIN albums
    BY <1>2, <2>1, TrunkIsRoot, EnsureBucketFlat DEF ParkTrunk
  <2>2. CASE u.album \notin DOMAIN albums
    <3>1. RootsNamed(Shared) # {} /\ ParkTrunk(u.album) = Min(RootsNamed(Shared))
      BY <1>2, <2>2 DEF ParkTrunk
    <3>2. RootsNamed(Shared) \in SUBSET Nat
      BY DEF RootsNamed, Roots, AlbumsOK, AlbumId
    <3>3. Min(RootsNamed(Shared)) \in Roots
      BY <3>1, <3>2, MinIsLeast DEF RootsNamed
    <3> QED
      BY <1>2, <3>1, <3>3, EnsureBucketFlat
  <2> QED
    BY <2>1, <2>2
<1> QED
  BY <1>1, <1>2 DEF FileUpload, ParkAsset

LEMMA RestoreFlat ==
  ASSUME AlbumsOK, Flat, NEW x, RestoreAsset(x)
  PROVE  FlatStep
<1>1. assets[x].trash.trunk \in Roots /\ FlatTree
  BY DEF Flat, FlatBin, RestoreAsset
<1> QED
  BY <1>1, FlatSame, EnsureChildFlat DEF RestoreAsset

LEMMA RequestFlat ==
  ASSUME ~Nesting, ~Patching, AlbumsOK, Flat, NEW i, Request(i)
  PROVE  FlatStep
<1>0. FlatTree
  BY DEF Flat
<1>1. CASE AlbumRequest(i)
  BY <1>0, <1>1, CreateAlbumFlat, MoveAlbumFlat, UpdateAlbumFlat, DeleteAlbumFlat
     DEF AlbumRequest
<1>2. ASSUME NEW x, DeleteRequest(i, x) PROVE FlatStep
  BY <1>0, <1>2, FlatSame DEF DeleteRequest, TrashAsset, RemoveOrTrash
<1>3. ASSUME NEW x, FileRequest(i, x) PROVE FlatStep
  <2>1. ASSUME NEW a, NEW o, AddAssetToAlbum(a, x, o) PROVE FlatStep
    BY <1>0, <2>1, FlatSame DEF AddAssetToAlbum
  <2>2. ASSUME NEW a \in DOMAIN albums, RemoveOrPark(a, x) PROVE FlatStep
    BY <1>0, <2>2, TrunkIsRoot, FlatSame, EnsureBucketFlat DEF RemoveOrPark
  <2> QED
    BY <1>3, <2>1, <2>2 DEF FileRequest
<1>4. CASE BinRequest(i)
  <2>1. ASSUME NEW S, Destroy(S) PROVE FlatStep
    BY <1>0, <2>1, FlatSame DEF Destroy
  <2> QED
    BY <1>4, <2>1, RestoreFlat DEF BinRequest, DeleteAsset, ClearTrash, PurgeExpiredTrash
<1>5. ASSUME NEW a, NEW h, StartUpload(i, a, h) PROVE FlatStep
  BY <1>0, <1>5, FlatSame DEF StartUpload
<1> QED
  BY <1>1, <1>2, <1>3, <1>4, <1>5 DEF Request

LEMMA InitFlat == Init => Flat
<1> SUFFICES ASSUME Init PROVE Flat
  OBVIOUS
<1>0. /\ NULL \notin {1, 4}
      /\ Shared \in Builtin /\ Private \in Builtin
  BY NullAssumption, BoundsAssumption DEF AlbumId, Builtin
<1>1. FlatBin
  BY DEF Init, FlatBin, Trashed
<1>2. CASE albums = SeedAlbums
  <2>1. DOMAIN albums = 1..3
    BY <1>2 DEF SeedAlbums
  <2>2. /\ albums[1] = SeedRow(Shared, NULL)
        /\ albums[2] = SeedRow(Favorites, 1) /\ albums[3] = SeedRow(Scatter, 1)
    BY <1>2 DEF SeedAlbums
  <2>3. FlatTree
    BY <1>0, <2>1, <2>2 DEF FlatTree, Filed, Roots, SeedRow
  <2> QED
    BY <1>1, <2>3 DEF Flat
<1>3. CASE albums = LegacyAlbums
  <2>1. DOMAIN albums = 1..6
    BY <1>3 DEF LegacyAlbums
  <2>2. /\ albums[1] = SeedRow(Shared, NULL)
        /\ albums[2] = SeedRow(Favorites, 1) /\ albums[3] = SeedRow(Scatter, 1)
        /\ albums[4] = PrivateRow(Private, NULL, NULL)
        /\ albums[5] = PrivateRow(Favorites, 4, NULL)
        /\ albums[6] = PrivateRow(Scatter, 4, NULL)
    BY <1>3 DEF LegacyAlbums, SeedAlbums
  <2>3. FlatTree
    BY <1>0, <2>1, <2>2 DEF FlatTree, Filed, Roots, SeedRow, PrivateRow
  <2> QED
    BY <1>1, <2>3 DEF Flat
<1> QED
  BY <1>2, <1>3 DEF Init

LEMMA FlatSubtree ==
  ASSUME FlatTree, NEW r
  PROVE  Subtree(r) \subseteq {r} \cup Children(r)
<1> DEFINE inner == Filed \cap {albums[b].parent : b \in Filed}
           closed == {S \in SUBSET inner :
                        \A b \in inner : albums[b].parent \in S \cup {r} => b \in S}
<1>1. Subtree(r) = {r} \cup {b \in Filed : \A S \in closed : albums[b].parent \in S \cup {r}}
  BY DEF Subtree
<1>2. inner = {}
  BY DEF FlatTree, Filed
<1>3. {} \in closed
  BY <1>2
<1> HIDE DEF closed
<1> QED
  BY <1>1, <1>3 DEF Children, Filed

\* A newcomer takes the trunk nobody owned with the albums in it, or is given one.
LEMMA RegisterFlat ==
  ASSUME AlbumsOK, Trunks, FlatTree, NEW i \in Identity, Register(i)
  PROVE  FlatTree' /\ Roots \subseteq Roots'
<1>1. PICK owned : owned = OwnedBy(i, Claimed)
  OBVIOUS
<1>2. DOMAIN owned = DOMAIN albums
  BY <1>1 DEF OwnedBy
<1>3. ASSUME NEW a \in DOMAIN albums
      PROVE  /\ owned[a].parent = albums[a].parent /\ owned[a].name = albums[a].name
             /\ owned[a].owner = IF a \in Claimed THEN i ELSE albums[a].owner
  <2>1. albums[a] \in AlbumRow
    BY DEF AlbumsOK
  <2> QED
    BY <1>1, <2>1 DEF OwnedBy, AlbumRow
<1>4. CASE Unclaimed # {}
  <2>1. PICK u \in Roots : Unclaimed = {u} /\ RootsNamed(Private) = {u}
    BY <1>4 DEF Trunks, OldTrunk
  <2>2. Cardinality(Unclaimed) = 1
    BY <2>1, FS_Singleton
  <2>3. Min(RootsNamed(Private)) = u
    <3>1. {u} \in SUBSET Nat
      BY DEF Roots, AlbumsOK, AlbumId
    <3> QED
      BY <2>1, <3>1, MinIsLeast
  <2>4. Claimed = Subtree(u)
    BY <2>1, <2>2, <2>3 DEF Claimed, Subtree
  <2>5. ASSUME NEW a \in DOMAIN albums
        PROVE  a \in Claimed <=> a = u \/ albums[a].parent = u
    <3>1. u # NULL
      BY AlbumTyped, NullAssumption DEF Roots
    <3>2. u \in Subtree(u)
      BY DEF Subtree
    <3>3. albums[a].parent = u => a \in Subtree(u)
      BY <3>1, <3>2, SubtreeIsClosed DEF Filed, Roots
    <3> QED
      BY <2>4, <3>2, <3>3, FlatSubtree DEF Children
  <2>6. albums' = owned
    BY <1>1, <2>2 DEF Register
  <2>7. Roots' = Roots /\ Filed' = Filed
    BY <1>2, <1>3, <2>6 DEF Roots, Filed
  <2>8. ASSUME NEW a \in Filed
        PROVE  owned[a].owner = owned[owned[a].parent].owner
    <3>1. /\ a \in DOMAIN albums /\ a # u /\ albums[a].parent \in Roots
          /\ albums[a].owner = albums[albums[a].parent].owner
      BY DEF FlatTree, Filed
    <3>2. PICK t \in Roots : t = albums[a].parent
      BY <3>1
    <3>3. t \in DOMAIN albums /\ albums[t].parent # u
      BY AlbumTyped, NullAssumption DEF Roots
    <3> QED
      BY <1>3, <2>5, <3>1, <3>2, <3>3
  <2> QED
    BY <1>3, <2>6, <2>7, <2>8 DEF FlatTree, Filed, Roots
<1>5. CASE Unclaimed = {}
  <2>1. Cardinality(Unclaimed) # 1 /\ Claimed = {}
    BY <1>5, FS_EmptySet DEF Claimed
  <2>2. owned = albums
    BY <1>1, <2>1 DEF OwnedBy, AlbumsOK
  <2>3. PICK k1, k2, k3, r1, r2, r3 :
          /\ k1 = albumSeq + 1 /\ k2 = albumSeq + 2 /\ k3 = albumSeq + 3
          /\ r1 = PrivateRow(Private, NULL, i)
          /\ r2 = PrivateRow(Favorites, k1, i)
          /\ r3 = PrivateRow(Scatter, k1, i)
    OBVIOUS
  <2>4. /\ k1 \notin DOMAIN albums /\ k2 \notin DOMAIN albums /\ k3 \notin DOMAIN albums
        /\ k1 # k2 /\ k1 # k3 /\ k2 # k3 /\ k1 \in AlbumId
    BY <2>1, <2>3, BoundsAssumption DEF AlbumsOK, AlbumId, Register
  <2>5. /\ r1.parent = NULL /\ r2.parent = k1 /\ r3.parent = k1
        /\ r1.name \in Builtin /\ r1.owner = i /\ r2.owner = i /\ r3.owner = i
    BY <2>3 DEF PrivateRow, Builtin
  <2>6. k1 # NULL
    BY <2>4, NullAssumption
  <2>7. albums' = With(With(With(albums, k1, r1), k2, r2), k3, r3)
    BY <1>1, <2>1, <2>2, <2>3 DEF Register
  <2>8. PICK all : all = albums'
    OBVIOUS
  <2>9. /\ DOMAIN all = DOMAIN albums \cup {k1, k2, k3}
        /\ \A a \in DOMAIN albums : all[a] = albums[a]
        /\ all[k1] = r1 /\ all[k2] = r2 /\ all[k3] = r3
    BY <2>4, <2>7, <2>8 DEF With
  <2>10. Roots' = Roots \cup {k1} /\ Filed' = Filed \cup {k2, k3}
    BY <2>4, <2>5, <2>6, <2>8, <2>9 DEF Roots, Filed
  <2>11. \A a \in Roots \cup Filed : all[a] = albums[a]
    BY <2>9 DEF Roots, Filed
  <2>12. \A a \in Roots' : all[a].name \in Builtin
    BY <2>5, <2>9, <2>10, <2>11 DEF FlatTree
  <2>13. ASSUME NEW a \in Filed'
         PROVE  all[a].parent \in Roots' /\ all[a].owner = all[all[a].parent].owner
    BY <2>5, <2>9, <2>10, <2>11 DEF FlatTree
  <2> QED
    BY <2>8, <2>10, <2>12, <2>13 DEF FlatTree
<1> QED
  BY <1>4, <1>5

LEMMA NextFlat ==
  ASSUME ~Nesting, ~Patching, IInv, Trunks, Flat, [Next]_vars
  PROVE  Flat'
<1>1. AlbumsOK /\ FlatTree
  BY DEF IInv, TypeOK, AlbumsOK, Flat
<1>2. CASE FlatStep
  BY <1>1, <1>2, FlatStepTree, NextBin, FlatStepBin DEF Flat
<1>3. ASSUME NEW i \in Identity, Register(i) PROVE Flat'
  <2>1. FlatTree' /\ Roots \subseteq Roots'
    BY <1>1, <1>3, RegisterFlat
  <2>2. FlatBin'
    BY <1>3, <2>1 DEF Register, Flat, FlatBin, Trashed
  <2> QED
    BY <2>1, <2>2 DEF Flat
<1>4. ASSUME NEW i, Request(i) PROVE FlatStep
  BY <1>1, <1>4, RequestFlat
<1>5. ASSUME NEW u, CreateAsset(u) \/ FileUpload(u) PROVE FlatStep
  BY <1>1, <1>5, FlatSame, FileUploadFlat DEF CreateAsset
<1>6. ASSUME Restart \/ UNCHANGED vars PROVE FlatStep
  BY <1>1, <1>6, FlatSame DEF Restart, vars
<1> QED
  BY <1>2, <1>3, <1>4, <1>5, <1>6 DEF Next

\* The requests of the bundled client, and names other than the built-in ones.
Bundled == UserName \cap Builtin = {} /\ ~Nesting /\ ~Patching

LEMMA FlatAlways == Bundled => (Spec => []Flat)
<1> SUFFICES ASSUME Bundled PROVE Spec => []Flat
  OBVIOUS
<1>1. IInv => AlbumsOK
  BY DEF IInv, TypeOK, AlbumsOK
<1>2. IInv /\ Trunks /\ [Next]_vars => Trunks'
  BY <1>1, NextTrunks DEF Bundled
<1>3. IInv /\ Trunks /\ Flat /\ [Next]_vars => Flat'
  BY NextFlat DEF Bundled
<1> QED
  BY <1>2, <1>3, InitTrunks, InitFlat, Inductive, PTL DEF Spec

\* For the bundled client an album belongs to whoever its trunk belongs to, however it
\* was moved and whoever took over the trunk (store.go MoveAlbum,
\* claimOrCreatePrivateTrunkTx): ownership is stored with every album and has one source all the same.
THEOREM OwnersFollowTrunks == Bundled => (Spec => []OwnedByTrunk)
<1> SUFFICES ASSUME Bundled PROVE Spec => []OwnedByTrunk
  OBVIOUS
<1>1. Flat => OwnedByTrunk
  BY DEF Flat, FlatTree, OwnedByTrunk
<1> QED
  BY <1>1, FlatAlways, PTL

\* For the bundled client every photo in the bin came from a trunk that is there, so
\* somebody finds it in that trunk's bin as long as it is kept.
THEOREM BinIsReachable == Bundled => (Spec => []TrashReachable)
<1> SUFFICES ASSUME Bundled PROVE Spec => []TrashReachable
  OBVIOUS
<1>1. Flat => TrashReachable
  BY DEF Flat, FlatBin, TrashReachable, Roots
<1> QED
  BY <1>1, FlatAlways, PTL

-----------------------------------------------------------------------------
(* Who sees a photo.                                                        *)

\* The albums and trunks in which a photo is seen.
Places(x) == Held(x) \cup {t \in DOMAIN albums : x \in Trashed /\ t = assets[x].trash.trunk}

\* Wherever photo x is after a step, somebody of the same sight had it before.
SameOwners(x) ==
  \A b \in Places(x)' : \E c \in Places(x) : albums'[b].owner = albums[c].owner

LEMMA SeenInPlaces ==
  ASSUME NEW i, NEW x \in DOMAIN assets
  PROVE  VisibleAsset(i, x) <=> \E a \in Places(x) : albums[a].owner \in {NULL, i}
BY DEF VisibleAsset, VisibleAlbum, Places, Held

LEMMA SeenInPlacesAfter ==
  ASSUME NEW i, NEW x, VisibleAsset(i, x)'
  PROVE  \E a \in Places(x)' : albums'[a].owner \in {NULL, i}
BY DEF VisibleAsset, VisibleAlbum, Places, Held, Trashed

LEMMA SameOwnersQuiet ==
  ASSUME NEW x \in DOMAIN assets, SameOwners(x), UNCHANGED identities
  PROVE  Viewers(x)' \subseteq Viewers(x)
<1> SUFFICES ASSUME NEW i \in identities \cup {NULL}, VisibleAsset(i, x)'
             PROVE  VisibleAsset(i, x)
  BY DEF Viewers
<1>1. PICK b \in Places(x)' : albums'[b].owner \in {NULL, i}
  BY SeenInPlacesAfter
<1>2. PICK c \in Places(x) : albums'[b].owner = albums[c].owner
  BY DEF SameOwners
<1> QED
  BY <1>1, <1>2, SeenInPlaces

\* The trunk of an album has its owner.
LEMMA TrunkOwner ==
  ASSUME FlatTree, NEW a \in DOMAIN albums
  PROVE  TrunkOf(a) \in DOMAIN albums /\ albums[TrunkOf(a)].owner = albums[a].owner
BY DEF FlatTree, TrunkOf, Filed, Roots

\* A step that keeps the rows of albums and of the photo, and adds no membership but in
\* an album owned like a place of the photo.
LEMMA FiledQuiet ==
  ASSUME NEW x \in DOMAIN assets, NEW c \in Places(x), NEW b,
         \A a \in DOMAIN albums : albums'[a] = albums[a],
         DOMAIN albums' \subseteq DOMAIN albums \cup {b},
         b \in DOMAIN albums' => albums'[b].owner = albums[c].owner,
         members' \subseteq members \cup {<<b, x>>},
         x \in Trashed' => x \in Trashed /\ assets'[x].trash = assets[x].trash
  PROVE  SameOwners(x)
<1> SUFFICES ASSUME NEW a \in Places(x)'
             PROVE  \E d \in Places(x) : albums'[a].owner = albums[d].owner
  BY DEF SameOwners
<1>1. a \in DOMAIN albums'
  BY DEF Places, Held
<1>2. CASE a = b
  BY <1>1, <1>2
<1>3. CASE a # b
  <2>1. a \in DOMAIN albums /\ albums'[a] = albums[a]
    BY <1>1, <1>3
  <2>2. <<a, x>> \in members' => <<a, x>> \in members
    BY <1>3
  <2>3. a \in Places(x)
    BY <2>1, <2>2 DEF Places, Held
  <2> QED
    BY <2>1, <2>3
<1> QED
  BY <1>2, <1>3

\* A photo goes to the bin of the trunk of an album that held it.
LEMMA TrashedQuiet ==
  ASSUME IInv, FlatTree, NEW x \in DOMAIN assets, NEW a \in Held(x),
         Trash(x, TrashOrigin(a)), UNCHANGED albums
  PROVE  SameOwners(x)
<1>1. PICK o : o = TrashOrigin(a)
  OBVIOUS
<1>2. assets[x] \in AssetRow
  BY DEF IInv, TypeOK
<1>3. assets'[x].trash = o /\ o.trunk = TrunkOf(a)
  BY <1>1, <1>2 DEF Trash, AssetRow, TrashOrigin
<1>4. Held(x)' = {}
  BY DEF Trash, Held
<1>5. Places(x)' \subseteq {TrunkOf(a)}
  BY <1>3, <1>4 DEF Places
<1>6. a \in Places(x) /\ a \in DOMAIN albums
  BY DEF Places, Held
<1> QED
  BY <1>5, <1>6, TrunkOwner DEF SameOwners

LEMMA TrashAssetQuiet ==
  ASSUME IInv, FlatTree, BinStep, NEW x, TrashAsset(x)
  PROVE  SameOwners(x)
<1>1. AlbumsOK
  BY DEF IInv, TypeOK, AlbumsOK
<1>2. x \in DOMAIN assets /\ assets[x] \in AssetRow /\ assets[x].trash = NULL
  BY DEF TrashAsset, Active, Trashed, IInv, TypeOK
<1>3. CASE Held(x) = {}
  <2>1. DOMAIN assets' = DOMAIN assets
    BY DEF TrashAsset, Trash
  <2>2. ~RestoreAsset(x)
    BY <1>2 DEF RestoreAsset, Trashed
  <2>3. assets'[x].trash = NULL
    BY <1>2, <1>3, <2>1, <2>2 DEF BinStep
  <2>4. Places(x)' = {}
    BY <2>3 DEF Places, Held, Trashed, TrashAsset, Trash
  <2> QED
    BY <2>4 DEF SameOwners
<1>4. CASE Held(x) # {}
  <2>1. PICK b \in Held(x) : SourceAlbum(x) = TrashOrigin(b)
    BY <1>1, <1>4, SourceIsAlbum
  <2> QED
    BY <1>2, <2>1, TrashedQuiet DEF TrashAsset
<1> QED
  BY <1>3, <1>4

\* What is deleted with an album is seen by whoever saw the album.
LEMMA DeleteAlbumQuiet ==
  ASSUME IInv, AlbumsOK, Flat, NEW a, NEW x \in DOMAIN assets, DeleteAlbum(a)
  PROVE  SameOwners(x)
<1>1. PICK gone, orphans, o :
        /\ gone = Subtree(a) /\ orphans = OrphanedMembers(gone)
        /\ o = IF albums[a].parent # NULL THEN TrashOrigin(a)
               ELSE [trunk |-> a, album |-> NULL, name |-> NULL]
  OBVIOUS
<1>2. /\ assets' = [y \in DOMAIN assets |->
                      IF y \in orphans THEN [assets[y] EXCEPT !.trash = o] ELSE assets[y]]
      /\ members' \subseteq members
      /\ x \in orphans => \A m \in members' : m[2] # x
      /\ DOMAIN albums' = DOMAIN albums \ gone
      /\ \A b \in DOMAIN albums' : albums'[b] = albums[b]
      /\ a \in DOMAIN albums
  BY <1>1 DEF DeleteAlbum, Restrict
<1>3. FlatTree /\ assets[x] \in AssetRow /\ a \in gone
  BY <1>1 DEF Flat, IInv, TypeOK, Subtree
<1> SUFFICES ASSUME NEW b \in Places(x)'
             PROVE  \E c \in Places(x) : albums'[b].owner = albums[c].owner
  BY DEF SameOwners
<1>4. b \in DOMAIN albums' /\ b \in DOMAIN albums /\ albums'[b] = albums[b] /\ b # a
  BY <1>2, <1>3 DEF Places, Held
<1>5. CASE x \notin orphans
  <2>1. assets'[x] = assets[x]
    BY <1>2, <1>5
  <2>2. b \in Places(x)
    BY <1>2, <1>4, <2>1 DEF Places, Held, Trashed
  <2> QED
    BY <1>4, <2>2
<1>6. CASE x \in orphans
  <2>1. assets'[x].trash = o
    BY <1>2, <1>3, <1>6 DEF AssetRow
  <2>2. Held(x)' = {}
    BY <1>2, <1>6 DEF Held
  <2>3. b = o.trunk
    BY <2>1, <2>2 DEF Places
  <2>4. albums[a].parent # NULL /\ o = TrashOrigin(a)
    BY <1>1, <1>4, <2>3
  <2>5. b = TrunkOf(a)
    BY <2>3, <2>4 DEF TrashOrigin
  <2>6. albums[b].owner = albums[a].owner
    BY <1>2, <1>3, <2>5, TrunkOwner
  <2>7. PICK c \in Held(x) : c \in Subtree(a)
    BY <1>1, <1>6 DEF OrphanedMembers
  <2>8. c = a
    <3>1. c = a \/ c \in Children(a)
      BY <1>3, <2>7, FlatSubtree
    <3>2. a \notin Roots /\ a # NULL
      BY <1>2, <2>4, AlbumTyped, NullAssumption DEF Roots
    <3>3. c \in Children(a) => FALSE
      BY <1>3, <3>2 DEF Children, FlatTree, Filed, Roots
    <3> QED
      BY <3>1, <3>3
  <2> QED
    BY <1>4, <2>6, <2>7, <2>8 DEF Places
<1> QED
  BY <1>5, <1>6

\* Found or made, the child of a trunk belongs to whoever the trunk belongs to.
LEMMA EnsureChildOwner ==
  ASSUME AlbumsOK, FlatTree, NEW t \in Roots, NEW n, EnsureChild(t, n)
  PROVE  /\ \A a \in DOMAIN albums : albums'[a] = albums[a]
         /\ DOMAIN albums' \subseteq DOMAIN albums \cup {ChildAlbum(t, n)}
         /\ albums'[ChildAlbum(t, n)].owner = albums[t].owner
<1>0. t # NULL /\ t \in DOMAIN albums
  BY AlbumTyped, NullAssumption DEF Roots
<1>1. CASE ChildrenNamed(t, n) # {}
  <2>1. ChildAlbum(t, n) \in Filed /\ albums[ChildAlbum(t, n)].parent = t
    <3>1. ChildAlbum(t, n) \in ChildrenNamed(t, n)
      BY <1>1, ChildrenAreAlbums DEF ChildAlbum
    <3> QED
      BY <1>0, <3>1 DEF ChildrenNamed, Children, Filed, Roots
  <2>2. albums[ChildAlbum(t, n)].owner = albums[t].owner
    BY <2>1 DEF FlatTree
  <2>3. albums' = albums
    BY <1>1 DEF EnsureChild
  <2> QED
    BY <2>2, <2>3
<1>2. CASE ChildrenNamed(t, n) = {}
  <2>1. PICK o, h : o = albums[t].owner /\ InsertAlbum(n, t, o, h)
    BY <1>2 DEF EnsureChild
  <2>2. PICK k, row : /\ k = NextAlbum
                      /\ row = [name |-> n, parent |-> t, owner |-> o, hidden |-> h]
    OBVIOUS
  <2>3. k \notin DOMAIN albums /\ k = ChildAlbum(t, n)
    BY <1>2, <2>2 DEF ChildAlbum, NextAlbum, AlbumsOK, AlbumId
  <2>4. albums' = [a \in DOMAIN albums \cup {k} |-> IF a = k THEN row ELSE albums[a]]
    BY <2>1, <2>2 DEF InsertAlbum, WithAlbum, With
  <2>5. row.owner = o
    BY <2>2
  <2> QED
    BY <2>1, <2>3, <2>4, <2>5
<1> QED
  BY <1>1, <1>2

LEMMA BucketOwner ==
  ASSUME AlbumsOK, FlatTree, NEW t \in Roots, EnsureBucket(t)
  PROVE  /\ \A a \in DOMAIN albums : albums'[a] = albums[a]
         /\ DOMAIN albums' \subseteq DOMAIN albums \cup {ParkBucket(t)}
         /\ albums'[ParkBucket(t)].owner = albums[t].owner
<1>0. t # NULL
  BY AlbumTyped, NullAssumption DEF Roots
<1>1. CASE ScatterBucket(t) # NULL
  <2>1. ScatterBucket(t) \in Children(t)
    BY <1>1, ChildrenAreAlbums DEF ScatterBucket, ChildrenNamed
  <2>2. ScatterBucket(t) \in Filed /\ albums[ScatterBucket(t)].parent = t
    BY <1>0, <2>1 DEF Children, Filed, Roots
  <2>3. albums[ScatterBucket(t)].owner = albums[t].owner
    BY <2>2 DEF FlatTree
  <2> QED
    BY <1>1, <2>3 DEF EnsureBucket, ParkBucket
<1>2. CASE ScatterBucket(t) = NULL
  <2>1. ChildrenNamed(t, Scatter) = {}
    <3> SUFFICES ASSUME ChildrenNamed(t, Scatter) # {} PROVE FALSE
      OBVIOUS
    <3>1. ScatterBucket(t) \in DOMAIN albums
      BY ChildrenAreAlbums DEF ScatterBucket, ChildrenNamed, Children
    <3> QED
      BY <1>2, <3>1, AlbumTyped, NullAssumption
  <2>2. ParkBucket(t) = ChildAlbum(t, Scatter) /\ EnsureChild(t, Scatter)
    BY <1>2, <2>1 DEF ParkBucket, ChildAlbum, EnsureBucket
  <2> QED
    BY <2>2, EnsureChildOwner
<1> QED
  BY <1>1, <1>2

LEMMA RemoveOrTrashQuiet ==
  ASSUME IInv, FlatTree, NEW a \in DOMAIN albums, NEW x \in DOMAIN assets, RemoveOrTrash(a, x)
  PROVE  SameOwners(x)
<1>1. a \in Held(x) /\ a \in Places(x)
  BY DEF RemoveOrTrash, Held, Places
<1>2. CASE members' = members \ {<<a, x>>} /\ UNCHANGED assets
  <2>1. albums' = albums
    BY DEF RemoveOrTrash
  <2> QED
    BY <1>1, <1>2, <2>1, FiledQuiet DEF Trashed, Held
<1>3. CASE Trash(x, TrashOrigin(a))
  BY <1>1, <1>3, TrashedQuiet DEF RemoveOrTrash
<1> QED
  BY <1>2, <1>3 DEF RemoveOrTrash

\* A photo is parked with the owner of the album it left.
LEMMA RemoveOrParkQuiet ==
  ASSUME AlbumsOK, FlatTree, NEW a \in DOMAIN albums, NEW x \in DOMAIN assets,
         RemoveOrPark(a, x)
  PROVE  SameOwners(x)
<1>1. a \in Places(x)
  BY DEF RemoveOrPark, Held, Places
<1>2. x \in Trashed' => x \in Trashed /\ assets'[x].trash = assets[x].trash
  BY DEF RemoveOrPark, Trashed
<1>3. CASE members' = members \ {<<a, x>>} /\ UNCHANGED <<albums, albumSeq>>
  BY <1>1, <1>2, <1>3, FiledQuiet
<1>4. CASE /\ EnsureBucket(TrunkOf(a))
           /\ members' = (members \ {<<a, x>>}) \cup {<<ParkBucket(TrunkOf(a)), x>>}
  <2>1. TrunkOf(a) \in Roots /\ albums[TrunkOf(a)].owner = albums[a].owner
    BY TrunkIsRoot, TrunkOwner
  <2>2. PICK b : b = ParkBucket(TrunkOf(a))
    OBVIOUS
  <2>3. /\ \A c \in DOMAIN albums : albums'[c] = albums[c]
        /\ DOMAIN albums' \subseteq DOMAIN albums \cup {b}
        /\ albums'[b].owner = albums[a].owner
    BY <1>4, <2>1, <2>2, BucketOwner
  <2>4. members' \subseteq members \cup {<<b, x>>}
    BY <1>4, <2>2
  <2> QED
    BY <1>1, <1>2, <2>3, <2>4, FiledQuiet
<1> QED
  BY <1>3, <1>4 DEF RemoveOrPark

\* A photo returns to an album made again for the trunk in whose bin it was seen.
LEMMA RebuiltQuiet ==
  ASSUME AlbumsOK, IInv, Flat, NamedOrigins, NEW x \in DOMAIN assets, RestoreAsset(x),
         assets[x].trash.album \notin DOMAIN albums
  PROVE  SameOwners(x)
<1>1. PICK o : o = assets[x].trash
  OBVIOUS
<1>2. x \in Trashed /\ o.name # NULL /\ o.trunk \in Roots /\ FlatTree
  BY <1>1 DEF RestoreAsset, NamedOrigins, Flat, FlatBin
<1>3. PICK b : b = ChildAlbum(o.trunk, o.name)
  OBVIOUS
<1>4. EnsureChild(o.trunk, o.name) /\ members' = members \cup {<<b, x>>}
  BY <1>1, <1>2, <1>3 DEF RestoreAsset
<1>5. /\ \A c \in DOMAIN albums : albums'[c] = albums[c]
      /\ DOMAIN albums' \subseteq DOMAIN albums \cup {b}
      /\ albums'[b].owner = albums[o.trunk].owner
  BY <1>2, <1>3, <1>4, EnsureChildOwner
<1>6. o.trunk \in Places(x)
  BY <1>1, <1>2 DEF Places, Roots
<1>7. x \notin Trashed'
  <2>1. assets[x] \in AssetRow
    BY DEF IInv, TypeOK
  <2> QED
    BY <2>1 DEF RestoreAsset, Trashed, AssetRow
<1> QED
  BY <1>4, <1>5, <1>6, <1>7, FiledQuiet

LEMMA QuietStep ==
  ASSUME IInv, Flat, NamedOrigins, [Next]_vars, NEW x \in DOMAIN assets, Quiet(x)
  PROVE  Viewers(x)' \subseteq Viewers(x)
<1>1. AlbumsOK /\ FlatTree /\ BinStep
  BY NextBin DEF IInv, TypeOK, AlbumsOK, Flat
<1>2. ASSUME NEW a \in DOMAIN albums, RemoveOrPark(a, x)
      PROVE  SameOwners(x) /\ UNCHANGED identities
  BY <1>1, <1>2, RemoveOrParkQuiet DEF RemoveOrPark
<1>3. ASSUME NEW a \in DOMAIN albums, RemoveOrTrash(a, x)
      PROVE  SameOwners(x) /\ UNCHANGED identities
  BY <1>1, <1>3, RemoveOrTrashQuiet DEF RemoveOrTrash
<1>4. ASSUME NEW a \in DOMAIN albums, DeleteAlbum(a)
      PROVE  SameOwners(x) /\ UNCHANGED identities
  BY <1>1, <1>4, DeleteAlbumQuiet DEF DeleteAlbum
<1>5. ASSUME TrashAsset(x) PROVE SameOwners(x) /\ UNCHANGED identities
  BY <1>1, <1>5, TrashAssetQuiet DEF TrashAsset
<1>6. ASSUME RestoreAsset(x), assets[x].trash.album \notin DOMAIN albums
      PROVE  SameOwners(x) /\ UNCHANGED identities
  BY <1>1, <1>6, RebuiltQuiet DEF RestoreAsset
<1> QED
  BY <1>2, <1>3, <1>4, <1>5, <1>6, SameOwnersQuiet DEF Quiet

\* For the bundled client, deleting a photo or its album, un-filing it, and rebuilding its
\* album for a restore show it to nobody who could not see it before: the bin and every
\* album made on the way belong to whoever the trunk belongs to (store.go TrashAsset,
\* RemoveOrTrash, RemoveOrPark, DeleteAlbum, RestoreAsset).
THEOREM NothingIsExposed == Bundled => (Spec => NoSilentExposure)
<1> SUFFICES ASSUME Bundled PROVE Spec => NoSilentExposure
  OBVIOUS
<1>1. IInv /\ Flat /\ NamedOrigins /\ [Next]_vars
        => [\A x \in DOMAIN assets : Viewers(x)' \subseteq Viewers(x) \/ ~Quiet(x)]_vars
  BY QuietStep
<1> QED
  BY <1>1, Inductive, FlatAlways, NamedAlways, PTL DEF Spec, NoSilentExposure

-----------------------------------------------------------------------------
(* No photo is lost while no two photos have the same bytes: linking a photo   *)
(* detaches it before it finds a copy of it in the album.                      *)

Single == \A x, y \in DOMAIN assets : assets[x].hash = assets[y].hash => x = y

\* The photo is there after the step, in an album or in the bin.
Kept(x) == x \in DOMAIN assets' /\ (Held(x)' # {} \/ x \in Trashed')

\* A step that takes neither album, membership nor photo away.
Growth ==
  /\ DOMAIN albums \subseteq DOMAIN albums'
  /\ members \subseteq members'
  /\ DOMAIN assets \subseteq DOMAIN assets'

LEMMA GrowthKeeps ==
  ASSUME Growth, NEW x \in Active, Held(x) # {}
  PROVE  Kept(x)
BY DEF Growth, Kept, Held, Active

LEMMA SingleStep ==
  ASSUME IInv, Single, MaxCopies =< 1, [Next]_vars
  PROVE  Single'
<1>1. ASSUME NEW u \in uploads, CreateAsset(u) PROVE Single'
  <2>1. Copies(u.hash) = {}
    <3>1. IsFiniteSet(Copies(u.hash))
      <4>1. IsFiniteSet(1..assetSeq)
        BY FS_Interval DEF IInv, TypeOK
      <4> QED
        BY <4>1, FS_Subset DEF Copies, IInv, TypeOK
    <3>2. Cardinality(Copies(u.hash)) = 0
      <4>1. Cardinality(Copies(u.hash)) \in Nat /\ Cardinality(Copies(u.hash)) < MaxCopies
        BY <1>1, <3>1, FS_CardinalityType DEF CreateAsset
      <4> QED
        BY <4>1, BoundsAssumption
    <3> QED
      BY <3>1, <3>2, FS_EmptySet
  <2>2. PICK k, row, h : k = assetSeq + 1 /\ row = [hash |-> h, trash |-> NULL] /\ h = u.hash
    OBVIOUS
  <2>3. row.hash = h
    BY <2>2
  <2>4. assets' = [y \in DOMAIN assets \cup {k} |-> IF y = k THEN row ELSE assets[y]]
    BY <1>1, <2>2 DEF CreateAsset, With
  <2>5. \A y \in DOMAIN assets : assets[y].hash # h
    BY <2>1, <2>2 DEF Copies
  <2> QED
    BY <2>3, <2>4, <2>5 DEF Single
<1>2. ASSUME DOMAIN assets' \subseteq DOMAIN assets,
             \A y \in DOMAIN assets' : assets'[y].hash = assets[y].hash
      PROVE  Single'
  BY <1>2 DEF Single
<1>3. ASSUME NEW y, NEW o, assets' = [assets EXCEPT ![y].trash = o]
      PROVE  Single'
  <2>1. \A z \in DOMAIN assets : assets[z] \in AssetRow
    BY DEF IInv, TypeOK
  <2>2. DOMAIN assets' = DOMAIN assets /\ \A z \in DOMAIN assets : assets'[z].hash = assets[z].hash
    BY <1>3, <2>1 DEF AssetRow
  <2> QED
    BY <1>2, <2>2
<1>4. ASSUME NEW a, DeleteAlbum(a) PROVE Single'
  <2>1. PICK orphans, o :
          assets' = [y \in DOMAIN assets |->
                       IF y \in orphans THEN [assets[y] EXCEPT !.trash = o] ELSE assets[y]]
    BY <1>4 DEF DeleteAlbum
  <2>2. \A z \in DOMAIN assets : assets[z] \in AssetRow
    BY DEF IInv, TypeOK
  <2>3. DOMAIN assets' = DOMAIN assets /\ \A z \in DOMAIN assets : assets'[z].hash = assets[z].hash
    BY <2>1, <2>2 DEF AssetRow
  <2> QED
    BY <1>2, <2>3
<1>5. ASSUME NEW S, Destroy(S) PROVE Single'
  BY <1>2, <1>5 DEF Destroy, Restrict
<1>6. ASSUME UNCHANGED assets PROVE Single'
  BY <1>6 DEF Single
<1>7. ASSUME NEW i, Request(i) PROVE Single'
  <2>1. CASE AlbumRequest(i)
    BY <1>4, <1>6, <2>1 DEF AlbumRequest, CreateAlbum, MoveAlbum, UpdateAlbum
  <2>2. ASSUME NEW x, DeleteRequest(i, x) PROVE Single'
    BY <1>3, <1>6, <2>2 DEF DeleteRequest, TrashAsset, RemoveOrTrash, Trash
  <2>3. ASSUME NEW x, FileRequest(i, x) PROVE Single'
    BY <1>6, <2>3 DEF FileRequest, AddAssetToAlbum, RemoveOrPark
  <2>4. CASE BinRequest(i)
    BY <1>3, <1>5, <2>4
       DEF BinRequest, RestoreAsset, DeleteAsset, ClearTrash, PurgeExpiredTrash
  <2>5. ASSUME NEW a, NEW h, StartUpload(i, a, h) PROVE Single'
    BY <1>6, <2>5 DEF StartUpload
  <2> QED
    BY <1>7, <2>1, <2>2, <2>3, <2>4, <2>5 DEF Request
<1> QED
  BY <1>1, <1>6, <1>7 DEF Next, Register, FileUpload, Restart, vars

LEMMA MoveAlbumKeeps ==
  ASSUME AlbumsOK, NEW i, NEW a, NEW p, MoveAlbum(i, a, p), NEW x \in Active, Held(x) # {}
  PROVE  Kept(x)
<1>1. x \in DOMAIN assets'
  BY DEF MoveAlbum, Active
<1>2. CASE Rehang(a, p)
  BY <1>1, <1>2 DEF Rehang, Kept, Held
<1>3. CASE MergeTargets(a, p) # {} /\ MergeInto(a, Min(MergeTargets(a, p)))
  <2>1. PICK t : t = Min(MergeTargets(a, p))
    OBVIOUS
  <2>2. MergeTargets(a, p) \subseteq DOMAIN albums \ {a}
    BY DEF MergeTargets, RootsNamed, Roots, ChildrenNamed, Children
  <2>3. MergeTargets(a, p) \in SUBSET Nat
    BY <2>2 DEF AlbumsOK, AlbumId
  <2>4. t \in DOMAIN albums \ {a}
    BY <1>3, <2>1, <2>2, <2>3, MinIsLeast
  <2>5. /\ DOMAIN albums' = DOMAIN albums \ {a}
        /\ members' = {m \in members : m[1] # a} \cup {<<t, m[2]>> : m \in {m \in members : m[1] = a}}
    BY <1>3, <2>1 DEF MergeInto
  <2>6. PICK b \in DOMAIN albums : <<b, x>> \in members
    BY DEF Held
  <2>7. CASE b = a
    <3>1. <<t, x>> \in members'
      BY <2>5, <2>6, <2>7
    <3> QED
      BY <1>1, <2>4, <2>5, <3>1 DEF Kept, Held
  <2>8. CASE b # a
    <3>1. <<b, x>> \in members'
      BY <2>5, <2>6, <2>8
    <3> QED
      BY <1>1, <2>5, <2>6, <2>8, <3>1 DEF Kept, Held
  <2> QED
    BY <2>7, <2>8
<1> QED
  BY <1>2, <1>3 DEF MoveAlbum

LEMMA DeleteAlbumKeeps ==
  ASSUME IInv, AlbumsOK, NEW a \in DOMAIN albums, albums[a].parent # NULL, DeleteAlbum(a),
         NEW x \in Active, Held(x) # {}
  PROVE  Kept(x)
<1>1. PICK gone, orphans, o :
        gone = Subtree(a) /\ orphans = OrphanedMembers(gone) /\ o = TrashOrigin(a)
  OBVIOUS
<1>2. /\ assets' = [y \in DOMAIN assets |->
                      IF y \in orphans THEN [assets[y] EXCEPT !.trash = o] ELSE assets[y]]
      /\ members' = {m \in members : m[1] \notin gone /\ m[2] \notin orphans}
      /\ DOMAIN albums' = DOMAIN albums \ gone
  BY <1>1 DEF DeleteAlbum, Restrict
<1>3. x \in DOMAIN assets /\ assets[x] \in AssetRow /\ x \in DOMAIN assets'
  BY <1>2 DEF Active, IInv, TypeOK
<1>4. CASE x \in orphans
  <2>1. assets'[x].trash = o
    BY <1>2, <1>3, <1>4 DEF AssetRow
  <2> QED
    BY <1>1, <1>3, <2>1, OriginIsNamed DEF Kept, Trashed
<1>5. CASE x \notin orphans
  <2>1. PICK b \in Held(x) : b \notin gone
    BY <1>1, <1>5 DEF OrphanedMembers
  <2>2. b \in DOMAIN albums' /\ <<b, x>> \in members'
    BY <1>2, <1>5, <2>1 DEF Held
  <2> QED
    BY <1>3, <2>2 DEF Kept, Held
<1> QED
  BY <1>4, <1>5

LEMMA TrashKeeps ==
  ASSUME IInv, AlbumsOK, NEW y \in DOMAIN assets, NEW b \in DOMAIN albums,
         Trash(y, TrashOrigin(b)), UNCHANGED albums, NEW x \in Active, Held(x) # {}
  PROVE  Kept(x)
<1>1. PICK o : o = TrashOrigin(b) /\ o # NULL
  BY OriginIsNamed
<1>2. x \in DOMAIN assets' /\ assets[x] \in AssetRow /\ x \in DOMAIN assets
  BY DEF Trash, Active, IInv, TypeOK
<1>3. CASE x = y
  <2>1. assets'[x].trash = o
    BY <1>1, <1>2, <1>3 DEF Trash, AssetRow
  <2> QED
    BY <1>1, <1>2, <2>1 DEF Kept, Trashed
<1>4. CASE x # y
  BY <1>2, <1>4 DEF Trash, Kept, Held
<1> QED
  BY <1>3, <1>4

\* A reference goes, or one row's: the others keep their albums.
LEMMA OthersKept ==
  ASSUME NEW y, NEW x \in Active, x # y, Held(x) # {},
         DOMAIN albums \subseteq DOMAIN albums', DOMAIN assets \subseteq DOMAIN assets',
         \A m \in members : m[2] # y => m \in members'
  PROVE  Kept(x)
<1>1. PICK b \in DOMAIN albums : <<b, x>> \in members
  BY DEF Held
<1>2. <<b, x>> \in members'
  BY <1>1
<1> QED
  BY <1>1, <1>2 DEF Kept, Held, Active

LEMMA DeleteRequestKeeps ==
  ASSUME IInv, AlbumsOK, NEW i, NEW y, DeleteRequest(i, y), NEW x \in Active, Held(x) # {}
  PROVE  Kept(x)
<1>1. CASE TrashAsset(y)
  <2>1. y \in DOMAIN assets /\ Held(y) # {} /\ UNCHANGED albums
    BY <1>1 DEF TrashAsset, DeleteRequest, VisibleAsset, Active
  <2>2. PICK b \in DOMAIN albums : SourceAlbum(y) = TrashOrigin(b)
    BY <2>1, SourceIsAlbum
  <2> QED
    BY <1>1, <2>1, <2>2, TrashKeeps DEF TrashAsset
<1>2. ASSUME NEW a \in DOMAIN albums, RemoveOrTrash(a, y) PROVE Kept(x)
  <2>1. y \in DOMAIN assets /\ UNCHANGED albums /\ <<a, y>> \in members
    BY <1>2 DEF RemoveOrTrash, Active
  <2>2. CASE Held(y) # {a} /\ members' = members \ {<<a, y>>} /\ UNCHANGED assets
    <3>1. PICK b \in Held(x) : x = y => b # a
      BY <2>1, <2>2 DEF Held
    <3>2. <<b, x>> \in members' /\ b \in DOMAIN albums
      BY <2>2, <3>1 DEF Held
    <3> QED
      BY <2>1, <2>2, <3>2 DEF Kept, Held, Active
  <2>3. CASE Trash(y, TrashOrigin(a))
    BY <2>1, <2>3, TrashKeeps
  <2> QED
    BY <1>2, <2>2, <2>3 DEF RemoveOrTrash
<1> QED
  BY <1>1, <1>2 DEF DeleteRequest

LEMMA AddKeeps ==
  ASSUME Single, NEW a, NEW y, NEW o, AddAssetToAlbum(a, y, o), NEW x \in Active, Held(x) # {}
  PROVE  Kept(x)
<1>1. UNCHANGED <<albums, assets>> /\ a \in DOMAIN albums /\ y \in DOMAIN assets
  BY DEF AddAssetToAlbum
<1>2. HasHash(a, assets[y].hash) \ {y} = {}
  BY <1>1 DEF HasHash, Single
<1>3. <<a, y>> \in members' /\ \A m \in members : m[2] # y => m \in members'
  BY <1>2 DEF AddAssetToAlbum, Linked
<1>4. CASE x = y
  BY <1>1, <1>3, <1>4 DEF Kept, Held
<1>5. CASE x # y
  BY <1>1, <1>3, <1>5, OthersKept
<1> QED
  BY <1>4, <1>5

LEMMA ParkKeeps ==
  ASSUME AlbumsOK, NEW a, NEW y, RemoveOrPark(a, y), NEW x \in Active, Held(x) # {}
  PROVE  Kept(x)
<1>1. <<a, y>> \in members /\ UNCHANGED assets
  BY DEF RemoveOrPark
<1>2. CASE Held(y) # {a} /\ members' = members \ {<<a, y>>} /\ UNCHANGED <<albums, albumSeq>>
  <2>1. PICK b \in Held(x) : x = y => b # a
    BY <1>1, <1>2 DEF Held
  <2>2. <<b, x>> \in members' /\ b \in DOMAIN albums
    BY <1>2, <2>1 DEF Held
  <2> QED
    BY <1>1, <1>2, <2>2 DEF Kept, Held, Active
<1>3. CASE /\ EnsureBucket(TrunkOf(a))
           /\ members' = (members \ {<<a, y>>}) \cup {<<ParkBucket(TrunkOf(a)), y>>}
  <2>1. PICK b : b = ParkBucket(TrunkOf(a))
    OBVIOUS
  <2>2. DOMAIN albums \subseteq DOMAIN albums' /\ b \in DOMAIN albums'
    BY <1>3, <2>1, EnsureBucketGrows DEF Grown
  <2>3. <<b, y>> \in members' /\ \A m \in members : m[2] # y => m \in members'
    BY <1>3, <2>1
  <2>4. CASE x = y
    BY <1>1, <2>2, <2>3, <2>4 DEF Kept, Held, Active
  <2>5. CASE x # y
    BY <1>1, <2>2, <2>3, <2>5, OthersKept
  <2> QED
    BY <2>4, <2>5
<1> QED
  BY <1>2, <1>3 DEF RemoveOrPark

LEMMA RestoreGrows ==
  ASSUME AlbumsOK, NEW y, RestoreAsset(y)
  PROVE  Growth
<1>1. DOMAIN assets' = DOMAIN assets /\ members \subseteq members'
  BY DEF RestoreAsset
<1>2. DOMAIN albums \subseteq DOMAIN albums'
  BY EnsureChildGrows DEF RestoreAsset, Grown
<1> QED
  BY <1>1, <1>2 DEF Growth

LEMMA FileUploadGrows ==
  ASSUME AlbumsOK, NEW u, FileUpload(u)
  PROVE  Growth
<1>1. DOMAIN assets' = DOMAIN assets
  BY DEF FileUpload
<1>2. members \subseteq members'
  BY DEF FileUpload, Linked, ParkAsset
<1>3. DOMAIN albums \subseteq DOMAIN albums'
  BY EnsureBucketGrows DEF FileUpload, ParkAsset, Grown
<1> QED
  BY <1>1, <1>2, <1>3 DEF Growth

LEMMA DestroyKeeps ==
  ASSUME NEW S, Destroy(S), NEW x \in Active, Held(x) # {}
  PROVE  Kept(x)
<1>1. x \notin S /\ x \in DOMAIN assets'
  BY DEF Destroy, Active, Restrict
<1>2. PICK b \in DOMAIN albums : <<b, x>> \in members
  BY DEF Held
<1>3. <<b, x>> \in members' /\ b \in DOMAIN albums'
  BY <1>1, <1>2 DEF Destroy
<1> QED
  BY <1>1, <1>3 DEF Kept, Held

LEMMA RequestKeeps ==
  ASSUME IInv, Single, NEW i, Request(i), NEW x \in Active, Held(x) # {}
  PROVE  Kept(x)
<1>0. AlbumsOK
  BY DEF IInv, TypeOK, AlbumsOK
<1>1. CASE AlbumRequest(i)
  <2>1. ASSUME NEW n, NEW p, NEW h, CreateAlbum(i, n, p, h) PROVE Kept(x)
    <3>1. Growth
      BY <2>1 DEF CreateAlbum, InsertAlbum, WithAlbum, With, Growth
    <3> QED
      BY <3>1, GrowthKeeps
  <2>2. ASSUME NEW a, NEW n, NEW p, NEW h, UpdateAlbum(a, n, p, h) PROVE Kept(x)
    <3>1. Growth
      BY <2>2 DEF UpdateAlbum, Growth
    <3> QED
      BY <3>1, GrowthKeeps
  <2> QED
    BY <1>0, <1>1, <2>1, <2>2, MoveAlbumKeeps, DeleteAlbumKeeps DEF AlbumRequest
<1>2. ASSUME NEW y, DeleteRequest(i, y) PROVE Kept(x)
  BY <1>0, <1>2, DeleteRequestKeeps
<1>3. ASSUME NEW y, FileRequest(i, y) PROVE Kept(x)
  BY <1>0, <1>3, AddKeeps, ParkKeeps DEF FileRequest
<1>4. CASE BinRequest(i)
  BY <1>0, <1>4, RestoreGrows, GrowthKeeps, DestroyKeeps
     DEF BinRequest, DeleteAsset, ClearTrash, PurgeExpiredTrash
<1>5. ASSUME NEW a, NEW h, StartUpload(i, a, h) PROVE Kept(x)
  <2>1. Growth
    BY <1>5 DEF StartUpload, Growth
  <2> QED
    BY <2>1, GrowthKeeps
<1> QED
  BY <1>1, <1>2, <1>3, <1>4, <1>5 DEF Request

LEMMA NextKeeps ==
  ASSUME IInv, Single, [Next]_vars, NEW x \in Active, Held(x) # {}
  PROVE  Kept(x)
<1>0. AlbumsOK
  BY DEF IInv, TypeOK, AlbumsOK
<1>1. ASSUME NEW i, Register(i) PROVE Growth
  BY <1>1 DEF Register, OwnedBy, With, Growth
<1>2. ASSUME NEW u, CreateAsset(u) PROVE Growth
  BY <1>2 DEF CreateAsset, With, Growth
<1>3. ASSUME Restart \/ UNCHANGED vars PROVE Growth
  BY <1>3 DEF Restart, vars, Growth
<1> QED
  BY <1>0, <1>1, <1>2, <1>3, FileUploadGrows, GrowthKeeps, RequestKeeps DEF Next

LEMMA SingleAlways == MaxCopies =< 1 => (Spec => []Single)
<1> SUFFICES ASSUME MaxCopies =< 1 PROVE Spec => []Single
  OBVIOUS
<1>1. Init => Single
  BY DEF Init, Single
<1>2. IInv /\ Single /\ [Next]_vars => Single'
  BY SingleStep
<1> QED
  BY <1>1, <1>2, Inductive, PTL DEF Spec

\* While no two photos have the same bytes, no request loses a photo that an album holds:
\* moving, merging and deleting albums at any depth, filing, un-filing and deleting
\* photos leave it in an album or put it in the bin (store.go DeleteAlbum, MoveAlbum,
\* AddAssetToAlbum, RemoveOrPark, RemoveOrTrash).  With two it may be lost, by the early
\* detaching of AddAssetToAlbum.
THEOREM NoPhotoIsLost == MaxCopies =< 1 => (Spec => NothingLost)
<1> SUFFICES ASSUME MaxCopies =< 1 PROVE Spec => NothingLost
  OBVIOUS
<1>1. IInv /\ Single /\ [Next]_vars
        => [\A x \in Active :
              Held(x) # {} => /\ x \in (DOMAIN assets)'
                              /\ Held(x)' # {} \/ x \in Trashed']_vars
  BY NextKeeps DEF Kept
<1> QED
  BY <1>1, Inductive, SingleAlways, PTL DEF Spec, NothingLost
=============================================================================
