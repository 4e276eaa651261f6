----------------------------- MODULE FeedProofs -----------------------------
(***************************************************************************)
(* Theorems about Feed, for every value of its constants: the types, and    *)
(* that the cursor passes no deletion the device has still to act on.       *)
(***************************************************************************)
EXTENDS Feed, FiniteSetTheorems, SequenceTheorems, WellFoundedInduction, TLAPS

-----------------------------------------------------------------------------
(* Numbers and sequences                                                    *)

\* A non-empty set of naturals that has a bound has a greatest one.
LEMMA MaxIsGreatest ==
  ASSUME NEW n \in Nat, NEW S \in SUBSET (0..n), S # {}
  PROVE  Max(S) \in S /\ \A y \in S : y <= Max(S)
<1> DEFINE R == {ss \in Nat \X Nat : ss[1] < ss[2]}
           T == {k \in 0..n : n - k \in S}
<1>1. IsWellFoundedOn(R, Nat)
  BY NatLessThanWellFounded, Zenon DEF OpToRel
<1>2. T # {} /\ T \subseteq Nat
  <2>1. PICK x \in S : TRUE
    OBVIOUS
  <2>2. n - (n - x) = x /\ n - x \in 0..n
    BY <2>1
  <2>3. n - x \in T
    BY <2>1, <2>2
  <2>4. T \subseteq Nat
    OBVIOUS
  <2> HIDE DEF T
  <2> QED
    BY <2>3, <2>4
<1>3. PICK k \in T : \A j \in T : <<j, k>> \notin R
  <2> HIDE DEF R, T
  <2> QED
    BY <1>1, <1>2, WFMin
<1>4. n - k \in S
  BY <1>3
<1>5. ASSUME NEW y \in S PROVE n - k >= y
  <2>1. n - y \in T /\ y \in Nat
    BY <1>5
  <2>2. ~(n - y < k)
    BY <1>2, <1>3, <2>1
  <2> QED
    BY <1>2, <2>1, <2>2
<1>6. \A y \in S : Max(S) >= y /\ Max(S) \in S
  BY <1>4, <1>5 DEF Max
<1> QED
  BY <1>4, <1>6

\* SetToSeq has every element of a finite set, and nothing else.
LEMMA SetToSeqElements ==
  ASSUME NEW S, IsFiniteSet(S)
  PROVE  /\ SetToSeq(S) \in [1..Cardinality(S) -> S]
         /\ \A x \in S : \E n \in 1..Cardinality(S) : SetToSeq(S)[n] = x
<1> DEFINE N == Cardinality(S)
           f == SetToSeq(S)
<1>1. N \in Nat /\ ExistsBijection(1..N, S)
  BY FS_CardinalityType
<1>2. PICK g : g \in Injection(1..N, S)
  BY <1>1 DEF ExistsBijection, Bijection
<1>3. f \in Injection(1..N, S)
  BY <1>2 DEF SetToSeq, Injection
<1>4. Cardinality(1..N) = Cardinality(S)
  BY <1>1, FS_Interval
<1>5. f \in Surjection(1..N, S)
  BY <1>3, <1>4, FS_Injection
<1> QED
  BY <1>3, <1>5 DEF Injection, Surjection

Has(es, e) == \E n \in 1..Len(es) : es[n] = e

LEMMA ForEachElements ==
  ASSUME NEW S \in SUBSET Photo, NEW entity \in {"asset", "album_asset"},
         NEW op \in {"create", "update", "delete"}
  PROVE  /\ ForEach(S, entity, op) \in Seq(Entry)
         /\ \A p \in S : Has(ForEach(S, entity, op), Change(entity, p, op))
<1>1. IsFiniteSet(S)
  <2>1. IsFiniteSet(Photo)
    BY FS_Interval, BoundAssumption DEF Photo
  <2> QED
    BY <2>1, FS_Subset
<1>2. PICK N \in Nat : N = Cardinality(S)
  BY <1>1, FS_CardinalityType
<1>3. PICK f \in [1..N -> S] : f = SetToSeq(S) /\ \A x \in S : \E n \in 1..N : f[n] = x
  BY <1>1, <1>2, SetToSeqElements
<1>4. ForEach(S, entity, op) = [n \in 1..N |-> Change(entity, f[n], op)]
  BY <1>2, <1>3 DEF ForEach
<1>5. \A n \in 1..N : Change(entity, f[n], op) \in Entry
  BY <1>3 DEF Change, Entry
<1>6. ForEach(S, entity, op) \in Seq(Entry) /\ Len(ForEach(S, entity, op)) = N
  BY <1>4, <1>5
<1> QED
  BY <1>3, <1>4, <1>6 DEF Has

LEMMA HasConcat ==
  ASSUME NEW s \in Seq(Entry), NEW t \in Seq(Entry)
  PROVE  s \o t \in Seq(Entry) /\ \A e : Has(s, e) \/ Has(t, e) => Has(s \o t, e)
<1>1. /\ s \o t \in Seq(Entry) /\ Len(s \o t) = Len(s) + Len(t)
      /\ Len(s) \in Nat /\ Len(t) \in Nat
      /\ \A i \in 1..Len(s) + Len(t) :
            (s \o t)[i] = IF i <= Len(s) THEN s[i] ELSE t[i - Len(s)]
  BY ConcatProperties, LenProperties
<1>2. ASSUME NEW e, Has(s, e) PROVE Has(s \o t, e)
  <2>1. PICK n \in 1..Len(s) : s[n] = e
    BY <1>2 DEF Has
  <2> QED
    BY <1>1, <2>1 DEF Has
<1>3. ASSUME NEW e, Has(t, e) PROVE Has(s \o t, e)
  <2>1. PICK n \in 1..Len(t) : t[n] = e
    BY <1>3 DEF Has
  <2>2. n + Len(s) \in 1..Len(s) + Len(t) /\ (s \o t)[n + Len(s)] = e
    BY <1>1, <2>1
  <2> QED
    BY <1>1, <2>2 DEF Has
<1> QED
  BY <1>1, <1>2, <1>3

LEMMA HasOne ==
  ASSUME NEW e \in Entry
  PROVE  <<e>> \in Seq(Entry) /\ Has(<<e>>, e)
BY DEF Has

LEMMA HasTwo ==
  ASSUME NEW e \in Entry, NEW d \in Entry
  PROVE  <<e, d>> \in Seq(Entry) /\ Has(<<e, d>>, e) /\ Has(<<e, d>>, d)
<1>1. <<e, d>> \in Seq(Entry) /\ Len(<<e, d>>) = 2 /\ <<e, d>>[1] = e /\ <<e, d>>[2] = d
  OBVIOUS
<1>2. 1 \in 1..2 /\ 2 \in 1..2
  OBVIOUS
<1> QED
  BY <1>1, <1>2 DEF Has

LEMMA WhenType == ASSUME NEW c, NEW e \in Entry PROVE When(c, e) \in Seq(Entry)
BY DEF When

LEMMA PhotoEntries ==
  ASSUME NEW p \in Photo, NEW entity \in {"asset", "album_asset"},
         NEW op \in {"create", "update", "delete"}
  PROVE  Change(entity, p, op) \in Entry
BY DEF Change, Entry

LEMMA AlbumEntries ==
  ASSUME NEW a \in Album, NEW op \in {"create", "update", "delete"}
  PROVE  Change("album", a, op) \in Entry
BY DEF Change, Entry

-----------------------------------------------------------------------------
(* Transactions                                                             *)

\* What TypeOK says of the library.
LibraryOK ==
    /\ albumSeq \in 1..MaxAlbum /\ photoSeq \in 0..MaxPhoto
    /\ home \in [Album -> Space \cup {NULL}]
    /\ filed \in [Photo -> SUBSET Place]
    /\ bin \in [Photo -> BinRow \cup {NULL}]
    /\ \A p \in Photo : \A q \in filed[p] : There(q)
    /\ uploads \subseteq Photo \X Place

\* A transaction logs es, and the delete of every photo it puts into the bin.
Tells(es) ==
    /\ es \in Seq(Entry)
    /\ log' = log \o es
    /\ \A p \in Photo : bin'[p] \in {bin[p], NULL} \/ Has(es, Change("asset", p, "delete"))

Transaction == LibraryOK' /\ \E es : Tells(es)

LEMMA Spaces ==
  /\ NULL \notin Space
  /\ \A s \in Space : s \in Place /\ SpaceOf(s) = s /\ There(s)
  /\ \A i \in Identity : Sight(i) \subseteq Space
BY SpaceAssumption DEF Space, Place, SpaceOf, There, Sight

LEMMA SpaceOfType ==
  ASSUME LibraryOK, NEW q \in Place, There(q)
  PROVE  SpaceOf(q) \in Space
BY DEF LibraryOK, Place, SpaceOf, There

\* Places that stay are still there when an album comes or one that nothing is in goes.
LEMMA StillThere ==
  ASSUME LibraryOK, NEW q \in Place, There(q), q \in Album => home'[q] # NULL
  PROVE  There(q)'
BY Spaces DEF There, SpaceOf, Place

LEMMA CreateAlbumStep ==
  ASSUME LibraryOK, NEW a \in Album, NEW s \in Space, CreateAlbum(a, s)
  PROVE  Transaction
<1>1. home' = [home EXCEPT ![a] = s] /\ UNCHANGED <<photoSeq, filed, bin, uploads>>
      /\ albumSeq' = a
  BY DEF CreateAlbum, NewAlbum
<1>2. \A p \in Photo : \A q \in filed[p] : There(q)'
  BY <1>1, Spaces, StillThere DEF LibraryOK, There, SpaceOf
<1>3. LibraryOK'
  BY <1>1, <1>2 DEF LibraryOK, Album
<1>4. Tells(<<Change("album", a, "create")>>)
  BY <1>1, AlbumEntries, HasOne DEF Tells, CreateAlbum, Log
<1> QED
  BY <1>3, <1>4 DEF Transaction

\* What only logs.
LEMMA UpdateStep ==
  ASSUME LibraryOK, NEW e \in Entry, Log(<<e>>), UNCHANGED library
  PROVE  Transaction
<1>1. LibraryOK'
  BY DEF LibraryOK, library, There, SpaceOf
<1>2. Tells(<<e>>)
  BY HasOne DEF Tells, Log, library
<1> QED
  BY <1>1, <1>2 DEF Transaction

LEMMA DeleteAlbumStep ==
  ASSUME LibraryOK, NEW a \in Album, home[a] \in Space, DeleteAlbum(a)
  PROVE  Transaction
<1>1. PICK orphans \in SUBSET Photo :
        /\ bin' = [p \in Photo |-> IF p \in orphans
                                   THEN [space |-> home[a], from |-> a] ELSE bin[p]]
        /\ Log(ForEach(orphans, "asset", "delete") \o <<Change("album", a, "delete")>>)
  BY DEF DeleteAlbum
<1>2. /\ home' = [home EXCEPT ![a] = NULL]
      /\ filed' = [p \in Photo |-> filed[p] \ {a}]
      /\ UNCHANGED <<albumSeq, photoSeq, uploads>>
  BY DEF DeleteAlbum
<1>3. [space |-> home[a], from |-> a] \in BinRow
  BY DEF BinRow, Place
<1>4. \A p \in Photo : \A q \in filed'[p] : There(q)'
  BY <1>2, Spaces, StillThere DEF LibraryOK, There, SpaceOf
<1>5. LibraryOK'
  <2>1. home' \in [Album -> Space \cup {NULL}] /\ filed' \in [Photo -> SUBSET Place]
    BY <1>2 DEF LibraryOK
  <2>2. bin' \in [Photo -> BinRow \cup {NULL}]
    BY <1>1, <1>3 DEF LibraryOK
  <2> QED
    BY <1>2, <1>4, <2>1, <2>2 DEF LibraryOK
<1> DEFINE gone == ForEach(orphans, "asset", "delete")
           own == <<Change("album", a, "delete")>>
<1>6. /\ gone \in Seq(Entry) /\ own \in Seq(Entry)
      /\ \A p \in orphans : Has(gone, Change("asset", p, "delete"))
  BY ForEachElements, AlbumEntries, HasOne
<1>7. Tells(gone \o own)
  <2>1. log' = log \o (gone \o own)
    BY <1>1 DEF Log
  <2>2. \A p \in Photo : p \in orphans \/ bin'[p] = bin[p]
    BY <1>1
  <2> HIDE DEF gone, own
  <2> QED
    BY <1>6, <2>1, <2>2, HasConcat DEF Tells
<1> QED
  BY <1>5, <1>7 DEF Transaction

LEMMA MoveAlbumStep ==
  ASSUME LibraryOK, NEW a \in Album, NEW s \in Space, MoveAlbum(a, s)
  PROVE  Transaction
<1>1. home' = [home EXCEPT ![a] = s] /\ UNCHANGED <<albumSeq, photoSeq, filed, bin, uploads>>
  BY DEF MoveAlbum
<1>2. \A p \in Photo : \A q \in filed[p] : There(q)'
  BY <1>1, Spaces, StillThere DEF LibraryOK, There, SpaceOf
<1>3. LibraryOK'
  BY <1>1, <1>2 DEF LibraryOK
<1>4. Tells(<<Change("album", a, "update")>>)
  BY <1>1, AlbumEntries, HasOne DEF Tells, MoveAlbum, Log
<1> QED
  BY <1>3, <1>4 DEF Transaction

LEMMA MergeIntoStep ==
  ASSUME LibraryOK, NEW a \in Album, NEW t \in Album \ {a}, home[t] \in Space, MergeInto(a, t)
  PROVE  Transaction
<1>1. PICK added \in SUBSET Photo :
        Log(<<Change("album", t, "update"), Change("album", a, "delete")>>
            \o ForEach(added, "album_asset", "create"))
  BY DEF MergeInto
<1>2. /\ home' = [home EXCEPT ![a] = NULL]
      /\ filed' = [p \in Photo |-> IF a \in filed[p] THEN (filed[p] \ {a}) \cup {t}
                                   ELSE filed[p]]
      /\ UNCHANGED <<albumSeq, photoSeq, bin, uploads>>
  BY DEF MergeInto
<1>3. There(t) /\ t \in Place
  BY Spaces DEF There, SpaceOf, Place
<1>4. ASSUME NEW p \in Photo, NEW q \in filed'[p] PROVE There(q)'
  <2>1. (q \in filed[p] \/ q = t) /\ q # a
    BY <1>2, <1>4
  <2>2. q \in Place /\ There(q)
    BY <1>3, <2>1 DEF LibraryOK
  <2>3. q \in Album => home'[q] = home[q]
    BY <1>2, <2>1 DEF LibraryOK
  <2>4. q \in Album => home'[q] # NULL \/ q \in Space
    BY <2>2, <2>3 DEF There, SpaceOf
  <2> QED
    BY <2>2, <2>4, StillThere, Spaces DEF There, SpaceOf
<1>5. LibraryOK'
  <2>1. home' \in [Album -> Space \cup {NULL}] /\ filed' \in [Photo -> SUBSET Place]
    BY <1>2, <1>3 DEF LibraryOK
  <2> QED
    BY <1>2, <1>4, <2>1 DEF LibraryOK
<1> DEFINE own == <<Change("album", t, "update"), Change("album", a, "delete")>>
           more == ForEach(added, "album_asset", "create")
<1>6. own \in Seq(Entry) /\ more \in Seq(Entry)
  BY AlbumEntries, HasTwo, ForEachElements
<1>7. Tells(own \o more)
  <2>1. log' = log \o (own \o more)
    BY <1>1 DEF Log
  <2> HIDE DEF own, more
  <2> QED
    BY <1>2, <1>6, <2>1, HasConcat DEF Tells
<1> QED
  BY <1>5, <1>7 DEF Transaction

LEMMA CreateAssetStep ==
  ASSUME LibraryOK, NEW p \in Photo, NEW q \in Place, CreateAsset(p, q)
  PROVE  Transaction
<1>1. /\ photoSeq' = p /\ uploads' = uploads \cup {<<p, q>>}
      /\ UNCHANGED <<albumSeq, home, filed, bin>>
  BY DEF CreateAsset
<1>2. LibraryOK'
  BY <1>1, BoundAssumption DEF LibraryOK, There, SpaceOf, Photo
<1>3. Tells(<<Change("asset", p, "create")>>)
  BY <1>1, PhotoEntries, HasOne DEF Tells, CreateAsset, Log
<1> QED
  BY <1>2, <1>3 DEF Transaction

\* Places where a photo is put are there.
LEMMA Refiled ==
  ASSUME LibraryOK, NEW p \in Photo, NEW S \in SUBSET Place, \A q \in S : There(q),
         filed' = [filed EXCEPT ![p] = S], UNCHANGED <<albumSeq, photoSeq, home>>,
         bin' \in [Photo -> BinRow \cup {NULL}], uploads' \subseteq Photo \X Place
  PROVE  LibraryOK'
<1>1. filed' \in [Photo -> SUBSET Place]
  BY DEF LibraryOK
<1>2. \A x \in Photo : \A q \in filed'[x] : There(q)'
  BY DEF LibraryOK, There, SpaceOf
<1> QED
  BY <1>1, <1>2 DEF LibraryOK

LEMMA FileUploadStep ==
  ASSUME LibraryOK, NEW p \in Photo, NEW q \in Place, FileUpload(p, q)
  PROVE  Transaction
<1> DEFINE s == IF There(q) THEN SpaceOf(q) ELSE SHARED
<1>1. s \in Space
  BY SpaceOfType DEF Space
<1>2. /\ uploads' \subseteq Photo \X Place
      /\ filed' = [filed EXCEPT ![p] = {s}]
      /\ UNCHANGED <<albumSeq, photoSeq, home, bin>>
  BY DEF FileUpload, LibraryOK
<1> HIDE DEF s
<1>3. {s} \in SUBSET Place /\ \A r \in {s} : There(r)
  BY <1>1, Spaces
<1>4. LibraryOK'
  BY <1>2, <1>3, Refiled DEF LibraryOK
<1>5. Tells(<<Change("album_asset", p, "create")>>)
  BY <1>2, PhotoEntries, HasOne DEF Tells, FileUpload, Log
<1> QED
  BY <1>4, <1>5 DEF Transaction

LEMMA AddAssetStep ==
  ASSUME LibraryOK, NEW p \in Photo, NEW q \in Place, There(q), NEW onlyHere \in BOOLEAN,
         AddAssetToAlbum(p, q, onlyHere)
  PROVE  Transaction
<1>1. PICK rest \in SUBSET filed[p] :
        /\ filed' = [filed EXCEPT ![p] = rest \cup {q}]
        /\ Log(When(rest # filed[p], Change("album_asset", p, "delete"))
               \o When(q \notin rest, Change("album_asset", p, "create")))
        /\ UNCHANGED <<albumSeq, photoSeq, home, bin, uploads>>
  BY DEF AddAssetToAlbum
<1>2. rest \cup {q} \in SUBSET Place /\ \A r \in rest \cup {q} : There(r)
  BY DEF LibraryOK
<1>3. LibraryOK'
  BY <1>1, <1>2, Refiled DEF LibraryOK
<1> DEFINE del == When(rest # filed[p], Change("album_asset", p, "delete"))
           add == When(q \notin rest, Change("album_asset", p, "create"))
<1>4. del \in Seq(Entry) /\ add \in Seq(Entry)
  BY PhotoEntries, WhenType
<1>5. Tells(del \o add)
  <2>1. log' = log \o (del \o add)
    BY <1>1 DEF Log
  <2> HIDE DEF del, add
  <2> QED
    BY <1>1, <1>4, <2>1, HasConcat DEF Tells
<1> QED
  BY <1>3, <1>5 DEF Transaction

\* The bin keeps where a photo came from.
LEMMA BinStep ==
  ASSUME LibraryOK, NEW p \in Photo, NEW q \in filed[p], Bin(p, q)
  PROVE  LibraryOK' /\ \A x \in Photo : x = p \/ bin'[x] = bin[x]
<1>1. q \in Place /\ There(q)
  BY DEF LibraryOK
<1>2. [space |-> SpaceOf(q), from |-> q] \in BinRow
  BY <1>1, SpaceOfType DEF BinRow
<1>3. /\ bin' = [bin EXCEPT ![p] = [space |-> SpaceOf(q), from |-> q]]
      /\ filed' = [filed EXCEPT ![p] = {}]
      /\ UNCHANGED <<albumSeq, photoSeq, home, uploads>>
  BY DEF Bin
<1>4. bin' \in [Photo -> BinRow \cup {NULL}]
  BY <1>2, <1>3 DEF LibraryOK
<1>5. {} \in SUBSET Place /\ uploads' \subseteq Photo \X Place
  BY <1>3 DEF LibraryOK
<1>6. LibraryOK'
  BY <1>3, <1>4, <1>5, Refiled
<1> QED
  BY <1>3, <1>6 DEF LibraryOK

LEMMA TrashAssetStep ==
  ASSUME LibraryOK, NEW p \in Photo, TrashAsset(p)
  PROVE  Transaction
<1>1. LibraryOK' /\ \A x \in Photo : x = p \/ bin'[x] = bin[x]
  BY BinStep DEF TrashAsset
<1>2. Tells(<<Change("asset", p, "delete")>>)
  BY <1>1, PhotoEntries, HasOne DEF Tells, TrashAsset, Log
<1> QED
  BY <1>1, <1>2 DEF Transaction

LEMMA RemoveOrTrashStep ==
  ASSUME LibraryOK, NEW p \in Photo, NEW q \in filed[p], RemoveOrTrash(p, q)
  PROVE  Transaction
<1> DEFINE gone == Change("album_asset", p, "delete")
           dead == Change("asset", p, "delete")
<1>1. gone \in Entry /\ dead \in Entry
  BY PhotoEntries
<1>2. CASE filed[p] = {q}
  <2>1. Bin(p, q) /\ log' = log \o <<gone, dead>>
    BY <1>2 DEF RemoveOrTrash, Log
  <2>2. LibraryOK' /\ \A x \in Photo : x = p \/ bin'[x] = bin[x]
    BY <2>1, BinStep
  <2> HIDE DEF gone
  <2>3. Tells(<<gone, dead>>)
    BY <1>1, <2>1, <2>2, HasTwo DEF Tells
  <2> QED
    BY <2>2, <2>3 DEF Transaction
<1>3. CASE filed[p] # {q}
  <2>1. /\ filed' = [filed EXCEPT ![p] = filed[p] \ {q}]
        /\ log' = log \o <<gone>>
        /\ UNCHANGED <<albumSeq, photoSeq, home, bin, uploads>>
    BY <1>3 DEF RemoveOrTrash, Log
  <2>2. /\ filed[p] \ {q} \in SUBSET Place /\ \A r \in filed[p] \ {q} : There(r)
        /\ bin' \in [Photo -> BinRow \cup {NULL}] /\ uploads' \subseteq Photo \X Place
    BY <2>1 DEF LibraryOK
  <2>3. LibraryOK'
    BY <2>1, <2>2, Refiled
  <2>4. Tells(<<gone>>)
    BY <1>1, <2>1, HasOne DEF Tells
  <2> QED
    BY <2>3, <2>4 DEF Transaction
<1> QED
  BY <1>2, <1>3

LEMMA RemoveOrParkStep ==
  ASSUME LibraryOK, NEW p \in Photo, NEW q \in filed[p], RemoveOrPark(p, q)
  PROVE  Transaction
<1> DEFINE S == IF filed[p] = {q} THEN {SpaceOf(q)} ELSE filed[p] \ {q}
           gone == <<Change("album_asset", p, "delete")>>
           back == When(filed[p] = {q}, Change("album_asset", p, "create"))
<1>1. /\ filed' = [filed EXCEPT ![p] = S]
      /\ log' = log \o (gone \o back)
      /\ UNCHANGED <<albumSeq, photoSeq, home, bin, uploads>>
  BY DEF RemoveOrPark, Log, LibraryOK
<1>2. q \in Place /\ There(q)
  BY DEF LibraryOK
<1>3. S \in SUBSET Place /\ \A r \in S : There(r)
  <2>1. SpaceOf(q) \in Space
    BY <1>2, SpaceOfType
  <2> QED
    BY <2>1, Spaces DEF LibraryOK
<1> HIDE DEF S
<1>4. LibraryOK'
  BY <1>1, <1>3, Refiled DEF LibraryOK
<1>5. gone \in Seq(Entry) /\ back \in Seq(Entry)
  BY PhotoEntries, HasOne, WhenType
<1> HIDE DEF gone, back
<1>6. Tells(gone \o back)
  BY <1>1, <1>5, HasConcat DEF Tells
<1> QED
  BY <1>4, <1>6 DEF Transaction

LEMMA RestoreAssetStep ==
  ASSUME LibraryOK, NEW p \in Photo, bin[p] # NULL, RestoreAsset(p)
  PROVE  Transaction
<1> DEFINE o == bin[p]
           back == Change("asset", p, "create")
<1>1. o \in BinRow /\ o.from \in Place /\ o.space \in Space
  BY DEF LibraryOK, BinRow
<1>2. /\ bin' = [bin EXCEPT ![p] = NULL] /\ UNCHANGED <<photoSeq, uploads>>
      /\ bin' \in [Photo -> BinRow \cup {NULL}]
      /\ \A x \in Photo : bin'[x] \in {bin[x], NULL}
  BY DEF RestoreAsset, LibraryOK
<1>3. back \in Entry /\ <<back>> \in Seq(Entry)
  BY PhotoEntries, HasOne
\* Where it goes is there already.
<1>4. ASSUME NEW q \in Place, There(q), filed' = [filed EXCEPT ![p] = filed[p] \cup {q}],
             Log(<<back>>), UNCHANGED <<albumSeq, home>>
      PROVE  Transaction
  <2>1. /\ filed[p] \cup {q} \in SUBSET Place /\ \A r \in filed[p] \cup {q} : There(r)
        /\ uploads' \subseteq Photo \X Place
    BY <1>2, <1>4 DEF LibraryOK
  <2>2. LibraryOK'
    BY <1>2, <1>4, <2>1, Refiled
  <2>3. Tells(<<back>>)
    BY <1>2, <1>3, <1>4 DEF Tells, Log
  <2> QED
    BY <2>2, <2>3 DEF Transaction
\* An album is made for it.
<1>5. ASSUME NEW a \in Album, filed' = [filed EXCEPT ![p] = filed[p] \cup {a}],
             NewAlbum(a, o.space), Log(<<Change("album", a, "create"), back>>)
      PROVE  Transaction
  <2>1. albumSeq' = a /\ home' = [home EXCEPT ![a] = o.space]
    BY <1>5 DEF NewAlbum
  <2>2. filed' \in [Photo -> SUBSET Place] /\ home' \in [Album -> Space \cup {NULL}]
    BY <1>1, <1>5, <2>1 DEF LibraryOK, Place
  <2>3. \A x \in Photo : \A q \in filed'[x] : q \in filed[x] \/ q = a
    BY <1>5 DEF LibraryOK
  <2>4. There(a)'
    BY <1>1, <2>1, Spaces DEF There, SpaceOf, LibraryOK
  <2>5. \A x \in Photo : \A q \in filed'[x] : There(q)'
    <3> SUFFICES ASSUME NEW x \in Photo, NEW q \in filed[x] PROVE There(q)'
      BY <2>3, <2>4
    <3>1. q \in Place /\ There(q)
      BY DEF LibraryOK
    <3>2. q \in Album => q \in Space \/ home'[q] # NULL
      BY <1>1, <2>1, <3>1, Spaces DEF There, SpaceOf, LibraryOK
    <3> QED
      BY <3>1, <3>2, StillThere, Spaces DEF There, SpaceOf
  <2>6. LibraryOK'
    BY <1>2, <2>1, <2>2, <2>5 DEF LibraryOK, Album
  <2>7. Tells(<<Change("album", a, "create"), back>>)
    BY <1>2, <1>3, <1>5, AlbumEntries, HasTwo DEF Tells, Log
  <2> QED
    BY <2>6, <2>7 DEF Transaction
<1>6. CASE There(o.from)
  BY <1>1, <1>4, <1>6 DEF RestoreAsset, LibraryOK
<1>7. CASE ~There(o.from)
  <2>1. ASSUME NEW b \in Album, home[b] = o.space
        PROVE  b \in Place /\ There(b)
    BY <1>1, <2>1, Spaces DEF There, SpaceOf, Place
  <2> QED
    BY <1>4, <1>5, <1>7, <2>1 DEF RestoreAsset, LibraryOK
<1> QED
  BY <1>6, <1>7

LEMMA DestroyStep ==
  ASSUME LibraryOK, NEW S \in SUBSET Photo, Destroy(S)
  PROVE  Transaction
<1>1. /\ filed' = [p \in Photo |-> IF p \in S THEN {} ELSE filed[p]]
      /\ bin' = [p \in Photo |-> IF p \in S THEN NULL ELSE bin[p]]
      /\ log' = log \o ForEach(S, "asset", "delete")
      /\ UNCHANGED <<albumSeq, photoSeq, home, uploads>>
  BY DEF Destroy, Log
<1>2. LibraryOK'
  <2>1. filed' \in [Photo -> SUBSET Place] /\ bin' \in [Photo -> BinRow \cup {NULL}]
    BY <1>1 DEF LibraryOK
  <2>2. \A p \in Photo : \A q \in filed'[p] : There(q)'
    BY <1>1 DEF LibraryOK, There, SpaceOf
  <2> QED
    BY <1>1, <2>1, <2>2 DEF LibraryOK
<1>3. Tells(ForEach(S, "asset", "delete"))
  BY <1>1, ForEachElements DEF Tells
<1> QED
  BY <1>2, <1>3 DEF Transaction

LEMMA AlbumRequestStep ==
  ASSUME LibraryOK, NEW i \in Identity, AlbumRequest(i)
  PROVE  Transaction
<1>1. Sight(i) \subseteq Space
  BY Spaces
<1>2. ASSUME NEW a \in Album, NEW s \in Sight(i), CreateAlbum(a, s) PROVE Transaction
  BY <1>1, <1>2, CreateAlbumStep
<1>3. ASSUME NEW a \in Album, home[a] \in Sight(i), UpdateAlbum(a) PROVE Transaction
  BY <1>3, AlbumEntries, UpdateStep DEF UpdateAlbum
<1>4. ASSUME NEW a \in Album, home[a] \in Sight(i), DeleteAlbum(a) PROVE Transaction
  BY <1>1, <1>4, DeleteAlbumStep
<1>5. ASSUME NEW a \in Album, NEW s \in Sight(i), MoveAlbum(a, s) PROVE Transaction
  BY <1>1, <1>5, MoveAlbumStep
<1>6. ASSUME NEW a \in Album, NEW t \in Album \ {a}, home[t] \in Sight(i), MergeInto(a, t)
      PROVE  Transaction
  BY <1>1, <1>6, MergeIntoStep
<1> QED
  BY <1>2, <1>3, <1>4, <1>5, <1>6 DEF AlbumRequest

LEMMA PhotoRequestStep ==
  ASSUME LibraryOK, NEW i \in Identity, PhotoRequest(i)
  PROVE  Transaction
<1>1. ASSUME NEW p \in Photo, NEW q \in Place, There(q), CreateAsset(p, q)
      PROVE  Transaction
  BY <1>1, CreateAssetStep
<1>2. ASSUME NEW p \in Photo, NEW q \in Place, There(q), PlaceRequest(i, p, q)
      PROVE  Transaction
  BY <1>2, AddAssetStep, RemoveOrTrashStep, RemoveOrParkStep DEF PlaceRequest
<1>3. ASSUME NEW p \in Photo, UpdateAssetName(p) PROVE Transaction
  BY <1>3, PhotoEntries, UpdateStep DEF UpdateAssetName
<1>4. ASSUME NEW p \in Photo, TrashAsset(p) PROVE Transaction
  BY <1>4, TrashAssetStep
<1>5. ASSUME NEW p \in Photo, bin[p] # NULL, RestoreAsset(p) PROVE Transaction
  BY <1>5, RestoreAssetStep
<1> QED
  BY <1>1, <1>2, <1>3, <1>4, <1>5 DEF PhotoRequest

LEMMA ServerStep ==
  ASSUME LibraryOK, Server
  PROVE  Transaction /\ UNCHANGED device
<1>1. ASSUME NEW i \in Identity, AlbumRequest(i) \/ PhotoRequest(i) PROVE Transaction
  BY <1>1, AlbumRequestStep, PhotoRequestStep
<1>2. ASSUME NEW u \in uploads, FileUpload(u[1], u[2]) PROVE Transaction
  BY <1>2, FileUploadStep DEF LibraryOK
<1>3. ASSUME NEW S \in SUBSET {p \in Photo : bin[p] # NULL}, Destroy(S) PROVE Transaction
  BY <1>3, DestroyStep
<1> QED
  BY <1>1, <1>2, <1>3 DEF Server

-----------------------------------------------------------------------------
(* The log                                                                  *)

Deletion(p) == Change("asset", p, "delete")

\* LastDelete, of any log.
LastIn(l, p) ==
    LET deletes == {n \in DOMAIN l : l[n] = Deletion(p)}
    IN  IF deletes = {} THEN 0 ELSE Max(deletes)

LEMMA LastInIsLast ==
  ASSUME NEW l \in Seq(Entry), NEW p
  PROVE  /\ LastIn(l, p) \in 0..Len(l)
         /\ LastIn(l, p) # 0 => l[LastIn(l, p)] = Deletion(p)
         /\ \A n \in 1..Len(l) : l[n] = Deletion(p) => n <= LastIn(l, p)
<1> DEFINE D == {n \in DOMAIN l : l[n] = Deletion(p)}
<1>1. Len(l) \in Nat /\ DOMAIN l = 1..Len(l)
  BY LenProperties
<1>2. LastIn(l, p) = IF D = {} THEN 0 ELSE Max(D)
  BY DEF LastIn
<1>3. D \in SUBSET (0..Len(l)) /\ 0 \notin D
  BY <1>1
<1>4. CASE D = {}
  BY <1>1, <1>2, <1>4
<1>5. CASE D # {}
  <2>1. Max(D) \in D /\ \A y \in D : y <= Max(D)
    <3> HIDE DEF D
    <3> QED
      BY <1>1, <1>3, <1>5, MaxIsGreatest
  <2> QED
    BY <1>1, <1>2, <1>5, <2>1
<1> QED
  BY <1>4, <1>5

LEMMA LastDeleteIsLastIn ==
  \A p : LastDelete(p) = LastIn(log, p) /\ LastDelete(p)' = LastIn(log', p)
BY DEF LastDelete, LastIn, Deletion, Change

LEMMA LastDeleteIsLast ==
  ASSUME log \in Seq(Entry), NEW p
  PROVE  /\ LastDelete(p) \in 0..Len(log)
         /\ LastDelete(p) # 0 => log[LastDelete(p)] = Deletion(p)
BY LastInIsLast, LastDeleteIsLastIn

\* The log only grows: the last delete of a photo stays, or a later one has been logged.
LEMMA LogGrows ==
  ASSUME log \in Seq(Entry), NEW es \in Seq(Entry), log' = log \o es, NEW p
  PROVE  /\ log' \in Seq(Entry) /\ Len(log) <= Len(log') /\ Len(log) \in Nat /\ Len(log') \in Nat
         /\ LastDelete(p)' = LastDelete(p) \/ LastDelete(p)' > Len(log)
         /\ Has(es, Deletion(p)) => LastDelete(p)' > Len(log)
<1>1. /\ log' \in Seq(Entry) /\ Len(log') = Len(log) + Len(es)
      /\ Len(log) \in Nat /\ Len(es) \in Nat
      /\ \A i \in 1..Len(log) + Len(es) :
            log'[i] = IF i <= Len(log) THEN log[i] ELSE es[i - Len(log)]
  BY ConcatProperties, LenProperties
<1>2. \A n \in 1..Len(log) : log'[n] = log[n] /\ n \in 1..Len(log')
  BY <1>1
<1>3. PICK d : d = LastIn(log, p)
  OBVIOUS
<1>4. PICK e : e = LastIn(log', p)
  OBVIOUS
<1>5. /\ d \in 0..Len(log)
      /\ d # 0 => log[d] = Deletion(p)
      /\ \A n \in 1..Len(log) : log[n] = Deletion(p) => n <= d
  BY <1>3, LastInIsLast
<1>6. /\ e \in 0..Len(log')
      /\ e # 0 => log'[e] = Deletion(p)
      /\ \A n \in 1..Len(log') : log'[n] = Deletion(p) => n <= e
  BY <1>1, <1>4, LastInIsLast
<1>7. e = d \/ e > Len(log)
  <2>1. d <= e
    BY <1>1, <1>2, <1>5, <1>6
  <2>2. e # 0 /\ e <= Len(log) => e <= d
    BY <1>1, <1>2, <1>5, <1>6
  <2> QED
    BY <1>1, <1>5, <1>6, <2>1, <2>2
<1>8. Has(es, Deletion(p)) => e > Len(log)
  <2> SUFFICES ASSUME NEW n \in 1..Len(es), es[n] = Deletion(p) PROVE e > Len(log)
    BY DEF Has
  <2>1. Len(log) + n \in 1..Len(log') /\ log'[Len(log) + n] = Deletion(p)
    BY <1>1
  <2> QED
    BY <1>1, <1>6, <2>1
<1> QED
  BY <1>1, <1>3, <1>4, <1>7, <1>8, LastDeleteIsLastIn

-----------------------------------------------------------------------------
(* Types                                                                    *)

PullType ==
    [at : {"idle", "asked", "going"}, from : Nat, by : Identity \cup {NULL},
     todo : SUBSET Nat, max : Nat]

PullOK ==
    /\ pull \in PullType
    /\ pull.from <= Len(log) /\ pull.max <= Len(log)
    /\ pull.at = "going" => pull.from <= pull.max
    /\ pull.todo \subseteq pull.from + 1 .. pull.max

DeviceOK ==
    /\ log \in Seq(Entry)
    /\ me \in Identity
    /\ cursor \in 0..Len(log)
    /\ kept \in [Photo -> 0..Len(log) \cup {NULL}]
    /\ PullOK

TypeInv == LibraryOK /\ DeviceOK

LEMMA TypeInvImplies == TypeInv => TypeOK
<1> SUFFICES ASSUME TypeInv PROVE TypeOK
  OBVIOUS
<1>1. \A n \in DOMAIN log : log[n] \in Entry
  BY DEF TypeInv, DeviceOK
<1>2. \A p \in Photo : bin[p] \in BinRow \cup {NULL} /\ \A q \in filed[p] : There(q)
  BY DEF TypeInv, LibraryOK
<1> QED
  BY <1>1, <1>2 DEF TypeInv, TypeOK, LibraryOK, DeviceOK, PullOK, PullType

LEMMA IdleOK ==
  ASSUME log \in Seq(Entry)
  PROVE  Idle \in PullType /\ (pull' = Idle /\ log' = log => PullOK')
<1>1. Idle \in PullType
  BY DEF Idle, PullType
<1>2. Len(log) \in Nat /\ {} \subseteq 0 + 1 .. 0
  BY LenProperties
<1>3. /\ Idle.from = 0 /\ Idle.max = 0 /\ Idle.at = "idle"
      /\ Idle.todo \subseteq Idle.from + 1 .. Idle.max
  BY DEF Idle
<1>4. ASSUME pull' = Idle, log' = log PROVE PullOK'
  <2>1. Len(log') = Len(log)
    BY <1>4
  <2> QED
    BY <1>1, <1>2, <1>3, <1>4, <2>1 DEF PullOK
<1> QED
  BY <1>1, <1>4

LEMMA InitTypes == ASSUME Init PROVE TypeInv
<1>1. PICK s \in Space :
        /\ albumSeq = IF s = SHARED THEN 2 ELSE 1
        /\ home = [a \in Album |-> IF a <= albumSeq THEN s ELSE NULL]
  BY DEF Init
<1>2. albumSeq \in 1..2 /\ albumSeq \in 1..MaxAlbum /\ 1 \in Album /\ MaxAlbum \in Nat
      /\ albumSeq \in Nat
  BY <1>1, BoundAssumption DEF Album
<1>3. photoSeq \in {0, 1} /\ photoSeq \in 0..MaxPhoto /\ 1 \in Photo
  BY BoundAssumption DEF Init, Photo
<1>4. /\ filed = [p \in Photo |-> IF p <= photoSeq THEN {SHARED, 1} ELSE {}]
      /\ bin = [p \in Photo |-> NULL] /\ uploads = {}
  BY DEF Init
<1>5. SHARED \in Space /\ SHARED \in Place /\ 1 \in Place /\ NULL \notin Space
  BY <1>2, SpaceAssumption DEF Space, Place
<1>6. There(SHARED) /\ There(1)
  <2>1. home[1] = s
    BY <1>1, <1>2
  <2> QED
    BY <1>5, <2>1 DEF There, SpaceOf
<1>7. LibraryOK
  <2>1. home \in [Album -> Space \cup {NULL}]
    BY <1>1
  <2>2. filed \in [Photo -> SUBSET Place] /\ \A p \in Photo : \A q \in filed[p] : There(q)
    BY <1>4, <1>5, <1>6
  <2> QED
    BY <1>2, <1>3, <1>4, <2>1, <2>2 DEF LibraryOK
<1> DEFINE albums == [a \in 1..albumSeq |-> Change("album", a, "create")]
           photos == IF photoSeq = 0 THEN <<>>
                     ELSE <<Change("asset", 1, "create"), Change("album_asset", 1, "create"),
                            Change("album_asset", 1, "create")>>
<1>8. albums \in Seq(Entry)
  <2>1. \A a \in 1..albumSeq : Change("album", a, "create") \in Entry
    BY <1>2, AlbumEntries DEF Album
  <2> QED
    BY <1>2, <2>1
<1>9. photos \in Seq(Entry)
  <2>1. Change("asset", 1, "create") \in Entry /\ Change("album_asset", 1, "create") \in Entry
    BY <1>3, PhotoEntries
  <2> QED
    BY <2>1
<1>10. log \in Seq(Entry)
  <2>1. log = albums \o photos
    BY DEF Init
  <2> HIDE DEF albums, photos
  <2> QED
    BY <1>8, <1>9, <2>1, HasConcat
<1>11. DeviceOK
  <2>1. Len(log) \in Nat /\ pull = Idle /\ cursor = 0 /\ kept = [p \in Photo |-> NULL]
    BY <1>10, LenProperties DEF Init
  <2>2. me \in Identity
    BY SpaceAssumption DEF Init
  <2>3. PullOK
    <3>1. Idle \in PullType /\ {} \subseteq 0 + 1 .. 0
      BY DEF Idle, PullType
    <3> QED
      BY <2>1, <3>1 DEF PullOK, Idle
  <2> QED
    BY <1>10, <2>1, <2>2, <2>3 DEF DeviceOK
<1> QED
  BY <1>7, <1>11 DEF TypeInv

LEMMA ServerTypes ==
  ASSUME TypeInv, Server
  PROVE  TypeInv'
<1>1. LibraryOK' /\ UNCHANGED device
  BY ServerStep DEF TypeInv, Transaction
<1>2. PICK es : Tells(es)
  BY ServerStep DEF TypeInv, Transaction
<1>3. /\ log' \in Seq(Entry) /\ Len(log) <= Len(log') /\ Len(log) \in Nat /\ Len(log') \in Nat
  BY <1>2, LogGrows DEF TypeInv, DeviceOK, Tells
<1>4. 0..Len(log) \subseteq 0..Len(log')
  BY <1>3
<1>5. PullOK'
  <2>1. UNCHANGED pull /\ pull.from \in Nat /\ pull.max \in Nat
    BY <1>1 DEF device, TypeInv, DeviceOK, PullOK, PullType
  <2> QED
    BY <1>3, <2>1 DEF TypeInv, DeviceOK, PullOK
<1> QED
  BY <1>1, <1>3, <1>4, <1>5 DEF TypeInv, DeviceOK, device

\* What a step of the device leaves alone.
LEMMA ServerStays ==
  ASSUME LibraryOK, UNCHANGED server
  PROVE  LibraryOK' /\ log' = log /\ bin' = bin /\ \A p : LastDelete(p)' = LastDelete(p)
<1>1. UNCHANGED <<albumSeq, photoSeq, home, filed, bin, uploads, log>>
  BY DEF server, library
<1>2. LibraryOK'
  BY <1>1 DEF LibraryOK, There, SpaceOf
<1> QED
  BY <1>1, <1>2, LastDeleteIsLastIn

LEMMA AskTypes ==
  ASSUME TypeInv, Ask
  PROVE  TypeInv'
<1>1. LibraryOK' /\ log' = log /\ UNCHANGED <<me, cursor, kept>>
  BY ServerStays DEF TypeInv, Ask
<1>2. /\ pull' = [at |-> "asked", from |-> cursor, by |-> me, todo |-> {}, max |-> 0]
      /\ cursor \in 0..Len(log) /\ Len(log) \in Nat
  BY LenProperties DEF Ask, Idle, TypeInv, DeviceOK
<1>3. PullOK'
  <2>1. pull' \in PullType
    BY <1>2 DEF PullType, TypeInv, DeviceOK
  <2> QED
    BY <1>1, <1>2, <2>1 DEF PullOK
<1> QED
  BY <1>1, <1>3 DEF TypeInv, DeviceOK

\* The answer has every entry that is told, and max is behind all of them.
LEMMA AnswerIs ==
  ASSUME TypeInv
  PROVE  LET told == GetChanges(pull.by, pull.from)
         IN  /\ told \subseteq pull.from + 1 .. Len(log)
             /\ \E m \in Nat :
                  /\ pull.from <= m /\ m <= Len(log) /\ told \subseteq pull.from + 1 .. m
                  /\ Answered = [at |-> "going", from |-> pull.from, by |-> pull.by,
                                 todo |-> told, max |-> m]
<1> DEFINE told == GetChanges(pull.by, pull.from)
           m == IF told = {} THEN pull.from ELSE Max(told)
<1>1. Len(log) \in Nat /\ pull.from \in Nat /\ pull.from <= Len(log)
  BY LenProperties DEF TypeInv, DeviceOK, PullOK, PullType
<1>2. told \subseteq pull.from + 1 .. Len(log)
  BY DEF GetChanges
<1>3. /\ m \in Nat /\ pull.from <= m /\ m <= Len(log)
      /\ told \subseteq pull.from + 1 .. m
  <2> HIDE DEF told
  <2>1. CASE told = {}
    BY <1>1, <2>1
  <2>2. CASE told # {}
    <3>1. told \in SUBSET (0..Len(log))
      BY <1>1, <1>2
    <3>2. Max(told) \in told /\ \A y \in told : y <= Max(told)
      BY <1>1, <2>2, <3>1, MaxIsGreatest
    <3>3. PICK x \in told : x = m
      BY <2>2, <3>2
    <3>4. x \in Nat /\ pull.from + 1 <= x /\ x <= Len(log)
      BY <1>1, <1>2
    <3>5. ASSUME NEW y \in told PROVE y \in pull.from + 1 .. x
      <4>1. y <= x /\ y \in pull.from + 1 .. Len(log)
        BY <1>2, <2>2, <3>2, <3>3
      <4> QED
        BY <1>1, <3>4, <4>1
    <3> QED
      BY <1>1, <3>3, <3>4, <3>5
  <2> QED
    BY <2>1, <2>2
<1>4. Answered = [at |-> "going", from |-> pull.from, by |-> pull.by, todo |-> told, max |-> m]
  <2>1. Answered = [pull EXCEPT !.at = "going", !.todo = told, !.max = m]
    BY DEF Answered
  <2>2. pull \in PullType
    BY DEF TypeInv, DeviceOK, PullOK
  <2> HIDE DEF told, m
  <2> QED
    BY <2>1, <2>2 DEF PullType
<1> QED
  BY <1>2, <1>3, <1>4

LEMMA AnswerTypes ==
  ASSUME TypeInv, Answer
  PROVE  TypeInv'
<1>1. LibraryOK' /\ log' = log /\ UNCHANGED <<me, cursor, kept>>
  BY ServerStays DEF TypeInv, Answer
<1>2. PICK m \in Nat, told \in SUBSET (pull.from + 1 .. Len(log)) :
        /\ pull.from <= m /\ m <= Len(log) /\ told \subseteq pull.from + 1 .. m
        /\ pull' = [at |-> "going", from |-> pull.from, by |-> pull.by,
                    todo |-> told, max |-> m]
  BY AnswerIs DEF Answer
<1>3. pull.from \in Nat /\ pull.by \in Identity \cup {NULL} /\ Len(log) \in Nat
  BY LenProperties DEF TypeInv, DeviceOK, PullOK, PullType
<1>4. told \subseteq Nat
  BY <1>2, <1>3
<1>5. PullOK'
  <2>1. pull' \in PullType
    BY <1>2, <1>3, <1>4 DEF PullType
  <2> QED
    BY <1>1, <1>2, <1>3, <2>1 DEF PullOK
<1> QED
  BY <1>1, <1>5 DEF TypeInv, DeviceOK

LEMMA DroppedType ==
  ASSUME TypeInv, NEW n
  PROVE  Dropped(n) \in [Photo -> 0..Len(log) \cup {NULL}]
BY DEF Dropped, TypeInv, DeviceOK

LEMMA NextThumbTypes ==
  ASSUME TypeInv, NextThumb
  PROVE  TypeInv'
<1>1. LibraryOK' /\ log' = log /\ UNCHANGED <<me, cursor>>
  BY ServerStays DEF TypeInv, NextThumb
<1>2. PICK n \in pull.todo :
        kept' = Dropped(n) /\ pull' = [pull EXCEPT !.todo = {k \in pull.todo : k > n}]
  BY DEF NextThumb
<1>3. kept' \in [Photo -> 0..Len(log') \cup {NULL}]
  BY <1>1, <1>2, DroppedType
<1>4. PullOK'
  BY <1>1, <1>2 DEF TypeInv, DeviceOK, PullOK, PullType
<1> QED
  BY <1>1, <1>3, <1>4 DEF TypeInv, DeviceOK

LEMMA FinishTypes ==
  ASSUME TypeInv, Finish
  PROVE  TypeInv'
<1>1. LibraryOK' /\ log' = log /\ UNCHANGED me
  BY ServerStays DEF TypeInv, Finish
<1>2. kept' = Dropped(pull.max) /\ cursor' = pull.max /\ pull' = Idle
  BY DEF Finish
<1>3. kept' \in [Photo -> 0..Len(log') \cup {NULL}]
  BY <1>1, <1>2, DroppedType
<1>4. cursor' \in 0..Len(log')
  BY <1>1, <1>2, LenProperties DEF TypeInv, DeviceOK, PullOK, PullType
<1>5. PullOK'
  BY <1>1, <1>2, IdleOK DEF TypeInv, DeviceOK
<1> QED
  BY <1>1, <1>3, <1>4, <1>5 DEF TypeInv, DeviceOK

LEMMA FaultTypes ==
  ASSUME TypeInv, FailPull \/ Kill
  PROVE  TypeInv'
<1>1. LibraryOK' /\ log' = log /\ UNCHANGED <<me, cursor, kept>> /\ pull' = Idle
  BY ServerStays DEF TypeInv, FailPull, Kill
<1>2. PullOK'
  BY <1>1, IdleOK DEF TypeInv, DeviceOK
<1> QED
  BY <1>1, <1>2 DEF TypeInv, DeviceOK

LEMMA KeepTypes ==
  ASSUME TypeInv, NEW p \in Photo, Keep(p)
  PROVE  TypeInv'
<1>1. LibraryOK' /\ log' = log /\ UNCHANGED <<me, cursor, pull>>
  BY ServerStays DEF TypeInv, Keep
<1>2. LastDelete(p) \in 0..Len(log)
  BY LastDeleteIsLast DEF TypeInv, DeviceOK
<1>3. kept' \in [Photo -> 0..Len(log') \cup {NULL}]
  BY <1>1, <1>2 DEF Keep, TypeInv, DeviceOK
<1> QED
  BY <1>1, <1>3 DEF TypeInv, DeviceOK, PullOK

LEMMA SwitchTypes ==
  ASSUME TypeInv, NEW i \in Identity, _adopt_identity(i)
  PROVE  TypeInv'
<1>1. LibraryOK' /\ log' = log /\ UNCHANGED kept /\ cursor' = 0 /\ me' = i
  BY ServerStays DEF TypeInv, _adopt_identity, Switch
<1>2. pull' \in {pull, [pull EXCEPT !.by = i]}
  BY DEF _adopt_identity, Switch
<1>3. PullOK'
  BY <1>1, <1>2 DEF TypeInv, DeviceOK, PullOK, PullType
<1>4. cursor' \in 0..Len(log')
  BY <1>1, LenProperties DEF TypeInv, DeviceOK
<1> QED
  BY <1>1, <1>3, <1>4 DEF TypeInv, DeviceOK

LEMMA StutterTypes ==
  ASSUME TypeInv, UNCHANGED vars
  PROVE  TypeInv'
<1>1. LibraryOK' /\ log' = log /\ UNCHANGED <<me, cursor, kept, pull>>
  BY ServerStays DEF TypeInv, vars, device
<1> QED
  BY <1>1 DEF TypeInv, DeviceOK, PullOK

\* Every step keeps the types.
THEOREM InductiveTypes == TypeInv /\ [Next]_vars => TypeInv'
<1> SUFFICES ASSUME TypeInv, [Next]_vars PROVE TypeInv'
  OBVIOUS
<1>1. CASE Server
  BY <1>1, ServerTypes
<1>2. CASE Ask
  BY <1>2, AskTypes
<1>3. CASE Answer
  BY <1>3, AnswerTypes
<1>4. CASE NextThumb
  BY <1>4, NextThumbTypes
<1>5. CASE Finish
  BY <1>5, FinishTypes
<1>6. CASE FailPull \/ Kill
  BY <1>6, FaultTypes
<1>7. CASE \E p \in Photo : Keep(p)
  BY <1>7, KeepTypes
<1>8. CASE \E i \in Identity : _adopt_identity(i)
  BY <1>8, SwitchTypes
<1>9. CASE UNCHANGED vars
  BY <1>9, StutterTypes
<1> QED
  BY <1>1, <1>2, <1>3, <1>4, <1>5, <1>6, <1>7, <1>8, <1>9 DEF Next, PullStep

\* Every variable keeps its type, and a pull goes through entries there are
\* (store.go GetChanges, sync.gd _pull_changes).
THEOREM TypeCorrect == Spec => []TypeOK
<1>1. Init => TypeInv
  BY InitTypes
<1>2. TypeInv => TypeOK
  BY TypeInvImplies
<1> QED
  BY <1>1, <1>2, InductiveTypes, PTL DEF Spec

-----------------------------------------------------------------------------
(* Nothing is skipped                                                       *)

\* A pull that is under way: it is made for the identity the device is logged in as and
\* from where the cursor still is, and what its answer covers of the deletions to act on
\* is among what it has still to go through.
PullCovers ==
    /\ pull.at # "idle" => pull.by = me /\ pull.from = cursor
    /\ pull.at = "going" =>
          \A p \in Photo : Outdated(p) => pull.max < LastDelete(p) \/ LastDelete(p) \in pull.todo

SkipInv == TypeInv /\ NothingSkipped /\ PullCovers

LEMMA InitSkip == ASSUME Init PROVE SkipInv
<1>1. TypeInv
  BY InitTypes
<1>2. pull.at = "idle" /\ \A p \in Photo : ~Outdated(p)
  BY DEF Init, Idle, Outdated
<1> QED
  BY <1>1, <1>2 DEF SkipInv, NothingSkipped, PullCovers

\* A photo becomes outdated by a transaction only when its delete has just been logged.
LEMMA ServerOutdates ==
  ASSUME TypeInv, Server, NEW p \in Photo, Outdated(p)'
  PROVE  LastDelete(p)' > Len(log) \/ (Outdated(p) /\ LastDelete(p)' = LastDelete(p))
<1>1. UNCHANGED device
  BY ServerStep DEF TypeInv
<1>2. PICK es : Tells(es)
  BY ServerStep DEF TypeInv, Transaction
<1>3. /\ LastDelete(p)' = LastDelete(p) \/ LastDelete(p)' > Len(log)
      /\ Has(es, Deletion(p)) => LastDelete(p)' > Len(log)
  BY <1>2, LogGrows DEF TypeInv, DeviceOK, Tells
<1>4. bin'[p] \in {bin[p], NULL} \/ Has(es, Deletion(p))
  BY <1>2 DEF Tells, Deletion, Change
<1>5. bin'[p] # NULL
  BY DEF Outdated
<1>6. CASE LastDelete(p)' = LastDelete(p) /\ bin'[p] = bin[p]
  BY <1>1, <1>6 DEF Outdated, device, Sight
<1> QED
  BY <1>3, <1>4, <1>5, <1>6

LEMMA ServerSkips ==
  ASSUME SkipInv, Server
  PROVE  SkipInv'
<1>1. TypeInv' /\ TypeInv /\ UNCHANGED device
  BY ServerTypes, ServerStep DEF SkipInv, TypeInv
<1>2. UNCHANGED <<me, cursor, pull>>
  BY <1>1 DEF device
<1>3. /\ cursor \in Nat /\ cursor <= Len(log) /\ pull.max \in Nat /\ pull.max <= Len(log)
      /\ Len(log) \in Nat
  BY <1>1, LenProperties DEF TypeInv, DeviceOK, PullOK, PullType
<1>4. ASSUME NEW p \in Photo, Outdated(p)'
      PROVE  /\ cursor < LastDelete(p)'
             /\ pull.at = "going" =>
                   pull.max < LastDelete(p)' \/ LastDelete(p)' \in pull.todo
  <2>1. LastDelete(p)' \in Nat
    <3>1. log' \in Seq(Entry)
      BY <1>1 DEF TypeInv, DeviceOK
    <3> QED
      BY <3>1, LastInIsLast, LastDeleteIsLastIn, LenProperties
  <2>2. CASE LastDelete(p)' > Len(log)
    BY <1>3, <2>1, <2>2
  <2>3. CASE Outdated(p) /\ LastDelete(p)' = LastDelete(p)
    BY <2>3 DEF SkipInv, NothingSkipped, PullCovers
  <2> QED
    BY <1>1, <1>4, <2>2, <2>3, ServerOutdates
<1>5. NothingSkipped'
  BY <1>2, <1>4 DEF NothingSkipped
<1>6. PullCovers'
  BY <1>2, <1>4 DEF SkipInv, PullCovers
<1> QED
  BY <1>1, <1>5, <1>6 DEF SkipInv

\* A step of the device that changes neither its identity nor what it keeps.
LEMMA OutdatedStays ==
  ASSUME LibraryOK, UNCHANGED server, UNCHANGED me, NEW p \in Photo, kept'[p] = kept[p]
  PROVE  Outdated(p)' <=> Outdated(p)
<1>1. bin' = bin /\ LastDelete(p)' = LastDelete(p)
  BY ServerStays
<1> QED
  BY <1>1 DEF Outdated, Sight

LEMMA AskSkips ==
  ASSUME SkipInv, Ask
  PROVE  SkipInv'
<1>1. TypeInv' /\ UNCHANGED <<me, cursor, kept>> /\ UNCHANGED server /\ LibraryOK
  BY AskTypes DEF SkipInv, Ask, TypeInv
<1>2. pull'.at = "asked" /\ pull'.by = me /\ pull'.from = cursor
  BY DEF Ask, Idle
<1>3. NothingSkipped'
  BY <1>1, OutdatedStays, ServerStays DEF SkipInv, NothingSkipped
<1> QED
  BY <1>1, <1>2, <1>3 DEF SkipInv, PullCovers

\* The answer is made for the identity of the device, which sees in the bin what it has
\* to act on.
LEMMA AnswerSkips ==
  ASSUME SkipInv, Answer
  PROVE  SkipInv'
<1>1. TypeInv' /\ UNCHANGED <<me, cursor, kept>> /\ UNCHANGED server /\ LibraryOK
  BY AnswerTypes DEF SkipInv, Answer, TypeInv
<1>2. pull.by = me /\ pull.from = cursor /\ pull.from \in Nat /\ log \in Seq(Entry)
      /\ Len(log) \in Nat
  BY LenProperties DEF SkipInv, PullCovers, Answer, TypeInv, DeviceOK, PullOK, PullType
<1>3. PICK m \in Nat :
        pull' = [at |-> "going", from |-> pull.from, by |-> pull.by,
                 todo |-> GetChanges(pull.by, pull.from), max |-> m]
  BY AnswerIs DEF Answer, SkipInv
<1>4. ASSUME NEW p \in Photo, Outdated(p)
      PROVE  LastDelete(p) \in pull'.todo
  <2>1. /\ LastDelete(p) \in 0..Len(log)
        /\ LastDelete(p) # 0 => log[LastDelete(p)] = Deletion(p)
    BY <1>2, LastDeleteIsLast
  <2>2. cursor < LastDelete(p)
    BY <1>4 DEF SkipInv, NothingSkipped
  <2>3. PICK d \in 0..Len(log) : d = LastDelete(p)
    BY <2>1
  <2>4. d \in pull.from + 1 .. Len(log) /\ log[d] = Deletion(p)
    BY <1>2, <2>1, <2>2, <2>3
  <2>5. Sees(me, p)
    BY <1>4 DEF Outdated, Sees
  <2>6. Told(pull.by, log[d])
    BY <1>2, <2>4, <2>5 DEF Told, Deletion, Change
  <2>7. d \in GetChanges(pull.by, pull.from)
    BY <2>4, <2>6 DEF GetChanges
  <2> QED
    BY <1>3, <2>3, <2>7
<1>5. \A p \in Photo : (Outdated(p)' <=> Outdated(p)) /\ LastDelete(p)' = LastDelete(p)
  BY <1>1, OutdatedStays, ServerStays
<1>6. NothingSkipped'
  BY <1>1, <1>5 DEF SkipInv, NothingSkipped
<1>7. PullCovers'
  BY <1>1, <1>2, <1>3, <1>4, <1>5 DEF PullCovers
<1> QED
  BY <1>1, <1>6, <1>7 DEF SkipInv

\* What a pull has gone through up to n is outdated no longer.
LEMMA DroppedIsGone ==
  ASSUME SkipInv, pull.at = "going", UNCHANGED <<server, me>>, NEW n \in Nat,
         kept' = Dropped(n), NEW p \in Photo, Outdated(p)'
  PROVE  /\ LastDelete(p)' = LastDelete(p) /\ Outdated(p)
         /\ pull.max < LastDelete(p) \/ (LastDelete(p) \in pull.todo /\ n < LastDelete(p))
<1>1. LibraryOK /\ UNCHANGED server /\ UNCHANGED me
  BY DEF SkipInv, TypeInv
<1>2. kept'[p] # NULL
  BY DEF Outdated
<1>3. /\ kept'[p] = kept[p]
      /\ \A k \in pull.todo : k <= n => log[k] # Deletion(p)
  BY <1>2 DEF Dropped, Deletion, Change
<1>4. Outdated(p) /\ LastDelete(p)' = LastDelete(p)
  BY <1>1, <1>3, OutdatedStays, ServerStays
<1>5. pull.max < LastDelete(p) \/ LastDelete(p) \in pull.todo
  BY <1>4 DEF SkipInv, PullCovers
<1>6. ASSUME LastDelete(p) \in pull.todo PROVE n < LastDelete(p)
  <2>1. PICK d \in pull.todo : d = LastDelete(p)
    BY <1>6
  <2>2. d \in Nat /\ d # 0
    BY DEF SkipInv, TypeInv, DeviceOK, PullOK, PullType
  <2>3. log[d] = Deletion(p)
    BY <2>1, <2>2, LastDeleteIsLast DEF SkipInv, TypeInv, DeviceOK
  <2> QED
    BY <1>3, <2>1, <2>2, <2>3
<1> QED
  BY <1>4, <1>5, <1>6

LEMMA NextThumbSkips ==
  ASSUME SkipInv, NextThumb
  PROVE  SkipInv'
<1>1. TypeInv' /\ UNCHANGED <<me, cursor>> /\ UNCHANGED server
  BY NextThumbTypes DEF SkipInv, NextThumb
<1>2. PICK n \in pull.todo :
        /\ pull.at = "going" /\ kept' = Dropped(n)
        /\ pull' = [pull EXCEPT !.todo = {k \in pull.todo : k > n}]
  BY DEF NextThumb
<1>3. n \in Nat /\ pull.todo \subseteq Nat /\ pull \in PullType
  BY DEF SkipInv, TypeInv, DeviceOK, PullOK, PullType
<1>4. /\ pull'.at = "going" /\ pull'.by = pull.by /\ pull'.from = pull.from
      /\ pull'.max = pull.max /\ pull'.todo = {k \in pull.todo : k > n}
  BY <1>2, <1>3 DEF PullType
<1>5. ASSUME NEW p \in Photo, Outdated(p)'
      PROVE  /\ cursor < LastDelete(p)'
             /\ pull.max < LastDelete(p)' \/ LastDelete(p)' \in pull'.todo
  <2>1. /\ LastDelete(p)' = LastDelete(p) /\ Outdated(p)
        /\ pull.max < LastDelete(p) \/ (LastDelete(p) \in pull.todo /\ n < LastDelete(p))
    BY <1>1, <1>2, <1>3, <1>5, DroppedIsGone
  <2>2. cursor < LastDelete(p)
    BY <2>1 DEF SkipInv, NothingSkipped
  <2>3. LastDelete(p) \in pull.todo /\ n < LastDelete(p) => LastDelete(p) \in pull'.todo
    BY <1>3, <1>4
  <2> QED
    BY <2>1, <2>2, <2>3
<1>6. NothingSkipped'
  BY <1>1, <1>5 DEF NothingSkipped
<1>7. PullCovers'
  BY <1>1, <1>2, <1>4, <1>5 DEF SkipInv, PullCovers
<1> QED
  BY <1>1, <1>6, <1>7 DEF SkipInv

LEMMA FinishSkips ==
  ASSUME SkipInv, Finish
  PROVE  SkipInv'
<1>1. TypeInv' /\ UNCHANGED me /\ UNCHANGED server
  BY FinishTypes DEF SkipInv, Finish
<1>2. pull.at = "going" /\ kept' = Dropped(pull.max) /\ cursor' = pull.max /\ pull' = Idle
  BY DEF Finish
<1>3. pull.max \in Nat /\ pull.todo \subseteq pull.from + 1 .. pull.max /\ pull.from \in Nat
  BY DEF SkipInv, TypeInv, DeviceOK, PullOK, PullType
<1>4. ASSUME NEW p \in Photo, Outdated(p)' PROVE cursor' < LastDelete(p)'
  <2>1. /\ LastDelete(p)' = LastDelete(p)
        /\ \/ pull.max < LastDelete(p)
           \/ LastDelete(p) \in pull.todo /\ pull.max < LastDelete(p)
    BY <1>1, <1>2, <1>3, <1>4, DroppedIsGone
  <2> QED
    BY <1>2, <2>1
<1>5. NothingSkipped'
  BY <1>4 DEF NothingSkipped
<1>6. PullCovers'
  BY <1>2 DEF PullCovers, Idle
<1> QED
  BY <1>1, <1>5, <1>6 DEF SkipInv

LEMMA FaultSkips ==
  ASSUME SkipInv, FailPull \/ Kill
  PROVE  SkipInv'
<1>1. TypeInv' /\ UNCHANGED <<me, cursor, kept>> /\ UNCHANGED server /\ LibraryOK
      /\ pull' = Idle
  BY FaultTypes DEF SkipInv, FailPull, Kill, TypeInv
<1>2. NothingSkipped'
  BY <1>1, OutdatedStays, ServerStays DEF SkipInv, NothingSkipped
<1>3. PullCovers'
  BY <1>1 DEF PullCovers, Idle
<1> QED
  BY <1>1, <1>2, <1>3 DEF SkipInv

\* An entry made now knows of every delete there has been.
LEMMA KeepSkips ==
  ASSUME SkipInv, NEW p \in Photo, Keep(p)
  PROVE  SkipInv'
<1>1. TypeInv' /\ UNCHANGED <<me, cursor, pull>> /\ UNCHANGED server /\ LibraryOK
  BY KeepTypes DEF SkipInv, Keep, TypeInv
<1>2. kept' = [kept EXCEPT ![p] = LastDelete(p)] /\ kept \in [Photo -> 0..Len(log) \cup {NULL}]
  BY DEF Keep, SkipInv, TypeInv, DeviceOK
<1>3. ~Outdated(p)'
  <2>1. LastDelete(p)' = LastDelete(p) /\ kept'[p] = LastDelete(p)
    BY <1>1, <1>2, ServerStays
  <2>2. LastDelete(p) \in Nat
    BY LastDeleteIsLast, LenProperties DEF SkipInv, TypeInv, DeviceOK
  <2> QED
    BY <2>1, <2>2 DEF Outdated
<1>4. ASSUME NEW x \in Photo, Outdated(x)'
      PROVE  Outdated(x) /\ LastDelete(x)' = LastDelete(x)
  <2>1. x # p
    BY <1>3, <1>4
  <2>2. kept'[x] = kept[x]
    BY <1>2, <2>1
  <2> QED
    BY <1>1, <1>4, <2>2, OutdatedStays, ServerStays
<1>5. NothingSkipped'
  BY <1>1, <1>4 DEF SkipInv, NothingSkipped
<1>6. PullCovers'
  BY <1>1, <1>4 DEF SkipInv, PullCovers
<1> QED
  BY <1>1, <1>5, <1>6 DEF SkipInv

\* A change of identity asks for everything again; without Switching no pull is under way.
LEMMA SwitchSkips ==
  ASSUME SkipInv, Switching = FALSE, NEW i \in Identity, _adopt_identity(i)
  PROVE  SkipInv'
<1>1. TypeInv' /\ TypeInv
  BY SwitchTypes DEF SkipInv
<1>2. cursor' = 0 /\ pull.at = "idle" /\ pull' = pull
  BY DEF _adopt_identity, Switch
<1>3. ASSUME NEW p \in Photo, Outdated(p)' PROVE 0 < LastDelete(p)'
  <2>1. log' \in Seq(Entry) /\ kept' \in [Photo -> 0..Len(log') \cup {NULL}]
    BY <1>1 DEF TypeInv, DeviceOK
  <2>2. LastDelete(p)' \in 0..Len(log') /\ Len(log') \in Nat
    BY <2>1, LastInIsLast, LastDeleteIsLastIn, LenProperties
  <2>3. kept'[p] # NULL /\ kept'[p] < LastDelete(p)'
    BY <1>3 DEF Outdated
  <2>4. kept'[p] \in Nat
    BY <2>1, <2>2, <2>3
  <2> QED
    BY <2>2, <2>3, <2>4
<1>4. NothingSkipped'
  BY <1>2, <1>3 DEF NothingSkipped
<1>5. PullCovers'
  BY <1>2 DEF PullCovers
<1> QED
  BY <1>1, <1>4, <1>5 DEF SkipInv

LEMMA StutterSkips ==
  ASSUME SkipInv, UNCHANGED vars
  PROVE  SkipInv'
<1>1. TypeInv' /\ UNCHANGED <<me, cursor, kept, pull>> /\ UNCHANGED server /\ LibraryOK
  BY StutterTypes DEF SkipInv, vars, device, TypeInv
<1>2. \A p \in Photo : (Outdated(p)' <=> Outdated(p)) /\ LastDelete(p)' = LastDelete(p)
  BY <1>1, OutdatedStays, ServerStays
<1> QED
  BY <1>1, <1>2 DEF SkipInv, NothingSkipped, PullCovers

\* Every step keeps the invariant, of a device that changes its identity between pulls.
THEOREM InductiveSkips ==
  ASSUME Switching = FALSE
  PROVE  SkipInv /\ [Next]_vars => SkipInv'
<1> SUFFICES ASSUME SkipInv, [Next]_vars PROVE SkipInv'
  OBVIOUS
<1>1. CASE Server
  BY <1>1, ServerSkips
<1>2. CASE Ask
  BY <1>2, AskSkips
<1>3. CASE Answer
  BY <1>3, AnswerSkips
<1>4. CASE NextThumb
  BY <1>4, NextThumbSkips
<1>5. CASE Finish
  BY <1>5, FinishSkips
<1>6. CASE FailPull \/ Kill
  BY <1>6, FaultSkips
<1>7. CASE \E p \in Photo : Keep(p)
  BY <1>7, KeepSkips
<1>8. CASE \E i \in Identity : _adopt_identity(i)
  BY <1>8, SwitchSkips
<1>9. CASE UNCHANGED vars
  BY <1>9, StutterSkips
<1> QED
  BY <1>1, <1>2, <1>3, <1>4, <1>5, <1>6, <1>7, <1>8, <1>9 DEF Next, PullStep

\* The cursor never gets past a deletion the device has still to act on: not by a pull
\* that was cut short, nor by one that saw less than the identity sees now, nor by a
\* change of identity between pulls (sync.gd:278 _pull_changes, store.go:2321 GetChanges).
THEOREM DeletionsAreNotSkipped ==
  ASSUME Switching = FALSE
  PROVE  Spec => []NothingSkipped
<1>1. Init => SkipInv
  BY InitSkip
<1>2. SkipInv => NothingSkipped
  BY DEF SkipInv
<1>3. SkipInv /\ [Next]_vars => SkipInv'
  BY InductiveSkips
<1> QED
  BY <1>1, <1>2, <1>3, PTL DEF Spec
=============================================================================
