----------------------------- MODULE NamesProofs -----------------------------
(***************************************************************************)
(* Theorems about Names, for every value of its constants: the clash rule   *)
(* of single arrivals and of merges, and that names are kept.               *)
(***************************************************************************)
EXTENDS Names, FiniteSetTheorems, WellFoundedInduction, TLAPS

-----------------------------------------------------------------------------
(* Names                                                                    *)

\* Names of any length, as they are before Fits.
Wide == [stem : Stem, nums : Seq(1..MaxNameAttempts)]

LEMMA NullIsNoName == NULL \notin Wide
BY NullAssumption, BoundAssumption DEF Wide

LEMMA NamesAreWide == Name \subseteq Wide
BY BoundAssumption DEF Name, Numbers, Wide

LEMMA FittingName ==
  ASSUME NEW n \in Wide, Fits(n)
  PROVE  n \in Name
<1>1. n # NULL /\ Len(n.nums) =< MaxNumbers
  BY NullIsNoName DEF Fits
<1>2. n.nums \in [1..Len(n.nums) -> 1..MaxNameAttempts] /\ Len(n.nums) \in 0..MaxNumbers
  BY <1>1, BoundAssumption DEF Wide
<1> QED
  BY <1>2 DEF Name, Numbers, Wide

LEMMA NumberedType ==
  ASSUME NEW n \in Wide, NEW k \in 1..MaxNameAttempts
  PROVE  Numbered(n, k) \in Wide
BY DEF Numbered, Wide

\* Showing the same name is an equivalence.
LEMMA SameNameTransitive ==
  ASSUME NEW n, NEW m, NEW o, SameName(n, m), SameName(m, o)
  PROVE  SameName(n, o) /\ SameName(m, n)
BY DEF SameName

-----------------------------------------------------------------------------
(* The clash rule                                                           *)

\* A number that is free is nobody's.
LEMMA FreeNames ==
  ASSUME NEW f, NEW n, NEW m \in freeNameInAlbumTx(f, n)
  PROVE  /\ \A y \in DOMAIN f : ~SameName(f[y], m)
         /\ n \in Wide => m \in Wide
<1>1. PICK k \in Free(f, n) : m = Numbered(n, k)
  BY DEF freeNameInAlbumTx
<1>2. k \in 1..MaxNameAttempts /\ \A y \in DOMAIN f : ~SameName(f[y], m)
  BY <1>1 DEF Free
<1> QED
  BY <1>1, <1>2, NumberedType

\* What an arrival is called, nobody else is.
LEMMA ArrivalNames ==
  ASSUME NEW f, NEW n, NEW except, NEW m \in NameInAlbum(f, n, except)
  PROVE  /\ \A y \in DOMAIN f \ {except} : ~SameName(f[y], m)
         /\ n \in Wide => m \in Wide
<1>1. CASE albumNameClashTx(f, n, except) = {}
  BY <1>1 DEF NameInAlbum, albumNameClashTx
<1>2. CASE albumNameClashTx(f, n, except) # {}
  BY <1>2, FreeNames DEF NameInAlbum
<1> QED
  BY <1>1, <1>2

\* The membership records what the arrival is called.
LEMMA MembershipNames ==
  ASSUME NEW f, NEW n \in Name, NEW except, NEW r \in membershipNameTx(f, n, except), Fits(r)
  PROVE  /\ r \in Name \cup {NULL}
         /\ \E m \in NameInAlbum(f, n, except) : m = (IF r = NULL THEN n ELSE r)
<1>1. PICK m \in NameInAlbum(f, n, except) : r = IF m = n THEN NULL ELSE m
  BY DEF membershipNameTx
<1>2. m \in Wide
  BY ArrivalNames, NamesAreWide
<1>3. r # NULL => r \in Name
  BY <1>1, <1>2, FittingName
<1> QED
  BY <1>1, <1>2, <1>3, NullIsNoName

-----------------------------------------------------------------------------
(* Merging albums                                                           *)

LEMMA Induction ==
  ASSUME NEW N \in Nat, NEW K, 0 \in K, \A k \in 0..N : k \in K /\ k < N => k + 1 \in K
  PROVE  0..N \subseteq K
<1> DEFINE R == {ss \in Nat \X Nat : ss[1] < ss[2]}
           Rest == (0..N) \ K
<1>1. IsWellFoundedOn(R, Nat)
  BY NatLessThanWellFounded, Zenon DEF OpToRel
<1> SUFFICES ASSUME Rest # {} PROVE FALSE
  OBVIOUS
<1>2. PICK k \in Rest : \A j \in Rest : <<j, k>> \notin R
  <2>1. Rest \subseteq Nat
    OBVIOUS
  <2> HIDE DEF R, Rest
  <2> QED
    BY <1>1, <2>1, WFMin
<1>3. k \in 0..N /\ k # 0 /\ k - 1 \in 0..N /\ k - 1 < N
  BY <1>2
<1>4. k - 1 \notin K
  BY <1>2, <1>3
<1>5. <<k - 1, k>> \in R
  BY <1>3
<1>6. k - 1 \in Rest
  BY <1>3, <1>4
<1> QED
  BY <1>2, <1>5, <1>6

\* The names after the newcomers up to n, from what they were before n.
Stage(f, new, steps, n) ==
    IF n = 0 THEN {f}
    ELSE IF n \notin new THEN steps[n - 1]
    ELSE UNION {Renumber(g, n) : g \in steps[n - 1]}

\* The recursion of Merged has a solution, and Merged is its last stage.
LEMMA MergedStages ==
  ASSUME NEW f, NEW new
  PROVE  \E steps : /\ steps[0] = {f}
                    /\ \A n \in 1..MaxAsset : steps[n] = Stage(f, new, steps, n)
                    /\ Merged(f, new) = steps[MaxAsset]
<1> DEFINE Solves(steps, k) == steps = [n \in 0..k |-> Stage(f, new, steps, n)]
           K == {k \in 0..MaxAsset : \E steps : Solves(steps, k)}
<1>1. 0 \in K
  <2>1. Solves([n \in 0..0 |-> {f}], 0)
    BY DEF Stage
  <2> QED
    BY <2>1, BoundAssumption
<1>2. ASSUME NEW k \in 0..MaxAsset, k \in K, k < MaxAsset
      PROVE  k + 1 \in K
  <2>1. PICK steps : Solves(steps, k)
    BY <1>2
  <2> DEFINE more == [n \in 0..(k + 1) |->
                        IF n =< k THEN steps[n] ELSE Stage(f, new, steps, n)]
  <2>2. ASSUME NEW n \in 0..(k + 1)
        PROVE  more[n] = Stage(f, new, more, n)
    <3>1. more[n] = Stage(f, new, steps, n)
      <4>1. CASE n =< k
        BY <2>1, <4>1, BoundAssumption
      <4>2. CASE ~(n =< k)
        BY <4>2
      <4> QED
        BY <4>1, <4>2
    <3>2. n # 0 => more[n - 1] = steps[n - 1]
      BY <1>2
    <3> HIDE DEF more
    <3> QED
      BY <3>1, <3>2 DEF Stage
  <2>3. Solves(more, k + 1)
    <3>1. more = [n \in 0..(k + 1) |-> more[n]]
      OBVIOUS
    <3> HIDE DEF more
    <3> QED
      BY <2>2, <3>1
  <2> HIDE DEF Solves
  <2> QED
    BY <1>2, <2>3, BoundAssumption
<1>3. \E steps : Solves(steps, MaxAsset)
  <2> HIDE DEF Solves
  <2>1. 0..MaxAsset \subseteq K
    BY <1>1, <1>2, Induction, BoundAssumption
  <2> QED
    BY <2>1, BoundAssumption
<1> DEFINE steps == CHOOSE s : Solves(s, MaxAsset)
<1>4. Solves(steps, MaxAsset)
  <2> HIDE DEF Solves
  <2> QED
    BY <1>3
<1>5. Merged(f, new) = steps[MaxAsset]
  BY DEF Merged, Stage
<1>6. \A n \in 0..MaxAsset : steps[n] = Stage(f, new, steps, n)
  <2> HIDE DEF steps
  <2> QED
    BY <1>4
<1>7. steps[0] = {f} /\ \A n \in 1..MaxAsset : steps[n] = Stage(f, new, steps, n)
  <2> HIDE DEF steps
  <2>1. steps[0] = Stage(f, new, steps, 0)
    BY <1>6, BoundAssumption
  <2>2. steps[0] = {f}
    BY <2>1 DEF Stage
  <2>3. \A n \in 1..MaxAsset : n \in 0..MaxAsset
    BY BoundAssumption
  <2> QED
    BY <1>6, <2>2, <2>3
<1> HIDE DEF steps
<1> QED
  BY <1>5, <1>7

\* The newcomers up to n are cleared: such a one shows a name nobody else shows, or one
\* whose oldest other holder has the same bytes.
Cleared(f, y) ==
    LET clash == albumNameClashTx(f, f[y], y)
    IN  clash = {} \/ \E x \in clash : /\ \A z \in clash : x <= z
                                       /\ assets[x].hash = assets[y].hash

Settled(start, new, n, f) ==
    /\ DOMAIN f = DOMAIN start
    /\ \A x \in DOMAIN f : f[x] \in Wide
    /\ \A x \in DOMAIN f : x \notin new => f[x] = start[x]
    /\ \A y \in new : y <= n => Cleared(f, y)

\* Numbering one newcomer clears it and leaves those cleared before it.
LEMMA RenumberSettles ==
  ASSUME NEW start, NEW new \in SUBSET DOMAIN start, DOMAIN start \subseteq Asset,
         NEW f, NEW v \in new, Settled(start, new, v - 1, f), NEW g \in Renumber(f, v)
  PROVE  Settled(start, new, v, g)
<1>1. v \in DOMAIN f /\ DOMAIN f \subseteq Nat
  BY BoundAssumption DEF Settled, Asset
<1>2. CASE Cleared(f, v)
  <2>1. g = f
    BY <1>2 DEF Renumber, Cleared
  <2> QED
    BY <1>1, <1>2, <2>1 DEF Settled
<1>3. CASE ~Cleared(f, v)
  <2>1. PICK m \in freeNameInAlbumTx(f, f[v]) : g = [f EXCEPT ![v] = m]
    BY <1>3 DEF Renumber, Cleared
  <2>2. m \in Wide /\ \A y \in DOMAIN f : ~SameName(f[y], m)
    BY <1>1, <2>1, FreeNames DEF Settled
  <2>3. /\ DOMAIN g = DOMAIN f /\ g[v] = m
        /\ \A y \in DOMAIN f \ {v} : g[y] = f[y]
    BY <1>1, <2>1
  <2>4. albumNameClashTx(g, g[v], v) = {}
    BY <2>2, <2>3 DEF albumNameClashTx
  <2>5. ASSUME NEW y \in new, y < v PROVE Cleared(g, y)
    <3> DEFINE before == albumNameClashTx(f, f[y], y)
               after == albumNameClashTx(g, g[y], y)
    <3>1. Cleared(f, y) /\ y \in DOMAIN f /\ y # v /\ g[y] = f[y]
      BY <1>1, <2>3, <2>5 DEF Settled
    <3>2. after = before \ {v}
      BY <2>2, <2>3, <3>1 DEF albumNameClashTx, SameName
    <3>3. CASE after = {}
      BY <3>3 DEF Cleared
    <3>4. CASE after # {}
      <4>1. PICK x \in before : /\ \A z \in before : x <= z
                                /\ assets[x].hash = assets[y].hash
        BY <3>1, <3>2, <3>4 DEF Cleared
      <4>2. x # v
        <5> SUFFICES ASSUME x = v PROVE FALSE
          OBVIOUS
        <5>1. SameName(f[v], f[y]) /\ y \in albumNameClashTx(f, f[v], v)
          BY <3>1, <4>1 DEF albumNameClashTx, SameName
        <5>2. ASSUME NEW z \in albumNameClashTx(f, f[v], v) PROVE y <= z
          <6>1. z \in DOMAIN f /\ SameName(f[z], f[y])
            BY <5>1, <5>2 DEF albumNameClashTx, SameName
          <6>2. z = y \/ z \in before
            BY <6>1 DEF albumNameClashTx
          <6> QED
            BY <1>1, <2>5, <3>1, <4>1, <6>1, <6>2
        <5> QED
          BY <1>3, <4>1, <5>1, <5>2 DEF Cleared
      <4> QED
        BY <3>2, <4>1, <4>2 DEF Cleared
    <3> QED
      BY <3>3, <3>4
  <2>6. Cleared(g, v)
    BY <2>4 DEF Cleared
  <2>7. \A y \in new : y <= v => Cleared(g, y)
    BY <1>1, <2>5, <2>6 DEF Settled
  <2> QED
    BY <2>2, <2>3, <2>7 DEF Settled
<1> QED
  BY <1>2, <1>3

\* A merge clears every newcomer and names nobody else.
LEMMA MergedSettles ==
  ASSUME NEW start, NEW new \in SUBSET DOMAIN start, DOMAIN start \subseteq Asset,
         \A x \in DOMAIN start : start[x] \in Wide, NEW g \in Merged(start, new)
  PROVE  Settled(start, new, MaxAsset, g)
<1>1. PICK steps : /\ steps[0] = {start}
                   /\ \A n \in 1..MaxAsset : steps[n] = Stage(start, new, steps, n)
                   /\ Merged(start, new) = steps[MaxAsset]
  BY MergedStages
<1> DEFINE K == {n \in 0..MaxAsset : \A f \in steps[n] : Settled(start, new, n, f)}
<1>2. 0 \in K
  BY <1>1, BoundAssumption DEF Settled, Asset
<1>3. ASSUME NEW k \in 0..MaxAsset, k \in K, k < MaxAsset
      PROVE  k + 1 \in K
  <2>1. k + 1 \in 1..MaxAsset /\ (k + 1) - 1 = k /\ k + 1 # 0
    BY <1>3, BoundAssumption
  <2>2. steps[k + 1] = Stage(start, new, steps, k + 1)
    BY <1>1, <2>1
  <2>3. CASE k + 1 \notin new
    <3>1. steps[k + 1] = steps[k]
      BY <2>1, <2>2, <2>3 DEF Stage
    <3>2. ASSUME NEW f \in steps[k] PROVE Settled(start, new, k + 1, f)
      BY <1>3, <2>3, <3>2, BoundAssumption DEF Settled, Asset
    <3> QED
      BY <2>1, <3>1, <3>2
  <2>4. CASE k + 1 \in new
    <3>1. ASSUME NEW h \in steps[k + 1] PROVE Settled(start, new, k + 1, h)
      <4>1. PICK f \in steps[k] : h \in Renumber(f, k + 1)
        BY <2>1, <2>2, <2>4, <3>1 DEF Stage
      <4>2. Settled(start, new, (k + 1) - 1, f)
        BY <1>3, <2>1, <4>1
      <4> QED
        BY <2>4, <4>1, <4>2, RenumberSettles
    <3> QED
      BY <2>1, <3>1
  <2> QED
    BY <2>3, <2>4
<1>4. MaxAsset \in K
  <2> HIDE DEF K
  <2> QED
    BY <1>2, <1>3, Induction, BoundAssumption
<1> QED
  BY <1>1, <1>4

-----------------------------------------------------------------------------
(* What a step does to the names that albums show                           *)

MembersOK ==
    /\ DOMAIN members \subseteq Album \X {x \in Asset : Exists(x)}
    /\ \A e \in DOMAIN members : members[e] \in Name \cup {NULL}

\* No row goes, and those there are keep their names and contents.
RowsKept ==
    \A y \in Asset :
        Exists(y) => /\ Exists(y)'
                     /\ assets'[y].name = assets[y].name
                     /\ assets'[y].hash = assets[y].hash

\* The photo was in the album before, under the same name and with the same bytes.
Kept(e) ==
    /\ e \in DOMAIN members
    /\ Display(e[1], e[2])' = Display(e[1], e[2])
    /\ assets'[e[2]].hash = assets[e[2]].hash

\* Nobody else in the album shows the name of x.
Alone(a, x) == \A y \in Holds(a) \ {x} : ~SameName(Display(a, y), Display(a, x))

LEMMA RowType ==
  ASSUME TypeOK, NEW x \in Asset, Exists(x)
  PROVE  assets[x] \in Row
BY DEF TypeOK, Exists

LEMMA DisplayType ==
  ASSUME TypeOK, NEW a, NEW x, <<a, x>> \in DOMAIN members
  PROVE  /\ a \in Album /\ x \in Asset /\ Exists(x)
         /\ Display(a, x) \in Name /\ Display(a, x) \in Wide
<1>1. a \in Album /\ x \in Asset /\ Exists(x) /\ members[<<a, x>>] \in Name \cup {NULL}
  BY DEF TypeOK
<1>2. assets[x].name \in Name
  BY <1>1, RowType DEF Row
<1> QED
  BY <1>1, <1>2, NamesAreWide DEF Display

\* A membership that is not touched shows the name it showed.
LEMMA Untouched ==
  ASSUME TypeOK, RowsKept, NEW e \in DOMAIN members, members'[e] = members[e]
  PROVE  Kept(e)
<1>1. PICK a \in Album, x \in Asset : e = <<a, x>> /\ Exists(x)
  BY DEF TypeOK
<1> QED
  BY <1>1 DEF Kept, Display, RowsKept

\* Part of the memberships.
PartOfMembers(m) == DOMAIN m \subseteq DOMAIN members /\ \A e \in DOMAIN m : m[e] = members[e]

LEMMA WithoutIsPart == ASSUME NEW E PROVE PartOfMembers(Without(E)) /\ PartOfMembers(members)
BY DEF PartOfMembers, Without

\* Memberships that only go.
LEMMA Unfiling ==
  ASSUME TypeOK, RowsKept, PartOfMembers(members')
  PROVE  MembersOK' /\ \A e \in DOMAIN members' : Kept(e)
<1>1. \A e \in DOMAIN members' : Kept(e)
  BY Untouched DEF PartOfMembers
<1>2. MembersOK'
  BY DEF MembersOK, TypeOK, RowsKept, PartOfMembers
<1> QED
  BY <1>1, <1>2

\* One membership that is new, after others have gone.
LEMMA Filing ==
  ASSUME TypeOK, RowsKept, NEW a \in Album, NEW x \in Asset, Exists(x)',
         NEW kept, PartOfMembers(kept), NEW r \in Name \cup {NULL},
         members' = Insert(kept, a, x, r)
  PROVE  /\ MembersOK'
         /\ \A e \in DOMAIN members' :
               \/ Kept(e)
               \/ /\ e = <<a, x>> /\ e \notin DOMAIN kept
                  /\ Display(a, x)' = IF r = NULL THEN assets'[x].name ELSE r
<1>1. CASE <<a, x>> \in DOMAIN kept
  <2>1. PartOfMembers(members')
    BY <1>1 DEF Insert
  <2> QED
    BY <2>1, Unfiling
<1>2. CASE <<a, x>> \notin DOMAIN kept
  <2>1. /\ DOMAIN members' = DOMAIN kept \cup {<<a, x>>}
        /\ members'[<<a, x>>] = r
        /\ \A e \in DOMAIN kept : members'[e] = kept[e]
    BY <1>2 DEF Insert
  <2>2. \A e \in DOMAIN kept : Kept(e)
    BY <2>1, Untouched DEF PartOfMembers
  <2>3. Display(a, x)' = IF r = NULL THEN assets'[x].name ELSE r
    BY <2>1 DEF Display
  <2>4. MembersOK'
    <3>1. <<a, x>> \in Album \X {y \in Asset : Exists(y)'}
      OBVIOUS
    <3>2. DOMAIN kept \subseteq Album \X {y \in Asset : Exists(y)'}
      BY DEF TypeOK, RowsKept, PartOfMembers
    <3>3. DOMAIN members' \subseteq Album \X {y \in Asset : Exists(y)'}
      BY <2>1, <3>1, <3>2
    <3>4. \A e \in DOMAIN members' : members'[e] \in Name \cup {NULL}
      BY <2>1 DEF TypeOK, PartOfMembers
    <3> QED
      BY <3>3, <3>4 DEF MembersOK
  <2> QED
    BY <1>2, <2>1, <2>2, <2>3, <2>4
<1> QED
  BY <1>1, <1>2

\* A row with another place in the bin.
LEMMA RowsBinned ==
  ASSUME TypeOK, NEW x \in Asset, Exists(x), NEW o \in Bin \cup {NULL},
         assets' = [assets EXCEPT ![x] = [name |-> assets[x].name, hash |-> assets[x].hash,
                                          trash |-> o]]
  PROVE  RowsKept /\ assets' \in [Asset -> Row \cup {NULL}]
<1>1. assets[x] \in Row
  BY RowType
<1>2. [name |-> assets[x].name, hash |-> assets[x].hash, trash |-> o] \in Row
  BY <1>1 DEF Row
<1> QED
  BY <1>1, <1>2, NullAssumption DEF TypeOK, RowsKept, Exists

-----------------------------------------------------------------------------
(* The inductive invariant                                                  *)

\* An upload has an id to come, and ids to come have no row.
Room ==
    /\ IsFiniteSet(uploads)
    /\ Cardinality(uploads) + seq <= MaxAsset
    /\ \A x \in Asset : x > seq => ~Exists(x)

IInv == TypeOK /\ Room

\* A photo arrives in a alone of its name; all else shows what it showed.
Arrives(a, x) ==
    \A e \in DOMAIN members' :
        Kept(e) \/ (e = <<a, x>> /\ e \notin DOMAIN members /\ Alone(a, x)')

LEMMA InvFromParts ==
  ASSUME IInv, MembersOK', RowsKept, assets' \in [Asset -> Row \cup {NULL}],
         \A x \in Asset : Exists(x)' => Exists(x), requests' \in 0..MaxRequests,
         UNCHANGED <<seq, uploads>>
  PROVE  IInv'
<1>1. TypeOK'
  BY DEF IInv, TypeOK, MembersOK
<1>2. Room'
  BY DEF IInv, Room
<1> QED
  BY <1>1, <1>2 DEF IInv

\* The clash rule looks at everybody else in the album.
LEMMA AloneByRule ==
  ASSUME NEW a, NEW x, NEW f, NEW n, NEW m \in NameInAlbum(f, n, x),
         Display(a, x)' = m,
         \A y \in Holds(a)' \ {x} : y \in DOMAIN f /\ f[y] = Display(a, y)'
  PROVE  Alone(a, x)'
BY ArrivalNames DEF Alone

\* Those in an album were there before, but for the arrival.
LEMMA OthersInAlbum ==
  ASSUME TypeOK, NEW a \in Album, NEW x,
         \A e \in DOMAIN members' : Kept(e) \/ e = <<a, x>>
  PROVE  \A y \in Holds(a)' \ {x} : y \in Holds(a) /\ Display(a, y)' = Display(a, y)
<1> SUFFICES ASSUME NEW y \in Holds(a)', y # x
             PROVE  y \in Holds(a) /\ Display(a, y)' = Display(a, y)
  OBVIOUS
<1>1. Kept(<<a, y>>)
  BY DEF Holds
<1> QED
  BY <1>1 DEF Kept, Holds

LEMMA StartUploadStep ==
  ASSUME IInv, NEW a \in Album, NEW h \in Hash, NEW n \in Name, StartUpload(a, h, n),
         requests' \in 0..MaxRequests
  PROVE  IInv' /\ \A e \in DOMAIN members' : Kept(e)
<1>1. PICK m \in NameInAlbum(NamesIn(a), n, NULL) :
         /\ Fits(m)
         /\ uploads' = uploads \cup {[album |-> a, name |-> m, hash |-> h]}
  BY DEF StartUpload
<1>2. m \in Name
  BY <1>1, ArrivalNames, NamesAreWide, FittingName
<1>3. IsFiniteSet(uploads') /\ Cardinality(uploads') \in Nat
      /\ Cardinality(uploads') <= Cardinality(uploads) + 1
  <2>1. /\ IsFiniteSet(uploads')
        /\ \/ Cardinality(uploads') = Cardinality(uploads)
           \/ Cardinality(uploads') = Cardinality(uploads) + 1
    BY <1>1, FS_AddElement, Zenon DEF IInv, Room
  <2>2. Cardinality(uploads) \in Nat /\ Cardinality(uploads') \in Nat
    BY <2>1, FS_CardinalityType DEF IInv, Room
  <2> QED
    BY <2>1, <2>2
<1>4. Cardinality(uploads) \in Nat /\ seq \in Nat /\ seq' = seq
      /\ Cardinality(uploads) + seq < MaxAsset
  BY FS_CardinalityType DEF IInv, Room, TypeOK, StartUpload
<1>5. Cardinality(uploads') + seq' <= MaxAsset
  BY <1>3, <1>4, BoundAssumption
<1>6. Room'
  BY <1>3, <1>5 DEF IInv, Room, Exists, StartUpload
<1>7. uploads' \subseteq Upload
  BY <1>1, <1>2 DEF IInv, TypeOK, Upload
<1>8. TypeOK'
  BY <1>7 DEF IInv, TypeOK, Exists, StartUpload
<1>9. RowsKept /\ \A e \in DOMAIN members' : e \in DOMAIN members /\ members'[e] = members[e]
  BY DEF RowsKept, StartUpload, Exists
<1> QED
  BY <1>6, <1>8, <1>9, Untouched DEF IInv

LEMMA FileUploadStep ==
  ASSUME IInv, NEW u \in uploads, FileUpload(u), UNCHANGED requests, NEW x, x = seq + 1
  PROVE  IInv' /\ x \in Asset /\ Arrives(Scatter, x)
<1> DEFINE row == [name |-> u.name, hash |-> u.hash, trash |-> NULL]
<1>1. /\ u.name \in Name /\ row \in Row /\ row # NULL
      /\ u \in Upload
  BY NullAssumption DEF IInv, TypeOK, Upload, Row
<1>2. /\ IsFiniteSet(uploads') /\ Cardinality(uploads') = Cardinality(uploads) - 1
      /\ Cardinality(uploads) \in Nat /\ Cardinality(uploads') \in Nat
  BY FS_RemoveElement, FS_CardinalityType DEF FileUpload, IInv, Room
<1>3. x \in Asset /\ seq \in Nat /\ x > seq
  BY <1>2, BoundAssumption DEF IInv, Room, TypeOK, Asset
<1>4. ~Exists(x)
  BY <1>3 DEF IInv, Room
<1>5. assets' = [assets EXCEPT ![x] = row] /\ assets \in [Asset -> Row \cup {NULL}]
  BY DEF FileUpload, IInv, TypeOK
<1>6. RowsKept /\ Exists(x)' /\ assets'[x] = row /\ assets' \in [Asset -> Row \cup {NULL}]
  <2> HIDE DEF row
  <2>1. \A y \in Asset : assets'[y] = IF y = x THEN row ELSE assets[y]
    BY <1>5
  <2>2. RowsKept
    BY <1>4, <2>1 DEF RowsKept, Exists
  <2>3. assets'[x] = row /\ Exists(x)'
    BY <1>1, <1>3, <2>1 DEF Exists
  <2>4. assets' \in [Asset -> Row \cup {NULL}]
    BY <1>1, <1>5
  <2> QED
    BY <2>2, <2>3, <2>4
<1>7. PICK r \in membershipNameTx(NamesIn(Scatter), u.name, x) :
         Fits(r) /\ members' = Insert(members, Scatter, x, r)
  BY DEF FileUpload
<1>8. /\ r \in Name \cup {NULL}
      /\ \E m \in NameInAlbum(NamesIn(Scatter), u.name, x) :
            m = (IF r = NULL THEN u.name ELSE r)
  BY <1>1, <1>7, MembershipNames
<1>9. /\ MembersOK'
      /\ \A e \in DOMAIN members' :
            \/ Kept(e)
            \/ /\ e = <<Scatter, x>> /\ e \notin DOMAIN members
               /\ Display(Scatter, x)' = IF r = NULL THEN assets'[x].name ELSE r
  <2> HIDE DEF row
  <2>1. TypeOK /\ Scatter \in Album /\ PartOfMembers(members)
    BY AlbumAssumption, WithoutIsPart DEF IInv
  <2> QED
    BY <1>3, <1>6, <1>7, <1>8, <2>1, Filing
<1>10. ASSUME NEW e \in DOMAIN members', ~Kept(e)
       PROVE  e = <<Scatter, x>> /\ e \notin DOMAIN members /\ Alone(Scatter, x)'
  <2>1. /\ e = <<Scatter, x>> /\ e \notin DOMAIN members
        /\ Display(Scatter, x)' = IF r = NULL THEN u.name ELSE r
    BY <1>6, <1>9, <1>10
  <2>2. \A y \in Holds(Scatter)' \ {x} :
           y \in Holds(Scatter) /\ Display(Scatter, y)' = Display(Scatter, y)
    BY <1>9, OthersInAlbum, AlbumAssumption DEF IInv
  <2>3. \A y \in Holds(Scatter)' \ {x} :
           y \in DOMAIN NamesIn(Scatter) /\ NamesIn(Scatter)[y] = Display(Scatter, y)'
    BY <2>2 DEF NamesIn
  <2>4. PICK m \in NameInAlbum(NamesIn(Scatter), u.name, x) : Display(Scatter, x)' = m
    BY <1>8, <2>1
  <2>5. Alone(Scatter, x)'
    <3> HIDE DEF row
    <3> QED
      BY <2>3, <2>4, AloneByRule
  <2> QED
    BY <2>1, <2>5
<1>11. TypeOK'
  BY <1>3, <1>6, <1>9 DEF IInv, TypeOK, MembersOK, FileUpload, Asset
<1>12. Room'
  BY <1>2, <1>3, <1>5 DEF IInv, Room, Exists, FileUpload, TypeOK
<1> QED
  BY <1>3, <1>10, <1>11, <1>12 DEF IInv, Arrives

\* Filing a photo there is in an album under the clash rule over names g.
LEMMA FilingByRule ==
  ASSUME IInv, RowsKept, assets' \in [Asset -> Row \cup {NULL}],
         \A x \in Asset : Exists(x)' => Exists(x), requests' \in 0..MaxRequests,
         UNCHANGED <<seq, uploads>>,
         NEW a \in Album, NEW x \in Asset, Exists(x), NEW kept, PartOfMembers(kept),
         NEW n \in Name, NEW g, NEW m \in NameInAlbum(g, n, x),
         \A y \in Holds(a) \ {x} : y \in DOMAIN g /\ g[y] = Display(a, y),
         NEW r, r = (IF m = assets[x].name THEN NULL ELSE m), Fits(m) \/ Fits(r),
         members' = Insert(kept, a, x, r)
  PROVE  /\ IInv'
         /\ \A e \in DOMAIN members' :
               \/ Kept(e)
               \/ e = <<a, x>> /\ e \notin DOMAIN kept /\ Alone(a, x)' /\ Display(a, x)' = m
<1>1. TypeOK /\ assets[x].name \in Name /\ Exists(x)' /\ assets'[x].name = assets[x].name
  BY RowType DEF IInv, RowsKept, Row
<1>2. m \in Wide
  BY ArrivalNames, NamesAreWide
<1>3. r \in Name \cup {NULL}
  BY <1>2, FittingName
<1>4. /\ MembersOK'
      /\ \A e \in DOMAIN members' :
            \/ Kept(e)
            \/ /\ e = <<a, x>> /\ e \notin DOMAIN kept
               /\ Display(a, x)' = IF r = NULL THEN assets'[x].name ELSE r
  BY <1>1, <1>3, Filing
<1>5. (IF r = NULL THEN assets'[x].name ELSE r) = m
  BY <1>1, <1>2, NullIsNoName
<1>6. ASSUME NEW e \in DOMAIN members', ~Kept(e)
      PROVE  e = <<a, x>> /\ e \notin DOMAIN kept /\ Alone(a, x)' /\ Display(a, x)' = m
  <2>1. e = <<a, x>> /\ e \notin DOMAIN kept /\ Display(a, x)' = m
    BY <1>4, <1>5, <1>6
  <2>2. \A y \in Holds(a)' \ {x} : y \in Holds(a) /\ Display(a, y)' = Display(a, y)
    BY <1>1, <1>4, OthersInAlbum
  <2>3. Alone(a, x)'
    BY <2>1, <2>2, AloneByRule
  <2> QED
    BY <2>1, <2>3
<1>7. IInv'
  BY <1>4, InvFromParts
<1> QED
  BY <1>6, <1>7

\* The same where the photo arrives under the name of its row.
LEMMA FilingByMembership ==
  ASSUME IInv, UNCHANGED <<assets, seq, uploads>>, requests' \in 0..MaxRequests,
         NEW a \in Album, NEW x \in Asset, Exists(x), NEW kept, PartOfMembers(kept),
         NEW g, NEW r \in membershipNameTx(g, assets[x].name, x), Fits(r),
         \A y \in Holds(a) \ {x} : y \in DOMAIN g /\ g[y] = Display(a, y),
         members' = Insert(kept, a, x, r)
  PROVE  /\ IInv'
         /\ \A e \in DOMAIN members' :
               Kept(e) \/ (e = <<a, x>> /\ e \notin DOMAIN kept /\ Alone(a, x)')
<1>1. RowsKept /\ assets' \in [Asset -> Row \cup {NULL}] /\ assets[x].name \in Name
      /\ \A y \in Asset : Exists(y)' => Exists(y)
  BY RowType DEF IInv, TypeOK, RowsKept, Exists, Row
<1>2. PICK m \in NameInAlbum(g, assets[x].name, x) :
         r = IF m = assets[x].name THEN NULL ELSE m
  BY DEF membershipNameTx
<1> QED
  BY <1>1, <1>2, FilingByRule

LEMMA NamesInAlbum ==
  ASSUME NEW a, NEW y \in Holds(a)
  PROVE  y \in DOMAIN NamesIn(a) /\ NamesIn(a)[y] = Display(a, y)
BY DEF NamesIn

LEMMA AddAssetStep ==
  ASSUME IInv, NEW a \in Album, NEW x \in Asset, NEW onlyHere \in BOOLEAN,
         onlyHere => a \notin Shared, AddAssetToAlbum(a, x, onlyHere),
         requests' \in 0..MaxRequests
  PROVE  IInv' /\ Arrives(a, x)
<1> DEFINE gone == IF onlyHere THEN {<<s, x>> : s \in Shared} ELSE {}
           kept == Without(gone)
<1>1. Exists(x) /\ UNCHANGED <<assets, seq, uploads>>
  BY DEF AddAssetToAlbum
<1>2. PartOfMembers(kept) /\ (<<a, x>> \in DOMAIN members => <<a, x>> \in DOMAIN kept)
  <2>1. <<a, x>> \notin gone
    OBVIOUS
  <2> QED
    BY <2>1, WithoutIsPart DEF Without
<1>3. CASE members' = kept
  <2> HIDE DEF kept
  <2>1. RowsKept /\ assets' \in [Asset -> Row \cup {NULL}] /\ TypeOK
        /\ \A y \in Asset : Exists(y)' => Exists(y)
    BY <1>1 DEF IInv, TypeOK, RowsKept, Exists
  <2>2. MembersOK' /\ \A e \in DOMAIN members' : Kept(e)
    BY <1>2, <1>3, <2>1, Unfiling DEF PartOfMembers
  <2> QED
    BY <1>1, <2>1, <2>2, InvFromParts DEF Arrives
<1>4. ASSUME NEW r \in membershipNameTx(NamesIn(a), assets[x].name, x), Fits(r),
             members' = Insert(kept, a, x, r)
      PROVE  IInv' /\ Arrives(a, x)
  <2> HIDE DEF kept
  <2>1. /\ IInv'
        /\ \A e \in DOMAIN members' :
              Kept(e) \/ (e = <<a, x>> /\ e \notin DOMAIN kept /\ Alone(a, x)')
    BY <1>1, <1>2, <1>4, NamesInAlbum, FilingByMembership
  <2> QED
    BY <1>2, <2>1 DEF Arrives
<1> QED
  BY <1>3, <1>4 DEF AddAssetToAlbum

LEMMA RemoveOrParkStep ==
  ASSUME IInv, NEW a \in Album, NEW x \in Asset, RemoveOrPark(a, x),
         requests' \in 0..MaxRequests
  PROVE  /\ IInv'
         /\ \A e \in DOMAIN members' :
               \/ Kept(e)
               \/ /\ e = <<Scatter, x>> /\ Alone(Scatter, x)'
                  /\ e \in DOMAIN members => e = <<a, x>>
<1> DEFINE kept == Without({<<a, x>>})
           there == [y \in Holds(Scatter) \ {x} |-> Display(Scatter, y)]
<1>1. Exists(x) /\ UNCHANGED <<assets, seq, uploads>> /\ PartOfMembers(kept)
  BY WithoutIsPart DEF RemoveOrPark
<1>2. CASE members' = kept
  <2> HIDE DEF kept
  <2>1. RowsKept /\ assets' \in [Asset -> Row \cup {NULL}] /\ TypeOK
        /\ \A y \in Asset : Exists(y)' => Exists(y)
    BY <1>1 DEF IInv, TypeOK, RowsKept, Exists
  <2>2. MembersOK' /\ \A e \in DOMAIN members' : Kept(e)
    BY <1>1, <1>2, <2>1, Unfiling DEF PartOfMembers
  <2> QED
    BY <1>1, <2>1, <2>2, InvFromParts
<1>3. ASSUME Held(x) = {a}, NEW r \in membershipNameTx(there, assets[x].name, x), Fits(r),
             members' = Insert(kept, Scatter, x, r)
      PROVE  /\ IInv'
             /\ \A e \in DOMAIN members' :
                   \/ Kept(e)
                   \/ /\ e = <<Scatter, x>> /\ Alone(Scatter, x)'
                      /\ e \in DOMAIN members => e = <<a, x>>
  <2>1. Scatter \in Album
    BY AlbumAssumption
  <2>2. \A y \in Holds(Scatter) \ {x} : y \in DOMAIN there /\ there[y] = Display(Scatter, y)
    OBVIOUS
  <2>3. /\ IInv'
        /\ \A e \in DOMAIN members' :
              Kept(e) \/ (e = <<Scatter, x>> /\ e \notin DOMAIN kept /\ Alone(Scatter, x)')
    <3> HIDE DEF kept, there
    <3> QED
      BY <1>1, <1>3, <2>1, <2>2, FilingByMembership
  <2>4. <<Scatter, x>> \in DOMAIN members => Scatter = a
    BY <1>3, <2>1 DEF Held
  <2> QED
    BY <2>3, <2>4
<1> QED
  BY <1>2, <1>3 DEF RemoveOrPark

LEMMA RemoveOrTrashStep ==
  ASSUME IInv, NEW a \in Album, NEW x \in Asset, RemoveOrTrash(a, x),
         requests' \in 0..MaxRequests
  PROVE  IInv' /\ \A e \in DOMAIN members' : Kept(e)
<1>1. <<a, x>> \in DOMAIN members /\ Exists(x) /\ TypeOK /\ UNCHANGED <<seq, uploads>>
  BY DEF RemoveOrTrash, Held, IInv
<1>2. [album |-> a, name |-> Display(a, x)] \in Bin
  BY <1>1, DisplayType DEF Bin
<1>3. RowsKept /\ assets' \in [Asset -> Row \cup {NULL}]
  <2>1. CASE UNCHANGED assets
    BY <2>1 DEF IInv, TypeOK, RowsKept, Exists
  <2>2. CASE ~UNCHANGED assets
    BY <1>1, <1>2, <2>2, RowsBinned DEF RemoveOrTrash
  <2> QED
    BY <2>1, <2>2
<1>4. \A y \in Asset : Exists(y)' => Exists(y)
  BY <1>1 DEF RemoveOrTrash, Exists, TypeOK
<1>5. PartOfMembers(members')
  BY WithoutIsPart DEF RemoveOrTrash
<1> QED
  BY <1>1, <1>3, <1>4, <1>5, Unfiling, InvFromParts

LEMMA TrashAssetStep ==
  ASSUME IInv, NEW x \in Asset, TrashAsset(x), requests' \in 0..MaxRequests
  PROVE  IInv' /\ \A e \in DOMAIN members' : Kept(e)
<1>1. PICK a \in Held(x) :
         assets' = [assets EXCEPT ![x] = [name |-> assets[x].name, hash |-> assets[x].hash,
                                          trash |-> [album |-> a, name |-> Display(a, x)]]]
  BY DEF TrashAsset
<1>2. <<a, x>> \in DOMAIN members /\ Exists(x) /\ TypeOK /\ UNCHANGED <<seq, uploads>>
  BY DEF TrashAsset, Held, IInv
<1>3. [album |-> a, name |-> Display(a, x)] \in Bin
  BY <1>2, DisplayType DEF Bin
<1>4. RowsKept /\ assets' \in [Asset -> Row \cup {NULL}]
  BY <1>1, <1>2, <1>3, RowsBinned
<1>5. \A y \in Asset : Exists(y)' => Exists(y)
  BY <1>1, <1>2 DEF Exists, TypeOK
<1>6. PartOfMembers(members')
  BY WithoutIsPart DEF TrashAsset
<1> QED
  BY <1>2, <1>4, <1>5, <1>6, Unfiling, InvFromParts

LEMMA RestoreAssetStep ==
  ASSUME IInv, NEW a \in Album, NEW x \in Asset, RestoreAsset(a, x),
         requests' \in 0..MaxRequests
  PROVE  IInv' /\ Arrives(a, x)
<1> DEFINE n == assets[x].trash.name
<1>1. Exists(x) /\ TypeOK /\ UNCHANGED <<seq, uploads>>
  BY DEF RestoreAsset, IInv
<1>2. assets[x] \in Row /\ n \in Name
  BY <1>1, RowType DEF RestoreAsset, Row, Bin
<1>3. RowsKept /\ assets' \in [Asset -> Row \cup {NULL}]
  BY <1>1, RowsBinned DEF RestoreAsset
<1>4. \A y \in Asset : Exists(y)' => Exists(y)
  BY <1>1 DEF RestoreAsset, Exists, TypeOK
<1>5. PICK m \in NameInAlbum(NamesIn(a), n, x) :
         /\ Fits(m)
         /\ members' = Insert(members, a, x, IF m = assets[x].name THEN NULL ELSE m)
  BY DEF RestoreAsset
<1>6. \A y \in Holds(a) \ {x} : y \in DOMAIN NamesIn(a) /\ NamesIn(a)[y] = Display(a, y)
  BY NamesInAlbum
<1>7. PICK r : r = IF m = assets[x].name THEN NULL ELSE m
  OBVIOUS
<1>8. members' = Insert(members, a, x, r)
  BY <1>5, <1>7
<1> HIDE DEF n
<1>9. /\ IInv'
      /\ \A e \in DOMAIN members' :
            \/ Kept(e)
            \/ e = <<a, x>> /\ e \notin DOMAIN members /\ Alone(a, x)' /\ Display(a, x)' = m
  BY <1>1, <1>2, <1>3, <1>4, <1>5, <1>6, <1>7, <1>8, WithoutIsPart, FilingByRule
<1> QED
  BY <1>9 DEF Arrives

LEMMA DeleteAssetStep ==
  ASSUME IInv, NEW x \in Asset, DeleteAsset(x), requests' \in 0..MaxRequests
  PROVE  IInv' /\ \A e \in DOMAIN members' : Kept(e)
<1>1. \A y \in Asset : assets'[y] = IF y = x THEN NULL ELSE assets[y]
  BY DEF DeleteAsset, IInv, TypeOK
<1>2. ASSUME NEW e \in DOMAIN members'
      PROVE  e \in DOMAIN members /\ members'[e] = members[e] /\ e[2] # x /\ Kept(e)
  <2>1. e \in DOMAIN members /\ e \notin {<<a, x>> : a \in Album} /\ members'[e] = members[e]
    BY <1>2 DEF DeleteAsset, Without
  <2>2. PICK a \in Album, y \in Asset : e = <<a, y>>
    BY <2>1 DEF IInv, TypeOK
  <2>3. y # x /\ assets'[y] = assets[y]
    BY <1>1, <2>1, <2>2
  <2> QED
    BY <2>1, <2>2, <2>3 DEF Kept, Display
<1>3. assets' \in [Asset -> Row \cup {NULL}]
  BY DEF DeleteAsset, IInv, TypeOK
<1>4. DOMAIN members' \subseteq Album \X {y \in Asset : Exists(y)'}
  BY <1>1, <1>2 DEF IInv, TypeOK, Exists
<1>5. TypeOK'
  BY <1>2, <1>3, <1>4 DEF IInv, TypeOK, DeleteAsset
<1>6. Room'
  BY <1>1 DEF IInv, Room, Exists, DeleteAsset
<1> QED
  BY <1>2, <1>5, <1>6 DEF IInv

LEMMA TypedNames == Typed \subseteq Name
<1>1. <<>> \in Numbers /\ <<1>> \in Numbers
  <2>1. <<>> \in [1..0 -> 1..MaxNameAttempts] /\ <<1>> \in [1..1 -> 1..MaxNameAttempts]
    BY BoundAssumption
  <2>2. 0 \in 0..MaxNumbers /\ 1 \in 0..MaxNumbers
    BY BoundAssumption
  <2> QED
    BY <2>1, <2>2 DEF Numbers
<1> QED
  BY <1>1, LowerAssumption DEF Typed, Name

LEMMA UpdateAssetNameStep ==
  ASSUME IInv, NEW x \in Asset, NEW n \in Typed, UpdateAssetName(x, n),
         requests' \in 0..MaxRequests
  PROVE  IInv' /\ \A e \in DOMAIN members' : e \in DOMAIN members /\ (e[2] = x \/ Kept(e))
<1> DEFINE row == [name |-> n, hash |-> assets[x].hash, trash |-> assets[x].trash]
<1>1. assets[x] \in Row /\ Exists(x)
  BY RowType DEF UpdateAssetName, IInv
<1>2. row \in Row /\ row # NULL
  BY <1>1, TypedNames, NullAssumption DEF Row
<1>3. assets' = [assets EXCEPT ![x] = row]
  BY DEF UpdateAssetName
<1> HIDE DEF row
<1>4. /\ assets' \in [Asset -> Row \cup {NULL}]
      /\ \A y \in Asset : assets'[y] = IF y = x THEN row ELSE assets[y]
  BY <1>2, <1>3 DEF IInv, TypeOK
<1>5. /\ DOMAIN members' = DOMAIN members
      /\ \A e \in DOMAIN members : members'[e] = IF e[2] = x THEN NULL ELSE members[e]
  BY DEF UpdateAssetName
<1>6. \A y \in Asset : Exists(y)' <=> Exists(y)
  BY <1>1, <1>2, <1>4 DEF Exists
<1>7. ASSUME NEW e \in DOMAIN members, e[2] # x PROVE Kept(e)
  <2>1. PICK a \in Album, y \in Asset : e = <<a, y>>
    BY <1>7 DEF IInv, TypeOK
  <2>2. y # x /\ assets'[y] = assets[y] /\ members'[e] = members[e]
    BY <1>4, <1>5, <1>7, <2>1
  <2> QED
    BY <2>1, <2>2 DEF Kept, Display
<1>8. TypeOK'
  <2>1. DOMAIN members' \subseteq Album \X {y \in Asset : Exists(y)'}
    BY <1>5, <1>6 DEF IInv, TypeOK
  <2> QED
    BY <1>4, <1>5, <2>1 DEF IInv, TypeOK, UpdateAssetName
<1>9. Room'
  BY <1>6 DEF IInv, Room, UpdateAssetName
<1> QED
  BY <1>5, <1>7, <1>8, <1>9 DEF IInv

\* A merge keeps what all but the newcomers show, and only a newcomer whose bytes are
\* there twice shares its name.
LEMMA MoveAlbumStep ==
  ASSUME IInv, NEW a \in Album, NEW b \in Album, MoveAlbum(a, b), requests' \in 0..MaxRequests
  PROVE  /\ IInv'
         /\ \A e \in DOMAIN members' :
               Kept(e) \/ (e[1] = b /\ e \notin DOMAIN members)
         /\ \A x \in Asset :
               /\ <<b, x>> \in DOMAIN members' \ DOMAIN members
               /\ ~Alone(b, x)'
               => Twice(b, x)'
<1> DEFINE new == Holds(a) \ Holds(b)
           start == [x \in Holds(b) \cup new |->
                        IF x \in new THEN Display(a, x) ELSE Display(b, x)]
<1>1. PICK f \in Merged(start, new) :
        /\ \A y \in DOMAIN f : Fits(f[y])
        /\ members' =
             [e \in (DOMAIN members \ ({a} \X Asset)) \cup ({b} \X new) |->
                IF e[1] # b THEN members[e]
                ELSE IF f[e[2]] # start[e[2]] THEN f[e[2]]
                ELSE IF e \in DOMAIN members THEN members[e]
                ELSE members[<<a, e[2]>>]]
  BY DEF MoveAlbum
<1>2. TypeOK /\ a # b /\ UNCHANGED <<assets, seq, uploads>>
  BY DEF MoveAlbum, IInv
<1>3. /\ DOMAIN start = Holds(b) \cup new
      /\ \A x \in new : <<a, x>> \in DOMAIN members /\ start[x] = Display(a, x)
      /\ \A x \in Holds(b) : <<b, x>> \in DOMAIN members /\ start[x] = Display(b, x)
  BY DEF Holds
<1>4. \A x \in DOMAIN start : start[x] \in Wide /\ x \in Asset
  <2> HIDE DEF new, start
  <2> QED
    BY <1>2, <1>3, DisplayType
<1>5. Settled(start, new, MaxAsset, f)
  <2>1. new \subseteq DOMAIN start /\ DOMAIN start \subseteq Asset
    BY <1>3, <1>4
  <2> HIDE DEF new, start
  <2> QED
    BY <1>1, <1>4, <2>1, MergedSettles
<1>6. /\ DOMAIN f = DOMAIN start
      /\ \A x \in DOMAIN f : f[x] \in Name
      /\ \A x \in Holds(b) : f[x] = start[x]
      /\ \A y \in new : Cleared(f, y)
  <2>1. \A y \in new : y <= MaxAsset /\ y \notin Holds(b)
    BY BoundAssumption DEF Holds, Asset
  <2>2. \A x \in Holds(b) : x \in DOMAIN start /\ x \notin new
    OBVIOUS
  <2> HIDE DEF new, start
  <2> QED
    BY <1>1, <1>5, <2>1, <2>2, FittingName DEF Settled
<1>7. /\ DOMAIN members' = (DOMAIN members \ ({a} \X Asset)) \cup ({b} \X new)
      /\ \A e \in DOMAIN members' : e[1] # b => members'[e] = members[e]
      /\ \A x \in DOMAIN f : <<b, x>> \in DOMAIN members' =>
            members'[<<b, x>>] = IF f[x] # start[x] THEN f[x]
                                 ELSE IF <<b, x>> \in DOMAIN members THEN members[<<b, x>>]
                                 ELSE members[<<a, x>>]
  <2> HIDE DEF new, start
  <2> QED
    BY <1>1
<1>8. Holds(b)' = DOMAIN f
  <2>1. \A x \in Asset : <<b, x>> \in DOMAIN members' <=> x \in Holds(b) \/ x \in new
    BY <1>2, <1>7 DEF Holds
  <2>2. Holds(b)' = {x \in Asset : <<b, x>> \in DOMAIN members'}
    BY DEF Holds
  <2> HIDE DEF new, start
  <2> QED
    BY <1>3, <1>4, <1>6, <2>1, <2>2
<1>9. ASSUME NEW x \in DOMAIN f
      PROVE  Display(b, x)' = f[x] /\ members'[<<b, x>>] \in Name \cup {NULL}
  <2>1. <<b, x>> \in DOMAIN members'
    BY <1>8, <1>9 DEF Holds
  <2>2. CASE f[x] # start[x]
    <3>1. members'[<<b, x>>] = f[x] /\ f[x] \in Name /\ f[x] # NULL
      <4> HIDE DEF start
      <4> QED
        BY <1>6, <1>7, <1>9, <2>1, <2>2, NamesAreWide, NullIsNoName
    <3> QED
      BY <3>1 DEF Display
  <2>3. CASE f[x] = start[x] /\ x \in Holds(b)
    <3>1. members'[<<b, x>>] = members[<<b, x>>]
      <4> HIDE DEF start
      <4> QED
        BY <1>3, <1>7, <1>9, <2>1, <2>3
    <3> QED
      BY <1>2, <1>3, <2>3, <3>1 DEF Display, TypeOK
  <2>4. CASE f[x] = start[x] /\ x \in new
    <3>1. members'[<<b, x>>] = members[<<a, x>>]
      <4>1. <<b, x>> \notin DOMAIN members
        BY <1>2, <1>3, <2>4, DisplayType DEF Holds
      <4> HIDE DEF start
      <4> QED
        BY <1>7, <1>9, <2>1, <2>4, <4>1
    <3>2. start[x] = Display(a, x) /\ <<a, x>> \in DOMAIN members
      BY <1>3, <2>4
    <3> HIDE DEF start
    <3> QED
      BY <1>2, <2>4, <3>1, <3>2 DEF Display, TypeOK
  <2> QED
    BY <1>3, <1>6, <2>2, <2>3, <2>4
<1> HIDE DEF start
<1>10. RowsKept /\ assets' \in [Asset -> Row \cup {NULL}]
       /\ \A y \in Asset : Exists(y)' => Exists(y)
  BY <1>2 DEF TypeOK, RowsKept, Exists
<1>11. ASSUME NEW e \in DOMAIN members'
       PROVE  /\ e \in Album \X {y \in Asset : Exists(y)'}
              /\ members'[e] \in Name \cup {NULL}
              /\ Kept(e) \/ (e[1] = b /\ e \notin DOMAIN members)
  <2>1. CASE e \in DOMAIN members /\ e[1] # b
    <3>1. Kept(e)
      BY <1>2, <1>7, <1>10, <1>11, <2>1, Untouched
    <3> QED
      BY <1>2, <1>7, <1>11, <2>1, <3>1 DEF TypeOK, Exists
  <2>2. CASE e \in DOMAIN members /\ e[1] = b
    <3>1. PICK x \in Asset : e = <<b, x>> /\ Exists(x)
      BY <1>2, <2>2 DEF TypeOK
    <3>2. x \in Holds(b) /\ x \in DOMAIN f
      BY <1>3, <1>6, <2>2, <3>1 DEF Holds
    <3>3. Display(b, x)' = Display(b, x)
      BY <1>3, <1>6, <1>9, <3>2
    <3>4. Kept(e)
      BY <1>2, <2>2, <3>1, <3>3 DEF Kept
    <3> QED
      BY <1>2, <1>9, <3>1, <3>2, <3>4 DEF Exists
  <2>3. CASE e \in {b} \X new /\ e \notin DOMAIN members
    <3>1. PICK x \in new : e = <<b, x>>
      BY <2>3
    <3>2. x \in DOMAIN f /\ x \in Asset /\ Exists(x)
      BY <1>2, <1>3, <1>6, <3>1, DisplayType
    <3> QED
      BY <1>2, <1>9, <2>3, <3>1, <3>2 DEF Exists
  <2> QED
    BY <1>7, <1>11, <2>1, <2>2, <2>3
<1>12. IInv'
  <2>1. MembersOK'
    BY <1>11 DEF MembersOK
  <2> QED
    BY <1>2, <1>10, <2>1, InvFromParts
<1>13. ASSUME NEW x \in Asset, <<b, x>> \in DOMAIN members' \ DOMAIN members, ~Alone(b, x)'
       PROVE  Twice(b, x)'
  <2>1. x \in new /\ x \in DOMAIN f
    BY <1>3, <1>6, <1>8, <1>13 DEF Holds
  <2>2. PICK y \in DOMAIN f \ {x} : SameName(f[y], f[x])
    BY <1>8, <1>9, <1>13, <2>1 DEF Alone
  <2>3. y \in albumNameClashTx(f, f[x], x)
    BY <2>2 DEF albumNameClashTx
  <2>4. PICK z \in albumNameClashTx(f, f[x], x) : assets[z].hash = assets[x].hash
    BY <1>6, <2>1, <2>3 DEF Cleared
  <2>5. z \in Holds(b)' \ {x} /\ SameName(f[x], f[z])
    BY <1>8, <2>4 DEF albumNameClashTx, SameName
  <2>6. Display(b, z)' = f[z] /\ Display(b, x)' = f[x]
    BY <1>8, <1>9, <2>1, <2>5
  <2> QED
    BY <1>2, <2>4, <2>5, <2>6 DEF Twice
<1> QED
  BY <1>11, <1>12, <1>13

-----------------------------------------------------------------------------
(* All steps                                                                *)

\* The five things a step does to what albums show.
Quiet == \A e \in DOMAIN members' : Kept(e)

Arrival == \E a \in Album, x \in Asset : Arrives(a, x)

Parking ==
    \E a \in Album, x \in Asset :
        /\ RemoveOrPark(a, x)
        /\ \A e \in DOMAIN members' :
              \/ Kept(e)
              \/ /\ e = <<Scatter, x>> /\ Alone(Scatter, x)'
                 /\ e \in DOMAIN members => e = <<a, x>>

Renaming ==
    \E x \in Asset, n \in Typed :
        /\ UpdateAssetName(x, n)
        /\ \A e \in DOMAIN members' : e[2] = x \/ Kept(e)

Merging ==
    \E b \in Album :
        /\ \A e \in DOMAIN members' : Kept(e) \/ (e[1] = b /\ e \notin DOMAIN members)
        /\ \A x \in Asset :
              /\ <<b, x>> \in DOMAIN members' \ DOMAIN members
              /\ ~Alone(b, x)'
              => Twice(b, x)'

LEMMA Steps ==
  ASSUME IInv, Next
  PROVE  IInv' /\ (Quiet \/ Arrival \/ Parking \/ Renaming \/ Merging)
<1>1. CASE Request /\ requests > 0 /\ requests' = requests - 1
  <2>1. requests' \in 0..MaxRequests
    BY <1>1, BoundAssumption DEF IInv, TypeOK
  <2>2. ASSUME NEW a \in Album, NEW h \in Hash, NEW n \in Typed, StartUpload(a, h, n)
        PROVE  IInv' /\ Quiet
    BY <2>1, <2>2, StartUploadStep, TypedNames DEF Quiet
  <2>3. ASSUME NEW a \in Album, NEW x \in Asset, NEW onlyHere \in BOOLEAN,
               onlyHere => a \notin Shared, AddAssetToAlbum(a, x, onlyHere)
        PROVE  IInv' /\ Arrival
    BY <2>1, <2>3, AddAssetStep DEF Arrival
  <2>4. ASSUME NEW a \in Album, NEW x \in Asset, RemoveOrTrash(a, x)
        PROVE  IInv' /\ Quiet
    BY <2>1, <2>4, RemoveOrTrashStep DEF Quiet
  <2>5. ASSUME NEW a \in Album, NEW x \in Asset, RemoveOrPark(a, x)
        PROVE  IInv' /\ Parking
    BY <2>1, <2>5, RemoveOrParkStep DEF Parking
  <2>6. ASSUME NEW a \in Album, NEW x \in Asset, RestoreAsset(a, x)
        PROVE  IInv' /\ Arrival
    BY <2>1, <2>6, RestoreAssetStep DEF Arrival
  <2>7. ASSUME NEW x \in Asset, TrashAsset(x) \/ DeleteAsset(x)
        PROVE  IInv' /\ Quiet
    BY <2>1, <2>7, TrashAssetStep, DeleteAssetStep DEF Quiet
  <2>8. ASSUME NEW a \in Album, NEW b \in Album, MoveAlbum(a, b)
        PROVE  IInv' /\ Merging
    BY <2>1, <2>8, MoveAlbumStep DEF Merging
  <2>9. ASSUME NEW x \in Asset, NEW n \in Typed, UpdateAssetName(x, n)
        PROVE  IInv' /\ Renaming
    BY <2>1, <2>9, UpdateAssetNameStep DEF Renaming
  <2>10. ASSUME NEW a \in Album, NEW x \in Asset,
                \/ AddAssetToAlbum(a, x, FALSE)
                \/ a \notin Shared /\ AddAssetToAlbum(a, x, TRUE)
                \/ RemoveOrTrash(a, x) \/ RemoveOrPark(a, x) \/ RestoreAsset(a, x)
         PROVE  IInv' /\ (Quiet \/ Arrival \/ Parking)
    <3>1. CASE AddAssetToAlbum(a, x, FALSE)
      BY <2>3, <3>1
    <3>2. CASE a \notin Shared /\ AddAssetToAlbum(a, x, TRUE)
      BY <2>3, <3>2
    <3>3. CASE RemoveOrTrash(a, x)
      BY <2>4, <3>3
    <3>4. CASE RemoveOrPark(a, x)
      BY <2>5, <3>4
    <3>5. CASE RestoreAsset(a, x)
      BY <2>6, <3>5
    <3> QED
      BY <2>10, <3>1, <3>2, <3>3, <3>4, <3>5
  <2> QED
    BY <1>1, <2>2, <2>7, <2>8, <2>9, <2>10, Zenon DEF Request
<1>2. ASSUME NEW u \in uploads, FileUpload(u), UNCHANGED requests
      PROVE  IInv' /\ Arrival
  <2>1. PICK x : x = seq + 1
    OBVIOUS
  <2> QED
    BY <1>2, <2>1, FileUploadStep, AlbumAssumption DEF Arrival
<1>3. CASE UNCHANGED vars
  <2>1. IInv'
    BY <1>3 DEF vars, IInv, TypeOK, Room, Exists
  <2>2. Quiet
    BY <1>3 DEF vars, Quiet, Kept, Display
  <2> QED
    BY <2>1, <2>2
<1> QED
  BY <1>1, <1>2, <1>3 DEF Next

LEMMA InitInv == Init => IInv
<1> SUFFICES ASSUME Init PROVE IInv
  OBVIOUS
<1>1. IsFiniteSet(uploads) /\ Cardinality(uploads) = 0
  BY FS_EmptySet DEF Init
<1>2. TypeOK
  BY BoundAssumption DEF Init, TypeOK, Exists
<1>3. Room
  BY <1>1, BoundAssumption DEF Init, Room, Exists
<1> QED
  BY <1>2, <1>3 DEF IInv

\* Types and room for the uploads in progress survive every request.
THEOREM Inductive == Spec => []IInv
<1>1. IInv /\ [Next]_vars => IInv'
  <2>1. IInv /\ UNCHANGED vars => IInv'
    BY DEF vars, IInv, TypeOK, Room, Exists
  <2> QED
    BY <2>1, Steps
<1> QED
  BY <1>1, InitInv, PTL DEF Spec

\* Types hold, and only photos that have a row are in albums, whatever is uploaded,
\* filed, merged, renamed and deleted.
THEOREM TypeCorrect == Spec => []TypeOK
<1>1. IInv => TypeOK
  BY DEF IInv
<1> QED
  BY <1>1, Inductive, PTL

\* Two photos that keep their names clashed before if they clash now.
LEMMA ClashAmongKept ==
  ASSUME TypeOK, NEW a, NEW x, NEW y, <<a, x, y>> \in Clashes', Kept(<<a, x>>), Kept(<<a, y>>)
  PROVE  <<a, x, y>> \in Clashes
BY DEF Clashes, Kept, Holds

LEMMA ClashParts ==
  ASSUME NEW c \in Clashes'
  PROVE  \E a \in Album, x \in Asset, y \in Asset :
            /\ c = <<a, x, y>> /\ x # y
            /\ <<a, x>> \in DOMAIN members' /\ <<a, y>> \in DOMAIN members'
            /\ ~Alone(a, x)' /\ ~Alone(a, y)'
<1>1. PICK a \in Album, x \in Asset, y \in Asset : c = <<a, x, y>>
  BY DEF Clashes
<1>2. /\ x \in Holds(a)' /\ y \in Holds(a)' /\ x # y
      /\ SameName(Display(a, x), Display(a, y))'
  BY <1>1 DEF Clashes
<1>3. SameName(Display(a, y), Display(a, x))'
  BY <1>2 DEF SameName
<1> QED
  BY <1>1, <1>2, <1>3 DEF Alone, Holds

\* The clash rule does what it is for: whatever arrives wherever, in a merge also any
\* number of photos at once, two different photos come to show one name only by a rename
\* or where the album has the bytes of one of them twice under that name.
THEOREM ClashRuleHolds == Spec => NoNewClash
<1>1. ASSUME IInv, Next, NEW c \in Clashes'
      PROVE  \/ c \in Clashes
             \/ \E n \in Typed : UpdateAssetName(c[2], n) \/ UpdateAssetName(c[3], n)
             \/ Twice(c[1], c[2])' \/ Twice(c[1], c[3])'
  <2>1. PICK a \in Album, x \in Asset, y \in Asset :
            /\ c = <<a, x, y>> /\ x # y
            /\ <<a, x>> \in DOMAIN members' /\ <<a, y>> \in DOMAIN members'
            /\ ~Alone(a, x)' /\ ~Alone(a, y)'
    BY <1>1, ClashParts
  <2>2. CASE Kept(<<a, x>>) /\ Kept(<<a, y>>)
    BY <1>1, <2>1, <2>2, ClashAmongKept DEF IInv
  <2>3. CASE Quiet
    BY <2>1, <2>2, <2>3 DEF Quiet
  <2>4. CASE Arrival
    BY <2>1, <2>2, <2>4 DEF Arrival, Arrives
  <2>5. CASE Parking
    BY <2>1, <2>2, <2>5 DEF Parking
  <2>6. CASE Renaming
    <3>1. PICK z \in Asset, n \in Typed :
            /\ UpdateAssetName(z, n)
            /\ \A e \in DOMAIN members' : e[2] = z \/ Kept(e)
      BY <2>6 DEF Renaming
    <3>2. CASE z # x /\ z # y
      BY <2>1, <2>2, <3>1, <3>2
    <3> QED
      BY <2>1, <3>1, <3>2
  <2>7. CASE Merging
    BY <2>1, <2>2, <2>7 DEF Merging
  <2> QED
    BY <1>1, <2>3, <2>4, <2>5, <2>6, <2>7, Steps
<1>2. IInv /\ [Next]_vars =>
        [\A c \in Clashes' :
            \/ c \in Clashes
            \/ \E n \in Typed : UpdateAssetName(c[2], n) \/ UpdateAssetName(c[3], n)
            \/ Twice(c[1], c[2])' \/ Twice(c[1], c[3])']_vars
  BY <1>1
<1> QED
  BY <1>2, Inductive, PTL DEF Spec, NoNewClash

\* A photo that stays in an album keeps its name there, however many arrive and leave.
THEOREM NamesAreKept == Spec => NamesStay
<1>1. ASSUME IInv, Next, NEW e \in DOMAIN members \cap (DOMAIN members)'
      PROVE  \/ Display(e[1], e[2])' = Display(e[1], e[2])
             \/ \E n \in Typed : UpdateAssetName(e[2], n)
             \/ AddAssetToAlbum(e[1], e[2], TRUE) \/ RemoveOrPark(e[1], e[2])
  <2>1. Kept(e) => Display(e[1], e[2])' = Display(e[1], e[2])
    BY DEF Kept
  <2>2. CASE Quiet
    BY <2>1, <2>2 DEF Quiet
  <2>3. CASE Arrival
    BY <2>1, <2>3 DEF Arrival, Arrives
  <2>4. CASE Parking
    <3>1. PICK a \in Album, x \in Asset :
            RemoveOrPark(a, x) /\ (Kept(e) \/ e = <<a, x>>)
      BY <1>1, <2>4 DEF Parking
    <3>2. CASE e = <<a, x>>
      <4>1. e[1] = a /\ e[2] = x
        BY <3>2
      <4>2. RemoveOrPark(e[1], e[2])
        BY <3>1, <4>1, Zenon
      <4> QED
        BY <4>2
    <3> QED
      BY <2>1, <3>1, <3>2
  <2>5. CASE Renaming
    BY <2>1, <2>5 DEF Renaming
  <2>6. CASE Merging
    BY <2>1, <2>6 DEF Merging
  <2> QED
    BY <1>1, <2>2, <2>3, <2>4, <2>5, <2>6, Steps
<1>2. IInv /\ [Next]_vars =>
        [\A e \in DOMAIN members \cap (DOMAIN members)' :
            \/ Display(e[1], e[2])' = Display(e[1], e[2])
            \/ \E n \in Typed : UpdateAssetName(e[2], n)
            \/ AddAssetToAlbum(e[1], e[2], TRUE) \/ RemoveOrPark(e[1], e[2])]_vars
  BY <1>1
<1> QED
  BY <1>2, Inductive, PTL DEF Spec, NamesStay

\* What comes back from the bin has the name it was deleted under, if nobody there has
\* it now.
THEOREM NamesAreRestored == Spec => NameRestored
<1>1. ASSUME IInv, NEW a \in Album, NEW x \in Asset, RestoreAsset(a, x), a \notin Held(x)
      PROVE  \/ Display(a, x)' = assets[x].trash.name
             \/ \E y \in Holds(a) : SameName(Display(a, y), assets[x].trash.name)
  <2> DEFINE n == assets[x].trash.name
  <2>1. CASE albumNameClashTx(NamesIn(a), n, x) # {}
    BY <2>1, NamesInAlbum DEF albumNameClashTx, NamesIn
  <2>2. CASE albumNameClashTx(NamesIn(a), n, x) = {}
    <3>1. assets[x] \in Row /\ n \in Name /\ Exists(x)
      BY <1>1, RowType DEF RestoreAsset, Row, Bin, IInv
    <3>2. members' = Insert(members, a, x, IF n = assets[x].name THEN NULL ELSE n)
      BY <1>1, <2>2 DEF RestoreAsset, NameInAlbum
    <3>3. members'[<<a, x>>] = IF n = assets[x].name THEN NULL ELSE n
      <4>1. <<a, x>> \notin DOMAIN members
        BY <1>1 DEF Held
      <4> HIDE DEF n
      <4> QED
        BY <3>2, <4>1 DEF Insert
    <3>4. assets'[x].name = assets[x].name
      BY <1>1 DEF RestoreAsset, IInv, TypeOK
    <3>5. n # NULL
      BY <3>1, NamesAreWide, NullIsNoName
    <3> QED
      BY <3>3, <3>4, <3>5 DEF Display
  <2> QED
    BY <2>1, <2>2
<1>2. IInv =>
        [\A a \in Album, x \in Asset :
            RestoreAsset(a, x) /\ a \notin Held(x) =>
                \/ Display(a, x)' = assets[x].trash.name
                \/ \E y \in Holds(a) : SameName(Display(a, y), assets[x].trash.name)]_vars
  BY <1>1
<1> QED
  BY <1>2, Inductive, PTL DEF NameRestored
=============================================================================
