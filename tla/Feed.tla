-------------------------------- MODULE Feed --------------------------------
(***************************************************************************)
(* The change feed: transactions append to sync_log, GetChanges answers     *)
(* with what the asking identity can see at that moment, and _pull_changes  *)
(* goes through the answer and moves the cursor of the device behind it.    *)
(*                                                                         *)
(* Abstractions: a space is what one trunk holds, SHARED for the family's   *)
(* and an identity for its private one; it stands for its bucket as a place *)
(* too.  Albums are children of trunks, as the bundled client makes them.   *)
(* Every photo has a content of its own.  What made the trunks is not in    *)
(* the log.  Of the device's index only the photos it names are there.      *)
(***************************************************************************)
EXTENDS Integers, FiniteSets, Sequences, SequencesExt

CONSTANTS
    Identity,
    MaxAlbum, MaxPhoto,   \* bounds: ids of albums and photos
    SHARED,        \* owner_id NULL
    Switching,     \* the device may change its identity while a pull is under way
    MaxEvents,     \* bound: transactions of the server
    MaxFaults,     \* bound: pulls that fail, kills of the app
    MaxSwitches,   \* bound: changes of identity
    NULL

ASSUME SpaceAssumption == /\ SHARED \notin Identity /\ NULL \notin Identity \cup {SHARED}
                          /\ Identity # {}
ASSUME BoundAssumption == MaxAlbum \in Nat \ 0..1 /\ MaxPhoto \in Nat \ {0} /\ MaxEvents \in Nat
                          /\ MaxFaults \in Nat /\ MaxSwitches \in Nat

Album == 1..MaxAlbum
Photo == 1..MaxPhoto
Space == Identity \cup {SHARED}
Place == Space \cup Album
BinRow == [space : Space, from : Place]
Entry ==
    [entity : {"asset", "album_asset"}, id : Photo, op : {"create", "update", "delete"}]
    \cup [entity : {"album"}, id : Album, op : {"create", "update", "delete"}]

VARIABLES
    albumSeq, photoSeq,   \* AUTOINCREMENT: the ids given out last
    home,      \* the space of an album, NULL if it is not there
    filed,     \* the places that hold a photo
    bin,       \* where a photo in the bin was deleted from
    uploads,   \* <<photo, place it is for>> between the two transactions of an upload
    log,       \* sync_log, an entry's seq being its index
    me,        \* the identity the device is logged in as
    cursor,    \* last_cursor
    kept,      \* index: photo -> its last delete when it was entered
    pull,      \* _pull_changes: where it is, and its local variables
    faults, switches, events   \* what the bounds count

library == <<albumSeq, photoSeq, home, filed, bin, uploads>>
server == <<library, log, events>>
device == <<me, cursor, kept, pull, faults, switches>>
vars == <<server, device>>

Sight(i) == {SHARED, i}
SpaceOf(q) == IF q \in Space THEN q ELSE home[q]
There(q) == SpaceOf(q) # NULL

\* Mutant: the bin is not looked at.
SeesInAlbums(i, p) == \E q \in filed[p] : SpaceOf(q) \in Sight(i)

\* A visible album holds the photo, or it is in the bin of a visible trunk.
Sees(i, p) ==
    \/ \E q \in filed[p] : SpaceOf(q) \in Sight(i)
    \/ bin[p] # NULL /\ bin[p].space \in Sight(i)

Active(p) == bin[p] = NULL /\ filed[p] # {}

-----------------------------------------------------------------------------
(* Transactions, with what each logs                                        *)

Change(entity, id, op) == [entity |-> entity, id |-> id, op |-> op]
Log(es) == log' = log \o es
When(c, e) == IF c THEN <<e>> ELSE <<>>
ForEach(S, entity, op) == [n \in 1..Cardinality(S) |-> Change(entity, SetToSeq(S)[n], op)]

\* An album of space s, with the next id.
NewAlbum(a, s) ==
    /\ a = albumSeq + 1
    /\ albumSeq' = a
    /\ home' = [home EXCEPT ![a] = s]

CreateAlbum(a, s) ==
    /\ NewAlbum(a, s)
    /\ Log(<<Change("album", a, "create")>>)
    /\ UNCHANGED <<photoSeq, filed, bin, uploads>>

\* A name, which no property here is about.
UpdateAlbum(a) == Log(<<Change("album", a, "update")>>) /\ UNCHANGED library
UpdateAssetName(p) == Log(<<Change("asset", p, "update")>>) /\ UNCHANGED library

\* Mutant: what the album held still names it.
DeleteAlbumAlone(a) ==
    /\ home' = [home EXCEPT ![a] = NULL]
    /\ Log(<<Change("album", a, "delete")>>)
    /\ UNCHANGED <<albumSeq, photoSeq, filed, bin, uploads>>

\* The photos that only this album holds go to the bin.
DeleteAlbum(a) ==
    LET orphans == {p \in Photo : Active(p) /\ filed[p] = {a}}
    IN  /\ home' = [home EXCEPT ![a] = NULL]
        /\ filed' = [p \in Photo |-> filed[p] \ {a}]
        /\ bin' = [p \in Photo |-> IF p \in orphans
                                   THEN [space |-> home[a], from |-> a] ELSE bin[p]]
        /\ Log(ForEach(orphans, "asset", "delete") \o <<Change("album", a, "delete")>>)
        /\ UNCHANGED <<albumSeq, photoSeq, uploads>>

\* To another trunk, where it is folded into an album of its name if there is one.
MoveAlbum(a, s) ==
    /\ home' = [home EXCEPT ![a] = s]
    /\ Log(<<Change("album", a, "update")>>)
    /\ UNCHANGED <<albumSeq, photoSeq, filed, bin, uploads>>
MergeInto(a, t) ==
    LET added == {p \in Photo : a \in filed[p] /\ t \notin filed[p]}
    IN  /\ home' = [home EXCEPT ![a] = NULL]
        /\ filed' = [p \in Photo |-> IF a \in filed[p] THEN (filed[p] \ {a}) \cup {t}
                                     ELSE filed[p]]
        /\ Log(<<Change("album", t, "update"), Change("album", a, "delete")>>
               \o ForEach(added, "album_asset", "create"))
        /\ UNCHANGED <<albumSeq, photoSeq, bin, uploads>>

CreateAsset(p, q) ==
    /\ p = photoSeq + 1
    /\ photoSeq' = p
    /\ uploads' = uploads \cup {<<p, q>>}
    /\ Log(<<Change("asset", p, "create")>>)
    /\ UNCHANGED <<albumSeq, home, filed, bin>>

\* In the bucket of the trunk: linking never succeeds for a photo no album holds.
FileUpload(p, q) ==
    /\ uploads' = uploads \ {<<p, q>>}
    /\ filed' = [filed EXCEPT ![p] = {IF There(q) THEN SpaceOf(q) ELSE SHARED}]
    /\ Log(<<Change("album_asset", p, "create")>>)
    /\ UNCHANGED <<albumSeq, photoSeq, home, bin>>

AddAssetToAlbum(p, q, onlyHere) ==
    LET rest == IF onlyHere THEN {r \in filed[p] : SpaceOf(r) # SHARED} ELSE filed[p]
    IN  /\ rest \cup {q} # filed[p]
        /\ filed' = [filed EXCEPT ![p] = rest \cup {q}]
        /\ Log(When(rest # filed[p], Change("album_asset", p, "delete"))
               \o When(q \notin rest, Change("album_asset", p, "create")))
        /\ UNCHANGED <<albumSeq, photoSeq, home, bin, uploads>>

Bin(p, q) ==
    /\ bin' = [bin EXCEPT ![p] = [space |-> SpaceOf(q), from |-> q]]
    /\ filed' = [filed EXCEPT ![p] = {}]
    /\ UNCHANGED <<albumSeq, photoSeq, home, uploads>>

\* From whichever of its albums the photo is said to come.
TrashAsset(p) ==
    /\ Active(p)
    /\ \E q \in filed[p] : Bin(p, q)
    /\ Log(<<Change("asset", p, "delete")>>)

RemoveOrTrash(p, q) ==
    /\ Active(p)
    /\ LET gone == Change("album_asset", p, "delete")
       IN  IF filed[p] = {q}
           THEN Bin(p, q) /\ Log(<<gone, Change("asset", p, "delete")>>)
           ELSE /\ filed' = [filed EXCEPT ![p] = @ \ {q}]
                /\ Log(<<gone>>)
                /\ UNCHANGED <<albumSeq, photoSeq, home, bin, uploads>>

RemoveOrPark(p, q) ==
    /\ Active(p)
    /\ filed' = [filed EXCEPT ![p] = IF @ = {q} THEN {SpaceOf(q)} ELSE @ \ {q}]
    /\ Log(<<Change("album_asset", p, "delete")>>
           \o When(filed[p] = {q}, Change("album_asset", p, "create")))
    /\ UNCHANGED <<albumSeq, photoSeq, home, bin, uploads>>

\* To where it was; if that is gone, to the album of its name in the same trunk, which
\* is made when missing.
RestoreAsset(p) ==
    LET o == bin[p]
        To(q) == filed' = [filed EXCEPT ![p] = @ \cup {q}]
        back == Change("asset", p, "create")
    IN  /\ bin' = [bin EXCEPT ![p] = NULL]
        /\ UNCHANGED <<photoSeq, uploads>>
        /\ IF There(o.from)
           THEN To(o.from) /\ Log(<<back>>) /\ UNCHANGED <<albumSeq, home>>
           ELSE \/ \E b \in Album : home[b] = o.space
                        /\ To(b) /\ Log(<<back>>) /\ UNCHANGED <<albumSeq, home>>
                \/ \E a \in Album :
                        /\ To(a) /\ NewAlbum(a, o.space)
                        /\ Log(<<Change("album", a, "create"), back>>)

\* One photo, a trunk's bin, or what has been there for 30 days.
Destroy(S) ==
    /\ filed' = [p \in Photo |-> IF p \in S THEN {} ELSE filed[p]]
    /\ bin' = [p \in Photo |-> IF p \in S THEN NULL ELSE bin[p]]
    /\ Log(ForEach(S, "asset", "delete"))
    /\ UNCHANGED <<albumSeq, photoSeq, home, uploads>>

\* Requests of identity i, for what it sees.
AlbumRequest(i) ==
    \/ \E a \in Album, s \in Sight(i) : CreateAlbum(a, s)
    \/ \E a \in Album :
        /\ home[a] \in Sight(i)
        /\ \/ UpdateAlbum(a)
           \/ DeleteAlbum(a)
           \/ \E s \in Sight(i) : MoveAlbum(a, s)
           \/ \E t \in Album \ {a} : home[t] \in Sight(i) /\ MergeInto(a, t)

PlaceRequest(i, p, q) ==
    \/ Sees(i, p) /\ \E onlyHere \in BOOLEAN : AddAssetToAlbum(p, q, onlyHere)
    \/ q \in filed[p] /\ (RemoveOrTrash(p, q) \/ RemoveOrPark(p, q))

PhotoRequest(i) ==
    \E p \in Photo :
        \/ \E q \in Place : /\ There(q) /\ SpaceOf(q) \in Sight(i)
                            /\ CreateAsset(p, q) \/ PlaceRequest(i, p, q)
        \/ Sees(i, p) /\ (UpdateAssetName(p) \/ TrashAsset(p))
        \/ Sees(i, p) /\ bin[p] # NULL /\ RestoreAsset(p)

Server ==
    /\ events < MaxEvents
    /\ events' = events + 1
    /\ \/ \E i \in Identity : AlbumRequest(i) \/ PhotoRequest(i)
       \/ \E u \in uploads : FileUpload(u[1], u[2])
       \/ \E S \in SUBSET {p \in Photo : bin[p] # NULL} : S # {} /\ Destroy(S)
    /\ UNCHANGED device

-----------------------------------------------------------------------------
(* The device                                                               *)

Told(i, e) ==
    IF e.entity = "album" THEN home[e.id] \in Sight(i) ELSE Sees(i, e.id)

\* The entries behind a cursor that identity i is told of, ordered by seq.
GetChanges(i, after) == {n \in after + 1 .. Len(log) : Told(i, log[n])}

Idle == [at |-> "idle", from |-> 0, by |-> NULL, todo |-> {}, max |-> 0]

\* _pull_changes reads the cursor and asks.
Ask ==
    /\ pull.at = "idle"
    /\ pull' = [Idle EXCEPT !.at = "asked", !.from = cursor, !.by = me]
    /\ UNCHANGED <<server, me, cursor, kept, faults, switches>>

\* The answer as the server makes it, with max_seq as the loop over it will leave it.
Answered ==
    LET told == GetChanges(pull.by, pull.from)
    IN  [pull EXCEPT !.at = "going", !.todo = told,
                     !.max = IF told = {} THEN pull.from ELSE Max(told)]

\* Mutant: the cursor is moved before the answer has been gone through.
AnswerMovingCursor ==
    /\ pull.at = "asked"
    /\ pull' = Answered
    /\ cursor' = Answered.max
    /\ UNCHANGED <<server, me, kept, faults, switches>>

Answer ==
    /\ pull.at = "asked"
    /\ pull' = Answered
    /\ UNCHANGED <<server, me, cursor, kept, faults, switches>>

\* remove_local for every delete among the changes up to n.
Dropped(n) ==
    [p \in Photo |->
        IF \E k \in pull.todo : k <= n /\ log[k] = Change("asset", p, "delete")
        THEN NULL ELSE kept[p]]

\* On to the next new photo, whose thumbnail is awaited unless there is one already.
NextThumb ==
    /\ pull.at = "going"
    /\ \E n \in pull.todo :
        /\ log[n].entity = "asset" /\ log[n].op = "create"
        /\ kept' = Dropped(n)
        /\ pull' = [pull EXCEPT !.todo = {k \in @ : k > n}]
    /\ UNCHANGED <<server, me, cursor, faults, switches>>

\* Or to the end of the answer, with no more to await.
Finish ==
    /\ pull.at = "going"
    /\ kept' = Dropped(pull.max)
    /\ cursor' = pull.max
    /\ pull' = Idle
    /\ UNCHANGED <<server, me, faults, switches>>

\* An error leaves the cursor alone; a kill forgets the local variables.
FailPull ==
    /\ pull.at = "asked"
    /\ faults < MaxFaults
    /\ faults' = faults + 1
    /\ pull' = Idle
    /\ UNCHANGED <<server, me, cursor, kept, switches>>

Kill ==
    /\ pull.at = "going"
    /\ faults < MaxFaults
    /\ faults' = faults + 1
    /\ pull' = Idle
    /\ UNCHANGED <<server, me, cursor, kept, switches>>

LastDelete(p) ==
    LET deletes == {n \in DOMAIN log : log[n] = Change("asset", p, "delete")}
    IN  IF deletes = {} THEN 0 ELSE Max(deletes)

\* A photo the device sees gets into its index, by an upload or by its hash.
Keep(p) ==
    /\ Sees(me, p)
    /\ kept[p] # LastDelete(p)
    /\ kept' = [kept EXCEPT ![p] = LastDelete(p)]
    /\ UNCHANGED <<server, me, cursor, pull, faults, switches>>

\* Another identity logs in: by a request of its own, or by the pull's, which then goes
\* on in its name.
Switch(i) ==
    /\ i # me
    /\ switches < MaxSwitches
    /\ Switching \/ pull.at = "idle"
    /\ switches' = switches + 1
    /\ me' = i
    /\ pull' \in {pull, [pull EXCEPT !.by = i]}
    /\ pull.at # "asked" => pull' = pull

\* What the index says of device items stays.
_adopt_identity(i) == Switch(i) /\ cursor' = 0 /\ UNCHANGED <<server, kept, faults>>

PullStep == Answer \/ NextThumb \/ Finish

Next ==
    \/ Server
    \/ Ask \/ PullStep \/ FailPull \/ Kill
    \/ \E p \in Photo : Keep(p)
    \/ \E i \in Identity : _adopt_identity(i)

\* A library in use, and a device that is new to it: there is an album of an identity,
\* or two of the family, and maybe a photo, uploaded for the shared trunk and put in the
\* first album as well.  Which identity the device is logged in as first makes no
\* difference.
Init ==
    /\ photoSeq \in {0, 1}
    /\ \E s \in Space :
        /\ albumSeq = IF s = SHARED THEN 2 ELSE 1
        /\ home = [a \in Album |-> IF a <= albumSeq THEN s ELSE NULL]
    /\ filed = [p \in Photo |-> IF p <= photoSeq THEN {SHARED, 1} ELSE {}]
    /\ bin = [p \in Photo |-> NULL]
    /\ uploads = {}
    /\ log = [a \in 1..albumSeq |-> Change("album", a, "create")]
             \o IF photoSeq = 0 THEN <<>>
                ELSE <<Change("asset", 1, "create"), Change("album_asset", 1, "create"),
                       Change("album_asset", 1, "create")>>
    /\ me = CHOOSE i \in Identity : TRUE
    /\ cursor = 0 /\ faults = 0 /\ switches = 0 /\ events = 0
    /\ kept = [p \in Photo |-> NULL]
    /\ pull = Idle

\* The device keeps asking, and requests end in an answer or an error.
Fairness == WF_vars(Ask) /\ WF_vars(PullStep)

Spec == Init /\ [][Next]_vars /\ Fairness

-----------------------------------------------------------------------------
(* Properties                                                               *)

\* Every variable keeps its type, and a pull goes through entries there are
\* (store.go GetChanges, sync.gd _pull_changes).
TypeOK ==
    /\ albumSeq \in 1..MaxAlbum /\ photoSeq \in 0..MaxPhoto
    /\ home \in [Album -> Space \cup {NULL}]
    /\ filed \in [Photo -> SUBSET Place]
    /\ \A p \in Photo : bin[p] \in BinRow \cup {NULL} /\ \A q \in filed[p] : There(q)
    /\ uploads \subseteq Photo \X Place
    /\ \A n \in DOMAIN log : log[n] \in Entry
    /\ me \in Identity
    /\ cursor \in 0..Len(log)
    /\ kept \in [Photo -> 0..Len(log) \cup {NULL}]
    /\ pull.at \in {"idle", "asked", "going"} /\ pull.by \in Identity \cup {NULL}
    /\ pull.at = "going" => pull.from <= pull.max /\ pull.max <= Len(log)
    /\ pull.todo \subseteq pull.from + 1 .. pull.max

\* The device has an entry for a photo that was deleted since and that it would find in
\* the bin.
Outdated(p) ==
    /\ kept[p] # NULL /\ bin[p] # NULL
    /\ bin[p].space \in Sight(me)
    /\ kept[p] < LastDelete(p)

\* The cursor never gets past a deletion the device has still to act on: not by a pull
\* that was cut short, nor by one that saw less than the identity sees now, nor by a
\* change of identity between pulls (sync.gd:278 _pull_changes, store.go:2321 GetChanges).
\* Not so with Switching: "Reset when the identity changes: a cursor from another
\* identity skips (or replays) changes" (store.gd:237).
NothingSkipped == \A p \in Photo : Outdated(p) => cursor < LastDelete(p)

\* A device that keeps pulling drops in the end what was deleted, unless it is restored
\* or purged before (sync.gd:295 remove_local).
DeletionsHeard == \A p \in Photo : Outdated(p) ~> ~Outdated(p)

\* ARCHITECTURE.md:155: the delete of an album logs every album that goes, so that the
\* cursor misses none.  With one identity, which sees every album there is: an answer
\* has each album's delete since the cursor.
AlbumDeletesTold ==
    [][Answer => \A n \in pull.from + 1 .. Len(log) :
            Identity = {me} /\ log[n].entity = "album" /\ log[n].op = "delete"
                => n \in pull'.todo]_vars

\* The same of photos that were purged before the device asked.
PurgesHeard ==
    \A p \in Photo : kept[p] # NULL /\ kept[p] < LastDelete(p) => cursor < LastDelete(p)
=============================================================================
