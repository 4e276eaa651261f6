# Hongni: verification project

TLA+ models, model-checking runs and machine-checked proofs for Hongni (红泥), a
family photo album: a Go server that keeps photos in SQLite and in a directory
of content-addressed files, and a Godot client that mirrors the device gallery
into it. The reference is the code; a definition quotes a document only where
the two disagree (section *Divergences*).

## 1. The system

### Components, state and operations

| component | code | state | operations | model |
|---|---|---|---|---|
| photo library | `server/internal/store/store.go` | tables `identities`, `albums`, `assets`, `album_assets`, `blobs` | one SQLite transaction per operation, on one connection | `Library` |
| handlers | `server/internal/api/api.go` | none between requests, except sessions | check what the caller may see, then one transaction; an upload runs several | `Library` |
| names in an album | `store.go` | `album_assets.name`, `assets.original_name` | `NameInAlbum`, numbering, restore, merge, rename | `Names` |
| blob files | `server/internal/blob/blob.go` | `blobs/`, `thumbs/` | `Put`, `EnsureThumb`, `Delete`, `MigrateLegacyBlobs` | `Vault` |
| sessions | `api.go`, `store.go` | `sessions` (memory, under a mutex), PIN hashes (database) | login and registration, change of PIN, session check | `Sessions` |
| start | `server/main.go`, `config.go`, `store.go` | `config.json`, schema, seeded albums | `Load`, `Open`, `migrate`, `seedTrunks`, announcing, listening | `Startup` |
| device mirror | `app/scripts/sync.gd`, `asset_menu.gd` | a pass; sync index, tombstones, pins | upload pass, prune pass, tombstone retry, deletes, moves to the device | `Mirror` |
| index storage | `app/scripts/store.gd` | `index.json`, `settings.json`, and their copies in memory | writes at once, batches, flush | `Mirror` |
| client and nodes | `api.gd` | sessions per node, active node, request slots | `_do_request`, `_ensure_login`, fail-over | `Nodes` |
| change feed | `store.go`, `sync.gd` | `sync_log`; the client's `last_cursor` | the transactions that log, `GetChanges`, `_pull_changes` | `Feed` |
| cache | `cache.gd` | thumbnails, originals, marks | eviction, identity reset | no |
| lock | `lock.gd` | `unlocked` | unlocking, identity change | no |
| device deletion | `device_media.gd`, `HongniPlugin.kt` | report counter | consent dialogue and its callbacks | no |
| screens | `albums.gd`, `album_view.gd`, `viewer.gd`, `trash.gd`, ... | navigation | sequences of the requests above | guards only |

### How they interact

The client sends a request to one node at a time, with a session of that node.
A handler looks the session up, checks that the albums and photos it is given
are visible to that identity, and runs a transaction. Transactions are
serialised by the single connection; handlers are not: between its steps a
handler may be overtaken by another. Uploads and purges also touch files, which
no lock covers. The client learns of changes by polling the change feed, and
records what the device has backed up in an index keyed by device item.

### What is hard

* **Sequences of legal requests.** An album may be deleted, moved, merged,
  renamed or re-parented between a photo's deletion and its restore; the bin
  keeps ids of albums that are long gone.
* **Sharing.** One content has many rows; one photo is in many albums; one
  album belongs to everyone or to one identity; one photo may be the backup of
  several device items.
* **Steps of one request interleaved with others.** Upload against purge, login
  against change of PIN, visibility check against transaction.
* **The client's lists**, read before an `await` and written after it.
* **Failures and restarts** between the steps of an upload, a purge or a start;
  a kill of the app between a change in memory and its write.
* **Lost requests and lost answers**, which look the same to the client.

`PROJECT.json` lists the hazards at the lines where they bite.

## 2. Modules

| module | models | state |
|---|---|---|
| `Library` | every transaction on identities, albums, photos, memberships, reference counts | `identities`, `albums`, `albumSeq`, `assets`, `assetSeq`, `members`, `refs`, `uploads` |
| `Names` | what photos are called in the albums | `assets`, `members`, `seq`, `uploads` |
| `Vault` | files and rows under parallel uploads and purges | `rows`, `files`, `bare`, `temps`, `thumbs`, `job`, histories `spilt`, `raced` |
| `Sessions` | logins, changes of PIN, the session table | `pin`, `sessions`, `conn`, history `changes` |
| `Startup` | a start statement by statement, over any earlier version's data | `at`, `env`, `cfg`, `file`, `columns`, `photos`, `roots`, `buckets`, ... |
| `Backup` | what the device mirror promises (abstract) | `kept`, `pinned`, `condemned`, `deleted`, `released` |
| `Mirror` | sync passes, screens and the device against a cloud that others use | `gallery`, `bytes`, `where`, `news`, `index`, `pins`, `tombs`, `disk`, `pass`, `call`, ... |
| `Nodes` | requests over slots, nodes, sessions and a lossy network | `at`, `todo`, `retried`, `net`, `inflight`, `active`, `session`, `pending`, ... |
| `Feed` | the change feed and a device that pulls it | `home`, `filed`, `bin`, `uploads`, `log`, `me`, `cursor`, `kept`, `pull`, ... |
| `MC*` | the instances TLC checks | |
| `*Proofs` | proofs about `Library`, `Names`, `Vault`, `Sessions`, `Startup`, `Mirror`, `Nodes` and `Feed`, a module each | |

`Mirror` is shown to implement `Backup`. Otherwise the modules meet at narrow
places: `Vault` counts the rows that `Library` keeps exact (`ReferenceCounts`),
`Nodes` asks servers whose session table is `Sessions`, `Names` takes from
`Library` which albums an operation reaches, and `Mirror` sees of the server
whether a photo is in the albums, in the bin or purged. `Feed` has its own, smaller
library: what a transaction writes to `sync_log` and what decides who sees it.

A definition named like a function of the code is that function. A definition
whose comment begins with *Mutant* is a bug the code does not have; no other
definition uses it, and it is there to see that a property notices that bug.

### Library

A variable is a table. `albums` and `assets` are functions from id to row,
`members` is `album_assets` as a set of pairs, `refs` is `blobs.ref_count`, and
the two `Seq` variables are the AUTOINCREMENT counters: ids are never reused,
which is what makes a recorded album id in the bin safe to keep.

A step of `Next` is a handler: the visibility conditions of `api.go` and the
transaction, taken together. The upload is the exception and is three steps
(`StartUpload`, `CreateAsset`, `FileUpload`), because it runs three
transactions; `uploads` holds those under way. `FileUpload` takes the linking
and the parking together: a new photo that no album holds is invisible to every
request until it is parked, so nothing can come in between.

Three constants say who the clients are. With `Nesting` FALSE and `Patching`
FALSE they are the bundled one: albums are children of trunks, trunks and
buckets are not moved, renamed or deleted (`albums.gd`), and a PATCH carries a
name. TRUE allows the other requests the server accepts. `Legacy` adds a start
from a database that has the ownerless private trunk of an earlier version.

Two requests would never return: climbing or descending a parent chain that a
PATCH has closed on itself. The model refuses them (`DeleteAlbum`, `MoveAlbum`).

### Names

A name is a stem and the numbers it has been given; the extension plays no part
in a clash, and two stems that differ in case are one name to SQLite's
`lower()`. `members` maps a membership to the name it records, NULL where the
photo's own is inherited. An operator that looks for a free number gives the set
of its results, empty when the attempts run out and the request fails. The
merge of `MoveAlbum` numbers newcomers one by one, in the order of their ids,
among names that change on the way, and compares bytes with the oldest holder
of a name only; that is the code, and section 5 says what comes of it. Any album
may be the one a photo returns to, an album that is gone being an empty one.

### Vault

`rows[h]` is the number of photo rows of content `h`, which is its `ref_count`.
A request is a `job` with the step it is at. An upload goes `stat`, `write`,
`thumb`, `row`; a purge takes its transaction and then, content by content,
`unlink` and `unthumb`. Temporary files are modelled because `resolveBlobPath`
finds the stored file by a pattern that they match too; bare files because the
migration at start may stop half way and the server serves all the same.
`FailUpload`, `FailDelete` and `Restart` may come between any two steps.

Two histories say what the properties are conditioned on, and no action reads
them. `raced` holds the contents of which an upload and a purge have been in
progress at once, until nothing uses them. `spilt` holds the contents of which
a failed or interrupted request has left files, until those are gone or owned.

### Sessions

A request is a `conn` with the step it has reached: `authed` (PIN checked, no
session made), `admitted` (session found), `changed` (new PIN committed),
`dropped` (sessions deleted). A session is marked with the PIN that opened it
and the PIN valid when it was made, both counted in changes.

### Startup

`at` is the statement the process is about to run. Each statement is an action,
because each commits by itself: there is no transaction around the migration.
`Fail` stands for an error of any statement and for a kill. `Init` is a new
machine, or a database of any earlier version: the columns that version knew,
and any mixture of the old and new names of the trunks. While it serves, the
actions at the end change just the rows that a later start looks at.
`added` is the local `extAdded` of `migrate`, which a kill forgets.

### Mirror and Backup

`gallery` is the device, `where` and `bytes` the cloud as the client sees it;
other clients delete, restore and purge (`Elsewhere`). `index`, `pins` and
`tombs` are what `store.gd` holds in memory, `disk` what it has written of them:
`Persist` writes at once unless a batch is open, `EndBatch` closes a pass's, and
`Kill` goes on from `disk`. `call` is what the pass and the one screen in use
are awaiting; everything between two awaits of `sync.gd` is one step. The pass
keeps what the code keeps in local variables: the scan (`live`), what is still
to do, the entries as they were when pruning began (`was`: `_prune` goes over
`Store.index().keys()` and values taken before it awaits), the photos of live
items (`claimed`), and the position in and the remainder of the tombstone queue,
which is the queue itself and not a copy.

A request has one of three outcomes: done and answered, done with the answer
lost, or not done. `Overlap` says whether a screen backs an item up by hand while
a pass runs; the code does not prevent it (section 5), and the promise holds only
where it does not happen.

`Backup` knows nothing of passes. Its photos are kept until a user deletes them
or until the app condemns them, which it may do only to a photo that a user
deleted, or that is released (the item was missing when the device was last
looked at whole) and not pinned.

### Nodes

A request is at one place: waiting for a slot, about to ask a node, waiting for
another request's login, in its own login, in the request proper, done. `net`
is its one HTTP exchange. Waiting is a loop over `process_frame`, so a waiting
request polls, and somebody who is not waiting may get in first: nothing is
queued. A session is live or dead; `Restart` kills those of a node, also the
ones under way in an answer.

### Feed

A *space* is what one trunk holds, the family's or one identity's, and stands for
its bucket too. `home` says in which space an album is, `filed` which albums hold a
photo, `bin` where a deleted one came from: that is what decides visibility. Every
transaction appends its entries to `log` in the order of the code, and `GetChanges`
answers with the entries behind a cursor that the caller may see *when it asks*.

A pull is an action per stretch between two awaits: `Ask` reads the cursor, `Answer`
is the server's, `NextThumb` goes on to the next new photo whose thumbnail is
fetched (a thumbnail that is cached needs no await, so any of them may be the next),
`Finish` goes to the end and writes the cursor. An answer is a set of positions in
the log, `max` the `max_seq` that the loop over it ends with. The library changes, screens enter
photos in the index (`Keep`), requests fail and the app is killed in between.
`kept` is the part of the index that matters: for a photo it names, the last delete
there was when the entry was made. `_adopt_identity` is a login as somebody else;
with `Switching` it may come during a pull, also by the pull's own request: the code
does not prevent it, and section 5 says what comes of it.

## 3. Runs

| run | shows | bounds | states |
|---|---|---|---|
| `Library_family` | `TypeOK`, `OwnedByTrunk`, `TrunksKept`, `TrashReachable`, `NoSilentExposure` | 2 identities, 1 photo, 10 album ids, a new database or a legacy one | 127 thousand |
| `Library_copies` | `RefCountExact` | 2 contents, 2 photo rows | 123 thousand |
| `Library_nesting` | `Acyclic`, `ForeignKeys`, `NothingLost`, `RestoredIsFiled` | nested albums, 1 identity, 8 album ids | 183 thousand |
| `Names_album` | `TypeOK`, `NoNewClash`, `NamesStay`, `NameRestored` | 3 photos, 3 albums, 2 contents, one name in two spellings, 6 requests | 461 thousand |
| `Vault_files` | `TypeOK`, `BytesKept`, `ThumbKept`, `NoLeak` | 2 contents (one without thumbnail), 3 requests, 2 rows per content | 1.8 million |
| `Sessions_pins` | `TypeOK`, `OldSessionsDropped`, `OthersStayLoggedIn` | 2 identities, 2 PINs, 3 requests, 3 sessions, 2 changes per identity | 158 thousand |
| `Startup_upgrade` | `TypeOK`, `TokenKept`, `OneTrunk`, `ExtKept`, `Reachable`, `GetsThrough` | 1 photo, 2 extensions, 2 ports, 2 failures, 1 edit | 2.2 million |
| `Mirror_sync` | `TypeOK`, `ClaimedKept`, `OnlyReleased`, `QueueKept`, `DeletesArrive`, `ItemsBackedUp` | 2 items, 1 content, 2 photos, 1 loss or kill, 4 events | 1.0 million |
| `Nodes_requests` | `TypeOK`, `RestartUnnoticed`, `CarriedOutOnce`, `GetsAnswer` | 3 requests, 2 slots, 3 nodes of which one refuses, 2 losses or restarts | 120 thousand |
| `Feed_pulls` | `TypeOK`, `NothingSkipped`, `DeletionsHeard` | 2 identities, 1 photo, 2 album ids, 3 transactions, 1 fault, 1 change of identity | 2.4 million |
| `Finding_upload` | violates `UploadReachesAlbum` | 1 identity, 1 photo | |
| `Finding_purge_race` | violates `NeverOrphaned` | 2 contents, 2 requests | |

### What they show

* **Library**: no sequence of requests loses a photo, leaves a row pointing
  nowhere, shows a private photo to the family by deleting or restoring, or
  takes a trunk from a member.
* **Names**: an arrival never takes the name of another photo, whatever numbers
  were given before and in whichever order (`NoNewClash`); nobody who is already
  there is renamed (`NamesStay`); a restore gives back the name the photo was
  deleted under (`NameRestored`).
* **Vault**: files and rows stay together outside the race of `Finding_purge_race`.
* **Sessions**: a change of PIN ends the sessions of before and nobody else's.
* **Startup**: no interrupted start keeps the next one from serving
  (`GetsThrough`), changes the token once printed (`TokenKept`), doubles a trunk
  or a bucket (`OneTrunk`), or fills in an extension from a later name (`ExtKept`).
* **Mirror**: the app deletes nothing of its own accord while the device has the
  item (`OnlyReleased`, the refinement of `Backup`); a photo that an item of the
  scan has is not pruned for another item's sake (`ClaimedKept`: a moved or copied
  file); a delete queued by a screen while a pass goes through the queue is not
  dropped with it (`QueueKept`); queued deletes arrive, and items that stay are
  backed up (`DeletesArrive`, `ItemsBackedUp`).
* **Nodes**: slots are neither lost nor given back twice, no request is stuck
  behind another one's login (`GetsAnswer`), one restart is healed without any
  caller noticing (`RestartUnnoticed`), and walking the list carries nothing out
  twice unless an answer was lost (`CarriedOutOnce`).

* **Feed**: the cursor never gets past a deletion that the device has still to act on
  (`NothingSkipped`), whatever was hidden from it when it asked, however a pull
  ended and whoever logs in between pulls; and a device that keeps pulling drops in
  the end what was deleted (`DeletionsHeard`).

### Why the bounds are enough

Bounds sit in guards. Registrations take six to nine album ids. In
`Library_nesting` two more are left: two albums of the same name merge, and one
that lost its photo to the bin is deleted and made again by a restore. In
`Library_family` one is left: an album made by one of two identities moves
between the trunks, which is what ownership and visibility are about. Contents
and photos interact only through reference counts and the one-copy rule, so one
photo is enough for everything else, and two of each for the counts.
`InsertAlbum` leaves free the ids that the registrations to come will take.
`MaxAlbum` and `MaxAsset` stop the id counters, `MaxCopies` and `MaxRows` the rows
of a content, `MaxHomes` the albums of one photo, `MaxUploads` the uploads in
progress, `MaxChanges` the changes of PIN.

`Names`: three photos are a holder, a newcomer and one whose number is in the way;
three albums a source, a target and the bucket; `MaxNameAttempts` 3 lets the
numbers run out; six requests (`MaxRequests`) fill two albums and merge them, or
upload, delete, take the name and restore. `MaxNumbers` bounds the numbers in a
name.

`Vault`: three requests are an upload, the purge that races it and a third of
either kind; two rows let a count fall to one and to zero; two contents let a
purge have more than one to remove. `Sessions`: three requests are two concurrent
changes and a login.

`Startup`: two failures (`MaxFaults`) cut two starts short at any two statements,
and the third gets through; one edit (`MaxEdits`) is the rename, upload or
deletion that a later start could mistake. Photos are independent, so one will do.

`Mirror`: two items and one content are a file and its copy or its new place,
which share a photo; a second photo is what a new upload makes after the first
one was deleted. Four events (`MaxEvents`) of users are enough to add two items,
remove one and delete a photo, one fault (`MaxFaults`) loses an answer or kills
the app between any two steps. Every safety property of it is proved for all
bounds. `Overlap` is FALSE.

`Nodes`: three requests over two slots have one waiting for a slot, one for a
login and one in it; three nodes are one to fail, one that refuses and one to end
at; two faults are a restart and a loss.

`Feed`: the library is in use already, so that three transactions (`MaxEvents`) trash a
photo, delete its album and restore it into one that is made again; or delete, hide
and show again; or upload. `MaxAlbum` leaves at least one id for that beside the
family's two albums to merge or the one album of an identity. One fault (`MaxFaults`)
cuts a pull short at any await, one change of identity (`MaxSwitches`) may come before
or between pulls. `MaxPhoto` is one: entries of other photos only lengthen an answer.

### Fairness

`Mirror`, `Nodes` and `Feed` state liveness. In `Mirror` the pass and the screen go on
(`WF` of `PassStep` and of `MenuStep`): a coroutine of Godot resumes once its
request has ended, and `HTTPRequest` ends every request with an answer or with
its timeout. Scans are demanded strongly (`SF` of `Scan(TRUE)`): the sync is
started by the app coming to the foreground, by opening a screen and by the
pull gesture, which the code skips while a pass is running, so that a
scan is possible again and again but not continuously; and a
scan that is not whole proves nothing, so it must be whole some time. Nothing is
assumed of users, of other clients or of the network beyond the bounds on events
and faults: with no bound at all a lost answer each time defeats any retry.

In `Nodes` each request goes on (`WF` of `Step(r)` for every `r`): `process_frame`
comes again and again, and a request ends in an answer or its timeout. Weak fairness
is per request, and a request waiting for a slot may be overtaken; that
`GetsAnswer` holds nevertheless is because every holder of a slot ends.

In `Feed` the device asks again and again (`WF` of `Ask`; a sync is what opens the
gallery) and a pull goes on (`WF` of `PullStep`), with the same bounds on faults.

`Startup` has no liveness: whoever starts the server again is outside it.
`GetsThrough` says what a start may not do.

## 4. Proofs

Checked by TLAPS for every value of the constants that satisfies the modules'
assumptions (finite family, non-negative bounds, NULL outside every other set; and no
bound so small that nothing can happen: an identity, a photo, a number to give).
In each module the theorem rests on an inductive invariant, one lemma per part
of it, one step per action.

**Library.** `TypeCorrect` is `Spec => []TypeOK` and `ReferenceCounts` is
`Spec => []RefCountExact`. The inductive invariant is the conjunction of the
two: `TypeOK` says that a reference count is a natural number, and a purge,
which subtracts the number of rows it destroys, keeps it one only because the
count is exact; conversely exactness needs the finite set of ids that the types
give. There is one lemma per action on the tables, and two on how a table
changes (a row added, rows removed), from which the counts follow by the
library's cardinality facts.

*Keys, trunks, cycles*. `KeysHold` is
`Spec => []ForeignKeys`: deleting an album deletes its sub-tree, and
`SubtreeIsClosed` says that no album outside has its parent inside. `TrunksAreKept`
is `Spec => []TrunksKept` for users who type none of the built-in names. That a
trunk is never what a request deletes or moves depends on everything a climb to
the trunk passes through, so the invariant (`Trunks`) says of all identities at once
that the shared trunk and the private ones are there with their buckets, that only
registered identities own albums (so that a newcomer's trunk is its first), that an
earlier version's private trunk is there until somebody registers and is the only one,
and that an upload in progress is somebody's; most requests keep it because they leave the trunks and
buckets untouched. `TreesStayTrees` is `Spec => []Acyclic` where no PATCH re-parents.
It rests on `NoLoop`: there is no cycle unless a nonempty set of albums is closed
under parents. A set that a move has closed, less the sub-tree that moved, would
have been closed before. No induction on depth is needed, because `Subtree` is
a least closed set.

*The bin and the bundled client*. `RestoresAreFiled` is
`Spec => RestoredIsFiled`: the bin records an album name of every photo
(`NamedOrigins`), from which the album is made again. `OwnersFollowTrunks` and `BinIsReachable` are
`Spec => []OwnedByTrunk` and `Spec => []TrashReachable` under `Bundled`: no nested
albums, no re-parenting PATCH, built-in names not typed. Their invariant adds
that the tree is flat (`FlatTree`), so that the trunk of an album is the album it is
filed in, and that what the bin records as a photo's trunk is a trunk (`FlatBin`).
With nested albums both fail (section 5).
`NothingIsExposed` is `Spec => NoSilentExposure` under `Bundled`. Its lemmas show of
every quiet request that wherever the photo is afterwards, in an album or in a bin,
there was before a place of the same owner that had it (`SameOwners`): buckets, the
album a delete takes and the one a restore makes again all belong to whoever the
trunk belongs to. `NoPhotoIsLost` is `Spec => NothingLost`, albums nested or not,
under `MaxCopies =< 1`: while no two photos have the same bytes. With two, moving a
photo to a private album may lose it (section 5).

**Names.** `TypeCorrect`, `ClashRuleHolds`, `NamesAreKept` and `NamesAreRestored` are
the four properties of the run. The inductive invariant, `IInv`, is `TypeOK` and `Room`: that
ids to come have no row and every upload in progress has one of them, which is why a
new photo has no membership left behind by another. The three action properties
follow from `Steps`: a step leaves all that the albums show as it was (`Quiet`), files one photo
under a name nobody else shows (`Arrival`), parks one in the bucket so (`Parking`), renames one
by hand (`Renaming`), or merges (`Merging`). The merge is a recursion over the ids, which changes
the names it looks at on the way; that it has a result at every id is a first-order
induction over `0..MaxAsset` (`Induction`, from the library's `WFMin`; `MergedStages`). Its invariant,
`Settled`, says that who was there is called what it was, and that each newcomer passed
is `Cleared`: it shows a name nobody else shows, or one whose oldest other holder has its bytes.
A later newcomer disturbs neither, whether it keeps its name or gets a number
(`RenumberSettles`): an older one that shares the later one's name has its bytes or makes it
move. What the second case leaves open is the exception in `NoNewClash` (section 5).

**Feed.** `TypeCorrect` is `Spec => []TypeOK`, from one lemma per transaction (`Transaction`:
tables keep their types, a photo is filed in places that are there, and the delete of
whatever enters the bin is logged) and one per step of the device. `DeletionsAreNotSkipped`
is `Spec => []NothingSkipped` for `Switching = FALSE`. What makes it inductive is `PullCovers`:
a pull under way is made for the identity the device is logged in as and from where the
cursor still is, and once answered has every deletion to act on up to its `max` still
among its changes. A transaction keeps it because the log only grows (`LogGrows`) and a photo becomes
outdated with a delete behind every cursor (`ServerOutdates`); the answer because what is to be acted on is in a bin the
identity sees; the steps after it because they leave out nothing that they have not
acted on (`DroppedIsGone`); a kill because it leaves the cursor where it was. With
`Switching` the first half fails, and so does the property (section 5).

**Vault.** `BytesAreKept` is `Spec => []BytesKept`. `BytesKept` alone is not
inductive: an upload past `Put` and a purge past its transaction act later on
what they saw earlier. `UploadKept` says that such an upload still has its
bytes unless raced, and `PurgeRaced` that a content which a purge is still to
remove and which is in use again, by a row or by an upload, is raced. Upload
steps remove no bytes and start no purge; purge steps make no row and start no
upload; a restart ends both. So outside the race of the finding below no
interleaving, failure or restart separates a row from its bytes.
`ThumbnailsAreKept` (`Spec => []ThumbKept`) adds the same for thumbnails (`Shown`),
which an upload makes after its bytes and a purge removes after them. `NothingLeaks`
(`Spec => []NoLeak`) needs no condition on races: `Pieces` names for every file,
temporary or not, who answers for it: a row, an upload, a purge that has still to
remove it, or `spilt`.

**Sessions.** `RotationDropsOldSessions` is `Spec => []OldSessionsDropped`, which
is inductive together with the types; `RotationIsPrivate` is
`Spec => OthersStayLoggedIn`.

**Mirror.** Under `~Overlap`, `MirrorKeepsPromise` is `Spec => OnlyReleased`, the
refinement: initial states map to initial states of `Backup`, and every step maps
to one of its steps or to a stutter. The step that matters is `PrunePhoto`, whose
photo has to be released and unpinned. What makes it so is not local: the entry was
read several awaits after the scan. The invariant has four parts. `Course` says
which requests are under way in which phase, hence that nothing enters the index
while pruning; `Spare` that after a whole scan every entry without a scanned item
names a released photo, which pruning inherits for `was` and for the index alike,
and that what live items name is claimed; `Asked` that all that is queued, in
memory, on disk and in the remainder, was deleted by a user, which is what a
retried tombstone needs; `Types`, that among others pins on disk are pins in
memory. `Made` adds that entries name photos the server made. `ClaimsHold`,
`QueueIsKept` and `RecordsAreSound` follow from the same invariant.

**Startup.** Six theorems, one per property of the run. The invariant follows the
statements: what is settled once `at` has passed them (`Settings`, `Roots`), that a
token in hand and not yet printed is the one in the file (`Tokens`), and that
names are original as long as there is no extension column, since renaming needs
a server that serves and serving needs the migration done (`Extensions`).

**Nodes.** `SlotsAreCounted` is `Spec => []TypeOK`, in which `inflight` is the number
of requests between slot and end: every way out of the loop over nodes gives back
exactly one slot. `NothingTwice` is `Spec => []CarriedOutOnce`: a node that was
asked and answered ends the request, and only a 401, which carries nothing out, or
silence sends it on (`Effects`). `RestartPassesUnnoticed` is
`Spec => []RestartUnnoticed`: while nothing was lost every request is still at the
first node of its list, a session obtained after the one restart is live, and a
second 401 would need a second restart (`Calm`, over `Exchanges` and `Logins`).
Two theorems are what `GetsAnswer` needs besides fairness, for any number of requests,
nodes, losses and restarts. `WalksAreFinite`: `ToGo`, a natural number, goes down with
every step of a request and up with nobody's, as a 401 is followed by one retry and
no node is turned to twice. `NobodyIsStuck`: while a request is on its way the guard of
some request's step holds (`CanGo`), since who waits for a slot waits for one that has it,
and who waits for a login for one that holds a slot and waits for a node only. A request
that is overtaken for ever would need others with infinitely many steps.

**Only model-checked**: `NoSilentExposure`, `OwnedByTrunk` and `TrashReachable` outside
`Bundled` (where the last two fail), `Acyclic` with `Patching` (where it fails), `NothingLost`
with several copies (where it fails). Out of the prover's reach: liveness under fairness,
which is `GetsAnswer` (but for what the two theorems above say of it), `DeletesArrive`,
`ItemsBackedUp` and `DeletionsHeard`. Every safety
property of a passing run is proved.

## 5. Divergences

Two are runs that end in a counterexample of the code as it is.

* `Finding_upload` (`store.go:1836`): `AddAssetToAlbum` looks for the photo among
  those the caller sees, and the photo the upload has just made is in no album,
  so nobody sees it. Every new upload is parked in the trunk's bucket.
* `Finding_purge_race` (`api.go:485`): an upload that finds bytes a purge is about
  to remove makes a photo without bytes.

Nine more are violations of the modules' own properties, found with the constants of
a run or with others:

| property | in | constants | what happens |
|---|---|---|---|
| `FiledNotDestroyed` | `MCLibrary` | `Library_nesting`, `Nesting = FALSE` | a photo in the bin is found by its hash, filed in an album, and destroyed with the bin while the album shows it (`store.go:1846`; `ARCHITECTURE.md:266`) |
| `NothingLost` | `MCLibrary` | `Library_nesting`, `Nesting = FALSE`, `MaxAsset = 2`, `MaxCopies = 2` | moving a photo to a private album that holds the same bytes takes it out of every shared album and adds it to none: the detaching comes before the check (`store.go:1849`; `ARCHITECTURE.md:271`) |
| `OwnedByTrunk` | `MCLibrary` | `Library_nesting` as it is | an album moved to another trunk takes its new owner, its sub-albums keep the old one (`store.go:1658`; `ARCHITECTURE.md:56`); with `Patching = TRUE` a PATCH that re-parents does the same (`store.go:1363`) |
| `NoOldLogin` | `MCSessions` | `Sessions_pins` | a login that overlaps with a change of PIN leaves a session opened with the old PIN (`api.go:217`; comments at `api.go:242` and `:169`) |
| `OnlyReleased` | `MCMirror` | `Mirror_sync`, `Overlap = TRUE`, `MaxEvents = 5` | a photo taken after the scan and backed up by hand while the pass uploads is in the index and not in the scan, and the pass prunes it (`sync.gd:196`; comment at `sync.gd:180`) |
| `ExtFilledIn` | `MCStartup` | `Startup_upgrade` | a start that ends between adding the column `ext` and filling it in leaves it NULL for good, and lists that contain such a photo fail (`store.go:194`, `scanAsset` at `store.go:719`; comment at `store.go:192`) |
| `NothingSkipped` | `MCFeed` | `Feed_pulls`, `Switching = TRUE` | a login as another identity resets the cursor (`api.gd:207`), and a pull that was under way, or whose own request that login was, then writes its own: the new identity never hears of the entries before it (`sync.gd:299`; comment at `store.gd:237`) |
| `AlbumDeletesTold` | `MCFeed` | `Feed_pulls`, `Identity = {alice}` | an album entry is answered only while the album's row is there, so no device ever hears that an album was deleted, although the delete logs the whole sub-tree for that purpose (`store.go:2326`; `ARCHITECTURE.md:155`) |
| `PurgesHeard` | `MCFeed` | `Feed_pulls` | a photo purged before the device has pulled is reported to nobody, and its index entry stays (`store.go:2325`; `ARCHITECTURE.md:218`) |

Seen while modelling:

* **Uploads and the bin.** An upload without album (`api.go:538`), or a stop
  between its transactions, leaves a photo in no album, which
  `ARCHITECTURE.md:262` says never happens. A private upload whose album is deleted
  meanwhile is parked in the shared trunk (`store.go:2219`). `ParkAsset`,
  `RemoveOrPark`, `RestoreAsset` and the merge of `MoveAlbum` may put the same bytes
  in an album twice (`ARCHITECTURE.md:54` says they are there once).
* **Nested albums.** The trunk the bin records may be an ordinary album, and
  deleting that one hides the photo from everyone until it expires
  (`store.go:2114`). A PATCH under an own descendant closes a cycle (`store.go:1363`).
* **Files.** With a bare file not yet migrated, a temporary file of the same
  content is served in its place (`blob.go:53`, against the comment at `blob.go:95`).
* **Names.** Merging an album into one that has the same bytes under the same name
  leaves both copies (`store.go:1743`); when that album is merged into a third that
  has other bytes under the name, the comparison with the oldest holder may spare
  the newcomer, and two different photos share a name (against `store.go:1725`).
  Renaming in the bin is undone by a restore, which takes the name recorded at the
  deletion (`store.go:1031` against `:813`). Un-filing the last album of a photo when
  that is the bucket parks it there again, possibly under a new name.
* **Mirror.** Whether a scan was whole is asked of the latest one, not of the one in
  hand (`device_media.gd:106`). A moved file whose upload under the new key fails
  loses its photo to the pruning of the old key (`sync.gd:206`). A pin set while a
  batch is open is lost with a kill (`store.gd:92`), and one whose dialogue is
  answered after the 30 s wait is never set: the photo that was to be kept is pruned.
  The sync after a move from the device to the cloud prunes the photo just moved
  (`asset_menu.gd:506` against `ARCHITECTURE.md:163`). A lookup by hash answers with
  the lowest id, the bin included, and an item so backed up expires with it. A
  retried delete whose first answer was lost trashes a photo that was restored
  meanwhile. Forgetting a photo erases only the first entry that names it.
* **Client.** A PIN change is made on the active node and recorded for the node
  being edited (`settings.gd:502`, `api.gd:247`). A lost answer makes the walk over
  the nodes carry a request out on a second one. A wrong current PIN is answered
  with 401, for which the client drops its session and asks again. Requests that
  waited for another one's login take any failure of it for a refusal, and the
  first node that "refused" becomes the active one (`api.gd:154`).
* **Feed.** A new upload is hidden until it is filed, by a second transaction: a pull in
  between gets entries that came after it, the cursor passes it, and its thumbnail is
  not prefetched (`store.go:2325`). An old delete in an answer drops the index entry of
  a photo that was restored meanwhile (`sync.gd:295`). A thumbnail awaited while the
  identity changes is saved after the cache was cleared (`sync.gd:305` against the
  comment at `api.gd:184`).
* **Start.** Any failure to read `config.json` makes `Load` draw a new token and
  write over the old one (`config.go:77` against `ARCHITECTURE.md:64`); `TokenKept`
  excepts it. `HONGNI_ADDR` without a port loses its host (`config.go:116` against
  `ARCHITECTURE.md:63`); `Reachable` speaks of addresses with a port.

## 6. Not modelled, and why

* **One cursor for several nodes** and **nested albums** in `Feed`: after a fail-over
  the cursor is a position in another server's log, for which the code has nothing.
  `Mirror` takes a pull in one step, as telling of everything trashed since the last
  one that is still in the bin.
* **The gap between check and transaction**: `Library` takes a handler's visibility
  check and its transaction as one step. Transactions look again for the rows they
  need; the gap concerns visibility only.
* **Cache and lock**: eviction works on copies alone; the lock is one flag.
* **The consent dialogue of the device** and the Android plugin: what the platform
  reports, and when, is not in this code. `Mirror` takes from it that an item goes
  or does not, and that a scan is whole or not.
* **Screens and `media_probe.gd`**: user interface and parsing. The screens' guards on
  what a request may name are in `Library` (`Movable`, `Parents`), and the copy, move
  and delete sequences of `asset_menu.gd` in `Mirror`.
* **One identity and one cloud in `Mirror`**: a fail-over to a server with other photo
  ids is not in it, nor are pins of photos without a device item.
* **What a request asks for in `Nodes`**: so the change of PIN over a lossy network
  is not in it; a node in `Refusing` is one whose PIN is not the stored one.
* Sizes, dates, sort order and paging; reading files back; the staging file of a
  request body; hashing and salts; mDNS beyond the port announced.

## 7. Where to go on

1. `Races`, over the operators of `Library`: visibility check and transaction as two
   steps, and what a request may expose through the gap.
2. The change of PIN over `Nodes` and `Sessions` together: lost answers, and the node
   under which the new session is stored.
3. For `Mirror` what `WalksAreFinite` is for `Nodes`: that a pass ends, whatever screens
   queue while it runs.
