------------------------------- MODULE Mirror -------------------------------
(***************************************************************************)
(* The device mirror: the sync pass of sync.gd over the index, the pins and *)
(* the tombstones that store.gd keeps, with the screens that change them    *)
(* while a pass awaits its answers.  The cloud is what the client sees of   *)
(* it; other clients delete, restore and purge.  The app may be killed at   *)
(* any time and then goes on from what store.gd has written.                *)
(*                                                                         *)
(* Abstractions: an entry of the index is the photo it names, and an item   *)
(* counts as unchanged when its bytes are those of that photo (the code     *)
(* compares date and size); the order of the index and of a scan is open;   *)
(* a delete inside an album is one the server may answer without trashing.  *)
(***************************************************************************)
EXTENDS Integers, FiniteSets, Sequences

CONSTANTS
    Key,        \* device items by their key
    Content,
    MaxPhoto,   \* bound: photos the server will make
    MaxFaults,  \* bound: lost requests and answers, and kills of the app
    MaxEvents,  \* bound: what users do on this device and on others
    Overlap,    \* TRUE: screens upload while a pass runs
    NULL

ASSUME PhotoAssumption == MaxPhoto \in Nat
ASSUME FaultsAssumption == MaxFaults \in Nat
ASSUME EventsAssumption == MaxEvents \in Nat
ASSUME OverlapAssumption == Overlap \in BOOLEAN
ASSUME NullAssumption == NULL \notin Key \cup Content \cup 1..MaxPhoto

Photo == 1..MaxPhoto
Actor == {"pass", "menu"}

VARIABLES
    gallery,   \* the device: key -> bytes, NULL where there is no item
    bytes,     \* the cloud: photo -> its bytes, NULL until it is made
    where,     \* photo -> "none", "album", "bin" or "purged"
    news,      \* photos trashed since the client last pulled the changes
    index,     \* store.gd, in memory: key -> the photo it is backed up as
    pins,      \* keep_assets
    tombs,     \* pending_deletes
    disk,      \* what was last written of these three
    pass,      \* the sync pass
    call,      \* what the pass and the screens are awaiting
    faults,    \* faults still to come
    events,    \* and events
    deleted,   \* history: photos a user deleted in this app
    released   \* history: photos whose item was missing since the last scan

cloud == <<bytes, where, news>>
store == <<index, pins, tombs>>
vars == <<gallery, bytes, where, news, index, pins, tombs, disk, pass, call,
          faults, events, deleted, released>>

Idle == [op |-> "none", key |-> NULL, bytes |-> NULL, photo |-> NULL]
NoPass == [at |-> "idle", live |-> [k \in Key |-> NULL], whole |-> FALSE, todo |-> {},
           was |-> [k \in Key |-> NULL], claimed |-> {}, pos |-> 0, rest |-> <<>>]

Present(f) == {k \in DOMAIN f : f[k] # NULL}

-----------------------------------------------------------------------------
(* Writing to disk                                                          *)

\* Loops over many photos hold the writes back, those of a pass and of a screen.
ScreenBatch(cl) == cl["menu"].op \in {"find", "send", "delete", "move"}
Batching(ps, cl) == ps.at \in {"upload", "prune", "tombs"} \/ ScreenBatch(cl)

\* Every change is written at once, or when the innermost batch ends.
Persist ==
    disk' = IF Batching(pass', call') THEN disk
            ELSE [index |-> index', pins |-> pins', tombs |-> tombs']

Written == [index |-> index, pins |-> pins, tombs |-> tombs]

\* A phase of a pass closes its batch; that of a screen may still be open.
EndBatch(written) == disk' = IF ScreenBatch(call) THEN disk ELSE written

\* The app goes to the background.
flush ==
    /\ disk' = Written
    /\ UNCHANGED <<gallery, cloud, store, pass, call, faults, deleted>>

\* Photos with an entry, in memory or on disk, whose item is not on the device.
Vanished(g, i, d) ==
    (UNION {{i[k], d.index[k]} : k \in {k \in Key : g[k] = NULL}}) \ {NULL}

Watch == released' = released \cup Vanished(gallery', index', disk')

-----------------------------------------------------------------------------
(* What a request does to the store                                         *)

upsert_index_entry(k, p) == index' = [index EXCEPT ![k] = p]

\* One entry goes, also where several items are backed up as that photo.
erase_index_by_cloud_id(p) ==
    IF \E k \in Key : index[k] = p
    THEN \E k \in Key : index[k] = p /\ index' = [index EXCEPT ![k] = NULL]
    ELSE UNCHANGED index

Queue(p) == IF \E i \in DOMAIN tombs : tombs[i] = p THEN tombs ELSE Append(tombs, p)

ByHash(c) == {p \in Photo : bytes[p] = c /\ where[p] \in {"album", "bin"}}
Unmade == {p \in Photo : where[p] = "none"}

\* Bound: every content can still be uploaded.
Missing == {c \in Content : ByHash(c) = {}}
Room == Cardinality(Unmade) > Cardinality(Missing)

Trashing(p) ==
    /\ where' = [where EXCEPT ![p] = "bin"]
    /\ news' = news \cup {p}
    /\ UNCHANGED bytes

Fault == faults > 0 /\ faults' = faults - 1

Answered(a) == call' = [call EXCEPT ![a] = Idle]
Request(a, r) == call' = [call EXCEPT ![a] = r]

-----------------------------------------------------------------------------
(* Backing up one item, for the pass or for a screen                        *)

\* Stages the item's bytes and asks for their hash.
Stage(a, k) ==
    Request(a, [op |-> "find", key |-> k, bytes |-> gallery[k], photo |-> NULL])

\* Mutant: a photo found by its bytes is not entered in the index.
FoundNoEntry(a) ==
    LET c == call[a]
    IN  /\ c.op = "find"
        /\ IF ByHash(c.bytes) # {} THEN Answered(a) ELSE Request(a, [c EXCEPT !.op = "send"])
        /\ UNCHANGED <<gallery, cloud, store, pass, faults, deleted>>
        /\ Persist

\* The oldest photo of these bytes is taken for the backup, the recycle bin
\* included; an error counts as not found.
Found(a) ==
    LET c == call[a]
    IN  /\ c.op = "find"
        /\ \/ /\ ByHash(c.bytes) # {}
              /\ \E p \in ByHash(c.bytes) :
                    /\ \A q \in ByHash(c.bytes) : p <= q
                    /\ upsert_index_entry(c.key, p)
              /\ Answered(a)
              /\ UNCHANGED faults
           \/ /\ ByHash(c.bytes) = {}
              /\ Request(a, [c EXCEPT !.op = "send"])
              /\ UNCHANGED <<faults, index>>
           \/ /\ Fault
              /\ Room
              /\ Request(a, [c EXCEPT !.op = "send"])
              /\ UNCHANGED index
        /\ UNCHANGED <<gallery, cloud, pins, tombs, pass, deleted>>
        /\ Persist

\* The server makes a photo; the answer, or the request, may be lost.
Sent(a) ==
    LET c == call[a]
    IN  /\ c.op = "send"
        /\ \/ \E p \in Unmade :
                /\ \A q \in Unmade : p <= q
                /\ bytes' = [bytes EXCEPT ![p] = c.bytes]
                /\ where' = [where EXCEPT ![p] = "album"]
                /\ \/ upsert_index_entry(c.key, p) /\ UNCHANGED faults
                   \/ Fault /\ UNCHANGED index
           \/ Fault /\ UNCHANGED <<bytes, where, index>>
        /\ Answered(a)
        /\ UNCHANGED <<gallery, news, pins, tombs, pass, deleted>>
        /\ Persist

-----------------------------------------------------------------------------
(* The sync pass                                                            *)

\* The scan.  One that is not whole shows some of the items.
run_sync(shown, whole) ==
    /\ pass.at = "idle"
    /\ ~Overlap => call["menu"].op \notin {"find", "send"}
    /\ whole => shown = Present(gallery)
    /\ pass' = [NoPass EXCEPT !.at = "upload", !.whole = whole, !.todo = shown,
                    !.live = [k \in Key |-> IF k \in shown THEN gallery[k] ELSE NULL]]
    /\ released' = Vanished(gallery, index, disk)
    /\ UNCHANGED <<gallery, cloud, store, disk, call, faults, deleted>>

Scan(whole) == \E shown \in SUBSET Present(gallery) : run_sync(shown, whole)

\* The item is as it was when it was backed up, or cannot be read any more.
SkipItem(k) ==
    /\ pass.at = "upload" /\ call["pass"] = Idle
    /\ k \in pass.todo
    /\ \/ index[k] # NULL /\ bytes[index[k]] = pass.live[k]
       \/ gallery[k] = NULL
    /\ pass' = [pass EXCEPT !.todo = @ \ {k}]
    /\ UNCHANGED <<gallery, cloud, store, disk, call, faults, deleted>>

BackUpItem(k) ==
    /\ pass.at = "upload" /\ call["pass"] = Idle
    /\ k \in pass.todo
    /\ ~(index[k] # NULL /\ bytes[index[k]] = pass.live[k])
    /\ gallery[k] # NULL
    /\ pass' = [pass EXCEPT !.todo = @ \ {k}]
    /\ Stage("pass", k)
    /\ UNCHANGED <<gallery, cloud, store, disk, faults, deleted>>

Live == Present(pass.live)

\* With nothing queued the pass goes on to the changes.
TombPhase == IF tombs = <<>> THEN "pull" ELSE "tombs"

\* Mutants: the photos of live items are not spared, ...
BeginPruneNoClaims ==
    /\ pass.at = "upload" /\ call["pass"] = Idle
    /\ pass.todo = {}
    /\ EndBatch(Written)
    /\ pass' = IF Present(index) # {} /\ Live # {} /\ pass.whole
               THEN [pass EXCEPT !.at = "prune", !.todo = Present(index) \ Live,
                        !.was = [k \in Key |-> IF k \in Live THEN NULL ELSE index[k]]]
               ELSE [NoPass EXCEPT !.at = TombPhase]
    /\ UNCHANGED <<gallery, cloud, store, call, faults, deleted>>

\* ... or any scan that is not empty is trusted.
BeginPruneAnyScan ==
    /\ pass.at = "upload" /\ call["pass"] = Idle
    /\ pass.todo = {}
    /\ EndBatch(Written)
    /\ pass' = IF Present(index) # {} /\ Live # {}
               THEN [pass EXCEPT !.at = "prune", !.todo = Present(index) \ Live,
                        !.was = [k \in Key |-> IF k \in Live THEN NULL ELSE index[k]],
                        !.claimed = {index[k] : k \in Live} \ {NULL}]
               ELSE [NoPass EXCEPT !.at = TombPhase]
    /\ UNCHANGED <<gallery, cloud, store, call, faults, deleted>>

\* The upload batch is written, and pruning begins unless the scan cannot be
\* trusted.  It remembers the entries there are and the photos of live items.
BeginPrune ==
    /\ pass.at = "upload" /\ call["pass"] = Idle
    /\ pass.todo = {}
    /\ EndBatch(Written)
    /\ pass' = IF Present(index) # {} /\ Live # {} /\ pass.whole
               THEN [pass EXCEPT !.at = "prune", !.todo = Present(index) \ Live,
                        !.was = [k \in Key |-> IF k \in Live THEN NULL ELSE index[k]],
                        !.claimed = {index[k] : k \in Live} \ {NULL}]
               ELSE [NoPass EXCEPT !.at = TombPhase]
    /\ UNCHANGED <<gallery, cloud, store, call, faults, deleted>>

\* An entry erased meanwhile is still in the list that is gone through.
Entry(k) == IF index[k] # NULL THEN index[k] ELSE pass.was[k]

erase_index_entry(k) == index' = [index EXCEPT ![k] = NULL]

\* Pinned, or the photo of another item: only the entry goes.
DropEntry(k) ==
    /\ pass.at = "prune" /\ call["pass"] = Idle
    /\ k \in pass.todo
    /\ Entry(k) \in pins \cup pass.claimed
    /\ erase_index_entry(k)
    /\ pass' = [pass EXCEPT !.todo = @ \ {k}]
    /\ UNCHANGED <<gallery, cloud, pins, tombs, disk, call, faults, deleted>>

PrunePhoto(k) ==
    /\ pass.at = "prune" /\ call["pass"] = Idle
    /\ k \in pass.todo
    /\ Entry(k) \notin pins \cup pass.claimed
    /\ pass' = [pass EXCEPT !.todo = @ \ {k}]
    /\ Request("pass", [op |-> "delete", key |-> k, bytes |-> NULL, photo |-> Entry(k)])
    /\ UNCHANGED <<gallery, cloud, store, disk, faults, deleted>>

\* Trashed, or not found: the entry goes.  Otherwise it stays for the next pass.
Pruned ==
    LET c == call["pass"]
    IN  /\ pass.at = "prune" /\ c.op = "delete"
        /\ \/ /\ where[c.photo] = "album"
              /\ Trashing(c.photo)
              /\ \/ erase_index_entry(c.key) /\ UNCHANGED faults
                 \/ Fault /\ UNCHANGED index
           \/ /\ where[c.photo] # "album"
              /\ erase_index_entry(c.key)
              /\ UNCHANGED <<cloud, faults>>
           \/ Fault /\ UNCHANGED <<cloud, index>>
        /\ Answered("pass")
        /\ UNCHANGED <<gallery, pins, tombs, disk, pass, deleted>>

\* The queue is gone through where it is: what is appended meanwhile is reached.
BeginTombs ==
    /\ pass.at = "prune" /\ call["pass"] = Idle
    /\ pass.todo = {}
    /\ EndBatch(Written)
    /\ pass' = [NoPass EXCEPT !.at = TombPhase]
    /\ UNCHANGED <<gallery, cloud, store, call, faults, deleted>>

\* A screen that opens asks for the cloud's half of a pass.
sync_cloud ==
    /\ pass.at = "idle"
    /\ pass' = [NoPass EXCEPT !.at = TombPhase]
    /\ UNCHANGED <<gallery, cloud, store, disk, call, faults, deleted>>

RetryTomb ==
    /\ pass.at = "tombs" /\ call["pass"] = Idle
    /\ pass.pos < Len(tombs)
    /\ pass' = [pass EXCEPT !.pos = @ + 1]
    /\ Request("pass", [op |-> "delete", key |-> NULL, bytes |-> NULL,
                        photo |-> tombs[pass.pos + 1]])
    /\ UNCHANGED <<gallery, cloud, store, disk, faults, deleted>>

\* Mutant: not found is an error like any other.
TombAnsweredNotFoundKept ==
    LET p == call["pass"].photo
    IN  /\ pass.at = "tombs" /\ call["pass"].op = "delete"
        /\ \/ /\ where[p] = "album"
              /\ Trashing(p)
              /\ erase_index_by_cloud_id(p)
              /\ UNCHANGED <<faults, pass>>
           \/ /\ where[p] # "album"
              /\ pass' = [pass EXCEPT !.rest = Append(@, p)]
              /\ UNCHANGED <<cloud, index, faults>>
        /\ Answered("pass")
        /\ UNCHANGED <<gallery, pins, tombs, disk, deleted>>

\* Not found is as good as deleted; any other error is kept for the next pass.
TombAnswered ==
    LET p == call["pass"].photo
        again == pass' = [pass EXCEPT !.rest = Append(@, p)]
    IN  /\ pass.at = "tombs" /\ call["pass"].op = "delete"
        /\ \/ /\ where[p] = "album"
              /\ Trashing(p)
              /\ \/ erase_index_by_cloud_id(p) /\ UNCHANGED <<faults, pass>>
                 \/ Fault /\ again /\ UNCHANGED index
           \/ UNCHANGED <<cloud, index, faults, pass>>
           \/ Fault /\ again /\ UNCHANGED <<cloud, index>>
        /\ Answered("pass")
        /\ UNCHANGED <<gallery, pins, tombs, disk, deleted>>

\* Mutant: the queue is written back after the entries there were at the start.
EndTombsOfSnapshot ==
    /\ pass.at = "tombs" /\ call["pass"] = Idle
    /\ pass.pos > 0
    /\ tombs' = pass.rest
    /\ pass' = [NoPass EXCEPT !.at = "pull"]
    /\ EndBatch([Written EXCEPT !.tombs = pass.rest])
    /\ UNCHANGED <<gallery, cloud, index, pins, call, faults, deleted>>

\* The queue becomes what is left of it, and is written.
EndTombs ==
    /\ pass.at = "tombs" /\ call["pass"] = Idle
    /\ pass.pos >= Len(tombs)
    /\ tombs' = pass.rest
    /\ pass' = [NoPass EXCEPT !.at = "pull"]
    /\ EndBatch([Written EXCEPT !.tombs = pass.rest])
    /\ UNCHANGED <<gallery, cloud, index, pins, call, faults, deleted>>

\* Photos trashed since the last pull, and still in the bin, lose their entry.
pull_changes ==
    /\ pass.at = "pull"
    /\ \/ /\ \E lost \in SUBSET Key :
                /\ {index[k] : k \in lost} =
                       {index[k] : k \in Key} \cap {p \in news : where[p] = "bin"}
                /\ \A j \in lost, k \in lost : index[j] = index[k] => j = k
                /\ index' = [k \in Key |-> IF k \in lost THEN NULL ELSE index[k]]
          /\ news' = {}
          /\ UNCHANGED faults
       \/ Fault /\ UNCHANGED <<index, news>>
    /\ pass' = NoPass
    /\ UNCHANGED <<gallery, bytes, where, pins, tombs, call, deleted>>
    /\ Persist

-----------------------------------------------------------------------------
(* The screens                                                              *)

\* Copying an item to the cloud by hand.
upload_device_item(k) ==
    /\ call["menu"] = Idle
    /\ ~Overlap => pass.at = "idle"
    /\ gallery[k] # NULL
    /\ Stage("menu", k)
    /\ UNCHANGED <<gallery, cloud, store, disk, pass, faults, deleted>>

\* Deleting a photo that an album shows.
delete_assets(p) ==
    /\ call["menu"] = Idle
    /\ where[p] = "album"
    /\ deleted' = deleted \cup {p}
    /\ Request("menu", [op |-> "delete", key |-> NULL, bytes |-> NULL, photo |-> p])
    /\ UNCHANGED <<gallery, cloud, store, disk, pass, faults>>

\* An error of any kind queues a tombstone.  A delete of the whole photo forgets
\* the item it was the backup of at once, one inside an album when it is trashed.
tombstone_delete(p) ==
    /\ tombs' = Queue(p)
    /\ erase_index_by_cloud_id(p) \/ UNCHANGED index

Deleted ==
    LET p == call["menu"].photo
    IN  /\ call["menu"].op = "delete"
        /\ \/ /\ where[p] = "album"
              /\ Trashing(p)
              /\ \/ erase_index_by_cloud_id(p) /\ UNCHANGED <<tombs, faults>>
                 \/ Fault /\ tombstone_delete(p)
           \/ where[p] = "album" /\ UNCHANGED <<cloud, store, faults>>
           \/ where[p] # "album" /\ tombstone_delete(p) /\ UNCHANGED <<cloud, faults>>
           \/ Fault /\ tombstone_delete(p) /\ UNCHANGED cloud
        /\ Answered("menu")
        /\ UNCHANGED <<gallery, pins, pass, deleted>>
        /\ Persist

\* 删本地保云端: the device removes the file, and the pin follows.
FreeItem(k) ==
    /\ call["menu"] = Idle
    /\ gallery[k] # NULL /\ index[k] # NULL
    /\ Request("menu", [op |-> "pin", key |-> k, bytes |-> NULL, photo |-> index[k]])
    /\ gallery' = [gallery EXCEPT ![k] = NULL]
    /\ UNCHANGED <<cloud, store, disk, pass, faults, deleted>>

\* Moving a photo to the device: once the file is there the cloud copy is deleted, and
\* the record goes whether that worked or not.
export_assets_to_device(p, k) ==
    /\ call["menu"] = Idle
    /\ where[p] = "album"
    /\ gallery[k] = NULL /\ index[k] = NULL
    /\ gallery' = [gallery EXCEPT ![k] = bytes[p]]
    /\ deleted' = deleted \cup {p}
    /\ Request("menu", [op |-> "move", key |-> NULL, bytes |-> NULL, photo |-> p])
    /\ UNCHANGED <<cloud, store, disk, pass, faults>>

Moved ==
    LET p == call["menu"].photo
    IN  /\ call["menu"].op = "move"
        /\ \/ where[p] = "album" /\ Trashing(p) /\ UNCHANGED faults
           \/ where[p] # "album" /\ UNCHANGED <<cloud, faults>>
           \/ Fault /\ UNCHANGED cloud
        /\ erase_index_by_cloud_id(p)
        /\ Answered("menu")
        /\ UNCHANGED <<gallery, pins, tombs, pass, deleted>>
        /\ Persist

set_kept ==
    /\ call["menu"].op = "pin"
    /\ pins' = pins \cup {call["menu"].photo}
    /\ Answered("menu")
    /\ UNCHANGED <<gallery, cloud, index, tombs, pass, faults, deleted>>
    /\ Persist

-----------------------------------------------------------------------------
(* The device, the other clients, and kills of the app                      *)

AddItem(k, c) ==
    /\ gallery[k] # c
    /\ gallery' = [gallery EXCEPT ![k] = c]
    /\ UNCHANGED <<cloud, store, disk, pass, call, faults, deleted>>

RemoveItem(k) ==
    /\ gallery[k] # NULL
    /\ gallery' = [gallery EXCEPT ![k] = NULL]
    /\ UNCHANGED <<cloud, store, disk, pass, call, faults, deleted>>

Elsewhere(p) ==
    /\ \/ where[p] = "album" /\ Trashing(p) /\ deleted' = deleted \cup {p}
       \/ /\ where[p] = "bin"
          /\ where' = [where EXCEPT ![p] = "album"]
          /\ UNCHANGED <<bytes, news, deleted>>
       \/ /\ where[p] = "bin" /\ Room
          /\ where' = [where EXCEPT ![p] = "purged"]
          /\ UNCHANGED <<bytes, news, deleted>>
    /\ UNCHANGED <<gallery, store, disk, pass, call, faults>>

\* Mutant: the pins are not read again.
KillNoPins ==
    /\ Fault
    /\ index' = disk.index /\ pins' = {} /\ tombs' = disk.tombs
    /\ pass' = NoPass
    /\ call' = [a \in Actor |-> Idle]
    /\ UNCHANGED <<gallery, cloud, disk, deleted>>

Kill ==
    /\ Fault
    /\ index' = disk.index /\ pins' = disk.pins /\ tombs' = disk.tombs
    /\ pass' = NoPass
    /\ call' = [a \in Actor |-> Idle]
    /\ UNCHANGED <<gallery, cloud, disk, deleted>>

\* The app is new on the device; the cloud may have photos from other clients.
Init ==
    /\ gallery = [k \in Key |-> NULL]
    /\ \E n \in 0..MaxPhoto :
          /\ bytes \in [Photo -> Content \cup {NULL}]
          /\ \A p \in Photo : bytes[p] = NULL <=> p > n
    /\ where = [p \in Photo |-> IF bytes[p] = NULL THEN "none" ELSE "album"]
    /\ Cardinality(Unmade) >= Cardinality(Missing)
    /\ news = {}
    /\ index = [k \in Key |-> NULL]
    /\ pins = {}
    /\ tombs = <<>>
    /\ disk = Written
    /\ pass = NoPass
    /\ call = [a \in Actor |-> Idle]
    /\ faults = MaxFaults
    /\ events = MaxEvents
    /\ deleted = {}
    /\ released = {}

PassStep ==
    \/ \E k \in Key : SkipItem(k) \/ BackUpItem(k) \/ DropEntry(k) \/ PrunePhoto(k)
    \/ BeginPrune \/ Pruned \/ BeginTombs \/ RetryTomb \/ TombAnswered \/ EndTombs
    \/ pull_changes
    \/ Found("pass") \/ Sent("pass")

MenuStep == Found("menu") \/ Sent("menu") \/ Deleted \/ Moved \/ set_kept

UserStep ==
    \/ \E k \in Key : upload_device_item(k) \/ FreeItem(k) \/ RemoveItem(k)
    \/ \E k \in Key, c \in Content : AddItem(k, c)
    \/ \E p \in Photo : delete_assets(p) \/ Elsewhere(p)
    \/ \E p \in Photo, k \in Key : export_assets_to_device(p, k)

AppStep == PassStep \/ MenuStep \/ sync_cloud \/ flush \/ Kill

Next ==
    \/ (Scan(TRUE) \/ Scan(FALSE)) /\ UNCHANGED events
    \/ AppStep /\ UNCHANGED events /\ Watch
    \/ UserStep /\ events > 0 /\ events' = events - 1 /\ Watch

\* Requests are answered and passes go on; whoever waits for a backup starts a pass
\* again and again, some time when none is running and the scan is whole.
Fairness ==
    /\ WF_vars(PassStep /\ UNCHANGED events /\ Watch)
    /\ WF_vars(MenuStep /\ UNCHANGED events /\ Watch)
    /\ SF_vars(Scan(TRUE) /\ UNCHANGED events)

Spec == Init /\ [][Next]_vars /\ Fairness

-----------------------------------------------------------------------------
(* Properties                                                               *)

Call == [op: {"none", "find", "send", "delete", "move", "pin"}, key: Key \cup {NULL},
         bytes: Content \cup {NULL}, photo: Photo \cup {NULL}]

\* Types, and that entries, tombstones and requests name photos there have been.
TypeOK ==
    /\ gallery \in [Key -> Content \cup {NULL}]
    /\ bytes \in [Photo -> Content \cup {NULL}]
    /\ where \in [Photo -> {"none", "album", "bin", "purged"}]
    /\ index \in [Key -> Photo \cup {NULL}]
    /\ pins \in SUBSET Photo
    /\ news \in SUBSET Photo
    /\ tombs \in Seq(Photo)
    /\ disk.index \in [Key -> Photo \cup {NULL}]
    /\ disk.pins \in SUBSET pins
    /\ disk.tombs \in Seq(Photo)
    /\ call \in [Actor -> Call]
    /\ faults \in 0..MaxFaults
    /\ events \in 0..MaxEvents
    /\ \A k \in Key : index[k] # NULL => where[index[k]] # "none"

InFlight == {call[a].photo : a \in {a \in Actor : call[a].op \in {"delete", "move"}}}

Promise == INSTANCE Backup WITH
    kept <- {p \in Photo : where[p] = "album"},
    pinned <- disk.pins,
    condemned <- InFlight

\* The app never deletes a photo of its own accord while the item it is the backup
\* of is on the device, or once a pin for it is on disk (sync.gd
\* _prune_device_deletions, _process_pending_deletes).
OnlyReleased == Promise!Spec

\* A photo that an item of the scan is backed up as is not asked to be deleted by
\* that pass, whatever other items it was the backup of (sync.gd, claimed).
ClaimedKept ==
    pass.at = "prune" /\ call["pass"].op = "delete" =>
        \A k \in Live : index[k] # call["pass"].photo

\* A queued delete stays queued until the server has answered it: whatever the pass
\* writes back, and whatever screens append meanwhile (sync.gd
\* _process_pending_deletes against tombstone_delete).
QueueKept ==
    [][\A i \in DOMAIN tombs :
        \/ \E j \in DOMAIN tombs' : tombs'[j] = tombs[i]
        \/ EndTombs /\ i <= pass.pos
        \/ Kill]_vars

\* A queued delete is delivered (sync.gd _process_pending_deletes).
DeletesArrive ==
    \A p \in Photo : (\E i \in DOMAIN tombs : tombs[i] = p)
                        ~> ~(\E i \in DOMAIN tombs : tombs[i] = p)

\* An item that stays on the device is backed up, whatever was lost on the way
\* (sync.gd _upload_phase; store.gd: a lost write costs a repetition).
ItemsBackedUp ==
    \A k \in Key, c \in Content :
        gallery[k] = c ~> gallery[k] # c \/ (index[k] # NULL /\ bytes[index[k]] = c)
=============================================================================
