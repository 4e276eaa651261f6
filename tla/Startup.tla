------------------------------ MODULE Startup ------------------------------
(***************************************************************************)
(* A start of the server: config.Load, store.Open with its migration and    *)
(* seeding, and main, statement by statement, over what earlier versions    *)
(* and earlier starts left on disk.  Every statement of SQLite commits by   *)
(* itself; the process may fail or be killed between any two of them.       *)
(*                                                                         *)
(* Abstractions: an extension is a value, and a name is the extension it    *)
(* ends with; an album is counted by its name; opening creates the missing  *)
(* tables in one step.                                                      *)
(***************************************************************************)
EXTENDS Integers, Sequences, FiniteSets

CONSTANTS
    Photo,      \* rows of assets
    Ext,        \* extensions
    Host, Port, \* what HONGNI_ADDR and -port may say
    EveryHost, DefaultPort,
    MaxFaults,  \* bound: failed steps and kills
    MaxEdits,   \* bound: requests that change rows
    NULL

ASSUME HostAssumption == EveryHost \notin Host /\ NULL \notin Host
ASSUME PortAssumption == DefaultPort \in Port /\ NULL \notin Port
ASSUME BoundsAssumption == MaxFaults \in Nat /\ MaxEdits \in Nat
ASSUME ExtAssumption == NULL \notin Ext
ASSUME TokenAssumption == NULL \notin Nat

\* HONGNI_TOKEN, and the tokens newToken draws, in the order of their numbers.
Given == 0
Token == 1..MaxFaults + 1

\* The columns that ALTER TABLE adds, in the order of migrate.
Columns == <<"deleted_at", "deleted_trunk_id", "deleted_album_id", "deleted_album_name",
             "deleted_name", "name", "ext", "owner_id">>
ASSUME ColumnsAssumption == \A s \in SUBSET {Columns[i] : i \in DOMAIN Columns} : s # NULL
RootNames == {"old_private", "private", "old_shared", "shared"}
Buckets == {"favourites", "scatter"}

VARIABLES
    at,         \* the statement the process is about to run, "down" without one
    env,        \* flags and environment of this start
    cfg,        \* config.Config: token and address
    added,      \* extAdded
    rest,       \* photos backfillExt has still to update
    announced,  \* the port registered with mDNS
    file,       \* the token in config.json, NULL if there is none to be read from it
    columns,    \* of the tables on disk, NULL while there are none
    photos,     \* Photo -> [name, ext], NULL where there is no row
    roots,      \* how many roots there are of each name
    buckets,    \* how many children of the shared trunk there are of each name
    first,      \* history: the extension a photo came with
    printed,    \* history: the tokens printed
    unread,     \* history: config.json was there and could not be read
    faults, edits

disk == <<file, columns, photos, roots, buckets>>
process == <<env, cfg, added, rest, announced>>
history == <<first, printed, unread>>
vars == <<at, process, disk, history, faults, edits>>

Address == [host : Host \cup {EveryHost}, port : Port] \cup [host : Host, port : {NULL}]
Env == [token : {NULL, Given}, addr : Address, port : Port \cup {NULL}, journal : BOOLEAN]
NoEnv == [token |-> NULL, addr |-> [host |-> EveryHost, port |-> DefaultPort],
          port |-> NULL, journal |-> TRUE]
NoCfg == [token |-> NULL, host |-> NULL, port |-> NULL]

\* A step may fail, and the process ends.
Fault == faults > 0 /\ faults' = faults - 1

Down ==
    /\ at' = "down"
    /\ env' = NoEnv /\ cfg' = NoCfg /\ added' = FALSE /\ rest' = {}
    /\ announced' = NULL

-----------------------------------------------------------------------------
(* config.Load                                                              *)

addrPort(addr) == IF addr.port = NULL THEN DefaultPort ELSE addr.port

\* Mutant: the port of HONGNI_ADDR wins over the flag.
addrWithOwnPort(addr, port) ==
    [host |-> IF addr.port = NULL THEN EveryHost ELSE addr.host,
     port |-> IF addr.port = NULL THEN port ELSE addr.port]

\* An address without a port does not parse, and its host is lost.
addrWithPort(addr, port) ==
    [host |-> IF addr.port = NULL THEN EveryHost ELSE addr.host, port |-> port]

Boot(e) ==
    /\ at = "down"
    /\ env' = e
    /\ IF e.journal
       THEN /\ at' = "token"
            /\ LET listen == addrWithPort(e.addr, IF e.port = NULL THEN addrPort(e.addr) ELSE e.port)
               IN  cfg' = [token |-> e.token, host |-> listen.host, port |-> listen.port]
            /\ UNCHANGED <<added, rest, announced>>
       ELSE Down
    /\ UNCHANGED <<disk, history, faults, edits>>

\* Any failure to read config.json is as if there were none.
ReadToken ==
    /\ at = "token"
    /\ \/ /\ cfg.token = NULL
          /\ \/ cfg' = [cfg EXCEPT !.token = file] /\ UNCHANGED <<unread, faults>>
             \/ file # NULL /\ Fault /\ unread' = TRUE /\ UNCHANGED cfg
          /\ at' = IF cfg'.token = NULL THEN "new" ELSE "schema"
       \/ cfg.token # NULL /\ at' = "schema" /\ UNCHANGED <<cfg, unread, faults>>
    /\ UNCHANGED <<env, added, rest, announced, disk, first, printed, edits>>

Fresh == Token \ (printed \cup {file})

\* Mutant: the token is printed before it is saved.
NewTokenPrinted ==
    /\ at = "new"
    /\ \E t \in Fresh :
          /\ \A u \in Fresh : t <= u
          /\ cfg' = [cfg EXCEPT !.token = t]
          /\ printed' = printed \cup {t}
    /\ file' = NULL
    /\ at' = "write"
    /\ UNCHANGED <<env, added, rest, announced, columns, photos, roots, buckets, first, unread,
                   faults, edits>>

\* The file is emptied before it is written.
NewToken ==
    /\ at = "new"
    /\ \E t \in Fresh :
          /\ \A u \in Fresh : t <= u
          /\ cfg' = [cfg EXCEPT !.token = t]
    /\ file' = NULL
    /\ at' = "write"
    /\ UNCHANGED <<env, added, rest, announced, columns, photos, roots, buckets, history,
                   faults, edits>>

WriteToken ==
    /\ at = "write"
    /\ file' = cfg.token
    /\ at' = "print"
    /\ UNCHANGED <<process, columns, photos, roots, buckets, history, faults, edits>>

PrintToken ==
    /\ at = "print"
    /\ printed' = printed \cup {cfg.token}
    /\ at' = "schema"
    /\ UNCHANGED <<process, disk, first, unread, faults, edits>>

-----------------------------------------------------------------------------
(* store.Open                                                               *)

\* New tables have the column ext already.
Schema ==
    /\ at = "schema"
    /\ columns' = IF columns = NULL THEN {"ext"} ELSE columns
    /\ at' = "migrate"
    /\ UNCHANGED <<process, file, photos, roots, buckets, history, faults, edits>>

Missing == {i \in DOMAIN Columns : Columns[i] \notin columns}

\* Mutant: the columns are added without looking which there are.
MigrateBlindly ==
    /\ at = "migrate"
    /\ IF columns = {}
       THEN columns' = {Columns[i] : i \in DOMAIN Columns} /\ added' = TRUE
            /\ at' = "migrate" /\ UNCHANGED <<env, cfg, rest, announced>>
       ELSE Down /\ UNCHANGED columns
    /\ UNCHANGED <<file, photos, roots, buckets, history, faults, edits>>

\* Mutant: every start fills in the extensions.
MigrateAndBackfill ==
    /\ at = "migrate"
    /\ IF Missing = {}
       THEN /\ at' = "backfill"
            /\ rest' = {p \in Photo : photos[p] # NULL}
            /\ UNCHANGED <<columns, added>>
       ELSE /\ \E i \in Missing :
                  /\ \A j \in Missing : i <= j
                  /\ columns' = columns \cup {Columns[i]}
            /\ UNCHANGED <<at, rest, added>>
    /\ UNCHANGED <<env, cfg, announced, file, photos, roots, buckets, history, faults, edits>>

\* The next missing column; the extensions follow if theirs was among them.
Migrate ==
    /\ at = "migrate"
    /\ \/ /\ Missing = {}
          /\ at' = IF added THEN "backfill" ELSE "rename_private"
          /\ rest' = IF added THEN {p \in Photo : photos[p] # NULL} ELSE {}
          /\ UNCHANGED <<columns, added>>
       \/ \E i \in Missing :
             /\ \A j \in Missing : i <= j
             /\ columns' = columns \cup {Columns[i]}
             /\ added' = (added \/ Columns[i] = "ext")
             /\ UNCHANGED <<at, rest>>
    /\ UNCHANGED <<env, cfg, announced, file, photos, roots, buckets, history, faults, edits>>

\* ExtensionOf of the name it has now, row by row.
BackfillExt ==
    /\ at = "backfill"
    /\ \/ \E p \in rest :
             /\ photos' = [photos EXCEPT ![p] = [name |-> photos[p].name, ext |-> photos[p].name]]
             /\ rest' = rest \ {p}
             /\ UNCHANGED at
       \/ rest = {} /\ at' = "rename_private" /\ UNCHANGED <<photos, rest>>
    /\ UNCHANGED <<env, cfg, added, announced, file, columns, roots, buckets, history, faults, edits>>

\* seedTrunks.  The old name goes unless there is a root of the new one.
Renamed(old, new) ==
    IF roots[new] = 0 THEN [roots EXCEPT ![old] = 0, ![new] = roots[old]] ELSE roots

\* Mutant: the old name is given up whatever there is.
RenameTrunkAnyway ==
    /\ at \in {"rename_private", "rename_shared"}
    /\ IF at = "rename_private"
       THEN /\ at' = "rename_shared"
            /\ roots' = [roots EXCEPT !["old_private"] = 0, !["private"] = @ + roots["old_private"]]
       ELSE /\ at' = "trunk"
            /\ roots' = [roots EXCEPT !["old_shared"] = 0, !["shared"] = @ + roots["old_shared"]]
    /\ UNCHANGED <<process, file, columns, photos, buckets, history, faults, edits>>

RenameTrunk ==
    /\ \/ at = "rename_private" /\ at' = "rename_shared" /\ roots' = Renamed("old_private", "private")
       \/ at = "rename_shared" /\ at' = "trunk" /\ roots' = Renamed("old_shared", "shared")
    /\ UNCHANGED <<process, file, columns, photos, buckets, history, faults, edits>>

SeedTrunk ==
    /\ at = "trunk"
    /\ roots' = IF roots["shared"] = 0 THEN [roots EXCEPT !["shared"] = 1] ELSE roots
    /\ at' = "favourites"
    /\ UNCHANGED <<process, file, columns, photos, buckets, history, faults, edits>>

\* Mutant: a bucket is inserted without looking for one.
SeedBucketAnyway ==
    /\ at \in Buckets
    /\ buckets' = IF roots["shared"] > 0 THEN [buckets EXCEPT ![at] = @ + 1] ELSE buckets
    /\ at' = IF at = "favourites" THEN "scatter" ELSE "announce"
    /\ UNCHANGED <<process, file, columns, photos, roots, history, faults, edits>>

SeedBucket ==
    /\ at \in Buckets
    /\ buckets' = IF roots["shared"] > 0 /\ buckets[at] = 0 THEN [buckets EXCEPT ![at] = 1] ELSE buckets
    /\ at' = IF at = "favourites" THEN "scatter" ELSE "announce"
    /\ UNCHANGED <<process, file, columns, photos, roots, history, faults, edits>>

-----------------------------------------------------------------------------
(* main                                                                     *)

\* The service is announced before it listens, and listens also unannounced.
Announce ==
    /\ at = "announce"
    /\ \/ announced' = cfg.port /\ UNCHANGED faults
       \/ Fault /\ announced' = NULL
    /\ at' = "listen"
    /\ UNCHANGED <<env, cfg, added, rest, disk, history, edits>>

Listen ==
    /\ at = "listen"
    /\ at' = "serve"
    /\ UNCHANGED <<process, disk, history, faults, edits>>

Stop ==
    /\ at = "serve"
    /\ Down
    /\ UNCHANGED <<disk, history, faults, edits>>

\* A step of the start fails with an error, or the process is killed.
Fail ==
    /\ at # "down"
    /\ Fault
    /\ Down
    /\ UNCHANGED <<disk, history, edits>>

-----------------------------------------------------------------------------
(* What a server does to these rows while it serves                         *)

Serving == at = "serve" /\ edits > 0 /\ edits' = edits - 1

Upload(p, e) ==
    /\ Serving
    /\ photos[p] = NULL
    /\ photos' = [photos EXCEPT ![p] = [name |-> e, ext |-> e]]
    /\ first' = [first EXCEPT ![p] = e]
    /\ UNCHANGED <<at, process, file, columns, roots, buckets, printed, unread, faults>>

UpdateAssetName(p, e) ==
    /\ Serving
    /\ photos[p] # NULL
    /\ photos' = [photos EXCEPT ![p] = [name |-> e, ext |-> photos[p].ext]]
    /\ UNCHANGED <<at, process, file, columns, roots, buckets, history, faults>>

DeleteBucket(b) ==
    /\ Serving
    /\ buckets' = [buckets EXCEPT ![b] = 0]
    /\ UNCHANGED <<at, process, file, columns, photos, roots, history, faults>>

\* A library of an earlier version has the columns that one knew; before there was
\* a column for it, the extension is in the name only.
Legacy(n) == {Columns[i] : i \in 1..n}

Row == [name : Ext, ext : Ext \cup {NULL}]
ASSUME RowAssumption == \A row \in Row : row # NULL

Init ==
    /\ at = "down" /\ env = NoEnv /\ cfg = NoCfg /\ added = FALSE /\ rest = {}
    /\ announced = NULL /\ file = NULL
    /\ \/ /\ columns = NULL
          /\ photos = [p \in Photo |-> NULL]
          /\ roots = [r \in RootNames |-> 0]
          /\ buckets = [b \in Buckets |-> 0]
       \/ \E n \in 0..Len(Columns) :
          /\ columns = Legacy(n)
          /\ photos \in [Photo -> {NULL} \cup
                {[name |-> e, ext |-> IF "ext" \in Legacy(n) THEN e ELSE NULL] : e \in Ext}]
          /\ roots \in [RootNames -> 0..1]
          /\ buckets \in [Buckets -> 0..roots["shared"] + roots["old_shared"]]
          /\ \A b \in Buckets : buckets[b] <= 1
    /\ first = [p \in Photo |-> IF photos[p] = NULL THEN NULL ELSE photos[p].name]
    /\ printed = {} /\ unread = FALSE
    /\ faults = MaxFaults /\ edits = MaxEdits

Start ==
    \/ ReadToken \/ NewToken \/ WriteToken \/ PrintToken
    \/ Schema \/ Migrate \/ BackfillExt \/ RenameTrunk \/ SeedTrunk \/ SeedBucket
    \/ Announce \/ Listen

Next ==
    \/ \E e \in Env : Boot(e)
    \/ Start
    \/ Stop \/ Fail
    \/ \E p \in Photo, e \in Ext : Upload(p, e) \/ UpdateAssetName(p, e)
    \/ \E b \in Buckets : DeleteBucket(b)

Spec == Init /\ [][Next]_vars

-----------------------------------------------------------------------------
(* Properties                                                               *)

\* Types.
TypeOK ==
    /\ env \in Env
    /\ cfg.token \in Token \cup {NULL, Given}
    /\ rest \subseteq {p \in Photo : photos[p] # NULL}
    /\ file \in Token \cup {NULL}
    /\ photos \in [Photo -> Row \cup {NULL}]
    /\ announced \in Port \cup {NULL}
    /\ \A r \in RootNames : roots[r] \in Nat
    /\ \A b \in Buckets : buckets[b] \in 0..1
    /\ faults \in 0..MaxFaults /\ edits \in 0..MaxEdits

\* Clients are told one token for good: whatever kills the starts, the token once
\* printed is the one in config.json, as long as that file can be read (config.go
\* Load: written before it is printed, generated only where there is none).
TokenKept == ~unread => printed \subseteq {file}

\* After the seeding there is one shared trunk, under its new name and with one
\* bucket of each kind, whichever statements earlier starts got to (store.go
\* seedTrunks).
OneTrunk ==
    at = "announce" =>
        /\ roots["shared"] = 1 /\ roots["private"] <= 1
        /\ roots["old_private"] > 0 => roots["private"] > 0
        /\ \A b \in Buckets : buckets[b] = 1

\* The extension column never holds what a later name ends with (store.go
\* backfillExt: only right after the column is added).
ExtKept == \A p \in Photo : photos[p] # NULL => photos[p].ext \in {NULL, first[p]}

\* Whatever an interrupted start left behind, the next one gets through: a start
\* whose settings are accepted ends only by a failure of its own (store.go migrate:
\* each column is added only when missing).
GetsThrough ==
    [][at' = "down" /\ at \notin {"down", "serve"} => faults' < faults]_vars

\* What is announced is what is listened on, at the host the operator named
\* (main.go registerZeroconf, config.go addrWithPort).
Reachable ==
    at = "serve" =>
        /\ announced \in {NULL, cfg.port}
        /\ env.port \in {NULL, cfg.port}
        /\ env.addr.port # NULL => cfg.host = env.addr.host

\* Every photo of a serving library has an extension to read (store.go scanAsset
\* reads it into a string, and migrate means to fill it in for older rows).
ExtFilledIn == at = "serve" => \A p \in Photo : photos[p] # NULL => photos[p].ext # NULL
=============================================================================
