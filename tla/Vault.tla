------------------------------- MODULE Vault -------------------------------
(***************************************************************************)
(* The stored bytes: files under blobs/ and thumbs/, named by content, and *)
(* the photo rows that share them.  Uploads and purges are requests served  *)
(* in parallel; the database serialises their transactions, the file        *)
(* system does not.  One action is one file-system call or one transaction, *)
(* and a stop of the server may come between any two of them.               *)
(*                                                                         *)
(* Left out: what the bytes are, the staging file of the request body, and  *)
(* which photo a row is (module Library).                                   *)
(***************************************************************************)
EXTENDS Integers, FiniteSets

CONSTANTS
    Hash,     \* contents (SHA-256)
    Image,    \* those a thumbnail can be made of
    Job,      \* requests served in parallel
    NULL,
    MaxRows   \* bound: photo rows of one content

ASSUME ImageAssumption == Image \subseteq Hash
ASSUME NullAssumption == NULL \notin Hash /\ NULL \notin Job
ASSUME RowsAssumption == MaxRows \in Nat \ {0}

VARIABLES
    rows,    \* hash -> its photo rows, which is ref_count of its blobs row
    files,   \* contents at their final path <hash>.<ext>
    bare,    \* contents at the path <hash> of an early version
    temps,   \* <<hash, job>>: temporary files next to the final path; the job is
             \* NULL for those a stop of the server left (not counted)
    thumbs,  \* contents with a thumbnail
    job,     \* what each request is doing
    spilt,   \* history: contents a failed or interrupted request left files of
    raced    \* history: contents uploaded while a purge was removing them

disk == <<files, bare, temps, thumbs>>
vars == <<rows, disk, job, spilt, raced>>

Uploads == {"stat", "write", "thumb", "row"}
Purges == {"unlink", "unthumb"}
JobState == [at: {"idle"} \cup Uploads \cup Purges,
             hash: Hash \cup {NULL}, gone: SUBSET Hash]
Idle == [at |-> "idle", hash |-> NULL, gone |-> {}]

Uploading(h) == \E j \in Job : job[j].at \in Uploads /\ job[j].hash = h
Purging(h) ==
    \E j \in Job : job[j].at \in Purges /\ h \in job[j].gone \cup {job[j].hash}

TempsOf(h) == {t \in temps : t[1] = h}

\* Files of h that no photo row accounts for.
Loose(h) ==
    \/ h \in bare \/ <<h, NULL>> \in temps
    \/ rows[h] = 0 /\ (h \in files \cup thumbs \/ TempsOf(h) # {})

\* An upload and a purge of h are in progress at once; forgotten when h is unused.
Race(h) == Uploading(h) /\ Purging(h)
Used(h) == Uploading(h) \/ rows[h] > 0

\* The history a step writes, which may have left files of S behind.
Spill(S) ==
    /\ spilt' = {h \in spilt \cup S : Loose(h)'}
    /\ raced' = {h \in Hash : (h \in raced \/ Race(h)') /\ Used(h)'}

Step(j, at) == job' = [job EXCEPT ![j] = [at |-> at, hash |-> @.hash, gone |-> {}]]
Finish(j) == job' = [job EXCEPT ![j] = Idle]

-----------------------------------------------------------------------------
(* Uploads                                                                  *)

\* The body has been received and hashed.
Receive(j, h) ==
    /\ job[j] = Idle
    /\ job' = [job EXCEPT ![j] = [at |-> "stat", hash |-> h, gone |-> {}]]
    /\ UNCHANGED <<rows, disk>>
    /\ Spill({})

\* Mutant: bytes that are there are taken to have their thumbnail.
PutKnownThumb(j) ==
    /\ job[j].at = "stat"
    /\ IF job[j].hash \in files
       THEN Step(j, "row") /\ UNCHANGED temps
       ELSE Step(j, "write") /\ temps' = temps \cup {<<job[j].hash, j>>}
    /\ UNCHANGED <<rows, files, bare, thumbs>>
    /\ Spill({})

\* Nothing is written when the final path exists.
Put(j) ==
    /\ job[j].at = "stat"
    /\ IF job[j].hash \in files
       THEN Step(j, "thumb") /\ UNCHANGED temps
       ELSE Step(j, "write") /\ temps' = temps \cup {<<job[j].hash, j>>}
    /\ UNCHANGED <<rows, files, bare, thumbs>>
    /\ Spill({})

\* The temporary file is whole and renamed over the final path.  When a purge has
\* removed it meanwhile, the upload goes on if the final path exists.
writeFileAtomic(j) ==
    LET mine == <<job[j].hash, j>>
    IN  /\ job[j].at = "write"
        /\ files' = IF mine \in temps THEN files \cup {job[j].hash} ELSE files
        /\ temps' = temps \ {mine}
        /\ IF job[j].hash \in files' THEN Step(j, "thumb") ELSE Finish(j)
        /\ UNCHANGED <<rows, bare, thumbs>>
        /\ Spill({})

\* A thumbnail of the same content is kept; what cannot be decoded has none.
EnsureThumb(j) ==
    /\ job[j].at = "thumb"
    /\ thumbs' = thumbs \cup ({job[j].hash} \cap Image)
    /\ Step(j, "row")
    /\ UNCHANGED <<rows, files, bare, temps>>
    /\ Spill({})

CreateAsset(j) ==
    /\ job[j].at = "row"
    /\ rows[job[j].hash] < MaxRows
    /\ rows' = [rows EXCEPT ![job[j].hash] = @ + 1]
    /\ Finish(j)
    /\ UNCHANGED disk
    /\ Spill({})

\* Any step of an upload may fail: a write removes its temporary file, and what
\* earlier steps stored stays.
FailUpload(j) ==
    /\ job[j].at \in Uploads
    /\ temps' = temps \ {<<job[j].hash, j>>}
    /\ Finish(j)
    /\ UNCHANGED <<rows, files, bare, thumbs>>
    /\ Spill({job[j].hash})

-----------------------------------------------------------------------------
(* Purges                                                                   *)

\* Mutant: one row goes twice.
PurgeTwice(j, k) ==
    /\ job[j] = Idle
    /\ \E h \in Hash : k[h] > 0
    /\ \A h \in Hash : k[h] <= rows[h]
    /\ rows' = [h \in Hash |-> rows[h] - 2 * k[h]]
    /\ job' = [job EXCEPT ![j] = [at |-> "unlink", hash |-> NULL,
                        gone |-> {h \in Hash : k[h] > 0 /\ rows'[h] <= 0}]]
    /\ UNCHANGED disk
    /\ Spill({})

\* Mutant: the references that are left are not looked at.
PurgeAnyway(j, k) ==
    /\ job[j] = Idle
    /\ \E h \in Hash : k[h] > 0
    /\ \A h \in Hash : k[h] <= rows[h]
    /\ rows' = [h \in Hash |-> rows[h] - k[h]]
    /\ job' = [job EXCEPT ![j] = [at |-> "unlink", hash |-> NULL,
                                  gone |-> {h \in Hash : k[h] > 0}]]
    /\ UNCHANGED disk
    /\ Spill({})

\* One transaction destroys k[h] photo rows of each content h; the contents left
\* without row are to be removed from disk.
Purge(j, k) ==
    /\ job[j] = Idle
    /\ \E h \in Hash : k[h] > 0
    /\ \A h \in Hash : k[h] <= rows[h]
    /\ rows' = [h \in Hash |-> rows[h] - k[h]]
    /\ job' = [job EXCEPT ![j] = [at |-> "unlink", hash |-> NULL,
                        gone |-> {h \in Hash : k[h] > 0 /\ rows[h] = k[h]}]]
    /\ UNCHANGED disk
    /\ Spill({})

\* resolveBlobPath: the final path, else a temporary file that matches the same
\* pattern, else the bare path.
RemoveResolved(h) ==
    \/ h \in files /\ files' = files \ {h} /\ UNCHANGED <<temps, bare>>
    \/ /\ h \notin files
       /\ \E t \in TempsOf(h) :
            temps' \in {temps \ {t}} \cup (IF t[2] = NULL THEN {temps} ELSE {})
       /\ UNCHANGED <<files, bare>>
    \/ /\ h \notin files /\ TempsOf(h) = {}
       /\ bare' = bare \ {h}
       /\ UNCHANGED <<files, temps>>

Unlink(j, h) ==
    /\ job[j].at = "unlink"
    /\ h \in job[j].gone
    /\ RemoveResolved(h)
    /\ job' = [job EXCEPT ![j] = [at |-> "unthumb", hash |-> h, gone |-> @.gone \ {h}]]
    /\ UNCHANGED <<rows, thumbs>>
    /\ Spill({})

\* Mutant: the handler is done after its first content.
UnlinkThumbOfFirst(j) ==
    /\ job[j].at = "unthumb"
    /\ thumbs' = thumbs \ {job[j].hash}
    /\ Finish(j)
    /\ UNCHANGED <<rows, files, bare, temps>>
    /\ Spill({})

UnlinkThumb(j) ==
    /\ job[j].at = "unthumb"
    /\ thumbs' = thumbs \ {job[j].hash}
    /\ job' = [job EXCEPT ![j] = [at |-> "unlink", hash |-> NULL, gone |-> @.gone]]
    /\ UNCHANGED <<rows, files, bare, temps>>
    /\ Spill({})

\* A removal that fails is logged; its content is given up, the next one is not.
FailDelete(j, h) ==
    /\ \/ job[j].at = "unlink" /\ h \in job[j].gone
       \/ job[j].at = "unthumb" /\ h = job[j].hash
    /\ job' = [job EXCEPT ![j] = [at |-> "unlink", hash |-> NULL, gone |-> @.gone \ {h}]]
    /\ UNCHANGED <<rows, disk>>
    /\ Spill({h})

Answer(j) ==
    /\ job[j].at = "unlink" /\ job[j].gone = {}
    /\ Finish(j)
    /\ UNCHANGED <<rows, disk>>
    /\ Spill({})

-----------------------------------------------------------------------------
(* The server stops at any moment; its next start gives the bare files their *)
(* extension, and serves even when that fails half way.                      *)

Restart(S) ==
    /\ S \subseteq bare
    /\ files' = files \cup S
    /\ bare' = bare \ S
    /\ temps' = {<<t[1], NULL>> : t \in temps}
    /\ job' = [j \in Job |-> Idle]
    /\ UNCHANGED <<rows, thumbs>>
    /\ Spill(Hash)

Init ==
    /\ bare \in SUBSET Hash
    /\ rows = [h \in Hash |-> IF h \in bare THEN 1 ELSE 0]
    /\ files = {} /\ temps = {}
    /\ thumbs = bare \cap Image
    /\ job = [j \in Job |-> Idle]
    /\ spilt = bare /\ raced = {}

UploadStep(j) ==
    \/ \E h \in Hash : Receive(j, h)
    \/ Put(j) \/ writeFileAtomic(j) \/ EnsureThumb(j) \/ CreateAsset(j)
    \/ FailUpload(j)

PurgeStep(j) ==
    \/ \E k \in [Hash -> 0..MaxRows] : Purge(j, k)
    \/ \E h \in Hash : Unlink(j, h) \/ FailDelete(j, h)
    \/ UnlinkThumb(j) \/ Answer(j)

Next ==
    \/ \E j \in Job : UploadStep(j) \/ PurgeStep(j)
    \/ \E S \in SUBSET bare : Restart(S)

Spec == Init /\ [][Next]_vars

-----------------------------------------------------------------------------
(* Properties                                                               *)

\* Every variable keeps its type; no content has a negative number of rows
\* (store.go deleteAssetRow decrements ref_count).
TypeOK ==
    /\ rows \in [Hash -> 0..MaxRows]
    /\ files \subseteq Hash /\ bare \subseteq Hash /\ thumbs \subseteq Hash
    /\ temps \subseteq Hash \X (Job \cup {NULL})
    /\ job \in [Job -> JobState]
    /\ spilt \subseteq Hash /\ raced \subseteq Hash

\* The bytes of a content are on disk as long as a photo row refers to it (blob.go
\* Put and Delete, api.go handleCreateAsset), through failures and restarts, unless
\* an upload of it overlapped with a purge that was removing it.
BytesKept ==
    \A h \in Hash : rows[h] > 0 /\ h \notin raced => h \in files \cup bare

\* So is the thumbnail of a content that has one, although the upload that made the
\* row may have found the bytes there and written nothing (blob.go EnsureThumb).
ThumbKept ==
    \A h \in Image : rows[h] > 0 /\ h \notin raced => h \in thumbs

\* A purge leaves no file without a row, and neither does an upload, unless one of
\* their steps failed or the server stopped between two of them (blob.go Delete, and
\* the loops of api.go handleClearTrash and handleListTrash).
NoLeak ==
    \A h \in Hash : Loose(h) => h \in spilt \/ Uploading(h) \/ Purging(h)

\* What store.go says of the purge: bytes are removed when their last row is gone,
\* and never those of a photo that is there.
NeverOrphaned == \A h \in Hash : rows[h] > 0 => h \in files \cup bare
=============================================================================
