---------------------------- MODULE VaultProofs ----------------------------
(***************************************************************************)
(* Proofs about module Vault, for any contents, requests and bound.         *)
(*                                                                         *)
(* BytesKept alone is not inductive: a purge that still has a content to    *)
(* remove and an upload that has already found its bytes both act later on   *)
(* what they saw.  Kept says of each what the history variable raced must    *)
(* then contain.                                                            *)
(***************************************************************************)
EXTENDS Vault, TLAPS

\* The content of a request that handles one.
Named == \A j \in Job : job[j].at \in Uploads \cup {"unthumb"} => job[j].hash \in Hash

Typed == TypeOK /\ Named

\* An upload past Put and a row have their bytes, unless raced; a purge of a content
\* in use, by a row or by an upload, makes it raced.
UploadKept ==
    \A j \in Job : job[j].at \in {"thumb", "row"} /\ job[j].hash \notin raced
                    => job[j].hash \in files \cup bare
PurgeRaced == \A h \in Hash : Purging(h) /\ Used(h) => h \in raced

Kept == BytesKept /\ UploadKept /\ PurgeRaced

-----------------------------------------------------------------------------
(* What the steps have in common                                            *)

\* The history never names anything but contents.
LEMMA SpillTyped ==
    ASSUME NEW S, spilt \subseteq Hash, S \subseteq Hash, Spill(S)
    PROVE  spilt' \subseteq Hash /\ raced' \subseteq Hash
BY DEF Spill

\* A content that was raced stays so while it is used.
LEMMA RacedStays ==
    ASSUME NEW S, Spill(S), NEW h \in Hash, h \in raced, Used(h)'
    PROVE  h \in raced'
BY DEF Spill

\* Uploading it while a purge removes it makes a content raced.
LEMMA RaceRecorded ==
    ASSUME NEW S, Spill(S), NEW h \in Hash, Uploading(h)', Purging(h)'
    PROVE  h \in raced'
BY DEF Spill, Race, Used

-----------------------------------------------------------------------------
(* Types                                                                    *)

LEMMA TypedInit == Init => Typed
BY RowsAssumption, ImageAssumption
   DEF Init, Typed, TypeOK, Named, JobState, Idle, Uploads, Purges

\* The steps of an upload keep the types.
LEMMA TypedUpload ==
    ASSUME Typed, NEW j \in Job, UploadStep(j)
    PROVE  Typed'
<1> USE DEF Typed, TypeOK, Named, JobState, Idle, Uploads, Purges, disk, Step, Finish
<1>1. CASE \E h \in Hash : Receive(j, h)
  BY <1>1, SpillTyped DEF Receive
<1>2. CASE Put(j)
  BY <1>2, SpillTyped DEF Put
<1>3. CASE writeFileAtomic(j)
  BY <1>3, SpillTyped DEF writeFileAtomic
<1>4. CASE EnsureThumb(j)
  BY <1>4, SpillTyped DEF EnsureThumb
<1>5. CASE CreateAsset(j)
  BY <1>5, SpillTyped, RowsAssumption DEF CreateAsset
<1>6. CASE FailUpload(j)
  BY <1>6, SpillTyped DEF FailUpload
<1> QED BY <1>1, <1>2, <1>3, <1>4, <1>5, <1>6 DEF UploadStep

\* The steps of a purge keep the types: no content loses a row it does not have.
LEMMA TypedPurge ==
    ASSUME Typed, NEW j \in Job, PurgeStep(j)
    PROVE  Typed'
<1> USE DEF Typed, TypeOK, Named, JobState, Idle, Uploads, Purges, disk, Finish
<1>1. CASE \E k \in [Hash -> 0..MaxRows] : Purge(j, k)
  BY <1>1, SpillTyped, RowsAssumption DEF Purge
<1>2. ASSUME NEW h \in Hash, Unlink(j, h) PROVE Typed'
  BY <1>2, SpillTyped DEF Unlink, RemoveResolved, TempsOf
<1>3. ASSUME NEW h \in Hash, FailDelete(j, h) PROVE Typed'
  BY <1>3, SpillTyped DEF FailDelete
<1>4. CASE UnlinkThumb(j)
  BY <1>4, SpillTyped DEF UnlinkThumb
<1>5. CASE Answer(j)
  BY <1>5, SpillTyped DEF Answer
<1> QED BY <1>1, <1>2, <1>3, <1>4, <1>5 DEF PurgeStep

LEMMA TypedRestart ==
    ASSUME Typed, NEW S \in SUBSET bare, Restart(S)
    PROVE  Typed'
BY SpillTyped
   DEF Restart, Typed, TypeOK, Named, JobState, Idle, Uploads, Purges

-----------------------------------------------------------------------------
(* Bytes                                                                    *)

LEMMA KeptInit == Init => Kept
BY DEF Init, Kept, BytesKept, UploadKept, PurgeRaced, Purging, Idle, Uploads, Purges

\* A step of an upload: it starts no purge, it removes no bytes, and the row it may
\* make is that of a content it has the bytes of.
LEMMA KeptUpload ==
    ASSUME Typed, Kept, NEW j \in Job, UploadStep(j)
    PROVE  Kept'
<1>0. \A i \in Job : job'[i].at \in {"thumb", "row"} => job'[i].hash \in Hash
  <2>1. Typed'
    BY TypedUpload
  <2> QED BY <2>1 DEF Typed, Named, Uploads
<1> USE DEF Typed, TypeOK, Named, JobState, Idle, Uploads, Purges, disk, Step, Finish
<1>1. \E S : Spill(S)
  BY DEF UploadStep, Receive, Put, writeFileAtomic, EnsureThumb, CreateAsset, FailUpload
<1>2. ASSUME NEW h \in Hash, Purging(h)' PROVE Purging(h)
  BY <1>2 DEF Purging, UploadStep, Receive, Put, writeFileAtomic, EnsureThumb,
              CreateAsset, FailUpload
<1>3. ASSUME NEW h \in Hash, Used(h)', ~Uploading(h)' PROVE Used(h)
  BY <1>3 DEF Used, Uploading, UploadStep, Receive, Put, writeFileAtomic, EnsureThumb,
              CreateAsset, FailUpload
<1>4. ASSUME NEW h \in Hash, h \in raced, Used(h)' PROVE h \in raced'
  BY <1>1, <1>4, RacedStays
<1>5. PurgeRaced'
  <2> SUFFICES ASSUME NEW h \in Hash, Purging(h)', Used(h)' PROVE h \in raced'
    BY DEF PurgeRaced
  <2>1. CASE Uploading(h)'
    BY <2>1, <1>1, RaceRecorded
  <2>2. CASE ~Uploading(h)'
    BY <2>2, <1>2, <1>3, <1>4 DEF Kept, PurgeRaced
  <2> QED BY <2>1, <2>2
<1>6. files \cup bare \subseteq files' \cup bare'
  BY DEF UploadStep, Receive, Put, writeFileAtomic, EnsureThumb, CreateAsset, FailUpload
<1>7. UploadKept'
  <2> SUFFICES ASSUME NEW i \in Job, job'[i].at \in {"thumb", "row"},
                      job'[i].hash \notin raced'
               PROVE  job'[i].hash \in files' \cup bare'
    BY DEF UploadKept
  <2>0. job'[i].hash \in Hash
    BY <1>0
  <2> PICK h \in Hash : h = job'[i].hash
    BY <2>0
  <2>1. Used(h)'
    BY DEF Used, Uploading
  <2>2. CASE job[i].at \in {"thumb", "row"} /\ job[i].hash = h
    <3>1. h \notin raced
      BY <2>1, <1>4
    <3> QED BY <3>1, <2>2, <1>6 DEF Kept, UploadKept
  <2>3. CASE i = j /\ job[i].at \in {"stat", "write"}
    BY <2>3 DEF UploadStep, Receive, Put, writeFileAtomic, EnsureThumb, CreateAsset,
                FailUpload
  <2>4. \/ (job[i].at \in {"thumb", "row"} /\ job[i].hash = h)
        \/ (i = j /\ job[i].at \in {"stat", "write"})
    BY DEF UploadStep, Receive, Put, writeFileAtomic, EnsureThumb, CreateAsset, FailUpload
  <2> QED BY <2>2, <2>3, <2>4
<1>8. BytesKept'
  <2> SUFFICES ASSUME NEW h \in Hash, rows'[h] > 0, h \notin raced'
               PROVE  h \in files' \cup bare'
    BY DEF BytesKept
  <2>1. h \notin raced
    BY <1>4 DEF Used
  <2>2. CASE rows[h] > 0
    BY <2>1, <2>2, <1>6 DEF Kept, BytesKept
  <2>3. CASE job[j].at = "row" /\ job[j].hash = h
    BY <2>1, <2>3, <1>6 DEF Kept, UploadKept
  <2>4. rows[h] > 0 \/ (job[j].at = "row" /\ job[j].hash = h)
    BY DEF UploadStep, Receive, Put, writeFileAtomic, EnsureThumb, CreateAsset, FailUpload
  <2> QED BY <2>2, <2>3, <2>4
<1> QED BY <1>5, <1>7, <1>8 DEF Kept

\* A purge takes rows away and makes none, touches no upload, and takes up only
\* contents of which it leaves no row.
LEMMA PurgeOnlyPurges ==
    ASSUME Typed, NEW j \in Job, PurgeStep(j)
    PROVE  /\ \A i \in Job \ {j} : job'[i] = job[i]
           /\ job[j].at \notin Uploads /\ job'[j].at \notin Uploads
           /\ \A h \in Hash : rows'[h] > 0 => rows[h] > 0
           /\ \A h \in Hash :
                job'[j].at \in Purges /\ h \in job'[j].gone \cup {job'[j].hash}
                    => \/ job[j].at \in Purges /\ h \in job[j].gone \cup {job[j].hash}
                       \/ rows'[h] = 0
           /\ \E S : Spill(S)
<1> DEFINE Goal ==
           /\ \A i \in Job \ {j} : job'[i] = job[i]
           /\ job[j].at \notin Uploads /\ job'[j].at \notin Uploads
           /\ \A h \in Hash : rows'[h] > 0 => rows[h] > 0
           /\ \A h \in Hash :
                job'[j].at \in Purges /\ h \in job'[j].gone \cup {job'[j].hash}
                    => \/ job[j].at \in Purges /\ h \in job[j].gone \cup {job[j].hash}
                       \/ rows'[h] = 0
<1> USE NullAssumption DEF Typed, TypeOK, JobState, Idle, Uploads, Purges, disk, Finish
<1>1. ASSUME NEW k \in [Hash -> 0..MaxRows], Purge(j, k) PROVE Goal
  <2>1. /\ job[j].at = "idle" /\ rows' = [h \in Hash |-> rows[h] - k[h]]
        /\ job' = [job EXCEPT ![j] = [at |-> "unlink", hash |-> NULL,
                        gone |-> {h \in Hash : k[h] > 0 /\ rows[h] = k[h]}]]
    BY <1>1 DEF Purge
  <2>2. \A h \in Hash : rows[h] \in 0..MaxRows /\ k[h] \in 0..MaxRows
    BY <1>1
  <2> QED BY <2>1, <2>2, RowsAssumption
<1>2. ASSUME NEW h \in Hash, Unlink(j, h) PROVE Goal
  BY <1>2 DEF Unlink
<1>3. ASSUME NEW h \in Hash, FailDelete(j, h) PROVE Goal
  BY <1>3 DEF FailDelete
<1>4. CASE UnlinkThumb(j)
  BY <1>4 DEF UnlinkThumb
<1>5. CASE Answer(j)
  BY <1>5 DEF Answer
<1>6. Goal
  BY <1>1, <1>2, <1>3, <1>4, <1>5 DEF PurgeStep
<1>7. \E S : Spill(S)
  BY DEF PurgeStep, Purge, Unlink, UnlinkThumb, FailDelete, Answer
<1> QED BY <1>6, <1>7

\* A step of a purge: what it starts to remove no row is left of, and the bytes it
\* removes are those of a content that is unused or raced.
LEMMA KeptPurge ==
    ASSUME Typed, Kept, NEW j \in Job, PurgeStep(j)
    PROVE  Kept'
<1>1. \E S : Spill(S)
  BY PurgeOnlyPurges
<1>2. ASSUME NEW i \in Job, job'[i].at \in Uploads PROVE job'[i] = job[i]
  BY <1>2, PurgeOnlyPurges
<1>3. ASSUME NEW h \in Hash, rows'[h] > 0 PROVE rows[h] > 0
  BY <1>3, PurgeOnlyPurges
<1>4. ASSUME NEW h \in Hash, Used(h)' PROVE Used(h)
  BY <1>2, <1>3, <1>4 DEF Used, Uploading
<1>5. ASSUME NEW h \in Hash, h \in raced, Used(h)' PROVE h \in raced'
  BY <1>1, <1>5, RacedStays
<1>6. ASSUME NEW h \in Hash, Purging(h)', rows'[h] > 0 PROVE Purging(h)
  <2>1. PICK i \in Job : job'[i].at \in Purges /\ h \in job'[i].gone \cup {job'[i].hash}
    BY <1>6 DEF Purging
  <2>2. job[i].at \in Purges /\ h \in job[i].gone \cup {job[i].hash}
    BY <2>1, <1>6, PurgeOnlyPurges
  <2> QED BY <2>2 DEF Purging
<1> USE DEF Typed, TypeOK, Named, JobState, Idle, Uploads, Purges, disk, Finish
<1>7. PurgeRaced'
  <2> SUFFICES ASSUME NEW h \in Hash, Purging(h)', Used(h)' PROVE h \in raced'
    BY DEF PurgeRaced
  <2>1. CASE Uploading(h)'
    BY <2>1, <1>1, RaceRecorded
  <2>2. CASE rows'[h] > 0
    BY <2>2, <1>4, <1>5, <1>6 DEF Kept, PurgeRaced
  <2> QED BY <2>1, <2>2 DEF Used
\* The bytes of a content that is not being purged stay.
<1>8. ASSUME NEW h \in files \cup bare, h \notin files' \cup bare'
      PROVE  Purging(h)
  BY <1>8 DEF Purging, PurgeStep, Purge, Unlink, RemoveResolved, UnlinkThumb,
              FailDelete, Answer
<1>9. ASSUME NEW h \in files \cup bare, Used(h)', h \notin raced'
      PROVE  h \in files' \cup bare'
  BY <1>9, <1>4, <1>5, <1>8 DEF Kept, PurgeRaced
<1>10. UploadKept'
  <2> SUFFICES ASSUME NEW i \in Job, job'[i].at \in {"thumb", "row"},
                      job'[i].hash \notin raced'
               PROVE  job'[i].hash \in files' \cup bare'
    BY DEF UploadKept
  <2>1. job[i] = job'[i]
    BY <1>2
  <2>2. job[i].hash \in Hash /\ Used(job[i].hash)'
    BY <2>1 DEF Used, Uploading
  <2>3. job[i].hash \notin raced
    BY <2>1, <2>2, <1>5
  <2> QED BY <2>1, <2>2, <2>3, <1>9 DEF Kept, UploadKept
<1>11. BytesKept'
  BY <1>3, <1>5, <1>9 DEF Kept, BytesKept, Used
<1> QED BY <1>7, <1>10, <1>11 DEF Kept

\* A stop of the server ends every request; the start after it loses no bytes.
LEMMA KeptRestart ==
    ASSUME Typed, Kept, NEW S \in SUBSET bare, Restart(S)
    PROVE  Kept'
<1> USE DEF Typed, TypeOK, Idle, Uploads, Purges, Restart
<1>1. UploadKept' /\ PurgeRaced'
  BY DEF UploadKept, PurgeRaced, Purging
<1>2. ASSUME NEW h \in Hash, h \in raced, Used(h)' PROVE h \in raced'
  BY <1>2, RacedStays
<1>3. BytesKept'
  BY <1>2 DEF Kept, BytesKept, Used
<1> QED BY <1>1, <1>3 DEF Kept

-----------------------------------------------------------------------------
(* Thumbnails                                                               *)

\* An upload about to make its row, and every row, has its thumbnail unless raced.
UploadThumb ==
    \A j \in Job : job[j].at = "row" /\ job[j].hash \in Image /\ job[j].hash \notin raced
                    => job[j].hash \in thumbs

Shown == ThumbKept /\ UploadThumb

\* Uploads take no thumbnail away, and make one before the row.
LEMMA ShownUpload ==
    ASSUME Typed, Kept, Shown, NEW j \in Job, UploadStep(j)
    PROVE  Shown'
<1>0. \A i \in Job : job'[i].at = "row" => job'[i].hash \in Hash
  <2>1. Typed'
    BY TypedUpload
  <2> QED BY <2>1 DEF Typed, Named, Uploads
<1> USE ImageAssumption DEF Typed, TypeOK, Named, JobState, Idle, Uploads, Purges, disk, Step, Finish
<1>1. \E S : Spill(S)
  BY DEF UploadStep, Receive, Put, writeFileAtomic, EnsureThumb, CreateAsset, FailUpload
<1>2. ASSUME NEW h \in Hash, h \in raced, Used(h)' PROVE h \in raced'
  BY <1>1, <1>2, RacedStays
<1>3. thumbs \subseteq thumbs'
  BY DEF UploadStep, Receive, Put, writeFileAtomic, EnsureThumb, CreateAsset, FailUpload
<1>4. UploadThumb'
  <2> SUFFICES ASSUME NEW i \in Job, job'[i].at = "row", job'[i].hash \in Image,
                      job'[i].hash \notin raced'
               PROVE  job'[i].hash \in thumbs'
    BY DEF UploadThumb
  <2> PICK h \in Hash : h = job'[i].hash
    BY <1>0
  <2>1. Used(h)'
    BY DEF Used, Uploading
  <2>2. CASE job[i].at = "row" /\ job[i].hash = h
    BY <2>1, <2>2, <1>2, <1>3 DEF Shown, UploadThumb
  <2>3. CASE i = j /\ EnsureThumb(j)
    BY <2>3 DEF EnsureThumb
  <2>4. \/ job[i].at = "row" /\ job[i].hash = h
        \/ i = j /\ EnsureThumb(j)
    BY DEF UploadStep, Receive, Put, writeFileAtomic, EnsureThumb, CreateAsset, FailUpload
  <2> QED BY <2>2, <2>3, <2>4
<1>5. ThumbKept'
  <2> SUFFICES ASSUME NEW h \in Image, rows'[h] > 0, h \notin raced'
               PROVE  h \in thumbs'
    BY DEF ThumbKept
  <2>1. h \in Hash /\ h \notin raced
    BY <1>2 DEF Used
  <2>2. CASE rows[h] > 0
    BY <2>1, <2>2, <1>3 DEF Shown, ThumbKept
  <2>3. CASE job[j].at = "row" /\ job[j].hash = h
    BY <2>1, <2>3, <1>3 DEF Shown, UploadThumb
  <2>4. rows[h] > 0 \/ (job[j].at = "row" /\ job[j].hash = h)
    BY <2>1 DEF UploadStep, Receive, Put, writeFileAtomic, EnsureThumb, CreateAsset, FailUpload
  <2> QED BY <2>2, <2>3, <2>4
<1> QED BY <1>4, <1>5 DEF Shown

\* A purge takes away the thumbnail of a content that is unused or raced.
LEMMA ShownPurge ==
    ASSUME Typed, Kept, Shown, NEW j \in Job, PurgeStep(j)
    PROVE  Shown'
<1>1. \E S : Spill(S)
  BY PurgeOnlyPurges
<1>2. ASSUME NEW i \in Job, job'[i].at \in Uploads PROVE job'[i] = job[i]
  BY <1>2, PurgeOnlyPurges
<1>3. ASSUME NEW h \in Hash, rows'[h] > 0 PROVE rows[h] > 0
  BY <1>3, PurgeOnlyPurges
<1>4. ASSUME NEW h \in Hash, Used(h)' PROVE Used(h)
  BY <1>2, <1>3, <1>4 DEF Used, Uploading
<1>5. ASSUME NEW h \in Hash, h \in raced, Used(h)' PROVE h \in raced'
  BY <1>1, <1>5, RacedStays
<1> USE ImageAssumption DEF Typed, TypeOK, Named, JobState, Idle, Uploads, Purges, disk, Finish
<1>6. ASSUME NEW h \in thumbs, h \notin thumbs' PROVE Purging(h)
  BY <1>6 DEF Purging, PurgeStep, Purge, Unlink, UnlinkThumb, FailDelete, Answer
<1>7. ASSUME NEW h \in thumbs, Used(h)', h \notin raced' PROVE h \in thumbs'
  BY <1>7, <1>4, <1>5, <1>6 DEF Kept, PurgeRaced
<1>8. UploadThumb'
  <2> SUFFICES ASSUME NEW i \in Job, job'[i].at = "row", job'[i].hash \in Image,
                      job'[i].hash \notin raced'
               PROVE  job'[i].hash \in thumbs'
    BY DEF UploadThumb
  <2>1. job[i] = job'[i]
    BY <1>2
  <2>2. job[i].hash \in Hash /\ Used(job[i].hash)'
    BY <2>1 DEF Used, Uploading
  <2>3. job[i].hash \notin raced
    BY <2>1, <2>2, <1>5
  <2> QED BY <2>1, <2>2, <2>3, <1>7 DEF Shown, UploadThumb
<1>9. ThumbKept'
  BY <1>3, <1>5, <1>7 DEF Shown, ThumbKept, Used
<1> QED BY <1>8, <1>9 DEF Shown

LEMMA ShownRestart ==
    ASSUME Typed, Kept, Shown, NEW S \in SUBSET bare, Restart(S)
    PROVE  Shown'
<1> USE ImageAssumption DEF Typed, TypeOK, Idle, Restart
<1>1. UploadThumb'
  BY DEF UploadThumb
<1>2. ASSUME NEW h \in Hash, h \in raced, Used(h)' PROVE h \in raced'
  BY <1>2, RacedStays
<1>3. ThumbKept'
  BY <1>2 DEF Shown, ThumbKept, Used
<1> QED BY <1>1, <1>3 DEF Shown

-----------------------------------------------------------------------------
(* Files without row                                                        *)

\* Who answers for a file: the history for those nobody is at work on, an upload for
\* its temporary file and for what it has stored so far, a purge for what it is to
\* remove.
OldPieces == \A h \in Hash : h \in bare \/ <<h, NULL>> \in temps => h \in spilt
OwnPieces ==
    \A h \in Hash, j \in Job :
        <<h, j>> \in temps => job[j].at = "write" /\ job[j].hash = h

FileBy(j, h) ==
    \/ job[j].at \in {"thumb", "row"} /\ job[j].hash = h
    \/ job[j].at \in Purges /\ h \in job[j].gone
FilePieces ==
    \A h \in Hash : rows[h] = 0 /\ h \in files =>
        h \in spilt \/ \E j \in Job : FileBy(j, h)

ThumbBy(j, h) ==
    \/ job[j].at = "row" /\ job[j].hash = h
    \/ job[j].at \in Purges /\ h \in job[j].gone
    \/ job[j].at = "unthumb" /\ job[j].hash = h
ThumbPieces ==
    \A h \in Hash : rows[h] = 0 /\ h \in thumbs =>
        h \in spilt \/ \E j \in Job : ThumbBy(j, h)

Pieces == OldPieces /\ OwnPieces /\ FilePieces /\ ThumbPieces

\* What a step of request j has to show, of j and each content alone: a file or
\* thumbnail without row is new and j answers for it, or was there, and j answers
\* for it still if it did, or hands it to the history.
OwnStep(j) ==
    /\ bare' \subseteq bare
    /\ \A h \in Hash : <<h, NULL>> \in temps' => <<h, NULL>> \in temps
    /\ \A h \in Hash, i \in Job \ {j} : <<h, i>> \in temps' => <<h, i>> \in temps
    /\ \A h \in Hash : <<h, j>> \in temps' => job'[j].at = "write" /\ job'[j].hash = h
FileStep(j, S) ==
    \A h \in Hash : rows'[h] = 0 /\ h \in files' =>
        \/ FileBy(j, h)'
        \/ rows[h] = 0 /\ h \in files /\ (FileBy(j, h) => h \in S)
ThumbStep(j, S) ==
    \A h \in Hash : rows'[h] = 0 /\ h \in thumbs' =>
        \/ ThumbBy(j, h)'
        \/ rows[h] = 0 /\ h \in thumbs /\ (ThumbBy(j, h) => h \in S)

LEMMA PiecesInit == Init => Pieces
BY DEF Init, Pieces, OldPieces, OwnPieces, FilePieces, ThumbPieces

\* What the history has, or is given, it keeps while there are files.
LEMMA SpiltStays ==
    ASSUME NEW S, Spill(S), NEW h \in Hash, h \in spilt \cup S, Loose(h)'
    PROVE  h \in spilt'
BY DEF Spill

\* Every file keeps somebody who answers for it: the requests other than j stay as
\* they are.
LEMMA PiecesStep ==
    ASSUME Pieces, NEW j \in Job, \A i \in Job \ {j} : job'[i] = job[i],
           NEW S, Spill(S), OwnStep(j), FileStep(j, S), ThumbStep(j, S)
    PROVE  Pieces'
<1>1. ASSUME NEW h \in Hash, h \in spilt \cup S, Loose(h)' PROVE h \in spilt'
  BY <1>1, SpiltStays
<1>2. OldPieces'
  BY <1>1 DEF Pieces, OldPieces, OwnStep, Loose
<1>3. OwnPieces'
  BY DEF Pieces, OwnPieces, OwnStep
<1>4. FilePieces'
  <2> SUFFICES ASSUME NEW h \in Hash, rows'[h] = 0, h \in files', h \notin spilt'
               PROVE  \E i \in Job : FileBy(i, h)'
    BY DEF FilePieces
  <2>1. Loose(h)' /\ h \notin spilt \cup S
    BY <1>1 DEF Loose
  <2>2. CASE rows[h] = 0 /\ h \in files /\ ~FileBy(j, h)
    <3>1. PICK i \in Job : FileBy(i, h)
      BY <2>1, <2>2 DEF Pieces, FilePieces
    <3>2. i # j
      BY <2>2, <3>1
    <3>3. job'[i] = job[i]
      BY <3>2
    <3>4. FileBy(i, h)'
      BY <3>1, <3>3 DEF FileBy
    <3> QED BY <3>4
  <2>3. CASE FileBy(j, h)'
    BY <2>3
  <2> QED BY <2>1, <2>2, <2>3 DEF FileStep
<1>5. ThumbPieces'
  <2> SUFFICES ASSUME NEW h \in Hash, rows'[h] = 0, h \in thumbs', h \notin spilt'
               PROVE  \E i \in Job : ThumbBy(i, h)'
    BY DEF ThumbPieces
  <2>1. Loose(h)' /\ h \notin spilt \cup S
    BY <1>1 DEF Loose
  <2>2. CASE rows[h] = 0 /\ h \in thumbs /\ ~ThumbBy(j, h)
    <3>1. PICK i \in Job : ThumbBy(i, h)
      BY <2>1, <2>2 DEF Pieces, ThumbPieces
    <3>2. i # j
      BY <2>2, <3>1
    <3>3. job'[i] = job[i]
      BY <3>2
    <3>4. ThumbBy(i, h)'
      BY <3>1, <3>3 DEF ThumbBy
    <3> QED BY <3>4
  <2>3. CASE ThumbBy(j, h)'
    BY <2>3
  <2> QED BY <2>1, <2>2, <2>3 DEF ThumbStep
<1> QED BY <1>2, <1>3, <1>4, <1>5 DEF Pieces

\* The steps of an upload.
LEMMA PiecesUpload ==
    ASSUME Typed, Pieces, NEW j \in Job, UploadStep(j)
    PROVE  Pieces'
<1> USE NullAssumption, RowsAssumption
    DEF Typed, TypeOK, Named, JobState, Idle, Uploads, Purges, disk, Step, Finish
<1>1. \A i \in Job \ {j} : job'[i] = job[i]
  BY DEF UploadStep, Receive, Put, writeFileAtomic, EnsureThumb, CreateAsset, FailUpload
<1>2. OwnStep(j)
  <2>0. \A h \in Hash : <<h, j>> \in temps => job[j].at = "write" /\ job[j].hash = h
    BY DEF Pieces, OwnPieces
  <2>1. ASSUME NEW h \in Hash, Receive(j, h) PROVE OwnStep(j)
    BY <2>0, <2>1 DEF OwnStep, Receive
  <2>2. CASE Put(j)
    BY <2>0, <2>2 DEF OwnStep, Put
  <2>3. CASE writeFileAtomic(j)
    BY <2>0, <2>3 DEF OwnStep, writeFileAtomic
  <2>4. CASE EnsureThumb(j)
    BY <2>0, <2>4 DEF OwnStep, EnsureThumb
  <2>5. CASE CreateAsset(j)
    BY <2>0, <2>5 DEF OwnStep, CreateAsset
  <2>6. CASE FailUpload(j)
    BY <2>0, <2>6 DEF OwnStep, FailUpload
  <2> QED BY <2>1, <2>2, <2>3, <2>4, <2>5, <2>6 DEF UploadStep
<1> DEFINE Goal == \E S : Spill(S) /\ FileStep(j, S) /\ ThumbStep(j, S)
<1>3. ASSUME NEW h \in Hash, Receive(j, h) PROVE Goal
  <2>1. Spill({}) /\ FileStep(j, {}) /\ ThumbStep(j, {})
    BY <1>3 DEF Receive, FileStep, FileBy, ThumbStep, ThumbBy
  <2> QED BY <2>1
<1>4. ASSUME Put(j) PROVE Goal
  <2>1. Spill({}) /\ FileStep(j, {}) /\ ThumbStep(j, {})
    BY <1>4 DEF Put, FileStep, FileBy, ThumbStep, ThumbBy
  <2> QED BY <2>1
<1>5. ASSUME writeFileAtomic(j) PROVE Goal
  <2>1. Spill({}) /\ FileStep(j, {}) /\ ThumbStep(j, {})
    BY <1>5 DEF writeFileAtomic, FileStep, FileBy, ThumbStep, ThumbBy
  <2> QED BY <2>1
<1>6. ASSUME EnsureThumb(j) PROVE Goal
  <2>1. Spill({}) /\ FileStep(j, {}) /\ ThumbStep(j, {})
    BY <1>6 DEF EnsureThumb, FileStep, FileBy, ThumbStep, ThumbBy
  <2> QED BY <2>1
<1>7. ASSUME CreateAsset(j) PROVE Goal
  <2>1. Spill({}) /\ FileStep(j, {}) /\ ThumbStep(j, {})
    BY <1>7 DEF CreateAsset, FileStep, FileBy, ThumbStep, ThumbBy
  <2> QED BY <2>1
<1>8. ASSUME FailUpload(j) PROVE Goal
  <2> DEFINE S == {job[j].hash}
  <2>1. Spill(S) /\ FileStep(j, S) /\ ThumbStep(j, S)
    BY <1>8 DEF FailUpload, FileStep, FileBy, ThumbStep, ThumbBy
  <2> QED BY <2>1
<1>9. Goal
  BY <1>3, <1>4, <1>5, <1>6, <1>7, <1>8 DEF UploadStep
<1> HIDE DEF Goal
<1>10. PICK S : Spill(S) /\ FileStep(j, S) /\ ThumbStep(j, S)
  BY <1>9 DEF Goal
<1> QED BY <1>1, <1>2, <1>10, PiecesStep

\* The steps of a purge.
LEMMA PiecesPurge ==
    ASSUME Typed, Pieces, NEW j \in Job, PurgeStep(j)
    PROVE  Pieces'
<1> USE NullAssumption, RowsAssumption
    DEF Typed, TypeOK, Named, JobState, Idle, Uploads, Purges, disk, Finish
<1>1. \A i \in Job \ {j} : job'[i] = job[i]
  BY DEF PurgeStep, Purge, Unlink, UnlinkThumb, FailDelete, Answer
<1>2. OwnStep(j)
  <2>1. job[j].at # "write"
    <3>1. ASSUME NEW k \in [Hash -> 0..MaxRows], Purge(j, k) PROVE job[j].at = "idle"
      BY <3>1 DEF Purge
    <3>2. ASSUME NEW h \in Hash, Unlink(j, h) \/ FailDelete(j, h)
          PROVE  job[j].at \in Purges
      BY <3>2 DEF Unlink, FailDelete
    <3>3. CASE UnlinkThumb(j) \/ Answer(j)
      BY <3>3 DEF UnlinkThumb, Answer
    <3> QED BY <3>1, <3>2, <3>3 DEF PurgeStep
  <2>2. ASSUME NEW h \in Hash, Unlink(j, h)
        PROVE  bare' \subseteq bare /\ temps' \subseteq temps
    <3>1. CASE h \in files /\ files' = files \ {h} /\ UNCHANGED <<temps, bare>>
      BY <3>1
    <3>2. CASE \E t \in TempsOf(h) :
                 temps' \in {temps \ {t}} \cup (IF t[2] = NULL THEN {temps} ELSE {})
      BY <2>2, <3>2 DEF Unlink, RemoveResolved
    <3>3. CASE bare' = bare \ {h} /\ UNCHANGED <<files, temps>>
      BY <3>3
    <3> QED BY <2>2, <3>1, <3>2, <3>3 DEF Unlink, RemoveResolved
  <2>3. bare' \subseteq bare /\ temps' \subseteq temps
    BY <2>2 DEF PurgeStep, Purge, UnlinkThumb, FailDelete, Answer
  <2> QED BY <2>1, <2>3 DEF OwnStep, Pieces, OwnPieces
<1> DEFINE Goal == \E S : Spill(S) /\ FileStep(j, S) /\ ThumbStep(j, S)
<1>3. ASSUME NEW k \in [Hash -> 0..MaxRows], Purge(j, k) PROVE Goal
  <2>1. ASSUME NEW h \in Hash, rows'[h] = 0
        PROVE  rows[h] = 0 \/ (job'[j].at = "unlink" /\ h \in job'[j].gone)
    <3>1. PICK n \in Nat, m \in Nat : n = rows[h] /\ m = k[h] /\ rows'[h] = n - m
      BY <1>3 DEF Purge
    <3>2. rows[h] = k[h] /\ k[h] \in Nat
      BY <2>1, <3>1
    <3>3. job'[j].at = "unlink" /\ job'[j].gone = {g \in Hash : k[g] > 0 /\ rows[g] = k[g]}
      BY <1>3 DEF Purge
    <3> QED BY <3>2, <3>3
  <2>2. job[j] = Idle /\ files' = files /\ thumbs' = thumbs
    BY <1>3 DEF Purge
  <2>3. FileStep(j, {}) /\ ThumbStep(j, {})
    BY <2>1, <2>2 DEF FileStep, FileBy, ThumbStep, ThumbBy
  <2> QED BY <1>3, <2>3 DEF Purge
<1>4. ASSUME NEW h \in Hash, Unlink(j, h) PROVE Goal
  <2>1. /\ job[j].at = "unlink"
        /\ job'[j] = [at |-> "unthumb", hash |-> h, gone |-> job[j].gone \ {h}]
        /\ rows' = rows /\ thumbs' = thumbs
    BY <1>4 DEF Unlink
  <2>4. files' = files \ {h}
    BY <1>4 DEF Unlink, RemoveResolved
  <2>2. FileStep(j, {})
    BY <2>1, <2>4 DEF FileStep, FileBy
  <2>3. ThumbStep(j, {})
    BY <2>1 DEF ThumbStep, ThumbBy
  <2> QED BY <1>4, <2>2, <2>3 DEF Unlink
<1>5. ASSUME UnlinkThumb(j) PROVE Goal
  <2>1. Spill({}) /\ FileStep(j, {}) /\ ThumbStep(j, {})
    BY <1>5 DEF UnlinkThumb, FileStep, FileBy, ThumbStep, ThumbBy
  <2> QED BY <2>1
<1>6. ASSUME NEW h \in Hash, FailDelete(j, h) PROVE Goal
  <2>1. Spill({h}) /\ FileStep(j, {h}) /\ ThumbStep(j, {h})
    BY <1>6 DEF FailDelete, FileStep, FileBy, ThumbStep, ThumbBy
  <2> QED BY <2>1
<1>7. ASSUME Answer(j) PROVE Goal
  <2>1. Spill({}) /\ FileStep(j, {}) /\ ThumbStep(j, {})
    BY <1>7 DEF Answer, FileStep, FileBy, ThumbStep, ThumbBy
  <2> QED BY <2>1
<1>8. Goal
  BY <1>3, <1>4, <1>5, <1>6, <1>7 DEF PurgeStep
<1> HIDE DEF Goal
<1>9. PICK S : Spill(S) /\ FileStep(j, S) /\ ThumbStep(j, S)
  BY <1>8 DEF Goal
<1> QED BY <1>1, <1>2, <1>9, PiecesStep

\* What a stop leaves is the history's.
LEMMA PiecesRestart ==
    ASSUME Typed, Pieces, NEW S \in SUBSET bare, Restart(S)
    PROVE  Pieces'
<1> USE NullAssumption DEF Pieces, OldPieces, OwnPieces, FilePieces, ThumbPieces,
        Typed, TypeOK, Restart
<1>1. ASSUME NEW h \in Hash, Loose(h)' PROVE h \in spilt'
  BY <1>1, SpiltStays
<1> QED BY <1>1 DEF Loose

\* Somebody who answers for a file is at work on it.
LEMMA PiecesNoLeak == Typed /\ Pieces => NoLeak
<1> SUFFICES ASSUME Typed, Pieces, NEW h \in Hash, Loose(h), h \notin spilt
             PROVE  Uploading(h) \/ Purging(h)
  BY DEF NoLeak
<1> USE DEF Pieces, Uploading, Purging, Uploads, Purges
<1>1. h \notin bare /\ <<h, NULL>> \notin temps
  BY DEF OldPieces
<1>2. CASE rows[h] = 0 /\ h \in files
  BY <1>2 DEF FilePieces, FileBy
<1>3. CASE rows[h] = 0 /\ h \in thumbs
  BY <1>3 DEF ThumbPieces, ThumbBy
<1>4. CASE TempsOf(h) # {}
  <2>1. PICK t \in temps : t[1] = h
    BY <1>4 DEF TempsOf
  <2>2. PICK i \in Job \cup {NULL} : t = <<h, i>>
    BY <2>1 DEF Typed, TypeOK
  <2>3. i \in Job /\ <<h, i>> \in temps
    BY <1>1, <2>1, <2>2
  <2> QED BY <2>3 DEF OwnPieces
<1> QED BY <1>1, <1>2, <1>3, <1>4 DEF Loose

-----------------------------------------------------------------------------
(* The theorems                                                             *)

\* Types and bytes together survive every step of every request, every failure and
\* every restart.
THEOREM Inductive == Spec => [](Typed /\ Kept)
<1>1. Init => Typed /\ Kept
  BY TypedInit, KeptInit
<1>2. Typed /\ Kept /\ [Next]_vars => (Typed /\ Kept)'
  <2> SUFFICES ASSUME Typed, Kept, [Next]_vars PROVE Typed' /\ Kept'
    OBVIOUS
  <2>1. ASSUME NEW j \in Job, UploadStep(j) PROVE Typed' /\ Kept'
    BY <2>1, TypedUpload, KeptUpload
  <2>2. ASSUME NEW j \in Job, PurgeStep(j) PROVE Typed' /\ Kept'
    BY <2>2, TypedPurge, KeptPurge
  <2>3. ASSUME NEW S \in SUBSET bare, Restart(S) PROVE Typed' /\ Kept'
    BY <2>3, TypedRestart, KeptRestart
  <2>4. CASE UNCHANGED vars
    BY <2>4 DEF vars, disk, Typed, TypeOK, Named, Kept, BytesKept, UploadKept,
                PurgeRaced, Purging, Used, Uploading
  <2> QED BY <2>1, <2>2, <2>3, <2>4 DEF Next
<1> QED BY <1>1, <1>2, PTL DEF Spec

\* Every variable of the store of bytes keeps its type, whatever the number of
\* contents, requests and rows.
THEOREM TypeCorrect == Spec => []TypeOK
BY Inductive, PTL DEF Typed

\* The bytes of every photo row are on disk, whatever the number of contents and of
\* requests, unless an upload and a purge of the same content overlapped: without the
\* race the finding shows, blob.go loses nothing.
THEOREM BytesAreKept == Spec => []BytesKept
BY Inductive, PTL DEF Kept
\* So is the thumbnail of every content that has one, although blob.go may find the
\* bytes of an upload there and write nothing.
THEOREM ThumbnailsAreKept == Spec => []ThumbKept
<1>1. Init => Shown
  BY ImageAssumption DEF Init, Shown, ThumbKept, UploadThumb, Idle
<1>2. Typed /\ Kept /\ Shown /\ [Next]_vars => Shown'
  <2> SUFFICES ASSUME Typed, Kept, Shown, [Next]_vars PROVE Shown'
    OBVIOUS
  <2>1. CASE UNCHANGED vars
    BY <2>1 DEF vars, disk, Shown, ThumbKept, UploadThumb
  <2> QED BY <2>1, ShownUpload, ShownPurge, ShownRestart DEF Next
<1> QED BY <1>1, <1>2, Inductive, PTL DEF Spec, Shown

\* A file no photo row accounts for is being uploaded or purged, or a failure or a stop
\* left it: requests of blob.go and api.go that run to their end leave nothing behind,
\* in any order and in any number, purges that race with uploads included.
THEOREM NothingLeaks == Spec => []NoLeak
<1>1. Typed /\ Pieces /\ [Next]_vars => Pieces'
  <2> SUFFICES ASSUME Typed, Pieces, [Next]_vars PROVE Pieces'
    OBVIOUS
  <2>1. CASE UNCHANGED vars
    BY <2>1 DEF vars, disk, Pieces, OldPieces, OwnPieces, FilePieces, FileBy,
                ThumbPieces, ThumbBy
  <2> QED BY <2>1, PiecesUpload, PiecesPurge, PiecesRestart DEF Next
<1> QED BY <1>1, PiecesInit, PiecesNoLeak, Inductive, PTL DEF Spec
=============================================================================
