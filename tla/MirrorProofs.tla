---------------------------- MODULE MirrorProofs ----------------------------
(***************************************************************************)
(* Proofs about module Mirror, for any gallery, any photos and any number of *)
(* faults and events, where the screens upload nothing while a pass runs: a   *)
(* run of the mirror is a run of what module Backup promises.  The reason is   *)
(* what a pass knows while it prunes: an entry it goes through belonged to an  *)
(* item that was missing from the scan it started with, and nothing enters     *)
(* the index meanwhile.                                                       *)
(***************************************************************************)
EXTENDS Mirror, SequenceTheorems, TLAPS

Phases == {"idle", "upload", "prune", "tombs", "pull"}

Types ==
    /\ gallery \in [Key -> Content \cup {NULL}]
    /\ bytes \in [Photo -> Content \cup {NULL}]
    /\ where \in [Photo -> {"none", "album", "bin", "purged"}]
    /\ news \in SUBSET Photo
    /\ index \in [Key -> Photo \cup {NULL}]
    /\ pins \in SUBSET Photo
    /\ tombs \in Seq(Photo)
    /\ disk \in [index : [Key -> Photo \cup {NULL}], pins : SUBSET pins, tombs : Seq(Photo)]
    /\ pass \in [at : Phases, live : [Key -> Content \cup {NULL}], whole : BOOLEAN,
                 todo : SUBSET Key, was : [Key -> Photo \cup {NULL}], claimed : SUBSET Photo,
                 pos : Nat, rest : Seq(Photo)]
    /\ pass.at = "prune" => \A k \in pass.todo : pass.was[k] \in Photo
    /\ call \in [Actor -> Call]
    /\ \A a \in Actor :
          /\ call[a].op \in {"delete", "move", "pin"} => call[a].photo \in Photo
          /\ call[a].op \in {"find", "send"} => call[a].key \in Key /\ call[a].bytes \in Content
    /\ faults \in 0..MaxFaults
    /\ deleted \in SUBSET Photo

\* A step without what it does to events and to released.
Act ==
    \/ Scan(TRUE) \/ Scan(FALSE) \/ AppStep \/ UserStep

LEMMA NullNoPhoto == NULL \notin Photo
BY NullAssumption DEF Photo

LEMMA AppendType == \A p \in Photo, s \in Seq(Photo) : Append(s, p) \in Seq(Photo)
BY AppendProperties

LEMMA QueueType == ASSUME Types, NEW p \in Photo PROVE Queue(p) \in Seq(Photo)
BY AppendType DEF Types, Queue

LEMMA TrashingType ==
    ASSUME Types, NEW p \in Photo, Trashing(p)
    PROVE  /\ bytes' = bytes /\ news' \in SUBSET Photo
           /\ where' \in [Photo -> {"none", "album", "bin", "purged"}]
BY DEF Types, Trashing

\* Entries go one by one.
Shrinks == /\ index' \in [Key -> Photo \cup {NULL}]
           /\ \A k \in Key : index'[k] \in {index[k], NULL}

LEMMA EraseShrinks ==
    ASSUME Types, NEW p \in Photo, erase_index_by_cloud_id(p) \/ UNCHANGED index
    PROVE  Shrinks
BY DEF Types, erase_index_by_cloud_id, Shrinks

LEMMA EraseEntryShrinks ==
    ASSUME Types, NEW k \in Key, erase_index_entry(k) \/ UNCHANGED index
    PROVE  Shrinks
BY DEF Types, erase_index_entry, Shrinks

LEMMA PersistType ==
    ASSUME Types, Persist, index' \in [Key -> Photo \cup {NULL}], pins' \in SUBSET Photo,
           pins \subseteq pins', tombs' \in Seq(Photo)
    PROVE  disk' \in [index : [Key -> Photo \cup {NULL}], pins : SUBSET pins', tombs : Seq(Photo)]
BY DEF Types, Persist

LEMMA AnsweredType ==
    ASSUME Types, NEW a \in Actor, Answered(a)
    PROVE  /\ call' \in [Actor -> Call] /\ call'[a] = Idle
           /\ \A b \in Actor \ {a} : call'[b] = call[b]
BY DEF Types, Answered, Idle, Call

LEMMA RequestType ==
    ASSUME Types, NEW a \in Actor, NEW r \in Call, Request(a, r)
    PROVE  /\ call' \in [Actor -> Call] /\ call'[a] = r
           /\ \A b \in Actor \ {a} : call'[b] = call[b]
BY DEF Types, Request

\* Every step keeps the types.
LEMMA TypesStep ==
    ASSUME Types, Act
    PROVE  Types'
<1> USE NullAssumption, NullNoPhoto, FaultsAssumption, EmptySeq DEF Types, Phases, Call, Actor,
Idle, store, cloud
<1>1. ASSUME NEW shown \in SUBSET Present(gallery), NEW w \in BOOLEAN, run_sync(shown,
w) PROVE Types'
  BY <1>1 DEF run_sync, NoPass, Present
<1>2. ASSUME NEW k \in Key, SkipItem(k) PROVE Types'
  BY <1>2 DEF SkipItem
<1>3. ASSUME NEW k \in Key, BackUpItem(k) PROVE Types'
  BY <1>3 DEF BackUpItem, Stage, Request
<1>4. CASE BeginPrune
  <2>1. /\ pass' \in [at : Phases, live : [Key -> Content \cup {NULL}], whole : BOOLEAN,
                 todo : SUBSET Key, was : [Key -> Photo \cup {NULL}], claimed : SUBSET Photo,
                 pos : Nat, rest : Seq(Photo)]
        /\ pass'.at = "prune" => \A k \in pass'.todo : pass'.was[k] \in Photo
    <3>1. CASE pass' = [NoPass EXCEPT !.at = TombPhase]
      BY <3>1 DEF NoPass, TombPhase
    <3>2. CASE pass' = [pass EXCEPT !.at = "prune", !.todo = Present(index) \ Live,
                          !.was = [k \in Key |-> IF k \in Live THEN NULL ELSE index[k]],
                          !.claimed = {index[k] : k \in Live} \ {NULL}]
      <4>1. Live \in SUBSET Key /\ Present(index) \in SUBSET Key
        BY DEF Live, Present
      <4>2. {index[k] : k \in Live} \ {NULL} \in SUBSET Photo
        BY <4>1
      <4>3. [k \in Key |-> IF k \in Live THEN NULL ELSE index[k]] \in [Key -> Photo \cup {NULL}]
        OBVIOUS
      <4>4. \A k \in Present(index) \ Live : index[k] \in Photo /\ k \in Key
        BY <4>1 DEF Present
      <4> QED BY <3>2, <4>1, <4>2, <4>3, <4>4
    <3> QED BY <1>4, <3>1, <3>2 DEF BeginPrune
  <2>2. UNCHANGED <<gallery, cloud, store, call, faults, deleted>>
    BY <1>4 DEF BeginPrune
  <2>3. disk' \in {disk, Written}
    BY <1>4 DEF BeginPrune, EndBatch
  <2> QED BY <2>1, <2>2, <2>3 DEF Written
<1>5. ASSUME NEW k \in Key, DropEntry(k) PROVE Types'
  BY <1>5 DEF DropEntry, erase_index_entry
<1>6. ASSUME NEW k \in Key, PrunePhoto(k) PROVE Types'
  BY <1>6 DEF PrunePhoto, Request, Entry
<1>7. CASE Pruned
  <2>0. call["pass"].photo \in Photo /\ call["pass"].key \in Key \cup {NULL}
    BY <1>7 DEF Pruned
  <2>1. call' \in [Actor -> Call] /\ call'["pass"] = Idle /\ call'["menu"] = call["menu"]
    BY <1>7, AnsweredType DEF Pruned
  <2>2. /\ bytes' = bytes /\ news' \in SUBSET Photo
        /\ where' \in [Photo -> {"none", "album", "bin", "purged"}]
    BY <1>7, <2>0, TrashingType DEF Pruned
  <2>3. index' \in [Key -> Photo \cup {NULL}]
    BY <1>7 DEF Pruned, erase_index_entry
  <2> QED BY <1>7, <2>1, <2>2, <2>3 DEF Pruned, Fault
<1>8. CASE BeginTombs
  BY <1>8 DEF BeginTombs, EndBatch, Written, NoPass, TombPhase
<1>9. CASE RetryTomb
  <2>1. tombs[pass.pos + 1] \in Photo /\ pass.pos + 1 \in Nat
    <3>1. pass.pos + 1 \in 1..Len(tombs)
      BY <1>9, LenProperties DEF RetryTomb
    <3> QED BY <3>1, ElementOfSeq
  <2>2. [op |-> "delete", key |-> NULL, bytes |-> NULL, photo |-> tombs[pass.pos + 1]] \in Call
    BY <2>1
  <2>3. /\ call' \in [Actor -> Call] /\ call'["menu"] = call["menu"]
        /\ call'["pass"] = [op |-> "delete", key |-> NULL, bytes |-> NULL, photo |-> tombs[pass.pos + 1]]
    BY <1>9, <2>2, RequestType DEF RetryTomb
  <2>4. UNCHANGED <<gallery, cloud, store, disk, faults, deleted>>
    BY <1>9 DEF RetryTomb
  <2>5. pass' = [pass EXCEPT !.pos = pass.pos + 1] /\ pass.at = "tombs"
    BY <1>9 DEF RetryTomb
  <2>6. /\ pass' \in [at : Phases, live : [Key -> Content \cup {NULL}], whole : BOOLEAN,
                 todo : SUBSET Key, was : [Key -> Photo \cup {NULL}], claimed : SUBSET Photo,
                 pos : Nat, rest : Seq(Photo)]
        /\ pass'.at = "tombs"
    BY <2>1, <2>5
  <2> QED BY <2>1, <2>3, <2>4, <2>6
<1>10. CASE TombAnswered
  <2> DEFINE p == call["pass"].photo
  <2>0. p \in Photo
    BY <1>10 DEF TombAnswered
  <2>1. call' \in [Actor -> Call] /\ call'["pass"] = Idle /\ call'["menu"] = call["menu"]
    BY <1>10, AnsweredType DEF TombAnswered
  <2>2. /\ bytes' = bytes /\ news' \in SUBSET Photo
        /\ where' \in [Photo -> {"none", "album", "bin", "purged"}]
    BY <1>10, <2>0, TrashingType DEF TombAnswered
  <2>3. index' \in [Key -> Photo \cup {NULL}]
    <3>1. erase_index_by_cloud_id(p) \/ UNCHANGED index
      BY <1>10 DEF TombAnswered
    <3> QED BY <2>0, <3>1, EraseShrinks DEF Shrinks
  <2>4. pass.at = "tombs" /\ (pass' = pass \/ pass' = [pass EXCEPT !.rest = Append(pass.rest,
  p)])
    BY <1>10 DEF TombAnswered
  <2>5. UNCHANGED <<gallery, pins, tombs, disk, deleted>> /\ faults' \in 0..MaxFaults
    BY <1>10 DEF TombAnswered, Fault
  <2>6. Append(pass.rest, p) \in Seq(Photo)
    BY <2>0, AppendType
  <2> HIDE DEF p
  <2>7. /\ pass' \in [at : Phases, live : [Key -> Content \cup {NULL}], whole : BOOLEAN,
                 todo : SUBSET Key, was : [Key -> Photo \cup {NULL}], claimed : SUBSET Photo,
                 pos : Nat, rest : Seq(Photo)]
        /\ pass'.at = "tombs"
    BY <2>4, <2>6
  <2> QED BY <2>1, <2>2, <2>3, <2>5, <2>7
<1>11. CASE EndTombs
  BY <1>11 DEF EndTombs, NoPass, EndBatch, Written
<1>12. CASE pull_changes
  <2>1. index' \in [Key -> Photo \cup {NULL}]
    BY <1>12 DEF pull_changes
  <2>2. UNCHANGED <<gallery, bytes, where, pins, tombs, call,
  deleted>> /\ faults' \in 0..MaxFaults
    BY <1>12 DEF pull_changes, Fault
  <2>3. disk' \in [index : [Key -> Photo \cup {NULL}], pins : SUBSET pins', tombs : Seq(Photo)]
    BY <1>12, <2>1, <2>2, PersistType DEF pull_changes
  <2>4. pass' = NoPass /\ news' \in SUBSET Photo
    BY <1>12 DEF pull_changes
  <2> QED BY <2>1, <2>2, <2>3, <2>4 DEF NoPass
<1>13. ASSUME NEW a \in Actor, Found(a) PROVE Types'
  <2>5. call[a].op = "find" /\ call[a] \in Call
    BY <1>13 DEF Found
  <2>0. /\ call[a].key \in Key /\ call[a].bytes \in Content
        /\ [call[a] EXCEPT !.op = "send"] \in Call
        /\ [call[a] EXCEPT !.op = "send"].op = "send"
        /\ [call[a] EXCEPT !.op = "send"].key = call[a].key
        /\ [call[a] EXCEPT !.op = "send"].bytes = call[a].bytes
    BY <2>5
  <2>1. /\ call' \in [Actor -> Call]
        /\ call'[a] \in {Idle, [call[a] EXCEPT !.op = "send"]}
        /\ \A b \in Actor \ {a} : call'[b] = call[b]
    BY <1>13, <2>0, AnsweredType, RequestType DEF Found
  <2>2. index' \in [Key -> Photo \cup {NULL}]
    BY <1>13 DEF Found, ByHash, upsert_index_entry
  <2>3. UNCHANGED <<gallery, cloud, pins, tombs, pass, deleted>> /\ faults' \in 0..MaxFaults
    BY <1>13 DEF Found, Fault
  <2>4. disk' \in [index : [Key -> Photo \cup {NULL}], pins : SUBSET pins', tombs : Seq(Photo)]
    BY <1>13, <2>2, <2>3, PersistType DEF Found
  <2> QED BY <2>0, <2>1, <2>2, <2>3, <2>4, <2>5
<1>14. ASSUME NEW a \in Actor, Sent(a) PROVE Types'
  <2>0. call[a].bytes \in Content
    BY <1>14 DEF Sent
  <2>1. call' \in [Actor -> Call] /\ call'[a] = Idle /\ \A b \in Actor \ {a} : call'[b] = call[b]
    BY <1>14, AnsweredType DEF Sent
  <2>5. ASSUME \E p \in Unmade :
                /\ bytes' = [bytes EXCEPT ![p] = call[a].bytes]
                /\ where' = [where EXCEPT ![p] = "album"]
                /\ upsert_index_entry(call[a].key, p) \/ UNCHANGED index
        PROVE  /\ index' \in [Key -> Photo \cup {NULL}]
               /\ bytes' \in [Photo -> Content \cup {NULL}]
               /\ where' \in [Photo -> {"none", "album", "bin", "purged"}]
    BY <2>0, <2>5 DEF Unmade, upsert_index_entry
  <2>2. /\ index' \in [Key -> Photo \cup {NULL}]
        /\ bytes' \in [Photo -> Content \cup {NULL}]
        /\ where' \in [Photo -> {"none", "album", "bin", "purged"}]
    BY <1>14, <2>5 DEF Sent
  <2>3. UNCHANGED <<gallery, news, pins, tombs, pass, deleted>> /\ faults' \in 0..MaxFaults
    BY <1>14 DEF Sent, Fault
  <2>4. disk' \in [index : [Key -> Photo \cup {NULL}], pins : SUBSET pins', tombs : Seq(Photo)]
    BY <1>14, <2>2, <2>3, PersistType DEF Sent
  <2> QED BY <2>1, <2>2, <2>3, <2>4
<1>15. CASE Deleted
  <2> DEFINE p == call["menu"].photo
  <2>0. p \in Photo
    BY <1>15 DEF Deleted
  <2>1. call' \in [Actor -> Call] /\ call'["menu"] = Idle /\ call'["pass"] = call["pass"]
    BY <1>15, AnsweredType DEF Deleted
  <2>2. /\ bytes' = bytes /\ news' \in SUBSET Photo
        /\ where' \in [Photo -> {"none", "album", "bin", "purged"}]
    BY <1>15, <2>0, TrashingType DEF Deleted
  <2>3. index' \in [Key -> Photo \cup {NULL}]
    <3>1. erase_index_by_cloud_id(p) \/ UNCHANGED index
      BY <1>15 DEF Deleted, tombstone_delete
    <3> QED BY <2>0, <3>1, EraseShrinks DEF Shrinks
  <2>4. tombs' \in Seq(Photo)
    BY <1>15, <2>0, QueueType DEF Deleted, tombstone_delete
  <2>5. UNCHANGED <<gallery, pins, pass, deleted>> /\ faults' \in 0..MaxFaults
    BY <1>15 DEF Deleted, Fault
  <2>6. disk' \in [index : [Key -> Photo \cup {NULL}], pins : SUBSET pins', tombs : Seq(Photo)]
    BY <1>15, <2>3, <2>4, <2>5, PersistType DEF Deleted
  <2> HIDE DEF p
  <2> QED BY <2>1, <2>2, <2>3, <2>4, <2>5, <2>6
<1>16. CASE Moved
  <2> DEFINE p == call["menu"].photo
  <2>0. p \in Photo
    BY <1>16 DEF Moved
  <2>1. call' \in [Actor -> Call] /\ call'["menu"] = Idle /\ call'["pass"] = call["pass"]
    BY <1>16, AnsweredType DEF Moved
  <2>2. /\ bytes' = bytes /\ news' \in SUBSET Photo
        /\ where' \in [Photo -> {"none", "album", "bin", "purged"}]
    BY <1>16, <2>0, TrashingType DEF Moved
  <2>3. index' \in [Key -> Photo \cup {NULL}]
    <3>1. erase_index_by_cloud_id(p) \/ UNCHANGED index
      BY <1>16 DEF Moved, tombstone_delete
    <3> QED BY <2>0, <3>1, EraseShrinks DEF Shrinks
  <2>4. tombs' \in Seq(Photo)
    BY <1>16, <2>0, QueueType DEF Moved, tombstone_delete
  <2>5. UNCHANGED <<gallery, pins, pass, deleted>> /\ faults' \in 0..MaxFaults
    BY <1>16 DEF Moved, Fault
  <2>6. disk' \in [index : [Key -> Photo \cup {NULL}], pins : SUBSET pins', tombs : Seq(Photo)]
    BY <1>16, <2>3, <2>4, <2>5, PersistType DEF Moved
  <2> HIDE DEF p
  <2> QED BY <2>1, <2>2, <2>3, <2>4, <2>5, <2>6
<1>17. CASE set_kept
  <2>0. call["menu"].photo \in Photo
    BY <1>17 DEF set_kept
  <2>1. call' \in [Actor -> Call] /\ call'["menu"] = Idle /\ call'["pass"] = call["pass"]
    BY <1>17, AnsweredType DEF set_kept
  <2>2. pins \subseteq pins' /\ pins' \in SUBSET Photo
    BY <1>17, <2>0 DEF set_kept
  <2>3. disk' \in [index : [Key -> Photo \cup {NULL}], pins : SUBSET pins', tombs : Seq(Photo)]
    BY <1>17, <2>2, PersistType DEF set_kept
  <2> QED BY <1>17, <2>1, <2>2, <2>3 DEF set_kept
<1>18. ASSUME NEW k \in Key, upload_device_item(k) PROVE Types'
  BY <1>18 DEF upload_device_item, Stage, Request
<1>19. ASSUME NEW k \in Key, FreeItem(k) PROVE Types'
  BY <1>19 DEF FreeItem, Request
<1>20. ASSUME NEW k \in Key, RemoveItem(k) PROVE Types'
  BY <1>20 DEF RemoveItem
<1>21. ASSUME NEW k \in Key, NEW c \in Content, AddItem(k, c) PROVE Types'
  BY <1>21 DEF AddItem
<1>22. ASSUME NEW p \in Photo, delete_assets(p) PROVE Types'
  BY <1>22 DEF delete_assets, Request
<1>23. ASSUME NEW p \in Photo, Elsewhere(p) PROVE Types'
  BY <1>23 DEF Elsewhere, Trashing
<1>24. ASSUME NEW p \in Photo, NEW k \in Key, export_assets_to_device(p, k) PROVE Types'
  BY <1>24 DEF export_assets_to_device, Request
<1>25. CASE sync_cloud
  BY <1>25 DEF sync_cloud, NoPass, TombPhase
<1>26. CASE flush
  BY <1>26 DEF flush, Written
<1>27. CASE Kill
  <2>1. index' = disk.index /\ pins' = disk.pins /\ tombs' = disk.tombs /\ disk' = disk
    BY <1>27 DEF Kill
  <2>2. disk' \in [index : [Key -> Photo \cup {NULL}], pins : SUBSET pins', tombs : Seq(Photo)]
    BY <2>1
  <2>3. pass' = NoPass /\ call' = [a \in Actor |-> Idle]
    BY <1>27 DEF Kill
  <2>4. UNCHANGED <<gallery, cloud, deleted>> /\ faults' \in 0..MaxFaults
    BY <1>27 DEF Kill, Fault
  <2> QED BY <2>1, <2>2, <2>3, <2>4 DEF NoPass
<1> QED
  BY <1>1, <1>2, <1>3, <1>4, <1>5, <1>6, <1>7, <1>8, <1>9, <1>10, <1>11, <1>12, <1>13, <1>14,
      <1>15, <1>16, <1>17, <1>18, <1>19, <1>20, <1>21, <1>22, <1>23, <1>24, <1>25, <1>26,
      <1>27 DEF Act, PassStep, MenuStep, AppStep, UserStep, Scan

-----------------------------------------------------------------------------
(* What a pass is doing, and what it spares                                    *)

\* Whose requests are under way in which phase.
Course ==
    /\ pass.at \in {"idle", "pull"} => call["pass"] = Idle
    /\ call["pass"].op \in {"none", "find", "send", "delete"}
    /\ call["pass"].op \in {"find", "send"} => pass.at = "upload" /\ call["pass"].key \in Live
    /\ call["pass"].op = "delete" => pass.at \in {"prune", "tombs"}
    /\ pass.at \in {"upload", "prune"} => call["menu"].op \notin {"find", "send"}
    /\ pass.at = "upload" => pass.todo \subseteq Live

\* What is queued or on its way from a screen was deleted by a user.
Asked ==
    /\ tombs \in Seq(deleted) /\ disk.tombs \in Seq(deleted) /\ pass.rest \in Seq(deleted)
    /\ call["menu"].op \in {"delete", "move"} => call["menu"].photo \in deleted
    /\ pass.at = "tombs" /\ call["pass"].op = "delete" => call["pass"].photo \in deleted

\* After a whole scan, what is the backup of no item of the scan is released; when
\* pruning, what is the backup of one is claimed.
Spare ==
    /\ pass.at = "upload" /\ pass.whole =>
          \A k \in Key \ Live : index[k] \in released \cup {NULL}
    /\ pass.at = "prune" =>
          /\ \A k \in pass.todo : /\ pass.was[k] \in released
                                 /\ index[k] \in released \cup {NULL}
          /\ \A k \in Live : index[k] \in pass.claimed \cup {NULL}
          /\ call["pass"].op = "delete" => call["pass"].photo \notin pass.claimed \cup {NULL}

\* Every step keeps to the course.
LEMMA CourseStep ==
    ASSUME ~Overlap, Types, Course, Act
    PROVE  Course'
<1> USE OverlapAssumption, NullNoPhoto DEF Course, Live, Types, Phases, Call, Actor, Idle,
Present, store, cloud
<1>1. ASSUME NEW shown \in SUBSET Present(gallery), NEW w \in BOOLEAN, run_sync(shown,
w) PROVE Course'
  BY <1>1 DEF run_sync, NoPass, Present
<1>2. ASSUME NEW k \in Key, SkipItem(k) PROVE Course'
  BY <1>2 DEF SkipItem
<1>3. ASSUME NEW k \in Key, BackUpItem(k) PROVE Course'
  BY <1>3 DEF BackUpItem, Stage, Request
<1>4. CASE BeginPrune
  BY <1>4 DEF BeginPrune, EndBatch, Written, NoPass, TombPhase, Present, Live
<1>5. ASSUME NEW k \in Key, DropEntry(k) PROVE Course'
  BY <1>5 DEF DropEntry, erase_index_entry
<1>6. ASSUME NEW k \in Key, PrunePhoto(k) PROVE Course'
  BY <1>6 DEF PrunePhoto, Request, Entry
<1>7. CASE Pruned
  BY <1>7 DEF Pruned, Trashing, erase_index_entry, Fault, Answered
<1>8. CASE BeginTombs
  BY <1>8 DEF BeginTombs, EndBatch, Written, NoPass, TombPhase
<1>9. CASE RetryTomb
  BY <1>9 DEF RetryTomb, Request
<1>10. CASE TombAnswered
  BY <1>10 DEF TombAnswered, Trashing, erase_index_by_cloud_id, Fault, Answered
<1>11. CASE EndTombs
  BY <1>11 DEF EndTombs, NoPass, EndBatch, Written
<1>12. CASE pull_changes
  BY <1>12 DEF pull_changes, NoPass, Persist, Fault
<1>13. ASSUME NEW a \in Actor, Found(a) PROVE Course'
  <2>5. call[a].op = "find" /\ call[a] \in Call
    BY <1>13 DEF Found
  <2>0. /\ [call[a] EXCEPT !.op = "send"] \in Call
        /\ [call[a] EXCEPT !.op = "send"].op = "send"
        /\ [call[a] EXCEPT !.op = "send"].key = call[a].key
    BY <2>5
  <2>1. /\ call'[a] \in {Idle, [call[a] EXCEPT !.op = "send"]}
        /\ \A b \in Actor \ {a} : call'[b] = call[b]
    BY <1>13, <2>0, AnsweredType, RequestType DEF Found
  <2>2. pass' = pass
    BY <1>13 DEF Found
  <2>3. CASE a = "pass"
    <3>1. call'["menu"] = call["menu"] /\ pass.at = "upload" /\ call["pass"].key \in Live
      BY <2>1, <2>3, <2>5
    <3>2. CASE call'["pass"] = Idle
      BY <2>2, <3>1, <3>2
    <3>3. CASE call'["pass"] = [call["pass"] EXCEPT !.op = "send"]
      BY <2>0, <2>2, <2>3, <3>1, <3>3
    <3> QED BY <2>1, <2>3, <3>2, <3>3
  <2>4. CASE a = "menu"
    BY <2>0, <2>1, <2>2, <2>4, <2>5
  <2> QED BY <2>3, <2>4
<1>14. ASSUME NEW a \in Actor, Sent(a) PROVE Course'
  BY <1>14 DEF Sent, Unmade, upsert_index_entry, Answered, Fault, Persist
<1>15. CASE Deleted
  BY <1>15
  DEF Deleted, Trashing, erase_index_by_cloud_id, tombstone_delete, Queue, Fault, Answered,
      Persist
<1>16. CASE Moved
  BY <1>16 DEF Moved, Trashing, erase_index_by_cloud_id, Fault, Answered, Persist
<1>17. CASE set_kept
  BY <1>17 DEF set_kept, Answered, Persist
<1>18. ASSUME NEW k \in Key, upload_device_item(k) PROVE Course'
  BY <1>18 DEF upload_device_item, Stage, Request
<1>19. ASSUME NEW k \in Key, FreeItem(k) PROVE Course'
  BY <1>19 DEF FreeItem, Request
<1>20. ASSUME NEW k \in Key, RemoveItem(k) PROVE Course'
  BY <1>20 DEF RemoveItem
<1>21. ASSUME NEW k \in Key, NEW c \in Content, AddItem(k, c) PROVE Course'
  BY <1>21 DEF AddItem
<1>22. ASSUME NEW p \in Photo, delete_assets(p) PROVE Course'
  BY <1>22 DEF delete_assets, Request
<1>23. ASSUME NEW p \in Photo, Elsewhere(p) PROVE Course'
  BY <1>23 DEF Elsewhere, Trashing
<1>24. ASSUME NEW p \in Photo, NEW k \in Key, export_assets_to_device(p, k) PROVE Course'
  BY <1>24 DEF export_assets_to_device, Request
<1>25. CASE sync_cloud
  BY <1>25 DEF sync_cloud, NoPass, TombPhase
<1>26. CASE flush
  BY <1>26 DEF flush, Written
<1>27. CASE Kill
  BY <1>27 DEF Kill, Fault, NoPass
<1> QED
  BY <1>1, <1>2, <1>3, <1>4, <1>5, <1>6, <1>7, <1>8, <1>9, <1>10, <1>11, <1>12, <1>13, <1>14,
      <1>15, <1>16, <1>17, <1>18, <1>19, <1>20, <1>21, <1>22, <1>23, <1>24, <1>25, <1>26,
      <1>27 DEF Act, PassStep, MenuStep, AppStep, UserStep, Scan

\* Every step keeps to what was asked for.
LEMMA AskedStep ==
    ASSUME Types, Course, Asked, Act
    PROVE  Asked'
<1> USE EmptySeq, SeqMonotonic DEF Course, Asked, Types, Phases, Call, Actor, Idle, Present,
store, cloud
<1>1. ASSUME NEW shown \in SUBSET Present(gallery), NEW w \in BOOLEAN, run_sync(shown,
w) PROVE Asked'
  BY <1>1 DEF run_sync, NoPass, Present
<1>2. ASSUME NEW k \in Key, SkipItem(k) PROVE Asked'
  BY <1>2 DEF SkipItem
<1>3. ASSUME NEW k \in Key, BackUpItem(k) PROVE Asked'
  BY <1>3 DEF BackUpItem, Stage, Request
<1>4. CASE BeginPrune
  BY <1>4 DEF BeginPrune, EndBatch, Written, NoPass, TombPhase, Present, Live
<1>5. ASSUME NEW k \in Key, DropEntry(k) PROVE Asked'
  BY <1>5 DEF DropEntry, erase_index_entry
<1>6. ASSUME NEW k \in Key, PrunePhoto(k) PROVE Asked'
  BY <1>6 DEF PrunePhoto, Request, Entry
<1>7. CASE Pruned
  BY <1>7 DEF Pruned, Trashing, erase_index_entry, Fault, Answered
<1>8. CASE BeginTombs
  BY <1>8 DEF BeginTombs, EndBatch, Written, NoPass, TombPhase
<1>9. CASE RetryTomb
  BY <1>9 DEF RetryTomb, Request
<1>10. CASE TombAnswered
  <2> DEFINE p == call["pass"].photo
  <2>1. p \in deleted /\ p \in Photo
    BY <1>10 DEF TombAnswered
  <2>2. call'["pass"] = Idle /\ call'["menu"] = call["menu"]
    BY <1>10, AnsweredType DEF TombAnswered
  <2>3. UNCHANGED <<tombs, disk, deleted>>
    BY <1>10 DEF TombAnswered
  <2>4. Append(pass.rest, p) \in Seq(deleted)
    BY <2>1, AppendProperties
  <2>5. pass.at = "tombs" /\ (pass' = pass \/ pass' = [pass EXCEPT !.rest = Append(pass.rest,
  p)])
    BY <1>10 DEF TombAnswered
  <2>6. pass'.rest \in Seq(deleted)
    BY <2>4, <2>5
  <2> QED BY <2>2, <2>3, <2>6
<1>11. CASE EndTombs
  BY <1>11 DEF EndTombs, NoPass, EndBatch, Written
<1>12. CASE pull_changes
  BY <1>12 DEF pull_changes, NoPass, Persist, Fault
<1>13. ASSUME NEW a \in Actor, Found(a) PROVE Asked'
  BY <1>13 DEF Found, ByHash, upsert_index_entry, Answered, Request, Fault, Persist
<1>14. ASSUME NEW a \in Actor, Sent(a) PROVE Asked'
  BY <1>14 DEF Sent, Unmade, upsert_index_entry, Answered, Fault, Persist
<1>15. CASE Deleted
  <2> DEFINE p == call["menu"].photo
  <2>1. p \in deleted
    BY <1>15 DEF Deleted
  <2>2. Queue(p) \in Seq(deleted)
    BY <2>1, AppendProperties DEF Queue
  <2>3. tombs' \in Seq(deleted) /\ UNCHANGED <<pass, deleted>>
    BY <1>15, <2>2 DEF Deleted, tombstone_delete
  <2>4. disk'.tombs \in Seq(deleted)
    BY <1>15, <2>3 DEF Deleted, Persist
  <2>5. call'["menu"] = Idle /\ call'["pass"] = call["pass"]
    BY <1>15, AnsweredType DEF Deleted
  <2> QED BY <2>3, <2>4, <2>5
<1>16. CASE Moved
  BY <1>16 DEF Moved, Trashing, erase_index_by_cloud_id, Fault, Answered, Persist
<1>17. CASE set_kept
  BY <1>17 DEF set_kept, Answered, Persist
<1>18. ASSUME NEW k \in Key, upload_device_item(k) PROVE Asked'
  BY <1>18 DEF upload_device_item, Stage, Request
<1>19. ASSUME NEW k \in Key, FreeItem(k) PROVE Asked'
  BY <1>19 DEF FreeItem, Request
<1>20. ASSUME NEW k \in Key, RemoveItem(k) PROVE Asked'
  BY <1>20 DEF RemoveItem
<1>21. ASSUME NEW k \in Key, NEW c \in Content, AddItem(k, c) PROVE Asked'
  BY <1>21 DEF AddItem
<1>22. ASSUME NEW p \in Photo, delete_assets(p) PROVE Asked'
  BY <1>22 DEF delete_assets, Request
<1>23. ASSUME NEW p \in Photo, Elsewhere(p) PROVE Asked'
  BY <1>23 DEF Elsewhere, Trashing
<1>24. ASSUME NEW p \in Photo, NEW k \in Key, export_assets_to_device(p, k) PROVE Asked'
  BY <1>24 DEF export_assets_to_device, Request
<1>25. CASE sync_cloud
  BY <1>25 DEF sync_cloud, NoPass, TombPhase
<1>26. CASE flush
  BY <1>26 DEF flush, Written
<1>27. CASE Kill
  BY <1>27 DEF Kill, Fault, NoPass
<1> QED
  BY <1>1, <1>2, <1>3, <1>4, <1>5, <1>6, <1>7, <1>8, <1>9, <1>10, <1>11, <1>12, <1>13, <1>14,
      <1>15, <1>16, <1>17, <1>18, <1>19, <1>20, <1>21, <1>22, <1>23, <1>24, <1>25, <1>26,
      <1>27 DEF Act, PassStep, MenuStep, AppStep, UserStep, Scan

LEMMA InUnion == ASSUME NEW S, NEW y \in S, NEW x \in y PROVE x \in UNION S
OBVIOUS

LEMMA MissingVanishes ==
    ASSUME NEW g, NEW i, NEW d, NEW k \in Key, g[k] = NULL, i[k] # NULL
    PROVE  i[k] \in Vanished(g, i, d)
<1> DEFINE S == {{i[j], d.index[j]} : j \in {j \in Key : g[j] = NULL}}
<1>1. {i[k], d.index[k]} \in S
  OBVIOUS
<1>2. i[k] \in {i[k], d.index[k]}
  OBVIOUS
<1>3. Vanished(g, i, d) = (UNION S) \ {NULL}
  BY DEF Vanished
<1> HIDE DEF S
<1>4. i[k] \in UNION S
  BY <1>1, <1>2, InUnion
<1> QED BY <1>3, <1>4

\* A whole scan releases what it did not show.
LEMMA ScanSpares ==
    ASSUME Types, NEW shown \in SUBSET Present(gallery), NEW w \in BOOLEAN, run_sync(shown, w)
    PROVE  Spare'
<1> USE DEF Types
<1>1. /\ pass'.at = "upload" /\ pass'.whole = w
      /\ pass'.live = [k \in Key |-> IF k \in shown THEN gallery[k] ELSE NULL]
      /\ index' = index /\ released' = Vanished(gallery, index, disk)
  BY DEF run_sync, NoPass, store
<1> SUFFICES ASSUME w, NEW k \in Key \ Live', index[k] # NULL PROVE index[k] \in released'
  BY <1>1 DEF Spare
<1>2. gallery[k] = NULL
  BY <1>1 DEF run_sync, Live, Present
<1>3. index[k] \in Vanished(gallery, index, disk)
  BY <1>2, MissingVanishes
<1> QED BY <1>1, <1>3

\* Every other step spares as much.
LEMMA SpareStep ==
    ASSUME Types, Course, Spare, AppStep \/ UserStep, released \subseteq released'
    PROVE  Spare'
<1> USE OverlapAssumption, NullNoPhoto DEF Course, Spare, Live, Types, Phases, Call, Actor,
Idle, Present, store, cloud
<1>2. ASSUME NEW k \in Key, SkipItem(k) PROVE Spare'
  BY <1>2 DEF SkipItem
<1>3. ASSUME NEW k \in Key, BackUpItem(k) PROVE Spare'
  BY <1>3 DEF BackUpItem, Stage, Request
<1>4. CASE BeginPrune
  BY <1>4 DEF BeginPrune, EndBatch, Written, NoPass, TombPhase, Present, Live
<1>5. ASSUME NEW k \in Key, DropEntry(k) PROVE Spare'
  BY <1>5 DEF DropEntry, erase_index_entry
<1>6. ASSUME NEW k \in Key, PrunePhoto(k) PROVE Spare'
  BY <1>6 DEF PrunePhoto, Request, Entry
<1>7. CASE Pruned
  BY <1>7 DEF Pruned, Trashing, erase_index_entry, Fault, Answered
<1>8. CASE BeginTombs
  BY <1>8 DEF BeginTombs, EndBatch, Written, NoPass, TombPhase
<1>9. CASE RetryTomb
  BY <1>9 DEF RetryTomb, Request
<1>10. CASE TombAnswered
  BY <1>10 DEF TombAnswered, Trashing, erase_index_by_cloud_id, Fault, Answered
<1>11. CASE EndTombs
  BY <1>11 DEF EndTombs, NoPass, EndBatch, Written
<1>12. CASE pull_changes
  BY <1>12 DEF pull_changes, NoPass, Persist, Fault
<1>13. ASSUME NEW a \in Actor, Found(a) PROVE Spare'
  BY <1>13 DEF Found, ByHash, upsert_index_entry, Answered, Request, Fault, Persist
<1>14. ASSUME NEW a \in Actor, Sent(a) PROVE Spare'
  BY <1>14 DEF Sent, Unmade, upsert_index_entry, Answered, Fault, Persist
<1>15. CASE Deleted
  BY <1>15
  DEF Deleted, Trashing, erase_index_by_cloud_id, tombstone_delete, Queue, Fault, Answered,
      Persist
<1>16. CASE Moved
  BY <1>16 DEF Moved, Trashing, erase_index_by_cloud_id, Fault, Answered, Persist
<1>17. CASE set_kept
  BY <1>17 DEF set_kept, Answered, Persist
<1>18. ASSUME NEW k \in Key, upload_device_item(k) PROVE Spare'
  BY <1>18 DEF upload_device_item, Stage, Request
<1>19. ASSUME NEW k \in Key, FreeItem(k) PROVE Spare'
  BY <1>19 DEF FreeItem, Request
<1>20. ASSUME NEW k \in Key, RemoveItem(k) PROVE Spare'
  BY <1>20 DEF RemoveItem
<1>21. ASSUME NEW k \in Key, NEW c \in Content, AddItem(k, c) PROVE Spare'
  BY <1>21 DEF AddItem
<1>22. ASSUME NEW p \in Photo, delete_assets(p) PROVE Spare'
  BY <1>22 DEF delete_assets, Request
<1>23. ASSUME NEW p \in Photo, Elsewhere(p) PROVE Spare'
  BY <1>23 DEF Elsewhere, Trashing
<1>24. ASSUME NEW p \in Photo, NEW k \in Key, export_assets_to_device(p, k) PROVE Spare'
  BY <1>24 DEF export_assets_to_device, Request
<1>25. CASE sync_cloud
  BY <1>25 DEF sync_cloud, NoPass, TombPhase
<1>26. CASE flush
  BY <1>26 DEF flush, Written
<1>27. CASE Kill
  BY <1>27 DEF Kill, Fault, NoPass
<1> QED
  BY <1>2, <1>3, <1>4, <1>5, <1>6, <1>7, <1>8, <1>9, <1>10, <1>11, <1>12, <1>13, <1>14, <1>15,
      <1>16, <1>17, <1>18, <1>19, <1>20, <1>21, <1>22, <1>23, <1>24, <1>25, <1>26,
      <1>27 DEF PassStep, MenuStep, AppStep, UserStep

-----------------------------------------------------------------------------
(* The refinement                                                              *)

Kept == {p \in Photo : where[p] = "album"}

LEMMA TrashingKept ==
    ASSUME Types, NEW p \in Photo, Trashing(p)
    PROVE  Kept' = Kept \ {p}
BY DEF Types, Trashing, Kept

LEMMA AnsweredFlight ==
    ASSUME Types, NEW a \in Actor, Answered(a)
    PROVE  InFlight' \subseteq InFlight
<1>1. call'[a] = Idle /\ \A b \in Actor \ {a} : call'[b] = call[b]
  BY AnsweredType
<1> QED BY <1>1 DEF InFlight, Idle

LEMMA RequestFlight ==
    ASSUME Types, NEW a \in Actor, NEW r \in Call, Request(a, r), call[a].op \notin {"delete", "move"}
    PROVE  InFlight' = IF r.op \in {"delete", "move"} THEN InFlight \cup {r.photo} ELSE InFlight
<1>1. call'[a] = r /\ \A b \in Actor \ {a} : call'[b] = call[b]
  BY RequestType
<1> QED BY <1>1 DEF InFlight

\* A step that asks for nothing, and trashes at most what was asked for.
Settling == Kept' \subseteq Kept /\ Kept \ Kept' \subseteq InFlight
              /\ InFlight' \subseteq InFlight /\ deleted' = deleted

Core == (\E p \in Photo : Promise!Store(p) \/ Promise!Ask(p) \/ Promise!Elsewhere(p)
                             \/ Promise!Condemn(p))
          \/ (\E P \in SUBSET Photo : Promise!Settle(P))

LEMMA SettlingIsCore == ASSUME Types, Settling PROVE Core
<1>0. InFlight \ InFlight' \in SUBSET Photo
  BY DEF Types, InFlight
<1>1. PICK P \in SUBSET Photo : P = InFlight \ InFlight'
  BY <1>0, Zenon
<1>2. Promise!Settle(P)
  BY <1>1 DEF Settling, Kept, Promise!Settle
<1> QED BY <1>2 DEF Core

LEMMA StoreIsCore ==
    ASSUME NEW p \in Photo, Kept' = Kept \cup {p}, InFlight' = InFlight, deleted' = deleted
    PROVE  Core
BY DEF Core, Kept, Promise!Store

LEMMA AskIsCore ==
    ASSUME NEW p \in Photo, Kept' = Kept, InFlight' = InFlight \cup {p}, deleted' = deleted \cup {p}
    PROVE  Core
BY DEF Core, Kept, Promise!Ask

LEMMA ElsewhereIsCore ==
    ASSUME NEW p \in Photo, Kept' = Kept \ {p}, InFlight' = InFlight, deleted' = deleted \cup {p}
    PROVE  Core
BY DEF Core, Kept, Promise!Elsewhere

LEMMA CondemnIsCore ==
    ASSUME NEW p \in Photo, p \in deleted \cup (released \ disk.pins),
           Kept' = Kept, InFlight' = InFlight \cup {p}, deleted' = deleted
    PROVE  Core
BY DEF Core, Kept, Promise!Condemn

\* Every step is one that module Backup allows.
LEMMA ActIsCore ==
    ASSUME Types, Course, Asked, Spare, Act
    PROVE  Core
<1> USE DEF cloud, store
<1>1. ASSUME NEW shown \in SUBSET Present(gallery), NEW w \in BOOLEAN, run_sync(shown,
w) PROVE Core
  <2>1. Settling
    BY <1>1 DEF run_sync, Settling, Kept, InFlight
  <2> QED BY <2>1, SettlingIsCore
<1>2. ASSUME NEW k \in Key, SkipItem(k) PROVE Core
  <2>1. Settling
    BY <1>2 DEF SkipItem, Settling, Kept, InFlight
  <2> QED BY <2>1, SettlingIsCore
<1>3. ASSUME NEW k \in Key, BackUpItem(k) PROVE Core
  <2>1. [op |-> "find", key |-> k, bytes |-> gallery[k], photo |-> NULL] \in Call
    BY <1>3 DEF BackUpItem, Types, Call
  <2>2. InFlight' = InFlight
    BY <1>3, <2>1, RequestFlight DEF BackUpItem, Stage, Actor, Idle
  <2>3. Settling
    BY <1>3, <2>2 DEF BackUpItem, Settling, Kept
  <2> QED BY <2>3, SettlingIsCore
<1>4. CASE BeginPrune
  <2>1. Settling
    BY <1>4 DEF BeginPrune, Settling, Kept, InFlight
  <2> QED BY <2>1, SettlingIsCore
<1>5. ASSUME NEW k \in Key, DropEntry(k) PROVE Core
  <2>1. Settling
    BY <1>5 DEF DropEntry, Settling, Kept, InFlight
  <2> QED BY <2>1, SettlingIsCore
<1>6. ASSUME NEW k \in Key, PrunePhoto(k) PROVE Core
  <2>1. /\ Entry(k) \in released /\ Entry(k) \in Photo
        /\ Entry(k) \notin disk.pins
    BY <1>6, NullNoPhoto DEF PrunePhoto, Entry, Spare, Types
  <2>2. [op |-> "delete", key |-> k, bytes |-> NULL, photo |-> Entry(k)] \in Call
    BY <2>1 DEF Call
  <2>3. InFlight' = InFlight \cup {Entry(k)}
    BY <1>6, <2>2, RequestFlight DEF PrunePhoto, Actor, Idle
  <2> QED BY <1>6, <2>1, <2>3, CondemnIsCore DEF PrunePhoto, Kept
<1>7. CASE Pruned
  <2>1. InFlight' \subseteq InFlight
    BY <1>7, AnsweredFlight DEF Pruned, Actor
  <2>2. call["pass"].photo \in InFlight /\ call["pass"].photo \in Photo
    BY <1>7 DEF Pruned, InFlight, Types, Actor
  <2>3. Kept' = Kept \/ Kept' = Kept \ {call["pass"].photo}
    BY <1>7, <2>2, TrashingKept DEF Pruned, Kept
  <2>4. Settling
    BY <1>7, <2>1, <2>2, <2>3 DEF Pruned, Settling
  <2> QED BY <2>4, SettlingIsCore
<1>8. CASE BeginTombs
  <2>1. Settling
    BY <1>8 DEF BeginTombs, Settling, Kept, InFlight
  <2> QED BY <2>1, SettlingIsCore
<1>9. CASE RetryTomb
  <2>1. tombs[pass.pos + 1] \in Photo /\ tombs[pass.pos + 1] \in deleted
    <3>1. pass.pos + 1 \in 1..Len(tombs)
      BY <1>9, LenProperties DEF RetryTomb, Types
    <3> QED BY <3>1, ElementOfSeq DEF Types, Asked
  <2>2. [op |-> "delete", key |-> NULL, bytes |-> NULL, photo |-> tombs[pass.pos + 1]] \in Call
    BY <2>1 DEF Call
  <2>3. InFlight' = InFlight \cup {tombs[pass.pos + 1]}
    BY <1>9, <2>2, RequestFlight DEF RetryTomb, Actor, Idle
  <2> QED BY <1>9, <2>1, <2>3, CondemnIsCore DEF RetryTomb, Kept
<1>10. CASE TombAnswered
  <2>1. InFlight' \subseteq InFlight
    BY <1>10, AnsweredFlight DEF TombAnswered, Actor
  <2>2. call["pass"].photo \in InFlight /\ call["pass"].photo \in Photo
    BY <1>10 DEF TombAnswered, InFlight, Types, Actor
  <2>3. Kept' = Kept \/ Kept' = Kept \ {call["pass"].photo}
    BY <1>10, <2>2, TrashingKept DEF TombAnswered, Kept
  <2>4. Settling
    BY <1>10, <2>1, <2>2, <2>3 DEF TombAnswered, Settling
  <2> QED BY <2>4, SettlingIsCore
<1>11. CASE EndTombs
  <2>1. Settling
    BY <1>11 DEF EndTombs, Settling, Kept, InFlight
  <2> QED BY <2>1, SettlingIsCore
<1>12. CASE pull_changes
  <2>1. Settling
    BY <1>12 DEF pull_changes, Settling, Kept, InFlight
  <2> QED BY <2>1, SettlingIsCore
<1>13. ASSUME NEW a \in Actor, Found(a) PROVE Core
  <2>1. [call[a] EXCEPT !.op = "send"] \in Call /\ [call[a] EXCEPT !.op = "send"].op = "send"
        /\ call[a].op = "find"
    <3>1. call[a] \in Call
      BY DEF Types
    <3> QED BY <1>13, <3>1 DEF Found, Call
  <2>2. InFlight' \subseteq InFlight
    BY <1>13, <2>1, RequestFlight, AnsweredFlight DEF Found
  <2>3. Settling
    BY <1>13, <2>2 DEF Found, Settling, Kept
  <2> QED BY <2>3, SettlingIsCore
<1>14. ASSUME NEW a \in Actor, Sent(a) PROVE Core
  <2>1. InFlight' = InFlight
    <3>1. call'[a] = Idle /\ \A b \in Actor \ {a} : call'[b] = call[b]
      BY <1>14, AnsweredType DEF Sent
    <3>2. call[a].op = "send"
      BY <1>14 DEF Sent
    <3> QED BY <3>1, <3>2 DEF InFlight, Idle
  <2>2. CASE where' = where
    <3>1. Settling
      BY <1>14, <2>1, <2>2 DEF Sent, Settling, Kept
    <3> QED BY <3>1, SettlingIsCore
  <2>3. ASSUME NEW p \in Unmade, where' = [where EXCEPT ![p] = "album"] PROVE Core
    <3>1. p \in Photo /\ Kept' = Kept \cup {p}
      BY <2>3 DEF Types, Unmade, Kept
    <3> QED BY <1>14, <2>1, <3>1, StoreIsCore DEF Sent
  <2> QED BY <1>14, <2>2, <2>3 DEF Sent
<1>15. CASE Deleted
  <2>1. InFlight' \subseteq InFlight
    BY <1>15, AnsweredFlight DEF Deleted, Actor
  <2>2. call["menu"].photo \in InFlight /\ call["menu"].photo \in Photo
    BY <1>15 DEF Deleted, InFlight, Types, Actor
  <2>3. Kept' = Kept \/ Kept' = Kept \ {call["menu"].photo}
    BY <1>15, <2>2, TrashingKept DEF Deleted, Kept
  <2>4. Settling
    BY <1>15, <2>1, <2>2, <2>3 DEF Deleted, Settling
  <2> QED BY <2>4, SettlingIsCore
<1>16. CASE Moved
  <2>1. InFlight' \subseteq InFlight
    BY <1>16, AnsweredFlight DEF Moved, Actor
  <2>2. call["menu"].photo \in InFlight /\ call["menu"].photo \in Photo
    BY <1>16 DEF Moved, InFlight, Types, Actor
  <2>3. Kept' = Kept \/ Kept' = Kept \ {call["menu"].photo}
    BY <1>16, <2>2, TrashingKept DEF Moved, Kept
  <2>4. Settling
    BY <1>16, <2>1, <2>2, <2>3 DEF Moved, Settling
  <2> QED BY <2>4, SettlingIsCore
<1>17. CASE set_kept
  <2>1. InFlight' \subseteq InFlight
    BY <1>17, AnsweredFlight DEF set_kept, Actor
  <2>2. Settling
    BY <1>17, <2>1 DEF set_kept, Settling, Kept
  <2> QED BY <2>2, SettlingIsCore
<1>18. ASSUME NEW k \in Key, upload_device_item(k) PROVE Core
  <2>1. [op |-> "find", key |-> k, bytes |-> gallery[k], photo |-> NULL] \in Call
    BY <1>18 DEF upload_device_item, Types, Call
  <2>2. InFlight' = InFlight
    BY <1>18, <2>1, RequestFlight DEF upload_device_item, Stage, Actor, Idle
  <2>3. Settling
    BY <1>18, <2>2 DEF upload_device_item, Settling, Kept
  <2> QED BY <2>3, SettlingIsCore
<1>19. ASSUME NEW k \in Key, FreeItem(k) PROVE Core
  <2>1. [op |-> "pin", key |-> k, bytes |-> NULL, photo |-> index[k]] \in Call
    BY <1>19 DEF FreeItem, Types, Call
  <2>2. InFlight' = InFlight
    BY <1>19, <2>1, RequestFlight DEF FreeItem, Actor, Idle
  <2>3. Settling
    BY <1>19, <2>2 DEF FreeItem, Settling, Kept
  <2> QED BY <2>3, SettlingIsCore
<1>20. ASSUME NEW k \in Key, RemoveItem(k) PROVE Core
  <2>1. Settling
    BY <1>20 DEF RemoveItem, Settling, Kept, InFlight
  <2> QED BY <2>1, SettlingIsCore
<1>21. ASSUME NEW k \in Key, NEW c \in Content, AddItem(k, c) PROVE Core
  <2>1. Settling
    BY <1>21 DEF AddItem, Settling, Kept, InFlight
  <2> QED BY <2>1, SettlingIsCore
<1>22. ASSUME NEW p \in Photo, delete_assets(p) PROVE Core
  <2>1. [op |-> "delete", key |-> NULL, bytes |-> NULL, photo |-> p] \in Call
    BY DEF Call
  <2>2. InFlight' = InFlight \cup {p}
    BY <1>22, <2>1, RequestFlight DEF delete_assets, Actor, Idle
  <2> QED BY <1>22, <2>2, AskIsCore DEF delete_assets, Kept
<1>23. ASSUME NEW p \in Photo, Elsewhere(p) PROVE Core
  <2>1. InFlight' = InFlight
    BY <1>23 DEF Elsewhere, InFlight
  <2>2. CASE where[p] = "album"
    <3>1. Kept' = Kept \ {p} /\ deleted' = deleted \cup {p}
      BY <1>23, <2>2, TrashingKept DEF Elsewhere
    <3> QED BY <2>1, <3>1, ElsewhereIsCore
  <2>3. CASE where' = [where EXCEPT ![p] = "album"] /\ deleted' = deleted
    <3>1. Kept' = Kept \cup {p}
      BY <2>3 DEF Types, Kept
    <3> QED BY <2>1, <2>3, <3>1, StoreIsCore
  <2>4. CASE where[p] = "bin" /\ where' = [where EXCEPT ![p] = "purged"] /\ deleted' = deleted
    <3>1. Settling
      BY <2>1, <2>4 DEF Types, Kept, Settling
    <3> QED BY <3>1, SettlingIsCore
  <2> QED BY <1>23, <2>2, <2>3, <2>4 DEF Elsewhere
<1>24. ASSUME NEW p \in Photo, NEW k \in Key, export_assets_to_device(p, k) PROVE Core
  <2>1. [op |-> "move", key |-> NULL, bytes |-> NULL, photo |-> p] \in Call
    BY DEF Call
  <2>2. InFlight' = InFlight \cup {p}
    BY <1>24, <2>1, RequestFlight DEF export_assets_to_device, Actor, Idle
  <2> QED BY <1>24, <2>2, AskIsCore DEF export_assets_to_device, Kept
<1>25. CASE sync_cloud
  <2>1. Settling
    BY <1>25 DEF sync_cloud, Settling, Kept, InFlight
  <2> QED BY <2>1, SettlingIsCore
<1>26. CASE flush
  <2>1. Settling
    BY <1>26 DEF flush, Settling, Kept, InFlight
  <2> QED BY <2>1, SettlingIsCore
<1>27. CASE Kill
  <2>1. Settling
    BY <1>27 DEF Kill, Settling, Kept, InFlight, Idle
  <2> QED BY <2>1, SettlingIsCore
<1>28. CASE PassStep
  BY <1>28, <1>2, <1>3, <1>4, <1>5, <1>6, <1>7, <1>8, <1>9, <1>10, <1>11, <1>12, <1>13, <1>14
  DEF PassStep, Actor
<1>29. CASE MenuStep
  BY <1>29, <1>13, <1>14, <1>15, <1>16, <1>17 DEF MenuStep, Actor
<1>30. CASE UserStep
  BY <1>30, <1>18, <1>19, <1>20, <1>21, <1>22, <1>23, <1>24 DEF UserStep
<1>31. CASE Scan(TRUE) \/ Scan(FALSE)
  BY <1>31, <1>1 DEF Scan
<1> QED
  BY <1>25, <1>26, <1>27, <1>28, <1>29, <1>30, <1>31 DEF Act, AppStep
\* A pin that is on disk stays there.
LEMMA PinsLast ==
    ASSUME Types, AppStep \/ UserStep
    PROVE  disk.pins \subseteq disk'.pins
<1> USE DEF Types, store
<1>1. ASSUME NEW k \in Key, SkipItem(k) PROVE disk.pins \subseteq disk'.pins
  BY <1>1 DEF SkipItem
<1>2. ASSUME NEW k \in Key, BackUpItem(k) PROVE disk.pins \subseteq disk'.pins
  BY <1>2 DEF BackUpItem
<1>3. CASE BeginPrune
  BY <1>3 DEF BeginPrune, EndBatch, Written
<1>4. ASSUME NEW k \in Key, DropEntry(k) PROVE disk.pins \subseteq disk'.pins
  BY <1>4 DEF DropEntry
<1>5. ASSUME NEW k \in Key, PrunePhoto(k) PROVE disk.pins \subseteq disk'.pins
  BY <1>5 DEF PrunePhoto
<1>6. CASE Pruned
  BY <1>6 DEF Pruned
<1>7. CASE BeginTombs
  BY <1>7 DEF BeginTombs, EndBatch, Written
<1>8. CASE RetryTomb
  BY <1>8 DEF RetryTomb
<1>9. CASE TombAnswered
  BY <1>9 DEF TombAnswered
<1>10. CASE EndTombs
  BY <1>10 DEF EndTombs, EndBatch, Written
<1>11. CASE pull_changes
  BY <1>11 DEF pull_changes, Persist
<1>12. ASSUME NEW a \in Actor, Found(a) PROVE disk.pins \subseteq disk'.pins
  BY <1>12 DEF Found, Persist
<1>13. ASSUME NEW a \in Actor, Sent(a) PROVE disk.pins \subseteq disk'.pins
  BY <1>13 DEF Sent, Persist
<1>14. CASE Deleted
  BY <1>14 DEF Deleted, Persist, tombstone_delete
<1>15. CASE Moved
  BY <1>15 DEF Moved, Persist
<1>16. CASE set_kept
  BY <1>16 DEF set_kept, Persist
<1>17. ASSUME NEW k \in Key, upload_device_item(k) PROVE disk.pins \subseteq disk'.pins
  BY <1>17 DEF upload_device_item
<1>18. ASSUME NEW k \in Key, FreeItem(k) PROVE disk.pins \subseteq disk'.pins
  BY <1>18 DEF FreeItem
<1>19. ASSUME NEW k \in Key, RemoveItem(k) PROVE disk.pins \subseteq disk'.pins
  BY <1>19 DEF RemoveItem
<1>20. ASSUME NEW k \in Key, NEW c \in Content, AddItem(k,
c) PROVE disk.pins \subseteq disk'.pins
  BY <1>20 DEF AddItem
<1>21. ASSUME NEW p \in Photo, delete_assets(p) PROVE disk.pins \subseteq disk'.pins
  BY <1>21 DEF delete_assets
<1>22. ASSUME NEW p \in Photo, Elsewhere(p) PROVE disk.pins \subseteq disk'.pins
  BY <1>22 DEF Elsewhere
<1>23. ASSUME NEW p \in Photo, NEW k \in Key, export_assets_to_device(p,
k) PROVE disk.pins \subseteq disk'.pins
  BY <1>23 DEF export_assets_to_device
<1>24. CASE sync_cloud
  BY <1>24 DEF sync_cloud
<1>25. CASE flush
  BY <1>25 DEF flush, Written
<1>26. CASE Kill
  BY <1>26 DEF Kill
<1>27. CASE PassStep
  BY <1>27, <1>1, <1>2, <1>3, <1>4, <1>5, <1>6, <1>7, <1>8, <1>9, <1>10, <1>11, <1>12,
      <1>13 DEF PassStep, Actor
<1>28. CASE MenuStep
  BY <1>28, <1>12, <1>13, <1>14, <1>15, <1>16 DEF MenuStep, Actor
<1>29. CASE UserStep
  BY <1>29, <1>17, <1>18, <1>19, <1>20, <1>21, <1>22, <1>23 DEF UserStep
<1> QED
  BY <1>24, <1>25, <1>26, <1>27, <1>28, <1>29 DEF AppStep

-----------------------------------------------------------------------------
(* Entries name photos that were made                                          *)

Made ==
    \A k \in Key : /\ index[k] # NULL => where[index[k]] # "none"
                   /\ disk.index[k] # NULL => where[disk.index[k]] # "none"

Lasting == \A p \in Photo : where[p] # "none" => where'[p] # "none"

LEMMA TrashingLasts == ASSUME Types, NEW p \in Photo, Trashing(p) PROVE Lasting
BY DEF Types, Trashing, Lasting

LEMMA ShrinkingMade ==
    ASSUME Types, Made, Lasting, Shrinks, disk'.index \in {disk.index, index'}
    PROVE  Made'
BY DEF Types, Made, Lasting, Shrinks

\* Every step keeps the entries good.
LEMMA MadeStep ==
    ASSUME Types, Made, AppStep \/ UserStep
    PROVE  Made'
<1> USE DEF store, cloud
<1>1. ASSUME NEW k \in Key, SkipItem(k) PROVE Made'
  BY <1>1 DEF SkipItem, Made
<1>2. ASSUME NEW k \in Key, BackUpItem(k) PROVE Made'
  BY <1>2 DEF BackUpItem, Made
<1>3. CASE BeginPrune
  BY <1>3 DEF BeginPrune, EndBatch, Written, Made
<1>4. ASSUME NEW k \in Key, DropEntry(k) PROVE Made'
  <2>1. Shrinks
    BY <1>4, EraseEntryShrinks DEF DropEntry
  <2> QED BY <1>4, <2>1, ShrinkingMade DEF DropEntry, Lasting
<1>5. ASSUME NEW k \in Key, PrunePhoto(k) PROVE Made'
  BY <1>5 DEF PrunePhoto, Made
<1>6. CASE Pruned
  <2>1. call["pass"].photo \in Photo
    BY <1>6 DEF Pruned, Types, Actor
  <2>2. Lasting
    BY <1>6, <2>1, TrashingLasts DEF Pruned, Lasting
  <2>3. Shrinks
    BY <1>6 DEF Pruned, Shrinks, erase_index_entry, Types
  <2> QED BY <1>6, <2>2, <2>3, ShrinkingMade DEF Pruned
<1>7. CASE BeginTombs
  BY <1>7 DEF BeginTombs, EndBatch, Written, Made
<1>8. CASE RetryTomb
  BY <1>8 DEF RetryTomb, Made
<1>9. CASE TombAnswered
  <2>1. call["pass"].photo \in Photo
    BY <1>9 DEF TombAnswered, Types, Actor
  <2>2. Lasting
    BY <1>9, <2>1, TrashingLasts DEF TombAnswered, Lasting
  <2>3. Shrinks
    BY <1>9, <2>1, EraseShrinks DEF TombAnswered
  <2>4. disk'.index \in {disk.index, index'}
    BY <1>9 DEF TombAnswered, Persist
  <2> QED BY <2>2, <2>3, <2>4, ShrinkingMade
<1>10. CASE EndTombs
  BY <1>10 DEF EndTombs, EndBatch, Written, Made
<1>11. CASE pull_changes
  <2>1. Shrinks
    BY <1>11 DEF pull_changes, Shrinks, Types
  <2> QED BY <1>11, <2>1, ShrinkingMade DEF pull_changes, Persist, Lasting
<1>12. ASSUME NEW a \in Actor, Found(a) PROVE Made'
  <2>1. \A k \in Key : index'[k] # NULL => where[index'[k]] # "none"
    BY <1>12 DEF Found, ByHash, upsert_index_entry, Types, Made
  <2>2. where' = where /\ disk'.index \in {disk.index, index'}
    BY <1>12 DEF Found, Persist
  <2> QED BY <2>1, <2>2 DEF Made
<1>13. ASSUME NEW a \in Actor, Sent(a) PROVE Made'
  <2>1. CASE where' = where
    <3>1. index' = index /\ disk'.index \in {disk.index, index'}
      BY <1>13, <2>1 DEF Sent, Persist, Types, Unmade
    <3> QED BY <2>1, <3>1 DEF Made
  <2>2. ASSUME NEW p \in Photo, where' = [where EXCEPT ![p] = "album"],
               upsert_index_entry(call[a].key, p) \/ UNCHANGED index
        PROVE  Made'
    <3>1. Lasting
      BY <2>2 DEF Lasting, Types
    <3>2. \A k \in Key : index'[k] # NULL => where'[index'[k]] # "none"
      BY <2>2, <3>1 DEF upsert_index_entry, Types, Made, Lasting
    <3>3. disk'.index \in {disk.index, index'}
      BY <1>13 DEF Sent, Persist
    <3> QED BY <3>1, <3>2, <3>3 DEF Types, Made, Lasting
  <2> QED BY <1>13, <2>1, <2>2 DEF Sent, Unmade
<1>14. CASE Deleted
  <2>1. call["menu"].photo \in Photo
    BY <1>14 DEF Deleted, Types, Actor
  <2>2. Lasting
    BY <1>14, <2>1, TrashingLasts DEF Deleted, Lasting
  <2>3. Shrinks
    BY <1>14, <2>1, EraseShrinks DEF Deleted, tombstone_delete
  <2>4. disk'.index \in {disk.index, index'}
    BY <1>14 DEF Deleted, Persist
  <2> QED BY <2>2, <2>3, <2>4, ShrinkingMade
<1>15. CASE Moved
  <2>1. call["menu"].photo \in Photo
    BY <1>15 DEF Moved, Types, Actor
  <2>2. Lasting
    BY <1>15, <2>1, TrashingLasts DEF Moved, Lasting
  <2>3. Shrinks
    BY <1>15, <2>1, EraseShrinks DEF Moved
  <2>4. disk'.index \in {disk.index, index'}
    BY <1>15 DEF Moved, Persist
  <2> QED BY <2>2, <2>3, <2>4, ShrinkingMade
<1>16. CASE set_kept
  BY <1>16 DEF set_kept, Persist, Made
<1>17. ASSUME NEW k \in Key, upload_device_item(k) PROVE Made'
  BY <1>17 DEF upload_device_item, Made
<1>18. ASSUME NEW k \in Key, FreeItem(k) PROVE Made'
  BY <1>18 DEF FreeItem, Made
<1>19. ASSUME NEW k \in Key, RemoveItem(k) PROVE Made'
  BY <1>19 DEF RemoveItem, Made
<1>20. ASSUME NEW k \in Key, NEW c \in Content, AddItem(k, c) PROVE Made'
  BY <1>20 DEF AddItem, Made
<1>21. ASSUME NEW p \in Photo, delete_assets(p) PROVE Made'
  BY <1>21 DEF delete_assets, Made
<1>22. ASSUME NEW p \in Photo, Elsewhere(p) PROVE Made'
  <2>1. Lasting
    BY <1>22, TrashingLasts DEF Elsewhere, Lasting, Types
  <2> QED BY <1>22, <2>1 DEF Elsewhere, Types, Made, Lasting
<1>23. ASSUME NEW p \in Photo, NEW k \in Key, export_assets_to_device(p, k) PROVE Made'
  BY <1>23 DEF export_assets_to_device, Made
<1>24. CASE sync_cloud
  BY <1>24 DEF sync_cloud, Made
<1>25. CASE flush
  BY <1>25 DEF flush, Written, Made
<1>26. CASE Kill
  BY <1>26 DEF Kill, Made
<1>27. CASE PassStep
  BY <1>27, <1>1, <1>2, <1>3, <1>4, <1>5, <1>6, <1>7, <1>8, <1>9, <1>10, <1>11, <1>12,
      <1>13 DEF PassStep, Actor
<1>28. CASE MenuStep
  BY <1>28, <1>12, <1>13, <1>14, <1>15, <1>16 DEF MenuStep, Actor
<1>29. CASE UserStep
  BY <1>29, <1>17, <1>18, <1>19, <1>20, <1>21, <1>22, <1>23 DEF UserStep
<1> QED
  BY <1>24, <1>25, <1>26, <1>27, <1>28, <1>29 DEF AppStep

-----------------------------------------------------------------------------
(* The invariant of the specification                                          *)

Counts == events \in 0..MaxEvents /\ released \in SUBSET Photo

IInv == Types /\ Course /\ Asked /\ Spare /\ Made /\ Counts

LEMMA VanishedType ==
    ASSUME NEW g, NEW i \in [Key -> Photo \cup {NULL}], NEW d,
           d.index \in [Key -> Photo \cup {NULL}]
    PROVE  Vanished(g, i, d) \in SUBSET Photo
BY DEF Vanished

LEMMA InitIInv == ASSUME Init PROVE IInv
<1> USE EmptySeq, NullNoPhoto, FaultsAssumption, EventsAssumption
<1>1. Types
  BY DEF Init, Types, Phases, NoPass, Written, Actor, Idle, Call
<1>2. Course /\ Asked /\ Spare
  BY DEF Init, Course, Asked, Spare, NoPass, Written, Actor, Idle
<1>3. Made /\ Counts
  BY DEF Init, Made, Counts, Written
<1> QED BY <1>1, <1>2, <1>3 DEF IInv

LEMMA ScanStep ==
    ASSUME ~Overlap, IInv, Scan(TRUE) \/ Scan(FALSE), UNCHANGED events
    PROVE  IInv'
<1>1. Act
  BY DEF Act
<1>2. PICK shown \in SUBSET Present(gallery), w \in BOOLEAN : run_sync(shown, w)
  BY DEF Scan
<1>3. Types' /\ Course' /\ Asked'
  BY <1>1, TypesStep, CourseStep, AskedStep DEF IInv
<1>4. Spare'
  BY <1>2, ScanSpares DEF IInv
<1>5. Made'
  BY <1>2 DEF run_sync, store, cloud, Made, IInv
<1>6. released' \in SUBSET Photo
  BY <1>2, VanishedType DEF run_sync, IInv, Types
<1> QED BY <1>3, <1>4, <1>5, <1>6 DEF IInv, Counts

LEMMA OtherStep ==
    ASSUME ~Overlap, IInv, AppStep \/ UserStep, Watch,
           \/ UNCHANGED events
           \/ events > 0 /\ events' = events - 1
    PROVE  IInv'
<1>1. Act /\ released \subseteq released'
  BY DEF Act, Watch
<1>2. Types' /\ Course' /\ Asked' /\ Spare' /\ Made'
  BY <1>1, TypesStep, CourseStep, AskedStep, SpareStep, MadeStep DEF IInv
<1>3. index' \in [Key -> Photo \cup {NULL}] /\ disk'.index \in [Key -> Photo \cup {NULL}]
  BY <1>2 DEF Types
<1>4. Vanished(gallery', index', disk') \in SUBSET Photo
  BY <1>3, VanishedType
<1>5. released' \in SUBSET Photo
  BY <1>4 DEF Watch, IInv, Counts
<1>6. events' \in 0..MaxEvents
  BY EventsAssumption DEF IInv, Counts
<1> QED BY <1>2, <1>5, <1>6 DEF IInv, Counts

\* What a step does to the counters and to released.
LEMMA NextParts ==
    ASSUME Next
    PROVE  \/ (Scan(TRUE) \/ Scan(FALSE)) /\ UNCHANGED events
           \/ /\ (AppStep \/ UserStep) /\ Watch
              /\ \/ UNCHANGED events
                 \/ events > 0 /\ events' = events - 1
BY DEF Next

LEMMA NothingMoves == ASSUME IInv, UNCHANGED vars PROVE IInv'
<1> USE DEF vars, cloud, store
<1>1. Types' /\ Course'
  BY DEF IInv, Types, Course, Live, Present
<1>2. Asked' /\ Spare'
  BY DEF IInv, Asked, Spare, Live, Present
<1>3. Made' /\ Counts'
  BY DEF IInv, Made, Counts
<1> QED BY <1>1, <1>2, <1>3 DEF IInv

LEMMA Invariance == ASSUME ~Overlap PROVE Spec => []IInv
<1>1. ASSUME IInv, [Next]_vars PROVE IInv'
  BY <1>1, NextParts, ScanStep, OtherStep, NothingMoves
<1> QED BY <1>1, InitIInv, PTL DEF Spec

-----------------------------------------------------------------------------
(* Theorems                                                                    *)

\* Entries, tombstones and requests name photos that were made (sync.gd, store.gd).
THEOREM RecordsAreSound == ASSUME ~Overlap PROVE Spec => []TypeOK
<1>1. ASSUME IInv PROVE TypeOK
  BY <1>1 DEF IInv, Types, Made, Counts, TypeOK
<1> QED BY <1>1, Invariance, PTL

\* No photo that an item of the scan is backed up as is pruned (sync.gd, claimed).
THEOREM ClaimsHold == ASSUME ~Overlap PROVE Spec => []ClaimedKept
<1>1. ASSUME IInv PROVE ClaimedKept
  BY <1>1 DEF IInv, Spare, ClaimedKept
<1> QED BY <1>1, Invariance, PTL

\* The queue of deletes loses no entry that was not retried (sync.gd
\* _process_pending_deletes against tombstone_delete).
THEOREM QueueIsKept == ASSUME ~Overlap PROVE Spec => QueueKept
<1> DEFINE Kept1 == \A i \in DOMAIN tombs :
        \/ \E j \in DOMAIN tombs' : tombs'[j] = tombs[i]
        \/ EndTombs /\ i <= pass.pos
        \/ Kill
<1>1. ASSUME IInv, [Next]_vars PROVE [Kept1]_vars
  <2>1. CASE tombs' = tombs
    BY <2>1
  <2>2. CASE EndTombs
    <3>1. \A i \in DOMAIN tombs : i \in 1..Len(tombs)
      BY <1>1, LenProperties DEF IInv, Types
    <3>2. \A i \in DOMAIN tombs : i <= pass.pos
      BY <1>1, <2>2, <3>1, LenProperties DEF EndTombs, IInv, Types
    <3> QED BY <2>2, <3>2
  <2>3. CASE Kill
    BY <2>3
  <2>4. CASE Deleted
    <3>1. call["menu"].photo \in Photo
      BY <1>1, <2>4 DEF Deleted, IInv, Types, Actor
    <3>2. tombs' = tombs \/ tombs' = Append(tombs, call["menu"].photo)
      BY <2>4 DEF Deleted, tombstone_delete, Queue, store
    <3>3. \A i \in DOMAIN tombs : i \in DOMAIN Append(tombs, call["menu"].photo)
                                /\ Append(tombs, call["menu"].photo)[i] = tombs[i]
      BY <1>1, <3>1, AppendProperties, LenProperties DEF IInv, Types
    <3> QED BY <2>1, <3>2, <3>3
  <2>5. CASE (AppStep \/ UserStep \/ Scan(TRUE) \/ Scan(FALSE)) /\ ~EndTombs /\ ~Kill /\ ~Deleted
    <3>1. tombs' = tombs
      BY <2>5 DEF AppStep, PassStep, MenuStep, UserStep, Scan, run_sync, SkipItem, BackUpItem,
         BeginPrune, DropEntry, PrunePhoto, Pruned, BeginTombs, RetryTomb, TombAnswered,
         pull_changes, Found, Sent, Moved, set_kept, upload_device_item, FreeItem, RemoveItem,
         AddItem, delete_assets, Elsewhere, export_assets_to_device, sync_cloud, flush, store
    <3> QED BY <2>1, <3>1
  <2>6. CASE UNCHANGED vars
    BY <2>6
  <2>7. CASE Next
    <3>1. AppStep \/ UserStep \/ Scan(TRUE) \/ Scan(FALSE)
      BY <2>7, NextParts
    <3> HIDE DEF Kept1
    <3> QED BY <3>1, <2>2, <2>3, <2>4, <2>5
  <2> QED BY <1>1, <2>6, <2>7
<1> QED BY <1>1, Invariance, PTL DEF QueueKept, Spec

\* The mirror keeps the promise of module Backup: it deletes no photo of its own accord
\* while the item it is the backup of is there, or once it is pinned.
THEOREM MirrorKeepsPromise == ASSUME ~Overlap PROVE Spec => OnlyReleased
<1>1. ASSUME Init PROVE Promise!Init
  BY <1>1 DEF Init, Promise!Init, Written, InFlight, Idle
<1>2. ASSUME IInv, IInv', [Next]_vars PROVE [Promise!Next]_(Promise!vars)
  <2>1. CASE UNCHANGED vars
    BY <2>1 DEF vars, cloud, store, Promise!vars, InFlight
  <2>2. CASE Next
    <3>1. Core
      <4>1. Act
        BY <2>2, NextParts DEF Act
      <4> QED BY <1>2, <4>1, ActIsCore DEF IInv
    <3>2. disk.pins \subseteq disk'.pins
      <4>1. CASE Scan(TRUE) \/ Scan(FALSE)
        BY <4>1 DEF Scan, run_sync
      <4>2. CASE AppStep \/ UserStep
        BY <1>2, <4>2, PinsLast DEF IInv
      <4> QED BY <2>2, <4>1, <4>2, NextParts
    <3>3. released' \in SUBSET Photo /\ disk'.pins \in SUBSET Photo
      BY <1>2 DEF IInv, Types, Counts
    <3> QED BY <3>1, <3>2, <3>3 DEF Promise!Next, Core
  <2> QED BY <1>2, <2>1, <2>2
<1> QED BY <1>1, <1>2, Invariance, PTL DEF Spec, OnlyReleased, Promise!Spec
=============================================================================
