--------------------------- MODULE StartupProofs ---------------------------
(***************************************************************************)
(* Proofs about module Startup, for any library an earlier version left,     *)
(* any settings and any number of interrupted starts.  Each of the four      *)
(* invariants below says of every statement of a start what the statements    *)
(* before it have made true; a start that ends and one that begins again      *)
(* forget all of it but what is on disk.                                      *)
(***************************************************************************)
EXTENDS Startup, TLAPS

Early == {"down", "token", "new", "write", "print", "schema"}
Late == {"rename_private", "rename_shared", "trunk", "favourites", "scatter", "announce", "listen",
         "serve"}

\* The types, of the functions as well.
Types ==
    /\ TypeOK
    /\ at \in Early \cup {"migrate", "backfill"} \cup Late
    /\ roots \in [RootNames -> 0..1]
    /\ buckets \in [Buckets -> 0..1]
    /\ columns = NULL \/ columns \subseteq {Columns[i] : i \in DOMAIN Columns}
    /\ at = "migrate" => columns # NULL

\* The settings of a start are what its flags and environment ask for.
Settings ==
    /\ at # "down" =>
        /\ cfg \in [token : Token \cup {NULL, Given}, host : Host \cup {EveryHost}, port : Port]
        /\ env.port \in {NULL, cfg.port}
        /\ env.addr.port # NULL => cfg.host = env.addr.host
    /\ at \in {"listen", "serve"} => announced \in {NULL, cfg.port}

\* From the moment a token is drawn until it is saved, there is none on disk; one
\* that was printed before is then gone only because it could not be read.
Tokens ==
    /\ printed \subseteq Token
    /\ ~unread => printed \subseteq {file}
    /\ at = "new" /\ ~unread => file = NULL
    /\ at = "write" => cfg.token \in Token /\ file = NULL
    /\ at = "print" => cfg.token = file /\ file \in Token

\* No root name occurs twice, and what a statement of seedTrunks has put right stays.
Roots ==
    /\ at \in {"rename_shared", "trunk", "favourites", "scatter", "announce"} =>
            (roots["old_private"] > 0 => roots["private"] > 0)
    /\ at \in {"favourites", "scatter", "announce"} => roots["shared"] = 1
    /\ at \in {"scatter", "announce"} => buckets["favourites"] = 1
    /\ at = "announce" => buckets["scatter"] = 1

\* While an extension may still be filled in from a name, no photo was ever renamed.
Named == \A p \in Photo : photos[p] # NULL => photos[p].name = first[p]
Extensions ==
    /\ first \in [Photo -> Ext \cup {NULL}]
    /\ ExtKept
    /\ columns = NULL \/ "ext" \notin columns => Named
    /\ at \in Early => ~added
    /\ at \in {"migrate", "backfill"} /\ added => Named
    /\ at = "backfill" => added
    /\ at \in Late \cup {"backfill"} => columns # NULL /\ "ext" \in columns

LEMMA NoEnvInEnv == NoEnv \in Env
BY PortAssumption DEF NoEnv, Env, Address

LEMMA InitTypes == Init => Types /\ Settings /\ Tokens /\ Roots /\ Extensions
<1> SUFFICES ASSUME Init PROVE Types /\ Settings /\ Tokens /\ Roots /\ Extensions
  OBVIOUS
<1>0. env \in Env
  BY NoEnvInEnv DEF Init
<1>1. /\ photos \in [Photo -> {NULL} \cup Row]
      /\ \A p \in Photo : photos[p] # NULL => photos[p].ext \in {NULL, photos[p].name}
  BY DEF Init, Row, Legacy
<1>2. first \in [Photo -> Ext \cup {NULL}] /\ Named
  BY <1>1 DEF Init, Named, Row
<1>3. roots \in [RootNames -> 0..1] /\ buckets \in [Buckets -> 0..1]
  BY DEF Init, RootNames, Buckets
<1>4. columns = NULL \/ columns \subseteq {Columns[i] : i \in DOMAIN Columns}
  BY DEF Init, Legacy, Columns
<1>5. Types
  BY <1>0, <1>1, <1>3, <1>4, BoundsAssumption DEF Init, Types, TypeOK, Early, NoCfg
<1>6. Extensions
  BY <1>1, <1>2 DEF Init, Extensions, ExtKept, Named, Early, Late
<1> QED
  BY <1>5, <1>6, TokenAssumption DEF Init, Settings, Tokens, Roots, Late, Token

\* Every step keeps the types.
LEMMA TypesStep ==
    ASSUME Types, Settings, Tokens, [Next]_vars
    PROVE  Types'
<1>0. NoEnv \in Env
  BY NoEnvInEnv
<1> USE BoundsAssumption, PortAssumption, HostAssumption DEF Types, TypeOK, Settings, Early,
Late, Buckets, RootNames, Row, Given, vars, disk, process, history, Down, NoCfg, Fault, Serving
<1>1. ASSUME NEW e \in Env, Boot(e) PROVE Types'
  BY <1>0, <1>1 DEF Boot, Env
<1>2. ASSUME NEW p \in Photo, NEW e \in Ext, Upload(p, e) PROVE Types'
  BY <1>2 DEF Upload
<1>3. ASSUME NEW p \in Photo, NEW e \in Ext, UpdateAssetName(p, e) PROVE Types'
  <2>1. photos[p] \in Row /\ [name |-> e, ext |-> photos[p].ext] \in Row
    BY <1>3 DEF UpdateAssetName
  <2>2. /\ photos' \in [Photo -> Row \cup {NULL}]
        /\ {q \in Photo : photos[q] # NULL} \subseteq {q \in Photo : photos'[q] # NULL}
    BY <1>3, <2>1, RowAssumption DEF UpdateAssetName
  <2> QED BY <1>0, <1>3, <2>2 DEF UpdateAssetName
<1>4. ASSUME NEW b \in Buckets, DeleteBucket(b) PROVE Types'
  BY <1>4 DEF DeleteBucket
<1>5. CASE ReadToken
  BY <1>5 DEF ReadToken
<1>6. CASE NewToken
  BY <1>6 DEF NewToken, Fresh, Token
<1>7. CASE WriteToken
  BY <1>7 DEF WriteToken, Tokens
<1>8. CASE PrintToken
  BY <1>8 DEF PrintToken
<1>9. CASE Schema
  BY <1>9, ColumnsAssumption DEF Schema, Columns
<1>10. CASE Migrate
  <2>1. ASSUME NEW i \in Missing, columns' = columns \cup {Columns[i]}
        PROVE  columns' # NULL /\ columns' \subseteq {Columns[j] : j \in DOMAIN Columns}
    <3>1. Columns[i] \in {Columns[j] : j \in DOMAIN Columns}
      BY DEF Missing
    <3>2. columns # NULL
      BY <1>10 DEF Migrate
    <3>3. columns' \subseteq {Columns[j] : j \in DOMAIN Columns}
      BY <2>1, <3>1, <3>2
    <3> QED BY <3>3, ColumnsAssumption
  <2>2. /\ columns' = NULL \/ columns' \subseteq {Columns[j] : j \in DOMAIN Columns}
        /\ at' = "migrate" => columns' # NULL
    BY <1>10, <2>1 DEF Migrate
  <2> QED BY <1>10, <2>2 DEF Migrate
<1>11. CASE BackfillExt
  BY <1>11 DEF BackfillExt
<1>12. CASE RenameTrunk
  BY <1>12 DEF RenameTrunk, Renamed
<1>13. CASE SeedTrunk
  BY <1>13 DEF SeedTrunk
<1>14. CASE SeedBucket
  BY <1>14 DEF SeedBucket
<1>15. CASE Announce
  BY <1>15 DEF Announce
<1>16. CASE Listen
  BY <1>16 DEF Listen
<1>17. CASE Stop
  BY <1>0, <1>17 DEF Stop
<1>18. CASE Fail
  BY <1>0, <1>18 DEF Fail
<1>19. CASE UNCHANGED vars
  BY <1>19
<1> QED
  BY <1>1, <1>2, <1>3, <1>4, <1>5, <1>6, <1>7, <1>8, <1>9, <1>10, <1>11, <1>12, <1>13, <1>14,
      <1>15, <1>16, <1>17, <1>18, <1>19
  DEF Next, Start

\* Every step keeps the settings to what was asked for.
LEMMA SettingsStep ==
    ASSUME Types, Settings, [Next]_vars
    PROVE  Settings'
<1> USE BoundsAssumption, PortAssumption, HostAssumption DEF Types, TypeOK, Settings, Early,
Late, Buckets, Given, vars, disk, process, history, Down, NoEnv, NoCfg, Fault, Serving
<1>1. ASSUME NEW e \in Env, Boot(e) PROVE Settings'
  BY <1>1 DEF Boot, Env, Address, addrPort, addrWithPort
<1>2. ASSUME NEW p \in Photo, NEW e \in Ext, Upload(p, e) PROVE Settings'
  BY <1>2 DEF Upload
<1>3. ASSUME NEW p \in Photo, NEW e \in Ext, UpdateAssetName(p, e) PROVE Settings'
  BY <1>3 DEF UpdateAssetName
<1>4. ASSUME NEW b \in Buckets, DeleteBucket(b) PROVE Settings'
  BY <1>4 DEF DeleteBucket
<1>5. CASE ReadToken
  BY <1>5 DEF ReadToken
<1>6. CASE NewToken
  BY <1>6 DEF NewToken, Fresh, Token
<1>7. CASE WriteToken
  BY <1>7 DEF WriteToken
<1>8. CASE PrintToken
  BY <1>8 DEF PrintToken
<1>9. CASE Schema
  BY <1>9 DEF Schema
<1>10. CASE Migrate
  BY <1>10 DEF Migrate
<1>11. CASE BackfillExt
  BY <1>11 DEF BackfillExt
<1>12. CASE RenameTrunk
  BY <1>12 DEF RenameTrunk
<1>13. CASE SeedTrunk
  BY <1>13 DEF SeedTrunk
<1>14. CASE SeedBucket
  BY <1>14 DEF SeedBucket
<1>15. CASE Announce
  BY <1>15 DEF Announce
<1>16. CASE Listen
  BY <1>16 DEF Listen
<1>17. CASE Stop
  BY <1>17 DEF Stop
<1>18. CASE Fail
  BY <1>18 DEF Fail
<1>19. CASE UNCHANGED vars
  BY <1>19
<1> QED
  BY <1>1, <1>2, <1>3, <1>4, <1>5, <1>6, <1>7, <1>8, <1>9, <1>10, <1>11, <1>12, <1>13, <1>14,
      <1>15, <1>16, <1>17, <1>18, <1>19
  DEF Next, Start

\* Every step keeps the tokens.
LEMMA TokensStep ==
    ASSUME Types, Settings, Tokens, [Next]_vars
    PROVE  Tokens'
<1> USE TokenAssumption, BoundsAssumption DEF Types, TypeOK, Tokens, Early, Late, Buckets,
Token, Given, vars, disk, process, history, Down, NoEnv, NoCfg, Fault, Serving
<1>1. ASSUME NEW e \in Env, Boot(e) PROVE Tokens'
  BY <1>1 DEF Boot
<1>2. ASSUME NEW p \in Photo, NEW e \in Ext, Upload(p, e) PROVE Tokens'
  BY <1>2 DEF Upload
<1>3. ASSUME NEW p \in Photo, NEW e \in Ext, UpdateAssetName(p, e) PROVE Tokens'
  BY <1>3 DEF UpdateAssetName
<1>4. ASSUME NEW b \in Buckets, DeleteBucket(b) PROVE Tokens'
  BY <1>4 DEF DeleteBucket
<1>5. CASE ReadToken
  BY <1>5 DEF ReadToken, Settings
<1>6. CASE NewToken
  BY <1>6 DEF NewToken, Fresh, Settings
<1>7. CASE WriteToken
  BY <1>7 DEF WriteToken
<1>8. CASE PrintToken
  BY <1>8 DEF PrintToken
<1>9. CASE Schema
  BY <1>9 DEF Schema
<1>10. CASE Migrate
  BY <1>10 DEF Migrate
<1>11. CASE BackfillExt
  BY <1>11 DEF BackfillExt
<1>12. CASE RenameTrunk
  BY <1>12 DEF RenameTrunk
<1>13. CASE SeedTrunk
  BY <1>13 DEF SeedTrunk
<1>14. CASE SeedBucket
  BY <1>14 DEF SeedBucket
<1>15. CASE Announce
  BY <1>15 DEF Announce
<1>16. CASE Listen
  BY <1>16 DEF Listen
<1>17. CASE Stop
  BY <1>17 DEF Stop
<1>18. CASE Fail
  BY <1>18 DEF Fail
<1>19. CASE UNCHANGED vars
  BY <1>19
<1> QED
  BY <1>1, <1>2, <1>3, <1>4, <1>5, <1>6, <1>7, <1>8, <1>9, <1>10, <1>11, <1>12, <1>13, <1>14,
      <1>15, <1>16, <1>17, <1>18, <1>19
  DEF Next, Start

\* Every step keeps the roots.
LEMMA RootsStep ==
    ASSUME Types, Roots, [Next]_vars
    PROVE  Roots'
<1> USE DEF Types, Roots, Early, Late, Buckets, RootNames, Renamed, vars, disk, process,
history, Down, NoEnv, NoCfg, Fault, Serving
<1>1. ASSUME NEW e \in Env, Boot(e) PROVE Roots'
  BY <1>1 DEF Boot
<1>2. ASSUME NEW p \in Photo, NEW e \in Ext, Upload(p, e) PROVE Roots'
  BY <1>2 DEF Upload
<1>3. ASSUME NEW p \in Photo, NEW e \in Ext, UpdateAssetName(p, e) PROVE Roots'
  BY <1>3 DEF UpdateAssetName
<1>4. ASSUME NEW b \in Buckets, DeleteBucket(b) PROVE Roots'
  BY <1>4 DEF DeleteBucket
<1>5. CASE ReadToken
  BY <1>5 DEF ReadToken
<1>6. CASE NewToken
  BY <1>6 DEF NewToken
<1>7. CASE WriteToken
  BY <1>7 DEF WriteToken
<1>8. CASE PrintToken
  BY <1>8 DEF PrintToken
<1>9. CASE Schema
  BY <1>9 DEF Schema
<1>10. CASE Migrate
  BY <1>10 DEF Migrate
<1>11. CASE BackfillExt
  BY <1>11 DEF BackfillExt
<1>12. CASE RenameTrunk
  BY <1>12 DEF RenameTrunk
<1>13. CASE SeedTrunk
  BY <1>13 DEF SeedTrunk
<1>14. CASE SeedBucket
  BY <1>14 DEF SeedBucket
<1>15. CASE Announce
  BY <1>15 DEF Announce
<1>16. CASE Listen
  BY <1>16 DEF Listen
<1>17. CASE Stop
  BY <1>17 DEF Stop
<1>18. CASE Fail
  BY <1>18 DEF Fail
<1>19. CASE UNCHANGED vars
  BY <1>19
<1> QED
  BY <1>1, <1>2, <1>3, <1>4, <1>5, <1>6, <1>7, <1>8, <1>9, <1>10, <1>11, <1>12, <1>13, <1>14,
      <1>15, <1>16, <1>17, <1>18, <1>19
  DEF Next, Start

\* Every step keeps the extensions.
LEMMA ExtensionsStep ==
    ASSUME Types, Extensions, [Next]_vars
    PROVE  Extensions'
<1> USE ColumnsAssumption DEF Types, TypeOK, Extensions, ExtKept, Named, Early, Late, Buckets,
Row, vars, disk, process, history, Down, NoEnv, NoCfg, Fault, Serving
<1>1. ASSUME NEW e \in Env, Boot(e) PROVE Extensions'
  BY <1>1 DEF Boot
<1>2. ASSUME NEW p \in Photo, NEW e \in Ext, Upload(p, e) PROVE Extensions'
  BY <1>2 DEF Upload
<1>3. ASSUME NEW p \in Photo, NEW e \in Ext, UpdateAssetName(p, e) PROVE Extensions'
  BY <1>3 DEF UpdateAssetName
<1>4. ASSUME NEW b \in Buckets, DeleteBucket(b) PROVE Extensions'
  BY <1>4 DEF DeleteBucket
<1>5. CASE ReadToken
  BY <1>5 DEF ReadToken
<1>6. CASE NewToken
  BY <1>6 DEF NewToken
<1>7. CASE WriteToken
  BY <1>7 DEF WriteToken
<1>8. CASE PrintToken
  BY <1>8 DEF PrintToken
<1>9. CASE Schema
  BY <1>9 DEF Schema, Columns
<1>10. CASE Migrate
  <2>1. CASE Missing = {}
    <3>1. "ext" \in columns
      BY <2>1 DEF Missing, Columns
    <3> QED BY <1>10, <2>1, <3>1 DEF Migrate
  <2>2. ASSUME NEW i \in Missing, columns' = columns \cup {Columns[i]},
               added' = (added \/ Columns[i] = "ext"), UNCHANGED <<at, rest>>
        PROVE  Extensions'
    <3>1. Columns[i] \in {Columns[j] : j \in DOMAIN Columns}
      BY DEF Missing
    <3>2. columns # NULL /\ columns' # NULL
      BY <1>10, <2>2, <3>1 DEF Migrate
    <3>3. added' => Named
      BY <1>10, <2>2 DEF Migrate, Missing
    <3> QED BY <1>10, <2>2, <3>2, <3>3 DEF Migrate
  <2> QED BY <1>10, <2>1, <2>2 DEF Migrate
<1>11. CASE BackfillExt
  BY <1>11 DEF BackfillExt
<1>12. CASE RenameTrunk
  BY <1>12 DEF RenameTrunk
<1>13. CASE SeedTrunk
  BY <1>13 DEF SeedTrunk
<1>14. CASE SeedBucket
  BY <1>14 DEF SeedBucket
<1>15. CASE Announce
  BY <1>15 DEF Announce
<1>16. CASE Listen
  BY <1>16 DEF Listen
<1>17. CASE Stop
  BY <1>17 DEF Stop
<1>18. CASE Fail
  BY <1>18 DEF Fail
<1>19. CASE UNCHANGED vars
  BY <1>19
<1> QED
  BY <1>1, <1>2, <1>3, <1>4, <1>5, <1>6, <1>7, <1>8, <1>9, <1>10, <1>11, <1>12, <1>13, <1>14,
      <1>15, <1>16, <1>17, <1>18, <1>19
  DEF Next, Start

IInv == Types /\ Settings /\ Tokens /\ Roots /\ Extensions

LEMMA Invariance == Spec => []IInv
<1>1. Init => IInv
  BY InitTypes DEF IInv
<1>2. IInv /\ [Next]_vars => IInv'
  BY TypesStep, SettingsStep, TokensStep, RootsStep, ExtensionsStep DEF IInv
<1> QED BY <1>1, <1>2, PTL DEF Spec

\* The types hold, for any library and any number of starts.
THEOREM TypeCorrect == Spec => []TypeOK
BY Invariance, PTL DEF IInv, Types

\* The token once printed stays the one in config.json: a start draws another only
\* when it has read that there is none, and prints it only when it is saved.
THEOREM PrintedTokenIsSaved == Spec => []TokenKept
<1>1. IInv => TokenKept
  BY DEF IInv, Tokens, TokenKept
<1> QED BY <1>1, Invariance, PTL

\* When a start has seeded the trunks there is one shared trunk, with its buckets,
\* whatever mixture of old and new names it found.
THEOREM SeedingSettlesTrunks == Spec => []OneTrunk
<1>1. IInv => OneTrunk
  BY DEF IInv, Roots, Types, TypeOK, RootNames, Buckets, OneTrunk
<1> QED BY <1>1, Invariance, PTL

\* An extension is the one the photo came with, or missing.
THEOREM ExtensionsAreOriginal == Spec => []ExtKept
BY Invariance, PTL DEF IInv, Extensions

\* What is announced is what is listened on, where the operator wanted it.
THEOREM AnnouncedIsListenedOn == Spec => []Reachable
<1>1. IInv => Reachable
  BY DEF IInv, Settings, Reachable
<1> QED BY <1>1, Invariance, PTL

\* A start ends before it serves only by a failure of its own.
THEOREM StartsGetThrough == Spec => GetsThrough
<1>1. IInv /\ [Next]_vars => [at' = "down" /\ at \notin {"down",
"serve"} => faults' < faults]_vars
  <2> SUFFICES ASSUME IInv, Next, at' = "down", at \notin {"down", "serve"}
               PROVE  faults' < faults
    OBVIOUS
  <2>1. Fail
    BY DEF Next, Start, Boot, ReadToken, NewToken, WriteToken, PrintToken, Schema, Migrate,
           BackfillExt, RenameTrunk, SeedTrunk, SeedBucket, Announce, Listen, Stop,
           Upload, UpdateAssetName, DeleteBucket, Serving
  <2> QED BY <2>1, BoundsAssumption DEF Fail, Fault, IInv, Types, TypeOK
<1> QED BY <1>1, Invariance, PTL DEF Spec, GetsThrough
=============================================================================
