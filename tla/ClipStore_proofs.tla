-------------------------- MODULE ClipStore_proofs --------------------------
(***************************************************************************)
(* ClipStore for every set of uuids, mimes, contents and times, and every  *)
(* ring size: the database is sound in every reachable state, an item's    *)
(* stored bytes never change, and pruning never takes the newest item.     *)
(***************************************************************************)
EXTENDS ClipStore, FiniteSetTheorems, TLAPS

LEMMA StoreTypeInit == StoreInit => StoreTypeOK
BY DEF StoreInit, StoreTypeOK

(* What insert_mimes adds are rows of the item it is called for.           *)
LEMMA InsertMimesRows ==
  ASSUME NEW u, NEW m, NEW b, NEW extras,
         NEW r \in InsertMimes(u, m, b, extras)
  PROVE  \/ r \in rows
         \/ /\ r.uuid = u
            /\ \/ r.mime = m /\ r.bytes = b
               \/ \E x \in extras : x.mime # m /\ r.mime = x.mime /\ r.bytes = x.bytes
            /\ ~\E q \in rows : q.uuid = u /\ q.mime = r.mime
BY DEF InsertMimes

LEMMA InsertMimesType ==
  ASSUME rows \subseteq Row,
         NEW u \in Uuid, NEW m \in Mime, NEW b \in Bytes, NEW extras \in Extra
  PROVE  InsertMimes(u, m, b, extras) \subseteq Row
BY DEF InsertMimes, Row, Extra, Part

LEMMA StoreTypeStep == StoreTypeOK /\ [StoreNext]_storeVars => StoreTypeOK'
<1> SUFFICES ASSUME StoreTypeOK, [StoreNext]_storeVars PROVE StoreTypeOK'
  OBVIOUS
<1>1. ASSUME NEW m \in Mime, NEW b \in Bytes, NEW extras \in Extra, NEW ts \in Time,
             NEW u \in DOMAIN items, RecordHit(u, m, b, extras, ts)
      PROVE  StoreTypeOK'
  <2>1. rows' \subseteq Row
    BY <1>1, InsertMimesType DEF RecordHit, StoreTypeOK
  <2>2. DOMAIN items' = DOMAIN items /\ items' \in [DOMAIN items -> Item]
    BY <1>1 DEF RecordHit, StoreTypeOK, Item
  <2> QED BY <1>1, <2>1, <2>2 DEF RecordHit, StoreTypeOK
<1>2. ASSUME NEW m \in Mime, NEW b \in Bytes, NEW extras \in Extra, NEW ts \in Time,
             NEW u \in Uuid \ minted, RecordMiss(u, m, b, extras, ts)
      PROVE  StoreTypeOK'
  <2>1. rows' \subseteq Row
    BY <1>2, InsertMimesType DEF RecordMiss, StoreTypeOK
  <2>2. DOMAIN items' = DOMAIN items \cup {u} /\ items' \in [DOMAIN items' -> Item]
    BY <1>2 DEF RecordMiss, StoreTypeOK, Item
  <2> QED BY <1>2, <2>1, <2>2 DEF RecordMiss, StoreTypeOK
<1>3. ASSUME NEW u \in Uuid, NEW ts \in Time, Touch(u, ts)
      PROVE  StoreTypeOK'
  BY <1>3 DEF Touch, StoreTypeOK, Item
<1>4. ASSUME Prune PROVE StoreTypeOK'
  <2> PICK keep \in Survivors : /\ items' = [u \in keep |-> items[u]]
                                /\ rows' = {r \in rows : r.uuid \in keep}
                                /\ UNCHANGED minted
    BY <1>4 DEF Prune
  <2>1. keep \subseteq DOMAIN items
    BY DEF Survivors
  <2> QED BY <2>1 DEF StoreTypeOK
<1>5. CASE UNCHANGED storeVars
  BY <1>5 DEF storeVars, StoreTypeOK
<1> QED BY <1>1, <1>2, <1>3, <1>4, <1>5 DEF StoreNext, Record

(* Type correctness of the two tables.                                     *)
THEOREM StoreType == StoreSpec => []StoreTypeOK
<1> QED BY StoreTypeInit, StoreTypeStep, PTL DEF StoreSpec

-----------------------------------------------------------------------------
LEMMA SoundInit == StoreInit => StoreSound
BY DEF StoreInit, StoreSound, PrimaryStored, UniqueHash, RowKeys

(* insert_mimes keeps (item_uuid, mime) a key.                             *)
LEMMA InsertMimesKey ==
  ASSUME RowKeys, NEW u, NEW m, NEW b, NEW extras \in Extra,
         NEW r \in InsertMimes(u, m, b, extras), NEW q \in InsertMimes(u, m, b, extras),
         r.uuid = q.uuid, r.mime = q.mime
  PROVE  r = q
<1>1. CASE r \in rows /\ q \in rows
  BY <1>1 DEF RowKeys
<1>2. CASE r \in rows /\ q \notin rows
  BY <1>2, InsertMimesRows
<1>3. CASE r \notin rows /\ q \in rows
  BY <1>3, InsertMimesRows
<1>4. CASE r \notin rows /\ q \notin rows
  <2> DEFINE parts == {[mime |-> m, bytes |-> b]} \cup {x \in extras : x.mime # m}
  <2>1. \A x, y \in parts : x.mime = y.mime => x.bytes = y.bytes
    BY DEF Extra
  <2>2. PICK x \in parts : r = [uuid |-> u, mime |-> x.mime, bytes |-> x.bytes]
    BY <1>4 DEF InsertMimes
  <2>3. PICK y \in parts : q = [uuid |-> u, mime |-> y.mime, bytes |-> y.bytes]
    BY <1>4 DEF InsertMimes
  <2> QED BY <2>1, <2>2, <2>3
<1> QED BY <1>1, <1>2, <1>3, <1>4

(* A hit leaves every hash alone and only adds rows of its own item.       *)
LEMMA SoundHit ==
  ASSUME StoreTypeOK, StoreSound, NEW m \in Mime, NEW b \in Bytes,
         NEW extras \in Extra, NEW ts \in Time,
         NEW u \in DOMAIN items, RecordHit(u, m, b, extras, ts)
  PROVE  StoreSound'
<1>1. /\ DOMAIN items' = DOMAIN items
      /\ \A v \in DOMAIN items : /\ items'[v].hash = items[v].hash
                                 /\ items'[v].primary = items[v].primary
  BY DEF RecordHit, StoreTypeOK, Item
<1>2. rows' = InsertMimes(u, m, b, extras) /\ rows \subseteq rows'
  BY DEF RecordHit, InsertMimes
<1>3. PrimaryStored'
  BY <1>1, <1>2 DEF StoreSound, PrimaryStored
<1>4. UniqueHash'
  BY <1>1 DEF StoreSound, UniqueHash
<1>5. RowKeys'
  <2>1. \A r \in rows' : r.uuid \in DOMAIN items'
    BY <1>1, <1>2, InsertMimesRows DEF StoreSound, RowKeys
  <2>2. \A r, q \in rows' : r.uuid = q.uuid /\ r.mime = q.mime => r = q
    BY <1>2, InsertMimesKey DEF StoreSound
  <2> QED BY <2>1, <2>2 DEF RowKeys
<1> QED BY <1>3, <1>4, <1>5 DEF StoreSound

(* A miss inserts an item under a uuid no row carries yet, so its primary  *)
(* content really goes in.                                                 *)
LEMMA SoundMiss ==
  ASSUME StoreTypeOK, StoreSound, NEW m \in Mime, NEW b \in Bytes,
         NEW extras \in Extra, NEW ts \in Time,
         NEW u \in Uuid \ minted, RecordMiss(u, m, b, extras, ts)
  PROVE  StoreSound'
<1>0. u \notin DOMAIN items
  BY DEF StoreTypeOK
<1>1. /\ DOMAIN items' = DOMAIN items \cup {u}
      /\ \A v \in DOMAIN items : items'[v] = items[v]
      /\ items'[u].hash = b /\ items'[u].primary = m
  BY <1>0 DEF RecordMiss
<1>2. rows' = InsertMimes(u, m, b, extras) /\ rows \subseteq rows'
  BY DEF RecordMiss, InsertMimes
<1>3. [uuid |-> u, mime |-> m, bytes |-> b] \in rows'
  <2>1. \A r \in rows : r.uuid # u
    BY <1>0 DEF StoreSound, RowKeys
  <2> DEFINE part == [mime |-> m, bytes |-> b]
             parts == {part} \cup {x \in extras : x.mime # m}
             unstored == {x \in parts : ~\E r \in rows : r.uuid = u /\ r.mime = x.mime}
  <2>2. part \in unstored
    BY <2>1
  <2>3. rows' = rows \cup {[uuid |-> u, mime |-> x.mime, bytes |-> x.bytes] : x \in unstored}
    BY <1>2 DEF InsertMimes
  <2>4. part.mime = m /\ part.bytes = b
    OBVIOUS
  <2> HIDE DEF part, unstored
  <2>5. [uuid |-> u, mime |-> part.mime, bytes |-> part.bytes] \in rows'
    BY <2>2, <2>3
  <2> QED BY <2>4, <2>5
<1>4. PrimaryStored'
  <2>1. ASSUME NEW v \in DOMAIN items
        PROVE  \E r \in rows' : /\ r.uuid = v /\ r.mime = items'[v].primary
                                /\ r.bytes = items'[v].hash
    BY <1>1, <1>2 DEF StoreSound, PrimaryStored
  <2>2. \E r \in rows' : /\ r.uuid = u /\ r.mime = items'[u].primary
                         /\ r.bytes = items'[u].hash
    BY <1>1, <1>3
  <2> QED BY <1>1, <2>1, <2>2 DEF PrimaryStored
<1>5. UniqueHash'
  <2>1. \A v \in DOMAIN items : items[v].hash # b
    BY DEF RecordMiss
  <2> QED BY <1>1, <2>1 DEF StoreSound, UniqueHash
<1>6. RowKeys'
  <2>1. \A r \in rows' : r.uuid \in DOMAIN items'
    BY <1>1, <1>2, InsertMimesRows DEF StoreSound, RowKeys
  <2>2. \A r, q \in rows' : r.uuid = q.uuid /\ r.mime = q.mime => r = q
    BY <1>2, InsertMimesKey DEF StoreSound
  <2> QED BY <2>1, <2>2 DEF RowKeys
<1> QED BY <1>4, <1>5, <1>6 DEF StoreSound

LEMMA SoundPrune == ASSUME StoreSound, Prune PROVE StoreSound'
<1> PICK keep \in Survivors : /\ items' = [u \in keep |-> items[u]]
                              /\ rows' = {r \in rows : r.uuid \in keep}
  BY DEF Prune
<1>1. keep \subseteq DOMAIN items
  BY DEF Survivors
<1>2. PrimaryStored'
  BY <1>1 DEF StoreSound, PrimaryStored
<1>3. UniqueHash'
  BY <1>1 DEF StoreSound, UniqueHash
<1>4. RowKeys'
  BY DEF StoreSound, RowKeys
<1> QED BY <1>2, <1>3, <1>4 DEF StoreSound

LEMMA SoundTouch ==
  ASSUME StoreTypeOK, StoreSound, NEW u \in Uuid, NEW ts \in Time, Touch(u, ts)
  PROVE  StoreSound'
<1>1. /\ DOMAIN items' = DOMAIN items /\ rows' = rows
      /\ \A v \in DOMAIN items : /\ items'[v].hash = items[v].hash
                                 /\ items'[v].primary = items[v].primary
  BY DEF Touch, StoreTypeOK, Item
<1> QED BY <1>1 DEF StoreSound, PrimaryStored, UniqueHash, RowKeys

LEMMA SoundStep ==
  StoreTypeOK /\ StoreSound /\ [StoreNext]_storeVars => StoreSound'
<1> SUFFICES ASSUME StoreTypeOK, StoreSound, [StoreNext]_storeVars PROVE StoreSound'
  OBVIOUS
<1>1. CASE UNCHANGED storeVars
  BY <1>1 DEF storeVars, StoreSound, PrimaryStored, UniqueHash, RowKeys
<1>2. CASE StoreNext
  BY <1>2, SoundHit, SoundMiss, SoundTouch, SoundPrune DEF StoreNext, Record
<1> QED BY <1>1, <1>2

(* The tables are sound in every reachable state (db.rs and model.rs:44):  *)
(* an entry the launcher lists always has the content of its primary mime, *)
(* its hash belongs to no other entry, and its rows are its own.           *)
THEOREM StoreIsSound == StoreSpec => []StoreSound
<1> QED BY StoreType, SoundInit, SoundStep, PTL DEF StoreSpec

-----------------------------------------------------------------------------
(* What is stored under a mime stays what it is while the item lives, for  *)
(* every operation (db.rs insert_mimes, INSERT OR IGNORE; prune).          *)
THEOREM StoredBytes == StoreSpec => StoredBytesStable
<1> DEFINE Kept == \A r \in rows : r.uuid \in DOMAIN items' => r \in rows'
<1>1. ASSUME [StoreNext]_storeVars PROVE Kept \/ UNCHANGED storeVars
  <2>1. ASSUME NEW m \in Mime, NEW b \in Bytes, NEW extras \in Extra, NEW ts \in Time,
               Record(m, b, extras, ts)
        PROVE  Kept
    BY <2>1 DEF Record, RecordHit, RecordMiss, InsertMimes
  <2>2. ASSUME NEW u \in Uuid, NEW ts \in Time, Touch(u, ts) PROVE Kept
    BY <2>2 DEF Touch
  <2>3. ASSUME Prune PROVE Kept
    BY <2>3 DEF Prune
  <2> QED BY <1>1, <2>1, <2>2, <2>3 DEF StoreNext
<1> QED BY <1>1, PTL DEF StoreSpec, StoredBytesStable

(* Whatever the wall clock does, prune keeps the item used strictly last.  *)
LEMMA SurvivorNewest ==
  ASSUME StoreTypeOK, NEW keep \in Survivors, NEW u \in DOMAIN items,
         \A v \in DOMAIN items \ {u} : items[u].used > items[v].used
  PROVE  u \in keep
<1> SUFFICES ASSUME u \notin keep PROVE FALSE
  OBVIOUS
<1>1. \A v \in DOMAIN items : items[v].used \in Nat
  BY StoreAssumption DEF StoreTypeOK, Item
<1>2. Cardinality(keep) = Ring /\ keep \subseteq DOMAIN items
  BY DEF Survivors
<1>3. keep # {}
  BY <1>2, StoreAssumption, FS_EmptySet
<1>4. PICK k \in keep : TRUE
  BY <1>3
<1>5. items[k].used >= items[u].used
  BY <1>4 DEF Survivors
<1>6. items[u].used > items[k].used
  BY <1>2
<1> QED BY <1>1, <1>2, <1>5, <1>6

THEOREM NewestStays == StoreSpec => NewestKept
<1> DEFINE Stays ==
      \A u \in DOMAIN items :
        (\A v \in DOMAIN items \ {u} : items[u].used > items[v].used)
          => u \in DOMAIN items'
<1>1. ASSUME StoreTypeOK, [StoreNext]_storeVars PROVE Stays \/ UNCHANGED storeVars
  <2>1. ASSUME NEW m \in Mime, NEW b \in Bytes, NEW extras \in Extra, NEW ts \in Time,
               Record(m, b, extras, ts)
        PROVE  Stays
    BY <2>1 DEF Record, RecordHit, RecordMiss
  <2>2. ASSUME NEW u \in Uuid, NEW ts \in Time, Touch(u, ts) PROVE Stays
    BY <2>2 DEF Touch
  <2>3. ASSUME Prune PROVE Stays
    BY <1>1, <2>3, SurvivorNewest DEF Prune
  <2> QED BY <1>1, <2>1, <2>2, <2>3 DEF StoreNext
<1> QED BY <1>1, StoreType, PTL DEF StoreSpec, NewestKept
=============================================================================
