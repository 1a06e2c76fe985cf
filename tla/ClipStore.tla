----------------------------- MODULE ClipStore -----------------------------
(***************************************************************************)
(* The clipboard database of zofi-clipd (crates/zofi-clipd/src/db.rs): two *)
(* tables, items and mimes, and the operations the daemon and the import   *)
(* command run on them.  Each operation is one SQLite transaction, hence   *)
(* one step.  blake3 is taken as injective, so an item's primary_hash is   *)
(* the primary content itself.  kind, preview and created_at are functions *)
(* of what an item is first recorded with and are left out.                *)
(***************************************************************************)
EXTENDS Naturals, FiniteSets

CONSTANTS
  Uuid,    \* the v4 uuids that can be drawn
  Mime,    \* the mime names rows can carry
  Bytes,   \* non-empty contents
  Time,    \* the values unix_now() can return, in any order
  Ring     \* DEFAULT_RING_SIZE

ASSUME StoreAssumption == Time \subseteq Nat /\ Ring \in Nat \ {0}

VARIABLES
  items,   \* table items: uuid -> the columns other operations look at
  rows,    \* table mimes
  minted   \* every uuid ever drawn (v4 never repeats one)

storeVars == <<items, rows, minted>>

Item == [primary : Mime, hash : Bytes, used : Time]
Row  == [uuid : Uuid, mime : Mime, bytes : Bytes]
Part == [mime : Mime, bytes : Bytes]             \* model::MimeContent

(* What can be passed as extras: one content per mime.                     *)
Extra == {x \in SUBSET Part : \A p, q \in x : p.mime = q.mime => p = q}

StoreTypeOK ==
  /\ minted \subseteq Uuid
  /\ DOMAIN items \subseteq minted
  /\ items \in [DOMAIN items -> Item]
  /\ rows \subseteq Row

StoreInit ==
  /\ items = [u \in {} |-> {}]
  /\ rows = {}
  /\ minted = {}

(* Mutant: INSERT OR REPLACE.                                              *)
InsertMimesReplace(u, primary, content, extras) ==
  LET parts == {[mime |-> primary, bytes |-> content]}
                 \cup {x \in extras : x.mime # primary}
  IN  {r \in rows : ~(r.uuid = u /\ \E x \in parts : x.mime = r.mime)}
        \cup {[uuid |-> u, mime |-> x.mime, bytes |-> x.bytes] : x \in parts}

(* insert_mimes: the primary mime, then every extra whose mime differs,    *)
(* each INSERT OR IGNORE against the primary key (item_uuid, mime).        *)
InsertMimes(u, primary, content, extras) ==
  LET parts == {[mime |-> primary, bytes |-> content]}
                 \cup {x \in extras : x.mime # primary}
      fresh == {x \in parts : ~\E r \in rows : r.uuid = u /\ r.mime = x.mime}
  IN  rows \cup {[uuid |-> u, mime |-> x.mime, bytes |-> x.bytes] : x \in fresh}

(* record_with_ts: one row per distinct primary content.  A hit refreshes  *)
(* last_used_at and merges the mimes; a miss inserts under a new uuid.     *)
RecordHit(u, primary, content, extras, ts) ==
  /\ items[u].hash = content
  /\ items' = [items EXCEPT ![u].used = ts]
  /\ rows' = InsertMimes(u, primary, content, extras)
  /\ UNCHANGED minted

(* Mutants: the lookup by primary_hash forgotten; a uuid not drawn afresh.  *)
RecordMissNoLookup(u, primary, content, extras, ts) ==
  /\ items' = [v \in DOMAIN items \cup {u} |->
                 IF v = u
                   THEN [primary |-> primary, hash |-> content, used |-> ts]
                   ELSE items[v]]
  /\ rows' = InsertMimes(u, primary, content, extras)
  /\ minted' = minted \cup {u}

RecordMissFixedUuid(u, primary, content, extras, ts) ==
  /\ \A v \in DOMAIN items : items[v].hash # content
  /\ items' = [v \in DOMAIN items \cup {u} |->
                 IF v = u
                   THEN [primary |-> primary, hash |-> content, used |-> ts]
                   ELSE items[v]]
  /\ rows' = InsertMimes(u, primary, content, extras)
  /\ UNCHANGED minted

RecordMiss(u, primary, content, extras, ts) ==
  /\ \A v \in DOMAIN items : items[v].hash # content
  /\ items' = [v \in DOMAIN items \cup {u} |->
                 IF v = u
                   THEN [primary |-> primary, hash |-> content, used |-> ts]
                   ELSE items[v]]
  /\ rows' = InsertMimes(u, primary, content, extras)
  /\ minted' = minted \cup {u}

Record(primary, content, extras, ts) ==
  \/ \E u \in DOMAIN items : RecordHit(u, primary, content, extras, ts)
  \/ \E u \in Uuid \ minted : RecordMiss(u, primary, content, extras, ts)

(* touch: UPDATE of a uuid that is gone changes no row and is no error.    *)
Touch(u, ts) ==
  /\ items' = IF u \in DOMAIN items
                THEN [items EXCEPT ![u].used = ts] ELSE items
  /\ UNCHANGED <<rows, minted>>

(* Mutant: ORDER BY last_used_at without DESC.                             *)
SurvivorsAscending ==
  {keep \in SUBSET DOMAIN items :
     /\ Cardinality(keep) <= Ring
     /\ Cardinality(keep) = Ring \/ keep = DOMAIN items
     /\ \A k \in keep, d \in DOMAIN items \ keep :
          items[k].used <= items[d].used}

(* prune: the survivors are the first Ring items by last_used_at DESC; the *)
(* order of equal timestamps is SQLite's choice.  Foreign keys are ON, so  *)
(* the mimes of a deleted item go with it (ON DELETE CASCADE).             *)
Survivors ==
  {keep \in SUBSET DOMAIN items :
     /\ Cardinality(keep) <= Ring
     /\ Cardinality(keep) = Ring \/ keep = DOMAIN items
     /\ \A k \in keep, d \in DOMAIN items \ keep :
          items[k].used >= items[d].used}

Prune ==
  \E keep \in Survivors :
    /\ items' = [u \in keep |-> items[u]]
    /\ rows' = {r \in rows : r.uuid \in keep}
    /\ UNCHANGED minted

(* get + content_for: the bytes stored for an item under a mime.           *)
ContentFor(u, m) == {r.bytes : r \in {x \in rows : x.uuid = u /\ x.mime = m}}

(* What the two processes that open the database may do to it: record a    *)
(* capture, a request or an imported entry, touch, prune.                  *)
StoreNext ==
  \/ \E m \in Mime, b \in Bytes, extras \in Extra, ts \in Time :
       Record(m, b, extras, ts)
  \/ \E u \in Uuid, ts \in Time : Touch(u, ts)
  \/ Prune

StoreSpec == StoreInit /\ [][StoreNext]_storeVars

-----------------------------------------------------------------------------
(* Every item keeps the content of its primary mime, the one its hash was  *)
(* taken from (model.rs:44, "Always contains at least primary_mime"); no   *)
(* two items share a hash; (item_uuid, mime) is a key; and no row outlives *)
(* its item, whatever sequence of record, merge, touch and prune led here. *)
PrimaryStored ==
  \A u \in DOMAIN items :
    \E r \in rows : /\ r.uuid = u
                    /\ r.mime = items[u].primary
                    /\ r.bytes = items[u].hash

UniqueHash ==
  \A u, v \in DOMAIN items : items[u].hash = items[v].hash => u = v

RowKeys ==
  /\ \A r \in rows : r.uuid \in DOMAIN items
  /\ \A r, q \in rows : r.uuid = q.uuid /\ r.mime = q.mime => r = q

StoreSound == PrimaryStored /\ UniqueHash /\ RowKeys

(* A stored representation is immutable: as long as an item lives, what it *)
(* holds under a mime is what a client saw listed, however often the same  *)
(* content is captured again with other extras.                            *)
StoredBytesStable ==
  [][\A r \in rows : r.uuid \in DOMAIN items' => r \in rows']_storeVars

(* The item used strictly last is never deleted: no sequence of imports,   *)
(* captures and prunes loses the entry at the top of the list.             *)
NewestKept ==
  [][\A u \in DOMAIN items :
       (\A v \in DOMAIN items \ {u} : items[u].used > items[v].used)
         => u \in DOMAIN items']_storeVars
=============================================================================
