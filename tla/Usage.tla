------------------------------- MODULE Usage --------------------------------
(* The usage tracker (crates/zofi/src/usage.rs): each launcher reads all     *)
(* counts when it starts, ranks with them, and counts what it activates      *)
(* there and in the database. Several launchers may run. The scores (a       *)
(* logarithm that decays with the days) and last_used are left out.         *)
EXTENDS Naturals

CONSTANTS Key,       \* (source, item_key) pairs
          Tracker,   \* launcher processes
          MaxUses    \* bound: activations counted

VARIABLES
  usage,     \* the table in the state directory: key -> count
  trackers,  \* process -> the database it has open, or "none", and its map
  uses       \* activations whose UPSERT succeeded on disk (history)

usageVars == <<usage, trackers, uses>>

NoUse == [k \in Key |-> 0]
Gone == [db |-> "none", map |-> NoUse]

UsageInit == usage = NoUse /\ uses = NoUse /\ trackers = [t \in Tracker |-> Gone]

(* open, else open_in_memory: then nothing is kept.                         *)
OpenTracker(t) ==
  /\ trackers[t] = Gone
  /\ trackers' \in {[trackers EXCEPT ![t] = [db |-> "disk", map |-> usage]],
                    [trackers EXCEPT ![t] = [db |-> "memory", map |-> NoUse]]}
  /\ UNCHANGED <<usage, uses>>

(* Mutant of Upsert: the row takes the count of the map.                    *)
UpsertMapped(table, k, map) == [table EXCEPT ![k] = map[k] + 1]

(* INSERT ... ON CONFLICT DO UPDATE SET count = count + 1.                  *)
Upsert(table, k, map) == [table EXCEPT ![k] = @ + 1]

(* record, the last thing a launcher does; the write may fail.              *)
CountUse(t, k) ==
  /\ trackers[t] # Gone /\ uses[k] < MaxUses
  /\ \/ trackers[t].db = "disk" /\ usage' = Upsert(usage, k, trackers[t].map)
        /\ uses' = [uses EXCEPT ![k] = @ + 1]
     \/ UNCHANGED <<usage, uses>>
  /\ trackers' = [trackers EXCEPT ![t] = Gone]

(* It was dismissed, or killed.                                             *)
CloseTracker(t) ==
  trackers[t] # Gone /\ trackers' = [trackers EXCEPT ![t] = Gone] /\ UNCHANGED <<usage, uses>>

UsageNext ==
  \E t \in Tracker :
    OpenTracker(t) \/ CloseTracker(t) \/ \E k \in Key : CountUse(t, k)

UsageSpec == UsageInit /\ [][UsageNext]_usageVars

UsageType ==
  /\ usage \in [Key -> Nat] /\ uses \in [Key -> Nat]
  /\ trackers \in [Tracker -> [db : {"none", "disk", "memory"}, map : [Key -> Nat]]]

(* usage.rs:138-156. Launchers that run side by side rank with counts that   *)
(* grow old, but no activation of one is lost to the write of another, and   *)
(* none ranks with more uses than there were.                               *)
CountsAddUp ==
  usage = uses /\ \A t \in Tracker, k \in Key : trackers[t].map[k] <= uses[k]
=============================================================================
