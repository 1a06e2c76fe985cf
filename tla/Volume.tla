------------------------------- MODULE Volume -------------------------------
(* The volume module of zbar: a thread follows "pactl subscribe" and reads   *)
(* the default sink for each of its lines; the GUI thread shows the result.  *)
EXTENDS Naturals, Sequences

CONSTANTS Sink         \* what the sink can be: a volume and whether it is muted
CONSTANTS Unread       \* (None, false): neither wpctl nor pactl answered
CONSTANTS VolumeCap    \* capacity of the channel to the GUI thread
CONSTANTS MaxVolumes   \* bound: changes of the sink

ASSUME VolumeAssumption ==
  Unread \notin Sink /\ VolumeCap \in Nat \ {0} /\ MaxVolumes \in Nat

VARIABLES
  sink, volumes,
  pactl,     \* the subscription: "spawn", "lines", "read" or "sleep"
  sinkLines, \* lines about the sink that the thread has not read
  reading,   \* the volume it has read for the line at hand
  volQueue,  \* volumes queued for the GUI thread
  volume,    \* the volume the module shows
  owed       \* a change that no line, reading or queued volume covers (history)

volumeVars == <<sink, volumes, pactl, sinkLines, reading, volQueue, volume, owed>>

VolumeInit ==
  /\ sink \in Sink /\ volumes = 0 /\ pactl = "spawn" /\ sinkLines = 0
  /\ reading = Unread /\ volQueue = <<>> /\ volume \in {sink, Unread}
  /\ owed = (volume # sink)

(* Somebody, set_percent among them, changes the sink.                      *)
SinkChanges ==
  /\ volumes < MaxVolumes /\ volumes' = volumes + 1 /\ sink' \in Sink \ {sink}
  /\ IF pactl \in {"lines", "read"} THEN sinkLines' = sinkLines + 1 /\ UNCHANGED owed
     ELSE owed' = TRUE /\ UNCHANGED sinkLines
  /\ UNCHANGED <<pactl, reading, volQueue, volume>>

Subscribes ==
  /\ pactl = "spawn" /\ pactl' \in {"lines", "sleep"}
  /\ UNCHANGED <<sink, volumes, sinkLines, reading, volQueue, volume, owed>>

(* pactl ends or breaks off; the child is reaped and spawned again after a  *)
(* delay. Nothing is read again for the time in between.                    *)
SubscriptionEnds ==
  /\ pactl = "lines" /\ pactl' = "sleep" /\ sinkLines' = 0
  /\ owed' = (owed \/ sinkLines > 0)
  /\ UNCHANGED <<sink, volumes, reading, volQueue, volume>>

DelayOver ==
  /\ pactl = "sleep" /\ pactl' = "spawn"
  /\ UNCHANGED <<sink, volumes, sinkLines, reading, volQueue, volume, owed>>

ReadsVolume ==
  /\ pactl = "lines" /\ sinkLines > 0 /\ sinkLines' = sinkLines - 1
  /\ pactl' = "read" /\ reading' \in {sink, Unread}
  /\ UNCHANGED <<sink, volumes, volQueue, volume, owed>>

(* try_send: the newest volume is dropped when the channel is full.         *)
QueuesVolume ==
  /\ pactl = "read" /\ pactl' = "lines"
  /\ IF Len(volQueue) < VolumeCap
     THEN volQueue' = Append(volQueue, reading) /\ owed' = (reading = Unread)
     ELSE owed' = TRUE /\ UNCHANGED volQueue
  /\ UNCHANGED <<sink, volumes, sinkLines, reading, volume>>

VolumeShown ==
  /\ volQueue # <<>> /\ volume' = Head(volQueue) /\ volQueue' = Tail(volQueue)
  /\ UNCHANGED <<sink, volumes, pactl, sinkLines, reading, owed>>

VolumeNext ==
  \/ SinkChanges \/ Subscribes \/ SubscriptionEnds \/ DelayOver
  \/ ReadsVolume \/ QueuesVolume \/ VolumeShown

VolumeSpec == VolumeInit /\ [][VolumeNext]_volumeVars

VolumeType ==
  /\ sink \in Sink /\ volume \in Sink \union {Unread} /\ reading \in Sink \union {Unread}
  /\ pactl \in {"spawn", "lines", "read", "sleep"}
  /\ sinkLines \in 0..MaxVolumes /\ Len(volQueue) <= VolumeCap /\ owed \in BOOLEAN

(* volume.rs:65-67 "The change is reflected by the next pactl subscribe      *)
(* event": once the lines are read the module shows the sink, whatever it    *)
(* was when each line was written. Owed are changes while pactl was down,    *)
(* and volumes that could not be read or found the channel full.             *)
VolumeSettles ==
  pactl = "lines" /\ sinkLines = 0 /\ volQueue = <<>> /\ ~owed => volume = sink
=============================================================================
