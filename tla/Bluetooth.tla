----------------------------- MODULE Bluetooth ------------------------------
(* The BlueZ client of zbar, one thread for the whole process, and the       *)
(* Bluetooth view of the quick settings panel, one panel after the other.    *)
EXTENDS Naturals, Sequences, FiniteSets

CONSTANTS Dev                        \* paired devices
CONSTANTS CmdCap, SnapCap            \* capacities of the two channels
CONSTANTS MaxPanels, MaxClicks, MaxOutside  \* bounds

ASSUME BluetoothAssumption == CmdCap \in Nat \ {0} /\ SnapCap \in Nat \ {0}

VARIABLES
  linked,      \* the devices that are connected
  outside, clicks,
  client,      \* where it is, its command, and the snapshot it makes
  btCmds,      \* commands queued for it
  btSignals,   \* InterfacesAdded and InterfacesRemoved it has not taken
  btSnaps,     \* snapshots queued for the panels
  panel,       \* the open panel, or 0
  panels,      \* panels opened so far
  waiters,     \* panels whose tasks wait for snapshots, closed ones too
  inView,      \* does it show the Bluetooth view?
  scanned,     \* has it been given a snapshot?
  rows, shownLinked, pending,  \* its rows: listed, connected, waiting for an answer
  dirty,       \* is the panel to be drawn again?
  btLost       \* what became of the last snapshot: "no", "failed" or "stolen" (history)

clientVars == <<linked, outside, client, btSignals>>
btPanelVars == <<panel, panels, waiters, inView, scanned, rows, shownLinked, pending, dirty>>
btVars == <<clientVars, clicks, btCmds, btSnaps, btPanelVars, btLost>>

NoCmd == [kind |-> "refresh", dev |-> "none"]
NoSnap == [listed |-> {}, on |-> {}]

BtInit ==
  /\ linked \in SUBSET Dev /\ outside = 0 /\ clicks = 0
  /\ client = [at |-> "off", cmd |-> NoCmd, todo |-> {}, snap |-> NoSnap]
  /\ btCmds = <<>> /\ btSignals = 0 /\ btSnaps = <<>>
  /\ panel = 0 /\ panels = 0 /\ waiters = {} /\ inView = FALSE /\ scanned = FALSE
  /\ rows = {} /\ shownLinked = {} /\ pending = {} /\ dirty = FALSE /\ btLost = "no"

-----------------------------------------------------------------------------
(* The client.                                                              *)

ClientMoves(from, to) == client.at = from /\ client' = [client EXCEPT !.at = to]
Snapshots(from) ==
  /\ client.at = from
  /\ client' = [client EXCEPT !.at = "snapshot", !.todo = Dev, !.snap = NoSnap]

(* Without the system bus, and when a stream of signals ends, the thread    *)
(* ends and what is queued for it is lost.                                  *)
ClientEnds ==
  /\ ClientMoves("start", "gone") \/ ClientMoves("idle", "gone")
  /\ btCmds' = <<>>
  /\ UNCHANGED <<linked, outside, btSignals, clicks, btSnaps, btPanelVars, btLost>>

ClientConnects ==
  /\ Snapshots("start")
  /\ UNCHANGED <<linked, outside, btSignals, clicks, btCmds, btSnaps, btPanelVars, btLost>>

TakesCommand ==
  /\ btCmds # <<>> /\ btCmds' = Tail(btCmds)
  /\ \/ Head(btCmds).kind = "refresh" /\ Snapshots("idle")
     \/ /\ Head(btCmds).kind # "refresh" /\ client.at = "idle"
        /\ client' = [client EXCEPT !.at = "call", !.cmd = Head(btCmds)]
  /\ UNCHANGED <<linked, outside, btSignals, clicks, btSnaps, btPanelVars, btLost>>

TakesSignal ==
  /\ Snapshots("idle") /\ btSignals > 0 /\ btSignals' = btSignals - 1
  /\ UNCHANGED <<linked, outside, clicks, btCmds, btSnaps, btPanelVars, btLost>>

(* Mutant of CallReturns: what changed is left to the signals to report.     *)
CallReturnsQuiet ==
  /\ ClientMoves("call", "idle")
  /\ \/ linked' = IF client.cmd.kind = "connect" THEN linked \union {client.cmd.dev}
                  ELSE linked \ {client.cmd.dev}
     \/ UNCHANGED linked
  /\ UNCHANGED <<outside, btSignals, clicks, btCmds, btSnaps, btPanelVars, btLost>>

(* The device connects, disconnects, or the call fails.                     *)
CallReturns ==
  /\ Snapshots("call")
  /\ \/ linked' = IF client.cmd.kind = "connect" THEN linked \union {client.cmd.dev}
                  ELSE linked \ {client.cmd.dev}
     \/ UNCHANGED linked
  /\ UNCHANGED <<outside, btSignals, clicks, btCmds, btSnaps, btPanelVars, btLost>>

Reads(d, listed, on) ==
  /\ client.at = "snapshot" /\ d \in client.todo
  /\ client' = [client EXCEPT !.todo = @ \ {d}, !.snap = [listed |-> @.listed \union listed,
                                                         on |-> @.on \union on]]
  /\ UNCHANGED <<linked, outside, btSignals, clicks, btCmds, btSnaps, btPanelVars, btLost>>

DeviceRead(d) == Reads(d, {d}, linked \intersect {d})

(* A device whose connected() fails is listed as one that is not connected; *)
(* one whose proxy or paired() fails is not among the paired ones.          *)
DeviceMisread(d) == Reads(d, {d}, {}) \/ Reads(d, {}, {})

SnapshotFails ==
  /\ ClientMoves("snapshot", "idle") /\ btLost' = "failed"
  /\ UNCHANGED <<linked, outside, btSignals, clicks, btCmds, btSnaps, btPanelVars>>

(* try_send: a snapshot that finds the channel full is dropped.             *)
SnapshotSent ==
  /\ ClientMoves("snapshot", "idle") /\ client.todo = {}
  /\ btSnaps' = IF Len(btSnaps) < SnapCap THEN Append(btSnaps, client.snap) ELSE btSnaps
  /\ UNCHANGED <<linked, outside, btSignals, clicks, btCmds, btPanelVars, btLost>>

(* Outside the bar a device comes or goes: BlueZ signals that interfaces are *)
(* added or removed; of a device that connects the client hears nothing.    *)
OutsideChanges ==
  /\ outside < MaxOutside /\ outside' = outside + 1
  /\ \E d \in Dev : linked' = IF d \in linked THEN linked \ {d} ELSE linked \union {d}
  /\ btSignals' \in IF client.at \in {"off", "start", "gone"} THEN {btSignals} ELSE {btSignals, btSignals + 1}
  /\ UNCHANGED <<client, clicks, btCmds, btSnaps, btPanelVars, btLost>>

-----------------------------------------------------------------------------
(* The panel. The client is spawned with the first one.                     *)

(* Mutant of QueueCmd: the channel has no capacity.                         *)
QueueCmdUnbounded(c) == Append(btCmds, c)

(* try_send: a command is dropped if the channel is full, or closed.        *)
QueueCmd(c) ==
  IF Len(btCmds) < CmdCap /\ client.at # "gone" THEN Append(btCmds, c) ELSE btCmds

PanelOpens ==
  /\ panel = 0 /\ panels < MaxPanels /\ panels' = panels + 1 /\ panel' = panels'
  /\ waiters' = waiters \union {panel'}
  /\ client' = IF client.at = "off" THEN [client EXCEPT !.at = "start"] ELSE client
  /\ inView' = FALSE /\ scanned' = FALSE /\ dirty' = TRUE /\ btLost' = "no"
  /\ rows' = {} /\ shownLinked' = {} /\ pending' = {}
  /\ UNCHANGED <<linked, outside, btSignals, clicks, btCmds, btSnaps>>

PanelCloses ==
  /\ panel # 0 /\ panel' = 0 /\ dirty' = FALSE /\ inView' = FALSE /\ scanned' = FALSE
  /\ rows' = {} /\ shownLinked' = {} /\ pending' = {}
  /\ UNCHANGED <<clientVars, clicks, btCmds, btSnaps, panels, waiters, btLost>>

ViewChanges ==
  /\ panel # 0 /\ inView' = ~inView /\ dirty' = TRUE
  /\ UNCHANGED <<clientVars, clicks, btCmds, btSnaps, panel, panels, waiters, scanned, rows, shownLinked, pending, btLost>>

(* ensure_scan_for_view: drawing the Bluetooth view asks for a snapshot.    *)
PanelDrawn ==
  /\ panel # 0 /\ dirty /\ dirty' = FALSE
  /\ \/ inView /\ btCmds' = QueueCmd(NoCmd) /\ btLost' = "no"
     \/ ~inView /\ UNCHANGED <<btCmds, btLost>>
  /\ UNCHANGED <<clientVars, clicks, btSnaps, panel, panels, waiters, inView, scanned, rows, shownLinked, pending>>

(* The row shows at once what was asked for; while it waits it is inert.    *)
RowClicked(d) ==
  /\ panel # 0 /\ inView /\ ~dirty /\ d \in rows \ pending
  /\ clicks < MaxClicks /\ clicks' = clicks + 1
  /\ pending' = pending \union {d} /\ dirty' = TRUE /\ btLost' = "no"
  /\ shownLinked' = IF d \in shownLinked THEN shownLinked \ {d} ELSE shownLinked \union {d}
  /\ btCmds' = QueueCmd([kind |-> IF d \in shownLinked THEN "disconnect" ELSE "connect", dev |-> d])
  /\ UNCHANGED <<clientVars, btSnaps, panel, panels, waiters, inView, scanned, rows>>

(* All panels' tasks share one channel: a snapshot goes to one of them. The *)
(* task of a closed panel finds that out with the snapshot in its hands.    *)
SnapshotTaken(p) ==
  /\ p \in waiters /\ btSnaps # <<>> /\ btSnaps' = Tail(btSnaps)
  /\ \/ /\ p = panel /\ rows' = Head(btSnaps).listed /\ shownLinked' = Head(btSnaps).on
        /\ pending' = {} /\ scanned' = TRUE /\ dirty' = TRUE /\ btLost' = "no"
        /\ UNCHANGED waiters
     \/ /\ p # panel /\ waiters' = waiters \ {p}
        /\ btLost' = IF btLost = "failed" THEN "failed" ELSE "stolen"
        /\ UNCHANGED <<scanned, rows, shownLinked, pending, dirty>>
  /\ UNCHANGED <<clientVars, clicks, btCmds, panel, panels, inView>>

(* The channel is closed once the client has gone.                          *)
TaskEnds(p) ==
  /\ p \in waiters /\ client.at = "gone" /\ btSnaps = <<>> /\ waiters' = waiters \ {p}
  /\ UNCHANGED <<clientVars, clicks, btCmds, btSnaps, panel, panels, inView, scanned, rows, shownLinked, pending, dirty, btLost>>

ClientNext ==
  \/ ClientConnects \/ TakesCommand \/ TakesSignal \/ CallReturns \/ SnapshotSent
  \/ \E d \in Dev : DeviceRead(d) \/ DeviceMisread(d)

BtNext ==
  \/ ClientNext \/ ClientEnds \/ SnapshotFails \/ OutsideChanges
  \/ PanelOpens \/ PanelCloses \/ ViewChanges \/ PanelDrawn
  \/ \E d \in Dev : RowClicked(d)
  \/ \E p \in waiters : SnapshotTaken(p) \/ TaskEnds(p)

BtSpec == BtInit /\ [][BtNext]_btVars

BtType ==
  /\ linked \subseteq Dev /\ shownLinked \subseteq rows /\ pending \subseteq rows /\ rows \subseteq Dev
  /\ client.at \in {"off", "start", "snapshot", "idle", "call", "gone"}
  /\ Len(btCmds) <= CmdCap /\ Len(btSnaps) <= SnapCap
  /\ panel \in 0..panels /\ waiters \subseteq 1..panels

BtRests == client.at = "idle" /\ btCmds = <<>> /\ btSnaps = <<>>

(* bt.rs:21 "cleared once the next BlueZ snapshot arrives", panel.rs:148     *)
(* "just ask the BlueZ client to push a fresh snapshot": whatever calls fail *)
(* and whatever a full channel drops, the client never comes to rest while   *)
(* a row waits for an answer, even if the view was left before it was drawn  *)
(* again, nor while the Bluetooth view is drawn: a row that was read wrong   *)
(* is read again. Only when the last snapshot failed, or went to the task of *)
(* a closed panel, nothing more comes.                                      *)
RowsSettle ==
  panel # 0 /\ (pending # {} \/ (inView /\ ~dirty)) /\ BtRests => btLost # "no"

(* So a row that a failed read has left wrong does not stay wrong: in a view *)
(* that is kept open each row is right again and again, unless snapshots     *)
(* keep failing or going elsewhere, or the client ends.                     *)
RowsFollow ==
  <>[](panel # 0 /\ inView /\ btLost = "no" /\ client.at # "gone") =>
    \A d \in Dev : []<>(d \in rows \ pending /\ (d \in shownLinked <=> d \in linked))
=============================================================================
