----------------------------- MODULE Bar_proofs -----------------------------
(***************************************************************************)
(* The parts of zbar beside the tray and the workspaces, for any displays, *)
(* monitors, devices, interfaces, windows and capacities.  The panel, the  *)
(* brightness workers and the Bluetooth view answer the user while         *)
(* something else is under way; the theme, the volume, the network and the *)
(* title show what is told of the world outside, and agree with it once    *)
(* they have caught up (ReadersSettle).                                    *)
(***************************************************************************)
EXTENDS MCBar, SequenceTheorems, WellFoundedInduction, TLAPS

-----------------------------------------------------------------------------
(* The quick settings panel.  An overlay of a display the panel knows      *)
(* exists whatever was left behind, so closing them all never counts below *)
(* zero; a panel whose window is gone knows of none.                       *)
OverlaysThere ==
  /\ \A d \in osd : osdWindows[d] >= 1
  /\ ~shown => osd = {}

PanelKnown == shown => opened

PanelInv == PanelType /\ OverlaysThere /\ PanelKnown /\ OsdOwned

LEMMA PanelInitial == PanelInit => PanelInv
<1> SUFFICES ASSUME PanelInit PROVE PanelInv
  OBVIOUS
<1>1. osdWindows \in [Display -> 0..MaxOsd] /\ releases \in 0..MaxReleases
  BY PanelAssumption DEF PanelInit
<1>2. {drag, bound} \subseteq Slider \union {NoSlider} /\ cached \subseteq Slider /\ osd \subseteq Display
  BY DEF PanelInit
<1>3. opened \in BOOLEAN /\ shown \in BOOLEAN /\ orphaned \in BOOLEAN /\ view \in {"main", "wifi", "bluetooth"}
  BY DEF PanelInit
<1>4. OverlaysThere /\ PanelKnown /\ OsdOwned
  BY DEF PanelInit, OverlaysThere, PanelKnown, OsdOwned
<1> QED BY <1>1, <1>2, <1>3, <1>4 DEF PanelInv, PanelType

(* A panel starts, and goes, without a drag, a timer or an overlay.        *)
LEMMA ResetTyped ==
  ASSUME PanelReset
  PROVE  /\ releases' \in 0..MaxReleases /\ view' \in {"main", "wifi", "bluetooth"}
         /\ {drag, bound}' \subseteq Slider \union {NoSlider}
         /\ cached' \subseteq Slider /\ osd' = {} /\ osd' \subseteq Display
<1>1. releases' \in 0..MaxReleases /\ view' \in {"main", "wifi", "bluetooth"}
  BY PanelAssumption DEF PanelReset
<1>2. {drag, bound}' \subseteq Slider \union {NoSlider} /\ cached' \subseteq Slider
  BY DEF PanelReset
<1> QED BY <1>1, <1>2 DEF PanelReset

(* What a press or a move of the pointer does to the overlays.             *)
LEMMA OsdStep ==
  ASSUME PanelInv, NEW k, ShowOsd(k), UNCHANGED <<orphaned, shown>>, shown
  PROVE  /\ osd' \subseteq Display /\ osdWindows' \in [Display -> 0..MaxOsd]
         /\ OverlaysThere' /\ OsdOwned'
<1>1. CASE UNCHANGED <<osd, osdWindows>>
  BY <1>1 DEF PanelInv, PanelType, OverlaysThere, PanelKnown, OsdOwned
<1>2. CASE /\ k \in Display \ osd /\ osdWindows[k] < MaxOsd
           /\ osd' = osd \union {k} /\ osdWindows' = [osdWindows EXCEPT ![k] = @ + 1]
  BY <1>2, PanelAssumption DEF PanelInv, PanelType, OverlaysThere, PanelKnown, OsdOwned
<1> QED BY <1>1, <1>2 DEF ShowOsd

(* What closing all overlays the panel knows does to them.                 *)
LEMMA OsdClosed ==
  ASSUME PanelInv, CloseAllOsd, osd' = {}, UNCHANGED orphaned
  PROVE  osdWindows' \in [Display -> 0..MaxOsd] /\ OverlaysThere' /\ OsdOwned'
BY PanelAssumption DEF PanelInv, PanelType, OverlaysThere, OsdOwned, CloseAllOsd

LEMMA PanelStep == PanelInv /\ [PanelNext]_panelVars => PanelInv'
<1> SUFFICES ASSUME PanelInv, [PanelNext]_panelVars PROVE PanelInv'
  OBVIOUS
<1> USE PanelAssumption DEF PanelInv
<1>1. CASE UNCHANGED panelVars
  BY <1>1 DEF panelVars, PanelType, OverlaysThere, PanelKnown, OsdOwned
<1>2. CASE PanelToggled
  <2>1. opened' \in BOOLEAN /\ shown' \in BOOLEAN /\ PanelKnown'
    <3>1. CASE opened' = FALSE /\ shown' = FALSE
      BY <3>1 DEF PanelKnown
    <3>2. CASE opened' \in BOOLEAN /\ shown' = opened'
      BY <3>2 DEF PanelKnown
    <3> QED BY <1>2, <3>1, <3>2 DEF PanelToggled
  <2>2. UNCHANGED orphaned
    BY <1>2 DEF PanelToggled
  <2>3. PanelReset
    BY <1>2 DEF PanelToggled
  <2>4. osdWindows' \in [Display -> 0..MaxOsd] /\ OverlaysThere' /\ OsdOwned'
    <3>1. CASE CloseAllOsd
      BY <2>2, <2>3, <3>1, OsdClosed, ResetTyped
    <3>2. CASE UNCHANGED osdWindows /\ ~shown
      <4>1. osd = {} /\ osd' = {}
        BY <2>3, <3>2, ResetTyped DEF OverlaysThere
      <4> QED BY <2>2, <3>2, <4>1 DEF PanelType, OverlaysThere, OsdOwned
    <3> QED BY <1>2, <3>1, <3>2 DEF PanelToggled, PanelKnown
  <2>5. orphaned' \in BOOLEAN
    BY <2>2 DEF PanelType
  <2> QED BY <2>1, <2>3, <2>4, <2>5, ResetTyped DEF PanelType
<1>3. CASE PanelEscaped
  <2>1. opened' \in BOOLEAN /\ shown' \in BOOLEAN /\ PanelKnown' /\ orphaned' \in BOOLEAN
    BY <1>3 DEF PanelEscaped, PanelType, PanelKnown
  <2>2. PanelReset /\ osd' = {} /\ UNCHANGED osdWindows
    BY <1>3, ResetTyped DEF PanelEscaped
  <2>3. ~orphaned' => ~orphaned /\ osd = {}
    BY <1>3 DEF PanelEscaped, PanelType
  <2>4. OverlaysThere' /\ OsdOwned' /\ osdWindows' \in [Display -> 0..MaxOsd]
    BY <2>2, <2>3 DEF PanelType, OverlaysThere, OsdOwned
  <2> QED BY <2>1, <2>2, <2>4, ResetTyped DEF PanelType
<1>4. CASE PanelDraws
  BY <1>4 DEF PanelDraws, PanelType, OverlaysThere, PanelKnown, OsdOwned
<1>5. CASE ScanLands
  BY <1>5 DEF ScanLands, PanelType, OverlaysThere, PanelKnown, OsdOwned
<1>6. CASE ViewChosen
  BY <1>6 DEF ViewChosen, PanelType, OverlaysThere, PanelKnown, OsdOwned
<1>7. ASSUME NEW k \in Slider, TrackPressed(k) PROVE PanelInv'
  BY <1>7, OsdStep DEF TrackPressed, Slides, PanelType, PanelKnown
<1>8. CASE PointerMoves
  BY <1>8, OsdStep DEF PointerMoves, Slides, PanelType, PanelKnown
<1>9. CASE ButtonReleased
  BY <1>9 DEF ButtonReleased, PanelType, OverlaysThere, PanelKnown, OsdOwned
<1>10. CASE ReleaseTimer
  BY <1>10, OsdClosed DEF ReleaseTimer, PanelType, PanelKnown
<1> QED BY <1>1, <1>2, <1>3, <1>4, <1>5, <1>6, <1>7, <1>8, <1>9, <1>10 DEF PanelNext

(* OsdOwned for every set of displays: whatever presses, moves, releases   *)
(* and late timers come, a panel knows of every overlay there is.          *)
THEOREM OverlaysOwned == PanelSpec => []OsdOwned
<1>1. PanelInv => OsdOwned
  BY DEF PanelInv
<1> QED BY <1>1, PanelInitial, PanelStep, PTL DEF PanelSpec

-----------------------------------------------------------------------------
(* The Bluetooth view.  A row that waits, and a Bluetooth view that is     *)
(* drawn, have a command or a snapshot on the way, unless the last         *)
(* snapshot was lost: what the channels drop leaves them full, and what a  *)
(* call or a read makes of a device is in a snapshot all the same.         *)
Command == {NoCmd} \union [kind : {"connect", "disconnect"}, dev : Dev]

(* A device that is shown connected is listed.                             *)
Snapshot == {s \in [listed : SUBSET Dev, on : SUBSET Dev] : s.on \subseteq s.listed}

Client == [at : {"off", "start", "snapshot", "idle", "call", "gone"}, cmd : Command,
           todo : SUBSET Dev, snap : Snapshot]

BtShapes ==
  /\ client \in Client /\ (client.at = "call" => client.cmd.kind # "refresh")
  /\ btCmds \in Seq(Command) /\ btSnaps \in Seq(Snapshot)
  /\ dirty \in BOOLEAN /\ inView \in BOOLEAN /\ scanned \in BOOLEAN /\ panels \in Nat

BtInv == BtType /\ BtShapes /\ RowsSettle

LEMMA BtInitial == BtInit => BtInv
<1> SUFFICES ASSUME BtInit PROVE BtInv
  OBVIOUS
<1>1. client \in Client /\ client.at = "off"
  BY DEF BtInit, Client, Snapshot, Command, NoCmd, NoSnap
<1>2. btCmds \in Seq(Command) /\ btSnaps \in Seq(Snapshot) /\ Len(btCmds) <= CmdCap
      /\ Len(btSnaps) <= SnapCap
  BY BluetoothAssumption DEF BtInit
<1>3. linked \subseteq Dev /\ shownLinked \subseteq rows /\ pending \subseteq rows /\ rows \subseteq Dev
      /\ panels \in Nat /\ panel \in 0..panels /\ waiters \subseteq 1..panels
  BY DEF BtInit
<1>4. dirty \in BOOLEAN /\ inView \in BOOLEAN /\ scanned \in BOOLEAN /\ RowsSettle
  BY DEF BtInit, RowsSettle
<1> QED BY <1>1, <1>2, <1>3, <1>4 DEF BtInv, BtType, BtShapes, Client

(* After a command is queued the client does not rest: there is a command, *)
(* this one or those that fill the channel, or the client has gone.        *)
LEMMA Queued ==
  ASSUME BtInv, NEW c \in Command
  PROVE  /\ QueueCmd(c) \in Seq(Command) /\ Len(QueueCmd(c)) <= CmdCap
         /\ client.at # "gone" => QueueCmd(c) # <<>>
<1>1. btCmds \in Seq(Command) /\ Len(btCmds) <= CmdCap /\ Len(btCmds) \in Nat
  BY DEF BtInv, BtType, BtShapes
<1>2. CASE Len(btCmds) < CmdCap /\ client.at # "gone"
  <2>1. QueueCmd(c) = Append(btCmds, c)
    BY <1>2 DEF QueueCmd
  <2> QED BY <1>1, <1>2, <2>1, BluetoothAssumption
<1>3. CASE ~(Len(btCmds) < CmdCap /\ client.at # "gone")
  <2>1. QueueCmd(c) = btCmds
    BY <1>3 DEF QueueCmd
  <2>2. client.at # "gone" => Len(btCmds) # 0
    BY <1>1, <1>3, BluetoothAssumption
  <2> QED BY <1>1, <2>1, <2>2
<1> QED BY <1>2, <1>3

(* The client moves from one state to another, or starts on a snapshot.    *)
LEMMA ClientMoved ==
  ASSUME BtInv, NEW from, NEW to \in {"start", "idle", "gone"}, ClientMoves(from, to)
  PROVE  client' \in Client /\ client.at = from /\ client'.at = to /\ client'.snap = client.snap
BY DEF BtInv, BtShapes, Client, ClientMoves

LEMMA ClientSnapshots ==
  ASSUME BtInv, NEW from, Snapshots(from)
  PROVE  client' \in Client /\ client.at = from /\ client'.at = "snapshot"
<1>1. NoSnap \in Snapshot
  BY DEF Snapshot, NoSnap
<1> QED BY <1>1 DEF BtInv, BtShapes, Client, Snapshots

LEMMA BtStep == BtInv /\ [BtNext]_btVars => BtInv'
<1> SUFFICES ASSUME BtInv, [BtNext]_btVars PROVE BtInv'
  OBVIOUS
<1> DEFINE Flags == dirty \in BOOLEAN /\ inView \in BOOLEAN /\ scanned \in BOOLEAN
           Rows == shownLinked \subseteq rows /\ pending \subseteq rows /\ rows \subseteq Dev
           Panels == panels \in Nat /\ panel \in 0..panels /\ waiters \subseteq 1..panels
           World == linked \subseteq Dev
           Thread == client \in Client /\ (client.at = "call" => client.cmd.kind # "refresh")
           Cmds == btCmds \in Seq(Command) /\ Len(btCmds) <= CmdCap
           Snaps == btSnaps \in Seq(Snapshot) /\ Len(btSnaps) <= SnapCap
<1>0. Flags /\ Rows /\ Panels /\ World /\ Thread /\ Cmds /\ Snaps /\ RowsSettle
  BY DEF BtInv, BtType, BtShapes
<1>1. Flags' /\ Rows' /\ Panels' /\ World' /\ Thread' /\ Cmds' /\ Snaps' /\ RowsSettle' => BtInv'
  BY DEF BtInv, BtType, BtShapes, Client
<1>2. UNCHANGED btPanelVars => Flags' /\ Rows' /\ Panels'
  BY <1>0 DEF btPanelVars
<1>3. CASE UNCHANGED btVars
  <2>1. UNCHANGED <<linked, client, btCmds, btSnaps, btLost>> /\ UNCHANGED btPanelVars
    BY <1>3 DEF btVars, clientVars
  <2>2. RowsSettle'
    BY <1>0, <2>1 DEF RowsSettle, BtRests, btPanelVars
  <2> QED BY <1>0, <1>1, <1>2, <2>1, <2>2
(* A step of the client: it rests afterwards only if a snapshot failed, or *)
(* if one is in the channel.                                               *)
<1>4. ASSUME UNCHANGED btPanelVars, World', Thread', Cmds', Snaps',
             client'.at = "idle" => btSnaps' # <<>> \/ btLost' # "no"
      PROVE  BtInv'
  <2>1. RowsSettle'
    BY <1>4 DEF RowsSettle, BtRests
  <2> QED BY <1>1, <1>2, <1>4, <2>1
<1>5. CASE ClientEnds
  <2>1. UNCHANGED <<linked, btSnaps>> /\ UNCHANGED btPanelVars /\ btCmds' = <<>>
    BY <1>5 DEF ClientEnds
  <2>2. client' \in Client /\ client'.at = "gone"
    BY <1>5, ClientMoved DEF ClientEnds
  <2>3. Cmds'
    BY <2>1, BluetoothAssumption
  <2> QED BY <1>0, <1>4, <2>1, <2>2, <2>3
<1>6. CASE ClientConnects \/ TakesSignal
  <2>1. UNCHANGED <<linked, btCmds, btSnaps>> /\ UNCHANGED btPanelVars
    BY <1>6 DEF ClientConnects, TakesSignal
  <2>2. client' \in Client /\ client'.at = "snapshot"
    BY <1>6, ClientSnapshots DEF ClientConnects, TakesSignal
  <2> QED BY <1>0, <1>4, <2>1, <2>2
<1>7. CASE TakesCommand
  <2>1. UNCHANGED <<linked, btSnaps>> /\ UNCHANGED btPanelVars /\ btCmds # <<>> /\ btCmds' = Tail(btCmds)
    BY <1>7 DEF TakesCommand
  <2>2. Head(btCmds) \in Command /\ Cmds'
    BY <1>0, <2>1, BluetoothAssumption
  <2>3. CASE Snapshots("idle")
    BY <1>0, <1>4, <2>1, <2>2, <2>3, ClientSnapshots
  <2>4. CASE Head(btCmds).kind # "refresh" /\ client' = [client EXCEPT !.at = "call", !.cmd = Head(btCmds)]
    <3>1. client' \in Client /\ client'.at = "call" /\ client'.cmd = Head(btCmds)
      BY <1>0, <2>2, <2>4 DEF Client
    <3> QED BY <1>0, <1>4, <2>1, <2>2, <2>4, <3>1
  <2> QED BY <1>7, <2>3, <2>4 DEF TakesCommand
<1>8. CASE CallReturns
  <2>1. UNCHANGED <<btCmds, btSnaps>> /\ UNCHANGED btPanelVars
    BY <1>8 DEF CallReturns
  <2>2. client' \in Client /\ client'.at = "snapshot" /\ client.at = "call"
    BY <1>8, ClientSnapshots DEF CallReturns
  <2>3. client.cmd.dev \in Dev
    BY <1>0, <2>2 DEF Client, Command, NoCmd
  <2>4. World'
    BY <1>0, <1>8, <2>3 DEF CallReturns
  <2> QED BY <1>0, <1>4, <2>1, <2>2, <2>4
<1>9. ASSUME NEW d \in Dev, DeviceRead(d) \/ DeviceMisread(d) PROVE BtInv'
  <2>1. PICK found \in SUBSET Dev, on \in SUBSET Dev : on \subseteq found /\ Reads(d, found, on)
    BY <1>9 DEF DeviceRead, DeviceMisread
  <2>2. UNCHANGED <<linked, btCmds, btSnaps>> /\ UNCHANGED btPanelVars /\ client.at = "snapshot"
        /\ client' = [client EXCEPT !.todo = @ \ {d}, !.snap = [listed |-> @.listed \union found,
                                                               on |-> @.on \union on]]
    BY <2>1 DEF Reads
  <2>3. [listed |-> client.snap.listed \union found, on |-> client.snap.on \union on] \in Snapshot
    <3>1. client.snap \in Snapshot
      BY <1>0 DEF Client
    <3>2. PICK l, o : l = client.snap.listed \union found /\ o = client.snap.on \union on
      OBVIOUS
    <3>3. l \subseteq Dev /\ o \subseteq l
      BY <2>1, <3>1, <3>2 DEF Snapshot
    <3>4. [listed |-> l, on |-> o] \in Snapshot
      BY <3>3 DEF Snapshot
    <3> QED BY <3>2, <3>4
  <2>4. client' \in Client /\ client'.at = "snapshot"
    BY <1>0, <2>2, <2>3 DEF Client
  <2> QED BY <1>0, <1>4, <2>2, <2>4
<1>10. CASE SnapshotFails
  <2>1. UNCHANGED <<linked, btCmds, btSnaps>> /\ UNCHANGED btPanelVars /\ btLost' # "no"
    BY <1>10 DEF SnapshotFails
  <2>2. client' \in Client /\ client'.at = "idle"
    BY <1>10, ClientMoved DEF SnapshotFails
  <2> QED BY <1>0, <1>4, <2>1, <2>2
<1>11. CASE SnapshotSent
  <2>1. UNCHANGED <<linked, btCmds>> /\ UNCHANGED btPanelVars
        /\ btSnaps' = IF Len(btSnaps) < SnapCap THEN Append(btSnaps, client.snap) ELSE btSnaps
    BY <1>11 DEF SnapshotSent
  <2>2. client' \in Client /\ client'.at = "idle"
    BY <1>11, ClientMoved DEF SnapshotSent
  <2>3. client.snap \in Snapshot
    BY <1>0 DEF Client
  <2>4. Snaps' /\ btSnaps' # <<>>
    <3>1. Len(btSnaps) \in Nat
      BY <1>0
    <3>2. CASE Len(btSnaps) < SnapCap
      <4>1. btSnaps' = Append(btSnaps, client.snap)
        BY <2>1, <3>2
      <4> QED BY <1>0, <2>3, <3>1, <3>2, <4>1, BluetoothAssumption
    <3>3. CASE ~(Len(btSnaps) < SnapCap)
      <4>1. btSnaps' = btSnaps /\ Len(btSnaps) # 0
        BY <2>1, <3>1, <3>3, BluetoothAssumption
      <4> QED BY <1>0, <4>1
    <3> QED BY <3>2, <3>3
  <2> QED BY <1>0, <1>4, <2>1, <2>2, <2>4
<1>12. CASE OutsideChanges
  <2>1. UNCHANGED <<client, btCmds, btSnaps, btLost>> /\ UNCHANGED btPanelVars
    BY <1>12 DEF OutsideChanges
  <2>2. World'
    BY <1>0, <1>12 DEF OutsideChanges
  <2>3. RowsSettle'
    BY <1>0, <2>1 DEF RowsSettle, BtRests, btPanelVars
  <2> QED BY <1>0, <1>1, <1>2, <2>1, <2>2, <2>3
(* The steps of the panel.                                                 *)
<1>13. CASE PanelOpens
  <2>1. UNCHANGED <<linked, btCmds, btSnaps>> /\ panels' = panels + 1 /\ panel' = panels'
        /\ waiters' = waiters \union {panel'} /\ rows' = {} /\ shownLinked' = {} /\ pending' = {}
    BY <1>13 DEF PanelOpens
  <2>2. inView' = FALSE /\ scanned' = FALSE /\ dirty' = TRUE
    BY <1>13 DEF PanelOpens
  <2>3. Thread'
    BY <1>0, <1>13 DEF PanelOpens, Client
  <2>4. Panels'
    <3>1. panels' \in Nat /\ panel' \in 1..panels' /\ waiters' \subseteq 1..panels \union {panels'}
      BY <1>0, <2>1
    <3>2. 1..panels \union {panels'} \subseteq 1..panels'
      BY <1>0, <2>1
    <3> QED BY <3>1, <3>2
  <2>5. Flags' /\ Rows'
    BY <2>1, <2>2
  <2>6. RowsSettle'
    BY <2>1, <2>2 DEF RowsSettle
  <2> QED BY <1>0, <1>1, <2>1, <2>3, <2>4, <2>5, <2>6
<1>14. CASE PanelCloses
  <2>1. UNCHANGED <<linked, client, btCmds, btSnaps, panels, waiters>>
        /\ panel' = 0 /\ rows' = {} /\ shownLinked' = {} /\ pending' = {}
    BY <1>14 DEF PanelCloses, clientVars
  <2>2. Flags'
    BY <1>14 DEF PanelCloses
  <2>3. RowsSettle'
    BY <2>1 DEF RowsSettle
  <2> QED BY <1>0, <1>1, <2>1, <2>2, <2>3
<1>15. CASE ViewChanges
  <2>1. UNCHANGED <<linked, client, btCmds, btSnaps, panels, waiters, panel, rows, shownLinked, pending, btLost>>
    BY <1>15 DEF ViewChanges, clientVars
  <2>2. Flags' /\ dirty'
    BY <1>0, <1>15 DEF ViewChanges
  <2>3. RowsSettle'
    BY <1>0, <2>1, <2>2 DEF RowsSettle, BtRests
  <2> QED BY <1>0, <1>1, <2>1, <2>2, <2>3
<1>16. CASE PanelDrawn
  <2>1. UNCHANGED <<linked, client, btSnaps, panels, waiters, panel, rows, shownLinked, pending>>
        /\ UNCHANGED <<inView, scanned>> /\ dirty' = FALSE
    BY <1>16 DEF PanelDrawn, clientVars
  <2>2. Flags'
    BY <1>0, <2>1
  <2>3. CASE inView /\ btCmds' = QueueCmd(NoCmd)
    <3>1. NoCmd \in Command
      BY DEF Command
    <3>2. Cmds' /\ (client.at # "gone" => btCmds' # <<>>)
      BY <2>3, <3>1, Queued
    <3>3. RowsSettle'
      BY <2>1, <3>2 DEF RowsSettle, BtRests
    <3> QED BY <1>0, <1>1, <2>1, <2>2, <3>2, <3>3
  <2>4. CASE ~inView /\ UNCHANGED <<btCmds, btLost>>
    <3>1. RowsSettle'
      BY <1>0, <2>1, <2>4 DEF RowsSettle, BtRests
    <3> QED BY <1>0, <1>1, <2>1, <2>2, <2>4, <3>1
  <2> QED BY <1>16, <2>3, <2>4 DEF PanelDrawn
<1>17. ASSUME NEW d \in Dev, RowClicked(d) PROVE BtInv'
  <2>1. UNCHANGED <<linked, client, btSnaps, panels, waiters, panel, rows>> /\ UNCHANGED <<inView, scanned>>
        /\ dirty' = TRUE /\ d \in rows
    BY <1>17 DEF RowClicked, clientVars
  <2>2. Flags' /\ Rows'
    BY <1>0, <1>17, <2>1 DEF RowClicked
  <2>3. PICK c : c = [kind |-> IF d \in shownLinked THEN "disconnect" ELSE "connect", dev |-> d]
    OBVIOUS
  <2>4. c \in Command
    BY <2>3 DEF Command
  <2>5. btCmds' = QueueCmd(c)
    BY <1>17, <2>3 DEF RowClicked
  <2>6. Cmds' /\ (client.at # "gone" => btCmds' # <<>>)
    BY <2>4, <2>5, Queued
  <2>7. RowsSettle'
    BY <2>1, <2>6 DEF RowsSettle, BtRests
  <2> QED BY <1>0, <1>1, <2>1, <2>2, <2>6, <2>7
<1>18. ASSUME NEW p \in waiters, SnapshotTaken(p) PROVE BtInv'
  <2>1. UNCHANGED <<linked, client, btCmds, panel, panels>> /\ UNCHANGED inView
        /\ btSnaps # <<>> /\ btSnaps' = Tail(btSnaps)
    BY <1>18 DEF SnapshotTaken, clientVars
  <2>2. Snaps' /\ Head(btSnaps) \in Snapshot
    BY <1>0, <2>1, BluetoothAssumption
  <2>3. CASE p = panel /\ rows' = Head(btSnaps).listed /\ shownLinked' = Head(btSnaps).on
             /\ pending' = {} /\ scanned' = TRUE /\ dirty' = TRUE /\ UNCHANGED waiters
    <3>1. Rows' /\ Flags'
      BY <1>0, <2>1, <2>2, <2>3 DEF Snapshot
    <3>2. RowsSettle'
      BY <2>3 DEF RowsSettle
    <3> QED BY <1>0, <1>1, <2>1, <2>2, <2>3, <3>1, <3>2
  <2>4. CASE waiters' = waiters \ {p} /\ btLost' = (IF btLost = "failed" THEN "failed" ELSE "stolen")
             /\ UNCHANGED <<scanned, rows, shownLinked, pending, dirty>>
    <3>1. RowsSettle'
      BY <2>4 DEF RowsSettle
    <3> QED BY <1>0, <1>1, <2>1, <2>2, <2>4, <3>1
  <2> QED BY <1>18, <2>3, <2>4 DEF SnapshotTaken
<1>19. ASSUME NEW p \in waiters, TaskEnds(p) PROVE BtInv'
  <2>1. UNCHANGED <<linked, client, btCmds, btSnaps, panel, panels, btLost>> /\ UNCHANGED <<inView, scanned, dirty>>
        /\ UNCHANGED <<rows, shownLinked, pending>> /\ waiters' = waiters \ {p}
    BY <1>19 DEF TaskEnds, clientVars
  <2>2. RowsSettle'
    BY <1>0, <2>1 DEF RowsSettle, BtRests
  <2> QED BY <1>0, <1>1, <2>1, <2>2
<1> QED BY <1>3, <1>5, <1>6, <1>7, <1>8, <1>9, <1>10, <1>11, <1>12, <1>13, <1>14, <1>15, <1>16, <1>17,
           <1>18, <1>19 DEF BtNext, ClientNext

(* RowsSettle for any devices, panels, clicks and channel capacities,      *)
(* whichever reads of a device or whole snapshots fail, calls fail and     *)
(* commands or snapshots find their channel full: unless the last snapshot *)
(* was lost, a client at rest leaves no row waiting, and no Bluetooth view *)
(* drawn that is not to be read once more.                                 *)
THEOREM RowsSettleAlways == BtSpec => []RowsSettle
<1>1. BtInv => RowsSettle
  BY DEF BtInv
<1> QED BY <1>1, BtInitial, BtStep, PTL DEF BtSpec

-----------------------------------------------------------------------------
(* The workers of the monitors.  The level asked for last is the target    *)
(* that nobody has taken, and somebody will; or it is in its worker's      *)
(* hands; or it is written, and shown once the echoes are read.  What a    *)
(* monitor makes of a number beyond its maximum is left open.              *)
BrightShapes ==
  /\ setting \in [todo : SUBSET Monitor, wakes : SUBSET Monitor, level : Percent \union {NoLevel}]
  /\ setting.todo # {} => setting.level \in Percent
  /\ \A m, n \in setting.wakes : m = n
  /\ worker \in [Monitor -> {"open", "recv", "drain", "swap", "set", "echo", "gone"}]
  /\ value \in [Monitor -> Percent \union {NoLevel}]
  /\ \A m \in Monitor : worker[m] \in {"set", "echo"} => value[m] \in Percent
  /\ echoes \in Seq(Device \X Percent) /\ procs \in Seq(Percent)
  /\ polled \in Nat \union {NoLevel} /\ failed \subseteq Monitor /\ echoLost \in BOOLEAN

TargetTaken(m) == target[m] # NoLevel =>
  /\ target[m] = asked[m]
  /\ wake[m] \/ m \in setting.wakes \/ worker[m] \in {"drain", "swap"}

(* The last echo of m on its way is of what was asked for last.            *)
LastEcho(m, n) == n \in DOMAIN echoes /\ echoes[n][1] = m
                    /\ \A k \in DOMAIN echoes : echoes[k][1] = m => k <= n

Echoed(m) ==
  /\ \A n \in DOMAIN echoes : LastEcho(m, n) => echoes[n][2] = asked[m]
  /\ (\A n \in DOMAIN echoes : echoes[n][1] # m) => percents[m] = asked[m]

AnswerOf(m) == target[m] = NoLevel /\ asked[m] # NoLevel =>
  /\ worker[m] # "open"
  /\ worker[m] \in {"set", "echo"} => value[m] = asked[m]
  /\ worker[m] \in {"recv", "drain", "swap", "echo"} /\ m \notin failed /\ asked[m] <= scale[m] =>
       hw[m] = asked[m]
  /\ worker[m] \in {"recv", "drain", "swap"} /\ ~echoLost => Echoed(m)

BrightInv ==
  /\ BrightType /\ BrightShapes
  /\ \A m \in Monitor : TargetTaken(m) /\ AnswerOf(m)

(* A level and a percentage of it are numbers.                             *)
LEMMA Scaled ==
  ASSUME scale \in [Device -> Scale], NEW d \in Device
  PROVE  /\ \A p \in Percent : Share(p, d) \in Nat
         /\ hw[d] \in Nat => ReadPercent(d) \in Nat \union {NoLevel}
<1>1. scale[d] \in Nat
  BY BrightnessAssumption
<1>2. ASSUME NEW p \in Percent PROVE Share(p, d) \in Nat
  <2>1. p \in Nat
    BY BrightnessAssumption
  <2>2. p * scale[d] \in Nat
    BY <1>1, <2>1
  <2> QED BY <2>2 DEF Share
<1>3. ASSUME hw[d] \in Nat, scale[d] # 0 PROVE ReadPercent(d) \in Nat
  <2>1. hw[d] * 100 \in Nat /\ scale[d] \in Nat \ {0}
    BY <1>1, <1>3
  <2>2. (hw[d] * 100) \div scale[d] \in Nat
    BY <2>1
  <2> QED BY <1>3, <2>2 DEF ReadPercent
<1> QED BY <1>2, <1>3 DEF ReadPercent

LEMMA BrightInitial == BrightInit => BrightInv
<1> SUFFICES ASSUME BrightInit PROVE BrightInv
  OBVIOUS
<1>1. scale \in [Device -> Scale] /\ readable \in BOOLEAN /\ \E p \in Percent : hw = [d \in Device |-> Share(p, d)]
  BY DEF BrightInit
<1>8. hw \in [Device -> Nat]
  BY <1>1, Scaled
<1>9. percents \in [Device -> Nat \union {NoLevel}]
  <2>1. PICK read \in SUBSET Device :
          percents = [d \in Device |-> IF d \in read THEN ReadPercent(d) ELSE NoLevel]
    BY DEF BrightInit
  <2> QED BY <1>1, <1>8, <2>1, Scaled
<1>2. hw \in [Device -> Nat] /\ percents \in [Device -> Nat \union {NoLevel}]
      /\ asked \in [Device -> Percent \union {NoLevel}] /\ \A m \in Monitor : asked[m] = NoLevel
  BY <1>8, <1>9 DEF BrightInit, Device
<1>3. target \in [Monitor -> Percent \union {NoLevel}] /\ value \in [Monitor -> Percent \union {NoLevel}]
      /\ wake \in [Monitor -> BOOLEAN] /\ \A m \in Monitor : target[m] = NoLevel
  BY DEF BrightInit
<1>4. worker \in [Monitor -> {"open", "recv", "drain", "swap", "set", "echo", "gone"}]
      /\ \A m \in Monitor : worker[m] = "open"
  BY DEF BrightInit
<1>5. setting \in [todo : SUBSET Monitor, wakes : SUBSET Monitor, level : Percent \union {NoLevel}]
      /\ setting.todo = {} /\ setting.wakes = {} /\ echoes \in Seq(Device \X Percent) /\ procs \in Seq(Percent)
      /\ Len(echoes) <= EchoCap /\ polled \in Nat \union {NoLevel} /\ failed \subseteq Monitor
  BY BrightnessAssumption DEF BrightInit
<1>6. echoLost \in BOOLEAN
  BY DEF BrightInit
<1>7. \A m \in Monitor : TargetTaken(m) /\ AnswerOf(m)
  BY <1>2, <1>3 DEF TargetTaken, AnswerOf
<1> QED BY <1>1, <1>2, <1>3, <1>4, <1>5, <1>6, <1>7 DEF BrightInv, BrightType, BrightShapes

(* A monitor whose variables a step leaves alone, its echoes included.     *)
LEMMA Untouched ==
  ASSUME NEW m \in Monitor, TargetTaken(m), AnswerOf(m),
         target'[m] = target[m], asked'[m] = asked[m], wake[m] => wake'[m],
         worker'[m] = worker[m], value'[m] = value[m], hw'[m] = hw[m], UNCHANGED scale,
         m \in setting.wakes => m \in setting'.wakes, m \in failed => m \in failed',
         echoLost => echoLost', Echoed(m) => Echoed(m)' \/ echoLost'
  PROVE  TargetTaken(m)' /\ AnswerOf(m)'
<1>1. TargetTaken(m)'
  BY DEF TargetTaken
<1>2. AnswerOf(m)'
  BY DEF AnswerOf
<1> QED BY <1>1, <1>2

LEMMA EchoesKept ==
  ASSUME NEW m \in Monitor, UNCHANGED echoes, percents'[m] = percents[m], asked'[m] = asked[m],
         Echoed(m)
  PROVE  Echoed(m)'
BY DEF Echoed, LastEcho

(* An echo that is sent on: of another device, or of what was asked last.  *)
LEMMA EchoAdded ==
  ASSUME NEW m \in Monitor, NEW k \in Device, NEW l \in Percent,
         echoes \in Seq(Device \X Percent), echoes' = Append(echoes, <<k, l>>),
         percents'[m] = percents[m], asked'[m] = asked[m],
         (k # m /\ Echoed(m)) \/ (k = m /\ l = asked[m])
  PROVE  Echoed(m)'
<1>1. Len(echoes) \in Nat /\ DOMAIN echoes' = 1..(Len(echoes) + 1) /\ DOMAIN echoes = 1..Len(echoes)
  OBVIOUS
<1>2. \A n \in DOMAIN echoes : echoes'[n] = echoes[n]
  OBVIOUS
<1>3. PICK e : e = echoes'[Len(echoes) + 1]
  OBVIOUS
<1>4. e = <<k, l>>
  BY <1>3
<1>5. e[1] = k /\ e[2] = l
  BY <1>4
<1>6. CASE k = m
  <2>1. ASSUME NEW n \in DOMAIN echoes', LastEcho(m, n)' PROVE echoes'[n][2] = asked'[m]
    <3>1. Len(echoes) + 1 <= n
      BY <1>1, <1>3, <1>5, <1>6, <2>1 DEF LastEcho
    <3>2. n = Len(echoes) + 1
      BY <1>1, <2>1, <3>1
    <3> QED BY <1>3, <1>5, <1>6, <3>2
  <2>2. ~(\A n \in DOMAIN echoes' : echoes'[n][1] # m)
    BY <1>1, <1>3, <1>5, <1>6
  <2> QED BY <2>1, <2>2 DEF Echoed
<1>7. CASE k # m
  <2>1. ASSUME NEW n \in DOMAIN echoes', LastEcho(m, n)' PROVE echoes'[n][2] = asked'[m]
    <3>1. n # Len(echoes) + 1
      BY <1>3, <1>5, <1>7, <2>1 DEF LastEcho
    <3>2. n \in DOMAIN echoes /\ echoes'[n] = echoes[n]
      BY <1>1, <1>2, <2>1, <3>1
    <3>3. LastEcho(m, n)
      BY <1>1, <1>2, <2>1, <3>2 DEF LastEcho
    <3> QED BY <1>7, <3>2, <3>3 DEF Echoed
  <2>2. ASSUME \A n \in DOMAIN echoes' : echoes'[n][1] # m PROVE percents'[m] = asked'[m]
    <3>1. \A n \in DOMAIN echoes : echoes[n][1] # m
      BY <1>1, <1>2, <2>2
    <3> QED BY <1>7, <3>1 DEF Echoed
  <2> QED BY <2>1, <2>2 DEF Echoed
<1> QED BY <1>6, <1>7

(* The echo shown is the oldest: it is the last one only if it is alone.   *)
LEMMA EchoRead ==
  ASSUME NEW m \in Monitor, echoes \in Seq(Device \X Percent), echoes # <<>>,
         percents \in [Device -> Nat \union {NoLevel}], m \in Device,
         echoes' = Tail(echoes), percents' = [percents EXCEPT ![Head(echoes)[1]] = Head(echoes)[2]],
         asked'[m] = asked[m], Echoed(m)
  PROVE  Echoed(m)'
<1>1. /\ Len(echoes) \in Nat \ {0} /\ DOMAIN echoes = 1..Len(echoes) /\ Head(echoes) = echoes[1]
      /\ DOMAIN echoes' = 1..(Len(echoes) - 1)
      /\ \A n \in 1..(Len(echoes) - 1) : echoes'[n] = echoes[n + 1]
  OBVIOUS
<1>2. ASSUME NEW n \in DOMAIN echoes', LastEcho(m, n)' PROVE echoes'[n][2] = asked'[m]
  <2>1. n + 1 \in DOMAIN echoes /\ echoes'[n] = echoes[n + 1]
    BY <1>1, <1>2
  <2>2. ASSUME NEW k \in DOMAIN echoes, echoes[k][1] = m PROVE k <= n + 1
    <3>1. CASE k = 1
      BY <1>1, <1>2, <3>1
    <3>2. CASE k # 1
      <4>1. k - 1 \in DOMAIN echoes' /\ echoes'[k - 1] = echoes[k]
        BY <1>1, <2>2, <3>2
      <4>2. k - 1 <= n
        BY <1>2, <2>2, <4>1 DEF LastEcho
      <4> QED BY <1>1, <1>2, <2>2, <4>2
    <3> QED BY <3>1, <3>2
  <2>3. LastEcho(m, n + 1)
    BY <1>2, <2>1, <2>2 DEF LastEcho
  <2> QED BY <2>1, <2>3 DEF Echoed
<1>3. ASSUME \A n \in DOMAIN echoes' : echoes'[n][1] # m PROVE percents'[m] = asked'[m]
  <2>1. \A n \in DOMAIN echoes : n # 1 => echoes[n][1] # m
    <3>1. ASSUME NEW n \in DOMAIN echoes, n # 1 PROVE echoes[n][1] # m
      <4>1. n - 1 \in DOMAIN echoes' /\ echoes'[n - 1] = echoes[n]
        BY <1>1, <3>1
      <4> QED BY <1>3, <4>1
    <3> QED BY <3>1
  <2>2. CASE Head(echoes)[1] = m
    <3>1. 1 \in DOMAIN echoes /\ echoes[1][1] = m
      BY <1>1, <2>2
    <3>2. LastEcho(m, 1)
      BY <1>1, <2>1, <3>1 DEF LastEcho
    <3>3. echoes[1][2] = asked[m]
      BY <3>1, <3>2 DEF Echoed
    <3> QED BY <1>1, <2>2, <3>3
  <2>3. CASE Head(echoes)[1] # m
    <3>1. \A n \in DOMAIN echoes : echoes[n][1] # m
      BY <1>1, <2>1, <2>3
    <3>2. percents[m] = asked[m]
      BY <3>1 DEF Echoed
    <3> QED BY <2>3, <3>2
  <2> QED BY <2>2, <2>3
<1> QED BY <1>2, <1>3 DEF Echoed

(* EchoSent: an echo that finds no room is counted as lost.                *)
LEMMA EchoSentTyped ==
  ASSUME BrightInv, NEW k \in Device, NEW l \in Percent, EchoSent(k, l)
  PROVE  /\ echoes' \in Seq(Device \X Percent) /\ Len(echoes') <= EchoCap /\ echoLost' \in BOOLEAN
         /\ echoLost => echoLost'
         /\ echoes' = Append(echoes, <<k, l>>) \/ (UNCHANGED echoes /\ echoLost')
<1>1. echoes \in Seq(Device \X Percent) /\ Len(echoes) <= EchoCap /\ Len(echoes) \in Nat
  BY DEF BrightInv, BrightType, BrightShapes
<1>2. echoLost \in BOOLEAN
  BY DEF BrightInv, BrightShapes
<1>3. CASE Len(echoes) < EchoCap
  <2>1. echoes' = Append(echoes, <<k, l>>)
    BY <1>3 DEF EchoSent
  <2>2. UNCHANGED echoLost
    BY <1>3 DEF EchoSent
  <2>3. echoes' \in Seq(Device \X Percent) /\ Len(echoes') <= EchoCap
    BY <1>1, <1>3, <2>1, BrightnessAssumption
  <2> QED BY <1>2, <2>1, <2>2, <2>3
<1>4. CASE ~(Len(echoes) < EchoCap)
  <2>1. UNCHANGED echoes
    BY <1>4 DEF EchoSent
  <2>2. echoLost' = TRUE
    BY <1>4 DEF EchoSent
  <2>3. echoLost' \in BOOLEAN /\ echoLost'
    BY <2>2
  <2> QED BY <1>1, <2>1, <2>3
<1> QED BY <1>3, <1>4

(* No step changes a maximum.                                              *)
LEMMA DevicesKept ==
  ASSUME [BrightNext]_brightVars, readable \in BOOLEAN
  PROVE  UNCHANGED scale /\ readable' \in BOOLEAN
<1>1. CASE UNCHANGED brightVars
  BY <1>1 DEF brightVars, deviceVars
<1>2. ASSUME NEW S, NEW l, SetPercent(S, l) PROVE UNCHANGED deviceVars
  BY <1>2 DEF SetPercent
<1>3. ASSUME NEW m \in Monitor, WorkerStep(m) PROVE UNCHANGED deviceVars
  BY <1>3 DEF WorkerStep, TargetStored, WorkerWoken, WorkerOpens, WorkerReceives, WorkerDrains,
              WorkerSwaps, WorkerSets, WorkerEchoes
<1>4. CASE EchoShown \/ ProcRuns \/ PollReads \/ PollShown
  BY <1>4 DEF EchoShown, ProcRuns, PollReads, PollShown, deviceVars
<1>5. CASE ReadingBreaks
  BY <1>5 DEF ReadingBreaks
<1> QED BY <1>1, <1>2, <1>3, <1>4, <1>5 DEF BrightNext, deviceVars

LEMMA BrightStep == BrightInv /\ [BrightNext]_brightVars => BrightInv'
<1> SUFFICES ASSUME BrightInv, [BrightNext]_brightVars PROVE BrightInv'
  OBVIOUS
<1> DEFINE Levels == Percent \union {NoLevel}
           States == {"open", "recv", "drain", "swap", "set", "echo", "gone"}
           Settings == [todo : SUBSET Monitor, wakes : SUBSET Monitor, level : Levels]
           Shown == /\ hw \in [Device -> Nat] /\ percents \in [Device -> Nat \union {NoLevel}]
                    /\ asked \in [Device -> Levels] /\ failed \subseteq Monitor
                    /\ procs \in Seq(Percent) /\ polled \in Nat \union {NoLevel}
           Queue == /\ echoes \in Seq(Device \X Percent) /\ Len(echoes) <= EchoCap
                    /\ echoLost \in BOOLEAN
           Workers == /\ target \in [Monitor -> Levels] /\ wake \in [Monitor -> BOOLEAN]
                      /\ worker \in [Monitor -> States] /\ value \in [Monitor -> Levels]
                      /\ \A m \in Monitor : worker[m] \in {"set", "echo"} => value[m] \in Percent
           Gui == /\ setting \in Settings /\ (setting.todo # {} => setting.level \in Percent)
                  /\ \A m, n \in setting.wakes : m = n
           Each == \A m \in Monitor : TargetTaken(m) /\ AnswerOf(m)
<1>0. UNCHANGED scale /\ scale \in [Device -> Scale] /\ readable' \in BOOLEAN
  BY DevicesKept DEF BrightInv, BrightType
<1>1. Shown /\ Queue /\ Workers /\ Gui /\ Each
  BY DEF BrightInv, BrightType, BrightShapes
<1>2. Shown' /\ Queue' /\ Workers' /\ Gui' /\ Each' => BrightInv'
  BY <1>0 DEF BrightInv, BrightType, BrightShapes
<1>3. (\A m \in Monitor : m \in Device /\ m # Backlight) /\ Backlight \in Device /\ NoLevel \notin Percent
      /\ NoLevel \notin Nat /\ Percent \subseteq Nat
  <2>1. Percent \subseteq Nat
    BY BrightnessAssumption
  <2> QED BY <2>1, BrightnessAssumption DEF Device
<1>4. UNCHANGED <<hw, percents, asked, failed, procs, polled>> => Shown'
  BY <1>1
<1>5. UNCHANGED echoes /\ UNCHANGED echoLost => Queue'
  BY <1>1
<1>6. UNCHANGED ddcVars => Workers'
  BY <1>1 DEF ddcVars
<1>7. UNCHANGED setting => Gui'
  BY <1>1
<1> HIDE DEF Shown, Queue, Workers, Gui, Each
<1> USE <1>0
(* Steps that leave the monitors alone.                                    *)
<1>8. ASSUME UNCHANGED ddcVars, UNCHANGED <<failed, echoLost>>, setting.wakes \subseteq setting'.wakes,
             \A m \in Monitor : hw'[m] = hw[m] /\ asked'[m] = asked[m] /\ percents'[m] = percents[m],
             UNCHANGED echoes
      PROVE  Each'
  <2>1. ASSUME NEW m \in Monitor PROVE TargetTaken(m)' /\ AnswerOf(m)'
    <3>1. TargetTaken(m) /\ AnswerOf(m)
      BY <1>1 DEF Each
    <3>2. UNCHANGED <<target, wake, worker, value>>
      BY <1>8 DEF ddcVars
    <3> QED BY <1>8, <3>1, <3>2, Untouched, EchoesKept
  <2> QED BY <2>1 DEF Each
<1>9. CASE UNCHANGED brightVars
  <2>1. UNCHANGED ddcVars /\ UNCHANGED <<hw, percents, asked, failed, procs, polled, setting>>
    BY <1>9 DEF brightVars
  <2>2. UNCHANGED echoes /\ UNCHANGED echoLost
    BY <1>9 DEF brightVars
  <2>3. Each'
    BY <1>8, <2>1, <2>2
  <2> QED BY <1>2, <1>4, <1>5, <1>6, <1>7, <2>1, <2>2, <2>3
<1>10. ASSUME NEW S \in SUBSET Monitor, NEW l \in Percent, SetPercent(S, l) PROVE BrightInv'
  <2>1. UNCHANGED ddcVars /\ UNCHANGED <<hw, percents, polled, failed>> /\ setting.todo = {} /\ setting.wakes = {}
    BY <1>10 DEF SetPercent, GuiFree
  <2>2. CASE EchoSent(Backlight, l) /\ procs' = Append(procs, l)
             /\ asked' = [asked EXCEPT ![Backlight] = l] /\ UNCHANGED setting
    <3>1. Shown'
      BY <1>1, <1>3, <2>1, <2>2 DEF Shown
    <3>2. Queue'
      BY <1>3, <2>2, EchoSentTyped DEF Queue
    <3>3. ASSUME NEW m \in Monitor PROVE TargetTaken(m)' /\ AnswerOf(m)'
      <4>1. TargetTaken(m) /\ AnswerOf(m) /\ echoes \in Seq(Device \X Percent)
        BY <1>1 DEF Each, Queue
      <4>2. UNCHANGED <<target, wake, worker, value, hw, percents, setting, failed>> /\ asked'[m] = asked[m]
        BY <1>1, <1>3, <2>1, <2>2 DEF ddcVars, Shown
      <4>3. (echoLost => echoLost') /\ (echoes' = Append(echoes, <<Backlight, l>>) \/ (UNCHANGED echoes /\ echoLost'))
        BY <1>3, <2>2, EchoSentTyped
      <4>4. Echoed(m) => Echoed(m)' \/ echoLost'
        BY <1>3, <4>1, <4>2, <4>3, EchoAdded
      <4> QED BY <4>1, <4>2, <4>3, <4>4, Untouched
    <3> QED BY <1>2, <1>6, <1>7, <2>1, <2>2, <3>1, <3>2, <3>3 DEF Each
  <2>3. CASE setting' = [todo |-> S, wakes |-> {}, level |-> l] /\ UNCHANGED <<procs, asked>>
             /\ UNCHANGED echoes /\ UNCHANGED echoLost
    <3>1. Gui'
      BY <2>3 DEF Gui
    <3>2. Each'
      BY <1>8, <2>1, <2>3
    <3> QED BY <1>2, <1>4, <1>5, <1>6, <2>1, <2>3, <3>1, <3>2
  <2> QED BY <1>10, <2>2, <2>3 DEF SetPercent
(* Steps of one monitor: the others are left alone.                        *)
<1>11. ASSUME NEW m \in Monitor,
              \A n \in Monitor \ {m} :
                /\ target'[n] = target[n] /\ asked'[n] = asked[n] /\ wake'[n] = wake[n]
                /\ worker'[n] = worker[n] /\ value'[n] = value[n] /\ hw'[n] = hw[n]
                /\ n \in setting.wakes => n \in setting'.wakes
                /\ n \in failed => n \in failed'
                /\ Echoed(n) => Echoed(n)' \/ echoLost',
              echoLost => echoLost',
              TargetTaken(m)' /\ AnswerOf(m)'
       PROVE  Each'
  <2>1. ASSUME NEW n \in Monitor \ {m} PROVE TargetTaken(n)' /\ AnswerOf(n)'
    <3>1. TargetTaken(n) /\ AnswerOf(n)
      BY <1>1 DEF Each
    <3> QED BY <1>11, <3>1, Untouched
  <2> QED BY <1>11, <2>1 DEF Each
<1>12. ASSUME NEW m \in Monitor, TargetStored(m) PROVE BrightInv'
  <2>1. UNCHANGED <<hw, percents, failed, procs, polled>> /\ UNCHANGED <<wake, worker, value>>
        /\ target' = [target EXCEPT ![m] = setting.level] /\ asked' = [asked EXCEPT ![m] = setting.level]
        /\ setting' = [setting EXCEPT !.todo = @ \ {m}, !.wakes = {m}] /\ setting.wakes = {} /\ m \in setting.todo
    BY <1>12 DEF TargetStored
  <2>2. UNCHANGED echoes /\ UNCHANGED echoLost
    BY <1>12 DEF TargetStored
  <2>3. setting.level \in Percent
    BY <1>1, <2>1 DEF Gui
  <2>4. Gui' /\ setting'.wakes = {m}
    BY <1>1, <2>1 DEF Gui
  <2>5. Shown' /\ Workers'
    BY <1>1, <1>3, <2>1, <2>3 DEF Shown, Workers
  <2>6. TargetTaken(m)' /\ AnswerOf(m)'
    BY <1>1, <1>3, <2>1, <2>3, <2>4 DEF TargetTaken, AnswerOf, Workers, Shown
  <2>7. ASSUME NEW n \in Monitor \ {m}
        PROVE /\ target'[n] = target[n] /\ asked'[n] = asked[n] /\ wake'[n] = wake[n]
              /\ worker'[n] = worker[n] /\ value'[n] = value[n] /\ hw'[n] = hw[n]
              /\ n \in setting.wakes => n \in setting'.wakes
              /\ n \in failed => n \in failed'
              /\ Echoed(n) => Echoed(n)' \/ echoLost'
    <3>1. target'[n] = target[n] /\ asked'[n] = asked[n]
      BY <1>1, <1>3, <2>1 DEF Shown, Workers
    <3> QED BY <2>1, <2>2, <3>1, EchoesKept
  <2>8. Each'
    BY <1>11, <2>2, <2>6, <2>7
  <2> QED BY <1>2, <1>5, <2>2, <2>4, <2>5, <2>8
<1>13. ASSUME NEW m \in Monitor, WorkerWoken(m) PROVE BrightInv'
  <2>1. UNCHANGED <<hw, percents, asked, failed, procs, polled>> /\ UNCHANGED <<target, worker, value>>
        /\ wake' = [wake EXCEPT ![m] = TRUE] /\ setting' = [setting EXCEPT !.wakes = {}] /\ m \in setting.wakes
    BY <1>13 DEF WorkerWoken
  <2>2. UNCHANGED echoes /\ UNCHANGED echoLost
    BY <1>13 DEF WorkerWoken
  <2>3. Workers' /\ wake'[m]
    BY <1>1, <2>1 DEF Workers
  <2>4. Gui' /\ setting.wakes = {m}
    BY <1>1, <2>1 DEF Gui
  <2>5. \A n \in Monitor : Echoed(n) => Echoed(n)'
    BY <2>1, <2>2, EchoesKept
  <2>6. TargetTaken(m)' /\ AnswerOf(m)'
    BY <1>1, <2>1, <2>2, <2>3, <2>5 DEF TargetTaken, AnswerOf, Each
  <2>7. \A n \in Monitor \ {m} : wake'[n] = wake[n] /\ n \notin setting.wakes
    BY <1>1, <2>1, <2>4 DEF Workers
  <2>8. Each'
    BY <1>11, <2>1, <2>2, <2>5, <2>6, <2>7
  <2> QED BY <1>2, <1>4, <1>5, <2>1, <2>2, <2>3, <2>4, <2>8
(* Steps of a worker that neither write the level nor echo it.             *)
<1>14. ASSUME NEW m \in Monitor,
              UNCHANGED <<hw, percents, asked, failed, procs, polled, setting, echoes>>,
              UNCHANGED echoLost, Workers',
              \A n \in Monitor \ {m} : /\ target'[n] = target[n] /\ wake'[n] = wake[n]
                                      /\ worker'[n] = worker[n] /\ value'[n] = value[n],
              TargetTaken(m)',
              (Echoed(m) => Echoed(m)') => AnswerOf(m)'
       PROVE  BrightInv'
  <2>1. \A n \in Monitor : Echoed(n) => Echoed(n)'
    BY <1>14, EchoesKept
  <2>2. Each'
    BY <1>11, <1>14, <2>1
  <2> QED BY <1>2, <1>4, <1>5, <1>7, <1>14, <2>2
<1>15. ASSUME NEW m \in Monitor, WorkerOpens(m) PROVE BrightInv'
  <2>1. UNCHANGED <<hw, percents, asked, failed, procs, polled, setting, echoes>>
        /\ UNCHANGED <<target, wake, value>>
    BY <1>15 DEF WorkerOpens
  <2>2. UNCHANGED echoLost
    BY <1>15 DEF WorkerOpens
  <2>3. PICK to \in {"recv", "gone"} : worker[m] = "open" /\ worker' = [worker EXCEPT ![m] = to]
    BY <1>15 DEF WorkerOpens, Moves
  <2>4. Workers' /\ worker'[m] = to /\ \A n \in Monitor \ {m} : worker'[n] = worker[n]
    BY <1>1, <2>1, <2>3 DEF Workers
  <2>5. TargetTaken(m)' /\ AnswerOf(m)'
    BY <1>1, <2>1, <2>3, <2>4 DEF TargetTaken, AnswerOf, Each
  <2> QED BY <1>14, <2>1, <2>2, <2>4, <2>5
<1>16. ASSUME NEW m \in Monitor, WorkerReceives(m) \/ WorkerDrains(m) PROVE BrightInv'
  <2>1. UNCHANGED <<hw, percents, asked, failed, procs, polled, setting, echoes>>
        /\ UNCHANGED <<target, value>> /\ wake' = [wake EXCEPT ![m] = FALSE]
    BY <1>16 DEF WorkerReceives, WorkerDrains
  <2>2. UNCHANGED echoLost
    BY <1>16 DEF WorkerReceives, WorkerDrains
  <2>3. PICK to \in {"drain", "swap"} : worker[m] \in {"recv", "drain"} /\ worker' = [worker EXCEPT ![m] = to]
    BY <1>16 DEF WorkerReceives, WorkerDrains, Moves
  <2>4. Workers' /\ worker'[m] = to
        /\ \A n \in Monitor \ {m} : worker'[n] = worker[n] /\ wake'[n] = wake[n]
    BY <1>1, <2>1, <2>3 DEF Workers
  <2>5. TargetTaken(m)'
    BY <1>1, <2>1, <2>3, <2>4 DEF TargetTaken, Each
  <2>6. (Echoed(m) => Echoed(m)') => AnswerOf(m)'
    BY <1>1, <2>1, <2>2, <2>3, <2>4 DEF AnswerOf, Each
  <2> QED BY <1>14, <2>1, <2>2, <2>4, <2>5, <2>6
<1>17. ASSUME NEW m \in Monitor, WorkerSwaps(m) PROVE BrightInv'
  <2>1. UNCHANGED <<hw, percents, asked, failed, procs, polled, setting, echoes>> /\ UNCHANGED wake
        /\ value' = [value EXCEPT ![m] = target[m]] /\ target' = [target EXCEPT ![m] = NoLevel]
    BY <1>17 DEF WorkerSwaps
  <2>2. UNCHANGED echoLost
    BY <1>17 DEF WorkerSwaps
  <2>3. worker[m] = "swap" /\ worker' = [worker EXCEPT ![m] = IF target[m] = NoLevel THEN "recv" ELSE "set"]
    BY <1>17 DEF WorkerSwaps, Moves
  <2>4. /\ worker'[m] = IF target[m] = NoLevel THEN "recv" ELSE "set"
        /\ value'[m] = target[m] /\ target'[m] = NoLevel /\ target[m] \in Levels
        /\ \A n \in Monitor \ {m} : /\ worker'[n] = worker[n] /\ target'[n] = target[n]
                                     /\ value'[n] = value[n]
    BY <1>1, <2>1, <2>3 DEF Workers
  <2>5. Workers'
    BY <1>1, <2>1, <2>3, <2>4 DEF Workers
  <2>6. TargetTaken(m)'
    BY <2>4 DEF TargetTaken
  <2>7. (Echoed(m) => Echoed(m)') => AnswerOf(m)'
    <3>1. CASE target[m] = NoLevel
      BY <1>1, <2>1, <2>2, <2>3, <2>4, <3>1 DEF AnswerOf, Each
    <3>2. CASE target[m] # NoLevel
      BY <1>1, <2>1, <2>4, <3>2 DEF AnswerOf, TargetTaken, Each
    <3> QED BY <3>1, <3>2
  <2> QED BY <1>14, <2>1, <2>2, <2>4, <2>5, <2>6, <2>7
<1>18. ASSUME NEW m \in Monitor, WorkerSets(m) PROVE BrightInv'
  <2>1. UNCHANGED <<percents, asked, procs, polled, setting, echoes>> /\ UNCHANGED <<target, wake, value>>
        /\ worker[m] = "set" /\ worker' = [worker EXCEPT ![m] = "echo"]
    BY <1>18 DEF WorkerSets, Moves
  <2>2. UNCHANGED echoLost
    BY <1>18 DEF WorkerSets
  <2>3. \/ failed' = failed \ {m} /\ \E l \in Taken(m, value[m]) : hw' = [hw EXCEPT ![m] = l]
        \/ failed' = failed \union {m} /\ UNCHANGED hw
    BY <1>18 DEF WorkerSets
  <2>4. Workers' /\ worker'[m] = "echo" /\ value[m] \in Percent
        /\ \A n \in Monitor \ {m} : worker'[n] = worker[n]
    BY <1>1, <2>1 DEF Workers
  <2>5. /\ Shown' /\ \A n \in Monitor \ {m} : hw'[n] = hw[n] /\ (n \in failed => n \in failed')
        /\ (m \notin failed' /\ value[m] <= scale[m] => hw'[m] = value[m])
    <3>1. CASE failed' = failed \union {m} /\ UNCHANGED hw
      BY <1>1, <2>1, <3>1 DEF Shown
    <3>2. ASSUME failed' = failed \ {m}, NEW l \in Taken(m, value[m]), hw' = [hw EXCEPT ![m] = l] PROVE <2>5
      <4>1. hw \in [Device -> Nat] /\ hw[m] \in Nat /\ scale[m] \in Nat /\ value[m] \in Nat
        BY <1>1, <1>3, <2>4, BrightnessAssumption DEF Shown
      <4>2. l \in Nat /\ (value[m] <= scale[m] => l = value[m])
        BY <3>2, <4>1 DEF Taken
      <4> QED BY <1>1, <1>3, <2>1, <3>2, <4>1, <4>2 DEF Shown
    <3> QED BY <2>3, <3>1, <3>2
  <2>6. \A n \in Monitor : Echoed(n) => Echoed(n)'
    BY <2>1, EchoesKept
  <2>7. TargetTaken(m)' /\ AnswerOf(m)'
    BY <1>1, <2>1, <2>4, <2>5 DEF TargetTaken, AnswerOf, Each
  <2>8. Each'
    BY <1>11, <2>1, <2>2, <2>4, <2>5, <2>6, <2>7
  <2> QED BY <1>2, <1>5, <1>7, <2>1, <2>2, <2>4, <2>5, <2>8
<1>19. ASSUME NEW m \in Monitor, WorkerEchoes(m) PROVE BrightInv'
  <2>1. UNCHANGED <<hw, percents, asked, failed, procs, polled, setting>> /\ UNCHANGED <<target, wake, value>>
        /\ worker[m] = "echo" /\ worker' = [worker EXCEPT ![m] = "recv"] /\ EchoSent(m, value[m])
    BY <1>19 DEF WorkerEchoes, Moves
  <2>2. Workers' /\ worker'[m] = "recv" /\ value[m] \in Percent
        /\ \A n \in Monitor \ {m} : worker'[n] = worker[n]
    BY <1>1, <2>1 DEF Workers
  <2>3. /\ Queue' /\ echoes \in Seq(Device \X Percent) /\ (echoLost => echoLost')
        /\ echoes' = Append(echoes, <<m, value[m]>>) \/ (UNCHANGED echoes /\ echoLost')
    BY <1>1, <1>3, <2>1, <2>2, EchoSentTyped DEF Queue
  <2>4. \A n \in Monitor \ {m} : Echoed(n) => Echoed(n)' \/ echoLost'
    BY <1>3, <2>1, <2>2, <2>3, EchoAdded
  <2>5. value[m] = asked[m] => Echoed(m)' \/ echoLost'
    BY <1>3, <2>1, <2>2, <2>3, EchoAdded
  <2>6. TargetTaken(m)' /\ AnswerOf(m)'
    BY <1>1, <2>1, <2>2, <2>5 DEF TargetTaken, AnswerOf, Each
  <2>7. Each'
    BY <1>11, <2>1, <2>2, <2>3, <2>4, <2>6
  <2> QED BY <1>2, <1>4, <1>7, <2>1, <2>2, <2>3, <2>7
<1>20. CASE EchoShown
  <2>1. UNCHANGED <<hw, setting, procs, polled, asked, failed>> /\ UNCHANGED ddcVars
        /\ echoes # <<>> /\ echoes' = Tail(echoes)
        /\ percents' = [percents EXCEPT ![Head(echoes)[1]] = Head(echoes)[2]]
    BY <1>20 DEF EchoShown
  <2>2. UNCHANGED echoLost
    BY <1>20 DEF EchoShown
  <2>3. echoes \in Seq(Device \X Percent) /\ Len(echoes) <= EchoCap
    BY <1>1 DEF Queue
  <2>4. Head(echoes) \in Device \X Percent /\ echoes' \in Seq(Device \X Percent) /\ Len(echoes') <= EchoCap
    BY <2>1, <2>3, BrightnessAssumption
  <2>5. Queue'
    BY <1>1, <2>2, <2>4 DEF Queue
  <2>6. Shown'
    <3>1. Head(echoes)[1] \in Device /\ Head(echoes)[2] \in Nat
      BY <1>3, <2>4
    <3> QED BY <1>1, <2>1, <3>1 DEF Shown
  <2>7. ASSUME NEW m \in Monitor PROVE TargetTaken(m)' /\ AnswerOf(m)'
    <3>1. percents \in [Device -> Nat \union {NoLevel}] /\ m \in Device
      BY <1>1, <1>3 DEF Shown
    <3>2. Echoed(m) => Echoed(m)'
      BY <2>1, <2>3, <3>1, EchoRead
    <3>3. TargetTaken(m) /\ AnswerOf(m)
      BY <1>1 DEF Each
    <3> QED BY <2>1, <2>2, <3>2, <3>3, Untouched DEF ddcVars
  <2> QED BY <1>2, <1>6, <1>7, <2>1, <2>5, <2>6, <2>7 DEF Each
<1>21. CASE ProcRuns
  <2>1. UNCHANGED <<percents, polled, asked, failed, setting>> /\ UNCHANGED ddcVars /\ UNCHANGED echoes
    BY <1>21 DEF ProcRuns
  <2>2. UNCHANGED echoLost
    BY <1>21 DEF ProcRuns
  <2>3. PICK n \in DOMAIN procs : procs' = RemoveAt(procs, n)
          /\ hw' \in {hw, [hw EXCEPT ![Backlight] = Share(procs[n], Backlight)]}
    BY <1>21 DEF ProcRuns
  <2>4. procs \in Seq(Percent)
    BY <1>1 DEF Shown
  <2>5. Share(procs[n], Backlight) \in Nat
    <3>1. procs[n] \in Percent
      BY <2>3, <2>4
    <3> QED BY <1>3, <3>1, Scaled
  <2>6. SubSeq(procs, 1, n - 1) \in Seq(Percent) /\ SubSeq(procs, n + 1, Len(procs)) \in Seq(Percent)
    BY <2>3, <2>4
  <2>7. procs' \in Seq(Percent)
    BY <2>3, <2>6 DEF RemoveAt
  <2>8. Shown' /\ \A m \in Monitor : hw'[m] = hw[m]
    BY <1>1, <1>3, <2>1, <2>3, <2>5, <2>7 DEF Shown
  <2>9. Each'
    BY <1>8, <2>1, <2>2, <2>8
  <2> QED BY <1>2, <1>5, <1>6, <1>7, <2>1, <2>2, <2>8, <2>9
<1>22. CASE PollReads
  <2>1. UNCHANGED <<percents, hw, procs, asked, failed, setting>> /\ UNCHANGED ddcVars /\ UNCHANGED echoes
        /\ polled' = ReadPercent(Backlight)
    BY <1>22 DEF PollReads
  <2>2. UNCHANGED echoLost
    BY <1>22 DEF PollReads
  <2>3. ReadPercent(Backlight) \in Nat \union {NoLevel}
    BY <1>1, <1>3, Scaled DEF Shown
  <2>4. Shown'
    BY <1>1, <2>1, <2>3 DEF Shown
  <2>5. Each'
    BY <1>8, <2>1, <2>2
  <2> QED BY <1>2, <1>5, <1>6, <1>7, <2>1, <2>2, <2>4, <2>5
<1>23. CASE PollShown
  <2>1. UNCHANGED <<hw, procs, asked, failed, setting>> /\ UNCHANGED ddcVars /\ UNCHANGED echoes
        /\ polled' = NoLevel /\ percents' = [percents EXCEPT ![Backlight] = polled]
    BY <1>23 DEF PollShown
  <2>2. UNCHANGED echoLost
    BY <1>23 DEF PollShown
  <2>3. Shown' /\ \A m \in Monitor : percents'[m] = percents[m]
    BY <1>1, <1>3, <2>1 DEF Shown
  <2>4. Each'
    BY <1>8, <2>1, <2>2, <2>3
  <2> QED BY <1>2, <1>5, <1>6, <1>7, <2>1, <2>2, <2>3, <2>4
<1>24. CASE ReadingBreaks
  <2>1. UNCHANGED <<hw, percents, asked, failed, procs, polled, setting>> /\ UNCHANGED ddcVars /\ UNCHANGED echoes
    BY <1>24 DEF ReadingBreaks
  <2>2. UNCHANGED echoLost
    BY <1>24 DEF ReadingBreaks
  <2>3. Each'
    BY <1>8, <2>1, <2>2
  <2> QED BY <1>2, <1>4, <1>5, <1>6, <1>7, <2>1, <2>2, <2>3
<1> QED BY <1>9, <1>10, <1>12, <1>13, <1>15, <1>16, <1>17, <1>18, <1>19, <1>20, <1>21, <1>22, <1>23, <1>24
        DEF BrightNext, WorkerStep

(* HardwareFollows for any monitors, percentages, maxima and echo          *)
(* capacity: however fast the slider moves, a worker at rest has written   *)
(* the number asked for last, as it is, to a monitor that takes it, and    *)
(* the module shows that number once no echo was lost.                     *)
THEOREM WorkersFollow == BrightSpec => []HardwareFollows
<1>1. BrightInv => HardwareFollows
  <2> SUFFICES ASSUME BrightInv, NEW m \in Monitor, Settled(m), asked[m] # NoLevel
               PROVE  /\ m \notin failed /\ asked[m] <= scale[m] => hw[m] = asked[m]
                      /\ ~echoLost => percents[m] = asked[m]
    BY DEF HardwareFollows
  <2>1. TargetTaken(m) /\ AnswerOf(m)
    BY DEF BrightInv
  <2>2. worker[m] = "recv" /\ ~wake[m] /\ setting.wakes = {} /\ \A n \in DOMAIN echoes : echoes[n][1] # m
    BY DEF Settled, GuiFree
  <2>3. target[m] = NoLevel
    BY <2>1, <2>2 DEF TargetTaken
  <2>4. /\ m \notin failed /\ asked[m] <= scale[m] => hw[m] = asked[m]
        /\ ~echoLost => Echoed(m)
    BY <2>1, <2>2, <2>3 DEF AnswerOf
  <2> QED BY <2>2, <2>4 DEF Echoed
<1> QED BY <1>1, BrightInitial, BrightStep, PTL DEF BrightSpec

-----------------------------------------------------------------------------
(* Queues whose newest element decides.                                    *)
Newest(q, shows) == IF q = <<>> THEN shows ELSE q[Len(q)]

(* What is appended is the newest, and the head that is taken and shown    *)
(* leaves the newest as it was.                                            *)
LEMMA NewestSent ==
  ASSUME NEW S, NEW q \in Seq(S), NEW s, NEW e \in S
  PROVE  Append(q, e) \in Seq(S) /\ Len(Append(q, e)) = Len(q) + 1 /\ Newest(Append(q, e), s) = e
BY DEF Newest

LEMMA NewestTaken ==
  ASSUME NEW S, NEW q \in Seq(S), q # <<>>, NEW s
  PROVE  /\ Head(q) \in S /\ Tail(q) \in Seq(S) /\ Len(Tail(q)) = Len(q) - 1
         /\ Newest(Tail(q), Head(q)) = Newest(q, s)
<1>1. Len(q) \in Nat \ {0}
  BY EmptySeq, LenProperties
<1>2. Head(q) \in S /\ Tail(q) \in Seq(S) /\ Len(Tail(q)) = Len(q) - 1
  BY HeadTailProperties
<1>3. CASE Len(q) = 1
  <2>1. Tail(q) \in Seq(S) /\ Len(Tail(q)) = 0
    BY <1>2, <1>3
  <2>2. Tail(q) = <<>>
    BY <2>1, EmptySeq
  <2> QED BY <1>2, <1>3, <2>2 DEF Newest
<1>4. CASE Len(q) > 1
  <2>1. Tail(q) # <<>>
    <3>1. Len(Tail(q)) > 0
      BY <1>1, <1>2, <1>4
    <3> QED BY <3>1, <1>2, EmptySeq
  <2>2. Len(q) - 1 \in 1..Len(q) - 1 /\ Len(q) - 1 + 1 = Len(q)
    BY <1>1, <1>4
  <2>3. \A i \in 1..Len(Tail(q)) : Tail(q)[i] = q[i + 1]
    BY HeadTailProperties
  <2>4. Tail(q)[Len(q) - 1] = q[Len(q)]
    BY <1>2, <2>2, <2>3
  <2> QED BY <1>2, <2>1, <2>4 DEF Newest
<1> QED BY <1>1, <1>2, <1>3, <1>4

-----------------------------------------------------------------------------
(* The theme.  While the thread waits and nothing is owed, what is drawn in *)
(* the end is what the file says: the newest theme in the channel, else the *)
(* one a click is about to show, else the one that is shown.                *)
Coming == Newest(themeQueue, IF saving # NoTheme THEN saving ELSE theme)

ThemeDue ==
  /\ watcher \in {"start", "recv"} /\ wevents = 0 /\ ~unseen => Coming = Load(conf)
  /\ watcher = "send" /\ wevents = 0 => loaded = Load(conf)
  /\ watcher = "start" => themeQueue = <<>> /\ saving = NoTheme

ThemeInv ==
  /\ ThemeType /\ themeQueue \in Seq(Theme)
  /\ writes \in Nat /\ wevents <= writes /\ writes <= MaxWrites
  /\ ThemeDue

LEMMA LoadTyped == \A c : Load(c) \in Theme
BY ThemeAssumption DEF Load

LEMMA ThemeInitial == ThemeInit => ThemeInv
<1> SUFFICES ASSUME ThemeInit PROVE ThemeInv
  OBVIOUS
<1>1. ThemeType /\ writes \in Nat /\ wevents <= writes /\ writes <= MaxWrites
  <2>1. unseen \in BOOLEAN /\ watcher \in {"start", "off", "recv", "debounce", "load", "send"}
    BY DEF ThemeInit
  <2>2. Len(themeQueue) <= ThemeQueueCap /\ wevents \in 0..MaxWrites
    BY ThemeAssumption DEF ThemeInit
  <2> QED BY <2>1, <2>2, ThemeAssumption, LoadTyped DEF ThemeInit, ThemeType
<1>2. themeQueue \in Seq(Theme)
  BY DEF ThemeInit
<1>3. ThemeDue
  BY DEF ThemeInit, ThemeDue, Coming, Newest
<1> QED BY <1>1, <1>2, <1>3 DEF ThemeInv

(* A write is queued for the thread, or owed.                              *)
LEMMA WriteSeen ==
  ASSUME ThemeInv, NEW c \in Theme \union Broken, FileWritten(c)
  PROVE  /\ writes' \in Nat /\ writes' <= MaxWrites /\ conf' \in Theme \union Broken
         /\ wevents' \in 0..MaxWrites /\ wevents' <= writes' /\ unseen' \in BOOLEAN
         /\ watcher \in {"start", "off"} => unseen'
         /\ watcher \notin {"start", "off"} => wevents' # 0
<1> USE ThemeAssumption DEF ThemeInv, ThemeType
<1>1. CASE watcher \in {"start", "off"} /\ unseen' = TRUE /\ UNCHANGED wevents
  BY <1>1 DEF FileWritten
<1>2. CASE watcher \notin {"start", "off"} /\ wevents' = wevents + 1 /\ UNCHANGED unseen
  <2>1. unseen' \in BOOLEAN
    BY <1>2
  <2> QED BY <1>2, <2>1 DEF FileWritten
<1> QED BY <1>1, <1>2 DEF FileWritten

LEMMA ThemeStep == ThemeInv /\ [ThemeNext]_themeVars => ThemeInv'
<1> SUFFICES ASSUME ThemeInv, [ThemeNext]_themeVars PROVE ThemeInv'
  OBVIOUS
<1> USE ThemeAssumption DEF ThemeInv, ThemeType
<1>1. CASE UNCHANGED themeVars
  BY <1>1 DEF themeVars, ThemeDue, Coming
<1>2. CASE WatchStarts
  BY <1>2 DEF WatchStarts, ThemeDue, Coming
<1>3. CASE EditorWrites
  <2>1. PICK c \in Theme \union Broken : FileWritten(c)
    BY <1>3 DEF EditorWrites
  <2> QED BY <1>3, <2>1, WriteSeen DEF EditorWrites, ThemeDue
<1>4. CASE ThemeClicked
  <2>1. PICK t \in Theme : FileWritten(t) /\ saving' = t
    BY <1>4 DEF ThemeClicked
  <2> QED BY <1>4, <2>1, WriteSeen DEF ThemeClicked, ThemeDue
<1>5. CASE ClickShows
  BY <1>5 DEF ClickShows, ThemeDue, Coming, Newest
<1>6. CASE ThreadWakes
  BY <1>6 DEF ThreadWakes, ThemeDue
<1>7. CASE DebounceSwallows
  BY <1>7 DEF DebounceSwallows, ThemeDue
<1>8. CASE DebounceEnds
  BY <1>8 DEF DebounceEnds, ThemeDue
<1>9. CASE ThreadLoads
  BY <1>9, LoadTyped DEF ThreadLoads, ThemeDue
<1>10. CASE ThreadSends
  <2>1. CASE Len(themeQueue) < ThemeQueueCap /\ themeQueue' = Append(themeQueue, loaded) /\ unseen' = FALSE
    <3>1. themeQueue' \in Seq(Theme) /\ Len(themeQueue') = Len(themeQueue) + 1 /\ Coming' = loaded
      BY <2>1, NewestSent DEF Coming
    <3>2. loaded' = loaded /\ conf' = conf /\ watcher' = "recv" /\ wevents' = wevents /\ watcher = "send"
      BY <1>10 DEF ThreadSends
    <3>3. ThemeDue'
      <4>1. Load(conf)' = Load(conf)
        BY <3>2 DEF Load
      <4> QED BY <3>1, <3>2, <4>1 DEF ThemeDue
    <3>4. unseen' \in BOOLEAN
      BY <2>1
    <3>5. Len(themeQueue') <= ThemeQueueCap
      BY <2>1, <3>1, LenProperties
    <3> QED BY <1>10, <3>1, <3>2, <3>3, <3>4, <3>5 DEF ThreadSends
  <2>2. CASE UNCHANGED themeQueue /\ unseen' = TRUE
    BY <1>10, <2>2 DEF ThreadSends, ThemeDue
  <2> QED BY <1>10, <2>1, <2>2 DEF ThreadSends
<1>11. CASE GlobalSet
  <2>1. /\ theme' \in Theme /\ themeQueue' \in Seq(Theme) /\ Len(themeQueue') = Len(themeQueue) - 1
        /\ Newest(themeQueue', theme') = Newest(themeQueue, theme)
    BY <1>11, NewestTaken DEF GlobalSet
  <2>2. Coming' = Coming
    BY <1>11, <2>1 DEF GlobalSet, Coming
  <2> QED BY <1>11, <2>1, <2>2 DEF GlobalSet, ThemeDue
<1> QED BY <1>1, <1>2, <1>3, <1>4, <1>5, <1>6, <1>7, <1>8, <1>9, <1>10, <1>11 DEF ThemeNext

(* ThemeSettles for any themes and capacity: however writes of the file,    *)
(* clicks and the debouncing interleave, what is drawn in the end is what   *)
(* the file says, but for a write before the watch or a full channel.      *)
THEOREM ThemeFollowsFile == ThemeSpec => [](ThemeType /\ ThemeSettles)
<1>1. ThemeInv => ThemeType /\ ThemeSettles
  BY DEF ThemeInv, ThemeDue, ThemeSettles, Coming, Newest
<1> QED BY <1>1, ThemeInitial, ThemeStep, PTL DEF ThemeSpec

-----------------------------------------------------------------------------
(* The volume.  While no line of the subscription is unread and no read is  *)
(* owed, the newest reading in the channel, else the one that is shown, is  *)
(* how the sink is.                                                        *)
VolumeDue ==
  /\ pactl \in {"spawn", "sleep"} => sinkLines = 0
  /\ pactl # "read" /\ sinkLines = 0 /\ ~owed => Newest(volQueue, volume) = sink
  /\ pactl = "read" /\ sinkLines = 0 => reading \in {sink, Unread}

VolumeInv ==
  /\ VolumeType /\ volQueue \in Seq(Sink \union {Unread})
  /\ volumes \in Nat /\ sinkLines <= volumes /\ volumes <= MaxVolumes
  /\ VolumeDue

LEMMA VolumeInitial == VolumeInit => VolumeInv
<1> SUFFICES ASSUME VolumeInit PROVE VolumeInv
  OBVIOUS
<1>1. owed \in BOOLEAN /\ (~owed => volume = sink)
  BY DEF VolumeInit
<1> QED BY <1>1, VolumeAssumption DEF VolumeInit, VolumeInv, VolumeType, VolumeDue, Newest

LEMMA VolumeStep == VolumeInv /\ [VolumeNext]_volumeVars => VolumeInv'
<1> SUFFICES ASSUME VolumeInv, [VolumeNext]_volumeVars PROVE VolumeInv'
  OBVIOUS
<1> USE VolumeAssumption DEF VolumeInv, VolumeType
<1>1. CASE UNCHANGED volumeVars
  BY <1>1 DEF volumeVars, VolumeDue
<1>2. CASE SinkChanges
  <2>1. CASE pactl \in {"lines", "read"} /\ sinkLines' = sinkLines + 1 /\ UNCHANGED owed
    <3>1. owed' \in BOOLEAN
      BY <2>1
    <3> QED BY <1>2, <2>1, <3>1 DEF SinkChanges, VolumeDue
  <2>2. CASE pactl \notin {"lines", "read"} /\ owed' = TRUE /\ UNCHANGED sinkLines
    BY <1>2, <2>2 DEF SinkChanges, VolumeDue
  <2> QED BY <1>2, <2>1, <2>2 DEF SinkChanges
<1>3. CASE Subscribes
  BY <1>3 DEF Subscribes, VolumeDue
<1>4. CASE SubscriptionEnds
  <2>1. owed' \in BOOLEAN
    BY <1>4 DEF SubscriptionEnds
  <2>2. ASSUME ~owed' PROVE ~owed /\ sinkLines = 0
    <3>1. ~(owed \/ sinkLines > 0)
      BY <1>4, <2>2 DEF SubscriptionEnds
    <3>2. sinkLines \in Nat
      OBVIOUS
    <3> QED BY <3>1, <3>2
  <2> QED BY <1>4, <2>1, <2>2 DEF SubscriptionEnds, VolumeDue
<1>5. CASE DelayOver
  BY <1>5 DEF DelayOver, VolumeDue
<1>6. CASE ReadsVolume
  BY <1>6 DEF ReadsVolume, VolumeDue
<1>7. CASE QueuesVolume
  <2>1. CASE Len(volQueue) < VolumeCap /\ volQueue' = Append(volQueue, reading) /\ owed' = (reading = Unread)
    <3>1. /\ volQueue' \in Seq(Sink \union {Unread}) /\ Len(volQueue') = Len(volQueue) + 1
          /\ Newest(volQueue', volume') = reading
      BY <2>1, NewestSent
    <3>2. owed' \in BOOLEAN /\ (~owed' => reading # Unread)
      BY <2>1
    <3> QED BY <1>7, <2>1, <3>1, <3>2 DEF QueuesVolume, VolumeDue
  <2>2. CASE owed' = TRUE /\ UNCHANGED volQueue
    BY <1>7, <2>2 DEF QueuesVolume, VolumeDue
  <2> QED BY <1>7, <2>1, <2>2 DEF QueuesVolume
<1>8. CASE VolumeShown
  <2>1. /\ volume' \in Sink \union {Unread} /\ volQueue' \in Seq(Sink \union {Unread})
        /\ Len(volQueue') = Len(volQueue) - 1
        /\ Newest(volQueue', volume') = Newest(volQueue, volume)
    BY <1>8, NewestTaken DEF VolumeShown
  <2> QED BY <1>8, <2>1 DEF VolumeShown, VolumeDue
<1> QED BY <1>1, <1>2, <1>3, <1>4, <1>5, <1>6, <1>7, <1>8 DEF VolumeNext

(* VolumeSettles for any volumes and capacity: a subscription that ends and *)
(* starts again, a read that fails and a full channel leave a read owed,    *)
(* never an old volume shown for good.                                     *)
THEOREM VolumeFollowsSink == VolumeSpec => [](VolumeType /\ VolumeSettles)
<1>1. VolumeInv => VolumeType /\ VolumeSettles
  BY DEF VolumeInv, VolumeDue, VolumeSettles, Newest
<1> QED BY <1>1, VolumeInitial, VolumeStep, PTL DEF VolumeSpec

-----------------------------------------------------------------------------
(* The network.  A change of the kernel and a message about it are one      *)
(* step, so the last message about an interface tells how it is, and for an *)
(* interface no message is about any more the caches do.                    *)
Message == [about : {"link", "addr"}, link : Link, state : {"absent", "down", "up"}]
Iface == [link : Link, up : BOOLEAN, addr : BOOLEAN]
NetEvent == [kind : {"snapshot", "rates"}, ifaces : SUBSET Iface]

Now(a, l) == IF a = "link" THEN links[l] ELSE IF l \in addrs THEN "up" ELSE "absent"
Cached(a, l) == IF a = "link" THEN linkCache[l] ELSE IF l \in addrCache THEN "up" ELSE "absent"

About(m, a, l) == m.about = a /\ m.link = l
Silent(q, a, l) == \A n \in 1..Len(q) : ~About(q[n], a, l)
LastWord(q, n) == \A k \in 1..Len(q) : k > n => ~About(q[k], q[n].about, q[n].link)

MessagesCurrent ==
  \A n \in 1..Len(mcast) : LastWord(mcast, n) => mcast[n].state = Now(mcast[n].about, mcast[n].link)
CaughtUp(a) == \A l \in Link : Silent(mcast, a, l) => Cached(a, l) = Now(a, l)

NetCurrent ==
  /\ netPc = "join" => mcast = <<>>
  /\ Joined /\ ~netLost => MessagesCurrent
  /\ Joined /\ netPc # "links" /\ ~netLost => CaughtUp("link")
  /\ Joined /\ netPc \notin {"links", "addrs"} /\ ~netLost => CaughtUp("addr")

NetShapes ==
  /\ mcast \in Seq(Message) /\ netQueue \in Seq(NetEvent)
  /\ snapshot \subseteq Iface /\ listed \subseteq Iface
  /\ netPc \in {"join", "links", "addrs", "publish", "poll", "stats", "totals", "rates", "drain", "gone"}

(* The newest snapshot in the channel, or else what is listed, is this one.*)
Tells(q, list, s) ==
  \/ list = s /\ \A n \in 1..Len(q) : q[n].kind = "rates"
  \/ \E n \in 1..Len(q) : /\ q[n].kind = "snapshot" /\ q[n].ifaces = s
                          /\ \A k \in 1..Len(q) : k > n => q[k].kind = "rates"

Published ==
  /\ netPc \in {"publish", "poll", "stats", "totals", "rates"} => snapshot = Merge(linkCache, addrCache)
  /\ popupAt = "open" /\ netPc \in {"poll", "stats", "totals", "rates", "drain"} =>
       Tells(netQueue, listed, snapshot)

NetInv ==
  /\ NetType /\ NetShapes /\ overrun \in BOOLEAN /\ (overrun => netLost)
  /\ NetCurrent /\ Published /\ SelectedListed

LEMMA MergeTyped ==
  ASSUME NEW ls \in [Link -> {"absent", "down", "up"}], NEW as \in SUBSET Link
  PROVE  Merge(ls, as) \subseteq Iface
<1> SUFFICES ASSUME NEW l \in Link
             PROVE  [link |-> l, up |-> ls[l] = "up", addr |-> l \in as] \in Iface
  BY DEF Merge
<1>1. (ls[l] = "up") \in BOOLEAN /\ (l \in as) \in BOOLEAN
  OBVIOUS
<1> QED BY <1>1 DEF Iface

(* A nonempty set of naturals has a least element, and Min is one.         *)
LEMMA MinThere ==
  ASSUME NEW S, S \subseteq Nat, S # {}
  PROVE  Min(S) \in S
<1> DEFINE Below == {p \in Nat \X Nat : p[1] < p[2]}
<1>1. IsWellFoundedOn(Below, Nat)
  BY NatLessThanWellFounded DEF OpToRel
<1>2. PICK x \in S : \A y \in S : ~(<<y, x>> \in Below)
  <2> HIDE DEF Below
  <2>1. \E x \in S : \A y \in S : ~(<<y, x>> \in Below)
    BY <1>1, WFMin
  <2> QED BY <2>1
<1>3. ASSUME NEW y \in S PROVE x <= y
  <2>1. <<y, x>> \in Nat \X Nat /\ <<y, x>>[1] = y /\ <<y, x>>[2] = x
    OBVIOUS
  <2>2. ~(y < x)
    BY <1>2, <2>1
  <2>3. x \in Nat /\ y \in Nat
    OBVIOUS
  <2> QED BY <2>2, <2>3
<1> QED BY <1>3 DEF Min

(* A default is one of the interfaces it is picked from.                   *)
LEMMA PickedListed ==
  ASSUME NEW list, list \subseteq Iface, list # {}
  PROVE  PickDefault(list) \in Ifaces(list)
<1>1. Ifaces(list) \subseteq Nat /\ Ifaces(list) # {}
  <2>1. \A i \in list : i.link \in Link
    BY DEF Iface
  <2>2. Link \subseteq Nat
    BY NetAssumption
  <2>3. PICK i \in list : TRUE
    OBVIOUS
  <2>4. i.link \in Ifaces(list)
    BY DEF Ifaces
  <2> QED BY <2>1, <2>2, <2>4 DEF Ifaces
<1>2. UpIn(list) \subseteq Ifaces(list)
  <2> SUFFICES ASSUME NEW i \in list PROVE i.link \in Ifaces(list)
    BY DEF UpIn
  <2> QED BY DEF Ifaces
<1>3. CASE UpIn(list) \intersect Physical # {}
  BY <1>1, <1>2, <1>3, MinThere DEF PickDefault
<1>4. CASE UpIn(list) \intersect Physical = {} /\ UpIn(list) # {}
  BY <1>1, <1>2, <1>4, MinThere DEF PickDefault
<1>5. CASE UpIn(list) = {}
  BY <1>1, <1>5, MinThere DEF PickDefault
<1> QED BY <1>3, <1>4, <1>5

LEMMA NetInitial == NetInit => NetInv
<1> SUFFICES ASSUME NetInit PROVE NetInv
  OBVIOUS
<1>1. NetType
  BY NetAssumption DEF NetInit, NetType
<1>2. NetShapes
  BY DEF NetInit, NetShapes
<1>3. overrun \in BOOLEAN /\ (overrun => netLost)
  BY DEF NetInit
<1>4. NetCurrent /\ Published
  BY DEF NetInit, NetCurrent, Published, Joined
<1>5. SelectedListed
  BY DEF NetInit, SelectedListed
<1> QED BY <1>1, <1>2, <1>3, <1>4, <1>5 DEF NetInv

-----------------------------------------------------------------------------
(* A message that is appended is the last word about its interface, and     *)
(* leaves the others theirs.                                                *)
LEMMA WordAppended ==
  ASSUME NEW q \in Seq(Message), NEW m \in Message
  PROVE  LET r == Append(q, m) IN
         /\ r \in Seq(Message) /\ Len(r) = Len(q) + 1 /\ r[Len(r)] = m
         /\ \A n \in 1..Len(q) : r[n] = q[n]
         /\ \A n \in 1..Len(q) : LastWord(r, n) => LastWord(q, n) /\ ~About(m, q[n].about, q[n].link)
         /\ \A a, l : Silent(r, a, l) => Silent(q, a, l) /\ ~About(m, a, l)
<1> DEFINE r == Append(q, m)
<1>1. /\ r \in Seq(Message) /\ Len(r) = Len(q) + 1 /\ r[Len(q) + 1] = m
      /\ \A n \in 1..Len(q) : r[n] = q[n]
  BY AppendProperties
<1>2. Len(q) \in Nat
  BY LenProperties
<1> HIDE DEF r
<1>3. ASSUME NEW n \in 1..Len(q), LastWord(r, n)
      PROVE  LastWord(q, n) /\ ~About(m, q[n].about, q[n].link)
  <2>1. r[n] = q[n] /\ \A k \in 1..Len(q) + 1 : k > n => ~About(r[k], q[n].about, q[n].link)
    BY <1>1, <1>3 DEF LastWord
  <2>2. Len(q) + 1 \in 1..Len(q) + 1 /\ Len(q) + 1 > n /\ 1..Len(q) \subseteq 1..Len(q) + 1
    BY <1>2
  <2> QED BY <1>1, <2>1, <2>2 DEF LastWord
<1>4. ASSUME NEW a, NEW l, Silent(r, a, l)
      PROVE  Silent(q, a, l) /\ ~About(m, a, l)
  <2>1. Len(q) + 1 \in 1..Len(q) + 1 /\ 1..Len(q) \subseteq 1..Len(q) + 1
    BY <1>2
  <2> QED BY <1>1, <1>4, <2>1 DEF Silent
<1> QED BY <1>1, <1>3, <1>4 DEF r

(* What is left after a message was taken; it was the last word about its   *)
(* interface unless another one is about it too.                            *)
LEMMA WordTaken ==
  ASSUME NEW q \in Seq(Message), q # <<>>
  PROVE  LET r == Tail(q)  m == Head(q) IN
         /\ m \in Message /\ r \in Seq(Message) /\ Len(r) = Len(q) - 1 /\ m = q[1] /\ 1 \in 1..Len(q)
         /\ \A n \in 1..Len(r) : r[n] = q[n + 1] /\ n + 1 \in 1..Len(q)
         /\ \A n \in 1..Len(r) : LastWord(r, n) => LastWord(q, n + 1)
         /\ \A a, l : Silent(r, a, l) /\ ~About(m, a, l) => Silent(q, a, l)
         /\ \A a, l : Silent(r, a, l) /\ About(m, a, l) => LastWord(q, 1)
<1> DEFINE r == Tail(q)  m == Head(q)
<1>1. /\ m \in Message /\ r \in Seq(Message) /\ Len(r) = Len(q) - 1
      /\ \A i \in 1..Len(r) : r[i] = q[i + 1]
  BY HeadTailProperties
<1>2. Len(q) \in Nat \ {0}
  BY EmptySeq
<1>3. m = q[1]
  BY <1>2
<1> HIDE DEF r, m
<1>4. \A n \in 1..Len(r) : n + 1 \in 1..Len(q)
  BY <1>1, <1>2
<1>5. \A k \in 1..Len(q) : k > 1 => k - 1 \in 1..Len(r) /\ q[k] = r[k - 1]
  BY <1>1, <1>2
<1>6. ASSUME NEW n \in 1..Len(r), LastWord(r, n) PROVE LastWord(q, n + 1)
  <2> SUFFICES ASSUME NEW k \in 1..Len(q), k > n + 1 PROVE ~About(q[k], q[n + 1].about, q[n + 1].link)
    BY DEF LastWord
  <2>1. k > 1 /\ k - 1 > n
    BY <1>1, <1>2
  <2> QED BY <1>1, <1>5, <1>6, <2>1 DEF LastWord
<1>7. ASSUME NEW a, NEW l, Silent(r, a, l), ~About(m, a, l) PROVE Silent(q, a, l)
  <2> SUFFICES ASSUME NEW k \in 1..Len(q) PROVE ~About(q[k], a, l)
    BY DEF Silent
  <2>1. CASE k = 1
    BY <1>3, <1>7, <2>1
  <2>2. CASE k > 1
    BY <1>5, <1>7, <2>2 DEF Silent
  <2> QED BY <1>2, <2>1, <2>2
<1>8. ASSUME NEW a, NEW l, Silent(r, a, l), About(m, a, l) PROVE LastWord(q, 1)
  <2> SUFFICES ASSUME NEW k \in 1..Len(q), k > 1 PROVE ~About(q[k], q[1].about, q[1].link)
    BY DEF LastWord
  <2>1. q[1].about = a /\ q[1].link = l
    BY <1>3, <1>8 DEF About
  <2> QED BY <1>5, <1>8, <2>1 DEF Silent
<1>9. 1 \in 1..Len(q)
  BY <1>2
<1> QED BY <1>1, <1>3, <1>4, <1>6, <1>7, <1>8, <1>9 DEF r, m

(* A change that is announced.                                             *)
LEMMA Announced ==
  ASSUME NetInv, NEW m \in Message, Announce(m), UNCHANGED <<netPc, linkCache, addrCache>>,
         Now(m.about, m.link)' = m.state,
         \A a \in {"link", "addr"}, l \in Link : ~About(m, a, l) => Now(a, l)' = Now(a, l)
  PROVE  NetCurrent' /\ mcast' \in Seq(Message) /\ Len(mcast') <= McastCap
         /\ overrun' \in BOOLEAN /\ (overrun' => netLost')
<1>0. mcast \in Seq(Message) /\ Len(mcast) \in Nat /\ Len(mcast) <= McastCap
  BY LenProperties DEF NetInv, NetShapes, NetType
<1>4. \A a \in {"link", "addr"}, l \in Link : Cached(a, l)' = Cached(a, l)
  BY DEF Cached
<1>1. CASE ~Joined /\ UNCHANGED <<mcast, overrun, netLost>>
  <2>1. overrun' \in BOOLEAN /\ (overrun' => netLost')
    BY <1>1 DEF NetInv
  <2> QED BY <1>0, <1>1, <2>1 DEF NetInv, NetCurrent, Joined
<1>2. CASE Joined /\ Len(mcast) < McastCap /\ mcast' = Append(mcast, m) /\ UNCHANGED <<overrun, netLost>>
  <2>1. overrun' \in BOOLEAN /\ (overrun' => netLost')
    BY <1>2 DEF NetInv
  <2>2. /\ mcast' \in Seq(Message) /\ Len(mcast') = Len(mcast) + 1 /\ mcast'[Len(mcast')] = m
        /\ \A n \in 1..Len(mcast) : mcast'[n] = mcast[n]
        /\ \A n \in 1..Len(mcast) : LastWord(mcast', n) =>
              LastWord(mcast, n) /\ ~About(m, mcast[n].about, mcast[n].link)
        /\ \A a, l : Silent(mcast', a, l) => Silent(mcast, a, l) /\ ~About(m, a, l)
    BY <1>0, <1>2, WordAppended
  <2>3. Len(mcast') <= McastCap
    BY <1>0, <1>2, <2>2, NetAssumption
  <2>4. ASSUME MessagesCurrent PROVE MessagesCurrent'
    <3> SUFFICES ASSUME NEW n \in 1..Len(mcast'), LastWord(mcast', n), NEW e, e = mcast'[n]
                 PROVE  e.state = Now(e.about, e.link)'
      BY DEF MessagesCurrent
    <3>1. CASE n = Len(mcast')
      <4>1. e = m
        BY <2>2, <3>1
      <4> QED BY <4>1
    <3>2. CASE n \in 1..Len(mcast)
      <4>1. /\ mcast'[n] = mcast[n] /\ LastWord(mcast, n) /\ ~About(m, mcast[n].about, mcast[n].link)
            /\ mcast[n].state = Now(mcast[n].about, mcast[n].link)
        BY <2>2, <2>4, <3>2 DEF MessagesCurrent
      <4>2. mcast[n] \in Message
        BY <1>0, <3>2, LenProperties
      <4>3. mcast[n].about \in {"link", "addr"} /\ mcast[n].link \in Link
        BY <4>2 DEF Message
      <4>4. mcast[n] = e
        BY <4>1
      <4> QED BY <4>1, <4>3, <4>4
    <3> QED BY <1>0, <2>2, <3>1, <3>2
  <2>5. ASSUME NEW a \in {"link", "addr"}, CaughtUp(a) PROVE CaughtUp(a)'
    BY <1>4, <2>2, <2>5 DEF CaughtUp
  <2>6. CaughtUp("link") => CaughtUp("link")'
    BY <2>5
  <2>7. CaughtUp("addr") => CaughtUp("addr")'
    BY <2>5
  <2>8. NetCurrent'
    BY <1>2, <2>4, <2>6, <2>7 DEF NetInv, NetCurrent, Joined
  <2> QED BY <2>1, <2>2, <2>3, <2>8
<1>3. CASE Joined /\ overrun' = TRUE /\ netLost' = TRUE /\ UNCHANGED mcast
  BY <1>0, <1>3 DEF NetCurrent, Joined
<1> QED BY <1>1, <1>2, <1>3 DEF Announce

(* A snapshot that is sent is the newest, rates tell nothing of it, and the *)
(* event that the popup takes leaves the newest as it was.                  *)
LEMMA Told ==
  ASSUME NEW q \in Seq(NetEvent), NEW e \in NetEvent, NEW list, NEW s
  PROVE  /\ Append(q, e) \in Seq(NetEvent) /\ Len(Append(q, e)) = Len(q) + 1
         /\ e.kind = "snapshot" /\ e.ifaces = s => Tells(Append(q, e), list, s)
         /\ e.kind = "rates" /\ Tells(q, list, s) => Tells(Append(q, e), list, s)
<1> DEFINE r == Append(q, e)
<1>1. /\ r \in Seq(NetEvent) /\ Len(r) = Len(q) + 1 /\ r[Len(q) + 1] = e
      /\ \A n \in 1..Len(q) : r[n] = q[n]
  BY AppendProperties
<1>2. Len(q) \in Nat
  BY LenProperties
<1> HIDE DEF r
<1>3. ASSUME e.kind = "snapshot", e.ifaces = s PROVE Tells(r, list, s)
  <2>1. Len(q) + 1 \in 1..Len(r) /\ \A k \in 1..Len(r) : ~(k > Len(q) + 1)
    BY <1>1, <1>2
  <2> QED BY <1>1, <1>3, <2>1 DEF Tells
<1>4. ASSUME e.kind = "rates", Tells(q, list, s) PROVE Tells(r, list, s)
  <2>1. \A n \in 1..Len(r) : n \notin 1..Len(q) => r[n].kind = "rates"
    BY <1>1, <1>2, <1>4
  <2>2. 1..Len(q) \subseteq 1..Len(r)
    BY <1>1, <1>2
  <2>3. CASE list = s /\ \A n \in 1..Len(q) : q[n].kind = "rates"
    BY <1>1, <2>1, <2>3 DEF Tells
  <2>4. ASSUME NEW n \in 1..Len(q), q[n].kind = "snapshot", q[n].ifaces = s,
               \A k \in 1..Len(q) : k > n => q[k].kind = "rates"
        PROVE  Tells(r, list, s)
    <3>1. \A k \in 1..Len(r) : k > n => r[k].kind = "rates"
      BY <1>1, <2>1, <2>4
    <3> QED BY <1>1, <2>2, <2>4, <3>1 DEF Tells
  <2> QED BY <1>4, <2>3, <2>4 DEF Tells
<1> QED BY <1>1, <1>3, <1>4 DEF r

LEMMA TellsOn ==
  ASSUME NEW q \in Seq(NetEvent), q # <<>>, NEW list, NEW s, Tells(q, list, s)
  PROVE  /\ Head(q) \in NetEvent /\ Tail(q) \in Seq(NetEvent) /\ Len(Tail(q)) = Len(q) - 1
         /\ Tells(Tail(q), IF Head(q).kind = "snapshot" THEN Head(q).ifaces ELSE list, s)
<1> DEFINE r == Tail(q)  e == Head(q)  now == IF e.kind = "snapshot" THEN e.ifaces ELSE list
<1>1. /\ e \in NetEvent /\ r \in Seq(NetEvent) /\ Len(r) = Len(q) - 1
      /\ \A i \in 1..Len(r) : r[i] = q[i + 1]
  BY HeadTailProperties
<1>2. Len(q) \in Nat \ {0}
  BY EmptySeq
<1>3. e = q[1] /\ 1 \in 1..Len(q)
  BY <1>2
<1> HIDE DEF r, e
<1>4. \A n \in 1..Len(r) : n + 1 \in 1..Len(q) /\ n + 1 > 1
  BY <1>1, <1>2
<1>5. \A k \in 1..Len(q) : k > 1 => k - 1 \in 1..Len(r) /\ q[k] = r[k - 1]
  BY <1>1, <1>2
<1>6. CASE list = s /\ \A n \in 1..Len(q) : q[n].kind = "rates"
  <2>1. e.kind # "snapshot" /\ \A n \in 1..Len(r) : r[n].kind = "rates"
    BY <1>1, <1>3, <1>4, <1>6
  <2> QED BY <1>1, <1>6, <2>1 DEF Tells, r, e
<1>7. ASSUME NEW n \in 1..Len(q), q[n].kind = "snapshot", q[n].ifaces = s,
             \A k \in 1..Len(q) : k > n => q[k].kind = "rates"
      PROVE  Tells(r, now, s)
  <2>1. CASE n = 1
    <3>1. \A k \in 1..Len(r) : r[k].kind = "rates"
      BY <1>1, <1>4, <1>7, <2>1
    <3> QED BY <1>3, <1>7, <2>1, <3>1 DEF Tells
  <2>2. CASE n > 1
    <3>1. n - 1 \in 1..Len(r) /\ r[n - 1] = q[n]
      BY <1>5, <2>2
    <3>2. ASSUME NEW k \in 1..Len(r), k > n - 1 PROVE r[k].kind = "rates"
      <4>1. k + 1 \in 1..Len(q) /\ k + 1 > n /\ r[k] = q[k + 1]
        BY <1>1, <1>2, <1>4, <3>2
      <4> QED BY <1>7, <4>1
    <3> QED BY <1>7, <3>1, <3>2 DEF Tells
  <2> QED BY <1>2, <2>1, <2>2
<1> QED BY <1>1, <1>6, <1>7 DEF Tells, r, e

-----------------------------------------------------------------------------
(* What the kernel has told stays told while it and the caches rest.       *)
LEMMA WordsKept ==
  ASSUME UNCHANGED <<links, addrs, mcast, linkCache, addrCache>>
  PROVE  /\ MessagesCurrent => MessagesCurrent'
         /\ CaughtUp("link") => CaughtUp("link")'
         /\ CaughtUp("addr") => CaughtUp("addr")'
<1>1. MessagesCurrent => MessagesCurrent'
  BY DEF MessagesCurrent, Now, LastWord, About
<1>2. CaughtUp("link") => CaughtUp("link")'
  BY DEF CaughtUp, Now, Cached, Silent, About
<1>3. CaughtUp("addr") => CaughtUp("addr")'
  BY DEF CaughtUp, Now, Cached, Silent, About
<1> QED BY <1>1, <1>2, <1>3

LEMMA NoMessages == mcast = <<>> => MessagesCurrent
<1>1. Len(<<>>) = 0
  BY EmptySeq
<1> QED BY <1>1 DEF MessagesCurrent

(* The worker goes on and nothing else happens.                            *)
LEMMA WorkerMoves ==
  ASSUME NetInv, UNCHANGED <<kernelVars, linkCache, addrCache, snapshot, netQueue, netPopupVars>>,
         \/ netPc = "join" /\ netPc' \in {"links", "gone"}
         \/ netPc \in {"poll", "stats", "totals", "rates"} /\ netPc' \in {"poll", "stats", "totals", "rates", "drain"}
  PROVE  NetInv'
<1>1. UNCHANGED <<links, addrs, mcast, overrun, netLost, popupAt, listed, selected, hovered>>
  BY DEF kernelVars, netPopupVars
<1>2. NetType' /\ NetShapes'
  BY <1>1 DEF NetInv, NetType, NetShapes
<1>3. NetCurrent'
  BY <1>1, WordsKept, NoMessages DEF NetInv, NetCurrent, Joined
<1>4. Published' /\ SelectedListed'
  BY <1>1 DEF NetInv, Published, SelectedListed
<1>5. overrun' \in BOOLEAN /\ (overrun' => netLost')
  BY <1>1 DEF NetInv
<1> QED BY <1>2, <1>3, <1>4, <1>5 DEF NetInv

LEMMA WorkerSends ==
  ASSUME NetInv, NEW from, NEW e \in NetEvent, NEW to \in {"poll", "rates"}, Sends(from, e, to),
         \/ e.kind = "snapshot" /\ e.ifaces = snapshot /\ from \in {"publish", "totals"}
         \/ e.kind = "rates" /\ from = "rates"
  PROVE  NetInv'
<1>1. UNCHANGED <<links, addrs, mcast, overrun, netLost, popupAt, listed, selected, hovered>>
  BY DEF Sends, kernelVars, netPopupVars
<1>2. netPc = from /\ netPc' \in {"gone", to} /\ UNCHANGED <<linkCache, addrCache, snapshot>>
  BY DEF Sends
<1>3. netQueue \in Seq(NetEvent) /\ Len(netQueue) \in Nat
  BY LenProperties DEF NetInv, NetShapes
<1>4. /\ netQueue' \in Seq(NetEvent) /\ Len(netQueue') <= NetQueueCap
      /\ popupAt = "open" => Tells(netQueue', listed, snapshot)
  <2>1. CASE popupAt = "dropped" /\ UNCHANGED netQueue
    BY <1>3, <2>1 DEF NetInv, NetType
  <2>2. CASE Len(netQueue) < NetQueueCap /\ netQueue' = Append(netQueue, e)
    <3>1. netQueue' \in Seq(NetEvent) /\ Len(netQueue') = Len(netQueue) + 1
      BY <1>3, <2>2, Told
    <3>2. Len(netQueue') <= NetQueueCap
      BY <1>3, <2>2, <3>1, NetAssumption
    <3>3. ASSUME popupAt = "open" PROVE Tells(netQueue', listed, snapshot)
      <4>1. CASE e.kind = "snapshot" /\ e.ifaces = snapshot
        BY <1>3, <2>2, <4>1, Told
      <4>2. CASE e.kind = "rates" /\ from = "rates"
        <5>1. Tells(netQueue, listed, snapshot)
          BY <1>2, <3>3, <4>2 DEF NetInv, Published
        <5> QED BY <1>3, <2>2, <4>2, <5>1, Told
      <4> QED BY <4>1, <4>2
    <3> QED BY <3>1, <3>2, <3>3
  <2> QED BY <2>1, <2>2 DEF Sends
<1>5. NetType' /\ NetShapes'
  BY <1>1, <1>2, <1>4 DEF NetInv, NetType, NetShapes
<1>6. NetCurrent'
  BY <1>1, <1>2, WordsKept DEF NetInv, NetCurrent, Joined
<1>7. Published'
  <2>1. snapshot = Merge(linkCache, addrCache)
    BY <1>2 DEF NetInv, Published
  <2>2. Merge(linkCache, addrCache)' = Merge(linkCache, addrCache)
    BY <1>2 DEF Merge
  <2>3. Tells(netQueue, listed, snapshot)' <=> Tells(netQueue', listed, snapshot)
    BY <1>1, <1>2 DEF Tells
  <2> QED BY <1>1, <1>2, <1>4, <2>1, <2>2, <2>3 DEF Published
<1>8. SelectedListed'
  BY <1>1 DEF NetInv, SelectedListed
<1>9. overrun' \in BOOLEAN /\ (overrun' => netLost')
  BY <1>1 DEF NetInv
<1> QED BY <1>5, <1>6, <1>7, <1>8, <1>9 DEF NetInv

LEMMA LinksDumped == NetInv /\ DumpsLinks => NetInv'
<1> SUFFICES ASSUME NetInv, DumpsLinks PROVE NetInv'
  OBVIOUS
<1>1. UNCHANGED <<links, addrs, mcast, overrun, netLost, popupAt, listed, selected, hovered,
                  addrCache, snapshot, netQueue>>
  BY DEF DumpsLinks, kernelVars, netPopupVars
<1>2. NetType' /\ NetShapes'
  BY <1>1 DEF DumpsLinks, NetInv, NetType, NetShapes
<1>3. NetCurrent'
  <2>1. MessagesCurrent => MessagesCurrent'
    BY <1>1 DEF MessagesCurrent, Now, LastWord, About
  <2>2. CASE netPc' = "addrs" /\ linkCache' = links
    <3>1. CaughtUp("link")'
      BY <1>1, <2>2 DEF CaughtUp, Now, Cached
    <3> QED BY <1>1, <2>1, <2>2, <3>1 DEF DumpsLinks, NetInv, NetCurrent, Joined
  <2>3. CASE netPc' = "gone"
    BY <2>3 DEF NetCurrent, Joined
  <2> QED BY <2>2, <2>3 DEF DumpsLinks
<1>4. Published' /\ SelectedListed'
  BY <1>1 DEF DumpsLinks, NetInv, Published, SelectedListed
<1>5. overrun' \in BOOLEAN /\ (overrun' => netLost')
  BY <1>1 DEF NetInv
<1> QED BY <1>2, <1>3, <1>4, <1>5 DEF NetInv

LEMMA AddrsDumped == NetInv /\ DumpsAddrs => NetInv'
<1> SUFFICES ASSUME NetInv, DumpsAddrs PROVE NetInv'
  OBVIOUS
<1>1. UNCHANGED <<links, addrs, mcast, overrun, netLost, popupAt, listed, selected, hovered,
                  linkCache, netQueue>>
  BY DEF DumpsAddrs, kernelVars, netPopupVars
<1>2. CASE netPc' = "gone" /\ UNCHANGED <<addrCache, snapshot>>
  <2>1. NetType' /\ NetShapes' /\ Published' /\ SelectedListed' /\ NetCurrent'
    BY <1>1, <1>2 DEF NetInv, NetType, NetShapes, Published, SelectedListed, NetCurrent, Joined
  <2>2. overrun' \in BOOLEAN /\ (overrun' => netLost')
    BY <1>1 DEF NetInv
  <2> QED BY <2>1, <2>2 DEF NetInv
<1>3. CASE netPc' = "publish" /\ addrCache' = addrs /\ snapshot' = Merge(linkCache, addrs)
  <2>1. snapshot' \subseteq Iface /\ addrCache' \subseteq Link
    BY <1>3, MergeTyped DEF NetInv, NetType
  <2>2. NetType' /\ NetShapes'
    BY <1>1, <1>3, <2>1 DEF NetInv, NetType, NetShapes
  <2>3. MessagesCurrent => MessagesCurrent'
    BY <1>1 DEF MessagesCurrent, Now, LastWord, About
  <2>4. CaughtUp("link") => CaughtUp("link")'
    BY <1>1 DEF CaughtUp, Now, Cached, Silent, About
  <2>5. CaughtUp("addr")'
    BY <1>1, <1>3 DEF CaughtUp, Now, Cached
  <2>6. NetCurrent'
    BY <1>1, <1>3, <2>3, <2>4, <2>5 DEF DumpsAddrs, NetInv, NetCurrent, Joined
  <2>7. Published'
    BY <1>1, <1>3 DEF Published, Merge
  <2>8. overrun' \in BOOLEAN /\ (overrun' => netLost')
    BY <1>1 DEF NetInv
  <2>9. SelectedListed'
    BY <1>1 DEF NetInv, SelectedListed
  <2> QED BY <2>2, <2>6, <2>7, <2>8, <2>9 DEF NetInv
<1> QED BY <1>2, <1>3 DEF DumpsAddrs

(* A message is replayed over the cache: if it was the last about its       *)
(* interface the cache is now right about it, and of the others it says     *)
(* nothing.                                                                *)
LEMMA MessageReplayed == NetInv /\ MessageRead => NetInv'
<1> SUFFICES ASSUME NetInv, MessageRead PROVE NetInv'
  OBVIOUS
<1>1. PICK m : m = Head(mcast)
  OBVIOUS
<1>2. /\ UNCHANGED <<links, addrs, overrun, netLost, netPc, snapshot, netQueue,
                     popupAt, listed, selected, hovered>>
      /\ netPc = "drain" /\ mcast # <<>> /\ mcast' = Tail(mcast)
  BY DEF MessageRead, netPopupVars
<1>3. \/ m.about = "link" /\ linkCache' = [linkCache EXCEPT ![m.link] = m.state] /\ UNCHANGED addrCache
      \/ /\ m.about # "link" /\ UNCHANGED linkCache
         /\ addrCache' = IF m.state = "up" THEN addrCache \union {m.link} ELSE addrCache \ {m.link}
  BY <1>1 DEF MessageRead
<1>4. mcast \in Seq(Message) /\ Len(mcast) <= McastCap /\ Len(mcast) \in Nat
  BY LenProperties DEF NetInv, NetShapes, NetType
<1>5. /\ m \in Message /\ mcast' \in Seq(Message) /\ Len(mcast') = Len(mcast) - 1
      /\ m = mcast[1] /\ 1 \in 1..Len(mcast)
      /\ \A n \in 1..Len(mcast') : mcast'[n] = mcast[n + 1] /\ n + 1 \in 1..Len(mcast)
      /\ \A n \in 1..Len(mcast') : LastWord(mcast', n) => LastWord(mcast, n + 1)
      /\ \A a, l : Silent(mcast', a, l) /\ ~About(m, a, l) => Silent(mcast, a, l)
      /\ \A a, l : Silent(mcast', a, l) /\ About(m, a, l) => LastWord(mcast, 1)
  BY <1>1, <1>2, <1>4, WordTaken
<1>6. m.about \in {"link", "addr"} /\ m.link \in Link /\ m.state \in {"absent", "down", "up"}
  BY <1>5 DEF Message
<1>7. linkCache' \in [Link -> {"absent", "down", "up"}] /\ addrCache' \subseteq Link
  BY <1>3, <1>6 DEF NetInv, NetType
<1>8. NetType' /\ NetShapes'
  <2>1. Len(mcast') <= McastCap
    BY <1>4, <1>5, NetAssumption
  <2> QED BY <1>2, <1>5, <1>7, <2>1 DEF NetInv, NetType, NetShapes
<1>9. ASSUME ~netLost PROVE MessagesCurrent' /\ CaughtUp("link")' /\ CaughtUp("addr")'
  <2>1. MessagesCurrent /\ CaughtUp("link") /\ CaughtUp("addr")
    BY <1>2, <1>9 DEF NetInv, NetCurrent, Joined
  <2>2. MessagesCurrent'
    <3> SUFFICES ASSUME NEW n \in 1..Len(mcast'), LastWord(mcast', n), NEW e, e = mcast'[n]
                 PROVE  e.state = Now(e.about, e.link)'
      BY DEF MessagesCurrent
    <3>1. LastWord(mcast, n + 1) /\ n + 1 \in 1..Len(mcast) /\ mcast[n + 1] = e
      BY <1>5
    <3>2. e.state = Now(e.about, e.link)
      BY <2>1, <3>1 DEF MessagesCurrent
    <3> QED BY <1>2, <3>2 DEF Now
  <2>3. ASSUME NEW a \in {"link", "addr"}, NEW l \in Link, Silent(mcast', a, l), CaughtUp(a)
        PROVE  Cached(a, l)' = Now(a, l)'
    <3>1. Now(a, l)' = Now(a, l)
      BY <1>2 DEF Now
    <3>2. CASE About(m, a, l)
      <4>1. LastWord(mcast, 1)
        BY <1>5, <2>3, <3>2
      <4>2. m.state = Now(m.about, m.link)
        BY <1>5, <2>1, <4>1 DEF MessagesCurrent
      <4>3. m.about = a /\ m.link = l
        BY <3>2 DEF About
      <4>4. Cached(a, l)' = m.state
        <5>1. CASE a = "link"
          BY <1>3, <4>3, <5>1 DEF Cached, NetInv, NetType
        <5>2. CASE a = "addr"
          <6>1. m.state \in {"absent", "up"}
            BY <4>2, <4>3, <5>2 DEF Now
          <6>2. l \in addrCache' <=> m.state = "up"
            BY <1>3, <4>3, <5>2, <6>1
          <6> QED BY <5>2, <6>1, <6>2 DEF Cached
        <5> QED BY <5>1, <5>2
      <4> QED BY <3>1, <4>2, <4>3, <4>4
    <3>3. CASE ~About(m, a, l)
      <4>1. Cached(a, l) = Now(a, l)
        BY <1>5, <2>3, <3>3 DEF CaughtUp
      <4>2. Cached(a, l)' = Cached(a, l)
        <5>1. CASE a = "link"
          BY <1>3, <1>6, <3>3, <5>1 DEF Cached, About, NetInv, NetType
        <5>2. CASE a = "addr"
          BY <1>3, <1>6, <3>3, <5>2 DEF Cached, About
        <5> QED BY <5>1, <5>2
      <4> QED BY <3>1, <4>1, <4>2
    <3> QED BY <3>2, <3>3
  <2>4. CaughtUp("link")'
    BY <2>1, <2>3 DEF CaughtUp
  <2>5. CaughtUp("addr")'
    BY <2>1, <2>3 DEF CaughtUp
  <2> QED BY <2>2, <2>4, <2>5
<1>10. NetCurrent'
  BY <1>2, <1>9 DEF NetCurrent, Joined
<1>11. Published' /\ SelectedListed'
  BY <1>2 DEF NetInv, Published, SelectedListed
<1>12. overrun' \in BOOLEAN /\ (overrun' => netLost')
  BY <1>2 DEF NetInv
<1> QED BY <1>8, <1>10, <1>11, <1>12 DEF NetInv

LEMMA WorkerDrained == NetInv /\ Drained => NetInv'
<1> SUFFICES ASSUME NetInv, Drained PROVE NetInv'
  OBVIOUS
<1>1. /\ UNCHANGED <<links, addrs, mcast, netLost, linkCache, addrCache, netQueue,
                     popupAt, listed, selected, hovered>>
      /\ netPc = "drain" /\ overrun' = FALSE /\ snapshot' = Merge(linkCache, addrCache)
      /\ \/ netPc' = "publish"
         \/ netPc' = "poll" /\ snapshot' = snapshot
  BY DEF Drained, netPopupVars
<1>2. snapshot' \subseteq Iface
  BY <1>1, MergeTyped DEF NetInv, NetType
<1>3. NetType' /\ NetShapes'
  BY <1>1, <1>2 DEF NetInv, NetType, NetShapes
<1>4. NetCurrent'
  BY <1>1, WordsKept DEF NetInv, NetCurrent, Joined
<1>5. Published'
  <2>1. Merge(linkCache, addrCache)' = Merge(linkCache, addrCache)
    BY <1>1 DEF Merge
  <2> QED BY <1>1, <2>1 DEF NetInv, Published
<1>6. SelectedListed' /\ overrun' \in BOOLEAN /\ ~overrun'
  BY <1>1 DEF NetInv, SelectedListed
<1> QED BY <1>3, <1>4, <1>5, <1>6 DEF NetInv

-----------------------------------------------------------------------------
(* The popup's steps leave the kernel and the worker alone.                *)
LEMMA WorkerRests ==
  ASSUME NetInv, UNCHANGED <<kernelVars, workerVars>>
  PROVE  /\ NetCurrent' /\ overrun' \in BOOLEAN /\ (overrun' => netLost')
         /\ mcast' \in Seq(Message) /\ snapshot' \subseteq Iface
         /\ netPc' \in {"join", "links", "addrs", "publish", "poll", "stats", "totals", "rates", "drain", "gone"}
         /\ links' \in [Link -> {"absent", "down", "up"}] /\ addrs' \subseteq Link
         /\ linkCache' \in [Link -> {"absent", "down", "up"}] /\ addrCache' \subseteq Link
         /\ Len(mcast') <= McastCap
         /\ Merge(linkCache, addrCache)' = Merge(linkCache, addrCache)
<1>1. UNCHANGED <<links, addrs, mcast, overrun, netLost, netPc, linkCache, addrCache, snapshot>>
  BY DEF kernelVars, workerVars
<1>2. NetCurrent'
  BY <1>1, WordsKept DEF NetInv, NetCurrent, Joined
<1>3. overrun' \in BOOLEAN /\ (overrun' => netLost')
  BY <1>1 DEF NetInv
<1>4. Merge(linkCache, addrCache)' = Merge(linkCache, addrCache)
  BY <1>1 DEF Merge
<1> QED BY <1>1, <1>2, <1>3, <1>4 DEF NetInv, NetShapes, NetType

LEMMA PopupShows == NetInv /\ PopupTakes => NetInv'
<1> SUFFICES ASSUME NetInv, PopupTakes PROVE NetInv'
  OBVIOUS
<1>1. PICK e : e = Head(netQueue)
  OBVIOUS
<1>2. /\ popupAt = "open" /\ netQueue # <<>> /\ netQueue' = Tail(netQueue)
      /\ UNCHANGED <<kernelVars, workerVars, popupAt, hovered>>
      /\ \/ e.kind = "snapshot" /\ listed' = e.ifaces /\ selected' = Reselect(e.ifaces)
         \/ e.kind = "rates" /\ UNCHANGED <<listed, selected>>
  BY <1>1 DEF PopupTakes
<1>3. netQueue \in Seq(NetEvent) /\ Len(netQueue) \in Nat /\ Len(netQueue) <= NetQueueCap
  BY LenProperties DEF NetInv, NetShapes, NetType
<1>4. e \in NetEvent /\ netQueue' \in Seq(NetEvent) /\ Len(netQueue') = Len(netQueue) - 1
  BY <1>1, <1>2, <1>3, HeadTailProperties
<1>5. e.ifaces \subseteq Iface /\ e.kind \in {"snapshot", "rates"}
  BY <1>4 DEF NetEvent
<1>6. listed' \subseteq Iface
  BY <1>2, <1>5 DEF NetInv, NetShapes
<1>7. SelectedListed'
  <2>1. CASE listed' = e.ifaces /\ selected' = Reselect(e.ifaces)
    <3>1. e.ifaces # {} => Reselect(e.ifaces) \in Ifaces(e.ifaces)
      BY <1>5, PickedListed DEF Reselect
    <3> QED BY <2>1, <3>1 DEF SelectedListed, Ifaces
  <2>2. CASE UNCHANGED <<listed, selected>>
    BY <2>2 DEF NetInv, SelectedListed, Ifaces
  <2> QED BY <1>2, <2>1, <2>2
<1>8. netPc' = netPc /\ snapshot' = snapshot /\ popupAt' = popupAt
  BY <1>2 DEF workerVars
<1>9. ASSUME Tells(netQueue, listed, snapshot) PROVE Tells(netQueue, listed, snapshot)'
  <2>1. listed' = IF e.kind = "snapshot" THEN e.ifaces ELSE listed
    BY <1>2, <1>5
  <2>2. Tells(netQueue', listed', snapshot)
    BY <1>1, <1>2, <1>3, <1>9, <2>1, TellsOn
  <2> QED BY <1>8, <2>2 DEF Tells
<1>10. Published'
  BY <1>2, <1>8, <1>9, WorkerRests DEF NetInv, Published
<1>11. NetType' /\ NetShapes'
  <2>1. Len(netQueue') <= NetQueueCap
    BY <1>3, <1>4, NetAssumption
  <2>2. hovered' \in Link \union {NoLink} /\ popupAt' \in {"open", "dead", "dropped"}
    BY <1>2 DEF NetInv, NetType
  <2> QED BY <1>2, <1>4, <1>6, <2>1, <2>2, WorkerRests DEF NetType, NetShapes
<1> QED BY <1>2, <1>7, <1>10, <1>11, WorkerRests DEF NetInv

LEMMA PointerSelects == \A l \in Link : NetInv /\ PointsAt(l) => NetInv'
<1> SUFFICES ASSUME NEW l \in Link, NetInv, PointsAt(l) PROVE NetInv'
  OBVIOUS
<1>1. /\ l \in Ifaces(listed) /\ UNCHANGED <<kernelVars, workerVars, netQueue, popupAt, listed>>
      /\ hovered' \in {l, hovered} /\ selected' \in {l, selected}
  BY DEF PointsAt
<1>2. SelectedListed'
  BY <1>1 DEF NetInv, SelectedListed, Ifaces
<1>3. netPc' = netPc /\ snapshot' = snapshot
  BY <1>1 DEF workerVars
<1>4. Published'
  BY <1>1, <1>3, WorkerRests DEF NetInv, Published
<1>5. NetType' /\ NetShapes'
  BY <1>1, WorkerRests DEF NetInv, NetType, NetShapes
<1> QED BY <1>1, <1>2, <1>4, <1>5, WorkerRests DEF NetInv

LEMMA PopupGone == NetInv /\ (PopupCloses \/ PopupTaskEnds) => NetInv'
<1> SUFFICES ASSUME NetInv, PopupCloses \/ PopupTaskEnds PROVE NetInv'
  OBVIOUS
<1>1. /\ popupAt' \in {"dead", "dropped"} /\ (netQueue' = netQueue \/ netQueue' = <<>>)
      /\ UNCHANGED <<kernelVars, workerVars, listed, selected, hovered>>
  BY DEF PopupCloses, PopupTaskEnds
<1>2. netPc' = netPc /\ snapshot' = snapshot
  BY <1>1 DEF workerVars
<1>3. Published' /\ SelectedListed'
  BY <1>1, <1>2, WorkerRests DEF NetInv, Published, SelectedListed
<1>4. netQueue' \in Seq(NetEvent) /\ Len(netQueue') <= NetQueueCap
  <2>1. <<>> \in Seq(NetEvent) /\ Len(<<>>) = 0 /\ 0 <= NetQueueCap
    BY EmptySeq, NetAssumption
  <2>2. netQueue \in Seq(NetEvent) /\ Len(netQueue) <= NetQueueCap
    BY DEF NetInv, NetType, NetShapes
  <2> QED BY <1>1, <2>1, <2>2
<1>5. NetType' /\ NetShapes'
  BY <1>1, <1>4, WorkerRests DEF NetInv, NetType, NetShapes
<1> QED BY <1>1, <1>3, <1>5, WorkerRests DEF NetInv

-----------------------------------------------------------------------------
(* The kernel's changes.                                                   *)
LEMMA KernelChanged ==
  ASSUME NetInv, NEW m \in Message, Announce(m), UNCHANGED <<workerVars, netQueue, netPopupVars>>,
         links' \in [Link -> {"absent", "down", "up"}], addrs' \subseteq Link,
         Now(m.about, m.link)' = m.state,
         \A a \in {"link", "addr"}, l \in Link : ~About(m, a, l) => Now(a, l)' = Now(a, l)
  PROVE  NetInv'
<1>1. UNCHANGED <<netPc, linkCache, addrCache, snapshot, popupAt, listed, selected, hovered, netQueue>>
  BY DEF workerVars, netPopupVars
<1>2. /\ NetCurrent' /\ mcast' \in Seq(Message) /\ Len(mcast') <= McastCap
      /\ overrun' \in BOOLEAN /\ (overrun' => netLost')
  BY <1>1, Announced
<1>3. NetType' /\ NetShapes'
  BY <1>1, <1>2 DEF NetInv, NetType, NetShapes
<1>4. Merge(linkCache, addrCache)' = Merge(linkCache, addrCache)
  BY <1>1 DEF Merge
<1>5. Published' /\ SelectedListed'
  BY <1>1, <1>4 DEF NetInv, Published, SelectedListed
<1> QED BY <1>2, <1>3, <1>5 DEF NetInv

LEMMA LinkAnnounced ==
  \A l \in Link, s \in {"absent", "down", "up"} : NetInv /\ LinkChanges(l, s) => NetInv'
<1> SUFFICES ASSUME NEW l \in Link, NEW s \in {"absent", "down", "up"}, NetInv, LinkChanges(l, s)
             PROVE  NetInv'
  OBVIOUS
<1> DEFINE m == [about |-> "link", link |-> l, state |-> s]
<1>1. links' = [links EXCEPT ![l] = s] /\ addrs' = addrs /\ Announce(m)
  BY DEF LinkChanges
<1>2. links' \in [Link -> {"absent", "down", "up"}] /\ addrs' \subseteq Link /\ links'[l] = s
  BY <1>1 DEF NetInv, NetType
<1>3. m \in Message /\ m.about = "link" /\ m.link = l /\ m.state = s
  BY DEF Message
<1>4. \A a \in {"link", "addr"}, k \in Link : ~About(m, a, k) => Now(a, k)' = Now(a, k)
  BY <1>1 DEF About, Now, NetInv, NetType
<1>5. Now("link", l)' = s
  BY <1>2 DEF Now
<1>6. UNCHANGED <<workerVars, netQueue, netPopupVars>>
  BY DEF LinkChanges
<1> HIDE DEF m
<1> QED BY <1>1, <1>2, <1>3, <1>4, <1>5, <1>6, KernelChanged

LEMMA AddrAnnounced == \A l \in Link : NetInv /\ AddrChanges(l) => NetInv'
<1> SUFFICES ASSUME NEW l \in Link, NetInv, AddrChanges(l) PROVE NetInv'
  OBVIOUS
<1>1. PICK s \in {"absent", "up"} : s = IF l \in addrs THEN "absent" ELSE "up"
  OBVIOUS
<1> DEFINE m == [about |-> "addr", link |-> l, state |-> s]
<1>2. /\ addrs' = (IF l \in addrs THEN addrs \ {l} ELSE addrs \union {l})
      /\ links' = links /\ Announce(m)
  BY <1>1 DEF AddrChanges
<1>3. /\ links' \in [Link -> {"absent", "down", "up"}] /\ addrs' \subseteq Link
      /\ (l \in addrs' <=> s = "up")
  BY <1>1, <1>2 DEF NetInv, NetType
<1>4. m \in Message /\ m.about = "addr" /\ m.link = l /\ m.state = s
  BY DEF Message
<1>5. \A a \in {"link", "addr"}, k \in Link : ~About(m, a, k) => Now(a, k)' = Now(a, k)
  BY <1>2 DEF About, Now, NetInv, NetType
<1>6. Now("addr", l)' = s
  BY <1>3 DEF Now
<1>7. UNCHANGED <<workerVars, netQueue, netPopupVars>>
  BY DEF AddrChanges
<1> HIDE DEF m
<1> QED BY <1>2, <1>3, <1>4, <1>5, <1>6, <1>7, KernelChanged

LEMMA NetStep == NetInv /\ [NetNext]_netVars => NetInv'
<1> SUFFICES ASSUME NetInv, [NetNext]_netVars PROVE NetInv'
  OBVIOUS
<1>1. CASE UNCHANGED netVars
  <2>1. UNCHANGED <<kernelVars, workerVars, netQueue, popupAt, listed, selected, hovered>>
    BY <1>1 DEF netVars, netPopupVars
  <2>2. netPc' = netPc /\ snapshot' = snapshot
    BY <2>1 DEF workerVars
  <2>3. Published' /\ SelectedListed'
    BY <2>1, <2>2, WorkerRests DEF NetInv, Published, SelectedListed
  <2>4. NetType' /\ NetShapes'
    BY <2>1, WorkerRests DEF NetInv, NetType, NetShapes
  <2> QED BY <2>1, <2>3, <2>4, WorkerRests DEF NetInv
<1>2. CASE JoinsGroups \/ PollTimesOut \/ StatsDumped \/ StatsFail \/ PollReadable
  BY <1>2, WorkerMoves DEF JoinsGroups, PollTimesOut, StatsDumped, StatsFail, PollReadable
<1>3. CASE Publishes \/ SendsTotals \/ SendsRates
  <2>1. /\ [kind |-> "snapshot", ifaces |-> snapshot] \in NetEvent
        /\ [kind |-> "rates", ifaces |-> {}] \in NetEvent
    BY DEF NetEvent, NetInv, NetShapes
  <2>2. CASE Publishes
    BY <2>1, <2>2, WorkerSends DEF Publishes
  <2>3. CASE SendsTotals
    BY <2>1, <2>3, WorkerSends DEF SendsTotals
  <2>4. CASE SendsRates
    BY <2>1, <2>4, WorkerSends DEF SendsRates
  <2> QED BY <1>3, <2>2, <2>3, <2>4
<1>4. CASE DumpsLinks \/ DumpsAddrs
  BY <1>4, LinksDumped, AddrsDumped
<1>5. CASE MessageRead \/ Drained
  BY <1>5, MessageReplayed, WorkerDrained
<1>6. CASE PopupTakes \/ PopupCloses \/ PopupTaskEnds
  BY <1>6, PopupShows, PopupGone
<1>7. CASE \E l \in Link : PointsAt(l) \/ AddrChanges(l)
  BY <1>7, PointerSelects, AddrAnnounced
<1>8. CASE \E l \in Link, s \in {"absent", "down", "up"} : LinkChanges(l, s)
  BY <1>8, LinkAnnounced
<1> QED BY <1>1, <1>2, <1>3, <1>4, <1>5, <1>6, <1>7, <1>8 DEF NetNext, NetWorker

LEMMA NetShown == NetInv => NetSettles
<1> SUFFICES ASSUME NetInv, netPc \in {"poll", "stats", "totals", "rates"}, popupAt = "open", ~netLost,
                    mcast = <<>>, netQueue = <<>>
             PROVE  listed = Merge(links, addrs)
  BY DEF NetSettles
<1>1. Len(<<>>) = 0
  BY EmptySeq
<1>2. CaughtUp("link") /\ CaughtUp("addr")
  BY DEF NetInv, NetCurrent, Joined
<1>3. \A a, l : Silent(mcast, a, l)
  BY <1>1 DEF Silent
<1>4. \A l \in Link : linkCache[l] = links[l] /\ (l \in addrCache <=> l \in addrs)
  BY <1>2, <1>3 DEF CaughtUp, Cached, Now
<1>5. linkCache = links /\ addrCache = addrs
  BY <1>4 DEF NetInv, NetType
<1>6. snapshot = Merge(links, addrs)
  BY <1>5 DEF NetInv, Published
<1>7. Tells(netQueue, listed, snapshot)
  BY DEF NetInv, Published
<1> QED BY <1>1, <1>6, <1>7 DEF Tells

(* NetSettles and SelectedListed for any interfaces and capacities: through *)
(* the initial dumps and changes that arrive during them, the list is the   *)
(* kernel's once nothing is unread and the socket never overflowed, and the *)
(* interface that is selected is one of those listed.                      *)
THEOREM NetFollowsKernel == NetSpec => [](NetType /\ NetSettles /\ SelectedListed)
<1>1. NetInv => NetType /\ NetSettles /\ SelectedListed
  BY NetShown DEF NetInv
<1> QED BY <1>1, NetInitial, NetStep, PTL DEF NetSpec

-----------------------------------------------------------------------------
(* The title.  The compositor's windows without those that have no title,  *)
(* and its focus, are what niri's events lead a tracker to.                *)
TitleOrNone == Title \union {NoTitle}
Partial(S) == UNION {[D -> S] : D \in SUBSET Win}
Compositor == [kind : {"sway", "niri"}, titles : Partial(TitleOrNone), focused : Win \union {NoTitle}]
Tracker == [titles : Partial(Title), focused : Win \union {NoTitle}]

WindowEvents == [ev : {"window"}, id : Win, title : TitleOrNone, focused : BOOLEAN]
TitleEvent ==
  WindowEvents
    \union [ev : {"windows"}, titles : Partial(TitleOrNone), focused : Win \union {NoTitle}]
    \union [ev : {"closed"}, id : Win]
    \union [ev : {"focus"}, id : Win \union {NoTitle}]

Tracking(t) ==
  [titles |-> Restrict(t.titles, {w \in DOMAIN t.titles : t.titles[w] # NoTitle}),
   focused |-> t.focused]

(* A tracker goes through states of its own from one to the other.         *)
Leads(t, q, g) ==
  \E tr \in [0..Len(q) -> Tracker] :
    /\ tr[0] = t /\ tr[Len(q)] = g
    /\ \A i \in 1..Len(q) : tr[i] = Tracked(tr[i - 1], q[i])

LEMMA PartialIs ==
  ASSUME NEW S, NEW f
  PROVE  f \in Partial(S) <=> DOMAIN f \subseteq Win /\ f \in [DOMAIN f -> S]
BY DEF Partial

LEMMA LeadsNowhere ==
  ASSUME NEW t \in Tracker
  PROVE  Leads(t, <<>>, t)
<1>1. Len(<<>>) = 0
  BY EmptySeq
<1> DEFINE tr == [i \in 0..0 |-> t]
<1>2. tr \in [0..Len(<<>>) -> Tracker] /\ tr[0] = t /\ tr[Len(<<>>)] = t
  BY <1>1
<1>3. 1..Len(<<>>) = {}
  BY <1>1
<1> QED BY <1>2, <1>3 DEF Leads

LEMMA LeadsFurther ==
  ASSUME NEW q \in Seq(TitleEvent), NEW e \in TitleEvent, NEW t, NEW g, Leads(t, q, g),
         Tracked(g, e) \in Tracker
  PROVE  Append(q, e) \in Seq(TitleEvent) /\ Leads(t, Append(q, e), Tracked(g, e))
<1> DEFINE r == Append(q, e)
<1>1. /\ r \in Seq(TitleEvent) /\ Len(r) = Len(q) + 1 /\ r[Len(q) + 1] = e
      /\ \A n \in 1..Len(q) : r[n] = q[n]
  BY AppendProperties
<1>2. Len(q) \in Nat
  BY LenProperties
<1>3. PICK tr \in [0..Len(q) -> Tracker] :
        /\ tr[0] = t /\ tr[Len(q)] = g
        /\ \A i \in 1..Len(q) : tr[i] = Tracked(tr[i - 1], q[i])
  BY DEF Leads
<1> HIDE DEF r
<1>4. PICK h : h = Tracked(g, e)
  OBVIOUS
<1> DEFINE ts == [i \in 0..Len(q) + 1 |-> IF i = Len(q) + 1 THEN h ELSE tr[i]]
<1>5. ts \in [0..Len(r) -> Tracker]
  BY <1>1, <1>2, <1>4
<1>6. ts[0] = t /\ ts[Len(r)] = h
  BY <1>1, <1>2, <1>3
<1>7. ASSUME NEW i \in 1..Len(r) PROVE ts[i] = Tracked(ts[i - 1], r[i])
  <2>1. CASE i = Len(q) + 1
    <3>1. ts[i] = h /\ ts[i - 1] = g /\ r[i] = e
      BY <1>1, <1>2, <1>3, <2>1
    <3> QED BY <1>4, <3>1
  <2>2. CASE i \in 1..Len(q)
    <3>1. ts[i] = tr[i] /\ ts[i - 1] = tr[i - 1] /\ r[i] = q[i]
      BY <1>1, <1>2, <2>2
    <3> QED BY <1>3, <2>2, <3>1
  <2> QED BY <1>1, <1>2, <2>1, <2>2
<1> HIDE DEF ts
<1>8. Leads(t, r, h)
  BY <1>5, <1>6, <1>7 DEF Leads
<1> QED BY <1>1, <1>4, <1>8 DEF r

LEMMA LeadsFrom ==
  ASSUME NEW q \in Seq(TitleEvent), q # <<>>, NEW t, NEW g, Leads(t, q, g)
  PROVE  /\ Head(q) \in TitleEvent /\ Tail(q) \in Seq(TitleEvent)
         /\ Tracked(t, Head(q)) \in Tracker /\ Leads(Tracked(t, Head(q)), Tail(q), g)
<1> DEFINE r == Tail(q)  e == Head(q)
<1>1. /\ e \in TitleEvent /\ r \in Seq(TitleEvent) /\ Len(r) = Len(q) - 1
      /\ \A i \in 1..Len(r) : r[i] = q[i + 1]
  BY HeadTailProperties
<1>2. Len(q) \in Nat \ {0}
  BY EmptySeq
<1>3. e = q[1]
  BY <1>2
<1> HIDE DEF r, e
<1>4. PICK tr \in [0..Len(q) -> Tracker] :
        /\ tr[0] = t /\ tr[Len(q)] = g
        /\ \A i \in 1..Len(q) : tr[i] = Tracked(tr[i - 1], q[i])
  BY DEF Leads
<1>5. tr[1] = Tracked(t, e) /\ tr[1] \in Tracker
  <2>1. 1 \in 1..Len(q) /\ 1 - 1 = 0 /\ 1 \in 0..Len(q)
    BY <1>2
  <2>2. tr[1] = Tracked(tr[1 - 1], q[1])
    BY <1>4, <2>1
  <2> QED BY <1>3, <1>4, <2>1, <2>2
<1> DEFINE ts == [i \in 0..Len(r) |-> tr[i + 1]]
<1>6. ts \in [0..Len(r) -> Tracker] /\ ts[0] = tr[1] /\ ts[Len(r)] = g
  BY <1>1, <1>2, <1>4
<1>7. ASSUME NEW i \in 1..Len(r) PROVE ts[i] = Tracked(ts[i - 1], r[i])
  <2>1. ts[i] = tr[i + 1] /\ ts[i - 1] = tr[i] /\ i + 1 \in 1..Len(q) /\ (i + 1) - 1 = i
    BY <1>1, <1>2
  <2>2. tr[i + 1] = Tracked(tr[(i + 1) - 1], q[i + 1])
    BY <1>4, <2>1
  <2> QED BY <1>1, <2>1, <2>2
<1> HIDE DEF ts
<1>8. Leads(tr[1], r, g)
  BY <1>6, <1>7 DEF Leads
<1> QED BY <1>1, <1>5, <1>8 DEF r, e

-----------------------------------------------------------------------------
(* What each event does to a tracker.                                      *)
LEMMA TrackedIs ==
  ASSUME NEW t, NEW e
  PROVE  /\ e.ev = "window" => Tracked(t, e) = Upserted(t, e)
         /\ e.ev = "windows" => Tracked(t, e) = Tracking(e)
BY DEF Tracked, Tracking

LEMMA TrackedOn ==
  ASSUME NEW t, NEW w
  PROVE  /\ Tracked(t, [ev |-> "closed", id |-> w])
              = [titles |-> Restrict(t.titles, DOMAIN t.titles \ {w}),
                 focused |-> IF t.focused = w THEN NoTitle ELSE t.focused]
         /\ Tracked(t, [ev |-> "focus", id |-> w]) = [t EXCEPT !.focused = w]
<1> DEFINE c == [ev |-> "closed", id |-> w]  f == [ev |-> "focus", id |-> w]
<1>1. c.ev = "closed" /\ c.id = w /\ f.ev = "focus" /\ f.id = w
  OBVIOUS
<1> HIDE DEF c, f
<1>2. Tracked(t, c) = [titles |-> Restrict(t.titles, DOMAIN t.titles \ {w}),
                       focused |-> IF t.focused = w THEN NoTitle ELSE t.focused]
  BY <1>1 DEF Tracked
<1>3. Tracked(t, f) = [t EXCEPT !.focused = w]
  BY <1>1 DEF Tracked
<1> QED BY <1>2, <1>3 DEF c, f

LEMMA TrackingTyped ==
  ASSUME NEW t, t.titles \in Partial(TitleOrNone), t.focused \in Win \union {NoTitle}
  PROVE  Tracking(t) \in Tracker /\ TitleOf(Tracking(t)) = TitleOf(t)
<1>1. DOMAIN t.titles \subseteq Win /\ \A w \in DOMAIN t.titles : t.titles[w] \in TitleOrNone
  BY PartialIs
<1> DEFINE S == {w \in DOMAIN t.titles : t.titles[w] # NoTitle}  f == Restrict(t.titles, S)
<1>2. f \in [S -> Title] /\ S \subseteq Win /\ \A w \in S : f[w] = t.titles[w]
  BY <1>1 DEF Restrict, TitleOrNone
<1>3. f \in Partial(Title)
  BY <1>2 DEF Partial
<1>4. Tracking(t) = [titles |-> f, focused |-> t.focused]
  BY DEF Tracking
<1>5. Tracking(t) \in Tracker
  BY <1>3, <1>4 DEF Tracker
<1>6. TitleOf(Tracking(t)) = TitleOf(t)
  BY <1>1, <1>2, <1>4 DEF TitleOf, TitleOrNone
<1> QED BY <1>5, <1>6

(* What tracks the compositor follows it when a window opens or is renamed.*)
LEMMA UpsertTracks ==
  ASSUME NEW w \in Win, NEW t \in TitleOrNone, NEW f \in {w, wm.focused},
         wm \in Compositor,
         NEW new, new = [titles |-> With(w, t), focused |-> f],
         t = NoTitle => w \notin DOMAIN wm.titles
  PROVE  Tracked(Tracking(wm), WindowEvent(new, w)) = Tracking(new)
<1> DEFINE e == WindowEvent(new, w)  g == Tracking(wm)
<1>1. /\ DOMAIN new.titles = DOMAIN wm.titles \union {w}
      /\ new.titles[w] = t /\ \A v \in DOMAIN wm.titles : v # w => new.titles[v] = wm.titles[v]
  BY DEF With
<1>2. e.ev = "window" /\ e.id = w /\ e.title = t /\ e.focused = (f = w)
  BY <1>1 DEF WindowEvent
<1>3. /\ DOMAIN g.titles = {v \in DOMAIN wm.titles : wm.titles[v] # NoTitle}
      /\ (\A v \in DOMAIN g.titles : g.titles[v] = wm.titles[v]) /\ g.focused = wm.focused
  BY DEF Tracking, Restrict
<1>4. /\ DOMAIN Tracking(new).titles = {v \in DOMAIN new.titles : new.titles[v] # NoTitle}
      /\ (\A v \in DOMAIN Tracking(new).titles : Tracking(new).titles[v] = new.titles[v])
      /\ Tracking(new).focused = f
  BY DEF Tracking, Restrict
<1> HIDE DEF e, g
<1>5. PICK u : u = Upserted(g, e)
  OBVIOUS
<1>6. u.focused = f
  BY <1>2, <1>3, <1>5 DEF Upserted
<1>7. u.titles = Tracking(new).titles
  <2>1. CASE t = NoTitle
    <3>1. u.titles = g.titles
      BY <1>2, <1>5, <2>1 DEF Upserted
    <3>2. g.titles = [v \in DOMAIN g.titles |-> g.titles[v]]
      BY DEF g, Tracking, Restrict
    <3>3. Tracking(new).titles = [v \in DOMAIN Tracking(new).titles |-> Tracking(new).titles[v]]
      BY DEF Tracking, Restrict
    <3>4. DOMAIN Tracking(new).titles = DOMAIN g.titles
      BY <1>1, <1>3, <1>4, <2>1
    <3>5. \A v \in DOMAIN g.titles : Tracking(new).titles[v] = g.titles[v]
      BY <1>1, <1>3, <1>4, <2>1, <3>4
    <3> QED BY <3>1, <3>2, <3>3, <3>4, <3>5
  <2>2. CASE t # NoTitle
    <3>1. u.titles = [v \in DOMAIN g.titles \union {w} |-> IF v = w THEN t ELSE g.titles[v]]
      BY <1>2, <1>5, <2>2 DEF Upserted
    <3>2. Tracking(new).titles = [v \in DOMAIN Tracking(new).titles |-> Tracking(new).titles[v]]
      BY DEF Tracking, Restrict
    <3>3. DOMAIN Tracking(new).titles = DOMAIN g.titles \union {w}
      BY <1>1, <1>3, <1>4, <2>2
    <3>4. \A v \in DOMAIN g.titles \union {w} :
            Tracking(new).titles[v] = IF v = w THEN t ELSE g.titles[v]
      BY <1>1, <1>3, <1>4, <3>3
    <3> QED BY <3>1, <3>2, <3>3, <3>4
  <2> QED BY <2>1, <2>2
<1>8. u = [titles |-> u.titles, focused |-> u.focused]
  BY <1>5 DEF Upserted
<1>9. Tracking(new) = [titles |-> Tracking(new).titles, focused |-> Tracking(new).focused]
  BY DEF Tracking
<1>10. Tracked(g, e) = u
  BY <1>2, <1>5, TrackedIs
<1> QED BY <1>4, <1>6, <1>7, <1>8, <1>9, <1>10 DEF e, g

LEMMA FocusTracks ==
  ASSUME NEW w, NEW old, NEW new, new.titles = old.titles, new.focused = w
  PROVE  Tracked(Tracking(old), [ev |-> "focus", id |-> w]) = Tracking(new)
<1>1. Tracked(Tracking(old), [ev |-> "focus", id |-> w]) = [Tracking(old) EXCEPT !.focused = w]
  BY TrackedOn
<1> QED BY <1>1 DEF Tracking

(* A window that closes takes its title, and the focus if it had it.       *)
LEMMA CloseTracks ==
  ASSUME NEW w \in DOMAIN wm.titles, wm \in Compositor,
         NEW new, new.titles = Restrict(wm.titles, DOMAIN wm.titles \ {w}),
         new.focused = IF wm.focused = w THEN NoTitle ELSE wm.focused
  PROVE  Tracked(Tracking(wm), [ev |-> "closed", id |-> w]) = Tracking(new)
<1> DEFINE g == Tracking(wm)
<1>1. Tracked(g, [ev |-> "closed", id |-> w])
        = [titles |-> Restrict(g.titles, DOMAIN g.titles \ {w}),
           focused |-> IF g.focused = w THEN NoTitle ELSE g.focused]
  BY TrackedOn
<1>2. g.focused = wm.focused /\ Tracking(new) = [titles |-> Tracking(new).titles, focused |-> new.focused]
  BY DEF Tracking
<1>3. Restrict(g.titles, DOMAIN g.titles \ {w}) = Tracking(new).titles
  <2>1. /\ DOMAIN g.titles = {v \in DOMAIN wm.titles : wm.titles[v] # NoTitle}
        /\ \A v \in DOMAIN g.titles : g.titles[v] = wm.titles[v]
    BY DEF Tracking, Restrict
  <2>2. /\ DOMAIN new.titles = DOMAIN wm.titles \ {w}
        /\ \A v \in DOMAIN new.titles : new.titles[v] = wm.titles[v]
    BY DEF Restrict
  <2>3. /\ DOMAIN Tracking(new).titles = {v \in DOMAIN new.titles : new.titles[v] # NoTitle}
        /\ \A v \in DOMAIN Tracking(new).titles : Tracking(new).titles[v] = new.titles[v]
        /\ Tracking(new).titles = [v \in DOMAIN Tracking(new).titles |-> Tracking(new).titles[v]]
    BY DEF Tracking, Restrict
  <2>4. DOMAIN Tracking(new).titles = DOMAIN g.titles \ {w}
    BY <2>1, <2>2, <2>3
  <2> HIDE DEF g
  <2>5. Restrict(g.titles, DOMAIN g.titles \ {w}) = [v \in DOMAIN g.titles \ {w} |-> g.titles[v]]
    BY DEF Restrict
  <2>6. \A v \in DOMAIN g.titles \ {w} : g.titles[v] = Tracking(new).titles[v]
    BY <2>1, <2>2, <2>3, <2>4
  <2> QED BY <2>3, <2>4, <2>5, <2>6
<1> QED BY <1>1, <1>2, <1>3

(* What sway's events say in the end: the last one that speaks, else what   *)
(* is queued or shown.                                                     *)
Speaks(e) == e.focused /\ e.title # NoTitle
Says(q, shows, t) ==
  \/ shows = t /\ \A n \in 1..Len(q) : ~Speaks(q[n])
  \/ \E n \in 1..Len(q) : /\ Speaks(q[n]) /\ q[n].title = t
                          /\ \A k \in 1..Len(q) : k > n => ~Speaks(q[k])

TitleShapes ==
  /\ wm \in Compositor /\ wm.focused \in DOMAIN wm.titles \union {NoTitle}
  /\ stream \in Seq(TitleEvent) /\ (wm.kind = "sway" => stream \in Seq(WindowEvents))
  /\ tracker \in Tracker /\ emitted.last \in TitleOrNone
  /\ titleQueue \in Seq(TitleOrNone) /\ Len(titleQueue) <= TitleCap
  /\ session \in {"running", "sleeping"} /\ title \in TitleOrNone
  /\ happened \in Nat /\ happened <= MaxTitleEvents

NiriDue ==
  /\ session = "running" /\ wm.kind = "niri" =>
       Leads(tracker, stream, Tracking(wm)) /\ emitted.last = TitleOf(tracker)
  /\ emitted.any => wm.kind = "niri" /\ Newest(titleQueue, title) = emitted.last

SwayDue ==
  session = "running" /\ wm.kind = "sway" /\ told /\ TitleOf(wm) # NoTitle =>
    Says(stream, Newest(titleQueue, title), TitleOf(wm))

TitleInv == TitleShapes /\ NiriDue /\ SwayDue

LEMMA TitleOfTyped ==
  ASSUME NEW t, t.titles \in Partial(TitleOrNone)
  PROVE  TitleOf(t) \in TitleOrNone
BY PartialIs DEF TitleOf, TitleOrNone

LEMMA TrackerTyped ==
  ASSUME NEW t \in Tracker
  PROVE  TitleOf(t) \in TitleOrNone
BY PartialIs DEF TitleOf, TitleOrNone, Tracker

LEMMA NoTitles == \A S : <<>> \in Partial(S)
<1> SUFFICES ASSUME NEW S PROVE <<>> \in Partial(S)
  OBVIOUS
<1>1. <<>> = [w \in {} |-> w]
  OBVIOUS
<1>2. [w \in {} |-> w] \in [{} -> S] /\ {} \in SUBSET Win
  OBVIOUS
<1> QED BY <1>1, <1>2 DEF Partial

LEMMA UntrackedTyped == Untracked \in Tracker
BY NoTitles DEF Untracked, Tracker

LEMMA TitleInitial == TitleInit => TitleInv
<1> SUFFICES ASSUME TitleInit PROVE TitleInv
  OBVIOUS
<1>1. wm.kind \in {"sway", "niri"} /\ wm.titles = <<>> /\ wm.focused = NoTitle
  BY DEF TitleInit
<1>2. wm \in Compositor
  BY <1>1, NoTitles DEF TitleInit, Compositor
<1>3. stream \in Seq(TitleEvent) /\ stream \in Seq(WindowEvents) /\ titleQueue \in Seq(TitleOrNone)
  BY DEF TitleInit
<1>4. Len(titleQueue) <= TitleCap
  BY TitleAssumption DEF TitleInit
<1>5. TitleShapes
  BY <1>1, <1>2, <1>3, <1>4, UntrackedTyped, TitleAssumption DEF TitleInit, TitleShapes, TitleOrNone
<1>6. NiriDue /\ SwayDue
  BY DEF TitleInit, NiriDue, SwayDue
<1> QED BY <1>5, <1>6 DEF TitleInv

-----------------------------------------------------------------------------
(* An event of sway that speaks decides, another one says nothing.         *)
LEMMA SaysMore ==
  ASSUME NEW q \in Seq(WindowEvents), NEW e \in WindowEvents, NEW shows, NEW t
  PROVE  /\ Append(q, e) \in Seq(WindowEvents)
         /\ Speaks(e) => Says(Append(q, e), shows, e.title)
         /\ ~Speaks(e) /\ Says(q, shows, t) => Says(Append(q, e), shows, t)
<1> DEFINE r == Append(q, e)
<1>1. /\ r \in Seq(WindowEvents) /\ Len(r) = Len(q) + 1 /\ r[Len(q) + 1] = e
      /\ \A n \in 1..Len(q) : r[n] = q[n]
  BY AppendProperties
<1>2. Len(q) \in Nat
  BY LenProperties
<1> HIDE DEF r
<1>3. ASSUME Speaks(e) PROVE Says(r, shows, e.title)
  <2>1. Len(q) + 1 \in 1..Len(r) /\ \A k \in 1..Len(r) : ~(k > Len(q) + 1)
    BY <1>1, <1>2
  <2> QED BY <1>1, <1>3, <2>1 DEF Says
<1>4. ASSUME ~Speaks(e), Says(q, shows, t) PROVE Says(r, shows, t)
  <2>1. \A n \in 1..Len(r) : n \notin 1..Len(q) => ~Speaks(r[n])
    BY <1>1, <1>2, <1>4
  <2>2. 1..Len(q) \subseteq 1..Len(r)
    BY <1>1, <1>2
  <2>3. CASE shows = t /\ \A n \in 1..Len(q) : ~Speaks(q[n])
    BY <1>1, <2>1, <2>3 DEF Says
  <2>4. ASSUME NEW n \in 1..Len(q), Speaks(q[n]), q[n].title = t,
               \A k \in 1..Len(q) : k > n => ~Speaks(q[k])
        PROVE  Says(r, shows, t)
    <3>1. \A k \in 1..Len(r) : k > n => ~Speaks(r[k])
      BY <1>1, <2>1, <2>4
    <3>2. n \in 1..Len(r) /\ r[n] = q[n]
      BY <1>1, <2>2, <2>4
    <3>3. Speaks(r[n]) /\ r[n].title = t
      BY <2>4, <3>2
    <3> QED BY <3>1, <3>2, <3>3 DEF Says
  <2> QED BY <1>4, <2>3, <2>4 DEF Says
<1> QED BY <1>1, <1>3, <1>4 DEF r

LEMMA SaysStill ==
  ASSUME NEW q \in Seq(WindowEvents), q # <<>>, NEW shows, NEW t, Says(q, shows, t)
  PROVE  /\ Head(q) \in WindowEvents /\ Tail(q) \in Seq(WindowEvents)
         /\ Says(Tail(q), IF Speaks(Head(q)) THEN Head(q).title ELSE shows, t)
<1> DEFINE r == Tail(q)  e == Head(q)  now == IF Speaks(e) THEN e.title ELSE shows
<1>1. /\ e \in WindowEvents /\ r \in Seq(WindowEvents) /\ Len(r) = Len(q) - 1
      /\ \A i \in 1..Len(r) : r[i] = q[i + 1]
  BY HeadTailProperties
<1>2. Len(q) \in Nat \ {0}
  BY EmptySeq
<1>3. e = q[1] /\ 1 \in 1..Len(q)
  BY <1>2
<1> HIDE DEF r, e
<1>4. \A n \in 1..Len(r) : n + 1 \in 1..Len(q) /\ n + 1 > 1
  BY <1>1, <1>2
<1>5. \A k \in 1..Len(q) : k > 1 => k - 1 \in 1..Len(r) /\ q[k] = r[k - 1]
  BY <1>1, <1>2
<1>6. ASSUME shows = t, \A n \in 1..Len(q) : ~Speaks(q[n]) PROVE Says(r, now, t)
  <2>1. ~Speaks(e) /\ \A n \in 1..Len(r) : ~Speaks(r[n])
    BY <1>1, <1>3, <1>4, <1>6
  <2> QED BY <1>6, <2>1 DEF Says
<1>7. ASSUME NEW n \in 1..Len(q), Speaks(q[n]), q[n].title = t,
             \A k \in 1..Len(q) : k > n => ~Speaks(q[k])
      PROVE  Says(r, now, t)
  <2>1. CASE n = 1
    <3>1. \A k \in 1..Len(r) : ~Speaks(r[k])
      BY <1>1, <1>4, <1>7, <2>1
    <3>2. now = t
      BY <1>3, <1>7, <2>1
    <3> QED BY <3>1, <3>2 DEF Says
  <2>2. CASE n > 1
    <3>1. n - 1 \in 1..Len(r) /\ r[n - 1] = q[n]
      BY <1>5, <2>2
    <3>2. ASSUME NEW k \in 1..Len(r), k > n - 1 PROVE ~Speaks(r[k])
      <4>1. k + 1 \in 1..Len(q) /\ k + 1 > n /\ r[k] = q[k + 1]
        BY <1>1, <1>2, <1>4, <3>2
      <4> QED BY <1>7, <4>1
    <3>3. Speaks(r[n - 1]) /\ r[n - 1].title = t
      BY <1>7, <3>1
    <3> QED BY <3>1, <3>2, <3>3 DEF Says
  <2> QED BY <1>2, <2>1, <2>2
<1>8. Says(r, now, t)
  BY <1>6, <1>7 DEF Says
<1> QED BY <1>1, <1>8 DEF r, e

-----------------------------------------------------------------------------
(* What a step of the compositor tells is enough for who follows it.       *)
Follows(new, events) ==
  /\ wm.kind = "niri" => \A t : Leads(t, stream, Tracking(wm)) => Leads(t, stream \o events, Tracking(new))
  /\ wm.kind = "sway" =>
       \/ events = <<>> /\ TitleOf(new) \in {TitleOf(wm), NoTitle}
       \/ \E e \in WindowEvents :
            /\ events = <<e>> /\ (e.focused => e.title = TitleOf(new))
            /\ (~e.focused => TitleOf(new) \in {TitleOf(wm), NoTitle})

LEMMA Happened ==
  ASSUME TitleInv, NEW new, NEW events \in Seq(TitleEvent), Happens(new, events), Follows(new, events),
         new.titles \in Partial(TitleOrNone), new.focused \in DOMAIN new.titles \union {NoTitle}
  PROVE  TitleInv'
<1>1. /\ happened < MaxTitleEvents /\ happened' = happened + 1
      /\ wm' = [kind |-> wm.kind, titles |-> new.titles, focused |-> new.focused]
      /\ UNCHANGED <<session, tracker, emitted, titleQueue, title>>
  BY DEF Happens, sessionVars
<1>2. /\ wm'.kind = wm.kind /\ wm'.titles = new.titles /\ wm'.focused = new.focused
      /\ wm.kind \in {"sway", "niri"} /\ wm \in Compositor /\ stream \in Seq(TitleEvent)
  BY <1>1 DEF TitleInv, TitleShapes, Compositor
<1>3. wm' \in Compositor /\ wm'.focused \in DOMAIN wm'.titles \union {NoTitle}
  <2>1. DOMAIN new.titles \subseteq Win
    BY PartialIs
  <2> QED BY <1>1, <1>2, <2>1 DEF Compositor
<1>4. TitleOf(wm)' = TitleOf(new) /\ Tracking(wm)' = Tracking(new)
  BY <1>2 DEF TitleOf, Tracking
<1>5. Newest(titleQueue, title)' = Newest(titleQueue, title)
  BY <1>1 DEF Newest
<1>6. ASSUME emitted'.any PROVE wm'.kind = "niri" /\ Newest(titleQueue, title)' = emitted'.last
  BY <1>1, <1>2, <1>5, <1>6 DEF TitleInv, NiriDue
<1>7. CASE session = "running"
  <2>1. stream' = stream \o events
    BY <1>7 DEF Happens
  <2>2. CASE wm.kind = "niri"
    <3>1. stream' \in Seq(TitleEvent)
      BY <1>2, <2>1, ConcatProperties
    <3>2. TitleShapes'
      BY <1>1, <1>2, <1>3, <2>2, <3>1, TitleAssumption DEF TitleInv, TitleShapes
    <3>3. Leads(tracker, stream', Tracking(new)) /\ emitted.last = TitleOf(tracker)
      BY <1>7, <2>1, <2>2 DEF Follows, TitleInv, NiriDue
    <3>4. Leads(tracker, stream, Tracking(wm))' /\ emitted'.last = TitleOf(tracker)'
      BY <1>1, <1>4, <3>3 DEF TitleOf
    <3> QED BY <1>2, <1>6, <2>2, <3>2, <3>4 DEF TitleInv, NiriDue, SwayDue
  <2>3. CASE wm.kind = "sway"
    <3>1. stream \in Seq(WindowEvents)
      BY <2>3 DEF TitleInv, TitleShapes
    <3>2. WindowEvents \subseteq TitleEvent
      BY DEF TitleEvent
    <3> DEFINE shows == Newest(titleQueue, title)
    <3>3. stream' \in Seq(WindowEvents) /\ (told' /\ TitleOf(new) # NoTitle => Says(stream', shows, TitleOf(new)))
      <4>1. CASE events = <<>> /\ TitleOf(new) \in {TitleOf(wm), NoTitle}
        <5>1. stream' = stream
          BY <2>1, <3>1, <4>1
        <5>2. told' => told
          <6>1. ~\E i \in DOMAIN events : events[i].ev = "window" /\ events[i].focused
            BY <4>1
          <6>2. told' = (told \/ \E i \in DOMAIN events : events[i].ev = "window" /\ events[i].focused)
            BY <1>7 DEF Happens
          <6> QED BY <6>1, <6>2
        <5>3. told' /\ TitleOf(new) # NoTitle => Says(stream', shows, TitleOf(new))
          BY <1>7, <2>3, <4>1, <5>1, <5>2 DEF TitleInv, SwayDue
        <5> QED BY <3>1, <5>1, <5>3
      <4>2. ASSUME NEW e \in WindowEvents, events = <<e>>, e.focused => e.title = TitleOf(new),
                   ~e.focused => TitleOf(new) \in {TitleOf(wm), NoTitle}
            PROVE  /\ stream' \in Seq(WindowEvents)
                   /\ told' /\ TitleOf(new) # NoTitle => Says(stream', shows, TitleOf(new))
        <5>1. stream' = Append(stream, e)
          BY <2>1, <3>1, <4>2
        <5>2. stream' \in Seq(WindowEvents)
          BY <3>1, <5>1, SaysMore
        <5>3. ASSUME told', TitleOf(new) # NoTitle PROVE Says(stream', shows, TitleOf(new))
          <6>1. CASE e.focused
            <7>1. Speaks(e) /\ e.title = TitleOf(new)
              BY <4>2, <5>3, <6>1 DEF Speaks
            <7> QED BY <3>1, <5>1, <7>1, SaysMore
          <6>2. CASE ~e.focused
            <7>1. ~Speaks(e) /\ TitleOf(new) = TitleOf(wm)
              BY <4>2, <5>3, <6>2 DEF Speaks
            <7>2. told
              <8>1. ~\E i \in DOMAIN events : events[i].ev = "window" /\ events[i].focused
                BY <4>2, <6>2
              <8>2. told' = (told \/ \E i \in DOMAIN events : events[i].ev = "window" /\ events[i].focused)
                BY <1>7 DEF Happens
              <8> QED BY <5>3, <8>1, <8>2
            <7>3. Says(stream, shows, TitleOf(new))
              BY <1>7, <2>3, <5>3, <7>1, <7>2 DEF TitleInv, SwayDue
            <7> QED BY <3>1, <5>1, <7>1, <7>3, SaysMore
          <6> QED BY <6>1, <6>2
        <5> QED BY <5>2, <5>3
      <4> QED BY <2>3, <4>1, <4>2 DEF Follows
    <3>4. TitleShapes'
      <4>1. stream' \in Seq(TitleEvent)
        BY <3>2, <3>3, LenProperties
      <4> QED BY <1>1, <1>2, <1>3, <3>3, <4>1, TitleAssumption DEF TitleInv, TitleShapes
    <3>5. NiriDue'
      BY <1>2, <1>6, <2>3 DEF NiriDue
    <3>6. SwayDue'
      BY <1>4, <1>5, <3>3 DEF SwayDue
    <3> QED BY <3>4, <3>5, <3>6 DEF TitleInv
  <2> QED BY <1>2, <2>2, <2>3
<1>8. CASE session # "running"
  <2>1. UNCHANGED <<stream, told>>
    BY <1>8 DEF Happens
  <2>2. TitleShapes'
    BY <1>1, <1>2, <1>3, <2>1, TitleAssumption DEF TitleInv, TitleShapes
  <2> QED BY <1>1, <1>6, <1>8, <2>2 DEF TitleInv, NiriDue, SwayDue
<1> QED BY <1>7, <1>8

LEMMA LeadsOne ==
  ASSUME NEW q \in Seq(TitleEvent), NEW e \in TitleEvent, NEW t, NEW g, NEW h \in Tracker,
         Leads(t, q, g), Tracked(g, e) = h
  PROVE  <<e>> \in Seq(TitleEvent) /\ Leads(t, q \o <<e>>, h)
<1>1. q \o <<e>> = Append(q, e) /\ <<e>> \in Seq(TitleEvent)
  OBVIOUS
<1> QED BY <1>1, LeadsFurther

LEMMA LeadsTwo ==
  ASSUME NEW q \in Seq(TitleEvent), NEW e \in TitleEvent, NEW f \in TitleEvent, NEW t, NEW g,
         NEW h \in Tracker, NEW i \in Tracker,
         Leads(t, q, g), Tracked(g, e) = h, Tracked(h, f) = i
  PROVE  <<e>> \o <<f>> \in Seq(TitleEvent) /\ Leads(t, q \o (<<e>> \o <<f>>), i)
<1>1. /\ <<e>> \in Seq(TitleEvent) /\ <<f>> \in Seq(TitleEvent)
      /\ <<e>> \o <<f>> \in Seq(TitleEvent)
  OBVIOUS
<1>2. q \o (<<e>> \o <<f>>) = (q \o <<e>>) \o <<f>>
  BY <1>1, ConcatAssociative
<1>3. q \o <<e>> \in Seq(TitleEvent) /\ Leads(t, q \o <<e>>, h)
  BY <1>1, LeadsOne, ConcatProperties
<1> QED BY <1>1, <1>2, <1>3, LeadsOne

LEMMA CompositorIs ==
  ASSUME TitleInv
  PROVE  /\ wm \in Compositor /\ wm.kind \in {"sway", "niri"}
         /\ wm.titles \in Partial(TitleOrNone) /\ DOMAIN wm.titles \subseteq Win
         /\ (\A w \in DOMAIN wm.titles : wm.titles[w] \in TitleOrNone)
         /\ wm.focused \in Win \union {NoTitle} /\ wm.focused \in DOMAIN wm.titles \union {NoTitle}
         /\ stream \in Seq(TitleEvent) /\ NoTitle \notin Win
BY PartialIs, TitleAssumption DEF TitleInv, TitleShapes, Compositor

LEMMA WindowEventTyped ==
  ASSUME NEW t, NEW w \in DOMAIN t.titles, t.titles \in Partial(TitleOrNone)
  PROVE  /\ WindowEvent(t, w) \in WindowEvents /\ WindowEvent(t, w) \in TitleEvent
         /\ WindowEvent(t, w).title = t.titles[w]
         /\ WindowEvent(t, w).focused <=> t.focused = w
<1>1. w \in Win /\ t.titles[w] \in TitleOrNone
  BY PartialIs
<1>2. (t.focused = w) \in BOOLEAN
  OBVIOUS
<1>3. WindowEvent(t, w) \in WindowEvents
  BY <1>1, <1>2 DEF WindowEvent, WindowEvents
<1> QED BY <1>3 DEF WindowEvent, TitleEvent

(* A window opens or is renamed.                                           *)
LEMMA Upserts ==
  ASSUME TitleInv, NEW w \in Win, NEW t \in TitleOrNone, NEW f \in {w, wm.focused},
         NEW new, new = [titles |-> With(w, t), focused |-> f],
         w \in DOMAIN wm.titles => t # NoTitle /\ f = wm.focused,
         Happens(new, <<WindowEvent(new, w)>>)
  PROVE  TitleInv'
<1> DEFINE e == WindowEvent(new, w)
<1>1. /\ DOMAIN new.titles = DOMAIN wm.titles \union {w} /\ new.titles[w] = t /\ new.focused = f
      /\ \A v \in DOMAIN wm.titles : v # w => new.titles[v] = wm.titles[v]
  BY DEF With
<1>2. new.titles \in Partial(TitleOrNone)
  <2>1. \A v \in DOMAIN new.titles : new.titles[v] \in TitleOrNone
    BY <1>1, CompositorIs
  <2>2. new.titles = [v \in DOMAIN new.titles |-> new.titles[v]]
    BY DEF With
  <2>3. DOMAIN new.titles \subseteq Win
    BY <1>1, CompositorIs
  <2> QED BY <2>1, <2>2, <2>3, PartialIs
<1>3. new.focused \in DOMAIN new.titles \union {NoTitle} /\ new.focused \in Win \union {NoTitle}
  BY <1>1, CompositorIs
<1>4. e \in WindowEvents /\ e \in TitleEvent /\ e.title = t /\ (e.focused <=> f = w)
  BY <1>1, <1>2, WindowEventTyped
<1>5. Tracked(Tracking(wm), e) = Tracking(new)
  BY CompositorIs, UpsertTracks
<1>6. Tracking(new) \in Tracker
  BY <1>2, <1>3, TrackingTyped
<1> HIDE DEF e
<1>7. \A x : Leads(x, stream, Tracking(wm)) => Leads(x, stream \o <<e>>, Tracking(new))
  BY <1>4, <1>5, <1>6, LeadsOne, CompositorIs
<1>8. e.focused => e.title = TitleOf(new)
  BY <1>1, <1>4 DEF TitleOf
<1>9. ~e.focused => TitleOf(new) = TitleOf(wm)
  <2> SUFFICES ASSUME f # w PROVE TitleOf(new) = TitleOf(wm)
    BY <1>4
  <2>1. new.focused = wm.focused /\ (wm.focused \in DOMAIN wm.titles <=> wm.focused \in DOMAIN new.titles)
    BY <1>1
  <2> QED BY <1>1, <2>1 DEF TitleOf
<1>10. <<e>> \in Seq(TitleEvent)
  BY <1>4
<1>11. Follows(new, <<e>>)
  BY <1>4, <1>7, <1>8, <1>9 DEF Follows
<1>12. Happens(new, <<e>>)
  BY DEF e
<1> QED BY <1>2, <1>3, <1>10, <1>11, <1>12, Happened

(* The focus moves.                                                        *)
LEMMA FocusEventsFollow ==
  ASSUME NEW old, NEW new, new.titles = old.titles, new.titles \in Partial(TitleOrNone),
         new.focused \in DOMAIN new.titles \union {NoTitle},
         wm.kind \in {"sway", "niri"}
  PROVE  /\ wm.kind = "niri" =>
              /\ FocusEvents(new) = <<[ev |-> "focus", id |-> new.focused]>>
              /\ [ev |-> "focus", id |-> new.focused] \in TitleEvent
              /\ Tracked(Tracking(old), [ev |-> "focus", id |-> new.focused]) = Tracking(new)
              /\ Tracking(new) \in Tracker
         /\ wm.kind = "sway" =>
              \/ FocusEvents(new) = <<>> /\ TitleOf(new) = NoTitle
              \/ \E e \in WindowEvents : /\ FocusEvents(new) = <<e>> /\ e.focused
                                         /\ e.title = TitleOf(new)
<1>1. new.focused \in Win \union {NoTitle} /\ NoTitle \notin Win /\ DOMAIN new.titles \subseteq Win
  BY PartialIs, TitleAssumption
<1>2. ASSUME wm.kind = "niri"
      PROVE  /\ FocusEvents(new) = <<[ev |-> "focus", id |-> new.focused]>>
             /\ [ev |-> "focus", id |-> new.focused] \in TitleEvent
             /\ Tracked(Tracking(old), [ev |-> "focus", id |-> new.focused]) = Tracking(new)
             /\ Tracking(new) \in Tracker
  <2>1. FocusEvents(new) = <<[ev |-> "focus", id |-> new.focused]>>
    BY <1>2 DEF FocusEvents
  <2>2. [ev |-> "focus", id |-> new.focused] \in TitleEvent
    BY <1>1 DEF TitleEvent
  <2>3. Tracked(Tracking(old), [ev |-> "focus", id |-> new.focused]) = Tracking(new)
    BY FocusTracks
  <2>4. Tracking(new) \in Tracker
    BY <1>1, TrackingTyped
  <2> QED BY <2>1, <2>2, <2>3, <2>4
<1>3. ASSUME wm.kind = "sway"
      PROVE  \/ FocusEvents(new) = <<>> /\ TitleOf(new) = NoTitle
             \/ \E e \in WindowEvents : /\ FocusEvents(new) = <<e>> /\ e.focused
                                        /\ e.title = TitleOf(new)
  <2>1. CASE new.focused = NoTitle
    BY <1>1, <1>3, <2>1 DEF FocusEvents, TitleOf
  <2>2. CASE new.focused \in DOMAIN new.titles
    <3>1. new.focused # NoTitle
      BY <1>1, <2>2
    <3>2. FocusEvents(new) = <<WindowEvent(new, new.focused)>>
      BY <1>3, <3>1 DEF FocusEvents
    <3>3. /\ WindowEvent(new, new.focused) \in WindowEvents
          /\ WindowEvent(new, new.focused).focused
          /\ WindowEvent(new, new.focused).title = TitleOf(new)
      BY <2>2, WindowEventTyped DEF TitleOf
    <3> QED BY <3>2, <3>3
  <2> QED BY <2>1, <2>2
<1> QED BY <1>2, <1>3

LEMMA FocusEventsTyped ==
  ASSUME NEW new, new.titles \in Partial(TitleOrNone), new.focused \in DOMAIN new.titles \union {NoTitle},
         wm.kind \in {"sway", "niri"}
  PROVE  FocusEvents(new) \in Seq(TitleEvent)
<1>1. WindowEvents \subseteq TitleEvent
  BY DEF TitleEvent
<1>2. CASE wm.kind = "niri"
  <2>1. /\ FocusEvents(new) = <<[ev |-> "focus", id |-> new.focused]>>
        /\ [ev |-> "focus", id |-> new.focused] \in TitleEvent
    BY <1>2, FocusEventsFollow
  <2> QED BY <2>1
<1>3. CASE wm.kind = "sway"
  <2>1. FocusEvents(new) = <<>> \/ \E e \in WindowEvents : FocusEvents(new) = <<e>>
    BY <1>3, FocusEventsFollow
  <2>2. CASE FocusEvents(new) = <<>>
    BY <2>2
  <2>3. ASSUME NEW e \in WindowEvents, FocusEvents(new) = <<e>> PROVE FocusEvents(new) \in Seq(TitleEvent)
    <3>1. e \in TitleEvent
      BY <1>1
    <3> HIDE DEF FocusEvents
    <3> QED BY <2>3, <3>1
  <2> QED BY <2>1, <2>2, <2>3
<1> QED BY <1>2, <1>3

LEMMA FocusMoves ==
  ASSUME TitleInv, NEW w \in Win \union {NoTitle}, WindowFocused(w)
  PROVE  TitleInv'
<1> DEFINE new == [titles |-> wm.titles, focused |-> w]
<1>1. Happens(new, FocusEvents(new)) /\ w \in DOMAIN wm.titles \union {NoTitle}
  BY DEF WindowFocused
<1>2. /\ new.titles = wm.titles /\ new.focused = w /\ new.titles \in Partial(TitleOrNone)
      /\ new.focused \in DOMAIN new.titles \union {NoTitle} /\ wm.kind \in {"sway", "niri"}
  BY <1>1, CompositorIs
<1> HIDE DEF new
<1>3. FocusEvents(new) \in Seq(TitleEvent)
  BY <1>2, FocusEventsTyped
<1>4. ASSUME wm.kind = "niri", NEW t, Leads(t, stream, Tracking(wm))
      PROVE  Leads(t, stream \o FocusEvents(new), Tracking(new))
  <2>1. /\ FocusEvents(new) = <<[ev |-> "focus", id |-> new.focused]>>
        /\ [ev |-> "focus", id |-> new.focused] \in TitleEvent
        /\ Tracked(Tracking(wm), [ev |-> "focus", id |-> new.focused]) = Tracking(new)
        /\ Tracking(new) \in Tracker
    BY <1>2, <1>4, FocusEventsFollow
  <2> QED BY <1>4, <2>1, LeadsOne, CompositorIs
<1>5. ASSUME wm.kind = "sway"
      PROVE  \/ FocusEvents(new) = <<>> /\ TitleOf(new) = NoTitle
             \/ \E e \in WindowEvents : /\ FocusEvents(new) = <<e>> /\ e.focused
                                        /\ e.title = TitleOf(new)
  BY <1>2, <1>5, FocusEventsFollow
<1>6. Follows(new, FocusEvents(new))
  BY <1>4, <1>5 DEF Follows
<1> QED BY <1>1, <1>2, <1>3, <1>6, Happened

(* A window closes, and the focus goes elsewhere with the one that had it. *)
LEMMA Closes ==
  ASSUME TitleInv, NEW w \in Win, WindowCloses(w)
  PROVE  TitleInv'
<1> DEFINE rest == Restrict(wm.titles, DOMAIN wm.titles \ {w})
           gone == [ev |-> "closed", id |-> w]
           closed == IF wm.kind = "niri" THEN <<gone>> ELSE <<>>
<1>1. /\ w \in DOMAIN wm.titles
      /\ \/ w # wm.focused /\ Happens([titles |-> rest, focused |-> wm.focused], closed)
         \/ /\ w = wm.focused
            /\ \E f \in DOMAIN rest \union {NoTitle} :
                 Happens([titles |-> rest, focused |-> f],
                         closed \o FocusEvents([titles |-> rest, focused |-> f]))
  BY DEF WindowCloses
<1>2. /\ DOMAIN rest = DOMAIN wm.titles \ {w} /\ rest \in Partial(TitleOrNone)
      /\ \A v \in DOMAIN rest : rest[v] = wm.titles[v]
  <2>1. DOMAIN rest = DOMAIN wm.titles \ {w} /\ \A v \in DOMAIN rest : rest[v] = wm.titles[v]
    BY DEF Restrict
  <2>2. rest = [v \in DOMAIN rest |-> rest[v]]
    BY DEF Restrict
  <2>3. DOMAIN rest \subseteq Win /\ \A v \in DOMAIN rest : rest[v] \in TitleOrNone
    BY <2>1, CompositorIs
  <2> HIDE DEF rest
  <2> QED BY <2>1, <2>2, <2>3, PartialIs
<1>3. gone \in TitleEvent /\ closed \in Seq(TitleEvent)
  <2>1. gone \in TitleEvent
    BY DEF TitleEvent
  <2>2. <<gone>> \in Seq(TitleEvent) /\ <<>> \in Seq(TitleEvent)
    BY <2>1
  <2> QED BY <2>1, <2>2
<1> DEFINE left == [titles |-> rest, focused |-> IF wm.focused = w THEN NoTitle ELSE wm.focused]
<1>4. Tracked(Tracking(wm), gone) = Tracking(left)
  BY <1>1, CompositorIs, CloseTracks
<1>5. Tracking(left) \in Tracker
  <2>1. left.titles = rest /\ left.focused \in Win \union {NoTitle}
    BY CompositorIs
  <2> HIDE DEF left
  <2> QED BY <1>2, <2>1, TrackingTyped
<1>6. CASE w # wm.focused /\ Happens([titles |-> rest, focused |-> wm.focused], closed)
  <2>1. left = [titles |-> rest, focused |-> wm.focused]
    BY <1>6
  <2>2. left.titles = rest /\ left.focused = wm.focused /\ left.focused \in DOMAIN rest \union {NoTitle}
    BY <1>2, <1>6, CompositorIs
  <2>3. TitleOf(left) = TitleOf(wm)
    BY <1>2, <1>6, <2>2 DEF TitleOf
  <2> HIDE DEF left, rest, gone
  <2>4. Follows(left, closed)
    <3>1. wm.kind = "niri" => \A t : Leads(t, stream, Tracking(wm)) => Leads(t, stream \o closed, Tracking(left))
      BY <1>3, <1>4, <1>5, LeadsOne, CompositorIs
    <3>2. wm.kind = "sway" => closed = <<>>
      BY CompositorIs
    <3> HIDE DEF closed
    <3> QED BY <2>3, <3>1, <3>2 DEF Follows
  <2> HIDE DEF closed
  <2>5. Happens(left, closed)
    BY <1>6, <2>1
  <2> QED BY <1>2, <1>3, <2>2, <2>4, <2>5, Happened
<1>7. ASSUME w = wm.focused, NEW f \in DOMAIN rest \union {NoTitle},
             Happens([titles |-> rest, focused |-> f], closed \o FocusEvents([titles |-> rest, focused |-> f]))
      PROVE  TitleInv'
  <2> DEFINE new == [titles |-> rest, focused |-> f]
  <2>1. /\ new.titles = left.titles /\ new.titles = rest /\ new.focused = f
        /\ new.titles \in Partial(TitleOrNone) /\ new.focused \in DOMAIN new.titles \union {NoTitle}
    BY <1>2, <1>7
  <2>2. Happens(new, closed \o FocusEvents(new))
    BY <1>7
  <2> HIDE DEF left, rest, gone, new
  <2>3. FocusEvents(new) \in Seq(TitleEvent)
    BY <2>1, FocusEventsTyped, CompositorIs
  <2>4. closed \o FocusEvents(new) \in Seq(TitleEvent)
    <3> HIDE DEF closed
    <3> QED BY <1>3, <2>3, ConcatProperties
  <2>5. ASSUME wm.kind = "niri", NEW t, Leads(t, stream, Tracking(wm))
        PROVE  Leads(t, stream \o (closed \o FocusEvents(new)), Tracking(new))
    <3>1. /\ FocusEvents(new) = <<[ev |-> "focus", id |-> new.focused]>>
          /\ [ev |-> "focus", id |-> new.focused] \in TitleEvent
          /\ Tracked(Tracking(left), [ev |-> "focus", id |-> new.focused]) = Tracking(new)
          /\ Tracking(new) \in Tracker
      BY <2>1, <2>5, FocusEventsFollow
    <3>2. closed = <<gone>>
      BY <2>5
    <3>3. PICK e : e = [ev |-> "focus", id |-> new.focused]
      OBVIOUS
    <3>4. Leads(t, stream \o (<<gone>> \o <<e>>), Tracking(new))
      BY <1>3, <1>4, <1>5, <2>5, <3>1, <3>3, LeadsTwo, CompositorIs
    <3> QED BY <3>1, <3>2, <3>3, <3>4
  <2>6. ASSUME wm.kind = "sway"
        PROVE  \/ closed \o FocusEvents(new) = <<>> /\ TitleOf(new) = NoTitle
               \/ \E e \in WindowEvents : /\ closed \o FocusEvents(new) = <<e>> /\ e.focused
                                          /\ e.title = TitleOf(new)
    <3>1. \/ FocusEvents(new) = <<>> /\ TitleOf(new) = NoTitle
          \/ \E e \in WindowEvents : /\ FocusEvents(new) = <<e>> /\ e.focused
                                     /\ e.title = TitleOf(new)
      BY <2>1, <2>6, FocusEventsFollow
    <3>2. closed = <<>>
      BY <2>6
    <3>3. closed \o FocusEvents(new) = FocusEvents(new)
      BY <2>3, <3>2
    <3> HIDE DEF closed
    <3> QED BY <3>1, <3>3
  <2>7. Follows(new, closed \o FocusEvents(new))
    <3> HIDE DEF closed
    <3> QED BY <2>5, <2>6 DEF Follows
  <2> HIDE DEF closed
  <2> QED BY <2>1, <2>2, <2>4, <2>7, Happened
<1> QED BY <1>1, <1>6, <1>7

-----------------------------------------------------------------------------
(* The session: it connects, reads an event, and loses the connection.     *)
LEMMA SessionStarts == TitleInv /\ Connects => TitleInv'
<1> SUFFICES ASSUME TitleInv, Connects PROVE TitleInv'
  OBVIOUS
<1>1. /\ session' = "running" /\ tracker' = Untracked /\ emitted' = [last |-> NoTitle, any |-> FALSE]
      /\ UNCHANGED <<wm, titleQueue, title, happened>> /\ told' = (wm.kind = "niri")
  BY DEF Connects
<1> DEFINE e == [ev |-> "windows", titles |-> wm.titles, focused |-> wm.focused]
<1>2. stream' = IF wm.kind = "niri" THEN <<e>> ELSE <<>>
  BY DEF Connects
<1>3. e \in TitleEvent /\ e.ev = "windows" /\ e.titles = wm.titles /\ e.focused = wm.focused
  BY CompositorIs DEF TitleEvent
<1> HIDE DEF e
<1>4. Tracked(Untracked, e) = Tracking(wm) /\ Tracking(wm) \in Tracker
  <2>1. Tracking(e) = Tracking(wm)
    BY <1>3 DEF Tracking
  <2> QED BY <1>3, <2>1, TrackedIs, TrackingTyped, CompositorIs
<1>5. stream' \in Seq(TitleEvent) /\ (wm.kind = "sway" => stream' \in Seq(WindowEvents))
  BY <1>2, <1>3
<1>6. emitted'.last = NoTitle /\ ~emitted'.any
  BY <1>1
<1>7. TitleShapes'
  BY <1>1, <1>5, <1>6, UntrackedTyped DEF TitleInv, TitleShapes, TitleOrNone
<1>8. ASSUME wm.kind = "niri" PROVE Leads(Untracked, stream', Tracking(wm)) /\ TitleOf(Untracked) = NoTitle
  <2>1. stream' = Append(<<>>, e) /\ <<>> \in Seq(TitleEvent)
    BY <1>2, <1>3, <1>8
  <2>2. Leads(Untracked, <<>>, Untracked)
    BY LeadsNowhere, UntrackedTyped
  <2>3. Leads(Untracked, stream', Tracking(wm))
    BY <1>3, <1>4, <2>1, <2>2, LeadsFurther
  <2>4. TitleOf(Untracked) = NoTitle
    BY DEF TitleOf, Untracked
  <2> QED BY <2>3, <2>4
<1>9. NiriDue'
  <2>1. Tracking(wm)' = Tracking(wm) /\ TitleOf(tracker)' = TitleOf(Untracked)
    BY <1>1 DEF Tracking, TitleOf
  <2> QED BY <1>1, <1>6, <1>8, <2>1 DEF NiriDue
<1>10. SwayDue'
  <2>1. wm.kind = "sway" => ~told'
    BY <1>1
  <2> QED BY <1>1, <2>1 DEF SwayDue
<1> QED BY <1>7, <1>9, <1>10 DEF TitleInv

LEMMA SessionBreaks == TitleInv /\ SessionEnds => TitleInv'
<1> SUFFICES ASSUME TitleInv, SessionEnds PROVE TitleInv'
  OBVIOUS
<1>1. /\ session' = "sleeping" /\ stream' = <<>>
      /\ UNCHANGED <<wm, tracker, emitted, titleQueue, title, told, happened>>
  BY DEF SessionEnds, sessionVars
<1>2. stream' \in Seq(TitleEvent) /\ stream' \in Seq(WindowEvents)
  BY <1>1
<1>3. TitleShapes'
  BY <1>1, <1>2 DEF TitleInv, TitleShapes
<1>4. NiriDue' /\ SwayDue'
  BY <1>1 DEF TitleInv, NiriDue, SwayDue
<1> QED BY <1>3, <1>4 DEF TitleInv

(* What is sent to the module is typed and newest.                         *)
LEMMA EmittedIs ==
  ASSUME TitleInv, NEW t \in TitleOrNone, Emits(t)
  PROVE  /\ titleQueue' \in Seq(TitleOrNone) /\ Len(titleQueue') <= TitleCap
         /\ \A s : Newest(titleQueue', s) = t
<1>1. titleQueue \in Seq(TitleOrNone) /\ Len(titleQueue) \in Nat
  BY LenProperties DEF TitleInv, TitleShapes
<1>2. Len(titleQueue) < TitleCap /\ titleQueue' = Append(titleQueue, t)
  BY DEF Emits
<1>3. /\ titleQueue' \in Seq(TitleOrNone) /\ Len(titleQueue') = Len(titleQueue) + 1
      /\ \A s : Newest(titleQueue', s) = t
  BY <1>1, <1>2, NewestSent
<1> QED BY <1>1, <1>2, <1>3, TitleAssumption

LEMMA NiriFollowed == TitleInv /\ NiriReads => TitleInv'
<1> SUFFICES ASSUME TitleInv, NiriReads PROVE TitleInv'
  OBVIOUS
<1>1. PICK e, n : e = Head(stream) /\ n = Tracked(tracker, e)
  OBVIOUS
<1>2. /\ session = "running" /\ wm.kind = "niri" /\ stream # <<>> /\ stream' = Tail(stream)
      /\ tracker' = n /\ UNCHANGED <<wm, session, told, title, happened>>
  BY <1>1 DEF NiriReads
<1>3. \/ TitleOf(n) = emitted.last /\ UNCHANGED <<emitted, titleQueue>>
      \/ Emits(TitleOf(n)) /\ emitted' = [last |-> TitleOf(n), any |-> TRUE]
  <2>1. TitleOf(tracker)' = TitleOf(n) /\ TitleOf(tracker') = TitleOf(n)
    BY <1>2 DEF TitleOf
  <2> QED BY <2>1 DEF NiriReads
<1>4. stream \in Seq(TitleEvent) /\ Leads(tracker, stream, Tracking(wm))
  BY <1>2 DEF TitleInv, TitleShapes, NiriDue
<1>5. stream' \in Seq(TitleEvent) /\ n \in Tracker /\ Leads(n, stream', Tracking(wm))
  BY <1>1, <1>2, <1>4, LeadsFrom
<1>6. TitleOf(n) \in TitleOrNone
  BY <1>5, TrackerTyped
<1>7. /\ titleQueue' \in Seq(TitleOrNone) /\ Len(titleQueue') <= TitleCap
      /\ emitted'.last = TitleOf(n)
      /\ emitted'.any => Newest(titleQueue', title) = emitted'.last
  <2>1. CASE TitleOf(n) = emitted.last /\ UNCHANGED <<emitted, titleQueue>>
    BY <2>1 DEF TitleInv, TitleShapes, NiriDue
  <2>2. CASE Emits(TitleOf(n)) /\ emitted' = [last |-> TitleOf(n), any |-> TRUE]
    <3>1. emitted'.last = TitleOf(n)
      BY <2>2
    <3> QED BY <1>6, <2>2, <3>1, EmittedIs
  <2> QED BY <1>3, <2>1, <2>2
<1>8. TitleShapes'
  BY <1>2, <1>5, <1>6, <1>7 DEF TitleInv, TitleShapes
<1>9. NiriDue'
  <2>1. Tracking(wm)' = Tracking(wm) /\ TitleOf(tracker)' = TitleOf(n)
    BY <1>2 DEF Tracking, TitleOf
  <2>2. Leads(tracker, stream, Tracking(wm))'
    BY <1>2, <1>5, <2>1
  <2> QED BY <1>2, <1>7, <2>1, <2>2 DEF NiriDue
<1>10. SwayDue'
  BY <1>2 DEF SwayDue
<1> QED BY <1>8, <1>9, <1>10 DEF TitleInv

LEMMA SwayFollowed == TitleInv /\ SwayReads => TitleInv'
<1> SUFFICES ASSUME TitleInv, SwayReads PROVE TitleInv'
  OBVIOUS
<1>1. PICK e : e = Head(stream)
  OBVIOUS
<1>2. /\ session = "running" /\ wm.kind = "sway" /\ stream # <<>> /\ stream' = Tail(stream)
      /\ UNCHANGED <<wm, session, tracker, emitted, told, title, happened>>
  BY DEF SwayReads
<1>3. IF Speaks(e) THEN Emits(e.title) ELSE UNCHANGED titleQueue
  BY <1>1 DEF SwayReads, Speaks
<1>4. stream \in Seq(WindowEvents) /\ stream \in Seq(TitleEvent)
  BY <1>2 DEF TitleInv, TitleShapes
<1>5. e \in WindowEvents /\ stream' \in Seq(WindowEvents) /\ stream' \in Seq(TitleEvent)
  BY <1>1, <1>2, <1>4, HeadTailProperties
<1>6. e.title \in TitleOrNone
  BY <1>5 DEF WindowEvents
<1>7. /\ titleQueue' \in Seq(TitleOrNone) /\ Len(titleQueue') <= TitleCap
      /\ Newest(titleQueue', title) = IF Speaks(e) THEN e.title ELSE Newest(titleQueue, title)
  <2>1. CASE Speaks(e)
    BY <1>3, <1>6, <2>1, EmittedIs
  <2>2. CASE ~Speaks(e)
    BY <1>3, <2>2 DEF TitleInv, TitleShapes
  <2> QED BY <2>1, <2>2
<1>8. TitleShapes'
  BY <1>2, <1>5, <1>7 DEF TitleInv, TitleShapes
<1>9. NiriDue'
  BY <1>2 DEF TitleInv, NiriDue
<1>10. SwayDue'
  <2>1. TitleOf(wm)' = TitleOf(wm) /\ Newest(titleQueue, title)' = Newest(titleQueue', title)
    BY <1>2 DEF TitleOf, Newest
  <2>2. ASSUME told, TitleOf(wm) # NoTitle
        PROVE  Says(stream', Newest(titleQueue', title), TitleOf(wm))
    <3>1. Says(stream, Newest(titleQueue, title), TitleOf(wm))
      BY <1>2, <2>2 DEF TitleInv, SwayDue
    <3> QED BY <1>1, <1>2, <1>4, <1>7, <3>1, SaysStill
  <2> QED BY <1>2, <2>1, <2>2 DEF SwayDue
<1> QED BY <1>8, <1>9, <1>10 DEF TitleInv

LEMMA TitleTaken == TitleInv /\ TitleShown => TitleInv'
<1> SUFFICES ASSUME TitleInv, TitleShown PROVE TitleInv'
  OBVIOUS
<1>1. /\ titleQueue # <<>> /\ title' = Head(titleQueue) /\ titleQueue' = Tail(titleQueue)
      /\ UNCHANGED <<wm, stream, session, tracker, emitted, told, happened>>
  BY DEF TitleShown
<1>2. titleQueue \in Seq(TitleOrNone) /\ Len(titleQueue) \in Nat /\ Len(titleQueue) <= TitleCap
  BY LenProperties DEF TitleInv, TitleShapes
<1>3. /\ title' \in TitleOrNone /\ titleQueue' \in Seq(TitleOrNone)
      /\ Len(titleQueue') = Len(titleQueue) - 1
      /\ Newest(titleQueue', title') = Newest(titleQueue, title)
  BY <1>1, <1>2, NewestTaken
<1>4. TitleShapes'
  BY <1>1, <1>2, <1>3, TitleAssumption DEF TitleInv, TitleShapes
<1>5. /\ Tracking(wm)' = Tracking(wm) /\ TitleOf(wm)' = TitleOf(wm) /\ TitleOf(tracker)' = TitleOf(tracker)
      /\ Newest(titleQueue, title)' = Newest(titleQueue, title)
  BY <1>1, <1>3 DEF Tracking, TitleOf, Newest
<1>6. NiriDue'
  BY <1>1, <1>5 DEF TitleInv, NiriDue
<1>7. SwayDue'
  BY <1>1, <1>5 DEF TitleInv, SwayDue
<1> QED BY <1>4, <1>6, <1>7 DEF TitleInv

LEMMA TitleStep == TitleInv /\ [TitleNext]_titleVars => TitleInv'
<1> SUFFICES ASSUME TitleInv, [TitleNext]_titleVars PROVE TitleInv'
  OBVIOUS
<1>1. CASE UNCHANGED titleVars
  <2>1. UNCHANGED <<wm, stream, session, tracker, emitted, told, titleQueue, title, happened>>
    BY <1>1 DEF titleVars
  <2>2. TitleShapes'
    BY <2>1 DEF TitleInv, TitleShapes
  <2>3. /\ Tracking(wm)' = Tracking(wm) /\ TitleOf(wm)' = TitleOf(wm) /\ TitleOf(tracker)' = TitleOf(tracker)
        /\ Newest(titleQueue, title)' = Newest(titleQueue, title)
    BY <2>1 DEF Tracking, TitleOf, Newest
  <2>4. NiriDue' /\ SwayDue'
    BY <2>1, <2>3 DEF TitleInv, NiriDue, SwayDue
  <2> QED BY <2>2, <2>4 DEF TitleInv
<1>2. ASSUME NEW w \in Win, NEW t \in TitleOrNone, WindowOpens(w, t) PROVE TitleInv'
  <2>1. w \notin DOMAIN wm.titles
    BY <1>2 DEF WindowOpens
  <2>2. PICK f \in {w, wm.focused} :
          \E new : new = [titles |-> With(w, t), focused |-> f] /\ Happens(new, <<WindowEvent(new, w)>>)
    BY <1>2 DEF WindowOpens
  <2>3. PICK new : new = [titles |-> With(w, t), focused |-> f] /\ Happens(new, <<WindowEvent(new, w)>>)
    BY <2>2
  <2> QED BY <2>1, <2>3, Upserts
<1>3. ASSUME NEW w \in Win, NEW t \in TitleOrNone, WindowRenamed(w, t) PROVE TitleInv'
  <2>1. w \in DOMAIN wm.titles /\ t # NoTitle
    BY <1>3 DEF WindowRenamed
  <2>2. PICK new : new = [titles |-> With(w, t), focused |-> wm.focused] /\ Happens(new, <<WindowEvent(new, w)>>)
    BY <1>3 DEF WindowRenamed
  <2> QED BY <2>1, <2>2, Upserts
<1>4. CASE \E w \in Win : WindowCloses(w)
  BY <1>4, Closes
<1>5. CASE \E w \in Win \union {NoTitle} : WindowFocused(w)
  BY <1>5, FocusMoves
<1>6. CASE Connects \/ SessionEnds
  BY <1>6, SessionStarts, SessionBreaks
<1>7. CASE NiriReads \/ SwayReads \/ TitleShown
  BY <1>7, NiriFollowed, SwayFollowed, TitleTaken
<1> QED BY <1>1, <1>2, <1>3, <1>4, <1>5, <1>6, <1>7 DEF TitleNext, TitleOrNone

LEMMA TitleSettled == TitleInv => TitleType /\ TitleFollows
<1> SUFFICES ASSUME TitleInv PROVE TitleType /\ TitleFollows
  OBVIOUS
<1>1. TitleType
  BY CompositorIs DEF TitleInv, TitleShapes, TitleType, TitleOrNone
<1>2. ASSUME session = "running", stream = <<>>, titleQueue = <<>>, wm.kind = "niri"
      PROVE  emitted.last = TitleOf(wm) /\ (emitted.any => title = TitleOf(wm))
  <2>1. Leads(tracker, <<>>, Tracking(wm)) /\ emitted.last = TitleOf(tracker)
    BY <1>2 DEF TitleInv, NiriDue
  <2>2. Len(<<>>) = 0
    BY EmptySeq
  <2>3. tracker = Tracking(wm)
    BY <2>1, <2>2 DEF Leads
  <2>4. TitleOf(Tracking(wm)) = TitleOf(wm)
    BY CompositorIs, TrackingTyped
  <2>5. emitted.any => title = emitted.last
    BY <1>2 DEF TitleInv, NiriDue, Newest
  <2> QED BY <2>1, <2>3, <2>4, <2>5
<1>3. ASSUME session = "running", stream = <<>>, titleQueue = <<>>, wm.kind = "sway", told,
             TitleOf(wm) # NoTitle
      PROVE  title = TitleOf(wm)
  <2>1. Says(<<>>, Newest(titleQueue, title), TitleOf(wm))
    BY <1>3 DEF TitleInv, SwayDue
  <2>2. Len(<<>>) = 0
    BY EmptySeq
  <2> QED BY <1>3, <2>1, <2>2 DEF Says, Newest
<1>4. TitleFollows
  BY <1>2, <1>3, CompositorIs DEF TitleFollows
<1> QED BY <1>1, <1>4

(* TitleFollows for any windows, titles and capacity: once every event is   *)
(* read, the title shown is that of the window the compositor has focused, *)
(* of niri by the tracker's own windows, of sway by the events that speak. *)
THEOREM TitleFollowsFocus == TitleSpec => [](TitleType /\ TitleFollows)
BY TitleInitial, TitleStep, TitleSettled, PTL DEF TitleSpec

-----------------------------------------------------------------------------
(* The switches: every process that was started came from a click.         *)
Process ==
  [what : {"wifi", "bluetooth", "airplane"}, on : BOOLEAN]

PillsInv ==
  /\ radio \in Radio /\ pills \in Pills /\ probe \in Seq(BOOLEAN) /\ Len(probe) <= 3
  /\ commands \in Seq(Process) /\ Len(commands) <= pillClicks
  /\ pillClicks \in Nat /\ pillClicks <= MaxPillClicks

(* What a probe answers is TRUE or FALSE, a fallback included.             *)
LEMMA Answered ==
  ASSUME NEW r \in Radio
  PROVE  WifiAnswer(r) \in BOOLEAN /\ BluetoothAnswer(r) \in BOOLEAN /\ AirplaneAnswer(r) \in BOOLEAN
BY DEF WifiAnswer, BluetoothAnswer, AirplaneAnswer, Radio

LEMMA PillsInitial == PillsInit => PillsInv
<1> SUFFICES ASSUME PillsInit PROVE PillsInv
  OBVIOUS
<1>1. radio \in Radio /\ commands = <<>> /\ pillClicks = 0 /\ probe = <<>>
  BY DEF PillsInit
<1>2. pills \in Pills
  <2>1. PICK w \in Radio, b \in Radio :
          pills = [wifi |-> WifiAnswer(w), bluetooth |-> BluetoothAnswer(b), airplane |-> AirplaneAnswer(radio)]
    BY DEF PillsInit
  <2> QED BY <1>1, <2>1, Answered DEF Pills
<1> QED BY <1>1, <1>2, PillsAssumption DEF PillsInv

LEMMA Ran ==
  ASSUME NEW c \in Process, NEW r \in Radio
  PROVE  After(c, r) \in Radio
<1>1. c.on \in BOOLEAN /\ (~c.on) \in BOOLEAN /\ c.what \in {"wifi", "bluetooth", "airplane"}
  BY DEF Process
<1>2. CASE c.what = "airplane"
  BY <1>1, <1>2 DEF After, Radio
<1>3. CASE c.what = "wifi"
  BY <1>1, <1>3 DEF After, Radio
<1>4. CASE c.what = "bluetooth"
  BY <1>1, <1>4 DEF After, Radio
<1> QED BY <1>1, <1>2, <1>3, <1>4

LEMMA Removed ==
  ASSUME NEW S, NEW q \in Seq(S), NEW n \in DOMAIN q
  PROVE  RemoveAt(q, n) \in Seq(S) /\ Len(RemoveAt(q, n)) <= Len(q)
<1>1. Len(q) \in Nat /\ n \in 1..Len(q)
  BY LenProperties
<1>2. SubSeq(q, 1, n - 1) \in Seq(S) /\ Len(SubSeq(q, 1, n - 1)) = n - 1
  BY <1>1
<1>3. SubSeq(q, n + 1, Len(q)) \in Seq(S) /\ Len(SubSeq(q, n + 1, Len(q))) = Len(q) - n
  BY <1>1
<1> QED BY <1>1, <1>2, <1>3, ConcatProperties DEF RemoveAt

LEMMA PillsStep == PillsInv /\ [PillsNext]_pillVars => PillsInv'
<1> SUFFICES ASSUME PillsInv, [PillsNext]_pillVars PROVE PillsInv'
  OBVIOUS
<1> USE PillsAssumption DEF PillsInv
<1>1. CASE UNCHANGED pillVars
  BY <1>1 DEF pillVars, systemVars
<1>2. ASSUME NEW what \in {"wifi", "bluetooth", "airplane"}, PillClicked(what) PROVE PillsInv'
  <2>1. PICK on \in BOOLEAN : on = ~pills[what]
    OBVIOUS
  <2>2. /\ pillClicks < MaxPillClicks /\ pillClicks' = pillClicks + 1 /\ UNCHANGED <<radio, probe>>
        /\ commands' = Append(commands, [what |-> what, on |-> on])
    BY <1>2, <2>1 DEF PillClicked, Starts, systemVars
  <2>3. pills' \in Pills
    <3>1. CASE what \in {"wifi", "bluetooth"}
      <4>1. pills' = [pills EXCEPT ![what] = on]
        BY <1>2, <2>1, <3>1 DEF PillClicked
      <4> QED BY <3>1, <4>1 DEF Pills
    <3>2. CASE what = "airplane"
      <4>1. pills' = IF on THEN [wifi |-> FALSE, bluetooth |-> FALSE, airplane |-> TRUE]
                     ELSE [pills EXCEPT !.airplane = FALSE]
        BY <1>2, <2>1, <3>2 DEF PillClicked
      <4> QED BY <4>1 DEF Pills
    <3> QED BY <3>1, <3>2
  <2>4. [what |-> what, on |-> on] \in Process
    BY DEF Process
  <2>5. commands' \in Seq(Process) /\ Len(commands') = Len(commands) + 1
    BY <2>2, <2>4, NewestSent
  <2>6. Len(commands) \in Nat
    BY LenProperties
  <2> QED BY <2>2, <2>3, <2>5, <2>6
<1>3. CASE CommandRuns
  <2>1. PICK n \in DOMAIN commands :
          /\ commands' = RemoveAt(commands, n) /\ radio' \in {radio, After(commands[n], radio)}
          /\ UNCHANGED <<pills, probe, pillClicks>>
    BY <1>3 DEF CommandRuns
  <2>2. commands[n] \in Process
    BY <2>1
  <2>3. radio' \in Radio
    BY <2>1, <2>2, Ran
  <2>4. commands' \in Seq(Process) /\ Len(commands') <= Len(commands) /\ Len(commands') \in Nat /\ Len(commands) \in Nat
    BY <2>1, Removed, LenProperties
  <2> QED BY <2>1, <2>3, <2>4
<1>4. CASE SystemChanges
  BY <1>4 DEF SystemChanges
<1>5. CASE ProbeReads
  <2>1. UNCHANGED <<radio, pills, commands, pillClicks>> /\ Len(probe) < 3
        /\ probe' = Append(probe, NextAnswer(radio))
    BY <1>5 DEF ProbeReads, systemVars
  <2>2. Len(probe) \in {0, 1, 2}
    <3>1. Len(probe) \in Nat
      BY LenProperties
    <3>2. \A n \in Nat : n < 3 => n \in {0, 1, 2}
      OBVIOUS
    <3> QED BY <2>1, <3>1, <3>2
  <2>3. NextAnswer(radio) \in BOOLEAN
    BY <2>2, Answered DEF NextAnswer
  <2>4. probe' \in Seq(BOOLEAN) /\ Len(probe') = Len(probe) + 1
    BY <2>1, <2>3, NewestSent
  <2> QED BY <2>1, <2>2, <2>4
<1>6. CASE ProbeShown
  <2>1. UNCHANGED <<radio, commands, pillClicks>> /\ Len(probe) = 3 /\ probe' = <<>>
        /\ pills' = [wifi |-> probe[1], bluetooth |-> probe[2], airplane |-> probe[3]]
    BY <1>6 DEF ProbeShown, systemVars
  <2>2. probe[1] \in BOOLEAN /\ probe[2] \in BOOLEAN /\ probe[3] \in BOOLEAN
    <3>1. probe \in [1..3 -> BOOLEAN]
      BY <2>1, LenProperties
    <3> QED BY <3>1
  <2>3. pills' \in Pills
    BY <2>1, <2>2 DEF Pills
  <2> QED BY <2>1, <2>3
<1> QED BY <1>1, <1>2, <1>3, <1>4, <1>5, <1>6 DEF PillsNext

LEMMA PillsTyped == PillsSpec => []PillsType
<1>1. PillsInv => PillsType
  <2> SUFFICES ASSUME PillsInv PROVE PillsType
    OBVIOUS
  <2>1. Len(commands) \in Nat
    BY LenProperties DEF PillsInv
  <2> QED BY <2>1, PillsAssumption DEF PillsInv, PillsType
<1> QED BY <1>1, PillsInitial, PillsStep, PTL DEF PillsSpec

-----------------------------------------------------------------------------
(* The bar's instance runs the components beside each other: a step of it   *)
(* is one of a component, or leaves that component as it is.               *)
LEMMA BarStarts ==
  MCInit => /\ ThemeInit /\ BrightInit /\ VolumeInit /\ NetInit
            /\ BtInit /\ PanelInit /\ PillsInit /\ TitleInit
BY DEF MCInit

LEMMA BarMoves ==
  [MCNext]_barVars => /\ [ThemeNext]_themeVars /\ [BrightNext]_brightVars /\ [VolumeNext]_volumeVars
                      /\ [NetNext]_netVars /\ [BtNext]_btVars /\ [PanelNext]_panelVars
                      /\ [PillsNext]_pillVars /\ [TitleNext]_titleVars
BY DEF MCNext, barVars, OthersTheme, OthersBrightness, OthersVolume, OthersNet, OthersBluetooth,
       OthersPanel, OthersPills, OthersTitle

LEMMA BarParts ==
  MCSpec => /\ ThemeSpec /\ BrightSpec /\ VolumeSpec /\ NetSpec
            /\ BtSpec /\ PanelSpec /\ PillsSpec /\ TitleSpec
BY BarStarts, BarMoves, PTL DEF MCSpec, ThemeSpec, BrightSpec, VolumeSpec, NetSpec,
                                BtSpec, PanelSpec, PillsSpec, TitleSpec

LEMMA BrightTyped == BrightSpec => []BrightType
<1>1. BrightInv => BrightType
  BY DEF BrightInv
<1> QED BY <1>1, BrightInitial, BrightStep, PTL DEF BrightSpec

LEMMA BtTyped == BtSpec => []BtType
<1>1. BtInv => BtType
  BY DEF BtInv
<1> QED BY <1>1, BtInitial, BtStep, PTL DEF BtSpec

LEMMA PanelTyped == PanelSpec => []PanelType
<1>1. PanelInv => PanelType
  BY DEF PanelInv
<1> QED BY <1>1, PanelInitial, PanelStep, PTL DEF PanelSpec

(* ReadersSettle of the bar's instance: no other part disturbs a reader.    *)
THEOREM BarReadersSettle == MCSpec => []ReadersSettle
<1>1. ThemeSettles /\ VolumeSettles /\ NetSettles /\ SelectedListed /\ TitleFollows => ReadersSettle
  BY DEF ReadersSettle
<1> QED BY <1>1, BarParts, ThemeFollowsFile, VolumeFollowsSink, NetFollowsKernel, TitleFollowsFocus, PTL

(* TypeOK of the bar's instance: the channels never exceed their capacity   *)
(* and what is held is always of the kinds the code gives it.              *)
THEOREM BarTyped == MCSpec => []TypeOK
<1>1. ThemeType /\ BrightType /\ VolumeType /\ NetType /\ BtType /\ PanelType /\ PillsType /\ TitleType => TypeOK
  BY DEF TypeOK
<1> QED BY <1>1, BarParts, ThemeFollowsFile, BrightTyped, VolumeFollowsSink, NetFollowsKernel,
           BtTyped, PanelTyped, PillsTyped, TitleFollowsFocus, PTL
=============================================================================
