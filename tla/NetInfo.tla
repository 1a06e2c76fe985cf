------------------------------ MODULE NetInfo ------------------------------
(* The netlink worker of zbar and the popup it feeds: the interfaces are     *)
(* dumped once and then followed through multicast messages.                 *)
EXTENDS Integers, Sequences, FiniteSetsExt

CONSTANTS Link      \* indices of interfaces, in the order of their names
CONSTANTS Lo        \* the loopback interface
CONSTANTS Physical  \* interfaces with a device behind them
CONSTANTS NoLink    \* None

CONSTANTS McastCap, NetQueueCap  \* the kernel's socket buffer, the channel
CONSTANTS MaxKernel              \* bound: changes the kernel announces

ASSUME NetAssumption ==
  /\ Link \subseteq Nat /\ Physical \subseteq Link /\ NoLink \notin Link
  /\ McastCap \in Nat \ {0} /\ NetQueueCap \in Nat \ {0}

VARIABLES
  links,      \* the kernel: "absent", "down" or "up"
  addrs,      \* interfaces with an address
  kernelOps,
  mcast,      \* messages in the worker's socket
  overrun,    \* the socket overflowed and recv has not said so yet
  netLost,    \* a message was lost that way (history)
  netPc,      \* where the worker is
  linkCache, addrCache, snapshot,
  netQueue,   \* events queued for the popup
  popupAt,    \* "open", "dead": its task waits still, or "dropped"
  listed,     \* the interfaces the popup shows
  selected,   \* the one whose details it shows
  hovered     \* unless the pointer was over this one

kernelVars == <<links, addrs, kernelOps, mcast, overrun, netLost>>
workerVars == <<netPc, linkCache, addrCache, snapshot>>
netPopupVars == <<popupAt, listed, selected, hovered>>
netVars == <<kernelVars, workerVars, netQueue, netPopupVars>>

NetInit ==
  /\ links \in [Link -> {"absent", "up"}] /\ addrs = {} /\ kernelOps = 0
  /\ mcast = <<>> /\ overrun = FALSE /\ netLost = FALSE
  /\ netPc = "join" /\ linkCache = [l \in Link |-> "absent"] /\ addrCache = {} /\ snapshot = {}
  /\ netQueue = <<>>
  /\ popupAt = "open" /\ listed = {} /\ selected = NoLink /\ hovered = NoLink

-----------------------------------------------------------------------------
(* The kernel announces every change to the sockets that joined its groups; *)
(* a socket overflows by bytes, with McastCap messages at the latest.       *)

Joined == netPc \notin {"join", "gone"}

Announce(m) ==
  /\ kernelOps < MaxKernel /\ kernelOps' = kernelOps + 1
  /\ \/ ~Joined /\ UNCHANGED <<mcast, overrun, netLost>>
     \/ /\ Joined /\ Len(mcast) < McastCap
        /\ mcast' = Append(mcast, m) /\ UNCHANGED <<overrun, netLost>>
     \/ /\ Joined /\ mcast # <<>>
        /\ overrun' = TRUE /\ netLost' = TRUE /\ UNCHANGED mcast

LinkChanges(l, state) ==
  /\ state # links[l] /\ (state = "absent" => l \notin addrs)
  /\ links' = [links EXCEPT ![l] = state] /\ UNCHANGED addrs
  /\ Announce([about |-> "link", link |-> l, state |-> state])
  /\ UNCHANGED <<workerVars, netQueue, netPopupVars>>

AddrChanges(l) ==
  /\ links[l] # "absent"
  /\ addrs' = IF l \in addrs THEN addrs \ {l} ELSE addrs \union {l}
  /\ UNCHANGED links
  /\ Announce([about |-> "addr", link |-> l, state |-> IF l \in addrs THEN "absent" ELSE "up"])
  /\ UNCHANGED <<workerVars, netQueue, netPopupVars>>

-----------------------------------------------------------------------------
(* The worker.                                                              *)

Merge(ls, as) == {[link |-> l, up |-> ls[l] = "up", addr |-> l \in as] :
                    l \in {k \in Link \ {Lo} : ls[k] # "absent"}}

(* The socket joins before the dumps, so that a change is in one of the two.*)
JoinsGroups ==
  /\ netPc = "join" /\ netPc' \in {"links", "gone"}
  /\ UNCHANGED <<kernelVars, linkCache, addrCache, snapshot, netQueue, netPopupVars>>

DumpsLinks ==
  /\ netPc = "links"
  /\ \/ netPc' = "addrs" /\ linkCache' = links
     \/ netPc' = "gone" /\ UNCHANGED linkCache
  /\ UNCHANGED <<kernelVars, addrCache, snapshot, netQueue, netPopupVars>>

DumpsAddrs ==
  /\ netPc = "addrs"
  /\ \/ netPc' = "publish" /\ addrCache' = addrs /\ snapshot' = Merge(linkCache, addrs)
     \/ netPc' = "gone" /\ UNCHANGED <<addrCache, snapshot>>
  /\ UNCHANGED <<kernelVars, linkCache, netQueue, netPopupVars>>

(* send_blocking: waits for room, fails once the receiver is dropped.       *)
Sends(from, e, to) ==
  /\ netPc = from
  /\ \/ popupAt = "dropped" /\ netPc' = "gone" /\ UNCHANGED netQueue
     \/ /\ popupAt # "dropped" /\ Len(netQueue) < NetQueueCap
        /\ netQueue' = Append(netQueue, e) /\ netPc' = to
  /\ UNCHANGED <<kernelVars, linkCache, addrCache, snapshot, netPopupVars>>

Publishes == Sends("publish", [kind |-> "snapshot", ifaces |-> snapshot], "poll")

(* One second without a message: the links are dumped for their counters.   *)
(* With new totals the snapshot is sent again, the rates always are.        *)
PollTimesOut ==
  /\ netPc = "poll" /\ mcast = <<>> /\ ~overrun /\ netPc' = "stats"
  /\ UNCHANGED <<kernelVars, linkCache, addrCache, snapshot, netQueue, netPopupVars>>

StatsDumped ==
  /\ netPc = "stats" /\ netPc' \in {"totals", "rates"}
  /\ UNCHANGED <<kernelVars, linkCache, addrCache, snapshot, netQueue, netPopupVars>>

StatsFail ==
  /\ netPc = "stats" /\ netPc' = "poll"
  /\ UNCHANGED <<kernelVars, linkCache, addrCache, snapshot, netQueue, netPopupVars>>

SendsTotals == Sends("totals", [kind |-> "snapshot", ifaces |-> snapshot], "rates")

(* Mutant of SendsRates: an idle worker says nothing.                       *)
SendsNoRates ==
  /\ netPc = "rates" /\ netPc' = "poll"
  /\ UNCHANGED <<kernelVars, linkCache, addrCache, snapshot, netQueue, netPopupVars>>

SendsRates == Sends("rates", [kind |-> "rates", ifaces |-> {}], "poll")

PollReadable ==
  /\ netPc = "poll" /\ (mcast # <<>> \/ overrun) /\ netPc' = "drain"
  /\ UNCHANGED <<kernelVars, linkCache, addrCache, snapshot, netQueue, netPopupVars>>

MessageRead ==
  /\ netPc = "drain" /\ ~overrun /\ mcast # <<>> /\ mcast' = Tail(mcast)
  /\ LET m == Head(mcast) IN
       IF m.about = "link"
       THEN linkCache' = [linkCache EXCEPT ![m.link] = m.state] /\ UNCHANGED addrCache
       ELSE /\ addrCache' = IF m.state = "up" THEN addrCache \union {m.link} ELSE addrCache \ {m.link}
            /\ UNCHANGED linkCache
  /\ UNCHANGED <<links, addrs, kernelOps, overrun, netLost, netPc, snapshot, netQueue, netPopupVars>>

(* Nothing left, or recv fails with ENOBUFS: what was lost is not dumped    *)
(* again. A merge that changed nothing is not sent.                         *)
Drained ==
  /\ netPc = "drain" /\ (mcast = <<>> \/ overrun) /\ overrun' = FALSE
  /\ snapshot' = Merge(linkCache, addrCache)
  /\ netPc' = IF snapshot' # snapshot THEN "publish" ELSE "poll"
  /\ UNCHANGED <<links, addrs, kernelOps, mcast, netLost, linkCache, addrCache, netQueue, netPopupVars>>

-----------------------------------------------------------------------------
(* The popup.                                                               *)

Ifaces(list) == {i.link : i \in list}
UpIn(list) == {i.link : i \in {j \in list : j.up}}

(* A physical interface that is up, else one that is up, else the first.    *)
PickDefault(list) ==
  IF list = {} THEN NoLink
  ELSE IF UpIn(list) \intersect Physical # {} THEN Min(UpIn(list) \intersect Physical)
  ELSE IF UpIn(list) # {} THEN Min(UpIn(list)) ELSE Min(Ifaces(list))

Reselect(list) == IF selected \in Ifaces(list) THEN selected ELSE PickDefault(list)

PopupTakes ==
  /\ popupAt = "open" /\ netQueue # <<>> /\ netQueue' = Tail(netQueue)
  /\ LET e == Head(netQueue) IN
       \/ e.kind = "snapshot" /\ listed' = e.ifaces /\ selected' = Reselect(e.ifaces)
       \/ e.kind = "rates" /\ UNCHANGED <<listed, selected>>
  /\ UNCHANGED <<kernelVars, workerVars, popupAt, hovered>>

PointsAt(l) ==
  /\ popupAt = "open" /\ l \in Ifaces(listed)
  /\ \/ hovered' = l /\ UNCHANGED selected
     \/ selected' = l /\ UNCHANGED hovered
  /\ UNCHANGED <<kernelVars, workerVars, netQueue, popupAt, listed>>

PopupCloses ==
  /\ popupAt = "open" /\ popupAt' = "dead"
  /\ UNCHANGED <<kernelVars, workerVars, netQueue, listed, selected, hovered>>

(* Its task finds the popup gone only with the next event, and ends.        *)
PopupTaskEnds ==
  /\ popupAt = "dead" /\ netQueue # <<>> /\ popupAt' = "dropped" /\ netQueue' = <<>>
  /\ UNCHANGED <<kernelVars, workerVars, listed, selected, hovered>>

NetWorker ==
  \/ JoinsGroups \/ DumpsLinks \/ DumpsAddrs \/ Publishes
  \/ PollTimesOut \/ StatsDumped \/ StatsFail \/ SendsTotals \/ SendsRates
  \/ PollReadable \/ MessageRead \/ Drained

NetNext ==
  \/ NetWorker \/ PopupTakes \/ PopupCloses \/ PopupTaskEnds
  \/ \E l \in Link : PointsAt(l) \/ AddrChanges(l)
  \/ \E l \in Link, s \in {"absent", "down", "up"} : LinkChanges(l, s)

NetSpec == NetInit /\ [][NetNext]_netVars

NetType ==
  /\ links \in [Link -> {"absent", "down", "up"}] /\ addrs \subseteq Link
  /\ linkCache \in [Link -> {"absent", "down", "up"}] /\ addrCache \subseteq Link
  /\ Len(mcast) <= McastCap /\ Len(netQueue) <= NetQueueCap
  /\ popupAt \in {"open", "dead", "dropped"} /\ hovered \in Link \union {NoLink}

(* net_info.rs:697-720: the socket joins before the dumps and the messages   *)
(* are replayed over them, older ones included; once all are read the popup  *)
(* shows the kernel's interfaces, unless the socket overflowed.             *)
NetSettles ==
  (/\ netPc \in {"poll", "stats", "totals", "rates"} /\ popupAt = "open" /\ ~netLost
   /\ mcast = <<>> /\ netQueue = <<>>) => listed = Merge(links, addrs)

(* network_popup.rs:66-73: as long as an interface is listed, one of those   *)
(* listed is selected, whichever come and go.                               *)
SelectedListed == listed # {} => selected \in Ifaces(listed)

(* net_info.rs:687 "The thread terminates when the receiver end of tx is     *)
(* dropped": every pass of the pointer starts a worker, and once its popup   *)
(* is closed that worker ends.                                              *)
WorkerEnds == (popupAt = "dead") ~> (netPc = "gone")
=============================================================================
