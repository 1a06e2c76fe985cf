---------------------------- MODULE ClipDaemon ----------------------------
(***************************************************************************)
(* The clipboard daemon (crates/zofi-clipd/src/daemon.rs): one thread that *)
(* dispatches Wayland events, drains the pending selection offer, answers  *)
(* IPC requests and serves the selection it holds.  The compositor, the    *)
(* applications and `zofi clipd import` run beside it.                     *)
(*                                                                         *)
(* A selection is named by its source; the offer the compositor announces  *)
(* for it has the same name, since each set_selection makes one offer.     *)
(***************************************************************************)
EXTENDS ClipStore, Sequences

CONSTANTS
  Source,      \* names of the selections that can be made
  Copy,        \* what an application can offer: functions mime -> payload
  Image, Text, \* the mimes classify_mime takes for images and for texts
  PickOrder,   \* the mimes pick_mime accepts, the most wanted first
  SELF_MIME,   \* advertised by the daemon's own sources
  Empty,       \* a payload of no bytes: also what a dead offer yields
  TooBig,      \* a payload above TEXT_CAP_BYTES or IMAGE_CAP_BYTES
  None,
  DbMayFail,   \* whether a database call may return an error
  MaxEvents,   \* bound on unread events when an application adds one
  MaxIpc       \* bound on waiting IPC connections

Payload == Bytes \cup {Empty, TooBig}

ASSUME DaemonAssumption ==
  /\ SELF_MIME \notin Mime
  /\ None \notin Source
  /\ Image \subseteq Mime /\ Text \subseteq Mime /\ Image \cap Text = {}
  /\ PickOrder \in Seq(Image \cup Text)
  /\ Text # {} => \E i \in DOMAIN PickOrder : PickOrder[i] \in Text
  /\ Empty \notin Bytes /\ TooBig \notin Bytes
  /\ None \notin Bytes /\ None # Empty /\ None # TooBig
  /\ \A c \in Copy : DOMAIN c \subseteq Mime /\ \A m \in DOMAIN c : c[m] \in Payload
  /\ DbMayFail \in BOOLEAN
  /\ MaxEvents \in Nat /\ MaxIpc \in Nat

VARIABLES
  \* compositor and applications
  data,         \* per source made so far, what it offers: mime -> payload
  sel,          \* the source that owns the clipboard, or None
  reqs,         \* requests of the daemon the compositor has not handled
  pipe,         \* what the last receive request will read until EOF
  events,       \* events for the daemon, in order
  nread,        \* how many of them sit in its event queue, read off the socket
  ipc,          \* accepted or waiting IPC connections, in order
  \* State and the locals of run() and process_offer()
  pc,           \* where the loop stands
  offer_mimes, pending,
  held_source, held_mime, held_content,
  job,          \* the offer process_offer is draining
  done,         \* whether the roundtrip's callback has fired
  \* history, for the properties
  served        \* the last Send the daemon answered

wlVars     == <<data, sel, reqs, pipe, events, nread>>
heldVars   == <<held_source, held_mime, held_content>>
daemonVars == <<pc, offer_mimes, pending, heldVars, job, done, served>>
vars       == <<storeVars, wlVars, ipc, daemonVars>>

Kind(m) == IF m \in Image THEN "image" ELSE IF m \in Text THEN "text" ELSE "none"

Pickable(ms) == \E i \in DOMAIN PickOrder : PickOrder[i] \in ms

(* pick_mime: the first mime of the preference order that is advertised.   *)
Pick(ms) ==
  PickOrder[CHOOSE i \in DOMAIN PickOrder :
              /\ PickOrder[i] \in ms
              /\ \A j \in DOMAIN PickOrder : PickOrder[j] \in ms => i <= j]

(* drain_extra_mimes and worth_keeping: the other mimes of the same kind.  *)
Extras(ms) == {m \in ms \ {Pick(ms)} : Kind(m) = Kind(Pick(ms))}

NoJob == [src |-> None, primary |-> None, want |-> None, todo |-> {}, got |-> {}]

Requests ==
  [op : {"activate"}, uuid : Uuid, mime : Mime \cup {None}]
    \cup [op : {"set"}, mime : Mime, bytes : Bytes \cup {Empty}]

Event ==
  [t : {"offer", "selection", "cancelled"}, src : Source]
    \cup [t : {"send"}, src : Source, mime : Mime \cup {SELF_MIME}]
    \cup [t : {"ignored", "done"}]

Req ==
  [t : {"set", "destroy"}, src : Source]
    \cup [t : {"receive"}, src : Source, mime : Mime]

Own == {s \in DOMAIN data : SELF_MIME \in DOMAIN data[s]}

TypeOK ==
  /\ StoreTypeOK
  /\ DOMAIN data \subseteq Source
  /\ \A s \in DOMAIN data :
       /\ DOMAIN data[s] \subseteq Mime \cup {SELF_MIME}
       /\ \A m \in DOMAIN data[s] : data[s][m] \in Payload
  /\ sel \in DOMAIN data \cup {None}
  /\ reqs \in Seq(Req) /\ events \in Seq(Event) /\ ipc \in Seq(Requests)
  /\ pipe \in Payload
  /\ nread \in 0..Len(events)
  /\ pc \in {"dispatch", "roundtrip", "record", "finish", "poll", "ipc"}
  /\ DOMAIN offer_mimes \subseteq DOMAIN data
  /\ \A s \in DOMAIN offer_mimes : offer_mimes[s] \subseteq Mime \cup {SELF_MIME}
  /\ pending \in DOMAIN data \cup {None}
  /\ held_source \in DOMAIN data \cup {None}
  /\ held_mime \in Mime \cup {None}
  /\ held_content \in Bytes \cup {Empty}
  /\ job \in [src : DOMAIN data \cup {None}, primary : Mime \cup {None},
              want : Mime \cup {None}, todo : SUBSET Mime, got : SUBSET Part]
  /\ done \in BOOLEAN
  /\ served = None \/ served \in [src : DOMAIN data, mime : Mime \cup {SELF_MIME},
                                  bytes : Bytes \cup {Empty, None}]

Init ==
  /\ StoreInit
  /\ data = [s \in {} |-> {}] /\ sel = None
  /\ reqs = <<>> /\ pipe = Empty /\ events = <<>> /\ nread = 0
  /\ ipc = <<>>
  /\ pc = "dispatch"
  /\ offer_mimes = [s \in {} |-> {}]
  /\ pending = None
  /\ held_source = None /\ held_mime = None /\ held_content = Empty
  /\ job = NoJob /\ done = FALSE
  /\ served = None

-----------------------------------------------------------------------------
(* External: the compositor, the applications, the clients, the importer.  *)

Unused == Source \ DOMAIN data

(* Room for every waiting request to make a source (the bound on sources). *)
Spare == Cardinality(Unused) > Len(ipc)

NewSource(s, payload) ==
  data' = [x \in DOMAIN data \cup {s} |-> IF x = s THEN payload ELSE data[x]]

CancelOwner ==
  IF sel \in Own THEN <<[t |-> "cancelled", src |-> sel]>> ELSE <<>>

Announce(s) == <<[t |-> "offer", src |-> s], [t |-> "selection", src |-> s]>>

(* An application copies: the owner's source is cancelled, the new offer   *)
(* and its mimes are announced, then the selection event.                  *)
AppCopy(s, c) ==
  /\ Spare /\ Len(events) < MaxEvents
  /\ NewSource(s, c)
  /\ sel' = s
  /\ events' = events \o CancelOwner \o Announce(s)
  /\ UNCHANGED <<storeVars, reqs, pipe, nread, ipc, daemonVars>>

(* A primary selection: an offer is announced, and the event that follows  *)
(* is one the device handler has no arm for.                               *)
AppPrimary(s, c) ==
  /\ Spare /\ Len(events) < MaxEvents
  /\ NewSource(s, c)
  /\ events' = events \o <<[t |-> "offer", src |-> s], [t |-> "ignored"]>>
  /\ UNCHANGED <<storeVars, sel, reqs, pipe, nread, ipc, daemonVars>>

(* The application that owns the selection goes away: Selection{None}.     *)
AppClear ==
  /\ sel \in DOMAIN data \ Own /\ Len(events) < MaxEvents
  /\ sel' = None
  /\ events' = Append(events, [t |-> "ignored"])
  /\ UNCHANGED <<storeVars, data, reqs, pipe, nread, ipc, daemonVars>>

(* An application pastes a selection the daemon owns.                      *)
AppPaste(m) ==
  /\ sel \in Own /\ m \in DOMAIN data[sel] /\ Len(events) < MaxEvents
  /\ events' = Append(events, [t |-> "send", src |-> sel, mime |-> m])
  /\ UNCHANGED <<storeVars, data, sel, reqs, pipe, nread, ipc, daemonVars>>

(* Requests reach the compositor in order.  Receiving from an offer that   *)
(* is no longer the selection yields EOF at once; the sync that            *)
(* roundtrip() sends behind a receive comes back as "done".                *)
CompositorReceive ==
  /\ reqs # <<>> /\ Head(reqs).t = "receive"
  /\ LET r == Head(reqs) IN
       pipe' = IF sel = r.src /\ r.mime \in DOMAIN data[r.src]
                 THEN data[r.src][r.mime] ELSE Empty
  /\ events' = Append(events, [t |-> "done"])
  /\ reqs' = Tail(reqs)
  /\ UNCHANGED <<storeVars, data, sel, nread, ipc, daemonVars>>

CompositorSet ==
  /\ reqs # <<>> /\ Head(reqs).t = "set"
  /\ sel' = Head(reqs).src
  /\ events' = events \o CancelOwner \o Announce(Head(reqs).src)
  /\ reqs' = Tail(reqs)
  /\ UNCHANGED <<storeVars, data, pipe, nread, ipc, daemonVars>>

CompositorDestroy ==
  /\ reqs # <<>> /\ Head(reqs).t = "destroy"
  /\ IF sel = Head(reqs).src
       THEN sel' = None /\ events' = Append(events, [t |-> "ignored"])
       ELSE UNCHANGED <<sel, events>>
  /\ reqs' = Tail(reqs)
  /\ UNCHANGED <<storeVars, data, pipe, nread, ipc, daemonVars>>

(* A launcher connects and writes its request.  It names a uuid it saw     *)
(* listed at some time, so any uuid ever drawn.                            *)
ClientRequest(r) ==
  /\ Spare /\ Len(ipc) < MaxIpc
  /\ r.op = "activate" => r.uuid \in minted
  /\ ipc' = Append(ipc, r)
  /\ UNCHANGED <<storeVars, wlVars, daemonVars>>

(* clipd::import, in a process of its own: one record per entry, no prune. *)
ImportEntry(b, ts) ==
  /\ Text # {}
  /\ Cardinality(Uuid \ minted) > Cardinality(Source)
  /\ Record(Pick(Text), b, {}, ts)
  /\ UNCHANGED <<wlVars, ipc, daemonVars>>

Environment ==
  \/ \E s \in Unused, c \in Copy : AppCopy(s, c) \/ AppPrimary(s, c)
  \/ AppClear
  \/ \E m \in Mime \cup {SELF_MIME} : AppPaste(m)
  \/ CompositorReceive \/ CompositorSet \/ CompositorDestroy
  \/ \E r \in Requests : ClientRequest(r)
  \/ \E b \in Bytes, ts \in Time : ImportEntry(b, ts)

-----------------------------------------------------------------------------
(* The Dispatch handlers, for the first event of the queue.                *)

Dispatching == pc \in {"dispatch", "roundtrip"} /\ nread > 0

Consume == events' = Tail(events) /\ nread' = nread - 1

Handling(t) == Dispatching /\ Head(events).t = t /\ Consume

(* device DataOffer and the Offer events behind it.                        *)
OnOffer ==
  /\ Handling("offer")
  /\ LET s == Head(events).src IN
       offer_mimes' = [x \in DOMAIN offer_mimes \cup {s} |->
                         IF x = s THEN DOMAIN data[s] ELSE offer_mimes[x]]
  /\ UNCHANGED <<storeVars, data, sel, reqs, pipe, ipc, pc, pending, heldVars,
                 job, done, served>>

(* device Selection { Some }: the last one wins.                           *)
OnSelection ==
  /\ Handling("selection")
  /\ pending' = Head(events).src
  /\ UNCHANGED <<storeVars, data, sel, reqs, pipe, ipc, pc, offer_mimes,
                 heldVars, job, done, served>>

OnIgnored ==
  /\ Handling("ignored")
  /\ UNCHANGED <<storeVars, data, sel, reqs, pipe, ipc, daemonVars>>

OnDone ==
  /\ Handling("done")
  /\ done' = TRUE
  /\ UNCHANGED <<storeVars, data, sel, reqs, pipe, ipc, pc, offer_mimes,
                 pending, heldVars, job, served>>

(* Mutant: whichever source the Send is for.                               *)
OnSendAny ==
  /\ Handling("send")
  /\ LET e == Head(events) IN
       served' = [src |-> e.src, mime |-> e.mime,
                  bytes |-> IF e.mime = held_mime THEN held_content ELSE None]
  /\ UNCHANGED <<storeVars, data, sel, reqs, pipe, ipc, pc, offer_mimes,
                 pending, heldVars, job, done>>

(* source Send: answered only for the source now held; another mime than   *)
(* the held one gets its fd closed (None).                                 *)
OnSend ==
  /\ Handling("send")
  /\ LET e == Head(events) IN
       served' = IF held_source # e.src THEN served
                 ELSE [src |-> e.src, mime |-> e.mime,
                       bytes |-> IF e.mime = held_mime THEN held_content ELSE None]
  /\ UNCHANGED <<storeVars, data, sel, reqs, pipe, ipc, pc, offer_mimes,
                 pending, heldVars, job, done>>

(* Mutant: whichever source the Cancelled is for.                          *)
OnCancelledAny ==
  /\ Handling("cancelled")
  /\ held_source' = None /\ held_mime' = None /\ held_content' = Empty
  /\ UNCHANGED <<storeVars, data, sel, reqs, pipe, ipc, pc, offer_mimes, pending,
                 job, done, served>>

OnCancelled ==
  /\ Handling("cancelled")
  /\ IF held_source = Head(events).src
       THEN /\ held_source' = None /\ held_mime' = None /\ held_content' = Empty
            /\ reqs' = Append(reqs, [t |-> "destroy", src |-> held_source])
       ELSE UNCHANGED <<heldVars, reqs>>
  /\ UNCHANGED <<storeVars, data, sel, pipe, ipc, pc, offer_mimes, pending,
                 job, done, served>>

Handlers == OnOffer \/ OnSelection \/ OnIgnored \/ OnDone \/ OnSend \/ OnCancelled

-----------------------------------------------------------------------------
(* run(): the queue is dispatched, then the pending offer is taken.        *)

SendReceive(s, m) == reqs' = Append(reqs, [t |-> "receive", src |-> s, mime |-> m])

NothingPending ==
  /\ pc = "dispatch" /\ nread = 0 /\ pending = None
  /\ pc' = "poll"
  /\ UNCHANGED <<storeVars, wlVars, ipc, offer_mimes, pending, heldVars, job,
                 done, served>>

(* Mutant: SELF_MIME is not looked for.                                    *)
TakePendingEvenOwn ==
  /\ pc = "dispatch" /\ nread = 0 /\ pending # None
  /\ pending' = None
  /\ LET ms == IF pending \in DOMAIN offer_mimes THEN offer_mimes[pending] ELSE {}
     IN IF ~Pickable(ms)
          THEN /\ job' = [NoJob EXCEPT !.src = pending]
               /\ pc' = "finish"
               /\ UNCHANGED <<reqs, done>>
          ELSE /\ job' = [src |-> pending, primary |-> Pick(ms), want |-> Pick(ms),
                          todo |-> Extras(ms), got |-> {}]
               /\ SendReceive(pending, Pick(ms))
               /\ done' = FALSE
               /\ pc' = "roundtrip"
  /\ UNCHANGED <<storeVars, data, sel, pipe, events, nread, ipc, offer_mimes,
                 heldVars, served>>

(* process_offer up to the first receive: our own offers and those with    *)
(* nothing we store are skipped.                                           *)
TakePending ==
  /\ pc = "dispatch" /\ nread = 0 /\ pending # None
  /\ pending' = None
  /\ LET ms == IF pending \in DOMAIN offer_mimes THEN offer_mimes[pending] ELSE {}
     IN IF SELF_MIME \in ms \/ ~Pickable(ms)
          THEN /\ job' = [NoJob EXCEPT !.src = pending]
               /\ pc' = "finish"
               /\ UNCHANGED <<reqs, done>>
          ELSE /\ job' = [src |-> pending, primary |-> Pick(ms), want |-> Pick(ms),
                          todo |-> Extras(ms), got |-> {}]
               /\ SendReceive(pending, Pick(ms))
               /\ done' = FALSE
               /\ pc' = "roundtrip"
  /\ UNCHANGED <<storeVars, data, sel, pipe, events, nread, ipc, offer_mimes,
                 heldVars, served>>

(* roundtrip() reads the socket only once its queue is empty.              *)
RoundtripRead ==
  /\ pc = "roundtrip" /\ ~done /\ nread = 0
  /\ \E n \in 1..Len(events) : nread' = n
  /\ UNCHANGED <<storeVars, data, sel, reqs, pipe, events, ipc, daemonVars>>

(* Mutant: the roundtrip returns the moment its callback has fired.        *)
ReceivedEarly == pc = "roundtrip" /\ done

Received == pc = "roundtrip" /\ done /\ nread = 0

(* The primary content is empty or above the cap: the copy is dropped.     *)
PrimaryRejected ==
  /\ Received
  /\ job.want = job.primary /\ pipe \notin Bytes
  /\ pc' = "finish"
  /\ UNCHANGED <<storeVars, wlVars, ipc, offer_mimes, pending, heldVars, job,
                 done, served>>

(* Mutant: every content is filed under the primary mime.                  *)
DrainedAsPrimary ==
  job.got \cup {p \in {[mime |-> job.primary, bytes |-> pipe]} : pipe \in Bytes}

(* A mime is in; ask for the next extra.  A bad extra is skipped.          *)
Drained ==
  job.got \cup {p \in {[mime |-> job.want, bytes |-> pipe]} : pipe \in Bytes}

NextExtra(m) ==
  /\ Received
  /\ job.want = job.primary => pipe \in Bytes
  /\ job' = [job EXCEPT !.want = m, !.todo = @ \ {m}, !.got = Drained]
  /\ SendReceive(job.src, m)
  /\ done' = FALSE
  /\ UNCHANGED <<storeVars, data, sel, pipe, events, nread, ipc, pc,
                 offer_mimes, pending, heldVars, served>>

AllDrained ==
  /\ Received
  /\ job.want = job.primary => pipe \in Bytes
  /\ job.todo = {}
  /\ job' = [job EXCEPT !.got = Drained]
  /\ pc' = "record"
  /\ UNCHANGED <<storeVars, wlVars, ipc, offer_mimes, pending, heldVars, done,
                 served>>

(* Mutant: the two inserts are not one transaction.                        *)
RecordJobHalf(ts) ==
  /\ pc = "record"
  /\ \E p \in job.got, u \in Uuid \ minted :
       /\ p.mime = job.primary
       /\ items' = [v \in DOMAIN items \cup {u} |->
                      IF v = u
                        THEN [primary |-> job.primary, hash |-> p.bytes, used |-> ts]
                        ELSE items[v]]
       /\ minted' = minted \cup {u} /\ UNCHANGED rows
  /\ pc' = "finish"
  /\ UNCHANGED <<wlVars, ipc, offer_mimes, pending, heldVars, job, done, served>>

(* db.record; an error drops the copy.                                     *)
RecordJob(ts) ==
  /\ pc = "record"
  /\ \/ \E p \in job.got : /\ p.mime = job.primary
                           /\ Record(job.primary, p.bytes, job.got \ {p}, ts)
     \/ DbMayFail /\ UNCHANGED storeVars
  /\ pc' = "finish"
  /\ UNCHANGED <<wlVars, ipc, offer_mimes, pending, heldVars, job, done, served>>

(* Back in run(): forget and destroy the offer, prune, flush.              *)
FinishJob ==
  /\ pc = "finish"
  /\ offer_mimes' = [s \in DOMAIN offer_mimes \ {job.src} |-> offer_mimes[s]]
  /\ Prune \/ (DbMayFail /\ UNCHANGED storeVars)
  /\ job' = NoJob
  /\ pc' = "poll"
  /\ UNCHANGED <<wlVars, ipc, pending, heldVars, done, served>>

(* Mutant: the listener is looked at only when the socket was not ready.   *)
PollSocketFirst ==
  /\ pc = "poll"
  /\ events # <<>> \/ ipc # <<>>
  /\ IF events # <<>> THEN \E n \in 1..Len(events) : nread' = n
                      ELSE UNCHANGED nread
  /\ pc' = IF events # <<>> THEN "dispatch" ELSE "ipc"
  /\ UNCHANGED <<storeVars, data, sel, reqs, pipe, events, ipc, offer_mimes,
                 pending, heldVars, job, done, served>>

(* poll(): blocks until the socket or the listener is readable.            *)
Poll ==
  /\ pc = "poll"
  /\ events # <<>> \/ ipc # <<>>
  /\ IF events # <<>> THEN \E n \in 1..Len(events) : nread' = n
                      ELSE UNCHANGED nread
  /\ pc' = IF ipc # <<>> THEN "ipc" ELSE "dispatch"
  /\ UNCHANGED <<storeVars, data, sel, reqs, pipe, events, ipc, offer_mimes,
                 pending, heldVars, job, done, served>>

-----------------------------------------------------------------------------
(* handle_ipc: one connection of the accept loop.                          *)

(* hold_selection: drop the held source, make and select a new one.        *)
HoldSelection(s, m, b) ==
  /\ NewSource(s, [x \in {m, SELF_MIME} |-> IF x = m THEN b ELSE Empty])
  /\ reqs' = reqs \o (IF held_source = None THEN <<>>
                      ELSE <<[t |-> "destroy", src |-> held_source]>>)
                  \o <<[t |-> "set", src |-> s]>>
  /\ held_source' = s /\ held_mime' = m /\ held_content' = b

TakeRequest == pc = "ipc" /\ ipc # <<>> /\ ipc' = Tail(ipc)

IpcUnchanged == UNCHANGED <<sel, pipe, events, nread, pc, offer_mimes, pending,
                            job, done, served>>

Target(r) == IF r.mime = None THEN items[r.uuid].primary ELSE r.mime

(* Activate of an item that is gone or lacks the mime, SetSelection of an  *)
(* empty or unclassifiable payload, or a database error: Error, no change. *)
Refused(r) ==
  \/ DbMayFail
  \/ r.op = "activate" /\ (r.uuid \notin DOMAIN items
                           \/ ContentFor(r.uuid, Target(r)) = {})
  \/ r.op = "set" /\ (r.bytes = Empty \/ Kind(r.mime) = "none")

RequestRefused ==
  /\ TakeRequest
  /\ Refused(Head(ipc))
  /\ UNCHANGED <<storeVars, data, reqs, heldVars>>
  /\ IpcUnchanged

Activate(s, ts) ==
  /\ TakeRequest
  /\ LET r == Head(ipc) IN
       /\ r.op = "activate" /\ r.uuid \in DOMAIN items
       /\ Touch(r.uuid, ts)
       /\ \E b \in ContentFor(r.uuid, Target(r)) : HoldSelection(s, Target(r), b)
  /\ IpcUnchanged

SetSelection(s, ts) ==
  /\ TakeRequest
  /\ LET r == Head(ipc) IN
       /\ r.op = "set" /\ r.bytes # Empty /\ Kind(r.mime) # "none"
       /\ Record(r.mime, r.bytes, {}, ts)
       /\ HoldSelection(s, r.mime, r.bytes)
  /\ IpcUnchanged

(* accept() would block: back to the top of the loop.                      *)
IpcDrained ==
  /\ pc = "ipc" /\ ipc = <<>>
  /\ pc' = "dispatch"
  /\ UNCHANGED <<storeVars, wlVars, ipc, offer_mimes, pending, heldVars, job,
                 done, served>>

ServeIpc ==
  \/ RequestRefused
  \/ \E s \in Unused, ts \in Time : Activate(s, ts) \/ SetSelection(s, ts)
  \/ IpcDrained

ProcessOffer ==
  \/ TakePending \/ RoundtripRead \/ PrimaryRejected
  \/ \E m \in job.todo : NextExtra(m)
  \/ AllDrained
  \/ \E ts \in Time : RecordJob(ts)
  \/ FinishJob

Daemon == Handlers \/ NothingPending \/ ProcessOffer \/ Poll \/ ServeIpc

Next == Environment \/ Daemon

Spec == Init /\ [][Next]_vars

(* The daemon's thread runs whenever it can, the compositor answers.       *)
Fairness ==
  WF_vars(Daemon) /\ WF_vars(CompositorReceive \/ CompositorSet \/ CompositorDestroy)

FairSpec == Spec /\ Fairness

-----------------------------------------------------------------------------
Holding(s) == held_source = s

BeingDestroyed(s) ==
  \E i \in DOMAIN reqs : reqs[i].t = "destroy" /\ reqs[i].src = s

(* While a source of the daemon owns the clipboard the daemon can serve    *)
(* it: it is the one held, or a request already sent gives it up.  A late  *)
(* Cancelled for an older source, still queued when a newer one was made   *)
(* (daemon.rs:591), must not empty the newer one.                          *)
HeldServesSelection == sel \in Own => Holding(sel) \/ BeingDestroyed(sel)

(* What a paste gets is the content its source was created with, never     *)
(* that of the source that replaced it while the Send was queued; a mime   *)
(* the source does not store gets a closed pipe.                           *)
ServedRight ==
  served # None =>
    LET d == data[served.src] IN
      served.bytes = IF served.mime \in DOMAIN d \ {SELF_MIME}
                       THEN d[served.mime] ELSE None

(* The daemon never receives from an offer of its own, which would write   *)
(* held_content inside the roundtrip that waits to read it                 *)
(* (daemon.rs:332), even with the offer's mimes and its selection event    *)
(* split over several reads.                                               *)
NoSelfRead == pc = "roundtrip" => job.src \notin Own

(* All that process_offer gathers comes from the one offer it drains, each *)
(* content under its own mime, though newer selections are announced and   *)
(* replace that offer while it reads (its later reads then see EOF).       *)
JobFromOneOffer ==
  \A p \in job.got : p.mime \in DOMAIN data[job.src] /\ data[job.src][p.mime] = p.bytes

(* The loop never reaches prepare_read with undispatched events, which     *)
(* would end run() with PendingEvents (daemon.rs:170).                     *)
NoPendingEventsExit == pc = "poll" => nread = 0

(* A launcher that connects is reached by the accept loop, whatever offers *)
(* are drained first.                                                      *)
IpcReached == ipc # <<>> ~> pc = "ipc"

(* What the daemon is for (README.md:34, "remembers what you've copied"):  *)
(* a copy that stays the selection and has something to store ends up in   *)
(* the database.                                                           *)
Storable(s) ==
  /\ Pickable(DOMAIN data[s]) /\ SELF_MIME \notin DOMAIN data[s]
  /\ data[s][Pick(DOMAIN data[s])] \in Bytes

Stored(s) == \E u \in DOMAIN items : items[u].hash = data[s][Pick(DOMAIN data[s])]

CopyRemembered ==
  \A s \in Source :
    (sel = s /\ Storable(s)) ~> (sel # s \/ Stored(s))
=============================================================================
