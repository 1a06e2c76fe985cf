---------------------------- MODULE ToplevelFeed ----------------------------
(***************************************************************************)
(* How an open window reaches the launcher's list.                         *)
(*                                                                         *)
(*   compositor --wire--> zwindows thread --bounded channel--> zofi-windows *)
(*   thread --items--> launcher, woken through two one-slot pulse channels  *)
(*                                                                         *)
(* crates/zwindows/src/client.rs and registry.rs (the zwindows thread),    *)
(* crates/zofi/src/sources/windows.rs (the consumer thread),               *)
(* union.rs (the pulse forwarder) and launcher.rs (wire_pulse).            *)
(*                                                                         *)
(* The rows are a set here: their order only matters to who indexes them.  *)
(***************************************************************************)
EXTENDS Naturals, Sequences

CONSTANTS
  Id,        \* handle ids; the client never destroys a handle, so none recurs
  Str,       \* app ids and titles
  None,      \* Option::None
  Cap,       \* capacity of the event channel
  OpenAs,    \* the fields a window can open with
  States,    \* the <<activated, minimized>> a window can change to
  MayFail,   \* whether the Wayland session can end while the launcher runs
  MaxWire    \* bound on undispatched protocol events when one is added

Toplevel == [app : Str \cup {None}, title : Str \cup {None},
             activated : BOOLEAN, minimized : BOOLEAN]

ASSUME FeedAssumption ==
  /\ None \notin Str \cup Id /\ "" \notin Str
  /\ OpenAs \subseteq Toplevel /\ States \subseteq BOOLEAN \X BOOLEAN
  /\ Cap \in Nat \ {0} /\ MaxWire \in Nat /\ MayFail \in BOOLEAN

VARIABLES
  \* compositor
  open,         \* the open windows: id -> their true fields
  closed,       \* the ids whose window is gone
  wire,         \* protocol events not yet dispatched
  \* zwindows thread
  alive,        \* whether run() is still dispatching
  registry,     \* Registry::inner
  handles,      \* the ids of Client::handles
  out,          \* the event send_blocking is blocked on, at most one
  \* channel
  chan,
  \* zofi-windows thread
  cpc, items, last_active,
  \* union forwarder and launcher
  child_pulse, fpc, merged_pulse, lpc,
  fresh         \* whether the launcher has filtered the rows as they are

compVars  == <<open, closed, wire>>
zwinVars  == <<alive, registry, handles, out>>
consVars  == <<cpc, items, last_active>>
pulseVars == <<child_pulse, fpc, merged_pulse, lpc, fresh>>
vars == <<compVars, zwinVars, chan, consVars, pulseVars>>

Entry == [tl : Toplevel, published : BOOLEAN]
Row == [id : Id, app : Str \cup {""}, title : Str \cup {""}, activated : BOOLEAN]

ToplevelEvent ==
  [kind : {"added", "updated"}, id : Id, tl : Toplevel]
    \cup [kind : {"removed"}, id : Id]

WireEvent ==
  [t : {"toplevel", "closed"}, id : Id]
    \cup [t : {"app_id", "title"}, id : Id, str : Str]
    \cup [t : {"state"}, id : Id, activated : BOOLEAN, minimized : BOOLEAN]

TypeOK ==
  /\ DOMAIN open \subseteq Id /\ \A i \in DOMAIN open : open[i] \in Toplevel
  /\ closed \subseteq Id /\ closed \cap DOMAIN open = {}
  /\ wire \in Seq(WireEvent)
  /\ alive \in BOOLEAN
  /\ DOMAIN registry \subseteq Id /\ \A i \in DOMAIN registry : registry[i] \in Entry
  /\ handles \subseteq Id
  /\ out \in Seq(ToplevelEvent) /\ Len(out) <= 1
  /\ chan \in Seq(ToplevelEvent) /\ Len(chan) <= Cap
  /\ cpc \in {"recv", "pulse"}
  /\ items \subseteq Row
  /\ last_active \in Id \cup {None}
  /\ child_pulse \in 0..1 /\ merged_pulse \in 0..1
  /\ fpc \in {"recv", "send"} /\ lpc \in {"wait", "refilter"}
  /\ fresh \in BOOLEAN

Init ==
  /\ open = [i \in {} |-> {}] /\ closed = {} /\ wire = <<>>
  /\ alive = TRUE /\ registry = [i \in {} |-> {}] /\ handles = {} /\ out = <<>>
  /\ chan = <<>>
  /\ cpc = "recv" /\ items = {} /\ last_active = None
  /\ child_pulse = 0 /\ fpc = "recv" /\ merged_pulse = 0 /\ lpc = "wait"
  /\ fresh = TRUE

-----------------------------------------------------------------------------
(* External: the compositor.  A new handle is followed by its title and    *)
(* app id, if set, and its state; later changes are sent one by one.       *)

Quiet == Len(wire) < MaxWire

StrEvent(t, i, s) == IF s = None THEN <<>> ELSE <<[t |-> t, id |-> i, str |-> s]>>

StateEvent(i, a, m) ==
  <<[t |-> "state", id |-> i, activated |-> a, minimized |-> m]>>

OpenWindow(i, tl) ==
  /\ Quiet /\ i \notin DOMAIN open \cup closed
  /\ open' = [j \in DOMAIN open \cup {i} |-> IF j = i THEN tl ELSE open[j]]
  /\ wire' = wire \o <<[t |-> "toplevel", id |-> i]>>
                  \o StrEvent("title", i, tl.title) \o StrEvent("app_id", i, tl.app)
                  \o StateEvent(i, tl.activated, tl.minimized)
  /\ UNCHANGED <<closed, zwinVars, chan, consVars, pulseVars>>

SetTitle(i, s) ==
  /\ Quiet /\ i \in DOMAIN open
  /\ open' = [open EXCEPT ![i].title = s]
  /\ wire' = wire \o StrEvent("title", i, s)
  /\ UNCHANGED <<closed, zwinVars, chan, consVars, pulseVars>>

SetAppId(i, s) ==
  /\ Quiet /\ i \in DOMAIN open
  /\ open' = [open EXCEPT ![i].app = s]
  /\ wire' = wire \o StrEvent("app_id", i, s)
  /\ UNCHANGED <<closed, zwinVars, chan, consVars, pulseVars>>

SetState(i, a, m) ==
  /\ Quiet /\ i \in DOMAIN open
  /\ open' = [open EXCEPT ![i].activated = a, ![i].minimized = m]
  /\ wire' = wire \o StateEvent(i, a, m)
  /\ UNCHANGED <<closed, zwinVars, chan, consVars, pulseVars>>

CloseWindow(i) ==
  /\ Quiet /\ i \in DOMAIN open
  /\ open' = [j \in DOMAIN open \ {i} |-> open[j]]
  /\ closed' = closed \cup {i}
  /\ wire' = Append(wire, [t |-> "closed", id |-> i])
  /\ UNCHANGED <<zwinVars, chan, consVars, pulseVars>>

Compositor ==
  \E i \in Id :
    \/ \E tl \in OpenAs : OpenWindow(i, tl)
    \/ \E s \in Str : SetTitle(i, s) \/ SetAppId(i, s)
    \/ \E st \in States : SetState(i, st[1], st[2])
    \/ CloseWindow(i)

-----------------------------------------------------------------------------
(* The zwindows thread.  One protocol event is dispatched at a time, and   *)
(* none while send_blocking waits for room in the channel.                 *)

Dispatch(t) == alive /\ out = <<>> /\ wire # <<>> /\ Head(wire).t = t /\ wire' = Tail(wire)

(* Registry::publish, with emit: Added the first time, Updated after.      *)
Publish(i, tl) ==
  /\ registry' = [registry EXCEPT ![i] = [tl |-> tl, published |-> TRUE]]
  /\ out' = <<[kind |-> IF registry[i].published THEN "updated" ELSE "added",
               id |-> i, tl |-> tl]>>

Ignore == UNCHANGED <<registry, out>>

Blank == [app |-> None, title |-> None, activated |-> FALSE, minimized |-> FALSE]

OnToplevel ==
  /\ Dispatch("toplevel")
  /\ LET i == Head(wire).id IN
       /\ registry' = [j \in DOMAIN registry \cup {i} |->
                         IF j \in DOMAIN registry THEN registry[j]
                         ELSE [tl |-> Blank, published |-> FALSE]]
       /\ handles' = handles \cup {i}
  /\ UNCHANGED <<open, closed, alive, out, chan, consVars, pulseVars>>

OnAppId ==
  /\ Dispatch("app_id")
  /\ LET e == Head(wire) IN
       IF e.id \in DOMAIN registry /\ registry[e.id].tl.app # e.str
         THEN Publish(e.id, [registry[e.id].tl EXCEPT !.app = e.str])
         ELSE Ignore
  /\ UNCHANGED <<open, closed, alive, handles, chan, consVars, pulseVars>>

(* Mutant: a title that comes before the first state is not kept.          *)
OnTitlePublished ==
  /\ Dispatch("title")
  /\ LET e == Head(wire) IN
       IF /\ e.id \in DOMAIN registry /\ registry[e.id].published
          /\ registry[e.id].tl.title # e.str
         THEN Publish(e.id, [registry[e.id].tl EXCEPT !.title = e.str])
         ELSE Ignore
  /\ UNCHANGED <<open, closed, alive, handles, chan, consVars, pulseVars>>

OnTitle ==
  /\ Dispatch("title")
  /\ LET e == Head(wire) IN
       IF e.id \in DOMAIN registry /\ registry[e.id].tl.title # e.str
         THEN Publish(e.id, [registry[e.id].tl EXCEPT !.title = e.str])
         ELSE Ignore
  /\ UNCHANGED <<open, closed, alive, handles, chan, consVars, pulseVars>>

(* Mutant: the state is compared before the entry was ever published.      *)
OnStateUnpublished ==
  /\ Dispatch("state")
  /\ LET e == Head(wire) IN
       IF /\ e.id \in DOMAIN registry
          /\ \/ registry[e.id].tl.activated # e.activated
             \/ registry[e.id].tl.minimized # e.minimized
         THEN Publish(e.id, [registry[e.id].tl EXCEPT !.activated = e.activated,
                                                      !.minimized = e.minimized])
         ELSE Ignore
  /\ UNCHANGED <<open, closed, alive, handles, chan, consVars, pulseVars>>

(* The first state publishes the entry even if it changes nothing.         *)
OnState ==
  /\ Dispatch("state")
  /\ LET e == Head(wire) IN
       IF /\ e.id \in DOMAIN registry
          /\ \/ ~registry[e.id].published
             \/ registry[e.id].tl.activated # e.activated
             \/ registry[e.id].tl.minimized # e.minimized
         THEN Publish(e.id, [registry[e.id].tl EXCEPT !.activated = e.activated,
                                                      !.minimized = e.minimized])
         ELSE Ignore
  /\ UNCHANGED <<open, closed, alive, handles, chan, consVars, pulseVars>>

(* Mutant: Removed is only sent for an entry that was never published.     *)
OnClosedSilent ==
  /\ Dispatch("closed")
  /\ LET i == Head(wire).id IN
       /\ registry' = [j \in DOMAIN registry \ {i} |-> registry[j]]
       /\ out' = IF i \in DOMAIN registry /\ ~registry[i].published
                   THEN <<[kind |-> "removed", id |-> i]>> ELSE <<>>
       /\ handles' = handles \ {i}
  /\ UNCHANGED <<open, closed, alive, chan, consVars, pulseVars>>

(* Mutant: the registry keeps the entry of a closed handle.                *)
OnClosedKeepsEntry ==
  /\ Dispatch("closed")
  /\ LET i == Head(wire).id IN
       /\ out' = IF i \in DOMAIN registry
                   THEN <<[kind |-> "removed", id |-> i]>> ELSE <<>>
       /\ handles' = handles \ {i}
  /\ UNCHANGED <<open, closed, alive, registry, chan, consVars, pulseVars>>

(* Removed goes out after the entry and the handle are gone.               *)
OnClosed ==
  /\ Dispatch("closed")
  /\ LET i == Head(wire).id IN
       /\ registry' = [j \in DOMAIN registry \ {i} |-> registry[j]]
       /\ out' = IF i \in DOMAIN registry
                   THEN <<[kind |-> "removed", id |-> i]>> ELSE <<>>
       /\ handles' = handles \ {i}
  /\ UNCHANGED <<open, closed, alive, chan, consVars, pulseVars>>

Handlers == OnToplevel \/ OnAppId \/ OnTitle \/ OnState \/ OnClosed

(* Mutant: try_send, which drops the event when the channel is full.       *)
TrySend ==
  /\ out # <<>>
  /\ chan' = IF Len(chan) < Cap THEN chan \o out ELSE chan
  /\ out' = <<>>
  /\ UNCHANGED <<compVars, alive, registry, handles, consVars, pulseVars>>

(* Mutant: an unbounded channel.                                           *)
SendUnbounded ==
  /\ out # <<>>
  /\ chan' = chan \o out
  /\ out' = <<>>
  /\ UNCHANGED <<compVars, alive, registry, handles, consVars, pulseVars>>

(* send_blocking: the event goes out once there is room.                   *)
SendBlocking ==
  /\ out # <<>> /\ Len(chan) < Cap
  /\ chan' = chan \o out
  /\ out' = <<>>
  /\ UNCHANGED <<compVars, alive, registry, handles, consVars, pulseVars>>

(* blocking_dispatch fails: run() returns and drops the sender.            *)
SessionError ==
  /\ MayFail /\ alive /\ out = <<>>
  /\ alive' = FALSE
  /\ UNCHANGED <<compVars, registry, handles, out, chan, consVars, pulseVars>>

-----------------------------------------------------------------------------
(* The zofi-windows thread: recv_blocking, apply_event, try_send a pulse.  *)

OrDefault(s) == IF s = None THEN "" ELSE s

RowOf(i, tl) == [id |-> i, app |-> OrDefault(tl.app), title |-> OrDefault(tl.title),
                 activated |-> tl.activated]

Upsert(i, tl) == {r \in items : r.id # i} \cup {RowOf(i, tl)}

(* Mutant: last_active is left alone.                                      *)
RemovedKeepsActive(i) ==
  /\ items' = {r \in items : r.id # i}
  /\ UNCHANGED last_active

ApplyRemoved(i) ==
  /\ items' = {r \in items : r.id # i}
  /\ last_active' = IF last_active = i THEN None ELSE last_active

(* Mutant: only rows that come or change are worth a pulse.                *)
ApplyEventQuiet ==
  /\ cpc = "recv" /\ chan # <<>>
  /\ LET e == Head(chan) IN
       IF e.kind = "removed"
         THEN ApplyRemoved(e.id) /\ cpc' = "recv"
         ELSE /\ items' = Upsert(e.id, e.tl)
              /\ last_active' = IF e.tl.activated THEN e.id ELSE last_active
              /\ cpc' = "pulse"
  /\ chan' = Tail(chan)
  /\ fresh' = FALSE
  /\ UNCHANGED <<compVars, zwinVars, child_pulse, fpc, merged_pulse, lpc>>

ApplyEvent ==
  /\ cpc = "recv" /\ chan # <<>>
  /\ LET e == Head(chan) IN
       IF e.kind = "removed"
         THEN ApplyRemoved(e.id)
         ELSE /\ items' = Upsert(e.id, e.tl)
              /\ last_active' = IF e.tl.activated THEN e.id ELSE last_active
  /\ chan' = Tail(chan)
  /\ cpc' = "pulse" /\ fresh' = FALSE
  /\ UNCHANGED <<compVars, zwinVars, child_pulse, fpc, merged_pulse, lpc>>

SendPulse ==
  /\ cpc = "pulse"
  /\ child_pulse' = 1          \* try_send into bounded(1): full is the same
  /\ cpc' = "recv"
  /\ UNCHANGED <<compVars, zwinVars, chan, items, last_active, fpc, merged_pulse,
                 lpc, fresh>>

-----------------------------------------------------------------------------
(* UnionSource::take_pulse forwards each child's pulses on a thread.       *)

ForwarderRecv ==
  /\ fpc = "recv" /\ child_pulse = 1
  /\ child_pulse' = 0 /\ fpc' = "send"
  /\ UNCHANGED <<compVars, zwinVars, chan, consVars, merged_pulse, lpc, fresh>>

ForwarderSend ==
  /\ fpc = "send"
  /\ merged_pulse' = 1 /\ fpc' = "recv"
  /\ UNCHANGED <<compVars, zwinVars, chan, consVars, child_pulse, lpc, fresh>>

(* wire_pulse: the task wakes, then updates the launcher, which refilters. *)
PulseRecv ==
  /\ lpc = "wait" /\ merged_pulse = 1
  /\ merged_pulse' = 0 /\ lpc' = "refilter"
  /\ UNCHANGED <<compVars, zwinVars, chan, consVars, child_pulse, fpc, fresh>>

Refilter ==
  /\ lpc = "refilter"
  /\ fresh' = TRUE /\ lpc' = "wait"
  /\ UNCHANGED <<compVars, zwinVars, chan, consVars, child_pulse, fpc, merged_pulse>>

(* Any keystroke or tab switch filters too.                                *)
UserFilter ==
  /\ ~fresh
  /\ fresh' = TRUE
  /\ UNCHANGED <<compVars, zwinVars, chan, consVars, child_pulse, fpc,
                 merged_pulse, lpc>>

Feed == Handlers \/ SendBlocking \/ ApplyEvent \/ SendPulse
          \/ ForwarderRecv \/ ForwarderSend \/ PulseRecv \/ Refilter

Next == Compositor \/ Feed \/ SessionError \/ UserFilter

Spec == Init /\ [][Next]_vars

(* Each thread runs when it can, and so does the launcher's executor.      *)
Fairness ==
  /\ WF_vars(Handlers) /\ WF_vars(SendBlocking)
  /\ WF_vars(ApplyEvent) /\ WF_vars(SendPulse)
  /\ WF_vars(ForwarderRecv) /\ WF_vars(ForwarderSend)
  /\ WF_vars(PulseRecv) /\ WF_vars(Refilter)

FairSpec == Spec /\ Fairness

-----------------------------------------------------------------------------
Queue == chan \o out       \* what the consumer has yet to apply, in order

Shown(i) == \E r \in items : r.id = i
Published(i) == i \in DOMAIN registry /\ registry[i].published

(* Nothing later in the queue is about the window of its k-th event.       *)
LastAbout(k) == \A j \in DOMAIN Queue : Queue[j].id = Queue[k].id => j <= k

Queued(i) == \E k \in DOMAIN Queue : Queue[k].id = i

(* The list and the registry never drift apart (client.rs:88, "dropping    *)
(* events would desynchronize consumer state from the compositor"): the    *)
(* last queued event about a window carries its registry entry or its      *)
(* removal, and a window with no queued event has the row of its published *)
(* entry, or no row.                                                       *)
TailAgrees ==
  \A k \in DOMAIN Queue :
    LastAbout(k) =>
      LET e == Queue[k] IN
        IF e.kind = "removed" THEN e.id \notin DOMAIN registry
                              ELSE Published(e.id) /\ registry[e.id].tl = e.tl

RowsAgree ==
  \A i \in Id : ~Queued(i) =>
    /\ Shown(i) <=> Published(i)
    /\ \A r \in items : r.id = i => r = RowOf(i, registry[i].tl)

(* One row per window, whatever mix of events is on its way.               *)
RowsUnique == \A r, q \in items : r.id = q.id => r = q

(* List, queued events and registry always agree.                          *)
FeedConsistent == TailAgrees /\ RowsAgree /\ RowsUnique

(* A window of the list can be activated, or its removal is on the way:    *)
(* handles are dropped before Removed is queued (client.rs:228), never     *)
(* while the row would stay.                                               *)
RowHasHandle ==
  \A r \in items : r.id \in handles
    \/ \E k \in DOMAIN Queue : Queue[k].id = r.id /\ Queue[k].kind = "removed"

(* The sticky "active" pointer never outlives the row it points to, though *)
(* late Updated events of other windows arrive around the removal.         *)
LastActiveShown == last_active # None => Shown(last_active)

(* No lost wakeup: a list the launcher has not filtered yet always has a   *)
(* pulse on its way, however the one-slot channels coalesce.               *)
NoLostPulse ==
  ~fresh => \/ cpc = "pulse" \/ child_pulse = 1
            \/ fpc = "send" \/ merged_pulse = 1 \/ lpc = "refilter"

(* What the launcher lists is exactly the open windows, as they are.       *)
UpToDate == fresh /\ items = {RowOf(i, open[i]) : i \in DOMAIN open}

(* Whenever every thread waits and nothing is on its way between them, the *)
(* launcher is up to date: nothing the compositor said of a window, before *)
(* or after its first state, was dropped, merged away or left unfiltered.  *)
Idle ==
  /\ wire = <<>> /\ Queue = <<>>
  /\ cpc = "recv" /\ child_pulse = 0 /\ fpc = "recv" /\ merged_pulse = 0
  /\ lpc = "wait"

IdleUpToDate == Idle => UpToDate

(* When the compositor has nothing more to say, the launcher ends up with  *)
(* exactly the open windows, their fields as they are.                     *)
Converges == (<>[][~Compositor]_vars /\ []alive) => <>[]UpToDate

(* A window is shown at most once: WindowLifecycle, where a window counts  *)
(* as gone once its removal has been applied.                              *)
Phase ==
  [i \in Id |->
     IF Shown(i) THEN "shown"
     ELSE IF i \in closed /\ i \notin DOMAIN registry /\ ~Queued(i)
             /\ ~\E k \in DOMAIN wire : wire[k].id = i
       THEN "gone" ELSE "unseen"]

Life == INSTANCE WindowLifecycle WITH phase <- Phase

ShownOnce == Life!LifeSpec
=============================================================================
