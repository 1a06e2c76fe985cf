------------------------ MODULE ToplevelFeed_proofs ------------------------
(***************************************************************************)
(* ToplevelFeed for every set of windows, every set of strings and every   *)
(* channel capacity: no wakeup is lost; the rows, the sticky pointer, the  *)
(* handles and the registry agree in every reachable state; the feed       *)
(* implements WindowLifecycle, a window being shown at most once; and when *)
(* all is at rest, the launcher lists the windows as the compositor has    *)
(* them.                                                                   *)
(***************************************************************************)
EXTENDS ToplevelFeed, SequenceTheorems, TLAPS

(* The actions that leave the rows, the pointer, the pulses and `fresh`    *)
(* alone: the compositor and the zwindows thread.                          *)
Upstream == Compositor \/ Handlers \/ SendBlocking \/ SessionError

LEMMA UpstreamKeeps == Upstream => UNCHANGED <<consVars, pulseVars>>
BY DEF Upstream, Compositor, OpenWindow, SetTitle, SetAppId, SetState, CloseWindow,
       Handlers, OnToplevel, OnAppId, OnTitle, OnState, OnClosed, SendBlocking,
       SessionError

LEMMA NextCases ==
  ASSUME Next
  PROVE  \/ Upstream \/ ApplyEvent \/ SendPulse \/ ForwarderRecv \/ ForwarderSend
         \/ PulseRecv \/ Refilter \/ UserFilter
BY DEF Next, Feed, Upstream

-----------------------------------------------------------------------------
(* Between ApplyEvent and Refilter a pulse is always somewhere: each step  *)
(* that takes it from one place puts it in the next.                       *)
LEMMA NoLostPulseStep == NoLostPulse /\ [Next]_vars => NoLostPulse'
<1> SUFFICES ASSUME NoLostPulse, [Next]_vars PROVE NoLostPulse'
  OBVIOUS
<1>1. CASE Upstream
  BY <1>1, UpstreamKeeps DEF NoLostPulse, consVars, pulseVars
<1>2. CASE ApplyEvent
  BY <1>2 DEF ApplyEvent, NoLostPulse
<1>3. CASE SendPulse
  BY <1>3 DEF SendPulse, NoLostPulse
<1>4. CASE ForwarderRecv \/ ForwarderSend
  BY <1>4 DEF ForwarderRecv, ForwarderSend, NoLostPulse, consVars
<1>5. CASE PulseRecv
  BY <1>5 DEF PulseRecv, NoLostPulse, consVars
<1>6. CASE Refilter \/ UserFilter
  BY <1>6 DEF Refilter, UserFilter, NoLostPulse
<1>7. CASE UNCHANGED vars
  BY <1>7 DEF vars, consVars, pulseVars, NoLostPulse
<1> QED BY <1>1, <1>2, <1>3, <1>4, <1>5, <1>6, <1>7, NextCases

(* However the one-slot channels coalesce, a list the launcher has not     *)
(* filtered yet has a pulse on its way.                                    *)
THEOREM PulseNeverLost == Spec => []NoLostPulse
<1>1. Init => NoLostPulse
  BY DEF Init, NoLostPulse
<1> QED BY <1>1, NoLostPulseStep, PTL DEF Spec

-----------------------------------------------------------------------------
(* The rows and the pointer only change in ApplyEvent.                     *)
LEMMA OthersKeepRows ==
  ASSUME [Next]_vars, ~ApplyEvent PROVE UNCHANGED <<items, last_active>>
<1>1. CASE Upstream
  BY <1>1, UpstreamKeeps DEF consVars
<1>2. CASE SendPulse \/ ForwarderRecv \/ ForwarderSend \/ PulseRecv \/ Refilter \/ UserFilter
  BY <1>2 DEF SendPulse, ForwarderRecv, ForwarderSend, PulseRecv, Refilter, UserFilter,
              consVars
<1>3. CASE UNCHANGED vars
  BY <1>3 DEF vars, consVars
<1> QED BY <1>1, <1>2, <1>3, NextCases

(* What ApplyEvent does to the rows of another window, and of its own.     *)
LEMMA AppliedRows ==
  ASSUME ApplyEvent
  PROVE  LET e == Head(chan) IN
         /\ \A r : r.id # e.id => (r \in items' <=> r \in items)
         /\ e.kind = "removed" => \A r \in items' : r.id # e.id
         /\ e.kind # "removed" =>
              \A r : r.id = e.id => (r \in items' <=> r = RowOf(e.id, e.tl))
<1> DEFINE e == Head(chan)
<1>1. CASE e.kind = "removed"
  <2>1. items' = {r \in items : r.id # e.id}
    BY <1>1 DEF ApplyEvent, ApplyRemoved
  <2> QED BY <1>1, <2>1
<1>2. CASE e.kind # "removed"
  <2>1. items' = {r \in items : r.id # e.id} \cup {RowOf(e.id, e.tl)}
    BY <1>2 DEF ApplyEvent, Upsert
  <2>2. RowOf(e.id, e.tl).id = e.id
    BY DEF RowOf
  <2> QED BY <1>2, <2>1, <2>2
<1> QED BY <1>1, <1>2

LEMMA RowsUniqueStep == RowsUnique /\ [Next]_vars => RowsUnique'
<1> SUFFICES ASSUME RowsUnique, [Next]_vars PROVE RowsUnique'
  OBVIOUS
<1>1. CASE ~ApplyEvent
  BY <1>1, OthersKeepRows DEF RowsUnique
<1>2. CASE ApplyEvent
  BY <1>2, AppliedRows DEF RowsUnique
<1> QED BY <1>1, <1>2

(* One row per window, whatever mix of Added, Updated and Removed arrives. *)
THEOREM OneRowPerWindow == Spec => []RowsUnique
<1>1. Init => RowsUnique
  BY DEF Init, RowsUnique
<1> QED BY <1>1, RowsUniqueStep, PTL DEF Spec

LEMMA LastActiveStep == LastActiveShown /\ [Next]_vars => LastActiveShown'
<1> SUFFICES ASSUME LastActiveShown, [Next]_vars, last_active' # None
             PROVE  \E r \in items' : r.id = last_active'
  BY DEF LastActiveShown, Shown
<1>1. CASE ~ApplyEvent
  BY <1>1, OthersKeepRows DEF LastActiveShown, Shown
<1>2. CASE ApplyEvent
  <2> DEFINE e == Head(chan)
  <2>1. CASE e.kind = "removed"
    <3>1. last_active' = last_active /\ last_active # e.id
      BY <1>2, <2>1 DEF ApplyEvent, ApplyRemoved
    <3>2. PICK r \in items : r.id = last_active
      BY <3>1 DEF LastActiveShown, Shown
    <3> QED BY <1>2, <3>1, <3>2, AppliedRows
  <2>2. CASE e.kind # "removed"
    <3> DEFINE n == RowOf(e.id, e.tl)
    <3>1. n.id = e.id /\ n \in items'
      BY <1>2, <2>2, AppliedRows DEF RowOf
    <3>2. last_active' \in {e.id, last_active}
      BY <1>2, <2>2 DEF ApplyEvent
    <3>3. CASE last_active' = e.id
      BY <3>1, <3>3
    <3>4. CASE last_active' = last_active /\ last_active # e.id
      <4>1. PICK r \in items : r.id = last_active
        BY <3>4 DEF LastActiveShown, Shown
      <4> QED BY <1>2, <3>4, <4>1, AppliedRows
    <3> QED BY <3>2, <3>3, <3>4
  <2> QED BY <2>1, <2>2
<1> QED BY <1>1, <1>2

(* The sticky pointer is a row of the list, or none.                       *)
THEOREM PointerShown == Spec => []LastActiveShown
<1>1. Init => LastActiveShown
  BY DEF Init, LastActiveShown
<1> QED BY <1>1, LastActiveStep, PTL DEF Spec

-----------------------------------------------------------------------------
(* Type correctness, by the thread that acts.                              *)
LEMMA StateEventType ==
  ASSUME NEW i \in Id, NEW a \in BOOLEAN, NEW m \in BOOLEAN
  PROVE  StateEvent(i, a, m) \in Seq(WireEvent)
BY DEF StateEvent, WireEvent

LEMMA StrEventType ==
  ASSUME NEW t \in {"app_id", "title"}, NEW i \in Id, NEW s \in Str \cup {None}
  PROVE  StrEvent(t, i, s) \in Seq(WireEvent)
<1>1. CASE s = None
  BY <1>1 DEF StrEvent
<1>2. CASE s # None
  <2>1. [t |-> t, id |-> i, str |-> s] \in WireEvent
    BY <1>2 DEF WireEvent
  <2> QED BY <1>2, <2>1 DEF StrEvent
<1> QED BY <1>1, <1>2

LEMMA CompositorType == TypeOK /\ Compositor => TypeOK'
<1> SUFFICES ASSUME TypeOK, NEW i \in Id,
                    \/ \E tl \in OpenAs : OpenWindow(i, tl)
                    \/ \E s \in Str : SetTitle(i, s) \/ SetAppId(i, s)
                    \/ \E st \in States : SetState(i, st[1], st[2])
                    \/ CloseWindow(i)
             PROVE  TypeOK'
  BY DEF Compositor
<1>1. ASSUME NEW tl \in OpenAs, OpenWindow(i, tl) PROVE TypeOK'
  <2>1. tl \in Toplevel
    BY FeedAssumption
  <2>2. <<[t |-> "toplevel", id |-> i]>> \in Seq(WireEvent)
    BY DEF WireEvent
  <2>3. /\ StrEvent("title", i, tl.title) \in Seq(WireEvent)
        /\ StrEvent("app_id", i, tl.app) \in Seq(WireEvent)
    BY <2>1, StrEventType DEF Toplevel
  <2>4. StateEvent(i, tl.activated, tl.minimized) \in Seq(WireEvent)
    BY <2>1, StateEventType DEF Toplevel
  <2>5. wire' \in Seq(WireEvent)
    BY <1>1, <2>2, <2>3, <2>4, ConcatProperties DEF OpenWindow, TypeOK
  <2>6. /\ DOMAIN open' = DOMAIN open \cup {i} /\ \A j \in DOMAIN open' : open'[j] \in Toplevel
        /\ i \notin closed
    BY <1>1, <2>1 DEF OpenWindow, TypeOK
  <2> QED BY <1>1, <2>5, <2>6
          DEF OpenWindow, TypeOK, zwinVars, consVars, pulseVars
<1>2. ASSUME NEW s \in Str, SetTitle(i, s) PROVE TypeOK'
  <2>1. wire' \in Seq(WireEvent)
    BY <1>2, StrEventType, ConcatProperties DEF SetTitle, TypeOK
  <2>2. DOMAIN open' = DOMAIN open /\ \A j \in DOMAIN open : open'[j] \in Toplevel
    BY <1>2 DEF SetTitle, TypeOK, Toplevel
  <2> QED BY <1>2, <2>1, <2>2 DEF SetTitle, TypeOK, zwinVars, consVars, pulseVars
<1>3. ASSUME NEW s \in Str, SetAppId(i, s) PROVE TypeOK'
  <2>1. wire' \in Seq(WireEvent)
    BY <1>3, StrEventType, ConcatProperties DEF SetAppId, TypeOK
  <2>2. DOMAIN open' = DOMAIN open /\ \A j \in DOMAIN open : open'[j] \in Toplevel
    BY <1>3 DEF SetAppId, TypeOK, Toplevel
  <2> QED BY <1>3, <2>1, <2>2 DEF SetAppId, TypeOK, zwinVars, consVars, pulseVars
<1>4. ASSUME NEW st \in States, SetState(i, st[1], st[2]) PROVE TypeOK'
  <2>0. st[1] \in BOOLEAN /\ st[2] \in BOOLEAN
    BY FeedAssumption
  <2>1. wire' \in Seq(WireEvent)
    BY <1>4, <2>0, StateEventType, ConcatProperties DEF SetState, TypeOK
  <2>2. DOMAIN open' = DOMAIN open /\ \A j \in DOMAIN open : open'[j] \in Toplevel
    BY <1>4, <2>0 DEF SetState, TypeOK, Toplevel
  <2> QED BY <1>4, <2>1, <2>2 DEF SetState, TypeOK, zwinVars, consVars, pulseVars
<1>5. CASE CloseWindow(i)
  <2>1. wire' \in Seq(WireEvent)
    BY <1>5 DEF CloseWindow, TypeOK, WireEvent
  <2>2. DOMAIN open' = DOMAIN open \ {i} /\ \A j \in DOMAIN open' : open'[j] = open[j]
    BY <1>5 DEF CloseWindow
  <2> QED BY <1>5, <2>1, <2>2 DEF CloseWindow, TypeOK, zwinVars, consVars, pulseVars
<1> QED BY <1>1, <1>2, <1>3, <1>4, <1>5

(* What a dispatched event is, by its tag.                                 *)
LEMMA Dispatched ==
  ASSUME TypeOK, NEW t, Dispatch(t)
  PROVE  /\ Head(wire) \in WireEvent /\ Head(wire).t = t /\ Head(wire).id \in Id
         /\ t \in {"app_id", "title"} => Head(wire).str \in Str
         /\ t = "state" => Head(wire).activated \in BOOLEAN /\ Head(wire).minimized \in BOOLEAN
         /\ wire' \in Seq(WireEvent) /\ out = <<>>
<1>1. wire \in Seq(WireEvent) /\ wire # <<>>
  BY DEF TypeOK, Dispatch
<1>2. Head(wire) \in WireEvent /\ Tail(wire) \in Seq(WireEvent)
  BY <1>1
<1> QED BY <1>2 DEF Dispatch, WireEvent

(* The registry's toplevels, and what the three handlers make of them.      *)
LEMMA ToplevelUpdates ==
  ASSUME NEW r \in Toplevel
  PROVE  /\ \A x \in Str : /\ [r EXCEPT !.app = x] \in Toplevel
                            /\ [r EXCEPT !.title = x] \in Toplevel
         /\ \A a, m \in BOOLEAN :
              [r EXCEPT !.activated = a, !.minimized = m] \in Toplevel
BY DEF Toplevel

LEMMA RegistryHolds ==
  ASSUME TypeOK, NEW i \in DOMAIN registry
  PROVE  registry[i] \in Entry /\ registry[i].tl \in Toplevel
<1>1. registry[i] \in Entry
  BY DEF TypeOK
<1> QED BY <1>1 DEF Entry

LEMMA PublishType ==
  ASSUME TypeOK, NEW i \in DOMAIN registry, NEW tl \in Toplevel, Publish(i, tl)
  PROVE  /\ DOMAIN registry' = DOMAIN registry
         /\ \A j \in DOMAIN registry : registry'[j] \in Entry
         /\ out' \in Seq(ToplevelEvent) /\ Len(out') = 1
<1>1. i \in Id
  BY DEF TypeOK
<1> DEFINE e == [kind |-> IF registry[i].published THEN "updated" ELSE "added",
                 id |-> i, tl |-> tl]
<1>2. e \in ToplevelEvent
  BY <1>1 DEF ToplevelEvent
<1>3. out' = <<e>>
  BY DEF Publish
<1> QED BY <1>2, <1>3 DEF Publish, TypeOK, Entry

LEMMA HandlersType == TypeOK /\ Handlers => TypeOK'
<1> SUFFICES ASSUME TypeOK, Handlers PROVE TypeOK'
  OBVIOUS
<1> DEFINE e == Head(wire)
<1>1. CASE OnToplevel
  <2>1. e.id \in Id /\ wire' \in Seq(WireEvent)
    BY <1>1, Dispatched DEF OnToplevel
  <2>2. Blank \in Toplevel
    BY DEF Blank, Toplevel
  <2>3. /\ DOMAIN registry' = DOMAIN registry \cup {e.id}
        /\ \A j \in DOMAIN registry' : registry'[j] \in Entry
    BY <1>1, <2>2 DEF OnToplevel, TypeOK, Entry
  <2> QED BY <1>1, <2>1, <2>3 DEF OnToplevel, TypeOK, consVars, pulseVars
<1>2. CASE OnAppId
  <2>1. e.id \in Id /\ e.str \in Str /\ wire' \in Seq(WireEvent)
    BY <1>2, Dispatched DEF OnAppId
  <2>2. CASE e.id \in DOMAIN registry /\ registry[e.id].tl.app # e.str
    <3>1. [registry[e.id].tl EXCEPT !.app = e.str] \in Toplevel
      <4>1. registry[e.id].tl \in Toplevel
        BY <2>2, RegistryHolds
      <4> QED BY <2>1, <4>1, ToplevelUpdates
    <3>2. Publish(e.id, [registry[e.id].tl EXCEPT !.app = e.str])
      BY <1>2, <2>2 DEF OnAppId
    <3> HIDE DEF e
    <3>3. /\ DOMAIN registry' = DOMAIN registry
          /\ \A j \in DOMAIN registry : registry'[j] \in Entry
          /\ out' \in Seq(ToplevelEvent) /\ Len(out') = 1
      BY <2>2, <3>1, <3>2, PublishType
    <3> QED BY <1>2, <2>1, <3>3 DEF OnAppId, TypeOK, consVars, pulseVars
  <2>3. CASE ~(e.id \in DOMAIN registry /\ registry[e.id].tl.app # e.str)
    BY <1>2, <2>1, <2>3 DEF OnAppId, Ignore, TypeOK, consVars, pulseVars
  <2> QED BY <2>2, <2>3
<1>3. CASE OnTitle
  <2>1. e.id \in Id /\ e.str \in Str /\ wire' \in Seq(WireEvent)
    BY <1>3, Dispatched DEF OnTitle
  <2>2. CASE e.id \in DOMAIN registry /\ registry[e.id].tl.title # e.str
    <3>1. [registry[e.id].tl EXCEPT !.title = e.str] \in Toplevel
      <4>1. registry[e.id].tl \in Toplevel
        BY <2>2, RegistryHolds
      <4> QED BY <2>1, <4>1, ToplevelUpdates
    <3>2. Publish(e.id, [registry[e.id].tl EXCEPT !.title = e.str])
      BY <1>3, <2>2 DEF OnTitle
    <3> HIDE DEF e
    <3>3. /\ DOMAIN registry' = DOMAIN registry
          /\ \A j \in DOMAIN registry : registry'[j] \in Entry
          /\ out' \in Seq(ToplevelEvent) /\ Len(out') = 1
      BY <2>2, <3>1, <3>2, PublishType
    <3> QED BY <1>3, <2>1, <3>3 DEF OnTitle, TypeOK, consVars, pulseVars
  <2>3. CASE ~(e.id \in DOMAIN registry /\ registry[e.id].tl.title # e.str)
    BY <1>3, <2>1, <2>3 DEF OnTitle, Ignore, TypeOK, consVars, pulseVars
  <2> QED BY <2>2, <2>3
<1>4. CASE OnState
  <2> DEFINE news == /\ e.id \in DOMAIN registry
                     /\ \/ ~registry[e.id].published
                        \/ registry[e.id].tl.activated # e.activated
                        \/ registry[e.id].tl.minimized # e.minimized
             tl == [registry[e.id].tl EXCEPT !.activated = e.activated,
                                             !.minimized = e.minimized]
  <2>1. /\ e.id \in Id /\ e.activated \in BOOLEAN /\ e.minimized \in BOOLEAN
        /\ wire' \in Seq(WireEvent)
    BY <1>4, Dispatched DEF OnState
  <2>2. CASE news
    <3>1. tl \in Toplevel
      <4>1. registry[e.id].tl \in Toplevel
        BY <2>2, RegistryHolds
      <4> QED BY <2>1, <4>1, ToplevelUpdates
    <3>2. Publish(e.id, tl) /\ e.id \in DOMAIN registry
      BY <1>4, <2>2 DEF OnState
    <3> HIDE DEF e, tl
    <3>3. /\ DOMAIN registry' = DOMAIN registry
          /\ \A j \in DOMAIN registry : registry'[j] \in Entry
          /\ out' \in Seq(ToplevelEvent) /\ Len(out') = 1
      BY <3>1, <3>2, PublishType
    <3> QED BY <1>4, <2>1, <3>3 DEF OnState, TypeOK, consVars, pulseVars
  <2>3. CASE ~news
    BY <1>4, <2>1, <2>3 DEF OnState, Ignore, TypeOK, consVars, pulseVars
  <2> QED BY <2>2, <2>3
<1>5. CASE OnClosed
  <2>1. e.id \in Id /\ wire' \in Seq(WireEvent) /\ out = <<>>
    BY <1>5, Dispatched DEF OnClosed
  <2>2. [kind |-> "removed", id |-> e.id] \in ToplevelEvent
    BY <2>1 DEF ToplevelEvent
  <2>3. out' \in Seq(ToplevelEvent) /\ Len(out') <= 1
    BY <1>5, <2>2 DEF OnClosed
  <2>4. /\ DOMAIN registry' \subseteq DOMAIN registry
        /\ \A j \in DOMAIN registry' : registry'[j] = registry[j]
    BY <1>5 DEF OnClosed
  <2> QED BY <1>5, <2>1, <2>3, <2>4 DEF OnClosed, TypeOK, consVars, pulseVars
<1> QED BY <1>1, <1>2, <1>3, <1>4, <1>5 DEF Handlers

(* Both ends of the event channel.                                         *)
LEMMA SendBlockingType == TypeOK /\ SendBlocking => TypeOK'
<1> SUFFICES ASSUME TypeOK, SendBlocking PROVE TypeOK'
  OBVIOUS
<1>1. /\ chan' = chan \o out /\ out' = <<>> /\ Len(chan) < Cap
      /\ chan \in Seq(ToplevelEvent) /\ out \in Seq(ToplevelEvent) /\ Len(out) <= 1
      /\ Cap \in Nat
  BY FeedAssumption DEF SendBlocking, TypeOK
<1>2. chan' \in Seq(ToplevelEvent) /\ Len(chan') = Len(chan) + Len(out)
  BY <1>1, ConcatProperties
<1>3. Len(chan) \in Nat /\ Len(out) \in Nat
  BY <1>1, LenProperties
<1>4. Len(chan') <= Cap
  BY <1>1, <1>2, <1>3
<1>5. out' \in Seq(ToplevelEvent) /\ Len(out') <= 1
  BY <1>1
<1> QED BY <1>2, <1>4, <1>5 DEF SendBlocking, TypeOK, compVars, consVars, pulseVars

LEMMA ApplyEventType == TypeOK /\ ApplyEvent => TypeOK'
<1> SUFFICES ASSUME TypeOK, ApplyEvent PROVE TypeOK'
  OBVIOUS
<1> DEFINE e == Head(chan)
<1>1. chan \in Seq(ToplevelEvent) /\ chan # <<>> /\ chan' = Tail(chan) /\ Cap \in Nat
  BY FeedAssumption DEF ApplyEvent, TypeOK
<1>2. e \in ToplevelEvent /\ chan' \in Seq(ToplevelEvent) /\ Len(chan') <= Cap
  BY <1>1, LenProperties DEF TypeOK
<1>3. e.id \in Id /\ (e.kind # "removed" => e.tl \in Toplevel)
  BY <1>2 DEF ToplevelEvent
<1>4. e.kind # "removed" => RowOf(e.id, e.tl) \in Row
  BY <1>3 DEF RowOf, Row, OrDefault, Toplevel
<1>5. items' \subseteq Row
  BY <1>4 DEF ApplyEvent, ApplyRemoved, Upsert, TypeOK
<1>6. last_active' \in Id \cup {None}
  BY <1>3 DEF ApplyEvent, ApplyRemoved, TypeOK
<1> QED BY <1>2, <1>5, <1>6 DEF ApplyEvent, TypeOK, compVars, zwinVars

LEMMA TypeStep == TypeOK /\ [Next]_vars => TypeOK'
<1> SUFFICES ASSUME TypeOK, [Next]_vars PROVE TypeOK'
  OBVIOUS
<1>1. CASE SessionError
  BY <1>1 DEF SessionError, TypeOK, compVars, consVars, pulseVars
<1>2. CASE SendPulse \/ ForwarderRecv \/ ForwarderSend \/ PulseRecv \/ Refilter \/ UserFilter
  <2> DEFINE Steady == /\ child_pulse' \in 0..1 /\ merged_pulse' \in 0..1
                       /\ cpc' \in {"recv", "pulse"} /\ fpc' \in {"recv", "send"}
                       /\ lpc' \in {"wait", "refilter"} /\ fresh' \in BOOLEAN
                       /\ UNCHANGED <<open, closed, wire, alive, registry, handles, out,
                                      chan, items, last_active>>
  <2>1. ASSUME SendPulse PROVE Steady
    BY <2>1 DEF SendPulse, TypeOK, compVars, zwinVars, consVars
  <2>2. ASSUME ForwarderRecv PROVE Steady
    BY <2>2 DEF ForwarderRecv, TypeOK, compVars, zwinVars, consVars
  <2>3. ASSUME ForwarderSend PROVE Steady
    BY <2>3 DEF ForwarderSend, TypeOK, compVars, zwinVars, consVars
  <2>4. ASSUME PulseRecv PROVE Steady
    BY <2>4 DEF PulseRecv, TypeOK, compVars, zwinVars, consVars
  <2>5. ASSUME Refilter PROVE Steady
    BY <2>5 DEF Refilter, TypeOK, compVars, zwinVars, consVars
  <2>6. ASSUME UserFilter PROVE Steady
    BY <2>6 DEF UserFilter, TypeOK, compVars, zwinVars, consVars
  <2>7. Steady
    BY <1>2, <2>1, <2>2, <2>3, <2>4, <2>5, <2>6
  <2> QED BY <2>7 DEF TypeOK
<1>3. CASE UNCHANGED vars
  BY <1>3 DEF vars, TypeOK, compVars, zwinVars, consVars, pulseVars
<1> QED BY <1>1, <1>2, <1>3, NextCases, CompositorType, HandlersType, SendBlockingType,
           ApplyEventType DEF Upstream

LEMMA TypeInit == Init => TypeOK
<1> SUFFICES ASSUME Init PROVE TypeOK
  OBVIOUS
<1>1. /\ wire \in Seq(WireEvent) /\ out \in Seq(ToplevelEvent) /\ chan \in Seq(ToplevelEvent)
      /\ Len(out) = 0 /\ Len(chan) = 0 /\ Cap \in Nat
  <2>1. wire = <<>> /\ out = <<>> /\ chan = <<>>
    BY DEF Init
  <2>2. wire \in Seq(WireEvent) /\ out \in Seq(ToplevelEvent) /\ chan \in Seq(ToplevelEvent)
    BY <2>1, EmptySeq
  <2>3. Len(out) = 0 /\ Len(chan) = 0
    BY <2>1, <2>2, EmptySeq
  <2> QED BY <2>2, <2>3, FeedAssumption
<1> QED BY <1>1 DEF Init, TypeOK

(* Type correctness; in particular the event channel never overflows.      *)
THEOREM FeedType == Spec => []TypeOK
<1> QED BY TypeInit, TypeStep, PTL DEF Spec
-----------------------------------------------------------------------------
(***************************************************************************)
(* The list and the registry.  FeedConsistent and RowHasHandle are not     *)
(* inductive: they need what the queue and the wire still hold.  FeedInv   *)
(* adds that an id is announced once, before anything else is known of it, *)
(* that nothing follows a closed event or a removal, and that an event     *)
(* still to be applied comes from a handle or is followed by its removal.  *)
(***************************************************************************)
Known == DOMAIN open \cup closed

EventHasHandle ==
  \A k \in DOMAIN Queue : Queue[k].kind # "removed" =>
    \/ Queue[k].id \in handles
    \/ \E j \in DOMAIN Queue : j > k /\ Queue[j].id = Queue[k].id /\ Queue[j].kind = "removed"

IdsKnown ==
  /\ handles \subseteq Known
  /\ \A k \in DOMAIN Queue : Queue[k].id \in Known
  /\ \A r \in items : r.id \in Known
  /\ \A k \in DOMAIN wire : wire[k].id \in Known

AnnouncedOnce ==
  \A k \in DOMAIN wire : wire[k].t = "toplevel" =>
    /\ wire[k].id \notin handles /\ ~Queued(wire[k].id) /\ ~Shown(wire[k].id)
    /\ \A j \in DOMAIN wire : wire[j].t = "toplevel" /\ wire[j].id = wire[k].id => j = k

ClosedLast ==
  \A k \in DOMAIN wire : wire[k].t = "closed" =>
    /\ wire[k].id \in closed
    /\ \A j \in DOMAIN wire : wire[j].id = wire[k].id => j <= k

RemovedLast ==
  \A k \in DOMAIN Queue : Queue[k].kind = "removed" =>
    /\ Queue[k].id \in closed /\ Queue[k].id \notin DOMAIN registry
    /\ \A j \in DOMAIN wire : wire[j].id # Queue[k].id
    /\ LastAbout(k)

(* TailAgrees, by the kind of the event.                                   *)
TailSound ==
  \A k \in DOMAIN Queue : LastAbout(k) =>
    /\ Queue[k].kind = "removed" => Queue[k].id \notin DOMAIN registry
    /\ Queue[k].kind # "removed" =>
         Published(Queue[k].id) /\ registry[Queue[k].id].tl = Queue[k].tl

FeedInv ==
  /\ DOMAIN registry = handles
  /\ RowHasHandle /\ EventHasHandle
  /\ IdsKnown /\ AnnouncedOnce /\ ClosedLast /\ RemovedLast
  /\ TailSound /\ RowsAgree

(* What each kind of step does to the queue and to the wire.               *)
LEMMA QueueType ==
  ASSUME TypeOK
  PROVE  /\ Queue \in Seq(ToplevelEvent) /\ wire \in Seq(WireEvent)
         /\ Len(Queue) \in Nat /\ DOMAIN Queue = 1..Len(Queue)
         /\ Len(wire) \in Nat /\ DOMAIN wire = 1..Len(wire)
<1>1. Queue \in Seq(ToplevelEvent) /\ wire \in Seq(WireEvent)
  BY ConcatProperties DEF TypeOK, Queue
<1> QED BY <1>1, LenProperties

LEMMA QueueGrows ==
  ASSUME TypeOK, NEW e \in ToplevelEvent, out = <<>>, out' = <<e>>, UNCHANGED chan
  PROVE  /\ DOMAIN Queue' = 1..(Len(Queue) + 1)
         /\ Queue'[Len(Queue) + 1] = e
         /\ \A k \in 1..Len(Queue) : Queue'[k] = Queue[k]
<1>1. chan \in Seq(ToplevelEvent) /\ Queue = chan
  BY ConcatEmptySeq DEF TypeOK, Queue
<1>2. <<e>> \in Seq(ToplevelEvent) /\ Len(<<e>>) = 1 /\ <<e>>[1] = e
  OBVIOUS
<1>3. Queue' = chan \o <<e>>
  BY DEF Queue
<1>4. Append(chan, e) = chan \o <<e>>
  BY <1>1, AppendIsConcat
<1>5. /\ Queue' \in Seq(ToplevelEvent) /\ Len(Queue') = Len(chan) + 1
      /\ Queue'[Len(chan) + 1] = e /\ \A k \in 1..Len(chan) : Queue'[k] = chan[k]
  BY <1>1, <1>3, <1>4, AppendProperties
<1> QED BY <1>1, <1>5, LenProperties

LEMMA QueueSame ==
  ASSUME TypeOK, SendBlocking PROVE Queue' = Queue
<1>1. chan \in Seq(ToplevelEvent) /\ out \in Seq(ToplevelEvent)
  BY DEF TypeOK
<1>2. chan' = chan \o out /\ out' = <<>>
  BY DEF SendBlocking
<1>3. chan \o out \in Seq(ToplevelEvent)
  BY <1>1, ConcatProperties
<1>4. (chan \o out) \o <<>> = chan \o out
  BY <1>3, ConcatEmptySeq
<1> QED BY <1>2, <1>4 DEF Queue

LEMMA QueueShrinks ==
  ASSUME TypeOK, ApplyEvent
  PROVE  /\ Len(Queue) \in Nat /\ Len(Queue) > 0
         /\ DOMAIN Queue = 1..Len(Queue) /\ DOMAIN Queue' = 1..(Len(Queue) - 1)
         /\ Queue[1] = Head(chan)
         /\ \A k \in 1..(Len(Queue) - 1) : Queue'[k] = Queue[k + 1]
<1>1. /\ chan \in Seq(ToplevelEvent) /\ out \in Seq(ToplevelEvent) /\ chan # <<>>
      /\ chan' = Tail(chan) /\ out' = out
  BY DEF TypeOK, ApplyEvent, zwinVars
<1>2. /\ Tail(chan) \in Seq(ToplevelEvent) /\ Len(Tail(chan)) = Len(chan) - 1
      /\ \A k \in 1..Len(Tail(chan)) : Tail(chan)[k] = chan[k + 1]
  BY <1>1, HeadTailProperties
<1>3. Len(chan) \in Nat \ {0} /\ Len(out) \in Nat
  BY <1>1, EmptySeq, LenProperties
<1>4. /\ Queue \in Seq(ToplevelEvent) /\ Len(Queue) = Len(chan) + Len(out)
      /\ \A k \in 1..(Len(chan) + Len(out)) :
           Queue[k] = IF k <= Len(chan) THEN chan[k] ELSE out[k - Len(chan)]
  BY <1>1, ConcatProperties DEF Queue
<1>5. /\ Queue' \in Seq(ToplevelEvent) /\ Len(Queue') = Len(chan) - 1 + Len(out)
      /\ \A k \in 1..(Len(chan) - 1 + Len(out)) :
           Queue'[k] = IF k <= Len(chan) - 1 THEN Tail(chan)[k] ELSE out[k - (Len(chan) - 1)]
  <2>1. Queue' = Tail(chan) \o out
    BY <1>1 DEF Queue
  <2> QED BY <1>1, <1>2, <2>1, ConcatProperties
<1>6. ASSUME NEW k \in 1..(Len(Queue) - 1) PROVE Queue'[k] = Queue[k + 1]
  <2> k \in Nat /\ k + 1 \in 1..(Len(chan) + Len(out)) /\ k \in 1..(Len(chan) - 1 + Len(out))
    BY <1>3, <1>4
  <2>1. CASE k <= Len(chan) - 1
    <3>1. k + 1 <= Len(chan)
      BY <1>3, <2>1
    <3>2. Queue'[k] = Tail(chan)[k]
      BY <1>5, <2>1
    <3>3. Queue[k + 1] = chan[k + 1]
      BY <1>4, <3>1
    <3>4. k \in 1..Len(Tail(chan))
      BY <1>2, <1>3, <2>1
    <3> QED BY <1>2, <3>2, <3>3, <3>4
  <2>2. CASE ~(k <= Len(chan) - 1)
    <3>1. Queue'[k] = out[k - (Len(chan) - 1)] /\ Queue[k + 1] = out[(k + 1) - Len(chan)]
      <4>1. ~(k + 1 <= Len(chan))
        BY <1>3, <2>2
      <4>2. Queue'[k] = out[k - (Len(chan) - 1)]
        BY <1>5, <2>2
      <4> QED BY <1>4, <4>1, <4>2
    <3>2. k - (Len(chan) - 1) = (k + 1) - Len(chan)
      BY <1>3
    <3> QED BY <3>1, <3>2
  <2> QED BY <2>1, <2>2
<1>7. Queue[1] = Head(chan)
  BY <1>1, <1>3, <1>4
<1> QED BY <1>3, <1>4, <1>5, <1>6, <1>7, LenProperties

LEMMA WireShrinks ==
  ASSUME TypeOK, wire # <<>>, wire' = Tail(wire)
  PROVE  /\ Len(wire) \in Nat /\ Len(wire) > 0
         /\ DOMAIN wire = 1..Len(wire) /\ DOMAIN wire' = 1..(Len(wire) - 1)
         /\ wire[1] = Head(wire)
         /\ \A k \in 1..(Len(wire) - 1) : wire'[k] = wire[k + 1]
<1>1. wire \in Seq(WireEvent)
  BY DEF TypeOK
<1>2. /\ Tail(wire) \in Seq(WireEvent) /\ Len(Tail(wire)) = Len(wire) - 1
      /\ \A k \in 1..Len(Tail(wire)) : Tail(wire)[k] = wire[k + 1]
  BY <1>1, HeadTailProperties
<1> QED BY <1>1, <1>2, EmptySeq, LenProperties

(* The compositor only adds to the wire, about one id at a time: a fresh   *)
(* one that it announces, or an open one.                                  *)
Extends(i) ==
  /\ DOMAIN wire' = 1..Len(wire') /\ Len(wire') \in Nat /\ Len(wire) <= Len(wire')
  /\ \A k \in 1..Len(wire) : wire'[k] = wire[k]
  /\ \A k \in (Len(wire) + 1)..Len(wire') : wire'[k].id = i

LEMMA WireAppended ==
  ASSUME NEW w \in Seq(WireEvent), NEW s \in Seq(WireEvent)
  PROVE  /\ w \o s \in Seq(WireEvent)
         /\ Len(w) \in Nat /\ Len(s) \in Nat /\ Len(w \o s) = Len(w) + Len(s)
         /\ DOMAIN (w \o s) = 1..(Len(w) + Len(s))
         /\ \A k \in 1..Len(w) : (w \o s)[k] = w[k]
         /\ \A k \in (Len(w) + 1)..(Len(w) + Len(s)) :
              k - Len(w) \in 1..Len(s) /\ (w \o s)[k] = s[k - Len(w)]
<1>1. /\ w \o s \in Seq(WireEvent) /\ Len(w \o s) = Len(w) + Len(s)
      /\ \A k \in 1..(Len(w) + Len(s)) :
           (w \o s)[k] = IF k <= Len(w) THEN w[k] ELSE s[k - Len(w)]
  BY ConcatProperties
<1>2. Len(w) \in Nat /\ Len(s) \in Nat
  BY LenProperties
<1>3. DOMAIN (w \o s) = 1..(Len(w) + Len(s))
  BY <1>1, LenProperties
<1> QED BY <1>1, <1>2, <1>3

(* What is added is all of a kind if each of its elements is.              *)
LEMMA AppendedIn ==
  ASSUME NEW w \in Seq(WireEvent), NEW s \in Seq(WireEvent), NEW Kind,
         \A k \in 1..Len(s) : s[k] \in Kind
  PROVE  /\ w \o s \in Seq(WireEvent)
         /\ Len(w) \in Nat /\ Len(s) \in Nat /\ Len(w \o s) = Len(w) + Len(s)
         /\ DOMAIN (w \o s) = 1..Len(w \o s)
         /\ \A k \in 1..Len(w) : (w \o s)[k] = w[k]
         /\ \A k \in (Len(w) + 1)..Len(w \o s) : (w \o s)[k] \in Kind
<1> DEFINE v == w \o s
<1>1. /\ v \in Seq(WireEvent)
      /\ Len(w) \in Nat /\ Len(s) \in Nat /\ Len(v) = Len(w) + Len(s)
      /\ DOMAIN v = 1..(Len(w) + Len(s))
      /\ \A k \in 1..Len(w) : v[k] = w[k]
      /\ \A k \in (Len(w) + 1)..(Len(w) + Len(s)) :
           k - Len(w) \in 1..Len(s) /\ v[k] = s[k - Len(w)]
  BY WireAppended
<1> HIDE DEF v
<1>2. ASSUME NEW k \in (Len(w) + 1)..Len(v) PROVE v[k] \in Kind
  BY <1>1
<1>3. v \in Seq(WireEvent) /\ DOMAIN v = 1..Len(v)
  BY <1>1
<1> QED BY <1>1, <1>2, <1>3 DEF v

LEMMA StrEventElems ==
  ASSUME NEW t \in {"app_id", "title"}, NEW i \in Id, NEW s \in Str \cup {None}
  PROVE  /\ StrEvent(t, i, s) \in Seq(WireEvent)
         /\ s # None => Len(StrEvent(t, i, s)) = 1
        /\ \A k \in 1..Len(StrEvent(t, i, s)) :
              /\ StrEvent(t, i, s)[k].t = t /\ StrEvent(t, i, s)[k].id = i
              /\ StrEvent(t, i, s)[k].str = s
<1>1. StrEvent(t, i, s) \in Seq(WireEvent)
  BY StrEventType
<1>2. CASE s = None
  <2>1. StrEvent(t, i, s) = <<>> /\ Len(StrEvent(t, i, s)) = 0
    BY <1>2 DEF StrEvent
  <2> QED BY <1>1, <1>2, <2>1
<1>3. CASE s # None
  <2> DEFINE e == [t |-> t, id |-> i, str |-> s]
  <2>1. StrEvent(t, i, s) = <<e>> /\ e.t = t /\ e.id = i /\ e.str = s
    BY <1>3 DEF StrEvent
  <2> HIDE DEF e
  <2>2. Len(<<e>>) = 1 /\ <<e>>[1] = e
    OBVIOUS
  <2> QED BY <1>1, <1>3, <2>1, <2>2
<1> QED BY <1>2, <1>3

LEMMA StateEventElems ==
  ASSUME NEW i \in Id, NEW a \in BOOLEAN, NEW m \in BOOLEAN
  PROVE  /\ StateEvent(i, a, m) \in Seq(WireEvent)
         /\ Len(StateEvent(i, a, m)) = 1
        /\ \A k \in 1..Len(StateEvent(i, a, m)) :
              /\ StateEvent(i, a, m)[k].t = "state" /\ StateEvent(i, a, m)[k].id = i
              /\ StateEvent(i, a, m)[k].activated = a /\ StateEvent(i, a, m)[k].minimized = m
<1> DEFINE e == [t |-> "state", id |-> i, activated |-> a, minimized |-> m]
<1>1. /\ StateEvent(i, a, m) = <<e>> /\ e.t = "state" /\ e.id = i
      /\ e.activated = a /\ e.minimized = m
  BY DEF StateEvent
<1> HIDE DEF e
<1>2. Len(<<e>>) = 1 /\ <<e>>[1] = e
  OBVIOUS
<1>3. StateEvent(i, a, m) \in Seq(WireEvent)
  BY StateEventType
<1> QED BY <1>1, <1>2, <1>3

(* What an event says of its window, and whether the step said it.         *)
Carries(e, tl) ==
  /\ e.t = "title" => e.str = tl.title
  /\ e.t = "app_id" => e.str = tl.app
  /\ e.t = "state" => e.activated = tl.activated /\ e.minimized = tl.minimized

Says(t) == \E k \in (Len(wire) + 1)..Len(wire') : wire'[k].t = t

(* A window opens: its announcement is the first of what is added, nothing *)
(* of it is a closed event, and the names that are set and the state go    *)
(* with it as they are.                                                    *)
LEMMA OpenedWire ==
  ASSUME TypeOK, NEW i \in Id, NEW tl \in OpenAs, OpenWindow(i, tl)
  PROVE  /\ Extends(i) /\ i \notin Known /\ Known' = Known \cup {i} /\ closed' = closed
         /\ \A k \in (Len(wire) + 1)..Len(wire') :
              wire'[k].t # "closed" /\ (wire'[k].t = "toplevel" => k = Len(wire) + 1)
        /\ Len(wire) < Len(wire') /\ wire'[Len(wire) + 1].t = "toplevel"
        /\ \A k \in (Len(wire) + 1)..Len(wire') : Carries(wire'[k], tl)
        /\ (tl.title # None => Says("title")) /\ (tl.app # None => Says("app_id"))
        /\ Says("state")
<1> DEFINE a == <<[t |-> "toplevel", id |-> i]>>
           b == StrEvent("title", i, tl.title)
           c == StrEvent("app_id", i, tl.app)
           d == StateEvent(i, tl.activated, tl.minimized)
           w1 == wire \o a
           w2 == w1 \o b
           w3 == w2 \o c
           Titles == {e \in WireEvent : e.t = "title" /\ e.id = i /\ e.str = tl.title}
           Apps == {e \in WireEvent : e.t = "app_id" /\ e.id = i /\ e.str = tl.app}
           Sets == {e \in WireEvent : /\ e.t = "state" /\ e.id = i
                                      /\ e.activated = tl.activated
                                      /\ e.minimized = tl.minimized}
<1>1. /\ tl.title \in Str \cup {None} /\ tl.app \in Str \cup {None}
      /\ tl.activated \in BOOLEAN /\ tl.minimized \in BOOLEAN
  BY FeedAssumption DEF Toplevel
<1>2. a \in Seq(WireEvent) /\ Len(a) = 1 /\ a[1].t = "toplevel" /\ a[1].id = i
  BY DEF WireEvent
<1>3. /\ b \in Seq(WireEvent) /\ (tl.title # None => Len(b) = 1)
      /\ \A k \in 1..Len(b) : b[k] \in Titles
  BY <1>1, StrEventElems
<1>4. /\ c \in Seq(WireEvent) /\ (tl.app # None => Len(c) = 1)
      /\ \A k \in 1..Len(c) : c[k] \in Apps
  BY <1>1, StrEventElems
<1>5. /\ d \in Seq(WireEvent) /\ Len(d) = 1
      /\ \A k \in 1..Len(d) : d[k] \in Sets
  BY <1>1, StateEventElems
<1>6. wire \in Seq(WireEvent) /\ wire' = w3 \o d
  BY DEF TypeOK, OpenWindow
<1> HIDE DEF a, b, c, d, Titles, Apps, Sets
<1>7. /\ w1 \in Seq(WireEvent) /\ Len(wire) \in Nat /\ Len(w1) = Len(wire) + 1
      /\ \A k \in 1..Len(wire) : w1[k] = wire[k]
      /\ w1[Len(wire) + 1] = a[1]
  <2>1. Len(wire) \in Nat
    BY <1>6, LenProperties
  <2>2. (Len(wire) + 1) - Len(wire) = 1
    BY <2>1
  <2>3. /\ w1 \in Seq(WireEvent) /\ Len(w1) = Len(wire) + Len(a)
        /\ \A k \in 1..Len(wire) : w1[k] = wire[k]
        /\ \A k \in (Len(wire) + 1)..(Len(wire) + Len(a)) : w1[k] = a[k - Len(wire)]
    BY <1>2, <1>6, WireAppended
  <2>4. w1[Len(wire) + 1] = a[(Len(wire) + 1) - Len(wire)]
    BY <1>2, <2>1, <2>3
  <2> QED BY <1>2, <2>1, <2>2, <2>3, <2>4
<1> HIDE DEF w1
<1>8. /\ w2 \in Seq(WireEvent) /\ Len(w2) \in Nat /\ Len(w2) = Len(w1) + Len(b)
      /\ Len(b) \in Nat
      /\ \A k \in 1..Len(w1) : w2[k] = w1[k]
      /\ \A k \in (Len(w1) + 1)..Len(w2) : w2[k] \in Titles
  <2>1. b \in Seq(WireEvent) /\ w1 \in Seq(WireEvent) /\ \A k \in 1..Len(b) : b[k] \in Titles
    BY <1>3, <1>7
  <2>2. /\ w1 \o b \in Seq(WireEvent) /\ Len(w1) \in Nat /\ Len(b) \in Nat
        /\ Len(w1 \o b) = Len(w1) + Len(b)
        /\ \A k \in 1..Len(w1) : (w1 \o b)[k] = w1[k]
        /\ \A k \in (Len(w1) + 1)..Len(w1 \o b) : (w1 \o b)[k] \in Titles
    BY <2>1, AppendedIn
  <2> QED BY <2>2
<1> HIDE DEF w2
<1>9. /\ w3 \in Seq(WireEvent) /\ Len(w3) \in Nat /\ Len(w3) = Len(w2) + Len(c)
      /\ Len(c) \in Nat
      /\ \A k \in 1..Len(w2) : w3[k] = w2[k]
      /\ \A k \in (Len(w2) + 1)..Len(w3) : w3[k] \in Apps
  <2>1. c \in Seq(WireEvent) /\ w2 \in Seq(WireEvent) /\ \A k \in 1..Len(c) : c[k] \in Apps
    BY <1>4, <1>8
  <2>2. /\ w2 \o c \in Seq(WireEvent) /\ Len(w2) \in Nat /\ Len(c) \in Nat
        /\ Len(w2 \o c) = Len(w2) + Len(c)
        /\ \A k \in 1..Len(w2) : (w2 \o c)[k] = w2[k]
        /\ \A k \in (Len(w2) + 1)..Len(w2 \o c) : (w2 \o c)[k] \in Apps
    BY <2>1, AppendedIn
  <2> QED BY <2>2
<1> HIDE DEF w3
<1>10. /\ Len(wire') \in Nat /\ DOMAIN wire' = 1..Len(wire') /\ Len(wire') = Len(w3) + 1
       /\ \A k \in 1..Len(w3) : wire'[k] = w3[k]
       /\ \A k \in (Len(w3) + 1)..Len(wire') : wire'[k] \in Sets
  <2>1. d \in Seq(WireEvent) /\ w3 \in Seq(WireEvent) /\ \A k \in 1..Len(d) : d[k] \in Sets
    BY <1>5, <1>9
  <2>2. /\ Len(w3) \in Nat /\ Len(w3 \o d) = Len(w3) + Len(d)
        /\ DOMAIN (w3 \o d) = 1..Len(w3 \o d)
        /\ \A k \in 1..Len(w3) : (w3 \o d)[k] = w3[k]
        /\ \A k \in (Len(w3) + 1)..Len(w3 \o d) : (w3 \o d)[k] \in Sets
    BY <2>1, AppendedIn
  <2>3. wire' = w3 \o d /\ Len(d) = 1
    BY <1>5, <1>6
  <2> QED BY <2>2, <2>3
<1>11. \A k \in 1..Len(wire) : wire'[k] = wire[k]
  BY <1>7, <1>8, <1>9, <1>10
<1>12. ASSUME NEW k \in (Len(wire) + 1)..Len(wire')
       PROVE  /\ wire'[k].id = i /\ wire'[k].t # "closed"
              /\ wire'[k].t = "toplevel" => k = Len(wire) + 1
              /\ k = Len(wire) + 1 => wire'[k].t = "toplevel"
              /\ Carries(wire'[k], tl)
              /\ k \in (Len(w1) + 1)..Len(w2) => wire'[k].t = "title"
              /\ k \in (Len(w2) + 1)..Len(w3) => wire'[k].t = "app_id"
              /\ k \in (Len(w3) + 1)..Len(wire') => wire'[k].t = "state"
  <2> k \in Nat
    BY <1>7
  <2>1. CASE k = Len(wire) + 1
    <3>1. k \in 1..Len(w1) /\ w1[k] = a[1]
      BY <1>7, <2>1
    <3>2. k \in 1..Len(w2) /\ w2[k] = w1[k]
      BY <1>7, <1>8, <3>1
    <3>3. k \in 1..Len(w3) /\ w3[k] = w2[k]
      BY <1>8, <1>9, <3>2
    <3>4. wire'[k] = w3[k]
      BY <1>10, <3>3
    <3> QED BY <1>2, <1>7, <1>8, <1>9, <2>1, <3>1, <3>2, <3>3, <3>4 DEF Carries
  <2>2. CASE k > Len(w1) /\ k <= Len(w2)
    <3>1. k \in 1..Len(w2) /\ k \in 1..Len(w3) /\ k \in (Len(w1) + 1)..Len(w2)
      BY <1>7, <1>8, <1>9, <2>2
    <3>2. wire'[k] = w2[k]
      BY <1>9, <1>10, <3>1
    <3>3. /\ w2[k].t = "title" /\ w2[k].id = i /\ w2[k].str = tl.title
      BY <1>8, <3>1 DEF Titles
    <3> QED BY <1>7, <1>8, <1>9, <2>2, <3>1, <3>2, <3>3 DEF Carries
  <2>3. CASE k > Len(w2) /\ k <= Len(w3)
    <3>0. k \in (Len(w2) + 1)..Len(w3) /\ k \in 1..Len(w3)
      BY <1>8, <1>9, <2>3
    <3>1. wire'[k] = w3[k] /\ w3[k] \in Apps
      BY <1>9, <1>10, <3>0
    <3>2. w3[k].t = "app_id" /\ w3[k].id = i /\ w3[k].str = tl.app
      BY <3>1 DEF Apps
    <3> QED BY <1>7, <1>8, <1>9, <2>3, <3>1, <3>2 DEF Carries
  <2>4. CASE k > Len(w3)
    <3>1. k \in (Len(w3) + 1)..Len(wire') /\ wire'[k] \in Sets
      BY <1>9, <1>10, <2>4
    <3>2. /\ wire'[k].t = "state" /\ wire'[k].id = i
          /\ wire'[k].activated = tl.activated /\ wire'[k].minimized = tl.minimized
      BY <3>1 DEF Sets
    <3> QED BY <1>7, <1>8, <1>9, <2>4, <3>1, <3>2 DEF Carries
  <2> QED BY <1>7, <1>8, <1>9, <2>1, <2>2, <2>3, <2>4
<1>13. i \notin Known /\ Known' = Known \cup {i} /\ closed' = closed
  BY DEF OpenWindow, Known
<1>14. /\ Len(wire) + 1 \in (Len(wire) + 1)..Len(wire') /\ Len(wire) < Len(wire')
       /\ Len(w3) + 1 \in (Len(wire) + 1)..Len(wire')
       /\ Len(w3) + 1 \in (Len(w3) + 1)..Len(wire')
  BY <1>7, <1>8, <1>9, <1>10
<1>15. tl.title # None => Says("title")
  <2> SUFFICES ASSUME tl.title # None PROVE Says("title")
    OBVIOUS
  <2>0. Len(b) = 1
    BY <1>3
  <2>1. /\ Len(w1) + 1 \in (Len(w1) + 1)..Len(w2)
        /\ Len(w1) + 1 \in (Len(wire) + 1)..Len(wire')
    BY <1>7, <1>8, <1>9, <1>10, <2>0
  <2> QED BY <1>12, <2>1 DEF Says
<1>16. tl.app # None => Says("app_id")
  <2> SUFFICES ASSUME tl.app # None PROVE Says("app_id")
    OBVIOUS
  <2>0. Len(c) = 1
    BY <1>4
  <2>1. /\ Len(w2) + 1 \in (Len(w2) + 1)..Len(w3)
        /\ Len(w2) + 1 \in (Len(wire) + 1)..Len(wire')
    BY <1>7, <1>8, <1>9, <1>10, <2>0
  <2> QED BY <1>12, <2>1 DEF Says
<1>17. Says("state")
  BY <1>12, <1>14 DEF Says
<1>18. Extends(i)
  <2>1. Len(wire) <= Len(wire') /\ Len(wire') \in Nat /\ DOMAIN wire' = 1..Len(wire')
    BY <1>7, <1>10, <1>14
  <2> QED BY <1>11, <1>12, <2>1 DEF Extends
<1> QED BY <1>12, <1>13, <1>14, <1>15, <1>16, <1>17, <1>18

(* An open window changes: what is added neither announces nor closes.     *)
LEMMA ChangedWire ==
  ASSUME TypeOK, NEW i \in Id,
         \/ \E s \in Str : SetTitle(i, s) \/ SetAppId(i, s)
         \/ \E st \in States : SetState(i, st[1], st[2])
  PROVE  /\ Extends(i) /\ i \in DOMAIN open /\ Known' = Known /\ closed' = closed
         /\ \A k \in (Len(wire) + 1)..Len(wire') :
              wire'[k].t # "closed" /\ wire'[k].t # "toplevel"
<1>0. wire \in Seq(WireEvent)
  BY DEF TypeOK
<1>1. i \in DOMAIN open /\ DOMAIN open' = DOMAIN open /\ closed' = closed
  BY DEF SetTitle, SetAppId, SetState
<1>2. \E s \in Seq(WireEvent) :
        /\ wire' = wire \o s
        /\ \A k \in 1..Len(s) : s[k].t # "closed" /\ s[k].t # "toplevel" /\ s[k].id = i
  <2>1. ASSUME NEW s \in Str, SetTitle(i, s)
        PROVE  \E q \in Seq(WireEvent) :
                 /\ wire' = wire \o q
                 /\ \A k \in 1..Len(q) : q[k].t # "closed" /\ q[k].t # "toplevel" /\ q[k].id = i
    <3> DEFINE q == StrEvent("title", i, s)
    <3>1. q \in Seq(WireEvent) /\ \A k \in 1..Len(q) : q[k].t = "title" /\ q[k].id = i
      BY StrEventElems
    <3>2. wire' = wire \o q
      BY <2>1 DEF SetTitle
    <3> HIDE DEF q
    <3> QED BY <3>1, <3>2
  <2>2. ASSUME NEW s \in Str, SetAppId(i, s)
        PROVE  \E q \in Seq(WireEvent) :
                 /\ wire' = wire \o q
                 /\ \A k \in 1..Len(q) : q[k].t # "closed" /\ q[k].t # "toplevel" /\ q[k].id = i
    <3> DEFINE q == StrEvent("app_id", i, s)
    <3>1. q \in Seq(WireEvent) /\ \A k \in 1..Len(q) : q[k].t = "app_id" /\ q[k].id = i
      BY StrEventElems
    <3>2. wire' = wire \o q
      BY <2>2 DEF SetAppId
    <3> HIDE DEF q
    <3> QED BY <3>1, <3>2
  <2>3. ASSUME NEW st \in States, SetState(i, st[1], st[2])
        PROVE  \E q \in Seq(WireEvent) :
                 /\ wire' = wire \o q
                 /\ \A k \in 1..Len(q) : q[k].t # "closed" /\ q[k].t # "toplevel" /\ q[k].id = i
    <3> DEFINE q == StateEvent(i, st[1], st[2])
    <3>0. st[1] \in BOOLEAN /\ st[2] \in BOOLEAN
      BY FeedAssumption
    <3>1. q \in Seq(WireEvent) /\ \A k \in 1..Len(q) : q[k].t = "state" /\ q[k].id = i
      BY <3>0, StateEventElems
    <3>2. wire' = wire \o q
      BY <2>3 DEF SetState
    <3> HIDE DEF q
    <3> QED BY <3>1, <3>2
  <2> QED BY <2>1, <2>2, <2>3
<1>3. PICK s \in Seq(WireEvent) :
        /\ wire' = wire \o s
        /\ \A k \in 1..Len(s) : s[k].t # "closed" /\ s[k].t # "toplevel" /\ s[k].id = i
  BY <1>2
<1>4. /\ Len(wire) \in Nat /\ Len(s) \in Nat /\ Len(wire') = Len(wire) + Len(s)
      /\ DOMAIN wire' = 1..(Len(wire) + Len(s))
      /\ \A k \in 1..Len(wire) : wire'[k] = wire[k]
      /\ \A k \in (Len(wire) + 1)..(Len(wire) + Len(s)) :
           k - Len(wire) \in 1..Len(s) /\ wire'[k] = s[k - Len(wire)]
  BY <1>0, <1>3, WireAppended
<1> QED BY <1>1, <1>3, <1>4 DEF Extends, Known

(* A window closes: one closed event, the last about it.                   *)
LEMMA ClosedWire ==
  ASSUME TypeOK, NEW i \in Id, CloseWindow(i)
  PROVE  /\ Extends(i) /\ i \in DOMAIN open /\ Known' = Known /\ closed' = closed \cup {i}
         /\ Len(wire') = Len(wire) + 1 /\ wire'[Len(wire) + 1].t = "closed"
<1> DEFINE e == [t |-> "closed", id |-> i]
<1>1. wire \in Seq(WireEvent) /\ e \in WireEvent /\ e.t = "closed" /\ e.id = i
  BY DEF TypeOK, WireEvent
<1>2. wire' = Append(wire, e) /\ i \in DOMAIN open /\ closed' = closed \cup {i}
  BY DEF CloseWindow
<1>3. Known' = Known
  BY <1>2 DEF CloseWindow, Known
<1> HIDE DEF e
<1>4. /\ wire' \in Seq(WireEvent) /\ Len(wire') = Len(wire) + 1
      /\ \A k \in 1..Len(wire) : wire'[k] = wire[k]
      /\ wire'[Len(wire) + 1] = e
  BY <1>1, <1>2, AppendProperties
<1> QED BY <1>1, <1>2, <1>3, <1>4, LenProperties DEF Extends

-----------------------------------------------------------------------------
LEMMA FeedInit == Init => FeedInv
<1> SUFFICES ASSUME Init PROVE FeedInv
  OBVIOUS
<1>1. /\ registry = [i \in {} |-> {}] /\ open = [i \in {} |-> {}]
      /\ handles = {} /\ items = {} /\ wire = <<>> /\ chan = <<>> /\ out = <<>>
  BY DEF Init
<1>2. DOMAIN registry = {} /\ DOMAIN wire = {}
  BY <1>1
<1>3. Queue = <<>> \o <<>>
  BY <1>1 DEF Queue
<1>4. <<>> \in Seq({}) /\ <<>> \o <<>> = <<>>
  BY ConcatEmptySeq, EmptySeq
<1>5. DOMAIN Queue = {}
  BY <1>3, <1>4
<1> QED BY <1>1, <1>2, <1>5
        DEF FeedInv, RowHasHandle, EventHasHandle, IdsKnown, AnnouncedOnce, ClosedLast,
            RemovedLast, TailSound, RowsAgree, Shown, Published

(* Nothing FeedInv speaks of changes.                                      *)
LEMMA FeedSteady ==
  ASSUME FeedInv, UNCHANGED <<open, closed, wire, registry, handles, items, Queue>>
  PROVE  FeedInv'
BY DEF FeedInv, RowHasHandle, EventHasHandle, IdsKnown, AnnouncedOnce, ClosedLast,
       RemovedLast, TailSound, RowsAgree, Shown, Published, Queued, LastAbout, Known

(* The compositor leaves the rows, the queue and the registry alone.       *)
LEMMA CompositorLeaves ==
  ASSUME Compositor
  PROVE  UNCHANGED <<registry, handles, items, Queue>>
BY DEF Compositor, OpenWindow, SetTitle, SetAppId, SetState, CloseWindow, zwinVars,
       consVars, Queue

LEMMA FeedCompositor == TypeOK /\ FeedInv /\ Compositor => FeedInv'
<1> SUFFICES ASSUME TypeOK, FeedInv, Compositor PROVE FeedInv'
  OBVIOUS
<1>1. UNCHANGED <<registry, handles, items, Queue>>
  BY CompositorLeaves
<1>2. /\ (DOMAIN registry = handles)' /\ RowHasHandle' /\ EventHasHandle'
      /\ TailSound' /\ RowsAgree'
  BY <1>1 DEF FeedInv, RowHasHandle, EventHasHandle, TailSound, RowsAgree, Shown,
              Published, Queued, LastAbout
<1>3. /\ Len(wire) \in Nat /\ DOMAIN wire = 1..Len(wire)
  BY QueueType
<1>4. PICK i \in Id : \/ \E tl \in OpenAs : OpenWindow(i, tl)
                      \/ \/ \E s \in Str : SetTitle(i, s) \/ SetAppId(i, s)
                         \/ \E st \in States : SetState(i, st[1], st[2])
                      \/ CloseWindow(i)
  BY DEF Compositor
<1>5. ASSUME NEW tl \in OpenAs, OpenWindow(i, tl)
      PROVE  IdsKnown' /\ AnnouncedOnce' /\ ClosedLast' /\ RemovedLast'
  <2>1. /\ Extends(i) /\ i \notin Known /\ Known' = Known \cup {i} /\ closed' = closed
        /\ \A k \in (Len(wire) + 1)..Len(wire') :
             wire'[k].t # "closed" /\ (wire'[k].t = "toplevel" => k = Len(wire) + 1)
    BY <1>5, OpenedWire
  <2>2. IdsKnown'
    BY <1>1, <1>3, <2>1 DEF FeedInv, IdsKnown, Extends
  <2>3. /\ i \notin handles /\ ~Queued(i) /\ ~Shown(i)
        /\ \A k \in DOMAIN wire : wire[k].id # i
    BY <2>1 DEF FeedInv, IdsKnown, Queued, Shown
  <2>4. AnnouncedOnce'
    <3> SUFFICES ASSUME NEW k \in DOMAIN wire', wire'[k].t = "toplevel"
                 PROVE  /\ wire'[k].id \notin handles /\ ~Queued(wire'[k].id)
                        /\ ~Shown(wire'[k].id)
                        /\ \A j \in DOMAIN wire' :
                             wire'[j].t = "toplevel" /\ wire'[j].id = wire'[k].id => j = k
      BY <1>1 DEF AnnouncedOnce, Queued, Shown
    <3>1. CASE k \in 1..Len(wire)
      <4>1. wire'[k] = wire[k] /\ wire[k].id # i
        BY <1>3, <2>1, <2>3, <3>1 DEF Extends
      <4> QED BY <1>3, <2>1, <3>1, <4>1 DEF FeedInv, AnnouncedOnce, Extends
    <3>2. CASE k \notin 1..Len(wire)
      <4>1. k \in (Len(wire) + 1)..Len(wire')
        BY <1>3, <2>1, <3>2 DEF Extends
      <4>2. wire'[k].id = i /\ k = Len(wire) + 1
        BY <2>1, <4>1 DEF Extends
      <4> QED BY <1>3, <2>1, <2>3, <4>1, <4>2 DEF Extends
    <3> QED BY <3>1, <3>2
  <2>5. ClosedLast'
    BY <1>3, <2>1, <2>3 DEF FeedInv, ClosedLast, IdsKnown, Extends, Known
  <2>6. RemovedLast'
    <3> SUFFICES ASSUME NEW k \in DOMAIN Queue, Queue[k].kind = "removed"
                 PROVE  /\ Queue[k].id \in closed /\ Queue[k].id \notin DOMAIN registry
                        /\ \A j \in DOMAIN wire' : wire'[j].id # Queue[k].id
                        /\ LastAbout(k)
      BY <1>1, <2>1 DEF RemovedLast, LastAbout
    <3>1. Queue[k].id # i
      BY <2>3 DEF Queued
    <3> QED BY <1>3, <2>1, <3>1 DEF FeedInv, RemovedLast, Extends
  <2> QED BY <2>2, <2>4, <2>5, <2>6
<1>6. ASSUME \/ \E s \in Str : SetTitle(i, s) \/ SetAppId(i, s)
             \/ \E st \in States : SetState(i, st[1], st[2])
      PROVE  IdsKnown' /\ AnnouncedOnce' /\ ClosedLast' /\ RemovedLast'
  <2>1. /\ Extends(i) /\ i \in DOMAIN open /\ Known' = Known /\ closed' = closed
        /\ \A k \in (Len(wire) + 1)..Len(wire') :
             wire'[k].t # "closed" /\ wire'[k].t # "toplevel"
    BY <1>6, ChangedWire
  <2>2. i \in Known /\ i \notin closed
    BY <2>1 DEF TypeOK, Known
  <2>3. IdsKnown'
    BY <1>1, <1>3, <2>1, <2>2 DEF FeedInv, IdsKnown, Extends
  <2>4. AnnouncedOnce'
    BY <1>1, <1>3, <2>1 DEF FeedInv, AnnouncedOnce, Extends, Queued, Shown
  <2>5. ClosedLast'
    BY <1>3, <2>1, <2>2 DEF FeedInv, ClosedLast, Extends
  <2>6. RemovedLast'
    BY <1>1, <1>3, <2>1, <2>2 DEF FeedInv, RemovedLast, Extends, LastAbout
  <2> QED BY <2>3, <2>4, <2>5, <2>6
<1>7. ASSUME CloseWindow(i)
      PROVE  IdsKnown' /\ AnnouncedOnce' /\ ClosedLast' /\ RemovedLast'
  <2>1. /\ Extends(i) /\ i \in DOMAIN open /\ Known' = Known /\ closed' = closed \cup {i}
        /\ Len(wire') = Len(wire) + 1 /\ wire'[Len(wire) + 1].t = "closed"
    BY <1>7, ClosedWire
  <2>2. i \in Known /\ i \notin closed
    BY <2>1 DEF TypeOK, Known
  <2>3. IdsKnown'
    BY <1>1, <1>3, <2>1, <2>2 DEF FeedInv, IdsKnown, Extends
  <2>4. AnnouncedOnce'
    BY <1>1, <1>3, <2>1 DEF FeedInv, AnnouncedOnce, Extends, Queued, Shown
  <2>5. ClosedLast'
    BY <1>3, <2>1, <2>2 DEF FeedInv, ClosedLast, Extends
  <2>6. RemovedLast'
    BY <1>1, <1>3, <2>1, <2>2 DEF FeedInv, RemovedLast, Extends, LastAbout
  <2> QED BY <2>3, <2>4, <2>5, <2>6
<1> QED BY <1>2, <1>4, <1>5, <1>6, <1>7 DEF FeedInv

(* The zwindows thread takes one event off the wire and may queue one.     *)
LEMMA HandlersTake ==
  ASSUME TypeOK, Handlers
  PROVE  /\ wire # <<>> /\ wire' = Tail(wire) /\ out = <<>>
         /\ UNCHANGED <<open, closed, chan, items>> /\ Known' = Known
         /\ \/ OnToplevel /\ Head(wire).t = "toplevel"
            \/ OnClosed /\ Head(wire).t = "closed"
            \/ /\ handles' = handles
               /\ Ignore \/ \E tl \in Toplevel :
                              Head(wire).id \in DOMAIN registry /\ Publish(Head(wire).id, tl)
<1> DEFINE e == Head(wire)
<1>1. CASE OnToplevel
  BY <1>1 DEF OnToplevel, Dispatch, consVars, Known
<1>2. CASE OnClosed
  BY <1>2 DEF OnClosed, Dispatch, consVars, Known
<1>3. CASE OnAppId
  <2>1. e.id \in DOMAIN registry =>
          registry[e.id].tl \in Toplevel /\ [registry[e.id].tl EXCEPT !.app = e.str] \in Toplevel
    <3>1. e.str \in Str
      BY <1>3, Dispatched DEF OnAppId
    <3>2. e.id \in DOMAIN registry => registry[e.id].tl \in Toplevel
      BY RegistryHolds
    <3> QED BY <3>1, <3>2, ToplevelUpdates
  <2>2. \/ Ignore
        \/ e.id \in DOMAIN registry /\ Publish(e.id, [registry[e.id].tl EXCEPT !.app = e.str])
    BY <1>3 DEF OnAppId
  <2>3. Dispatch("app_id") /\ UNCHANGED <<open, closed, handles, chan, items>>
    BY <1>3 DEF OnAppId, consVars
  <2> QED BY <2>1, <2>2, <2>3 DEF Dispatch, Known
<1>4. CASE OnTitle
  <2>1. e.id \in DOMAIN registry =>
          registry[e.id].tl \in Toplevel /\ [registry[e.id].tl EXCEPT !.title = e.str] \in Toplevel
    <3>1. e.str \in Str
      BY <1>4, Dispatched DEF OnTitle
    <3>2. e.id \in DOMAIN registry => registry[e.id].tl \in Toplevel
      BY RegistryHolds
    <3> QED BY <3>1, <3>2, ToplevelUpdates
  <2>2. \/ Ignore
        \/ e.id \in DOMAIN registry /\ Publish(e.id, [registry[e.id].tl EXCEPT !.title = e.str])
    BY <1>4 DEF OnTitle
  <2>3. Dispatch("title") /\ UNCHANGED <<open, closed, handles, chan, items>>
    BY <1>4 DEF OnTitle, consVars
  <2> QED BY <2>1, <2>2, <2>3 DEF Dispatch, Known
<1>5. CASE OnState
  <2> DEFINE tl == [registry[e.id].tl EXCEPT !.activated = e.activated,
                                             !.minimized = e.minimized]
  <2>1. e.id \in DOMAIN registry => tl \in Toplevel
    <3>1. e.activated \in BOOLEAN /\ e.minimized \in BOOLEAN
      BY <1>5, Dispatched DEF OnState
    <3>2. e.id \in DOMAIN registry => registry[e.id].tl \in Toplevel
      BY RegistryHolds
    <3> QED BY <3>1, <3>2, ToplevelUpdates
  <2>2. Ignore \/ (e.id \in DOMAIN registry /\ Publish(e.id, tl))
    <3> DEFINE news == /\ e.id \in DOMAIN registry
                       /\ \/ ~registry[e.id].published
                          \/ registry[e.id].tl.activated # e.activated
                          \/ registry[e.id].tl.minimized # e.minimized
    <3>1. CASE news
      BY <1>5, <3>1 DEF OnState
    <3>2. CASE ~news
      BY <1>5, <3>2 DEF OnState, Ignore
    <3> QED BY <3>1, <3>2
  <2>3. Dispatch("state") /\ UNCHANGED <<open, closed, handles, chan, items>>
    BY <1>5 DEF OnState, consVars
  <2> QED BY <2>1, <2>2, <2>3 DEF Dispatch, Known
<1> QED BY <1>1, <1>2, <1>3, <1>4, <1>5 DEF Handlers

(* A window is announced: nothing was known of it.                         *)
LEMMA FeedAnnounced ==
  ASSUME TypeOK, FeedInv, OnToplevel PROVE FeedInv'
<1> DEFINE i == Head(wire).id
<1>1. /\ wire # <<>> /\ wire' = Tail(wire) /\ Head(wire).t = "toplevel"
      /\ UNCHANGED <<open, closed, items, Queue>> /\ Known' = Known
  BY DEF OnToplevel, Dispatch, consVars, Known, Queue
<1>2. /\ Len(wire) \in Nat /\ Len(wire) > 0
      /\ DOMAIN wire = 1..Len(wire) /\ DOMAIN wire' = 1..(Len(wire) - 1)
      /\ wire[1] = Head(wire)
      /\ \A k \in 1..(Len(wire) - 1) : wire'[k] = wire[k + 1]
  BY <1>1, WireShrinks
<1>3. /\ i \notin handles /\ ~Queued(i) /\ ~Shown(i) /\ i \in Known
      /\ \A j \in DOMAIN wire : wire[j].t = "toplevel" /\ wire[j].id = i => j = 1
  BY <1>1, <1>2 DEF FeedInv, AnnouncedOnce, IdsKnown
<1>4. /\ DOMAIN registry' = DOMAIN registry \cup {i} /\ handles' = handles \cup {i}
      /\ \A j \in DOMAIN registry : registry'[j] = registry[j]
      /\ registry'[i].published = FALSE
  BY <1>3 DEF OnToplevel, FeedInv
<1> HIDE DEF i
<1>5. (DOMAIN registry = handles)' /\ RowHasHandle' /\ EventHasHandle' /\ IdsKnown'
  BY <1>1, <1>2, <1>3, <1>4 DEF FeedInv, RowHasHandle, EventHasHandle, IdsKnown
<1>6. AnnouncedOnce'
  BY <1>1, <1>2, <1>3, <1>4 DEF FeedInv, AnnouncedOnce, Queued, Shown
<1>7. ClosedLast'
  BY <1>1, <1>2 DEF FeedInv, ClosedLast
<1>8. RemovedLast'
  BY <1>1, <1>2, <1>3, <1>4 DEF FeedInv, RemovedLast, LastAbout, Queued
<1>9. TailSound'
  BY <1>1, <1>3, <1>4 DEF FeedInv, TailSound, LastAbout, Published, Queued
<1>10. RowsAgree'
  BY <1>1, <1>3, <1>4 DEF FeedInv, RowsAgree, Published, Queued, Shown
<1> QED BY <1>5, <1>6, <1>7, <1>8, <1>9, <1>10 DEF FeedInv

(* Nothing but the wire changes.                                           *)
LEMMA FeedIgnored ==
  ASSUME TypeOK, FeedInv, wire # <<>>, wire' = Tail(wire),
         UNCHANGED <<open, closed, handles, items, Queue>>,
         DOMAIN registry' = DOMAIN registry,
         \A j \in DOMAIN registry : registry'[j] = registry[j]
  PROVE  FeedInv'
<1>1. /\ Len(wire) \in Nat /\ Len(wire) > 0
      /\ DOMAIN wire = 1..Len(wire) /\ DOMAIN wire' = 1..(Len(wire) - 1)
      /\ wire[1] = Head(wire)
      /\ \A k \in 1..(Len(wire) - 1) : wire'[k] = wire[k + 1]
  BY WireShrinks
<1>2. IdsKnown' /\ AnnouncedOnce' /\ ClosedLast'
  BY <1>1 DEF FeedInv, IdsKnown, AnnouncedOnce, ClosedLast, Queued, Shown, Known
<1>3. RemovedLast'
  BY <1>1 DEF FeedInv, RemovedLast, LastAbout
<1>4. (DOMAIN registry = handles)' /\ RowHasHandle' /\ EventHasHandle' /\ TailSound' /\ RowsAgree'
  BY DEF FeedInv, RowHasHandle, EventHasHandle, TailSound, RowsAgree, LastAbout, Queued,
         Shown, Published
<1> QED BY <1>2, <1>3, <1>4 DEF FeedInv

(* An entry is published: its event is the last of the queue and carries   *)
(* what the registry now holds.                                            *)
LEMMA FeedPublished ==
  ASSUME TypeOK, FeedInv, wire # <<>>, wire' = Tail(wire), out = <<>>,
         UNCHANGED <<open, closed, handles, items, chan>>,
         NEW i \in DOMAIN registry, NEW tl \in Toplevel, Publish(i, tl), i = Head(wire).id
  PROVE  FeedInv'
<1> DEFINE e == [kind |-> IF registry[i].published THEN "updated" ELSE "added",
                 id |-> i, tl |-> tl]
           n == Len(Queue)
<1>1. /\ Len(wire) \in Nat /\ Len(wire) > 0
      /\ DOMAIN wire = 1..Len(wire) /\ DOMAIN wire' = 1..(Len(wire) - 1)
      /\ wire[1] = Head(wire)
      /\ \A k \in 1..(Len(wire) - 1) : wire'[k] = wire[k + 1]
  BY WireShrinks
<1>2. e \in ToplevelEvent /\ e.kind # "removed" /\ e.id = i /\ e.tl = tl /\ out' = <<e>>
  BY DEF Publish, ToplevelEvent, TypeOK
<1>3. /\ DOMAIN registry' = DOMAIN registry
      /\ \A j \in DOMAIN registry : j # i => registry'[j] = registry[j]
      /\ registry'[i].tl = tl /\ registry'[i].published = TRUE
  BY DEF Publish, TypeOK, Entry
<1> HIDE DEF e
<1>4. /\ n \in Nat /\ DOMAIN Queue = 1..n /\ DOMAIN Queue' = 1..(n + 1)
      /\ Queue'[n + 1] = e
      /\ \A k \in 1..n : Queue'[k] = Queue[k]
  BY <1>2, QueueGrows, QueueType
<1> HIDE DEF n
<1>5. i \in handles /\ i \in Known
  BY DEF FeedInv, IdsKnown
<1>6. /\ \A k \in 1..n : Queue[k].kind = "removed" => Queue[k].id # i
      /\ \A k \in DOMAIN wire : wire[k].t = "toplevel" => wire[k].id # i
  BY <1>4, <1>5 DEF FeedInv, RemovedLast, AnnouncedOnce
<1>7. (DOMAIN registry = handles)' /\ RowHasHandle'
  BY <1>3, <1>4 DEF FeedInv, RowHasHandle
<1>8. EventHasHandle'
  <2> SUFFICES ASSUME NEW k \in DOMAIN Queue', Queue'[k].kind # "removed"
               PROVE  \/ Queue'[k].id \in handles'
                      \/ \E j \in DOMAIN Queue' : /\ j > k /\ Queue'[j].id = Queue'[k].id
                                                  /\ Queue'[j].kind = "removed"
    BY DEF EventHasHandle
  <2>1. CASE k = n + 1
    BY <1>2, <1>4, <1>5, <2>1
  <2>2. CASE k \in 1..n
    <3>1. \/ Queue[k].id \in handles
          \/ \E j \in 1..n : j > k /\ Queue[j].id = Queue[k].id /\ Queue[j].kind = "removed"
      BY <1>4, <2>2 DEF FeedInv, EventHasHandle
    <3> QED BY <1>4, <2>2, <3>1
  <2> QED BY <1>4, <2>1, <2>2
<1>9. IdsKnown'
  BY <1>1, <1>2, <1>4, <1>5 DEF FeedInv, IdsKnown, Known
<1>10. AnnouncedOnce'
  BY <1>1, <1>2, <1>4, <1>6 DEF FeedInv, AnnouncedOnce, Queued, Shown
<1>11. ClosedLast'
  BY <1>1 DEF FeedInv, ClosedLast
<1>12. RemovedLast'
  <2> SUFFICES ASSUME NEW k \in DOMAIN Queue', Queue'[k].kind = "removed"
               PROVE  /\ Queue'[k].id \in closed' /\ Queue'[k].id \notin DOMAIN registry'
                      /\ \A j \in DOMAIN wire' : wire'[j].id # Queue'[k].id
                      /\ \A j \in DOMAIN Queue' : Queue'[j].id = Queue'[k].id => j <= k
    BY DEF RemovedLast, LastAbout
  <2>1. k \in 1..n /\ Queue'[k] = Queue[k] /\ k \in DOMAIN Queue
    BY <1>2, <1>4
  <2>2. /\ Queue[k].id \in closed /\ Queue[k].id \notin DOMAIN registry
        /\ \A j \in DOMAIN wire : wire[j].id # Queue[k].id
        /\ \A j \in DOMAIN Queue : Queue[j].id = Queue[k].id => j <= k
    BY <2>1 DEF FeedInv, RemovedLast, LastAbout
  <2>3. \A j \in DOMAIN wire' : wire'[j].id # Queue[k].id
    BY <1>1, <2>2
  <2>4. \A j \in DOMAIN Queue' : Queue'[j].id = Queue[k].id => j <= k
    BY <1>2, <1>4, <1>6, <2>1, <2>2
  <2> QED BY <1>1, <1>3, <2>1, <2>2, <2>3, <2>4
<1>13. TailSound'
  <2> SUFFICES ASSUME NEW k \in DOMAIN Queue', LastAbout(k)'
               PROVE  /\ Queue'[k].kind = "removed" => Queue'[k].id \notin DOMAIN registry'
                      /\ Queue'[k].kind # "removed" =>
                           /\ Published(Queue[k].id)'
                           /\ registry'[Queue'[k].id].tl = Queue'[k].tl
    BY DEF TailSound
  <2>1. CASE k = n + 1
    BY <1>2, <1>3, <1>4, <2>1 DEF Published
  <2>2. CASE k \in 1..n
    <3>1. Queue'[k] = Queue[k] /\ Queue[k].id # i
      BY <1>2, <1>4, <2>2 DEF LastAbout
    <3>2. LastAbout(k)
      BY <1>4, <2>2 DEF LastAbout
    <3> QED BY <1>3, <1>4, <2>2, <3>1, <3>2 DEF FeedInv, TailSound, Published
  <2> QED BY <1>4, <2>1, <2>2
<1>14. RowsAgree'
  <2> SUFFICES ASSUME NEW j \in Id, ~Queued(j)'
               PROVE  /\ Shown(j)' <=> Published(j)'
                      /\ \A r \in items' : r.id = j => r = RowOf(j, registry'[j].tl)
    BY DEF RowsAgree
  <2>1. j # i /\ ~Queued(j)
    BY <1>2, <1>4 DEF Queued
  <2> QED BY <1>3, <2>1 DEF FeedInv, RowsAgree, Shown, Published
<1> QED BY <1>7, <1>8, <1>9, <1>10, <1>11, <1>12, <1>13, <1>14 DEF FeedInv

(* A registered window closes: its removal is the last thing of it.        *)
LEMMA FeedClosed ==
  ASSUME TypeOK, FeedInv, OnClosed PROVE FeedInv'
<1> DEFINE i == Head(wire).id
           n == Len(Queue)
<1>1. /\ wire # <<>> /\ wire' = Tail(wire) /\ Head(wire).t = "closed" /\ out = <<>>
      /\ UNCHANGED <<open, closed, items, chan>> /\ Known' = Known
  BY DEF OnClosed, Dispatch, consVars, Known
<1>2. /\ Len(wire) \in Nat /\ Len(wire) > 0
      /\ DOMAIN wire = 1..Len(wire) /\ DOMAIN wire' = 1..(Len(wire) - 1)
      /\ wire[1] = Head(wire)
      /\ \A k \in 1..(Len(wire) - 1) : wire'[k] = wire[k + 1]
  BY <1>1, WireShrinks
<1>3. /\ i \in closed /\ i \in Known /\ \A j \in 1..(Len(wire) - 1) : wire'[j].id # i
  BY <1>1, <1>2 DEF FeedInv, ClosedLast, IdsKnown
<1>4. /\ DOMAIN registry' = DOMAIN registry \ {i} /\ handles' = handles \ {i}
      /\ \A j \in DOMAIN registry' : registry'[j] = registry[j]
  BY DEF OnClosed
<1>5. CASE i \notin DOMAIN registry
  <2>1. handles' = handles /\ DOMAIN registry' = DOMAIN registry
    BY <1>4, <1>5 DEF FeedInv
  <2>2. \A j \in DOMAIN registry : registry'[j] = registry[j]
    BY <1>4, <2>1
  <2>3. Queue' = Queue
    BY <1>1, <1>5 DEF OnClosed, Queue
  <2> QED BY <1>1, <2>1, <2>2, <2>3, FeedIgnored
<1>6. CASE i \in DOMAIN registry
  <2> DEFINE e == [kind |-> "removed", id |-> i]
  <2>1. e \in ToplevelEvent /\ e.kind = "removed" /\ e.id = i /\ out' = <<e>>
    BY <1>6 DEF OnClosed, ToplevelEvent, TypeOK
  <2> HIDE DEF e
  <2>2. /\ n \in Nat /\ DOMAIN Queue = 1..n /\ DOMAIN Queue' = 1..(n + 1)
        /\ Queue'[n + 1] = e
        /\ \A k \in 1..n : Queue'[k] = Queue[k]
    BY <1>1, <2>1, QueueGrows, QueueType
  <2> HIDE DEF n, i
  <2>3. /\ \A k \in 1..n : Queue[k].kind = "removed" => Queue[k].id # i
        /\ \A k \in DOMAIN wire : wire[k].t = "toplevel" => wire[k].id # i
    BY <1>6, <2>2 DEF FeedInv, RemovedLast, AnnouncedOnce
  <2>4. (DOMAIN registry = handles)'
    BY <1>4 DEF FeedInv
  <2>5. RowHasHandle'
    <3>1. /\ n + 1 \in DOMAIN Queue'
          /\ Queue'[n + 1].id = i /\ Queue'[n + 1].kind = "removed"
      BY <2>1, <2>2
    <3>2. \A k \in DOMAIN Queue : k \in DOMAIN Queue' /\ Queue'[k] = Queue[k]
      BY <2>2
    <3> SUFFICES ASSUME NEW r \in items
                 PROVE  \/ r.id \in handles'
                        \/ \E k \in DOMAIN Queue' : /\ Queue'[k].id = r.id
                                                    /\ Queue'[k].kind = "removed"
      BY <1>1 DEF RowHasHandle
    <3>3. \/ r.id \in handles
          \/ \E k \in DOMAIN Queue : Queue[k].id = r.id /\ Queue[k].kind = "removed"
      BY DEF FeedInv, RowHasHandle
    <3> QED BY <1>1, <1>4, <3>1, <3>2, <3>3
  <2>6. EventHasHandle'
    <3> SUFFICES ASSUME NEW k \in DOMAIN Queue', Queue'[k].kind # "removed"
                 PROVE  \/ Queue'[k].id \in handles'
                        \/ \E j \in DOMAIN Queue' : /\ j > k /\ Queue'[j].id = Queue'[k].id
                                                    /\ Queue'[j].kind = "removed"
      BY DEF EventHasHandle
    <3>1. k \in 1..n /\ Queue'[k] = Queue[k]
      BY <2>1, <2>2
    <3>2. CASE Queue[k].id = i
      BY <2>1, <2>2, <3>1, <3>2
    <3>3. CASE Queue[k].id # i
      <4>1. \/ Queue[k].id \in handles
            \/ \E j \in 1..n : j > k /\ Queue[j].id = Queue[k].id /\ Queue[j].kind = "removed"
        BY <2>2, <3>1 DEF FeedInv, EventHasHandle
      <4> QED BY <1>4, <2>2, <3>1, <3>3, <4>1
    <3> QED BY <3>2, <3>3
  <2>7. IdsKnown'
    BY <1>1, <1>2, <1>3, <1>4, <2>1, <2>2 DEF FeedInv, IdsKnown
  <2>8. AnnouncedOnce'
    BY <1>1, <1>2, <1>4, <2>1, <2>2, <2>3 DEF FeedInv, AnnouncedOnce, Queued, Shown
  <2>9. ClosedLast'
    BY <1>1, <1>2 DEF FeedInv, ClosedLast
  <2>10. RemovedLast'
    <3> SUFFICES ASSUME NEW k \in DOMAIN Queue', Queue'[k].kind = "removed"
                 PROVE  /\ Queue'[k].id \in closed' /\ Queue'[k].id \notin DOMAIN registry'
                        /\ \A j \in DOMAIN wire' : wire'[j].id # Queue'[k].id
                        /\ LastAbout(k)'
      BY DEF RemovedLast
    <3>1. CASE k = n + 1
      BY <1>1, <1>2, <1>3, <1>4, <2>1, <2>2, <3>1 DEF LastAbout
    <3>2. CASE k \in 1..n
      <4>1. Queue'[k] = Queue[k] /\ Queue[k].id # i
        BY <2>2, <2>3, <3>2
      <4>2. /\ Queue[k].id \in closed /\ Queue[k].id \notin DOMAIN registry
            /\ \A j \in DOMAIN wire : wire[j].id # Queue[k].id
            /\ LastAbout(k)
        BY <2>2, <3>2, <4>1 DEF FeedInv, RemovedLast
      <4>3. LastAbout(k)'
        BY <2>1, <2>2, <3>2, <4>1, <4>2 DEF LastAbout
      <4> QED BY <1>1, <1>2, <1>4, <4>1, <4>2, <4>3
    <3> QED BY <2>2, <3>1, <3>2
  <2>11. TailSound'
    <3> SUFFICES ASSUME NEW k \in DOMAIN Queue', LastAbout(k)'
                 PROVE  /\ Queue'[k].kind = "removed" => Queue'[k].id \notin DOMAIN registry'
                        /\ Queue'[k].kind # "removed" =>
                             /\ Published(Queue[k].id)'
                             /\ registry'[Queue'[k].id].tl = Queue'[k].tl
      BY DEF TailSound
    <3>1. CASE k = n + 1
      BY <1>4, <2>1, <2>2, <3>1
    <3>2. CASE k \in 1..n
      <4>1. Queue'[k] = Queue[k] /\ Queue[k].id # i
        BY <2>1, <2>2, <3>2 DEF LastAbout
      <4>2. LastAbout(k)
        BY <2>2, <3>2 DEF LastAbout
      <4> QED BY <1>4, <2>2, <3>2, <4>1, <4>2 DEF FeedInv, TailSound, Published
    <3> QED BY <2>2, <3>1, <3>2
  <2>12. RowsAgree'
    <3> SUFFICES ASSUME NEW j \in Id, ~Queued(j)'
                 PROVE  /\ Shown(j)' <=> Published(j)'
                        /\ \A r \in items' : r.id = j => r = RowOf(j, registry'[j].tl)
      BY DEF RowsAgree
    <3>1. j # i /\ ~Queued(j)
      BY <2>1, <2>2 DEF Queued
    <3> QED BY <1>1, <1>4, <3>1 DEF FeedInv, RowsAgree, Shown, Published
  <2> QED BY <2>4, <2>5, <2>6, <2>7, <2>8, <2>9, <2>10, <2>11, <2>12 DEF FeedInv
<1> QED BY <1>5, <1>6

LEMMA FeedHandlers == TypeOK /\ FeedInv /\ Handlers => FeedInv'
<1> SUFFICES ASSUME TypeOK, FeedInv, Handlers PROVE FeedInv'
  OBVIOUS
<1>1. /\ wire # <<>> /\ wire' = Tail(wire) /\ out = <<>>
      /\ UNCHANGED <<open, closed, chan, items>>
      /\ \/ OnToplevel
         \/ OnClosed
         \/ /\ handles' = handles
            /\ Ignore \/ \E tl \in Toplevel :
                           Head(wire).id \in DOMAIN registry /\ Publish(Head(wire).id, tl)
  BY HandlersTake
<1>2. Ignore /\ handles' = handles => FeedInv'
  <2> SUFFICES ASSUME Ignore, handles' = handles PROVE FeedInv'
    OBVIOUS
  <2>1. UNCHANGED <<registry, Queue>>
    BY <1>1 DEF Ignore, Queue
  <2> QED BY <1>1, <2>1, FeedIgnored
<1>3. ASSUME NEW tl \in Toplevel, Head(wire).id \in DOMAIN registry,
             Publish(Head(wire).id, tl), handles' = handles
      PROVE  FeedInv'
  BY <1>1, <1>3, FeedPublished
<1> QED BY <1>1, <1>2, <1>3, FeedAnnounced, FeedClosed

(* ApplyEvent takes the head of the queue: what it says of its window is   *)
(* what the rows then say, and of the others nothing changes.              *)
LEMMA FeedApplied ==
  ASSUME TypeOK, FeedInv, ApplyEvent PROVE FeedInv'
<1> DEFINE e == Queue[1]
           n == Len(Queue)
<1>1. UNCHANGED <<open, closed, wire, registry, handles>> /\ Known' = Known
  BY DEF ApplyEvent, compVars, zwinVars, Known
<1>2. /\ n \in Nat /\ n > 0 /\ DOMAIN Queue = 1..n /\ DOMAIN Queue' = 1..(n - 1)
      /\ e = Head(chan)
      /\ \A k \in 1..(n - 1) : Queue'[k] = Queue[k + 1]
  BY QueueShrinks
<1>3. /\ \A r : r.id # e.id => (r \in items' <=> r \in items)
      /\ e.kind = "removed" => \A r \in items' : r.id # e.id
      /\ e.kind # "removed" => \A r : r.id = e.id => (r \in items' <=> r = RowOf(e.id, e.tl))
  BY <1>2, AppliedRows
<1>4. \A i : \A k \in 1..n : Queue[k].id = i => i = e.id \/ Queued(i)'
  <2> SUFFICES ASSUME NEW i, NEW k \in 1..n, Queue[k].id = i, i # e.id PROVE Queued(i)'
    OBVIOUS
  <2>1. k - 1 \in 1..(n - 1) /\ (k - 1) + 1 = k
    BY <1>2
  <2>2. Queue'[k - 1] = Queue[k]
    BY <1>2, <2>1
  <2> QED BY <1>2, <2>1, <2>2 DEF Queued
<1> HIDE DEF n
<1>5. (DOMAIN registry = handles)'
  BY <1>1 DEF FeedInv
<1>6. \A k \in 1..(n - 1) : k + 1 \in 1..n /\ k + 1 # 1
  BY <1>2
<1>7. RowHasHandle'
  <2> SUFFICES ASSUME NEW r \in items', r.id \notin handles
               PROVE  \E k \in DOMAIN Queue' : Queue'[k].id = r.id /\ Queue'[k].kind = "removed"
    BY <1>1 DEF RowHasHandle
  <2>1. CASE r.id = e.id
    <3>1. e.kind # "removed" /\ 1 \in 1..n
      BY <1>2, <1>3, <2>1
    <3>2. PICK j \in 1..n : j > 1 /\ Queue[j].id = e.id /\ Queue[j].kind = "removed"
      BY <1>2, <2>1, <3>1 DEF FeedInv, EventHasHandle
    <3>3. j - 1 \in 1..(n - 1) /\ (j - 1) + 1 = j
      BY <1>2, <3>2
    <3> QED BY <1>2, <2>1, <3>2, <3>3
  <2>2. CASE r.id # e.id
    <3>1. PICK j \in 1..n : Queue[j].id = r.id /\ Queue[j].kind = "removed"
      BY <1>2, <1>3, <2>2 DEF FeedInv, RowHasHandle
    <3>2. j # 1
      BY <2>2, <3>1
    <3>3. j - 1 \in 1..(n - 1) /\ (j - 1) + 1 = j
      BY <1>2, <3>2
    <3> QED BY <1>2, <3>1, <3>3
  <2> QED BY <2>1, <2>2
<1>8. EventHasHandle'
  <2> SUFFICES ASSUME NEW k \in 1..(n - 1), Queue'[k].kind # "removed", Queue'[k].id \notin handles
               PROVE  \E j \in 1..(n - 1) : /\ j > k /\ Queue'[j].id = Queue'[k].id
                                            /\ Queue'[j].kind = "removed"
    BY <1>1, <1>2 DEF EventHasHandle
  <2>1. PICK j \in 1..n : j > k + 1 /\ Queue[j].id = Queue[k + 1].id /\ Queue[j].kind = "removed"
    BY <1>2, <1>6 DEF FeedInv, EventHasHandle
  <2>2. j - 1 \in 1..(n - 1) /\ (j - 1) + 1 = j /\ j - 1 > k
    BY <1>2, <2>1
  <2> QED BY <1>2, <2>1, <2>2
<1>9. IdsKnown'
  <2>1. e.id \in Known
    BY <1>2 DEF FeedInv, IdsKnown
  <2>2. \A k \in 1..(n - 1) : Queue'[k].id \in Known
    BY <1>2, <1>6 DEF FeedInv, IdsKnown
  <2>3. \A r \in items' : r.id \in Known
    BY <1>3, <2>1 DEF FeedInv, IdsKnown
  <2> QED BY <1>1, <1>2, <2>2, <2>3 DEF FeedInv, IdsKnown
<1>10. AnnouncedOnce'
  <2> SUFFICES ASSUME NEW k \in DOMAIN wire, wire[k].t = "toplevel"
               PROVE  ~Queued(wire[k].id)' /\ ~Shown(wire[k].id)'
    BY <1>1 DEF FeedInv, AnnouncedOnce
  <2>1. ~Queued(wire[k].id) /\ ~Shown(wire[k].id)
    BY DEF FeedInv, AnnouncedOnce
  <2>2. wire[k].id # e.id
    BY <1>2, <2>1 DEF Queued
  <2> QED BY <1>1, <1>2, <1>3, <1>6, <2>1, <2>2 DEF Queued, Shown
<1>11. ClosedLast'
  BY <1>1 DEF FeedInv, ClosedLast
<1>12. \A k \in 1..(n - 1) : LastAbout(k)' <=> LastAbout(k + 1)
  <2> SUFFICES ASSUME NEW k \in 1..(n - 1) PROVE LastAbout(k)' <=> LastAbout(k + 1)
    OBVIOUS
  <2>1. ASSUME LastAbout(k)', NEW j \in 1..n, Queue[j].id = Queue[k + 1].id PROVE j <= k + 1
    <3>1. CASE j = 1
      BY <1>2, <3>1
    <3>2. CASE j # 1
      <4>1. j - 1 \in 1..(n - 1) /\ (j - 1) + 1 = j
        BY <1>2, <3>2
      <4>2. Queue'[j - 1] = Queue[j] /\ Queue'[k] = Queue[k + 1]
        BY <1>2, <4>1
      <4>3. j - 1 <= k
        BY <1>2, <2>1, <4>1, <4>2 DEF LastAbout
      <4> QED BY <1>2, <4>3
    <3> QED BY <3>1, <3>2
  <2>2. ASSUME LastAbout(k + 1), NEW j \in 1..(n - 1), Queue'[j].id = Queue'[k].id PROVE j <= k
    <3>1. j + 1 \in 1..n /\ Queue[j + 1].id = Queue[k + 1].id
      BY <1>2, <2>2
    <3>2. j + 1 <= k + 1
      BY <1>2, <2>2, <3>1 DEF LastAbout
    <3> QED BY <1>2, <3>2
  <2> QED BY <1>2, <2>1, <2>2 DEF LastAbout
<1>13. RemovedLast'
  BY <1>1, <1>2, <1>6, <1>12 DEF FeedInv, RemovedLast
<1>14. TailSound'
  BY <1>1, <1>2, <1>6, <1>12 DEF FeedInv, TailSound, Published
<1>15. RowsAgree'
  <2> SUFFICES ASSUME NEW i \in Id, ~Queued(i)'
               PROVE  /\ Shown(i)' <=> Published(i)'
                      /\ \A r \in items' : r.id = i => r = RowOf(i, registry[i].tl)
    BY <1>1 DEF RowsAgree
  <2>1. CASE i # e.id
    <3>1. ~Queued(i)
      BY <1>2, <1>4, <2>1 DEF Queued
    <3> QED BY <1>1, <1>3, <2>1, <3>1 DEF FeedInv, RowsAgree, Shown, Published
  <2>2. CASE i = e.id
    <3>1. LastAbout(1)
      <4> SUFFICES ASSUME NEW j \in 1..n, Queue[j].id = e.id, j > 1 PROVE FALSE
        BY <1>2 DEF LastAbout
      <4>1. j - 1 \in 1..(n - 1) /\ (j - 1) + 1 = j
        BY <1>2
      <4> QED BY <1>2, <2>2, <4>1 DEF Queued
    <3>2. 1 \in 1..n
      BY <1>2
    <3>3. CASE e.kind = "removed"
      <4>1. e.id \notin DOMAIN registry
        BY <1>2, <3>1, <3>2, <3>3 DEF FeedInv, TailSound
      <4> QED BY <1>1, <1>3, <2>2, <3>3, <4>1 DEF Shown, Published
    <3>4. CASE e.kind # "removed"
      <4>1. Published(e.id) /\ registry[e.id].tl = e.tl
        BY <1>2, <3>1, <3>2, <3>4 DEF FeedInv, TailSound
      <4>2. RowOf(e.id, e.tl) \in items' /\ RowOf(e.id, e.tl).id = e.id
        BY <1>3, <3>4 DEF RowOf
      <4>3. Shown(i)' /\ Published(i)'
        BY <1>1, <2>2, <4>1, <4>2 DEF Shown, Published
      <4> QED BY <1>3, <2>2, <3>4, <4>1, <4>3
    <3> QED BY <3>3, <3>4
  <2> QED BY <2>1, <2>2
<1> QED BY <1>5, <1>7, <1>8, <1>9, <1>10, <1>11, <1>13, <1>14, <1>15 DEF FeedInv

LEMMA FeedStep == TypeOK /\ FeedInv /\ [Next]_vars => FeedInv'
<1> SUFFICES ASSUME TypeOK, FeedInv, [Next]_vars PROVE FeedInv'
  OBVIOUS
<1>1. CASE SendBlocking
  <2>1. UNCHANGED <<open, closed, wire, registry, handles, items>>
    BY <1>1 DEF SendBlocking, compVars, consVars
  <2> QED BY <1>1, <2>1, QueueSame, FeedSteady
<1>2. CASE SessionError
  BY <1>2, FeedSteady DEF SessionError, compVars, consVars, Queue
<1>3. CASE SendPulse
  BY <1>3, FeedSteady DEF SendPulse, compVars, zwinVars, Queue
<1>4. CASE ForwarderRecv \/ ForwarderSend \/ PulseRecv \/ Refilter \/ UserFilter
  <2>1. UNCHANGED <<compVars, zwinVars, chan, consVars>>
    BY <1>4 DEF ForwarderRecv, ForwarderSend, PulseRecv, Refilter, UserFilter
  <2> QED BY <2>1, FeedSteady DEF compVars, zwinVars, consVars, Queue
<1>5. CASE UNCHANGED vars
  BY <1>5, FeedSteady DEF vars, compVars, zwinVars, consVars, Queue
<1> QED BY <1>1, <1>2, <1>3, <1>4, <1>5, NextCases, FeedCompositor, FeedHandlers, FeedApplied
        DEF Upstream

LEMMA FeedAlways == Spec => []FeedInv
<1> QED BY FeedInit, FeedStep, FeedType, PTL DEF Spec

(* The rows and the registry never drift apart (client.rs:88): the last    *)
(* queued event about a window carries its entry or its removal, a window  *)
(* with none queued has the row of its published entry, or no row, and no  *)
(* window ever has two.                                                    *)
THEOREM ListAgrees == Spec => []FeedConsistent
<1>1. FeedInv /\ RowsUnique => FeedConsistent
  BY DEF FeedInv, FeedConsistent, TailAgrees, TailSound
<1> QED BY <1>1, FeedAlways, OneRowPerWindow, PTL

(* A window of the list still has its handle, or its removal is queued     *)
(* (client.rs:228).                                                        *)
THEOREM RowsActivatable == Spec => []RowHasHandle
<1>1. FeedInv => RowHasHandle
  BY DEF FeedInv
<1> QED BY <1>1, FeedAlways, PTL

-----------------------------------------------------------------------------
(***************************************************************************)
(* The feed implements WindowLifecycle.  Each step moves at most one       *)
(* window: the one whose event is dispatched or applied.                   *)
(***************************************************************************)
OnWire(i) == \E k \in DOMAIN wire : wire[k].id = i
Gone(i) == i \in closed /\ i \notin DOMAIN registry /\ ~Queued(i) /\ ~OnWire(i)

Stays(i) == (Shown(i)' <=> Shown(i)) /\ (Gone(i)' <=> Gone(i))

LEMMA PhaseOf ==
  ASSUME NEW i \in Id
  PROVE  Phase[i] = IF Shown(i) THEN "shown" ELSE IF Gone(i) THEN "gone" ELSE "unseen"
BY DEF Phase, Gone, OnWire

LEMMA PhaseSame ==
  ASSUME \A i \in Id : Stays(i) PROVE Phase' = Phase
<1>1. \A i \in Id : Phase'[i] = Phase[i]
  BY PhaseOf DEF Stays, Phase, Gone, OnWire
<1> QED BY <1>1 DEF Phase

LEMMA OneMoves ==
  ASSUME NEW i \in Id, \A j \in Id \ {i} : Stays(j), ~Gone(i),
         \/ Shown(i)'
         \/ ~Shown(i)' /\ Gone(i)'
         \/ Stays(i)
  PROVE  [Life!LifeNext]_Phase
<1>0. /\ Phase \in [Id -> {"unseen", "shown", "gone"}]
      /\ Phase' \in [Id -> {"unseen", "shown", "gone"}]
  BY DEF Phase
<1>1. \A j \in Id \ {i} : Phase'[j] = Phase[j]
  BY PhaseOf DEF Stays, Phase, Gone, OnWire
<1>2. Phase[i] = IF Shown(i) THEN "shown" ELSE "unseen"
  BY PhaseOf
<1>3. CASE Shown(i)'
  <2>1. Phase'[i] = "shown"
    BY <1>3 DEF Phase
  <2>2. Phase' = [Phase EXCEPT ![i] = "shown"]
    BY <1>0, <1>1, <2>1
  <2>3. CASE Shown(i)
    <3>1. \A j \in Id : Phase'[j] = Phase[j]
      BY <1>1, <1>2, <2>1, <2>3
    <3> QED BY <3>1 DEF Phase
  <2>4. CASE ~Shown(i)
    BY <1>2, <2>2, <2>4 DEF Life!LifeNext, Life!Show
  <2> QED BY <2>3, <2>4
<1>4. CASE ~Shown(i)' /\ Gone(i)'
  <2>1. Phase'[i] = "gone"
    BY <1>4 DEF Phase, Gone, OnWire
  <2>2. Phase' = [Phase EXCEPT ![i] = "gone"]
    BY <1>0, <1>1, <2>1
  <2> QED BY <1>2, <2>2 DEF Life!LifeNext, Life!Forget
<1>5. CASE Stays(i)
  <2>1. \A j \in Id : Stays(j)
    BY <1>5
  <2> QED BY <2>1, PhaseSame
<1> QED BY <1>3, <1>4, <1>5

LEMMA LifeInitMaps == Init => Life!LifeInit
<1> SUFFICES ASSUME Init PROVE Life!LifeInit
  OBVIOUS
<1>1. \A i \in Id : ~Shown(i) /\ ~Gone(i)
  BY DEF Init, Shown, Gone
<1>2. \A i \in Id : Phase[i] = "unseen"
  BY <1>1, PhaseOf
<1> QED BY <1>2 DEF Life!LifeInit, Phase

LEMMA LifeCompositor ==
  ASSUME TypeOK, FeedInv, Compositor PROVE \A j \in Id : Stays(j)
<1>1. UNCHANGED <<registry, handles, items, Queue>>
  BY CompositorLeaves
<1>2. /\ Len(wire) \in Nat /\ DOMAIN wire = 1..Len(wire)
  BY QueueType
<1>3. PICK i \in Id : \/ \E tl \in OpenAs : OpenWindow(i, tl)
                      \/ \/ \E s \in Str : SetTitle(i, s) \/ SetAppId(i, s)
                         \/ \E st \in States : SetState(i, st[1], st[2])
                      \/ CloseWindow(i)
  BY DEF Compositor
<1>4. /\ Extends(i) /\ i \notin closed /\ closed \subseteq closed' /\ closed' \subseteq closed \cup {i}
      /\ i \in closed' => OnWire(i)'
  <2>1. ASSUME NEW tl \in OpenAs, OpenWindow(i, tl)
        PROVE  Extends(i) /\ i \notin closed /\ closed' = closed
    BY <2>1, OpenedWire DEF Known
  <2>2. ASSUME \/ \E s \in Str : SetTitle(i, s) \/ SetAppId(i, s)
               \/ \E st \in States : SetState(i, st[1], st[2])
        PROVE  Extends(i) /\ i \notin closed /\ closed' = closed
    <3>1. Extends(i) /\ i \in DOMAIN open /\ closed' = closed
      BY <2>2, ChangedWire
    <3> QED BY <3>1 DEF TypeOK
  <2>3. ASSUME CloseWindow(i)
        PROVE  Extends(i) /\ i \notin closed /\ closed' = closed \cup {i} /\ OnWire(i)'
    <3>1. /\ Extends(i) /\ i \in DOMAIN open /\ closed' = closed \cup {i}
          /\ Len(wire') = Len(wire) + 1
      BY <2>3, ClosedWire
    <3>2. Len(wire) + 1 \in DOMAIN wire' /\ wire'[Len(wire) + 1].id = i
      BY <1>2, <3>1 DEF Extends
    <3> QED BY <3>1, <3>2 DEF TypeOK, OnWire
  <2> QED BY <1>3, <2>1, <2>2, <2>3
<1>5. \A j \in Id \ {i} : OnWire(j)' <=> OnWire(j)
  <2> SUFFICES ASSUME NEW j \in Id \ {i} PROVE OnWire(j)' <=> OnWire(j)
    OBVIOUS
  <2>1. ASSUME NEW k \in DOMAIN wire', wire'[k].id = j PROVE OnWire(j)
    <3>1. k \notin (Len(wire) + 1)..Len(wire')
      BY <1>4, <2>1 DEF Extends
    <3>2. k \in 1..Len(wire)
      BY <1>2, <1>4, <3>1 DEF Extends
    <3> QED BY <1>2, <1>4, <2>1, <3>2 DEF Extends, OnWire
  <2>2. ASSUME NEW k \in DOMAIN wire, wire[k].id = j PROVE OnWire(j)'
    BY <1>2, <1>4, <2>2 DEF Extends, OnWire
  <2> QED BY <2>1, <2>2 DEF OnWire
<1> QED BY <1>1, <1>4, <1>5 DEF Stays, Gone, Shown, Queued

LEMMA LifeHandlers ==
  ASSUME TypeOK, FeedInv, Handlers PROVE [Life!LifeNext]_Phase
<1>0. PICK i \in Id : i = Head(wire).id
  BY HandlersTake DEF TypeOK, WireEvent
<1>1. /\ wire # <<>> /\ wire' = Tail(wire) /\ out = <<>>
      /\ UNCHANGED <<open, closed, chan, items>>
      /\ \/ OnToplevel
         \/ OnClosed
         \/ /\ handles' = handles
            /\ Ignore \/ \E tl \in Toplevel : i \in DOMAIN registry /\ Publish(i, tl)
  BY <1>0, HandlersTake
<1>2. /\ Len(wire) \in Nat /\ Len(wire) > 0
      /\ DOMAIN wire = 1..Len(wire) /\ DOMAIN wire' = 1..(Len(wire) - 1)
      /\ wire[1] = Head(wire)
      /\ \A k \in 1..(Len(wire) - 1) : wire'[k] = wire[k + 1]
  BY <1>1, WireShrinks
<1>4. ~Gone(i)
  BY <1>0, <1>2 DEF Gone, OnWire
<1>5. /\ \A j \in Id \ {i} : j \in DOMAIN registry' <=> j \in DOMAIN registry
      /\ \/ Queue' = Queue
         \/ \E e \in ToplevelEvent : e.id = i /\ out' = <<e>>
  <2>1. CASE OnToplevel
    BY <1>0, <1>1, <2>1 DEF OnToplevel, Queue
  <2>2. CASE OnClosed
    <3>1. DOMAIN registry' = DOMAIN registry \ {i}
      BY <1>0, <2>2 DEF OnClosed
    <3>2. CASE i \in DOMAIN registry
      <4>1. out' = <<[kind |-> "removed", id |-> i]>>
        BY <1>0, <2>2, <3>2 DEF OnClosed
      <4>2. [kind |-> "removed", id |-> i] \in ToplevelEvent
        BY DEF ToplevelEvent
      <4> QED BY <3>1, <4>1, <4>2
    <3>3. CASE i \notin DOMAIN registry
      <4>1. out' = out
        BY <1>0, <1>1, <2>2, <3>3 DEF OnClosed
      <4> QED BY <1>1, <3>1, <4>1 DEF Queue
    <3> QED BY <3>2, <3>3
  <2>3. CASE Ignore
    BY <1>1, <2>3 DEF Ignore, Queue
  <2>4. ASSUME NEW tl \in Toplevel, i \in DOMAIN registry, Publish(i, tl)
        PROVE  /\ DOMAIN registry' = DOMAIN registry
               /\ \E e \in ToplevelEvent : e.id = i /\ out' = <<e>>
    <3> DEFINE e == [kind |-> IF registry[i].published THEN "updated" ELSE "added",
                     id |-> i, tl |-> tl]
    <3>1. e \in ToplevelEvent /\ e.id = i /\ out' = <<e>>
      BY <2>4 DEF Publish, ToplevelEvent
    <3>2. DOMAIN registry' = DOMAIN registry
      BY <2>4 DEF Publish
    <3> HIDE DEF e
    <3> QED BY <3>1, <3>2
  <2> QED BY <1>1, <2>1, <2>2, <2>3, <2>4
<1>6. \A j \in Id \ {i} : Queued(j)' <=> Queued(j)
  <2>1. CASE Queue' = Queue
    BY <2>1 DEF Queued
  <2>2. ASSUME NEW e \in ToplevelEvent, e.id = i, out' = <<e>>
        PROVE  \A j \in Id \ {i} : Queued(j)' <=> Queued(j)
    <3>1. /\ Len(Queue) \in Nat /\ DOMAIN Queue = 1..Len(Queue)
          /\ DOMAIN Queue' = 1..(Len(Queue) + 1)
          /\ Queue'[Len(Queue) + 1] = e
          /\ \A k \in 1..Len(Queue) : Queue'[k] = Queue[k]
      BY <1>1, <2>2, QueueGrows, QueueType
    <3> QED BY <2>2, <3>1 DEF Queued
  <2> QED BY <1>5, <2>1, <2>2
<1>7. \A j \in Id \ {i} : OnWire(j)' <=> OnWire(j)
  <2> SUFFICES ASSUME NEW j \in Id \ {i} PROVE OnWire(j)' <=> OnWire(j)
    OBVIOUS
  <2>1. ASSUME NEW k \in 1..Len(wire), wire[k].id = j PROVE OnWire(j)'
    <3>1. k # 1
      BY <1>0, <1>2, <2>1
    <3>2. k - 1 \in 1..(Len(wire) - 1) /\ (k - 1) + 1 = k
      BY <1>2, <3>1
    <3>3. wire'[k - 1] = wire[k]
      BY <1>2, <3>2
    <3> QED BY <1>2, <2>1, <3>2, <3>3 DEF OnWire
  <2>2. ASSUME NEW k \in 1..(Len(wire) - 1), wire'[k].id = j PROVE OnWire(j)
    <3>1. k + 1 \in 1..Len(wire) /\ wire[k + 1].id = j
      BY <1>2, <2>2
    <3> QED BY <1>2, <3>1 DEF OnWire
  <2> QED BY <1>2, <2>1, <2>2 DEF OnWire
<1>8. \A j \in Id \ {i} : Stays(j)
  BY <1>1, <1>5, <1>6, <1>7 DEF Stays, Gone, Shown
<1>9. Shown(i)' <=> Shown(i)
  BY <1>1 DEF Shown
<1>10. Shown(i)' \/ (~Shown(i)' /\ Gone(i)') \/ Stays(i)
  BY <1>4, <1>9 DEF Stays
<1> QED BY <1>4, <1>8, <1>10, OneMoves

LEMMA LifeApplied ==
  ASSUME TypeOK, FeedInv, ApplyEvent PROVE [Life!LifeNext]_Phase
<1> DEFINE e == Queue[1]
           n == Len(Queue)
<1>1. UNCHANGED <<open, closed, wire, registry, handles>>
  BY DEF ApplyEvent, compVars, zwinVars
<1>2. /\ n \in Nat /\ n > 0 /\ DOMAIN Queue = 1..n /\ DOMAIN Queue' = 1..(n - 1)
      /\ e = Head(chan)
      /\ \A k \in 1..(n - 1) : Queue'[k] = Queue[k + 1]
  BY QueueShrinks
<1>3. PICK i \in Id : i = e.id
  <2>1. e \in ToplevelEvent
    BY <1>2, QueueType
  <2> QED BY <2>1 DEF ToplevelEvent
<1>4. /\ \A r : r.id # i => (r \in items' <=> r \in items)
      /\ e.kind = "removed" => \A r \in items' : r.id # i
      /\ e.kind # "removed" => RowOf(i, e.tl) \in items' /\ RowOf(i, e.tl).id = i
  BY <1>2, <1>3, AppliedRows DEF RowOf
<1> HIDE DEF n
<1>5. 1 \in 1..n /\ ~Gone(i)
  BY <1>2, <1>3 DEF Gone, Queued
<1>6. \A j \in Id \ {i} : Queued(j)' <=> Queued(j)
  <2> SUFFICES ASSUME NEW j \in Id \ {i} PROVE Queued(j)' <=> Queued(j)
    OBVIOUS
  <2>1. ASSUME NEW k \in 1..n, Queue[k].id = j PROVE Queued(j)'
    <3>0. k # 1
      BY <1>3, <2>1
    <3>1. k - 1 \in 1..(n - 1) /\ (k - 1) + 1 = k
      BY <1>2, <3>0
    <3>2. Queue'[k - 1] = Queue[k]
      BY <1>2, <3>1
    <3> QED BY <1>2, <2>1, <3>1, <3>2 DEF Queued
  <2>2. ASSUME NEW k \in 1..(n - 1), Queue'[k].id = j PROVE Queued(j)
    <3>1. k + 1 \in 1..n /\ Queue[k + 1].id = j
      BY <1>2, <2>2
    <3> QED BY <1>2, <3>1 DEF Queued
  <2> QED BY <1>2, <2>1, <2>2 DEF Queued
<1>7. \A j \in Id \ {i} : Stays(j)
  BY <1>1, <1>4, <1>6 DEF Stays, Gone, Shown, OnWire
<1>8. CASE e.kind = "removed"
  <2>1. /\ i \in closed /\ i \notin DOMAIN registry
        /\ \A j \in DOMAIN wire : wire[j].id # i
        /\ LastAbout(1)
    BY <1>2, <1>3, <1>5, <1>8 DEF FeedInv, RemovedLast
  <2>2. ASSUME NEW k \in 1..(n - 1), Queue'[k].id = i PROVE FALSE
    <3>1. k + 1 \in 1..n /\ Queue[k + 1].id = i /\ k + 1 > 1
      BY <1>2, <2>2
    <3> QED BY <1>2, <1>3, <2>1, <3>1 DEF LastAbout
  <2>3. Gone(i)' /\ ~Shown(i)'
    BY <1>1, <1>2, <1>4, <1>8, <2>1, <2>2 DEF Gone, Queued, OnWire, Shown
  <2> QED BY <1>5, <1>7, <2>3, OneMoves
<1>9. CASE e.kind # "removed"
  <2>1. Shown(i)'
    BY <1>4, <1>9 DEF Shown
  <2> QED BY <1>5, <1>7, <2>1, OneMoves
<1> QED BY <1>8, <1>9

LEMMA LifeStep == TypeOK /\ FeedInv /\ [Next]_vars => [Life!LifeNext]_Phase
<1> SUFFICES ASSUME TypeOK, FeedInv, [Next]_vars PROVE [Life!LifeNext]_Phase
  OBVIOUS
<1>1. ASSUME UNCHANGED <<closed, wire, registry, items, Queue>> PROVE Phase' = Phase
  BY <1>1 DEF Phase, Shown, Queued
<1>2. CASE SendBlocking
  <2>1. UNCHANGED <<closed, wire, registry, items>>
    BY <1>2 DEF SendBlocking, compVars, consVars
  <2> QED BY <1>1, <1>2, <2>1, QueueSame
<1>3. CASE SessionError \/ SendPulse \/ ForwarderRecv \/ ForwarderSend \/ PulseRecv
             \/ Refilter \/ UserFilter \/ UNCHANGED vars
  <2>1. UNCHANGED <<closed, wire, registry, items, chan, out>>
    BY <1>3 DEF SessionError, SendPulse, ForwarderRecv, ForwarderSend, PulseRecv, Refilter,
                UserFilter, vars, compVars, zwinVars, consVars
  <2> QED BY <1>1, <2>1 DEF Queue
<1>4. CASE Compositor
  BY <1>4, LifeCompositor, PhaseSame
<1> QED BY <1>2, <1>3, <1>4, NextCases, LifeHandlers, LifeApplied DEF Upstream

(* Whatever the compositor sends and however the thread and the channel    *)
(* delay it, a window is in the list at most once in its life: it never    *)
(* comes back once its removal was applied.                                *)
THEOREM ShowsOnce == Spec => ShownOnce
<1> QED BY LifeInitMaps, LifeStep, FeedType, FeedAlways, PTL
        DEF Spec, ShownOnce, Life!LifeSpec
-----------------------------------------------------------------------------
(***************************************************************************)
(* What the launcher ends up with is what the compositor has.  FeedInv ties *)
(* the rows to the registry; Truth ties the registry to the open windows,  *)
(* through the events still on the wire: the last event of a kind about an *)
(* open window carries its field as it is, a field with no event left is   *)
(* in the registry already, and neither the first nor the last event of a  *)
(* window is ever missing.                                                 *)
(***************************************************************************)
Unsaid(t, i) == \A k \in DOMAIN wire : ~(wire[k].t = t /\ wire[k].id = i)

LastWord(k) ==
  \A j \in DOMAIN wire : wire[j].t = wire[k].t /\ wire[j].id = wire[k].id => j <= k

Told(i) == IF i \in DOMAIN registry THEN registry[i].tl ELSE Blank

WordsTrue(i) == \A k \in DOMAIN wire : wire[k].id = i /\ LastWord(k) => Carries(wire[k], open[i])

RestTold(i) ==
  /\ Unsaid("title", i) => Told(i).title = open[i].title
  /\ Unsaid("app_id", i) => Told(i).app = open[i].app
  /\ Unsaid("state", i) => /\ Published(i) /\ Told(i).activated = open[i].activated
                           /\ Told(i).minimized = open[i].minimized
  /\ Unsaid("toplevel", i) => i \in handles

EndAnnounced(i) ==
  i \in handles \/ ~Unsaid("toplevel", i) => i \in DOMAIN open \/ ~Unsaid("closed", i)

AnnouncedFirst(i) ==
  i \notin handles =>
    \A k \in DOMAIN wire : wire[k].id = i =>
      \E j \in DOMAIN wire : j <= k /\ wire[j].id = i /\ wire[j].t = "toplevel"

TruthOf(i) ==
  /\ i \in DOMAIN open => WordsTrue(i) /\ RestTold(i)
  /\ EndAnnounced(i) /\ AnnouncedFirst(i)

Truth == \A i \in Id : TruthOf(i)

LEMMA TruthInit == Init => Truth
<1> SUFFICES ASSUME Init, NEW i \in Id PROVE TruthOf(i)
  BY DEF Truth
<1>1. i \notin DOMAIN open /\ i \notin handles /\ DOMAIN wire = {}
  BY DEF Init
<1> QED BY <1>1 DEF TruthOf, EndAnnounced, AnnouncedFirst, Unsaid

LEMMA TruthSteady ==
  ASSUME Truth, UNCHANGED <<open, wire, registry, handles>> PROVE Truth'
BY DEF Truth, TruthOf, WordsTrue, RestTold, EndAnnounced, AnnouncedFirst, Unsaid, LastWord,
       Told, Carries, Published

(* Events about one window say nothing of another: what the compositor     *)
(* adds for i, and what the thread takes that is about i.                  *)
LEMMA TruthExtends ==
  ASSUME TypeOK, NEW i \in Id, Extends(i), UNCHANGED <<registry, handles>>,
         NEW j \in Id, j # i, TruthOf(j),
         j \in DOMAIN open' <=> j \in DOMAIN open,
         j \in DOMAIN open => open'[j] = open[j]
  PROVE  TruthOf(j)'
<1>1. /\ Len(wire) \in Nat /\ DOMAIN wire = 1..Len(wire)
  BY QueueType
<1>2. \A k \in DOMAIN wire : k \in DOMAIN wire' /\ wire'[k] = wire[k]
  BY <1>1 DEF Extends
<1>3. ASSUME NEW k \in DOMAIN wire', wire'[k].id = j PROVE k \in DOMAIN wire
  BY <1>1, <1>3 DEF Extends
<1>4. \A t : Unsaid(t, j)' <=> Unsaid(t, j)
  BY <1>2, <1>3 DEF Unsaid
<1>5. \A k \in DOMAIN wire : wire[k].id = j => (LastWord(k)' => LastWord(k))
  BY <1>2 DEF LastWord
<1>6. Told(j)' = Told(j) /\ Published(j)' = Published(j)
  BY DEF Told, Published
<1>7. ASSUME j \in DOMAIN open' PROVE WordsTrue(j)' /\ RestTold(j)'
  <2>1. j \in DOMAIN open /\ open'[j] = open[j] /\ WordsTrue(j) /\ RestTold(j)
    BY <1>7 DEF TruthOf
  <2>2. WordsTrue(j)'
    BY <1>2, <1>3, <1>5, <2>1 DEF WordsTrue, Carries
  <2>3. RestTold(j)'
    BY <1>4, <1>6, <2>1 DEF RestTold
  <2> QED BY <2>2, <2>3
<1>8. EndAnnounced(j)'
  BY <1>4 DEF TruthOf, EndAnnounced
<1>9. AnnouncedFirst(j)'
  BY <1>2, <1>3 DEF TruthOf, AnnouncedFirst
<1> QED BY <1>7, <1>8, <1>9 DEF TruthOf

(* What is left of the wire once its head is taken.                        *)
LEMMA Taken ==
  ASSUME TypeOK, wire # <<>>, wire' = Tail(wire)
  PROVE  /\ 1 \in DOMAIN wire /\ wire[1] = Head(wire) /\ DOMAIN wire \subseteq Nat \ {0}
         /\ \A k \in DOMAIN wire' : k \in Nat /\ k + 1 \in DOMAIN wire /\ wire'[k] = wire[k + 1]
         /\ \A k \in DOMAIN wire : k # 1 => /\ k - 1 \in DOMAIN wire' /\ (k - 1) + 1 = k
                                            /\ wire'[k - 1] = wire[k]
         /\ \A t, i : Unsaid(t, i)' => \A k \in DOMAIN wire : wire[k].t = t /\ wire[k].id = i => k = 1
         /\ \A t, i : Unsaid(t, i) => Unsaid(t, i)'
         /\ \A k \in DOMAIN wire' : LastWord(k)' => LastWord(k + 1)
<1>1. /\ Len(wire) \in Nat /\ Len(wire) > 0
      /\ DOMAIN wire = 1..Len(wire) /\ DOMAIN wire' = 1..(Len(wire) - 1)
      /\ wire[1] = Head(wire)
      /\ \A k \in 1..(Len(wire) - 1) : wire'[k] = wire[k + 1]
  BY WireShrinks
<1>2. ASSUME NEW k \in DOMAIN wire'
      PROVE  k \in Nat /\ k + 1 \in DOMAIN wire /\ wire'[k] = wire[k + 1]
  BY <1>1
<1>3. ASSUME NEW k \in DOMAIN wire, k # 1
      PROVE  k - 1 \in DOMAIN wire' /\ (k - 1) + 1 = k /\ wire'[k - 1] = wire[k]
  <2>1. k - 1 \in DOMAIN wire' /\ (k - 1) + 1 = k
    BY <1>1, <1>3
  <2> QED BY <1>2, <2>1
<1>4. ASSUME NEW t, NEW i, Unsaid(t, i)', NEW k \in DOMAIN wire, wire[k].t = t, wire[k].id = i
      PROVE  k = 1
  <2>1. k # 1 => wire'[k - 1].t = t /\ wire'[k - 1].id = i /\ k - 1 \in DOMAIN wire'
    BY <1>3, <1>4
  <2> QED BY <1>4, <2>1 DEF Unsaid
<1>5. ASSUME NEW t, NEW i, Unsaid(t, i), NEW k \in DOMAIN wire'
      PROVE  ~(wire'[k].t = t /\ wire'[k].id = i)
  BY <1>2, <1>5 DEF Unsaid
<1>6. ASSUME NEW k \in DOMAIN wire', LastWord(k)', NEW j \in DOMAIN wire,
             wire[j].t = wire[k + 1].t, wire[j].id = wire[k + 1].id
      PROVE  j <= k + 1
  <2>1. CASE j = 1
    BY <1>1, <2>1
  <2>2. CASE j # 1
    <3>1. j - 1 <= k
      BY <1>2, <1>3, <1>6, <2>2 DEF LastWord
    <3> QED BY <1>1, <3>1
  <2> QED BY <2>1, <2>2
<1>7. \A k \in DOMAIN wire' : LastWord(k)' => LastWord(k + 1)
  BY <1>6 DEF LastWord
<1>8. \A t, i : Unsaid(t, i) => Unsaid(t, i)'
  BY <1>5 DEF Unsaid
<1> QED BY <1>1, <1>2, <1>3, <1>4, <1>7, <1>8

LEMMA TruthShrinks ==
  ASSUME TypeOK, wire # <<>>, wire' = Tail(wire), UNCHANGED open,
         NEW j \in Id, j # Head(wire).id, TruthOf(j),
         j \in handles' <=> j \in handles,
         j \in DOMAIN registry' <=> j \in DOMAIN registry,
         j \in DOMAIN registry => registry'[j] = registry[j]
  PROVE  TruthOf(j)'
<1>1. wire[1].id # j
  BY Taken
<1>2. ASSUME NEW t PROVE Unsaid(t, j)' <=> Unsaid(t, j)
  <2>1. Unsaid(t, j) => Unsaid(t, j)'
    BY Taken
  <2>2. Unsaid(t, j)' => \A k \in DOMAIN wire : wire[k].t = t /\ wire[k].id = j => k = 1
    BY Taken
  <2>3. Unsaid(t, j)' => Unsaid(t, j)
    BY <1>1, <2>2 DEF Unsaid
  <2> QED BY <2>1, <2>3
<1>3. Told(j)' = Told(j) /\ (Published(j)' <=> Published(j))
  BY DEF Told, Published
<1>4. ASSUME j \in DOMAIN open PROVE WordsTrue(j)' /\ RestTold(j)'
  <2>1. WordsTrue(j) /\ RestTold(j)
    BY <1>4 DEF TruthOf
  <2>2. WordsTrue(j)'
    BY <2>1, Taken DEF WordsTrue, Carries
  <2>3. RestTold(j)'
    BY <1>2, <1>3, <2>1 DEF RestTold
  <2> QED BY <2>2, <2>3
<1>5. EndAnnounced(j)'
  BY <1>2 DEF TruthOf, EndAnnounced
<1>6. AnnouncedFirst(j)'
  <2> SUFFICES ASSUME j \notin handles, NEW k \in DOMAIN wire', wire'[k].id = j
               PROVE  \E l \in DOMAIN wire' : l <= k /\ wire'[l].id = j /\ wire'[l].t = "toplevel"
    BY DEF AnnouncedFirst
  <2>1. k \in Nat /\ k + 1 \in DOMAIN wire /\ wire[k + 1].id = j
    BY Taken
  <2>2. PICK l \in DOMAIN wire : l <= k + 1 /\ wire[l].id = j /\ wire[l].t = "toplevel"
    BY <2>1 DEF TruthOf, AnnouncedFirst
  <2>3. l \in Nat /\ l # 1 /\ l - 1 \in DOMAIN wire' /\ wire'[l - 1] = wire[l]
    BY <1>1, <2>2, Taken
  <2> QED BY <2>1, <2>2, <2>3
<1> QED BY <1>4, <1>5, <1>6 DEF TruthOf

(* The window the compositor speaks of: what it adds carries the new       *)
(* fields, and a field it says nothing about is unchanged.                 *)
LEMMA OneSaid ==
  ASSUME TypeOK, NEW e \in WireEvent, wire' = wire \o <<e>>
  PROVE  /\ Len(wire) \in Nat /\ Len(wire') = Len(wire) + 1
         /\ wire'[Len(wire) + 1] = e
         /\ \A k \in (Len(wire) + 1)..Len(wire') : wire'[k] = e
<1>1. wire \in Seq(WireEvent) /\ Append(wire, e) = wire \o <<e>>
  BY AppendIsConcat DEF TypeOK
<1>2. Len(wire') = Len(wire) + 1 /\ wire'[Len(wire) + 1] = e /\ Len(wire) \in Nat
  BY <1>1, AppendProperties, LenProperties
<1>3. ASSUME NEW k \in (Len(wire) + 1)..Len(wire') PROVE k = Len(wire) + 1
  BY <1>2
<1> QED BY <1>2, <1>3

ChangesSaid(i) ==
  /\ \A k \in (Len(wire) + 1)..Len(wire') : Carries(wire'[k], open'[i])
  /\ Says("title") \/ open'[i].title = open[i].title
  /\ Says("app_id") \/ open'[i].app = open[i].app
  /\ Says("state") \/ /\ open'[i].activated = open[i].activated
                      /\ open'[i].minimized = open[i].minimized

LEMMA ChangedSaid ==
  ASSUME TypeOK, NEW i \in Id,
         \/ \E s \in Str : SetTitle(i, s) \/ SetAppId(i, s)
         \/ \E st \in States : SetState(i, st[1], st[2])
  PROVE  ChangesSaid(i)
<1>0. i \in DOMAIN open /\ open[i] \in Toplevel
  BY DEF SetTitle, SetAppId, SetState, TypeOK
<1>1. ASSUME NEW s \in Str, SetTitle(i, s) PROVE ChangesSaid(i)
  <2> DEFINE e == [t |-> "title", id |-> i, str |-> s]
  <2>1. e \in WireEvent /\ e.t = "title" /\ e.str = s
    BY DEF WireEvent
  <2>2. wire' = wire \o <<e>>
    BY <1>1, FeedAssumption DEF SetTitle, StrEvent
  <2>3. /\ open'[i].title = s /\ open'[i].app = open[i].app
        /\ open'[i].activated = open[i].activated /\ open'[i].minimized = open[i].minimized
    BY <1>0, <1>1 DEF SetTitle, Toplevel
  <2> HIDE DEF e
  <2>4. /\ \A k \in (Len(wire) + 1)..Len(wire') : wire'[k] = e
        /\ Len(wire) + 1 \in (Len(wire) + 1)..Len(wire')
    BY <2>1, <2>2, OneSaid
  <2> QED BY <2>1, <2>3, <2>4 DEF ChangesSaid, Carries, Says
<1>2. ASSUME NEW s \in Str, SetAppId(i, s) PROVE ChangesSaid(i)
  <2> DEFINE e == [t |-> "app_id", id |-> i, str |-> s]
  <2>1. e \in WireEvent /\ e.t = "app_id" /\ e.str = s
    BY DEF WireEvent
  <2>2. wire' = wire \o <<e>>
    BY <1>2, FeedAssumption DEF SetAppId, StrEvent
  <2>3. /\ open'[i].app = s /\ open'[i].title = open[i].title
        /\ open'[i].activated = open[i].activated /\ open'[i].minimized = open[i].minimized
    BY <1>0, <1>2 DEF SetAppId, Toplevel
  <2> HIDE DEF e
  <2>4. /\ \A k \in (Len(wire) + 1)..Len(wire') : wire'[k] = e
        /\ Len(wire) + 1 \in (Len(wire) + 1)..Len(wire')
    BY <2>1, <2>2, OneSaid
  <2> QED BY <2>1, <2>3, <2>4 DEF ChangesSaid, Carries, Says
<1>3. ASSUME NEW st \in States, SetState(i, st[1], st[2]) PROVE ChangesSaid(i)
  <2> DEFINE a == st[1]
             m == st[2]
             e == [t |-> "state", id |-> i, activated |-> a, minimized |-> m]
  <2>0. a \in BOOLEAN /\ m \in BOOLEAN
    BY FeedAssumption
  <2>1. e \in WireEvent /\ e.t = "state" /\ e.activated = a /\ e.minimized = m
    BY <2>0 DEF WireEvent
  <2>2. wire' = wire \o <<e>>
    BY <1>3 DEF SetState, StateEvent
  <2>3. /\ open'[i].activated = a /\ open'[i].minimized = m
        /\ open'[i].app = open[i].app /\ open'[i].title = open[i].title
    BY <1>0, <1>3 DEF SetState, Toplevel
  <2> HIDE DEF a, m, e
  <2>4. /\ \A k \in (Len(wire) + 1)..Len(wire') : wire'[k] = e
        /\ Len(wire) + 1 \in (Len(wire) + 1)..Len(wire')
    BY <2>1, <2>2, OneSaid
  <2> QED BY <2>1, <2>3, <2>4 DEF ChangesSaid, Carries, Says
<1> QED BY <1>1, <1>2, <1>3

(* What the step says is not unsaid after it; what it does not is as before.*)
LEMMA ExtendsSaid ==
  ASSUME TypeOK, NEW i \in Id, Extends(i)
  PROVE  /\ \A k \in DOMAIN wire : k \in DOMAIN wire' /\ wire'[k] = wire[k]
         /\ \A k \in DOMAIN wire' : k \notin DOMAIN wire =>
              k \in (Len(wire) + 1)..Len(wire') /\ wire'[k].id = i
         /\ \A t : Says(t) => ~Unsaid(t, i)'
         /\ \A t, j : Unsaid(t, j)' => Unsaid(t, j)
         /\ \A k \in DOMAIN wire : LastWord(k)' => LastWord(k)
         /\ \A k \in DOMAIN wire : wire[k].id = i /\ LastWord(k)' => ~Says(wire[k].t)
<1>1. /\ Len(wire) \in Nat /\ DOMAIN wire = 1..Len(wire)
  BY QueueType
<1>2. \A k \in DOMAIN wire : k \in DOMAIN wire' /\ wire'[k] = wire[k]
  BY <1>1 DEF Extends
<1>3. \A k \in DOMAIN wire' : k \notin DOMAIN wire =>
        k \in (Len(wire) + 1)..Len(wire') /\ wire'[k].id = i
  BY <1>1 DEF Extends
<1>4. \A k \in (Len(wire) + 1)..Len(wire') : k \in DOMAIN wire' /\ wire'[k].id = i
  BY <1>1 DEF Extends
<1>5. \A t : Says(t) => ~Unsaid(t, i)'
  BY <1>4 DEF Says, Unsaid
<1>6. \A t, j : Unsaid(t, j)' => Unsaid(t, j)
  BY <1>2 DEF Unsaid
<1>7. \A k \in DOMAIN wire : LastWord(k)' => LastWord(k)
  BY <1>2 DEF LastWord
<1>8. ASSUME NEW k \in DOMAIN wire, wire[k].id = i, LastWord(k)', Says(wire[k].t) PROVE FALSE
  <2>1. PICK l \in (Len(wire) + 1)..Len(wire') : wire'[l].t = wire[k].t
    BY <1>8 DEF Says
  <2>2. l <= k
    BY <1>2, <1>4, <1>8, <2>1 DEF LastWord
  <2> QED BY <1>1, <2>1, <2>2
<1> QED BY <1>2, <1>3, <1>5, <1>6, <1>7, <1>8

LEMMA TruthChanged ==
  ASSUME TypeOK, NEW i \in Id, Extends(i), UNCHANGED <<registry, handles>>,
         i \in DOMAIN open, i \in DOMAIN open', ChangesSaid(i), TruthOf(i)
  PROVE  TruthOf(i)'
<1>1. WordsTrue(i) /\ RestTold(i)
  BY DEF TruthOf
<1>2. Told(i)' = Told(i) /\ Published(i)' = Published(i)
  BY DEF Told, Published
<1>3. WordsTrue(i)'
  <2> SUFFICES ASSUME NEW k \in DOMAIN wire', wire'[k].id = i, LastWord(k)'
               PROVE  Carries(wire'[k], open'[i])
    BY DEF WordsTrue, Carries
  <2>1. CASE k \notin DOMAIN wire
    BY <2>1, ExtendsSaid DEF ChangesSaid
  <2>2. CASE k \in DOMAIN wire
    <3>1. wire'[k] = wire[k] /\ wire[k].id = i /\ LastWord(k) /\ ~Says(wire[k].t)
      BY <2>2, ExtendsSaid
    <3>2. Carries(wire[k], open[i])
      BY <1>1, <2>2, <3>1 DEF WordsTrue
    <3> QED BY <3>1, <3>2 DEF ChangesSaid, Carries
  <2> QED BY <2>1, <2>2
<1>4. \A t : Unsaid(t, i)' => Unsaid(t, i) /\ ~Says(t)
  BY ExtendsSaid
<1>5. RestTold(i)'
  BY <1>1, <1>2, <1>4 DEF RestTold, ChangesSaid
<1>6. EndAnnounced(i)' /\ AnnouncedFirst(i)'
  <2>1. EndAnnounced(i)'
    BY DEF EndAnnounced
  <2>2. ASSUME i \notin handles
        PROVE  \E j \in DOMAIN wire : wire[j].id = i /\ wire[j].t = "toplevel"
    BY <1>1, <2>2 DEF RestTold, Unsaid
  <2>3. AnnouncedFirst(i)'
    <3> SUFFICES ASSUME i \notin handles, NEW k \in DOMAIN wire', wire'[k].id = i
                 PROVE  \E j \in DOMAIN wire' : j <= k /\ wire'[j].id = i /\ wire'[j].t = "toplevel"
      BY DEF AnnouncedFirst
    <3>1. CASE k \in DOMAIN wire
      BY <3>1, ExtendsSaid DEF TruthOf, AnnouncedFirst
    <3>2. CASE k \notin DOMAIN wire
      <4>1. PICK j \in DOMAIN wire : wire[j].id = i /\ wire[j].t = "toplevel"
        BY <2>2
      <4>2. j <= k
        BY <3>2, ExtendsSaid, QueueType
      <4> QED BY <4>1, <4>2, ExtendsSaid
    <3> QED BY <3>1, <3>2
  <2> QED BY <2>1, <2>3
<1> QED BY <1>3, <1>5, <1>6 DEF TruthOf

LEMMA TruthOpened ==
  ASSUME TypeOK, FeedInv, NEW i \in Id, NEW tl \in OpenAs, OpenWindow(i, tl)
  PROVE  TruthOf(i)'
<1>1. /\ Extends(i) /\ i \notin Known
      /\ Len(wire) < Len(wire') /\ wire'[Len(wire) + 1].t = "toplevel"
      /\ \A k \in (Len(wire) + 1)..Len(wire') : Carries(wire'[k], tl)
      /\ (tl.title # None => Says("title")) /\ (tl.app # None => Says("app_id"))
      /\ Says("state")
  BY OpenedWire
<1>2. open'[i] = tl /\ i \in DOMAIN open' /\ UNCHANGED <<registry, handles>>
  BY DEF OpenWindow, zwinVars
<1>3. /\ i \notin handles /\ i \notin DOMAIN registry
      /\ \A k \in DOMAIN wire : wire[k].id # i
  BY <1>1 DEF FeedInv, IdsKnown
<1>4. \A k \in DOMAIN wire' : wire'[k].id = i => k \in (Len(wire) + 1)..Len(wire')
  BY <1>1, <1>3, ExtendsSaid
<1>5. Len(wire) + 1 \in DOMAIN wire' /\ wire'[Len(wire) + 1].id = i /\ Len(wire) \in Nat
  BY <1>1, QueueType DEF Extends
<1>6. WordsTrue(i)'
  BY <1>1, <1>2, <1>4 DEF WordsTrue, Carries
<1>7. RestTold(i)'
  <2>1. Told(i)' = Blank
    BY <1>2, <1>3 DEF Told
  <2>2. Blank.title = None /\ Blank.app = None
    BY DEF Blank
  <2>3. /\ Unsaid("title", i)' => tl.title = None
        /\ Unsaid("app_id", i)' => tl.app = None
        /\ ~Unsaid("state", i)' /\ ~Unsaid("toplevel", i)'
    <3>1. \A t : Says(t) => ~Unsaid(t, i)'
      BY <1>1, ExtendsSaid
    <3>2. ~Unsaid("toplevel", i)'
      BY <1>1, <1>5 DEF Unsaid
    <3> QED BY <1>1, <3>1, <3>2
  <2> QED BY <1>2, <2>1, <2>2, <2>3 DEF RestTold
<1>8. EndAnnounced(i)'
  BY <1>2 DEF EndAnnounced
<1>9. AnnouncedFirst(i)'
  BY <1>1, <1>4, <1>5 DEF AnnouncedFirst
<1> QED BY <1>6, <1>7, <1>8, <1>9 DEF TruthOf

LEMMA TruthShut ==
  ASSUME TypeOK, NEW i \in Id, CloseWindow(i), TruthOf(i)
  PROVE  TruthOf(i)'
<1>1. /\ Extends(i) /\ Len(wire') = Len(wire) + 1 /\ wire'[Len(wire) + 1].t = "closed"
  BY ClosedWire
<1>2. i \in DOMAIN open /\ i \notin DOMAIN open' /\ UNCHANGED <<registry, handles>>
  BY DEF CloseWindow, zwinVars
<1>3. EndAnnounced(i)'
  <2>1. Says("closed")
    BY <1>1, QueueType DEF Says
  <2>2. ~Unsaid("closed", i)'
    BY <1>1, <2>1, ExtendsSaid
  <2> QED BY <2>2 DEF EndAnnounced
<1>4. AnnouncedFirst(i)'
  <2> SUFFICES ASSUME i \notin handles, NEW k \in DOMAIN wire', wire'[k].id = i
               PROVE  \E j \in DOMAIN wire' : j <= k /\ wire'[j].id = i /\ wire'[j].t = "toplevel"
    BY <1>2 DEF AnnouncedFirst
  <2>1. CASE k \in DOMAIN wire
    BY <1>1, <2>1, ExtendsSaid DEF TruthOf, AnnouncedFirst
  <2>2. CASE k \notin DOMAIN wire
    <3>1. PICK j \in DOMAIN wire : wire[j].id = i /\ wire[j].t = "toplevel"
      BY <1>2 DEF TruthOf, RestTold, Unsaid
    <3>2. j <= k
      BY <1>1, <2>2, ExtendsSaid, QueueType
    <3> QED BY <1>1, <3>1, <3>2, ExtendsSaid
  <2> QED BY <2>1, <2>2
<1> QED BY <1>2, <1>3, <1>4 DEF TruthOf

LEMMA TruthCompositor ==
  ASSUME TypeOK, FeedInv, Truth, Compositor PROVE Truth'
<1>1. UNCHANGED <<registry, handles>>
  BY CompositorLeaves
<1>2. PICK i \in Id : \/ \E tl \in OpenAs : OpenWindow(i, tl)
                      \/ \/ \E s \in Str : SetTitle(i, s) \/ SetAppId(i, s)
                         \/ \E st \in States : SetState(i, st[1], st[2])
                      \/ CloseWindow(i)
  BY DEF Compositor
<1>3. /\ Extends(i)
      /\ \A j \in Id \ {i} : /\ j \in DOMAIN open' <=> j \in DOMAIN open
                             /\ j \in DOMAIN open => open'[j] = open[j]
  <2>1. ASSUME NEW tl \in OpenAs, OpenWindow(i, tl)
        PROVE  /\ Extends(i) /\ DOMAIN open' = DOMAIN open \cup {i}
               /\ \A j \in DOMAIN open : j # i => open'[j] = open[j]
    BY <2>1, OpenedWire DEF OpenWindow
  <2>2. ASSUME \/ \E s \in Str : SetTitle(i, s) \/ SetAppId(i, s)
               \/ \E st \in States : SetState(i, st[1], st[2])
        PROVE  /\ Extends(i) /\ DOMAIN open' = DOMAIN open
               /\ \A j \in DOMAIN open : j # i => open'[j] = open[j]
    <3>1. Extends(i)
      BY <2>2, ChangedWire
    <3> QED BY <2>2, <3>1 DEF SetTitle, SetAppId, SetState
  <2>3. ASSUME CloseWindow(i)
        PROVE  /\ Extends(i) /\ DOMAIN open' = DOMAIN open \ {i}
               /\ \A j \in DOMAIN open : j # i => open'[j] = open[j]
    BY <2>3, ClosedWire DEF CloseWindow
  <2> QED BY <1>2, <2>1, <2>2, <2>3
<1>4. \A j \in Id \ {i} : TruthOf(j)'
  BY <1>1, <1>3, TruthExtends DEF Truth
<1>5. TruthOf(i)'
  <2>1. ASSUME NEW tl \in OpenAs, OpenWindow(i, tl) PROVE TruthOf(i)'
    BY <2>1, TruthOpened
  <2>2. ASSUME \/ \E s \in Str : SetTitle(i, s) \/ SetAppId(i, s)
               \/ \E st \in States : SetState(i, st[1], st[2])
        PROVE  TruthOf(i)'
    <3>1. i \in DOMAIN open /\ i \in DOMAIN open'
      BY <2>2 DEF SetTitle, SetAppId, SetState
    <3>2. ChangesSaid(i)
      BY <2>2, ChangedSaid
    <3> QED BY <1>1, <1>3, <3>1, <3>2, TruthChanged DEF Truth
  <2>3. ASSUME CloseWindow(i) PROVE TruthOf(i)'
    BY <2>3, TruthShut DEF Truth
  <2> QED BY <1>2, <2>1, <2>2, <2>3
<1> QED BY <1>4, <1>5 DEF Truth

(* The window whose event is dispatched.  A field, the first time it is    *)
(* heard and whenever it changes, is written to the registry as heard.     *)
Heard(i) ==
  LET e == Head(wire)
      was == registry[i]
      is == registry'[i]
  IN /\ i \in DOMAIN registry /\ DOMAIN registry' = DOMAIN registry
     /\ is.tl.title = IF e.t = "title" THEN e.str ELSE was.tl.title
     /\ is.tl.app = IF e.t = "app_id" THEN e.str ELSE was.tl.app
     /\ e.t = "state" => /\ is.published /\ is.tl.activated = e.activated
                         /\ is.tl.minimized = e.minimized
     /\ e.t # "state" => /\ was.published => is.published
                         /\ is.tl.activated = was.tl.activated
                         /\ is.tl.minimized = was.tl.minimized

LEMMA TruthHeard ==
  ASSUME TypeOK, FeedInv, wire # <<>>, wire' = Tail(wire), UNCHANGED <<open, handles>>,
         NEW i \in Id, i = Head(wire).id, Head(wire).t \in {"app_id", "title", "state"},
         Heard(i), TruthOf(i)
  PROVE  TruthOf(i)'
<1> DEFINE e == wire[1]
<1>1. /\ 1 \in DOMAIN wire /\ e = Head(wire) /\ e.id = i
      /\ e.t \in {"app_id", "title", "state"}
  BY Taken
<1>2. i \in DOMAIN registry /\ i \in DOMAIN registry' /\ i \in handles
  BY DEF Heard, FeedInv
<1>3. ASSUME NEW t, Unsaid(t, i)', t # e.t PROVE Unsaid(t, i)
  <2>1. \A k \in DOMAIN wire : wire[k].t = t /\ wire[k].id = i => k = 1
    BY <1>3, Taken
  <2> QED BY <1>3, <2>1 DEF Unsaid
<1>4. ASSUME NEW t, t = e.t PROVE Unsaid(t, i)' => LastWord(1)
  <2> SUFFICES ASSUME Unsaid(t, i)', NEW j \in DOMAIN wire, wire[j].t = e.t, wire[j].id = e.id
               PROVE  j <= 1
    BY DEF LastWord
  <2>1. j = 1
    BY <1>1, <1>4, Taken
  <2> QED BY <2>1
<1>5. ASSUME i \in DOMAIN open PROVE WordsTrue(i)' /\ RestTold(i)'
  <2>1. WordsTrue(i) /\ RestTold(i)
    BY <1>5 DEF TruthOf
  <2>2. WordsTrue(i)'
    BY <2>1, Taken DEF WordsTrue, Carries
  <2>3. ASSUME NEW t, t = e.t PROVE Unsaid(t, i)' => Carries(e, open[i])
    BY <1>1, <1>4, <2>1, <2>3 DEF WordsTrue
  <2>4. Told(i) = registry[i].tl /\ Told(i)' = registry'[i].tl
    BY <1>2 DEF Told
  <2> HIDE DEF e
  <2>5. Unsaid("title", i)' => Told(i)'.title = open[i].title
    <3>1. CASE e.t = "title"
      BY <1>1, <2>3, <2>4, <3>1 DEF Heard, Carries
    <3>2. CASE e.t # "title"
      <4>1. Unsaid("title", i)' => Unsaid("title", i)
        BY <1>3, <3>2
      <4> QED BY <1>1, <2>1, <2>4, <3>2, <4>1 DEF Heard, RestTold
    <3> QED BY <3>1, <3>2
  <2>6. Unsaid("app_id", i)' => Told(i)'.app = open[i].app
    <3>1. CASE e.t = "app_id"
      BY <1>1, <2>3, <2>4, <3>1 DEF Heard, Carries
    <3>2. CASE e.t # "app_id"
      <4>1. Unsaid("app_id", i)' => Unsaid("app_id", i)
        BY <1>3, <3>2
      <4> QED BY <1>1, <2>1, <2>4, <3>2, <4>1 DEF Heard, RestTold
    <3> QED BY <3>1, <3>2
  <2>7. Unsaid("state", i)' => /\ Published(i)' /\ Told(i)'.activated = open[i].activated
                               /\ Told(i)'.minimized = open[i].minimized
    <3>1. CASE e.t = "state"
      BY <1>1, <1>2, <2>3, <2>4, <3>1 DEF Heard, Carries, Published
    <3>2. CASE e.t # "state"
      <4>1. Unsaid("state", i)' => Unsaid("state", i)
        BY <1>3, <3>2
      <4> QED BY <1>1, <1>2, <2>1, <2>4, <3>2, <4>1 DEF Heard, RestTold, Published
    <3> QED BY <3>1, <3>2
  <2>8. RestTold(i)'
    BY <1>2, <2>5, <2>6, <2>7 DEF RestTold
  <2> QED BY <2>2, <2>8
<1>6. EndAnnounced(i)'
  <2>1. Unsaid("closed", i)' => Unsaid("closed", i)
    BY <1>1, <1>3
  <2> QED BY <1>2, <2>1 DEF TruthOf, EndAnnounced
<1>7. AnnouncedFirst(i)'
  BY <1>2 DEF AnnouncedFirst
<1> QED BY <1>5, <1>6, <1>7 DEF TruthOf

(* Nothing but its announcement is heard of a window without an entry.     *)
LEMMA HasEntry ==
  ASSUME TypeOK, FeedInv, Truth, wire # <<>>, wire' = Tail(wire), Head(wire).t # "toplevel",
         Head(wire).id \in Id
  PROVE  Head(wire).id \in DOMAIN registry
<1> SUFFICES ASSUME Head(wire).id \notin handles PROVE FALSE
  BY DEF FeedInv
<1>1. 1 \in DOMAIN wire /\ wire[1] = Head(wire) /\ DOMAIN wire \subseteq Nat \ {0}
  BY Taken
<1>2. PICK j \in DOMAIN wire : j <= 1 /\ wire[j].t = "toplevel"
  BY <1>1 DEF Truth, TruthOf, AnnouncedFirst
<1>3. j = 1
  BY <1>1, <1>2
<1> QED BY <1>1, <1>2, <1>3

LEMMA HeardNames ==
  ASSUME TypeOK, FeedInv, Truth, OnTitle \/ OnAppId \/ OnState
  PROVE  /\ Heard(Head(wire).id) /\ Head(wire).t \in {"app_id", "title", "state"}
         /\ \A j \in DOMAIN registry : j # Head(wire).id => registry'[j] = registry[j]
<1> DEFINE e == Head(wire)
           i == e.id
<1>1. /\ e.t \in {"app_id", "title", "state"} /\ i \in Id /\ wire # <<>> /\ wire' = Tail(wire)
  BY Dispatched DEF OnTitle, OnAppId, OnState, Dispatch
<1>2. i \in DOMAIN registry
  BY <1>1, HasEntry
<1>3. registry[i] \in Entry /\ registry[i].tl \in Toplevel
  BY <1>2, RegistryHolds
<1>4. ASSUME NEW tl, Publish(i, tl)
      PROVE  /\ DOMAIN registry' = DOMAIN registry
             /\ registry'[i].tl = tl /\ registry'[i].published = TRUE
             /\ \A j \in DOMAIN registry : j # i => registry'[j] = registry[j]
  BY <1>2, <1>4 DEF Publish
<1>5. CASE OnTitle
  <2>1. e.t = "title"
    BY <1>5 DEF OnTitle, Dispatch
  <2>2. CASE registry[i].tl.title # e.str
    <3> DEFINE tl == [registry[i].tl EXCEPT !.title = e.str]
    <3>1. Publish(i, tl)
      BY <1>2, <1>5, <2>2 DEF OnTitle
    <3>2. /\ tl.title = e.str /\ tl.app = registry[i].tl.app
          /\ tl.activated = registry[i].tl.activated /\ tl.minimized = registry[i].tl.minimized
      BY <1>3 DEF Toplevel
    <3> HIDE DEF tl, i
    <3>3. /\ DOMAIN registry' = DOMAIN registry
          /\ registry'[i].tl = tl /\ registry'[i].published = TRUE
          /\ \A j \in DOMAIN registry : j # i => registry'[j] = registry[j]
      BY <1>4, <3>1
    <3> QED BY <1>1, <1>2, <2>1, <3>2, <3>3 DEF Heard, i
  <2>3. CASE registry[i].tl.title = e.str
    BY <1>1, <1>2, <1>5, <2>1, <2>3 DEF OnTitle, Ignore, Heard
  <2> QED BY <2>2, <2>3
<1>6. CASE OnAppId
  <2>1. e.t = "app_id"
    BY <1>6 DEF OnAppId, Dispatch
  <2>2. CASE registry[i].tl.app # e.str
    <3> DEFINE tl == [registry[i].tl EXCEPT !.app = e.str]
    <3>1. Publish(i, tl)
      BY <1>2, <1>6, <2>2 DEF OnAppId
    <3>2. /\ tl.app = e.str /\ tl.title = registry[i].tl.title
          /\ tl.activated = registry[i].tl.activated /\ tl.minimized = registry[i].tl.minimized
      BY <1>3 DEF Toplevel
    <3> HIDE DEF tl, i
    <3>3. /\ DOMAIN registry' = DOMAIN registry
          /\ registry'[i].tl = tl /\ registry'[i].published = TRUE
          /\ \A j \in DOMAIN registry : j # i => registry'[j] = registry[j]
      BY <1>4, <3>1
    <3> QED BY <1>1, <1>2, <2>1, <3>2, <3>3 DEF Heard, i
  <2>3. CASE registry[i].tl.app = e.str
    BY <1>1, <1>2, <1>6, <2>1, <2>3 DEF OnAppId, Ignore, Heard
  <2> QED BY <2>2, <2>3
<1>7. CASE OnState
  <2> DEFINE news == \/ ~registry[i].published
                     \/ registry[i].tl.activated # e.activated
                     \/ registry[i].tl.minimized # e.minimized
             tl == [registry[i].tl EXCEPT !.activated = e.activated,
                                          !.minimized = e.minimized]
  <2>1. e.t = "state"
    BY <1>7 DEF OnState, Dispatch
  <2>2. CASE news
    <3>1. Publish(i, tl)
      BY <1>2, <1>7, <2>2 DEF OnState
    <3>2. /\ tl.activated = e.activated /\ tl.minimized = e.minimized
          /\ tl.app = registry[i].tl.app /\ tl.title = registry[i].tl.title
      BY <1>3 DEF Toplevel
    <3> HIDE DEF tl, i
    <3>3. /\ DOMAIN registry' = DOMAIN registry
          /\ registry'[i].tl = tl /\ registry'[i].published = TRUE
          /\ \A j \in DOMAIN registry : j # i => registry'[j] = registry[j]
      BY <1>4, <3>1
    <3> QED BY <1>1, <1>2, <2>1, <3>2, <3>3 DEF Heard, i
  <2>3. CASE ~news
    <3>1. UNCHANGED registry
      BY <1>7, <2>3 DEF OnState, Ignore
    <3> QED BY <1>1, <1>2, <2>1, <2>3, <3>1 DEF Heard
  <2> QED BY <2>2, <2>3
<1> QED BY <1>5, <1>6, <1>7

LEMMA TruthAnnounced ==
  ASSUME TypeOK, FeedInv, OnToplevel, NEW i \in Id, i = Head(wire).id, TruthOf(i)
  PROVE  TruthOf(i)'
<1>1. /\ wire # <<>> /\ wire' = Tail(wire) /\ UNCHANGED open /\ Head(wire).t = "toplevel"
      /\ handles' = handles \cup {i} /\ DOMAIN registry' = DOMAIN registry \cup {i}
  BY DEF OnToplevel, Dispatch
<1>2. 1 \in DOMAIN wire /\ wire[1] = Head(wire)
  BY <1>1, Taken
<1>3. i \notin handles /\ i \notin DOMAIN registry
  BY <1>1, <1>2 DEF FeedInv, AnnouncedOnce
<1>4. registry'[i].tl = Blank /\ i \in DOMAIN registry'
  BY <1>1, <1>3 DEF OnToplevel
<1>5. ASSUME NEW t, t # "toplevel", Unsaid(t, i)' PROVE Unsaid(t, i)
  <2>1. \A k \in DOMAIN wire : wire[k].t = t /\ wire[k].id = i => k = 1
    BY <1>1, <1>5, Taken
  <2> QED BY <1>1, <1>2, <1>5, <2>1 DEF Unsaid
<1>6. Told(i)' = Blank /\ Told(i) = Blank /\ ~Published(i)
  BY <1>3, <1>4 DEF Told, Published
<1>7. ASSUME i \in DOMAIN open PROVE WordsTrue(i)' /\ RestTold(i)'
  <2>1. WordsTrue(i) /\ RestTold(i)
    BY <1>7 DEF TruthOf
  <2>2. WordsTrue(i)'
    BY <1>1, <2>1, Taken DEF WordsTrue, Carries
  <2>3. /\ Unsaid("title", i)' => Unsaid("title", i)
        /\ Unsaid("app_id", i)' => Unsaid("app_id", i)
        /\ Unsaid("state", i)' => Unsaid("state", i)
    BY <1>5
  <2>4. RestTold(i)'
    BY <1>1, <1>6, <2>1, <2>3 DEF RestTold
  <2> QED BY <2>2, <2>4
<1>8. EndAnnounced(i)'
  <2>1. ~Unsaid("toplevel", i)
    BY <1>1, <1>2 DEF Unsaid
  <2>2. Unsaid("closed", i)' => Unsaid("closed", i)
    BY <1>5
  <2> QED BY <1>1, <2>1, <2>2 DEF TruthOf, EndAnnounced
<1>9. AnnouncedFirst(i)'
  BY <1>1 DEF AnnouncedFirst
<1> QED BY <1>1, <1>7, <1>8, <1>9 DEF TruthOf

LEMMA TruthEnded ==
  ASSUME TypeOK, FeedInv, OnClosed, NEW i \in Id, i = Head(wire).id
  PROVE  TruthOf(i)'
<1>1. /\ wire # <<>> /\ wire' = Tail(wire) /\ UNCHANGED open /\ Head(wire).t = "closed"
      /\ handles' = handles \ {i}
  BY DEF OnClosed, Dispatch
<1>2. 1 \in DOMAIN wire /\ wire[1] = Head(wire)
  BY <1>1, Taken
<1>3. i \notin DOMAIN open /\ \A j \in DOMAIN wire : wire[j].id = i => j <= 1
  BY <1>1, <1>2 DEF FeedInv, ClosedLast, TypeOK
<1>4. \A k \in DOMAIN wire' : wire'[k].id # i
  <2> SUFFICES ASSUME NEW k \in DOMAIN wire', wire'[k].id = i PROVE FALSE
    OBVIOUS
  <2>1. k \in Nat /\ k + 1 \in DOMAIN wire /\ wire[k + 1].id = i
    BY <1>1, Taken
  <2>2. k >= 1
    BY <1>1, WireShrinks
  <2>3. k + 1 <= 1
    BY <1>3, <2>1
  <2> QED BY <2>1, <2>2, <2>3
<1>5. EndAnnounced(i)' /\ AnnouncedFirst(i)'
  BY <1>1, <1>4 DEF EndAnnounced, AnnouncedFirst, Unsaid
<1> QED BY <1>1, <1>3, <1>5 DEF TruthOf

LEMMA TruthHandlers ==
  ASSUME TypeOK, FeedInv, Truth, Handlers PROVE Truth'
<1>1. /\ wire # <<>> /\ wire' = Tail(wire) /\ UNCHANGED open
      /\ Head(wire).id \in Id
  BY HandlersTake DEF TypeOK, WireEvent
<1>2. PICK i \in Id : i = Head(wire).id
  BY <1>1
<1>3. CASE OnToplevel
  <2>1. /\ handles' = handles \cup {i} /\ DOMAIN registry' = DOMAIN registry \cup {i}
        /\ \A j \in DOMAIN registry : registry'[j] = registry[j]
    BY <1>2, <1>3 DEF OnToplevel
  <2>2. \A j \in Id \ {i} : TruthOf(j)'
    BY <1>1, <1>2, <2>1, TruthShrinks DEF Truth
  <2>3. TruthOf(i)'
    BY <1>2, <1>3, TruthAnnounced DEF Truth
  <2> QED BY <2>2, <2>3 DEF Truth
<1>4. CASE OnClosed
  <2>1. /\ handles' = handles \ {i} /\ DOMAIN registry' = DOMAIN registry \ {i}
        /\ \A j \in DOMAIN registry : j # i => registry'[j] = registry[j]
    BY <1>2, <1>4 DEF OnClosed
  <2>2. \A j \in Id \ {i} : TruthOf(j)'
    BY <1>1, <1>2, <2>1, TruthShrinks DEF Truth
  <2>3. TruthOf(i)'
    BY <1>2, <1>4, TruthEnded
  <2> QED BY <2>2, <2>3 DEF Truth
<1>5. CASE OnTitle \/ OnAppId \/ OnState
  <2>1. handles' = handles
    BY <1>5 DEF OnTitle, OnAppId, OnState
  <2>2. /\ Heard(i) /\ Head(wire).t \in {"app_id", "title", "state"}
        /\ \A j \in DOMAIN registry : j # i => registry'[j] = registry[j]
    BY <1>2, <1>5, HeardNames
  <2>3. DOMAIN registry' = DOMAIN registry
    BY <2>2 DEF Heard
  <2>4. \A j \in Id \ {i} : TruthOf(j)'
    BY <1>1, <1>2, <2>1, <2>2, <2>3, TruthShrinks DEF Truth
  <2>5. TruthOf(i)'
    BY <1>1, <1>2, <2>1, <2>2, TruthHeard DEF Truth
  <2> QED BY <2>4, <2>5 DEF Truth
<1> QED BY <1>3, <1>4, <1>5 DEF Handlers

LEMMA TruthStep == TypeOK /\ FeedInv /\ Truth /\ [Next]_vars => Truth'
<1> SUFFICES ASSUME TypeOK, FeedInv, Truth, [Next]_vars PROVE Truth'
  OBVIOUS
<1>1. CASE SendBlocking
  BY <1>1, TruthSteady DEF SendBlocking, compVars
<1>2. CASE SessionError
  BY <1>2, TruthSteady DEF SessionError, compVars
<1>3. CASE ApplyEvent \/ SendPulse
  BY <1>3, TruthSteady DEF ApplyEvent, SendPulse, compVars, zwinVars
<1>4. CASE ForwarderRecv \/ ForwarderSend \/ PulseRecv \/ Refilter \/ UserFilter
  BY <1>4, TruthSteady DEF ForwarderRecv, ForwarderSend, PulseRecv, Refilter, UserFilter,
                           compVars, zwinVars
<1>5. CASE UNCHANGED vars
  BY <1>5, TruthSteady DEF vars, compVars, zwinVars
<1> QED BY <1>1, <1>2, <1>3, <1>4, <1>5, NextCases, TruthCompositor, TruthHandlers
        DEF Upstream

(* With nothing on the wire and nothing queued, the rows are the windows.  *)
LEMMA SettledRows ==
  ASSUME TypeOK, FeedInv, Truth, wire = <<>>, Queue = <<>>
  PROVE  items = {RowOf(i, open[i]) : i \in DOMAIN open}
<1>1. DOMAIN wire = {} /\ DOMAIN Queue = {}
  OBVIOUS
<1>2. \A t, i : Unsaid(t, i)
  BY <1>1 DEF Unsaid
<1>3. ASSUME NEW i \in DOMAIN open
      PROVE  Published(i) /\ RowOf(i, registry[i].tl) = RowOf(i, open[i])
  <2>1. RestTold(i)
    BY DEF Truth, TruthOf, TypeOK
  <2>2. Published(i) /\ Told(i) = registry[i].tl
    BY <1>2, <2>1 DEF RestTold, Published, Told
  <2> QED BY <1>2, <2>1, <2>2 DEF RestTold, RowOf
<1>4. ASSUME NEW i \in Id, Published(i) PROVE i \in DOMAIN open
  <2>1. i \in handles
    BY <1>4 DEF Published, FeedInv
  <2> QED BY <1>2, <2>1 DEF Truth, TruthOf, EndAnnounced
<1>5. \A i \in Id : /\ Shown(i) <=> Published(i)
                    /\ \A r \in items : r.id = i => r = RowOf(i, registry[i].tl)
  BY <1>1 DEF FeedInv, RowsAgree, Queued
<1>6. ASSUME NEW r \in items PROVE \E i \in DOMAIN open : r = RowOf(i, open[i])
  <2>1. r.id \in Id /\ Shown(r.id)
    BY DEF TypeOK, Row, Shown
  <2>2. Published(r.id) /\ r = RowOf(r.id, registry[r.id].tl)
    BY <1>5, <2>1
  <2> QED BY <1>3, <1>4, <2>1, <2>2
<1>7. ASSUME NEW i \in DOMAIN open PROVE RowOf(i, open[i]) \in items
  <2>1. i \in Id /\ Published(i) /\ RowOf(i, registry[i].tl) = RowOf(i, open[i])
    BY <1>3 DEF TypeOK
  <2>2. PICK r \in items : r.id = i
    BY <1>5, <2>1 DEF Shown
  <2> QED BY <1>5, <2>1, <2>2
<1> QED BY <1>6, <1>7

LEMMA TruthAlways == Spec => []Truth
<1> QED BY TruthInit, TruthStep, FeedType, FeedAlways, PTL DEF Spec

(* Whenever every thread waits and nothing is between them, the launcher   *)
(* has filtered exactly the open windows, with their names and focus as    *)
(* the compositor has them: the safety half of Converges.                  *)
THEOREM SettlesRight == Spec => []IdleUpToDate
<1>1. TypeOK /\ FeedInv /\ Truth /\ NoLostPulse => IdleUpToDate
  <2> SUFFICES ASSUME TypeOK, FeedInv, Truth, NoLostPulse, Idle PROVE UpToDate
    BY DEF IdleUpToDate
  <2>1. fresh
    BY DEF Idle, NoLostPulse
  <2> QED BY <2>1, SettledRows DEF Idle, UpToDate
<1> QED BY <1>1, FeedType, FeedAlways, TruthAlways, PulseNeverLost, PTL
=============================================================================
