---------------------------- MODULE ExtWorkspace --------------------------
(* The ext-workspace backend: one Wayland session for all bars, which      *)
(* mirrors the compositor's workspaces and groups, sends every bar the     *)
(* snapshots that differ from the last one, replays that one to a bar that *)
(* comes later, and keeps the handles that a click activates.  A workspace *)
(* handle is its protocol id.                                              *)
EXTENDS WorkspaceBar, SequencesExt

CONSTANTS
  MaxHandle,  \* bound: workspaces the compositor creates
  MaxWire,    \* bound: events on the wire when something new happens
  MaxReqs     \* bound: activations under way

ASSUME ExtAssumption ==
  /\ MaxHandle \in Nat /\ MaxWire \in Nat /\ MaxReqs \in Nat
  /\ IsFiniteSet(Output) /\ \A s \in SUBSET Entry : s # None

VARIABLES
  xup,        \* the compositor accepts connections
  monitors,   \* its outputs, each with a workspace group
  live,       \* handle -> name, whether it is active, output
  used,       \* handles created so far
  linked,     \* the session's connection is to the living compositor
  wire,       \* events sent to the session
  reqs,       \* activations sent to the compositor
  builders,   \* AppState.workspaces: handle -> WsBuilder
  groups,     \* AppState.groups: group -> its outputs
  outputs,    \* AppState.outputs: those whose name arrived
  by_key,     \* Shared.by_key: <<name, output>> -> handle
  session,    \* Shared.session is Some
  sinks,      \* Shared.sinks, the bars in order of registration
  last,       \* Shared.last_snapshot
  task,       \* where the task of each bar is
  xpc,        \* where the session thread is
  ev, todo    \* the event it broadcasts, and the cloned sinks still to be served

xcompVars == <<xup, monitors, live, used>>
linkVars == <<linked, wire, reqs>>
appVars == <<builders, groups, outputs>>
sharedVars == <<by_key, session, sinks, last>>
castVars == <<ev, todo>>
extVars == <<xcompVars, linkVars, appVars, sharedVars, task, xpc, castVars>>

Handle == 1..MaxHandle
Key == Name \X (Output \cup {None})
Builder == [name : Name \cup {None}, active : BOOLEAN, group : Output \cup {None}]

ExtType ==
  /\ monitors \subseteq Output /\ used \in 0..MaxHandle
  /\ DOMAIN live \subseteq 1..used /\ \A h \in DOMAIN live : live[h] \in Builder
  /\ DOMAIN builders \subseteq 1..used /\ \A h \in DOMAIN builders : builders[h] \in Builder
  /\ DOMAIN groups \subseteq Output /\ \A g \in DOMAIN groups : groups[g] \subseteq Output
  /\ outputs \subseteq Output
  /\ DOMAIN by_key \subseteq Key /\ \A k \in DOMAIN by_key : by_key[k] \in 1..used
  /\ {session, linked, xup} \subseteq BOOLEAN
  /\ sinks \in Seq(Bar) /\ IsInjective(sinks) /\ todo \in Seq(Bar)
  /\ last = None \/ last \subseteq Entry
  /\ task \in [Bar -> {"new", "replay", "loop"}]
  /\ xpc \in {"off", "connect", "dispatch", "lost", "clone", "send", "sleep"}

ExtInit ==
  /\ xup = TRUE /\ monitors = Output /\ used = 1
  /\ \E n \in Name, g \in Output : live = [h \in {1} |-> [name |-> n, active |-> TRUE, group |-> g]]
  /\ linked = FALSE /\ wire = <<>> /\ reqs = <<>>
  /\ builders = <<>> /\ groups = <<>> /\ outputs = {}
  /\ by_key = <<>> /\ session = FALSE /\ sinks = <<>> /\ last = None
  /\ task = [b \in Bar |-> "new"] /\ xpc = "off"
  /\ ev = None /\ todo = <<>>

-----------------------------------------------------------------------------
(* The compositor: each change is a batch of events closed by done, in an  *)
(* order the protocol leaves open.                                         *)

Msg(t, h, g, v) == [t |-> t, h |-> h, g |-> g, v |-> v]
Done == Msg("done", 0, None, None)

Announce(h, w) ==
  <<Msg("workspace", h, None, None), Msg("name", h, None, w.name),
    Msg("state", h, None, w.active)>>
    \o IF w.group = None THEN <<>> ELSE <<Msg("enter", h, w.group, None)>>

(* What a client is told that binds the manager and the outputs; the       *)
(* events of different objects commute.                                    *)
Burst ==
  LET ms == SetToSeq(monitors)
      hs == SetToSeq(DOMAIN live)
      in == SetToSeq({h \in DOMAIN live : live[h].group # None})
  IN [i \in DOMAIN ms |-> Msg("output", 0, ms[i], None)]
       \o [i \in DOMAIN ms |-> Msg("group", 0, ms[i], None)]
       \o [i \in DOMAIN hs |-> Msg("workspace", hs[i], None, None)]
       \o [i \in DOMAIN ms |-> Msg("output_enter", 0, ms[i], ms[i])]
       \o [i \in DOMAIN hs |-> Msg("name", hs[i], None, live[hs[i]].name)]
       \o [i \in DOMAIN hs |-> Msg("state", hs[i], None, live[hs[i]].active)]
       \o [i \in DOMAIN in |-> Msg("enter", in[i], live[in[i]].group, None)]
       \o <<Done>>

Tell(msgs) == wire' = IF linked THEN wire \o msgs \o <<Done>> ELSE wire
Ready == xup /\ Len(wire) < MaxWire

(* The active one of a group gives way to the new one.                     *)
MakeActive(h) ==
  LET old == {x \in DOMAIN live : x # h /\ live[x].active /\ live[x].group = live[h].group} IN
    /\ live' = [x \in DOMAIN live |-> [live[x] EXCEPT !.active = (x = h \/ (@ /\ x \notin old))]]
    /\ Tell(SetToSeq({Msg("state", x, None, FALSE) : x \in old})
              \o <<Msg("state", h, None, TRUE)>>)
    /\ UNCHANGED <<monitors, used>>

NewWorkspace ==
  /\ used < MaxHandle /\ used' = used + 1
  /\ \E n \in Name, g \in monitors :
       /\ \A h \in DOMAIN live : live[h].name = n => live[h].group # g
       /\ live' = [h \in DOMAIN live \cup {used'} |->
                     IF h \in DOMAIN live THEN live[h]
                     ELSE [name |-> n, active |-> FALSE, group |-> g]]
       /\ Tell(Announce(used', live'[used']))
  /\ UNCHANGED monitors

RemoveWorkspace ==
  /\ \E h \in DOMAIN live :
       /\ live' = [x \in DOMAIN live \ {h} |-> live[x]]
       /\ Tell((IF live[h].group = None THEN <<>> ELSE <<Msg("leave", h, live[h].group, None)>>)
                 \o <<Msg("removed", h, None, None)>>)
  /\ UNCHANGED <<monitors, used>>

(* A workspace goes and one that looks the same comes, in one batch.       *)
ReplaceWorkspace ==
  /\ used < MaxHandle /\ used' = used + 1
  /\ \E h \in DOMAIN live :
       /\ live' = [x \in (DOMAIN live \ {h}) \cup {used'} |->
                     IF x = used' THEN live[h] ELSE live[x]]
       /\ Tell((IF live[h].group = None THEN <<>> ELSE <<Msg("leave", h, live[h].group, None)>>)
                 \o <<Msg("removed", h, None, None)>> \o Announce(used', live[h]))
  /\ UNCHANGED monitors

MoveWorkspace ==
  /\ \E h \in DOMAIN live, g \in monitors :
       LET enter == Msg("enter", h, g, None)
           leave == Msg("leave", h, live[h].group, None)
       IN /\ live[h].group \notin {g, None}
          /\ \A x \in DOMAIN live : live[x].group = g => live[x].name # live[h].name
          /\ live' = [live EXCEPT ![h].group = g]
          /\ Tell(<<enter, leave>>) \/ Tell(<<leave, enter>>)
  /\ UNCHANGED <<monitors, used>>

(* A monitor goes: its workspaces are left without a group until they are  *)
(* moved to another one in a batch of their own.                           *)
Unplug ==
  /\ \E g \in monitors :
       LET mine == {h \in DOMAIN live : live[h].group = g} IN
         /\ Cardinality(monitors) > 1 /\ monitors' = monitors \ {g}
         /\ live' = [h \in DOMAIN live |->
                       IF h \in mine THEN [live[h] EXCEPT !.group = None] ELSE live[h]]
         /\ \E told \in {mine, {}} :
              Tell(SetToSeq({Msg("leave", h, g, None) : h \in told})
                     \o <<Msg("output_leave", 0, g, g), Msg("group_removed", 0, g, None)>>)
  /\ UNCHANGED used

Adopt ==
  /\ \E h \in DOMAIN live, g \in monitors :
       /\ live[h].group = None
       /\ \A x \in DOMAIN live : live[x].group = g => live[x].name # live[h].name
       /\ live' = [live EXCEPT ![h].group = g]
       /\ Tell(<<Msg("enter", h, g, None)>>)
  /\ UNCHANGED <<monitors, used>>

(* A batch that changes nothing (niri, on every focus tick).               *)
Tick == Tell(<<>>) /\ UNCHANGED <<monitors, live, used>>

CompositorActs ==
  /\ Ready
  /\ \/ \E h \in DOMAIN live : MakeActive(h)
     \/ NewWorkspace \/ RemoveWorkspace \/ ReplaceWorkspace \/ MoveWorkspace \/ Unplug \/ Adopt
     \/ linked /\ Tick
  /\ UNCHANGED <<barVars, xup, linked, reqs, appVars, sharedVars, task, xpc, castVars>>

(* "There is no guarantee": an activation may be ignored.                  *)
CompositorObeys ==
  /\ Ready /\ reqs # <<>> /\ reqs' = Tail(reqs)
  /\ IF Head(reqs) \in DOMAIN live
       THEN MakeActive(Head(reqs)) \/ UNCHANGED <<monitors, live, used, wire>>
       ELSE UNCHANGED <<monitors, live, used, wire>>
  /\ UNCHANGED <<barVars, xup, linked, appVars, sharedVars, task, xpc, castVars>>

CompositorDies ==
  /\ xup /\ xup' = FALSE /\ linked' = FALSE /\ reqs' = <<>>
  /\ UNCHANGED <<barVars, monitors, live, used, wire, appVars, sharedVars, task, xpc,
                 castVars>>

CompositorBack ==
  /\ ~xup /\ xup' = TRUE
  /\ UNCHANGED <<barVars, monitors, live, used, linkVars, appVars, sharedVars, task, xpc,
                 castVars>>

-----------------------------------------------------------------------------
(* The Dispatch handlers of the session thread, one event each.            *)

Without(f, x) == [y \in DOMAIN f \ {x} |-> f[y]]
Put(f, x, v) == [y \in DOMAIN f \cup {x} |-> IF y = x THEN v ELSE f[y]]

Handling(t) ==
  /\ xpc = "dispatch" /\ wire # <<>> /\ Head(wire).t = t
  /\ wire' = Tail(wire)
  /\ UNCHANGED <<barVars, xcompVars, linked, reqs, session, sinks, task, todo>>

(* Only Done changes what is shared with the main thread.                  *)
Quietly == UNCHANGED <<by_key, last, xpc, ev>>

OnManager ==
  \/ /\ Handling("workspace") /\ Quietly
     /\ builders' = Put(builders, Head(wire).h, [name |-> None, active |-> FALSE, group |-> None])
     /\ UNCHANGED <<groups, outputs>>
  \/ /\ Handling("group") /\ Quietly
     /\ groups' = Put(groups, Head(wire).g, {})
     /\ UNCHANGED <<builders, outputs>>

OnOutputName ==
  /\ Handling("output") /\ Quietly
  /\ outputs' = outputs \cup {Head(wire).g}
  /\ UNCHANGED <<builders, groups>>

SetBuilder(h, b) ==
  builders' = IF h \in DOMAIN builders THEN [builders EXCEPT ![h] = b] ELSE builders

GroupOutputs(g) == IF g \in DOMAIN groups THEN groups[g] ELSE {}

(* Mutant: a leave clears the group whatever it is.                        *)
LeaveAny(b, g) == [b EXCEPT !.group = None]

Leave(b, g) == [b EXCEPT !.group = IF @ = g THEN None ELSE @]

OnGroup ==
  LET h == Head(wire).h
      g == Head(wire).g
  IN
  \/ /\ Handling("output_enter") /\ Quietly
     /\ groups' = Put(groups, g, GroupOutputs(g) \cup {Head(wire).v})
     /\ UNCHANGED <<builders, outputs>>
  \/ /\ Handling("output_leave") /\ Quietly
     /\ groups' = IF g \in DOMAIN groups
                    THEN [groups EXCEPT ![g] = @ \ {Head(wire).v}] ELSE groups
     /\ UNCHANGED <<builders, outputs>>
  \/ /\ Handling("enter") /\ Quietly
     /\ groups' = Put(groups, g, GroupOutputs(g))
     /\ SetBuilder(h, [builders[h] EXCEPT !.group = g])
     /\ UNCHANGED outputs
  \/ /\ Handling("leave") /\ Quietly
     /\ SetBuilder(h, Leave(builders[h], g))
     /\ UNCHANGED <<groups, outputs>>
  \/ /\ Handling("group_removed") /\ Quietly
     /\ groups' = Without(groups, g)
     /\ UNCHANGED <<builders, outputs>>

OnWorkspace ==
  LET h == Head(wire).h
      v == Head(wire).v
  IN
  \/ /\ Handling("name") /\ Quietly
     /\ SetBuilder(h, [builders[h] EXCEPT !.name = v])
     /\ UNCHANGED <<groups, outputs>>
  \/ /\ Handling("state") /\ Quietly
     /\ SetBuilder(h, [builders[h] EXCEPT !.active = v])
     /\ UNCHANGED <<groups, outputs>>
  \/ /\ Handling("removed") /\ Quietly
     /\ builders' = Without(builders, h)
     /\ UNCHANGED <<groups, outputs>>

(* output_name_for_group: an output of the group whose name is known.      *)
OutputNameFor(g) ==
  LET known == GroupOutputs(g) \cap outputs IN
    IF known = {} THEN None ELSE CHOOSE o \in known : TRUE

Named == {h \in DOMAIN builders : builders[h].name # None}
KeyOf(h) == <<builders[h].name, OutputNameFor(builders[h].group)>>

StateNow == {[id |-> KeyOf(h)[1], output |-> KeyOf(h)[2], active |-> builders[h].active] : h \in Named}
HandlesNow == [k \in {KeyOf(h) : h \in Named} |->
                 CHOOSE h \in Named : KeyOf(h) = k /\ \A x \in Named : KeyOf(x) = k => x <= h]

(* flush_state, on Done: the handles are always refreshed, a state equal   *)
(* to the last one is not broadcast.                                       *)
Suppressed == Handling("done") /\ last = StateNow

(* Mutant: nothing at all is refreshed when the state is the same.         *)
FlushNothing ==
  /\ Handling("done") /\ UNCHANGED appVars
  /\ IF last = StateNow THEN UNCHANGED <<by_key, last, xpc, ev>>
     ELSE /\ by_key' = HandlesNow
          /\ last' = StateNow /\ ev' = Snapshot(StateNow) /\ xpc' = "clone"

Flush ==
  /\ Handling("done") /\ UNCHANGED appVars
  /\ by_key' = HandlesNow
  /\ IF last = StateNow THEN UNCHANGED <<last, xpc, ev>>
     ELSE last' = StateNow /\ ev' = Snapshot(StateNow) /\ xpc' = "clone"

-----------------------------------------------------------------------------
(* The session thread around them: run_session, broadcast, reconnect.      *)

Connect ==
  /\ xpc = "connect"
  /\ IF xup THEN /\ linked' = TRUE /\ session' = TRUE /\ wire' = Burst /\ xpc' = "dispatch"
                 /\ builders' = <<>> /\ groups' = <<>> /\ outputs' = {}
            ELSE xpc' = "lost" /\ UNCHANGED <<linked, session, wire, appVars>>
  /\ UNCHANGED <<barVars, xcompVars, reqs, by_key, sinks, last, task, castVars>>

ConnectionLost ==
  /\ xpc = "dispatch" /\ wire = <<>> /\ ~linked
  /\ xpc' = "lost"
  /\ UNCHANGED <<barVars, xcompVars, linkVars, appVars, sharedVars, task, castVars>>

Lose ==
  /\ xpc = "lost" /\ xpc' = "clone"
  /\ session' = FALSE /\ by_key' = <<>> /\ last' = None /\ ev' = Disconnected
  /\ UNCHANGED <<barVars, xcompVars, linkVars, appVars, sinks, task, todo>>

(* broadcast clones the sinks, after the lock of last is released.         *)
CloneSinks ==
  /\ xpc = "clone" /\ xpc' = "send" /\ todo' = sinks
  /\ UNCHANGED <<barVars, xcompVars, linkVars, appVars, sharedVars, task, ev>>

AfterSend == IF Len(todo) > 1 THEN "send" ELSE IF ev = Disconnected THEN "sleep" ELSE "dispatch"

(* Mutant: try_send, a full channel loses the event.                       *)
TrySendNext ==
  /\ xpc = "send"
  /\ Send(Head(todo), ev) \/ (~Room(Head(todo)) /\ UNCHANGED chan)
  /\ todo' = Tail(todo) /\ xpc' = AfterSend
  /\ UNCHANGED <<shown, xcompVars, linkVars, appVars, sharedVars, task, ev>>

SendNext ==
  /\ xpc = "send" /\ Send(Head(todo), ev)
  /\ todo' = Tail(todo) /\ xpc' = AfterSend
  /\ UNCHANGED <<shown, xcompVars, linkVars, appVars, sharedVars, task, ev>>

Sleep ==
  /\ xpc = "sleep" /\ xpc' = "connect"
  /\ UNCHANGED <<barVars, xcompVars, linkVars, appVars, sharedVars, task, castVars>>

-----------------------------------------------------------------------------
(* The main thread.  It may stand still inside run, replaying.             *)

MainFree == \A b \in Bar : task[b] # "replay"

PushSink(b) ==
  /\ MainFree /\ task[b] = "new" /\ task' = [task EXCEPT ![b] = "replay"]
  /\ sinks' = Append(sinks, b)
  /\ UNCHANGED <<barVars, xcompVars, linkVars, appVars, by_key, session, last, xpc, castVars>>

(* The lock of last is held while the replay is sent; then call_once.      *)
Replay(b) ==
  /\ task[b] = "replay" /\ task' = [task EXCEPT ![b] = "loop"]
  /\ IF last = None THEN UNCHANGED chan ELSE Send(b, Snapshot(last))
  /\ xpc' = IF xpc = "off" THEN "connect" ELSE xpc
  /\ UNCHANGED <<shown, xcompVars, linkVars, appVars, sharedVars, castVars>>

BarApplies(b) ==
  /\ MainFree /\ task[b] = "loop" /\ Apply(b)
  /\ UNCHANGED extVars

(* activate: the handle of that name and output, else of that name.        *)
HandlesFor(e) ==
  IF <<e.id, e.output>> \in DOMAIN by_key THEN {by_key[<<e.id, e.output>>]}
  ELSE {by_key[k] : k \in {x \in DOMAIN by_key : x[1] = e.id}}

ExtClick(b) ==
  /\ MainFree /\ task[b] = "loop"
  /\ \E e \in Pills(b) :
       /\ Optimistic(b, e.id)
       /\ IF HandlesFor(e) # {} /\ session /\ linked
            THEN Len(reqs) < MaxReqs /\ \E h \in HandlesFor(e) : reqs' = Append(reqs, h)
            ELSE UNCHANGED reqs
  /\ UNCHANGED <<chan, xcompVars, linked, wire, appVars, sharedVars, task, xpc, castVars>>

ExtEnvironment ==
  \/ CompositorActs \/ CompositorDies
  \/ \E b \in Bar : ExtClick(b)

Mirror == OnManager \/ OnOutputName \/ OnGroup \/ OnWorkspace

ExtReacts ==
  \/ CompositorBack \/ CompositorObeys \/ Flush
  \/ Connect \/ ConnectionLost \/ Lose \/ CloneSinks \/ SendNext \/ Sleep
  \/ \E b \in Bar : PushSink(b) \/ Replay(b) \/ BarApplies(b)

ExtNext == ExtEnvironment \/ Mirror \/ ExtReacts

ExtSpec == BarInit /\ ExtInit /\ [][ExtNext]_<<barVars, extVars>>

-----------------------------------------------------------------------------
CaughtUp == xpc = "dispatch" /\ linked /\ wire = <<>>

(* The last snapshot is what the compositor has, once all it sent is read: *)
(* whatever the order of enter and leave, and whether a group goes before  *)
(* or after its workspaces leave it.                                       *)
MirrorsCompositor ==
  CaughtUp => last = {[id |-> live[h].name, output |-> live[h].group,
                       active |-> live[h].active] : h \in DOMAIN live}

(* "Handle map is always refreshed" (ext_workspace.rs:148): every pill of  *)
(* the last snapshot has a handle, of a workspace that exists, even when a *)
(* workspace was replaced by one that looks the same.                      *)
KeysFresh ==
  CaughtUp => /\ DOMAIN by_key = {<<e.id, e.output>> : e \in last}
              /\ \A k \in DOMAIN by_key :
                   by_key[k] \in DOMAIN live /\ live[by_key[k]].name = k[1]

(* What a bar was sent, replay and broadcasts in any order, amounts to the *)
(* last snapshot, up to the highlight of its own last click.               *)
Current == IF last = None THEN {} ELSE last

BarsAgree ==
  \A b \in Bar :
    task[b] = "loop" /\ xpc # "clone" /\ (xpc = "send" => b \notin Range(todo)) =>
      Drained(b) \in {Current} \cup {Clicked(Current, b, n) : n \in Name}

(* "suppress identical back-to-back snapshots so downstream bars don't     *)
(* re-render on no-op updates" (ext_workspace.rs:152): a snapshot that is  *)
(* suppressed with no activation under way is what every bar shows.        *)
SuppressedIsNoOp ==
  [][Suppressed /\ reqs = <<>> =>
       \A b \in Bar : task[b] = "loop" => Drained(b) = last]_<<wire, last>>
=============================================================================
