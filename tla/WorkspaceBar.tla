--------------------------- MODULE WorkspaceBar ---------------------------
(* The workspaces module of zbar, one per bar: what it shows, the bounded  *)
(* channel its backend sends to, and what a click does to it at once.      *)
(* SwayBackend and ExtWorkspace are the two senders.                       *)
EXTENDS Naturals, Sequences

CONSTANTS
  Bar,        \* bar windows, one per display
  Name,       \* workspace names, the WorkspaceId
  Output,     \* wl_output names
  OutputOf,   \* the output a bar renders for, or None
  Cap,        \* capacity of the channel of a bar (64)
  None

ASSUME BarAssumption ==
  /\ Cap \in Nat \ {0}
  /\ None \notin Name \cup Output
  /\ OutputOf \in [Bar -> Output \cup {None}]

VARIABLES
  shown,      \* WorkspacesModule.state of each bar; state.active is never read
  chan        \* the events sent to each bar and not applied

barVars == <<shown, chan>>

Entry == [id : Name, output : Output \cup {None}, active : BOOLEAN]
Event == [t : {"snapshot"}, state : SUBSET Entry] \cup [t : {"focus"}, id : Name]
           \cup {[t |-> "disconnected"]}

BarType ==
  /\ shown \in [Bar -> SUBSET Entry]
  /\ chan \in [Bar -> Seq(Event)]
  /\ \A b \in Bar : Len(chan[b]) <= Cap

BarInit ==
  /\ shown = [b \in Bar |-> {}]
  /\ chan = [b \in Bar |-> <<>>]

Snapshot(s) == [t |-> "snapshot", state |-> s]
Focus(n) == [t |-> "focus", id |-> n]
Disconnected == [t |-> "disconnected"]

(* Mutant: the highlight is added to the new workspace only.               *)
HighlightAlso(s, n) == {[e EXCEPT !.active = @ \/ e.id = n] : e \in s}

Highlight(s, n) == {[e EXCEPT !.active = (e.id = n)] : e \in s}

(* WorkspacesModule::apply.                                                *)
Applied(s, ev) ==
  CASE ev.t = "snapshot" -> ev.state
    [] ev.t = "focus" -> Highlight(s, ev.id)
    [] OTHER -> {}

(* What a bar that shows s shows once it has applied the events of q.       *)
After(s, q) ==
  LET after[k \in 0..Len(q)] == IF k = 0 THEN s ELSE Applied(after[k - 1], q[k])
  IN  after[Len(q)]

Drained(b) == After(shown[b], chan[b])

Room(b) == Len(chan[b]) < Cap
(* send_blocking waits while the channel is full.                          *)
Send(b, ev) == Room(b) /\ chan' = [chan EXCEPT ![b] = Append(@, ev)]

(* The receiving loop of the module, on the main thread.                   *)
Apply(b) ==
  /\ chan[b] # <<>>
  /\ shown' = [shown EXCEPT ![b] = Applied(@, Head(chan[b]))]
  /\ chan' = [chan EXCEPT ![b] = Tail(@)]

OnBar(b, e) == OutputOf[b] = None \/ e.output = OutputOf[b]

(* render filters by output where both sides know theirs.                  *)
Pills(b) == {e \in shown[b] : OnBar(b, e) \/ e.output = None}

Clicked(s, b, n) ==
  {IF OnBar(b, e) THEN [e EXCEPT !.active = (e.id = n)] ELSE e : e \in s}

(* activate_optimistic, before the backend is asked.                       *)
Optimistic(b, n) == shown' = [shown EXCEPT ![b] = Clicked(@, b, n)]
=============================================================================
