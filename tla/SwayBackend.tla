---------------------------- MODULE SwayBackend ---------------------------
(* The sway IPC backend: a session per bar that subscribes, fetches and    *)
(* then follows the events, and a thread per click that runs a command on  *)
(* a connection of its own.  sway is modelled from the replies and events  *)
(* the sessions read.                                                      *)
EXTENDS WorkspaceBar

CONSTANTS
  SwayBar,    \* the bars; ExtWorkspace has its own
  MaxSub,     \* bound: events in a subscription when something new happens
  MaxCmds,    \* bound: threads with the same command
  Malformed   \* whether an event may fail to parse

ASSUME SwayAssumption == SwayBar \subseteq Bar /\ MaxSub \in Nat /\ MaxCmds \in Nat /\ Malformed \in BOOLEAN

VARIABLES
  up,         \* sway listens on its socket
  spaces,     \* name -> output
  focus,      \* the focused workspace
  sub,        \* events written to the subscription of each session
  conn,       \* whether the session's connections are to the living sway
  pc, got,    \* where run_session of each bar is; the event it is to send
  cmds        \* how many threads of activate have this command to run

swayVars == <<up, spaces, focus, sub, conn, pc, got, cmds>>
compVars == <<up, spaces, focus>>

Command == [id : Name, output : Output \cup {None}]
NoCommand == \A c \in Command : cmds[c] = 0

SwayType ==
  /\ up \in BOOLEAN /\ conn \in [SwayBar -> BOOLEAN]
  /\ DOMAIN spaces \subseteq Name /\ \A n \in DOMAIN spaces : spaces[n] \in Output
  /\ focus \in DOMAIN spaces
  /\ \A b \in SwayBar : sub[b] \in Seq([t : {"focus", "refetch", "bad"}, id : Name \cup {None}])
  /\ pc \in [SwayBar -> {"connect", "fetch", "send", "read", "lost", "sleep"}]
  /\ got \in [SwayBar -> Event \cup {None}]
  /\ cmds \in [Command -> Nat]

(* The reply to GET_WORKSPACES, parsed.                                    *)
Truth == {[id |-> n, output |-> spaces[n], active |-> n = focus] : n \in DOMAIN spaces}

SwayInit ==
  /\ up = TRUE
  /\ \E n \in Name, o \in Output : spaces = [x \in {n} |-> o] /\ focus = n
  /\ sub = [b \in SwayBar |-> <<>>] /\ conn = [b \in SwayBar |-> FALSE]
  /\ pc = [b \in SwayBar |-> "connect"] /\ got = [b \in SwayBar |-> None]
  /\ cmds = [c \in Command |-> 0]

-----------------------------------------------------------------------------
(* sway.  An event goes to every subscriber; "refetch" stands for init,    *)
(* empty, move, rename, reload and urgent.                                 *)

FocusOn(n) == [t |-> "focus", id |-> n]
Refetch == [t |-> "refetch", id |-> None]
Bad == [t |-> "bad", id |-> None]

Emit(evs) == sub' = [b \in SwayBar |-> IF conn[b] THEN sub[b] \o evs ELSE sub[b]]
Quiet == up /\ \A b \in SwayBar : Len(sub[b]) < MaxSub

(* `workspace n`: a new workspace is announced, then the focus if it moves. *)
GoTo(n, o) ==
  /\ focus' = n
  /\ IF n \in DOMAIN spaces
       THEN UNCHANGED spaces /\ Emit(IF n = focus THEN <<>> ELSE <<FocusOn(n)>>)
       ELSE /\ spaces' = [x \in DOMAIN spaces \cup {n} |-> IF x = n THEN o ELSE spaces[x]]
            /\ Emit(<<Refetch, FocusOn(n)>>)

SwitchFocus == \E n \in Name, o \in Output : n # focus /\ GoTo(n, o)

EmptySpace ==
  /\ \E n \in DOMAIN spaces \ {focus} :
       spaces' = [x \in DOMAIN spaces \ {n} |-> spaces[x]]
  /\ Emit(<<Refetch>>) /\ UNCHANGED focus

MoveSpace ==
  /\ \E n \in DOMAIN spaces, o \in Output :
       o # spaces[n] /\ spaces' = [spaces EXCEPT ![n] = o]
  /\ Emit(<<Refetch>>) /\ UNCHANGED focus

SendBad == Malformed /\ Emit(<<Bad>>) /\ UNCHANGED <<spaces, focus>>

SwayActs ==
  /\ Quiet
  /\ SwitchFocus \/ EmptySpace \/ MoveSpace \/ SendBad
  /\ UNCHANGED <<barVars, up, conn, pc, got, cmds>>

SwayDies ==
  /\ up /\ up' = FALSE
  /\ conn' = [b \in SwayBar |-> FALSE]
  /\ UNCHANGED <<barVars, spaces, focus, sub, pc, got, cmds>>

SwayBack ==
  /\ ~up /\ up' = TRUE
  /\ \E n \in Name, o \in Output : spaces' = [x \in {n} |-> o] /\ focus' = n
  /\ UNCHANGED <<barVars, sub, conn, pc, got, cmds>>

(* The thread of one click; its command may overtake another one.          *)
RunCommand(c) ==
  /\ cmds[c] > 0 /\ cmds' = [cmds EXCEPT ![c] = @ - 1]
  /\ IF up THEN \E o \in IF c.output = None THEN Output ELSE {c.output} : GoTo(c.id, o)
           ELSE UNCHANGED <<spaces, focus, sub>>
  /\ UNCHANGED <<barVars, up, conn, pc, got>>

SwayClick(b) ==
  /\ \E e \in Pills(b) :
       /\ Optimistic(b, e.id)
       /\ LET c == [id |-> e.id, output |-> e.output] IN
            cmds[c] < MaxCmds /\ cmds' = [cmds EXCEPT ![c] = @ + 1]
  /\ UNCHANGED <<chan, compVars, sub, conn, pc, got>>

-----------------------------------------------------------------------------
(* SwayBackend::run and run_session, of bar b.                             *)

At(b, p) == pc[b] = p
GoOn(b, p) == pc' = [pc EXCEPT ![b] = p]

(* Both connections are made and the subscription is answered.             *)
Subscribe(b) ==
  /\ At(b, "connect")
  /\ conn' = [conn EXCEPT ![b] = up]
  /\ GoOn(b, IF up THEN "fetch" ELSE "lost")
  /\ UNCHANGED <<barVars, compVars, sub, got, cmds>>

FetchWorkspaces(b) ==
  /\ At(b, "fetch")
  /\ IF conn[b] THEN /\ got' = [got EXCEPT ![b] = Snapshot(Truth)] /\ GoOn(b, "send")
                ELSE UNCHANGED got /\ GoOn(b, "lost")
  /\ UNCHANGED <<barVars, compVars, sub, conn, cmds>>

SendGot(b) ==
  /\ At(b, "send") /\ Send(b, got[b])
  /\ got' = [got EXCEPT ![b] = None] /\ GoOn(b, "read")
  /\ UNCHANGED <<shown, compVars, sub, conn, cmds>>

(* read_message and classify_event; what does not parse ends the session.  *)
ReadEvent(b) ==
  /\ At(b, "read") /\ sub[b] # <<>>
  /\ sub' = [sub EXCEPT ![b] = Tail(@)]
  /\ LET ev == Head(sub[b]) IN
       /\ got' = IF ev.t = "focus" THEN [got EXCEPT ![b] = Focus(ev.id)] ELSE got
       /\ GoOn(b, CASE ev.t = "focus" -> "send" [] ev.t = "refetch" -> "fetch"
                    [] OTHER -> "lost")
  /\ UNCHANGED <<barVars, compVars, conn, cmds>>

ReadEof(b) ==
  /\ At(b, "read") /\ sub[b] = <<>> /\ ~conn[b]
  /\ GoOn(b, "lost")
  /\ UNCHANGED <<barVars, compVars, sub, conn, got, cmds>>

(* The session returned: its connections are closed, the bar is told.      *)
SendDisconnected(b) ==
  /\ At(b, "lost") /\ Send(b, Disconnected)
  /\ GoOn(b, "sleep")
  /\ sub' = [sub EXCEPT ![b] = <<>>] /\ conn' = [conn EXCEPT ![b] = FALSE]
  /\ UNCHANGED <<shown, compVars, got, cmds>>

Reconnect(b) ==
  /\ At(b, "sleep") /\ GoOn(b, "connect")
  /\ UNCHANGED <<barVars, compVars, sub, conn, got, cmds>>

Session(b) ==
  \/ Subscribe(b) \/ FetchWorkspaces(b) \/ SendGot(b) \/ ReadEvent(b) \/ ReadEof(b)
  \/ SendDisconnected(b) \/ Reconnect(b)

SwayEnvironment == SwayActs \/ SwayDies \/ \E b \in SwayBar : SwayClick(b)

SwayReacts ==
  \/ SwayBack
  \/ \E c \in Command : RunCommand(c)
  \/ \E b \in SwayBar : Session(b) \/ (Apply(b) /\ UNCHANGED swayVars)

SwayNext == SwayEnvironment \/ SwayReacts

SwaySpec == BarInit /\ SwayInit /\ [][SwayNext]_<<barVars, swayVars>>

-----------------------------------------------------------------------------
(* Once a session has read what sway sent and the bar has applied it, the  *)
(* bar shows what sway has: subscribing before fetching loses no event, a  *)
(* stale focus applied after a newer snapshot is overtaken by the newer    *)
(* focus, and a click that came first or last is settled by its command.   *)
SwayFollows ==
  \A b \in SwayBar :
    At(b, "read") /\ conn[b] /\ sub[b] = <<>> /\ NoCommand => Drained(b) = Truth
=============================================================================
