---------------------------- MODULE WindowTitle -----------------------------
(* The title in zbar's centre: a session reads the compositor's events, on   *)
(* its own thread, and sends what it takes for the focused window's title.  *)
(* niri tells all windows when a session starts, sway only what changes.    *)
EXTENDS Naturals, Sequences, FiniteSets, Functions

CONSTANTS
  Win, Title,      \* windows, and the titles they can have
  NoTitle,         \* no title, or no window
  TitleCap,        \* 16 slots to the module
  MaxTitleEvents   \* bound: what the compositor does

(* A title, and a window, is not what stands for none.                      *)
ASSUME TitleAssumption ==
  /\ NoTitle \notin Win \union Title
  /\ TitleCap \in Nat \ {0} /\ MaxTitleEvents \in Nat

VARIABLES
  wm,        \* the compositor: which, its windows with their titles, the focused one
  stream,    \* events the session has not read
  session,   \* "running", or "sleeping" until it reconnects
  tracker,   \* NiriTitleTracker
  emitted,   \* last_emitted, and whether this session has sent anything
  told,      \* the compositor has told this session of the focused window (history)
  titleQueue,
  title,     \* WindowTitleModule::title
  happened

titleVars == <<wm, stream, session, tracker, emitted, told, titleQueue, title, happened>>
sessionVars == <<tracker, emitted, titleQueue, title>>

Untracked == [titles |-> <<>>, focused |-> NoTitle]

TitleOf(t) == IF t.focused \in DOMAIN t.titles THEN t.titles[t.focused] ELSE NoTitle

TitleInit ==
  /\ wm \in [kind : {"sway", "niri"}, titles : {<<>>}, focused : {NoTitle}]
  /\ stream = <<>> /\ session = "sleeping" /\ tracker = Untracked
  /\ emitted = [last |-> NoTitle, any |-> FALSE] /\ told = FALSE
  /\ titleQueue = <<>> /\ title = NoTitle /\ happened = 0

-----------------------------------------------------------------------------
(* The compositor.                                                          *)

WindowEvent(t, w) == [ev |-> "window", id |-> w, title |-> t.titles[w], focused |-> t.focused = w]

(* sway says what has the focus with the window, niri with its id.          *)
FocusEvents(t) ==
  IF wm.kind = "niri" THEN <<[ev |-> "focus", id |-> t.focused]>>
  ELSE IF t.focused = NoTitle THEN <<>> ELSE <<WindowEvent(t, t.focused)>>

Happens(t, events) ==
  /\ happened < MaxTitleEvents /\ happened' = happened + 1
  /\ wm' = [kind |-> wm.kind, titles |-> t.titles, focused |-> t.focused]
  /\ IF session = "running"
       THEN stream' = stream \o events
            /\ told' = (told \/ \E i \in DOMAIN events : events[i].ev = "window" /\ events[i].focused)
       ELSE UNCHANGED <<stream, told>>
  /\ UNCHANGED <<session, sessionVars>>

With(w, t) == [v \in DOMAIN wm.titles \union {w} |-> IF v = w THEN t ELSE wm.titles[v]]

WindowOpens(w, t) ==
  /\ w \notin DOMAIN wm.titles
  /\ \E f \in {w, wm.focused} :
       LET new == [titles |-> With(w, t), focused |-> f] IN Happens(new, <<WindowEvent(new, w)>>)

WindowRenamed(w, t) ==
  /\ w \in DOMAIN wm.titles /\ t # NoTitle
  /\ LET new == [titles |-> With(w, t), focused |-> wm.focused] IN Happens(new, <<WindowEvent(new, w)>>)

WindowFocused(w) ==
  /\ w \in DOMAIN wm.titles \union {NoTitle} /\ w # wm.focused
  /\ LET new == [titles |-> wm.titles, focused |-> w] IN Happens(new, FocusEvents(new))

(* The focus goes elsewhere with the window that had it.                    *)
WindowCloses(w) ==
  /\ w \in DOMAIN wm.titles
  /\ LET rest == Restrict(wm.titles, DOMAIN wm.titles \ {w})
         closed == IF wm.kind = "niri" THEN <<[ev |-> "closed", id |-> w]>> ELSE <<>>
     IN IF w # wm.focused THEN Happens([titles |-> rest, focused |-> wm.focused], closed)
        ELSE \E f \in DOMAIN rest \union {NoTitle} :
               LET new == [titles |-> rest, focused |-> f]
               IN Happens(new, closed \o FocusEvents(new))

-----------------------------------------------------------------------------
(* A session, with a tracker of its own.                                    *)

Connects ==
  /\ session = "sleeping" /\ session' = "running"
  /\ tracker' = Untracked /\ emitted' = [last |-> NoTitle, any |-> FALSE]
  /\ stream' = IF wm.kind = "niri"
                 THEN <<[ev |-> "windows", titles |-> wm.titles, focused |-> wm.focused]>> ELSE <<>>
  /\ told' = (wm.kind = "niri") /\ UNCHANGED <<wm, titleQueue, title, happened>>

(* An error, or the end of the stream; with it goes what was not read.      *)
SessionEnds ==
  /\ session = "running" /\ session' = "sleeping" /\ stream' = <<>>
  /\ UNCHANGED <<wm, sessionVars, told, happened>>

(* upsert_window. A window without a title keeps the one it had.            *)
Upserted(t, e) ==
  [titles |-> IF e.title = NoTitle THEN t.titles
              ELSE [w \in DOMAIN t.titles \union {e.id} |-> IF w = e.id THEN e.title ELSE t.titles[w]],
   focused |-> IF e.focused THEN e.id ELSE t.focused]

(* NiriTitleTracker::apply.                                                 *)
Tracked(t, e) ==
  CASE e.ev = "windows" -> [titles |-> Restrict(e.titles, {w \in DOMAIN e.titles : e.titles[w] # NoTitle}),
                            focused |-> e.focused]
    [] e.ev = "window" -> Upserted(t, e)
    [] e.ev = "closed" -> [titles |-> Restrict(t.titles, DOMAIN t.titles \ {e.id}),
                           focused |-> IF t.focused = e.id THEN NoTitle ELSE t.focused]
    [] e.ev = "focus" -> [t EXCEPT !.focused = e.id]

Emits(t) == Len(titleQueue) < TitleCap /\ titleQueue' = Append(titleQueue, t)

NiriReads ==
  /\ session = "running" /\ wm.kind = "niri" /\ stream # <<>> /\ stream' = Tail(stream)
  /\ tracker' = Tracked(tracker, Head(stream))
  /\ IF TitleOf(tracker') = emitted.last THEN UNCHANGED <<emitted, titleQueue>>
     ELSE Emits(TitleOf(tracker')) /\ emitted' = [last |-> TitleOf(tracker'), any |-> TRUE]
  /\ UNCHANGED <<wm, session, told, title, happened>>

(* parse_window_event lets the title of a focused window through.           *)
SwayReads ==
  /\ session = "running" /\ wm.kind = "sway" /\ stream # <<>> /\ stream' = Tail(stream)
  /\ IF Head(stream).focused /\ Head(stream).title # NoTitle
       THEN Emits(Head(stream).title) ELSE UNCHANGED titleQueue
  /\ UNCHANGED <<wm, session, tracker, emitted, told, title, happened>>

TitleShown ==
  /\ titleQueue # <<>> /\ title' = Head(titleQueue) /\ titleQueue' = Tail(titleQueue)
  /\ UNCHANGED <<wm, stream, session, tracker, emitted, told, happened>>

TitleNext ==
  \/ \E w \in Win, t \in Title \union {NoTitle} : WindowOpens(w, t) \/ WindowRenamed(w, t)
  \/ \E w \in Win : WindowCloses(w)
  \/ \E w \in Win \union {NoTitle} : WindowFocused(w)
  \/ Connects \/ SessionEnds \/ NiriReads \/ SwayReads \/ TitleShown

TitleSpec == TitleInit /\ [][TitleNext]_titleVars

TitleType ==
  /\ wm.focused \in DOMAIN wm.titles \union {NoTitle} /\ DOMAIN wm.titles \subseteq Win
  /\ session \in {"running", "sleeping"} /\ title \in Title \union {NoTitle}
  /\ Len(titleQueue) <= TitleCap /\ happened <= MaxTitleEvents

(* Once a session has read and the bar shown all there is, the title is that *)
(* of the focused window, however its opening, renaming, closing and focus   *)
(* were interleaved and wherever the session before it broke off             *)
(* (window_title.rs:121-178, 193-233). What the code leaves open: a session  *)
(* that has nothing to say yet, sway when nothing has the focus or a title.  *)
TitleFollows ==
  session = "running" /\ stream = <<>> /\ titleQueue = <<>> =>
    IF wm.kind = "niri"
      THEN emitted.last = TitleOf(wm) /\ (emitted.any => title = TitleOf(wm))
      ELSE told /\ TitleOf(wm) # NoTitle => title = TitleOf(wm)
=============================================================================
