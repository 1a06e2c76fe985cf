-------------------------------- MODULE Tray --------------------------------
(* The status notifier host of zbar: the watcher that applications register *)
(* with, the session thread that fetches their icons, the tasks that follow  *)
(* each of them, and the module on the GUI thread that shows the items.      *)
EXTENDS Naturals, Sequences, FiniteSets, Functions

CONSTANTS Item      \* addresses; each is owned by one connection to the bus
CONSTANTS Fg        \* foreground colours of the themes
CONSTANTS None

CONSTANTS MsgCap, EventCap, ReqCap, ThemeCap, RefetchCap  \* bounded channels

CONSTANTS MaxAdds  \* bound: items added in a session

ASSUME TrayAssumption ==
  /\ MsgCap \in Nat \ {0} /\ EventCap \in Nat \ {0} /\ ReqCap \in Nat \ {0}
  /\ ThemeCap \in Nat \ {0} /\ RefetchCap \in Nat \ {0}

VARIABLES
  alive,       \* items whose application still runs
  ver,         \* ver[i]: which icon, status and tooltip the application publishes
  missed,      \* items that changed before anything listened (history)
  hostPhase,   \* "setup", "retry", "hosting", "boot" or "loop"
  registered,  \* WatcherState.items
  cleanup,     \* is the NameOwnerChanged stream subscribed?
  ownersLost,  \* owners lost, queued in that stream
  events,      \* WatcherEvents queued for the session
  toAdd,       \* initial items not fetched yet
  hollow,      \* entries of item_metas that add_item gave up on: no item, no tasks
  watchWork,   \* what the watcher branch of the loop is doing, or None
  reqs,        \* requests queued by the module, per branch of the loop
  reqWork,     \* what each of these branches is doing, or None
  metas,       \* the other entries of item_metas: item -> number of its tasks
  tasks,       \* the NewIcon, NewStatus and NewToolTip tasks ever spawned
  fg,          \* fg_hex_state, written by the GUI thread
  signalling,  \* the theme observer wrote fg and has not signalled yet
  themeSigs,   \* theme_changed signals queued
  msgs,        \* TrayMsgs queued for the module
  items,       \* the items the module shows, with their icons
  menu         \* the item whose menu is open, or None

busVars == <<alive, ver, missed>>
hostVars == <<hostPhase, registered, cleanup, ownersLost, events, toAdd, hollow>>
loopVars == <<watchWork, reqWork, metas, tasks>>
guiVars == <<fg, signalling, items, menu>>
trayVars == <<busVars, hostVars, loopVars, guiVars, reqs, themeSigs, msgs>>

Branch == {"activate", "click"}
Idle == [b \in Branch |-> None]

Icon == (Fg \union {None}) \X Nat  \* drawn in this foreground, from this version
NoIcon == <<None, 0>> \* the application did not answer

TrayInit ==
  /\ alive \in SUBSET Item /\ ver = [i \in Item |-> 0] /\ missed = {}
  /\ hostPhase = "setup" /\ registered = {} /\ cleanup = FALSE
  /\ ownersLost = <<>> /\ events = <<>> /\ toAdd = {} /\ hollow = {}
  /\ watchWork = None /\ reqWork = Idle /\ metas = <<>> /\ tasks = <<>>
  /\ fg \in Fg /\ signalling = FALSE /\ items = <<>> /\ menu = None
  /\ reqs = [b \in Branch |-> <<>>] /\ themeSigs = 0 /\ msgs = <<>>

(* A map with one entry inserted.                                           *)
Put(f, x, v) == [y \in DOMAIN f \union {x} |-> IF y = x THEN v ELSE f[y]]

(* Mutant of Offer: the channels have no capacity.                          *)
OfferUnbounded(queue, cap, m) == Append(queue, m)

(* try_send: what finds the channel full is dropped.                        *)
Offer(queue, cap, m) == IF Len(queue) < cap THEN Append(queue, m) ELSE queue

-----------------------------------------------------------------------------
(* The watcher and the set-up of a session.                                 *)

Connect ==
  /\ hostPhase \in {"setup", "retry"}
  /\ hostPhase' = "hosting" /\ registered' = {} /\ events' = <<>>
  /\ UNCHANGED <<busVars, cleanup, ownersLost, toAdd, hollow, loopVars, guiVars, reqs, themeSigs, msgs>>

(* Any step of the set-up may fail; the connection goes and is made anew.   *)
SessionFails ==
  /\ hostPhase \in {"setup", "hosting"}
  /\ hostPhase' = "retry" /\ registered' = {} /\ events' = <<>>
  /\ UNCHANGED <<busVars, cleanup, ownersLost, toAdd, hollow, loopVars, guiVars, reqs, themeSigs, msgs>>

(* The items registered so far are asked for, or that call fails.           *)
Boot ==
  /\ hostPhase = "hosting" /\ hostPhase' = "boot"
  /\ toAdd' \in {registered, {}}
  /\ UNCHANGED <<busVars, registered, cleanup, ownersLost, events, hollow, loopVars, guiVars, reqs, themeSigs, msgs>>

RegisterItem(i) ==
  /\ hostPhase \notin {"setup", "retry"} /\ i \in alive
  /\ registered' = registered \union {i}
  /\ events' = Offer(events, EventCap, [kind |-> "added", item |-> i])
  /\ UNCHANGED <<busVars, hostPhase, cleanup, ownersLost, toAdd, hollow, loopVars, guiVars, reqs, themeSigs, msgs>>

(* A completed branch or a step of any task ends the round of the loop: the *)
(* other branches are dropped, with whatever they had taken from a queue.   *)
DropOthers == watchWork' = None /\ reqWork' = Idle

Tick == hostPhase = "loop" /\ DropOthers

SubscribeCleanup ==
  /\ Tick /\ ~cleanup /\ cleanup' = TRUE
  /\ UNCHANGED <<busVars, hostPhase, registered, ownersLost, events, toAdd, hollow, metas, tasks, guiVars, reqs, themeSigs, msgs>>

OwnerLost ==
  /\ Tick /\ ownersLost # <<>> /\ ownersLost' = Tail(ownersLost)
  /\ LET i == Head(ownersLost) IN
       /\ registered' = registered \ {i}
       /\ events' = IF i \in registered
                    THEN Offer(events, EventCap, [kind |-> "removed", item |-> i]) ELSE events
  /\ UNCHANGED <<busVars, hostPhase, cleanup, toAdd, hollow, metas, tasks, guiVars, reqs, themeSigs, msgs>>

-----------------------------------------------------------------------------
(* Adding an item: its proxy is built, the foreground is read, the           *)
(* properties are fetched, the Add is sent, which waits for room, and the    *)
(* item's tasks are spawned.                                                *)

Published(i, colour) == IF i \in alive THEN <<colour, ver[i]>> ELSE NoIcon

StartAdd(i) == watchWork' = [at |-> "build", item |-> i, icon |-> NoIcon]

NextInitial ==
  /\ hostPhase = "boot" /\ watchWork = None
  /\ \/ \E i \in toAdd :
          StartAdd(i) /\ toAdd' = toAdd \ {i} /\ UNCHANGED <<hostPhase, reqWork>>
     \/ toAdd = {} /\ hostPhase' = "loop" /\ DropOthers /\ UNCHANGED toAdd
  /\ UNCHANGED <<busVars, registered, cleanup, ownersLost, events, hollow, metas, tasks, guiVars, reqs, themeSigs, msgs>>

TakeEvent ==
  /\ hostPhase = "loop" /\ watchWork = None /\ events # <<>>
  /\ events' = Tail(events)
  /\ LET e == Head(events) IN
       \/ /\ e.kind = "added" /\ e.item \in DOMAIN metas \union hollow
          /\ DropOthers /\ UNCHANGED <<metas, hollow>>
       \/ /\ e.kind = "added" /\ e.item \notin DOMAIN metas \union hollow /\ Len(tasks) < MaxAdds
          /\ StartAdd(e.item) /\ UNCHANGED <<metas, hollow, reqWork>>
       \/ /\ e.kind = "removed"
          /\ metas' = Restrict(metas, DOMAIN metas \ {e.item}) /\ hollow' = hollow \ {e.item}
          /\ watchWork' = [at |-> "remove", item |-> e.item, icon |-> NoIcon]
          /\ UNCHANGED reqWork
  /\ UNCHANGED <<busVars, hostPhase, registered, cleanup, ownersLost, toAdd, tasks, guiVars, reqs, themeSigs, msgs>>

(* The item's address is no name or path, or it does not answer: nothing is *)
(* sent and no task is spawned, but the item is kept.                       *)
AddFails ==
  /\ watchWork # None /\ watchWork.at = "build"
  /\ hollow' = hollow \union {watchWork.item} /\ DropOthers
  /\ UNCHANGED <<busVars, hostPhase, registered, cleanup, ownersLost, events, toAdd, metas, tasks, guiVars, reqs, themeSigs, msgs>>

ProxyBuilt ==
  /\ watchWork # None /\ watchWork.at = "build"
  /\ watchWork' = [watchWork EXCEPT !.at = "fetch", !.icon = <<fg, 0>>]
  /\ UNCHANGED <<busVars, hostVars, reqWork, metas, tasks, guiVars, reqs, themeSigs, msgs>>

PropsFetched ==
  /\ watchWork # None /\ watchWork.at = "fetch"
  /\ watchWork' = [watchWork EXCEPT !.at = "send", !.icon = Published(watchWork.item, @[1])]
  /\ UNCHANGED <<busVars, hostVars, reqWork, metas, tasks, guiVars, reqs, themeSigs, msgs>>

(* Mutant of SendMsg: try_send instead of send.                             *)
TrySendMsg(m) == msgs' = Offer(msgs, MsgCap, m)

SendMsg(m) == Len(msgs) < MsgCap /\ msgs' = Append(msgs, m)

NewTask(i, icon) ==
  [item |-> i, at |-> "spawned", fg |-> None, icon |-> icon, refetch |-> 0, news |-> 0]

AddSent ==
  /\ watchWork # None /\ watchWork.at = "send"
  /\ SendMsg([kind |-> "add", item |-> watchWork.item, icon |-> watchWork.icon])
  /\ tasks' = Append(tasks, NewTask(watchWork.item, watchWork.icon))
  /\ metas' = Put(metas, watchWork.item, Len(tasks'))
  /\ DropOthers
  /\ UNCHANGED <<busVars, hostVars, guiVars, reqs, themeSigs>>

RemoveSent ==
  /\ watchWork # None /\ watchWork.at = "remove"
  /\ SendMsg([kind |-> "remove", item |-> watchWork.item, icon |-> NoIcon])
  /\ DropOthers
  /\ UNCHANGED <<busVars, hostVars, metas, tasks, guiVars, reqs, themeSigs>>

-----------------------------------------------------------------------------
(* The tasks of an item, run by the loop's executor. The senders of their   *)
(* refetch channels live in metas: once one is gone the task ends.          *)

HasSender(t) == \E i \in DOMAIN metas : metas[i] = t

SetTask(t, r) == tasks' = [tasks EXCEPT ![t] = r]

TaskSubscribes(t) ==
  /\ Tick /\ tasks[t].at = "spawned"
  /\ \/ SetTask(t, [tasks[t] EXCEPT !.at = "wait"])
     \/ tasks[t].item \notin alive /\ SetTask(t, [tasks[t] EXCEPT !.at = "ended"])
  /\ UNCHANGED <<busVars, hostVars, metas, guiVars, reqs, themeSigs, msgs>>

(* Mutant of TaskTriggered: the foreground is captured when the task starts. *)
TaskTriggeredOldFg(t) ==
  /\ Tick /\ tasks[t].at = "wait"
  /\ \/ tasks[t].news > 0
        /\ SetTask(t, [tasks[t] EXCEPT !.at = "fetch", !.fg = tasks[t].icon[1], !.news = @ - 1])
     \/ tasks[t].refetch > 0
        /\ SetTask(t, [tasks[t] EXCEPT !.at = "fetch", !.fg = tasks[t].icon[1], !.refetch = @ - 1])
  /\ UNCHANGED <<busVars, hostVars, metas, guiVars, reqs, themeSigs, msgs>>

(* A signal of the application or a refetch, whichever is there; either way *)
(* the foreground is read again.                                            *)
TaskTriggered(t) ==
  /\ Tick /\ tasks[t].at = "wait"
  /\ \/ tasks[t].news > 0 /\ SetTask(t, [tasks[t] EXCEPT !.at = "fetch", !.fg = fg, !.news = @ - 1])
     \/ tasks[t].refetch > 0
        /\ SetTask(t, [tasks[t] EXCEPT !.at = "fetch", !.fg = fg, !.refetch = @ - 1])
     \/ tasks[t].refetch = 0 /\ ~HasSender(t) /\ SetTask(t, [tasks[t] EXCEPT !.at = "ended"])
  /\ UNCHANGED <<busVars, hostVars, metas, guiVars, reqs, themeSigs, msgs>>

TaskFetches(t) ==
  /\ Tick /\ tasks[t].at = "fetch"
  /\ SetTask(t, [tasks[t] EXCEPT !.at = "send", !.icon = Published(tasks[t].item, tasks[t].fg)])
  /\ UNCHANGED <<busVars, hostVars, metas, guiVars, reqs, themeSigs, msgs>>

TaskSends(t) ==
  /\ Tick /\ tasks[t].at = "send"
  /\ SendMsg([kind |-> "update", item |-> tasks[t].item, icon |-> tasks[t].icon])
  /\ SetTask(t, [tasks[t] EXCEPT !.at = "wait"])
  /\ UNCHANGED <<busVars, hostVars, metas, guiVars, reqs, themeSigs>>

-----------------------------------------------------------------------------
(* The other branches of the loop.                                          *)

(* One trigger for every item that is known; it completes within a poll.    *)
ThemeBranch ==
  /\ hostPhase = "loop" /\ themeSigs > 0 /\ themeSigs' = themeSigs - 1
  /\ tasks' = [t \in DOMAIN tasks |->
                 IF HasSender(t) /\ tasks[t].at # "ended" /\ tasks[t].refetch < RefetchCap
                 THEN [tasks[t] EXCEPT !.refetch = @ + 1] ELSE tasks[t]]
  /\ DropOthers
  /\ UNCHANGED <<busVars, hostVars, metas, guiVars, reqs, msgs>>

Works(b, w) == reqWork' = [reqWork EXCEPT ![b] = w] /\ UNCHANGED watchWork

TakeRequest(b) ==
  /\ hostPhase = "loop" /\ reqWork[b] = None /\ reqs[b] # <<>>
  /\ reqs' = [reqs EXCEPT ![b] = Tail(@)]
  /\ LET r == Head(reqs[b]) IN
       \/ r.kind = "menu" /\ r.item \notin DOMAIN metas /\ DropOthers
       \/ /\ r.kind = "menu" => r.item \in DOMAIN metas
          /\ Works(b, [at |-> "call", kind |-> r.kind, item |-> r.item])
  /\ UNCHANGED <<busVars, hostVars, metas, tasks, guiVars, themeSigs, msgs>>

(* The application answers, or the call fails; a menu is sent on.           *)
RequestAnswered(b) ==
  /\ reqWork[b] # None /\ reqWork[b].at = "call"
  /\ \/ /\ reqWork[b].kind = "menu" /\ reqWork[b].item \in alive
        /\ Works(b, [reqWork[b] EXCEPT !.at = "send"])
     \/ DropOthers
  /\ UNCHANGED <<busVars, hostVars, metas, tasks, guiVars, reqs, themeSigs, msgs>>

MenuSent ==
  /\ reqWork["activate"] # None /\ reqWork["activate"].at = "send"
  /\ SendMsg([kind |-> "menu", item |-> reqWork["activate"].item, icon |-> NoIcon])
  /\ DropOthers
  /\ UNCHANGED <<busVars, hostVars, metas, tasks, guiVars, reqs, themeSigs>>

-----------------------------------------------------------------------------
(* The module on the GUI thread.                                            *)

(* An observer of the theme writes the colour the session reads, then       *)
(* signals; the session may run in between.                                 *)
ThemeWritten ==
  /\ ~signalling /\ fg' \in Fg \ {fg} /\ signalling' = TRUE
  /\ UNCHANGED <<busVars, hostVars, loopVars, items, menu, reqs, themeSigs, msgs>>

ThemeSignalled ==
  /\ signalling /\ signalling' = FALSE
  /\ themeSigs' = IF themeSigs < ThemeCap THEN themeSigs + 1 ELSE themeSigs
  /\ UNCHANGED <<busVars, hostVars, loopVars, fg, items, menu, reqs, msgs>>

GuiReceives ==
  /\ msgs # <<>> /\ ~signalling /\ msgs' = Tail(msgs)
  /\ LET m == Head(msgs) IN
       \/ m.kind = "add" /\ items' = Put(items, m.item, m.icon) /\ UNCHANGED menu
       \/ /\ m.kind = "update" /\ UNCHANGED menu
          /\ items' = IF m.item \in DOMAIN items THEN [items EXCEPT ![m.item] = m.icon] ELSE items
       \/ m.kind = "remove" /\ items' = Restrict(items, DOMAIN items \ {m.item}) /\ UNCHANGED menu
       \/ m.kind = "menu" /\ menu' = (IF menu = m.item THEN None ELSE m.item) /\ UNCHANGED items
  /\ UNCHANGED <<busVars, hostVars, loopVars, fg, signalling, reqs, themeSigs>>

Asks(b, kind, i) ==
  /\ ~signalling
  /\ reqs' = [reqs EXCEPT ![b] = Offer(@, ReqCap, [kind |-> kind, item |-> i])]
  /\ UNCHANGED <<busVars, hostVars, loopVars, guiVars, themeSigs, msgs>>

(* A right click, any other click or a scroll on a shown item, and a click  *)
(* in the open menu.                                                        *)
UserRequests ==
  \/ \E i \in DOMAIN items : Asks("activate", "menu", i) \/ Asks("activate", "call", i)
  \/ menu # None /\ Asks("click", "call", menu)

-----------------------------------------------------------------------------
(* The applications.                                                        *)

Listening(t) == tasks[t].at \notin {"spawned", "ended"}

(* Its properties have been read already, its tasks do not listen yet.      *)
Deaf(i) ==
  \/ i \in DOMAIN metas /\ ~Listening(metas[i])
  \/ watchWork # None /\ watchWork.item = i /\ watchWork.at = "send"

(* It publishes something new and says so, to whoever listens.              *)
Publish(i) ==
  /\ i \in alive
  /\ ver' = [ver EXCEPT ![i] = @ + 1]
  /\ tasks' = [t \in DOMAIN tasks |->
                 IF tasks[t].item = i /\ Listening(t) THEN [tasks[t] EXCEPT !.news = @ + 1] ELSE tasks[t]]
  /\ missed' = IF Deaf(i) THEN missed \union {i} ELSE missed
  /\ UNCHANGED <<alive, hostVars, watchWork, reqWork, metas, guiVars, reqs, themeSigs, msgs>>

Dies(i) ==
  /\ i \in alive /\ alive' = alive \ {i}
  /\ ownersLost' = IF cleanup THEN Append(ownersLost, i) ELSE ownersLost
  /\ UNCHANGED <<ver, missed, hostPhase, registered, cleanup, events, toAdd, hollow, loopVars, guiVars, reqs, themeSigs, msgs>>

(* Some other name changes its owner: the cleanup task runs for nothing.    *)
Unrelated ==
  /\ Tick /\ cleanup /\ <<watchWork, reqWork>> # <<None, Idle>>
  /\ UNCHANGED <<busVars, hostVars, metas, tasks, guiVars, reqs, themeSigs, msgs>>

-----------------------------------------------------------------------------
TaskStep == \E t \in DOMAIN tasks :
  TaskSubscribes(t) \/ TaskTriggered(t) \/ TaskFetches(t) \/ TaskSends(t)

TrayReacts ==
  \/ Connect \/ SessionFails \/ Boot \/ NextInitial \/ SubscribeCleanup \/ OwnerLost
  \/ TakeEvent \/ ProxyBuilt \/ AddFails \/ PropsFetched \/ AddSent \/ RemoveSent
  \/ ThemeBranch \/ MenuSent \/ \E b \in Branch : TakeRequest(b) \/ RequestAnswered(b)
  \/ ThemeSignalled \/ GuiReceives \/ TaskStep

(* Nothing is on its way any more.                                          *)
TrayQuiet ==
  /\ hostPhase = "loop" /\ cleanup /\ ownersLost = <<>> /\ events = <<>>
  /\ watchWork = None /\ reqWork = Idle /\ (\A b \in Branch : reqs[b] = <<>>) /\ themeSigs = 0 /\ ~signalling /\ msgs = <<>>
  /\ \A t \in DOMAIN tasks :
       tasks[t].at \in {"wait", "ended"} /\ tasks[t].news = 0 /\ tasks[t].refetch = 0

(* What happens to the bar, without the bounds MCTray puts on it.           *)
TrayHappens ==
  \/ Unrelated \/ ThemeWritten \/ UserRequests
  \/ \E i \in Item : RegisterItem(i) \/ Publish(i) \/ Dies(i)

TrayNext == TrayReacts \/ TrayHappens

TraySpec == TrayInit /\ [][TrayNext]_trayVars

Work == [at : {"build", "fetch", "send", "remove"}, item : Item, icon : Icon]
Task == [item : Item, at : {"spawned", "wait", "fetch", "send", "ended"}, fg : Fg \union {None},
         icon : Icon, refetch : 0..RefetchCap, news : Nat]
Message == [kind : {"add", "update", "remove", "menu"}, item : Item, icon : Icon]

TrayType ==
  /\ alive \subseteq Item /\ ver \in [Item -> Nat]
  /\ registered \subseteq Item /\ hollow \subseteq Item /\ toAdd \subseteq registered /\ ownersLost \in Seq(Item)
  /\ events \in Seq([kind : {"added", "removed"}, item : Item]) /\ Len(events) <= EventCap
  /\ watchWork \in Work \union {None} /\ tasks \in Seq(Task)
  /\ \A i \in DOMAIN metas : metas[i] \in DOMAIN tasks /\ tasks[metas[i]].item = i
  /\ fg \in Fg /\ signalling \in BOOLEAN /\ themeSigs \in 0..ThemeCap
  /\ msgs \in Seq(Message) /\ Len(msgs) <= MsgCap
  /\ \A b \in Branch : Len(reqs[b]) <= ReqCap
  /\ DOMAIN items \subseteq Item /\ menu \in Item \union {None}

(* An item whose tasks the session runs is shown, or will be once its        *)
(* messages are read: add_item sends before it keeps the item, and Remove   *)
(* comes after (tray.rs:818-839). An item that add_item gave up on is kept,  *)
(* neither shown nor followed (tray.rs:966-981), so it is no item here.     *)
MetasShown == \A i \in DOMAIN metas :
  LET last == {n \in DOMAIN msgs : msgs[n].item = i /\ msgs[n].kind \in {"add", "remove"}} IN
    \/ last = {} /\ i \in DOMAIN items
    \/ \E n \in last : msgs[n].kind = "add" /\ \A m \in last : m <= n

(* Once all is quiet every item that answered is drawn in the theme's       *)
(* foreground, whatever the theme did while it was fetched, and shows what  *)
(* its application published last if something was listening (tray.rs:1019).*)
IconFresh == TrayQuiet =>
  \A i \in DOMAIN metas : i \in alive /\ tasks[metas[i]].at = "wait" =>
    items[i][1] = fg /\ (i \notin missed => items[i][2] = ver[i])

(* tray.rs:484 "Notify the host directly when items are added/removed":     *)
(* once all is quiet every item registered with the watcher is shown, unless *)
(* the application did not answer add_item.                                  *)
RegisteredShown == TrayQuiet => registered \subseteq DOMAIN items \union hollow

=============================================================================
