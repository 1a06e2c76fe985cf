---------------------------- MODULE Tray_proofs ----------------------------
(***************************************************************************)
(* The tray's host: for any applications, colours, channel capacities and  *)
(* number of steps, what the session knows of is shown, and drawn as the   *)
(* theme and the application are at rest (MetasShown and IconFresh).       *)
(***************************************************************************)
EXTENDS MCTray, SequenceTheorems, TLAPS

-----------------------------------------------------------------------------
(* The messages on their way to the module.  What a queue q and a map of   *)
(* shown items amount to for item i, once the queue is read.               *)

Places(q, i, kinds) == {n \in DOMAIN q : q[n].item = i /\ q[n].kind \in kinds}
Last(q, n, i, kinds) == n \in Places(q, i, kinds) /\ \A m \in Places(q, i, kinds) : m <= n

WillShow(q, shown, i) ==
  \/ Places(q, i, {"add", "remove"}) = {} /\ i \in DOMAIN shown
  \/ \E n \in DOMAIN q : Last(q, n, i, {"add", "remove"}) /\ q[n].kind = "add"

WillDraw(q, shown, i, icon) ==
  \/ Places(q, i, {"add", "update"}) = {} /\ i \in DOMAIN shown /\ shown[i] = icon
  \/ \E n \in DOMAIN q : Last(q, n, i, {"add", "update"}) /\ q[n].icon = icon

(* What reading one message does to the map, GuiReceives.                  *)
Shown(shown, m) ==
  CASE m.kind = "add" -> Put(shown, m.item, m.icon)
    [] m.kind = "update" ->
         IF m.item \in DOMAIN shown THEN [shown EXCEPT ![m.item] = m.icon] ELSE shown
    [] m.kind = "remove" -> Restrict(shown, DOMAIN shown \ {m.item})
    [] OTHER -> shown

(* A message sent leaves the others where they are.                        *)
LEMMA PlacesAppend ==
  ASSUME NEW q \in Seq(Message), NEW m \in Message, NEW i, NEW kinds
  PROVE  /\ Places(Append(q, m), i, kinds) =
              Places(q, i, kinds) \union
                (IF m.item = i /\ m.kind \in kinds THEN {Len(q) + 1} ELSE {})
         /\ Places(q, i, kinds) \subseteq DOMAIN q
         /\ \A n \in DOMAIN q : Append(q, m)[n] = q[n] /\ n \in DOMAIN Append(q, m)
         /\ Append(q, m)[Len(q) + 1] = m /\ Len(q) + 1 \in DOMAIN Append(q, m)
         /\ \A n \in DOMAIN q : n \in Nat /\ n < Len(q) + 1
         /\ Len(q) \in Nat
<1>1. DOMAIN q = 1..Len(q) /\ Len(q) \in Nat
  BY LenProperties
<1>2. /\ Append(q, m) \in Seq(Message) /\ Len(Append(q, m)) = Len(q) + 1
      /\ \A n \in 1..Len(q) : Append(q, m)[n] = q[n]
      /\ Append(q, m)[Len(q) + 1] = m
  BY AppendProperties
<1>3. DOMAIN Append(q, m) = 1..(Len(q) + 1)
  BY <1>2, LenProperties
<1> HIDE DEF Message
<1>4. ASSUME NEW n \in 1..(Len(q) + 1)
      PROVE  n \in 1..Len(q) \/ n = Len(q) + 1
  BY <1>1
<1>5. Places(Append(q, m), i, kinds) =
        Places(q, i, kinds) \union (IF m.item = i /\ m.kind \in kinds THEN {Len(q) + 1} ELSE {})
  BY <1>1, <1>2, <1>3, <1>4 DEF Places
<1>6. Places(q, i, kinds) \subseteq DOMAIN q
  BY DEF Places
<1>7. Len(q) + 1 \in 1..(Len(q) + 1) /\ \A n \in 1..Len(q) : n \in 1..(Len(q) + 1)
  BY <1>1
<1> QED BY <1>1, <1>2, <1>3, <1>5, <1>6, <1>7

LEMMA SendOther ==
  ASSUME NEW q \in Seq(Message), NEW m \in Message, NEW i, NEW shown, NEW icon
  PROVE  /\ ~(m.item = i /\ m.kind \in {"add", "remove"}) /\ WillShow(q, shown, i)
              => WillShow(Append(q, m), shown, i)
         /\ ~(m.item = i /\ m.kind \in {"add", "update"}) /\ WillDraw(q, shown, i, icon)
              => WillDraw(Append(q, m), shown, i, icon)
<1>1. ASSUME NEW kinds, ~(m.item = i /\ m.kind \in kinds)
      PROVE  /\ Places(Append(q, m), i, kinds) = Places(q, i, kinds)
             /\ \A n \in DOMAIN q : /\ Append(q, m)[n] = q[n] /\ n \in DOMAIN Append(q, m)
                                    /\ Last(q, n, i, kinds) => Last(Append(q, m), n, i, kinds)
  <2>0. Places(Append(q, m), i, kinds) =
          Places(q, i, kinds) \union
            (IF m.item = i /\ m.kind \in kinds THEN {Len(q) + 1} ELSE {})
    BY PlacesAppend
  <2>1. Places(Append(q, m), i, kinds) = Places(q, i, kinds)
    BY <1>1, <2>0, Zenon
  <2>2. \A n \in DOMAIN q : Append(q, m)[n] = q[n] /\ n \in DOMAIN Append(q, m)
    BY PlacesAppend
  <2> QED BY <2>1, <2>2 DEF Last
<1>2. ASSUME ~(m.item = i /\ m.kind \in {"add", "remove"}), WillShow(q, shown, i)
      PROVE  WillShow(Append(q, m), shown, i)
  BY <1>1, <1>2 DEF WillShow
<1>3. ASSUME ~(m.item = i /\ m.kind \in {"add", "update"}), WillDraw(q, shown, i, icon)
      PROVE  WillDraw(Append(q, m), shown, i, icon)
  BY <1>1, <1>3 DEF WillDraw
<1> QED BY <1>2, <1>3

LEMMA SendOwn ==
  ASSUME NEW q \in Seq(Message), NEW m \in Message, NEW shown
  PROVE  /\ m.kind = "add" => WillShow(Append(q, m), shown, m.item)
         /\ m.kind \in {"add", "update"} => WillDraw(Append(q, m), shown, m.item, m.icon)
<1>1. ASSUME NEW kinds, m.kind \in kinds
      PROVE  /\ Last(Append(q, m), Len(q) + 1, m.item, kinds)
             /\ Append(q, m)[Len(q) + 1] = m /\ Len(q) + 1 \in DOMAIN Append(q, m)
  <2>1. /\ Places(Append(q, m), m.item, kinds) = Places(q, m.item, kinds) \union {Len(q) + 1}
        /\ Places(q, m.item, kinds) \subseteq DOMAIN q
        /\ \A n \in DOMAIN q : n \in Nat /\ n < Len(q) + 1
        /\ Len(q) \in Nat
    BY <1>1, PlacesAppend
  <2>2. \A n \in Places(Append(q, m), m.item, kinds) : n <= Len(q) + 1
    BY <2>1
  <2> QED BY <2>1, <2>2, PlacesAppend DEF Last
<1>2. m.kind = "add" => WillShow(Append(q, m), shown, m.item)
  BY <1>1 DEF WillShow
<1>3. m.kind \in {"add", "update"} => WillDraw(Append(q, m), shown, m.item, m.icon)
  BY <1>1 DEF WillDraw
<1> QED BY <1>2, <1>3

(* Reading the first message moves the others up by one.                   *)
LEMMA PlacesTail ==
  ASSUME NEW q \in Seq(Message), q # <<>>, NEW i, NEW kinds
  PROVE  /\ Places(Tail(q), i, kinds) = {n - 1 : n \in Places(q, i, kinds) \ {1}}
         /\ \A n \in DOMAIN q \ {1} : n - 1 \in DOMAIN Tail(q) /\ Tail(q)[n - 1] = q[n]
         /\ DOMAIN q \subseteq Nat \ {0} /\ 1 \in DOMAIN q /\ Head(q) = q[1]
         /\ Tail(q) \in Seq(Message) /\ Head(q) \in Message
<1>1. DOMAIN q = 1..Len(q) /\ Len(q) \in Nat /\ Len(q) # 0
  BY LenProperties, EmptySeq
<1>2. /\ Head(q) \in Message /\ Tail(q) \in Seq(Message) /\ Len(Tail(q)) = Len(q) - 1
      /\ \A n \in 1..Len(Tail(q)) : Tail(q)[n] = q[n + 1]
  BY HeadTailProperties
<1>3. DOMAIN Tail(q) = 1..(Len(q) - 1)
  BY <1>2, LenProperties
<1>4. Head(q) = q[1]
  OBVIOUS
<1> HIDE DEF Message
<1>5. \A n \in DOMAIN q \ {1} : n - 1 \in DOMAIN Tail(q) /\ Tail(q)[n - 1] = q[n]
  <2> SUFFICES ASSUME NEW n \in DOMAIN q \ {1}
               PROVE  n - 1 \in DOMAIN Tail(q) /\ Tail(q)[n - 1] = q[n]
    OBVIOUS
  <2>1. n \in Nat /\ n > 1 /\ n <= Len(q) /\ (n - 1) + 1 = n
    BY <1>1
  <2>2. n - 1 \in 1..(Len(q) - 1)
    BY <1>1, <2>1
  <2>3. Tail(q)[n - 1] = q[(n - 1) + 1]
    BY <1>2, <2>2
  <2> QED BY <1>3, <2>1, <2>2, <2>3
<1>6. \A k \in DOMAIN Tail(q) : k + 1 \in DOMAIN q \ {1} /\ (k + 1) - 1 = k
  BY <1>1, <1>3
<1>7. ASSUME NEW k PROVE k \in Places(Tail(q), i, kinds) <=> \E n \in Places(q, i, kinds) \ {1} : k = n - 1
  <2>1. ASSUME k \in Places(Tail(q), i, kinds)
        PROVE  \E n \in Places(q, i, kinds) \ {1} : k = n - 1
    <3>1. k \in DOMAIN Tail(q) /\ Tail(q)[k].item = i /\ Tail(q)[k].kind \in kinds
      BY <2>1 DEF Places
    <3>2. k + 1 \in DOMAIN q \ {1} /\ (k + 1) - 1 = k /\ Tail(q)[k] = q[k + 1]
      BY <1>5, <1>6, <3>1
    <3> QED BY <3>1, <3>2 DEF Places
  <2>2. ASSUME NEW n \in Places(q, i, kinds) \ {1}, k = n - 1
        PROVE  k \in Places(Tail(q), i, kinds)
    <3>1. n \in DOMAIN q \ {1} /\ q[n].item = i /\ q[n].kind \in kinds
      BY DEF Places
    <3> QED BY <1>5, <2>2, <3>1 DEF Places
  <2> QED BY <2>1, <2>2
<1>8. Places(Tail(q), i, kinds) = {n - 1 : n \in Places(q, i, kinds) \ {1}}
  BY <1>7
<1>9. DOMAIN q \subseteq Nat \ {0} /\ 1 \in DOMAIN q
  BY <1>1
<1> QED BY <1>2, <1>4, <1>5, <1>8, <1>9

LEMMA LastTail ==
  ASSUME NEW q \in Seq(Message), q # <<>>, NEW i, NEW kinds,
         NEW n \in DOMAIN q, Last(q, n, i, kinds), n # 1
  PROVE  /\ n - 1 \in DOMAIN Tail(q) /\ Last(Tail(q), n - 1, i, kinds)
         /\ Tail(q)[n - 1] = q[n]
<1>1. /\ Places(Tail(q), i, kinds) = {k - 1 : k \in Places(q, i, kinds) \ {1}}
      /\ n - 1 \in DOMAIN Tail(q) /\ Tail(q)[n - 1] = q[n]
      /\ DOMAIN q \subseteq Nat
  BY PlacesTail
<1>2. \A k \in Places(q, i, kinds) : k \in Nat /\ k <= n
  BY <1>1 DEF Last, Places
<1>3. \A k \in Places(Tail(q), i, kinds) : k <= n - 1
  BY <1>1, <1>2
<1> QED BY <1>1, <1>3 DEF Last

(* Only the first message was for i.                                       *)
LEMMA AloneTail ==
  ASSUME NEW q \in Seq(Message), q # <<>>, NEW i, NEW kinds,
         Places(q, i, kinds) \subseteq {1}
  PROVE  Places(Tail(q), i, kinds) = {}
<1>1. Places(Tail(q), i, kinds) = {k - 1 : k \in Places(q, i, kinds) \ {1}}
  BY PlacesTail
<1> QED BY <1>1

LEMMA LastIsFirst ==
  ASSUME NEW q \in Seq(Message), q # <<>>, NEW i, NEW kinds, Last(q, 1, i, kinds)
  PROVE  Places(q, i, kinds) \subseteq {1}
<1>1. DOMAIN q \subseteq Nat \ {0}
  BY PlacesTail
<1>2. \A k \in Places(q, i, kinds) : k \in Nat \ {0} /\ k <= 1
  BY <1>1 DEF Last, Places
<1> QED BY <1>2

(* What was due is shown when the first message is read.                   *)
LEMMA Reading ==
  ASSUME NEW q \in Seq(Message), q # <<>>, NEW i, NEW shown, WillShow(q, shown, i)
  PROVE  /\ WillShow(Tail(q), Shown(shown, Head(q)), i)
         /\ \A icon :
              WillDraw(q, shown, i, icon) /\ ~(Head(q).kind = "remove" /\ Head(q).item = i)
                => WillDraw(Tail(q), Shown(shown, Head(q)), i, icon)
<1> DEFINE m == Head(q)
           after == Shown(shown, m)
           AR == {"add", "remove"}
           AU == {"add", "update"}
<1>1. m = q[1] /\ 1 \in DOMAIN q /\ DOMAIN q \subseteq Nat \ {0} /\ m \in Message
  BY PlacesTail
<1>2. \A kinds : m.item = i /\ m.kind \in kinds <=> 1 \in Places(q, i, kinds)
  BY <1>1 DEF Places
<1>3. m.kind \in {"add", "update", "remove", "menu"}
  BY <1>1 DEF Message
<1>4. /\ m.kind = "add" => after = Put(shown, m.item, m.icon)
      /\ m.kind = "update" =>
           after = IF m.item \in DOMAIN shown THEN [shown EXCEPT ![m.item] = m.icon] ELSE shown
      /\ m.kind = "remove" => after = Restrict(shown, DOMAIN shown \ {m.item})
      /\ m.kind = "menu" => after = shown
  BY DEF Shown
<1> HIDE DEF m, after
<1>5. /\ m.kind = "add" /\ m.item = i => i \in DOMAIN after /\ after[i] = m.icon
      /\ m.kind = "update" /\ m.item = i /\ i \in DOMAIN shown =>
           i \in DOMAIN after /\ after[i] = m.icon
  BY <1>4 DEF Put
<1>6. (i \in DOMAIN shown /\ ~(m.kind = "remove" /\ m.item = i)) =>
        i \in DOMAIN after /\ (~(m.item = i /\ m.kind \in AU) => after[i] = shown[i])
  <2>1. CASE m.kind = "add"
    BY <1>4, <2>1 DEF Put
  <2>2. CASE m.kind = "update"
    BY <1>4, <2>2
  <2>3. CASE m.kind = "remove"
    BY <1>4, <2>3 DEF Restrict
  <2>4. CASE m.kind = "menu"
    BY <1>4, <2>4
  <2> QED BY <1>3, <2>1, <2>2, <2>3, <2>4
<1>7. WillShow(Tail(q), after, i)
  <2>1. CASE Places(q, i, AR) = {} /\ i \in DOMAIN shown
    <3>1. Places(Tail(q), i, AR) = {}
      BY <2>1, AloneTail
    <3>2. i \in DOMAIN after
      BY <1>2, <1>6, <2>1
    <3> QED BY <3>1, <3>2 DEF WillShow
  <2>2. ASSUME NEW n \in DOMAIN q, Last(q, n, i, AR), q[n].kind = "add"
        PROVE  WillShow(Tail(q), after, i)
    <3>1. CASE n = 1
      <4>1. Places(Tail(q), i, AR) = {}
        BY <2>2, <3>1, LastIsFirst, AloneTail
      <4>2. i \in DOMAIN after
        BY <1>1, <1>5, <2>2, <3>1 DEF Last, Places
      <4> QED BY <4>1, <4>2 DEF WillShow
    <3>2. CASE n # 1
      BY <2>2, <3>2, LastTail DEF WillShow
    <3> QED BY <3>1, <3>2
  <2> QED BY <2>1, <2>2 DEF WillShow
<1>8. ASSUME NEW icon, WillDraw(q, shown, i, icon), ~(m.kind = "remove" /\ m.item = i)
      PROVE  WillDraw(Tail(q), after, i, icon)
  <2>1. CASE Places(q, i, AU) = {} /\ i \in DOMAIN shown /\ shown[i] = icon
    <3>1. Places(Tail(q), i, AU) = {}
      BY <2>1, AloneTail
    <3>2. i \in DOMAIN after /\ after[i] = icon
      BY <1>2, <1>6, <1>8, <2>1
    <3> QED BY <3>1, <3>2 DEF WillDraw
  <2>2. ASSUME NEW n \in DOMAIN q, Last(q, n, i, AU), q[n].icon = icon
        PROVE  WillDraw(Tail(q), after, i, icon)
    <3>1. CASE n = 1
      <4>1. Places(q, i, AU) \subseteq {1} /\ Places(Tail(q), i, AU) = {}
        BY <2>2, <3>1, LastIsFirst, AloneTail
      <4>2. m.item = i /\ m.kind \in AU /\ m.icon = icon
        BY <1>1, <2>2, <3>1 DEF Last, Places
      <4>3. m.kind = "update" => i \in DOMAIN shown
        <5> SUFFICES ASSUME m.kind = "update" PROVE i \in DOMAIN shown
          OBVIOUS
        <5>1. ASSUME NEW k \in DOMAIN q, Last(q, k, i, AR), q[k].kind = "add" PROVE FALSE
          <6>1. k \in Places(q, i, AU)
            BY <5>1 DEF Last, Places
          <6> QED BY <1>1, <4>1, <5>1, <6>1
        <5> QED BY <5>1 DEF WillShow
      <4>4. i \in DOMAIN after /\ after[i] = icon
        BY <1>5, <4>2, <4>3
      <4> QED BY <4>1, <4>4 DEF WillDraw
    <3>2. CASE n # 1
      BY <2>2, <3>2, LastTail DEF WillDraw
    <3> QED BY <3>1, <3>2
  <2> QED BY <1>8, <2>1, <2>2 DEF WillDraw
<1>9. \A icon : WillDraw(q, shown, i, icon) /\ ~(m.kind = "remove" /\ m.item = i)
                  => WillDraw(Tail(q), after, i, icon)
  BY <1>8
<1> QED BY <1>7, <1>9 DEF m, after

-----------------------------------------------------------------------------
(* The inductive invariant.                                                *)

(* The bus and the watcher: only the dead are cleaned up.                  *)
HostInv ==
  /\ alive \subseteq Item /\ ver \in [Item -> Nat]
  /\ registered \subseteq Item /\ toAdd \subseteq registered
  /\ hostPhase # "boot" => toAdd = {}
  /\ ownersLost \in Seq(Item)
  /\ \A n \in DOMAIN ownersLost : ownersLost[n] \notin alive
  /\ events \in Seq([kind : {"added", "removed"}, item : Item]) /\ Len(events) <= EventCap
  /\ \A n \in DOMAIN events : events[n].kind = "removed" => events[n].item \notin alive

Recoloured == signalling \/ themeSigs > 0

(* What is being added is not known yet, was drawn in the colour of the    *)
(* theme unless a signal is due, and is drawn as last published.           *)
WorkInv ==
  /\ watchWork \in Work \union {None}
  /\ hostPhase \notin {"boot", "loop"} => watchWork = None /\ DOMAIN metas = {}
  /\ hostPhase = "boot" => toAdd \intersect DOMAIN metas = {}
  /\ watchWork # None =>
       /\ watchWork.item \notin DOMAIN metas
       /\ hostPhase = "boot" => watchWork.item \notin toAdd
       /\ watchWork.at = "remove" => watchWork.item \notin alive
       /\ watchWork.item \in alive /\ watchWork.at # "build" =>
            /\ watchWork.icon[1] = fg \/ Recoloured
            /\ watchWork.at = "send" /\ watchWork.item \notin missed =>
                 watchWork.icon[2] = ver[watchWork.item]

(* An item whose application lives has one set of tasks, ever.             *)
TaskInv ==
  /\ tasks \in Seq(Task) /\ DOMAIN metas \subseteq Item
  /\ \A i \in DOMAIN metas : metas[i] \in DOMAIN tasks /\ tasks[metas[i]].item = i
  /\ \A t \in DOMAIN tasks :
       tasks[t].item \in alive => tasks[t].item \in DOMAIN metas /\ metas[tasks[t].item] = t

QueueInv ==
  /\ msgs \in Seq(Message) /\ Len(msgs) <= MsgCap
  /\ \A n \in DOMAIN msgs : msgs[n].kind = "remove" => msgs[n].item \notin alive
  /\ DOMAIN items \subseteq Item
  /\ \A i \in DOMAIN metas : WillShow(msgs, items, i)

GuiInv ==
  /\ fg \in Fg /\ signalling \in BOOLEAN /\ themeSigs \in 0..ThemeCap
  /\ menu \in Item \union {None}
  /\ reqs \in [Branch -> Seq([kind : {"menu", "call"}, item : Item])]
  /\ \A b \in Branch : Len(reqs[b]) <= ReqCap

(* What a task r of a living item knows is what will be drawn, and any     *)
(* newer colour or version is on its way to it.                            *)
Coloured(r) ==
  \/ Recoloured \/ r.refetch > 0
  \/ r.at = "fetch" /\ r.fg = fg
  \/ r.at # "fetch" /\ r.icon[1] = fg

UpToDate(r) ==
  r.item \notin missed => r.news > 0 \/ r.at = "fetch" \/ r.icon[2] = ver[r.item]

FreshInv ==
  \A i \in DOMAIN metas \intersect alive :
    /\ tasks[metas[i]].at # "send" => WillDraw(msgs, items, i, tasks[metas[i]].icon)
    /\ tasks[metas[i]].at # "ended" => Coloured(tasks[metas[i]])
    /\ UpToDate(tasks[metas[i]])

TrayInv == HostInv /\ WorkInv /\ TaskInv /\ QueueInv /\ GuiInv /\ FreshInv

-----------------------------------------------------------------------------
LEMMA TrayStarts == TrayInit => TrayInv
<1> SUFFICES ASSUME TrayInit PROVE TrayInv
  OBVIOUS
<1>1. <<>> \in Seq(Item) /\ DOMAIN <<>> = {} /\ Len(<<>>) = 0
  BY EmptySeq
<1>2. HostInv
  BY <1>1, TrayAssumption DEF TrayInit, HostInv
<1>3. WorkInv
  BY <1>1 DEF TrayInit, WorkInv
<1>4. TaskInv
  BY <1>1 DEF TrayInit, TaskInv
<1>5. QueueInv
  BY <1>1, TrayAssumption DEF TrayInit, QueueInv
<1>6. GuiInv
  <2>1. reqs = [b \in Branch |-> <<>>]
    BY DEF TrayInit
  <2>2. /\ reqs \in [Branch -> Seq([kind : {"menu", "call"}, item : Item])]
        /\ \A b \in Branch : Len(reqs[b]) <= ReqCap
    BY <1>1, <2>1, EmptySeq, TrayAssumption
  <2>3. signalling \in BOOLEAN
    BY DEF TrayInit
  <2>4. fg \in Fg /\ themeSigs \in 0..ThemeCap /\ menu \in Item \union {None}
    BY TrayAssumption DEF TrayInit
  <2> QED BY <2>2, <2>3, <2>4 DEF GuiInv
<1>7. FreshInv
  BY <1>1 DEF TrayInit, FreshInv
<1> QED BY <1>2, <1>3, <1>4, <1>5, <1>6, <1>7 DEF TrayInv

-----------------------------------------------------------------------------
(* What a step leaves alone stays true, and goes on to when items die.     *)
LEMMA HostKept ==
  ASSUME HostInv, UNCHANGED <<ver, hostPhase, registered, ownersLost, events, toAdd>>,
         alive' \subseteq alive
  PROVE  HostInv'
BY DEF HostInv

LEMMA WorkKept ==
  ASSUME WorkInv, UNCHANGED <<watchWork, metas, hostPhase, toAdd, ver, missed>>,
         (UNCHANGED fg /\ (Recoloured => Recoloured')) \/ Recoloured', alive' \subseteq alive
  PROVE  WorkInv'
BY DEF WorkInv

LEMMA WorkDropped ==
  ASSUME watchWork' = None,
         hostPhase' \notin {"boot", "loop"} => DOMAIN metas' = {},
         hostPhase' = "boot" => toAdd' \intersect DOMAIN metas' = {}
  PROVE  WorkInv'
BY DEF WorkInv

LEMMA TaskKept ==
  ASSUME TaskInv, UNCHANGED <<tasks, metas>>, alive' \subseteq alive
  PROVE  TaskInv'
BY DEF TaskInv

LEMMA QueueKept ==
  ASSUME QueueInv, UNCHANGED <<msgs, items, metas>>, alive' \subseteq alive
  PROVE  QueueInv'
BY DEF QueueInv

LEMMA GuiKept ==
  ASSUME GuiInv, UNCHANGED <<fg, signalling, themeSigs, menu, reqs>>
  PROVE  GuiInv'
<1>1. signalling' \in BOOLEAN
  BY DEF GuiInv
<1> QED BY <1>1 DEF GuiInv

LEMMA FreshKept ==
  ASSUME FreshInv, UNCHANGED <<metas, tasks, msgs, items, ver, missed>>,
         (UNCHANGED fg /\ (Recoloured => Recoloured')) \/ Recoloured', alive' \subseteq alive
  PROVE  FreshInv'
<1> SUFFICES ASSUME NEW i \in DOMAIN metas, i \in alive'
             PROVE  /\ tasks[metas[i]].at # "send" =>
                         WillDraw(msgs, items, i, tasks[metas[i]].icon)
                    /\ tasks[metas[i]].at # "ended" => Coloured(tasks[metas[i]])'
                    /\ UpToDate(tasks[metas[i]])'
  BY DEF FreshInv
<1> DEFINE r == tasks[metas[i]]
<1>1. /\ r.at # "send" => WillDraw(msgs, items, i, r.icon)
      /\ r.at # "ended" => Coloured(r)
      /\ UpToDate(r)
  BY DEF FreshInv
<1>2. r' = r
  OBVIOUS
<1> HIDE DEF r
<1>3. Coloured(r) => Coloured(r)'
  BY <1>2 DEF Coloured
<1>4. UpToDate(r) => UpToDate(r)'
  BY <1>2 DEF UpToDate
<1> QED BY <1>1, <1>3, <1>4 DEF r

-----------------------------------------------------------------------------
(* The steps.  The watcher and the set-up of a session:                    *)

Loopless == <<watchWork, metas, tasks>>
Guiless == <<fg, signalling, themeSigs, menu, reqs, msgs, items>>

LEMMA SetUpSteps ==
  ASSUME TrayInv, Connect \/ SessionFails \/ Boot
  PROVE  TrayInv'
<1> USE DEF TrayInv
<1>1. UNCHANGED <<alive, ver, missed, ownersLost>> /\ UNCHANGED Loopless
  BY DEF Connect, SessionFails, Boot, busVars, loopVars, Loopless
<1>2. UNCHANGED Guiless
  BY DEF Connect, SessionFails, Boot, guiVars, Guiless
<1>3. hostPhase \notin {"boot", "loop"}
  BY DEF Connect, SessionFails, Boot
<1>4. toAdd = {} /\ watchWork = None /\ DOMAIN metas = {}
  BY <1>3 DEF HostInv, WorkInv
<1>5. HostInv'
  <2>1. CASE Connect \/ SessionFails
    <3>1. registered' = {} /\ events' = <<>> /\ UNCHANGED toAdd
      BY <2>1 DEF Connect, SessionFails
    <3>2. events' \in Seq([kind : {"added", "removed"}, item : Item]) /\ Len(events') = 0
          /\ DOMAIN events' = {}
      BY <3>1, EmptySeq
    <3> QED BY <1>1, <1>4, <3>1, <3>2, TrayAssumption DEF HostInv
  <2>2. CASE Boot
    BY <1>1, <2>2 DEF Boot, HostInv
  <2> QED BY <2>1, <2>2
<1>6. WorkInv'
  BY <1>1, <1>4, WorkDropped DEF Loopless
<1>7. TaskInv'
  BY <1>1, TaskKept DEF Loopless
<1>8. QueueInv'
  BY <1>1, <1>2, QueueKept DEF Loopless, Guiless
<1>9. GuiInv'
  BY <1>2, GuiKept DEF Guiless
<1>10. FreshInv'
  BY <1>1, <1>4 DEF FreshInv, Loopless
<1> QED BY <1>5, <1>6, <1>7, <1>8, <1>9, <1>10

LEMMA EventQueued ==
  ASSUME events \in Seq([kind : {"added", "removed"}, item : Item]), Len(events) <= EventCap,
         NEW e \in [kind : {"added", "removed"}, item : Item]
  PROVE  /\ Offer(events, EventCap, e) \in Seq([kind : {"added", "removed"}, item : Item])
         /\ Len(Offer(events, EventCap, e)) <= EventCap
         /\ \A n \in DOMAIN Offer(events, EventCap, e) :
              Offer(events, EventCap, e)[n] = e \/
              (n \in DOMAIN events /\ Offer(events, EventCap, e)[n] = events[n])
<1> DEFINE E == [kind : {"added", "removed"}, item : Item]
<1> HIDE DEF E
<1>0. events \in Seq(E) /\ e \in E
  BY DEF E
<1>1. Len(events) \in Nat /\ DOMAIN events = 1..Len(events)
  BY <1>0, LenProperties
<1>2. CASE Len(events) < EventCap
  <2>1. Offer(events, EventCap, e) = Append(events, e)
    BY <1>2 DEF Offer
  <2>2. /\ Append(events, e) \in Seq(E) /\ Len(Append(events, e)) = Len(events) + 1
        /\ \A n \in 1..Len(events) : Append(events, e)[n] = events[n]
        /\ Append(events, e)[Len(events) + 1] = e
    BY <1>0, AppendProperties
  <2>3. DOMAIN Append(events, e) = 1..(Len(events) + 1)
    BY <2>2, LenProperties
  <2>4. \A n \in 1..(Len(events) + 1) : n \in 1..Len(events) \/ n = Len(events) + 1
    BY <1>1
  <2> QED BY <1>1, <1>2, <2>1, <2>2, <2>3, <2>4, TrayAssumption DEF E
<1>3. CASE ~(Len(events) < EventCap)
  BY <1>3 DEF Offer
<1> QED BY <1>2, <1>3

LEMMA RegisterStep ==
  ASSUME TrayInv, NEW i \in Item, RegisterItem(i)
  PROVE  TrayInv'
<1> USE DEF TrayInv
<1> DEFINE e == [kind |-> "added", item |-> i]
<1>1. UNCHANGED <<alive, ver, missed, ownersLost, hostPhase, toAdd>> /\ UNCHANGED Loopless
  BY DEF RegisterItem, busVars, loopVars, Loopless
<1>2. UNCHANGED Guiless
  BY DEF RegisterItem, guiVars, Guiless
<1>3. events' = Offer(events, EventCap, e) /\ registered' = registered \union {i}
  BY DEF RegisterItem
<1>4. HostInv'
  <2>1. /\ events' \in Seq([kind : {"added", "removed"}, item : Item])
        /\ Len(events') <= EventCap
        /\ \A n \in DOMAIN events' : events'[n] = e \/ (n \in DOMAIN events /\ events'[n] = events[n])
    BY <1>3, EventQueued DEF HostInv
  <2>2. e.kind # "removed"
    OBVIOUS
  <2>3. \A n \in DOMAIN events' : events'[n].kind = "removed" => events'[n].item \notin alive
    BY <2>1, <2>2 DEF HostInv
  <2> QED BY <1>1, <1>3, <2>1, <2>3 DEF HostInv
<1>5. WorkInv' /\ FreshInv'
  BY <1>1, <1>2, WorkKept, FreshKept DEF Loopless, Guiless, Recoloured
<1>6. TaskInv' /\ QueueInv' /\ GuiInv'
  BY <1>1, <1>2, TaskKept, QueueKept, GuiKept DEF Loopless, Guiless
<1> QED BY <1>4, <1>5, <1>6

LEMMA OwnerStep ==
  ASSUME TrayInv, OwnerLost
  PROVE  TrayInv'
<1> USE DEF TrayInv
<1> DEFINE i == Head(ownersLost)
           e == [kind |-> "removed", item |-> i]
<1>1. UNCHANGED <<alive, ver, missed, hostPhase, toAdd>> /\ UNCHANGED <<metas, tasks>>
  BY DEF OwnerLost, busVars
<1>2. UNCHANGED Guiless
  BY DEF OwnerLost, guiVars, Guiless
<1>3. watchWork' = None /\ hostPhase = "loop" /\ hostPhase' = "loop"
  BY DEF OwnerLost, Tick, DropOthers
<1>4. /\ ownersLost # <<>> /\ ownersLost' = Tail(ownersLost)
      /\ registered' = registered \ {i}
      /\ events' = IF i \in registered THEN Offer(events, EventCap, e) ELSE events
  BY DEF OwnerLost
<1>5. HostInv'
  <2>1. /\ i \in Item /\ i \notin alive
        /\ ownersLost' \in Seq(Item)
        /\ \A n \in DOMAIN ownersLost' : ownersLost'[n] \notin alive
    <3>1. /\ Head(ownersLost) \in Item /\ Tail(ownersLost) \in Seq(Item)
          /\ Len(Tail(ownersLost)) = Len(ownersLost) - 1
          /\ \A n \in 1..Len(Tail(ownersLost)) : Tail(ownersLost)[n] = ownersLost[n + 1]
      BY <1>4, HeadTailProperties DEF HostInv
    <3>2. /\ DOMAIN ownersLost = 1..Len(ownersLost) /\ Len(ownersLost) \in Nat
          /\ DOMAIN Tail(ownersLost) = 1..Len(Tail(ownersLost))
      BY <3>1, LenProperties DEF HostInv
    <3>3. Head(ownersLost) = ownersLost[1] /\ 1 \in DOMAIN ownersLost
      BY <1>4, <3>2, EmptySeq DEF HostInv
    <3>4. \A n \in 1..Len(Tail(ownersLost)) : n + 1 \in DOMAIN ownersLost
      BY <3>1, <3>2
    <3>5. \A n \in DOMAIN Tail(ownersLost) : Tail(ownersLost)[n] \notin alive
      BY <3>1, <3>2, <3>4 DEF HostInv
    <3> QED BY <1>4, <3>1, <3>3, <3>5 DEF HostInv
  <2> HIDE DEF i
  <2>2. /\ events' \in Seq([kind : {"added", "removed"}, item : Item])
        /\ Len(events') <= EventCap
        /\ \A n \in DOMAIN events' :
             events'[n] = e \/ (n \in DOMAIN events /\ events'[n] = events[n])
    <3>1. CASE i \in registered
      BY <1>4, <2>1, <3>1, EventQueued DEF HostInv
    <3>2. CASE i \notin registered
      BY <1>4, <3>2 DEF HostInv
    <3> QED BY <3>1, <3>2
  <2>3. \A n \in DOMAIN events' : events'[n].kind = "removed" => events'[n].item \notin alive
    <3>1. e.item = i
      OBVIOUS
    <3> HIDE DEF e
    <3> QED BY <2>1, <2>2, <3>1 DEF HostInv
  <2>4. toAdd = {}
    BY <1>3 DEF HostInv
  <2> QED BY <1>1, <1>3, <1>4, <2>1, <2>2, <2>3, <2>4 DEF HostInv
<1>6. WorkInv'
  BY <1>3, WorkDropped
<1>7. TaskInv' /\ QueueInv' /\ GuiInv' /\ FreshInv'
  BY <1>1, <1>2, TaskKept, QueueKept, GuiKept, FreshKept DEF Guiless, Recoloured
<1> QED BY <1>5, <1>6, <1>7

-----------------------------------------------------------------------------
(* Adding and removing an item.                                            *)

LEMMA FreshNext ==
  ASSUME \A i \in DOMAIN metas' \intersect alive' : \A r : r = tasks'[metas'[i]] =>
           /\ r.at # "send" => WillDraw(msgs', items', i, r.icon)
           /\ r.at # "ended" => Coloured(r)'
           /\ UpToDate(r)'
  PROVE  FreshInv'
BY DEF FreshInv, Coloured, UpToDate, Recoloured

LEMMA AddBegins ==
  ASSUME NEW i \in Item, StartAdd(i), i \notin DOMAIN metas, UNCHANGED metas,
         hostPhase' \in {"boot", "loop"},
         hostPhase' = "boot" => i \notin toAdd' /\ toAdd' \intersect DOMAIN metas = {}
  PROVE  WorkInv'
<1>1. watchWork' = [at |-> "build", item |-> i, icon |-> NoIcon]
  BY DEF StartAdd
<1>2. NoIcon \in Icon
  BY DEF Icon, NoIcon
<1>3. watchWork' \in Work
  BY <1>1, <1>2 DEF Work
<1>4. watchWork'.item = i /\ watchWork'.at = "build"
  BY <1>1
<1> QED BY <1>3, <1>4 DEF WorkInv

LEMMA InitialStep ==
  ASSUME TrayInv, NextInitial
  PROVE  TrayInv'
<1> USE DEF TrayInv
<1>1. /\ UNCHANGED <<alive, ver, missed, registered, ownersLost, events, metas, tasks>>
      /\ hostPhase = "boot"
  BY DEF NextInitial, busVars
<1>2. UNCHANGED Guiless
  BY DEF NextInitial, guiVars, Guiless
<1>3. TaskInv' /\ QueueInv' /\ GuiInv' /\ FreshInv'
  BY <1>1, <1>2, TaskKept, QueueKept, GuiKept, FreshKept DEF Guiless, Recoloured
<1>4. CASE \E i \in toAdd : StartAdd(i) /\ toAdd' = toAdd \ {i} /\ UNCHANGED <<hostPhase, reqWork>>
  <2>1. PICK i \in toAdd : StartAdd(i) /\ toAdd' = toAdd \ {i} /\ UNCHANGED <<hostPhase, reqWork>>
    BY <1>4
  <2>2. i \in Item /\ i \notin DOMAIN metas /\ toAdd' \intersect DOMAIN metas = {}
    BY <1>1, <2>1 DEF HostInv, WorkInv
  <2>3. WorkInv'
    BY <1>1, <1>2, <2>1, <2>2, AddBegins DEF Guiless
  <2>4. HostInv'
    BY <1>1, <2>1 DEF HostInv
  <2> QED BY <1>3, <2>3, <2>4
<1>5. CASE toAdd = {} /\ hostPhase' = "loop" /\ DropOthers /\ UNCHANGED toAdd
  <2>1. WorkInv'
    BY <1>5, WorkDropped DEF DropOthers
  <2>2. HostInv'
    BY <1>1, <1>5 DEF HostInv
  <2> QED BY <1>3, <2>1, <2>2
<1> QED BY <1>4, <1>5 DEF NextInitial

LEMMA EventStep ==
  ASSUME TrayInv, TakeEvent
  PROVE  TrayInv'
<1> USE DEF TrayInv
<1> DEFINE e == Head(events)
<1>1. /\ UNCHANGED <<alive, ver, missed, hostPhase, registered, ownersLost, toAdd, tasks>>
      /\ hostPhase = "loop" /\ events # <<>> /\ events' = Tail(events)
  BY DEF TakeEvent, busVars
<1>2. UNCHANGED Guiless
  BY DEF TakeEvent, guiVars, Guiless
<1>3. /\ e \in [kind : {"added", "removed"}, item : Item]
      /\ e.kind = "removed" => e.item \notin alive
      /\ HostInv'
  <2>1. /\ Head(events) \in [kind : {"added", "removed"}, item : Item]
        /\ Tail(events) \in Seq([kind : {"added", "removed"}, item : Item])
        /\ Len(Tail(events)) = Len(events) - 1
        /\ \A n \in 1..Len(Tail(events)) : Tail(events)[n] = events[n + 1]
    BY <1>1, HeadTailProperties DEF HostInv
  <2>2. /\ DOMAIN events = 1..Len(events) /\ Len(events) \in Nat
        /\ DOMAIN Tail(events) = 1..Len(Tail(events))
    BY <2>1, LenProperties DEF HostInv
  <2>3. Head(events) = events[1] /\ 1 \in DOMAIN events
    BY <1>1, <2>2, EmptySeq DEF HostInv
  <2>4. \A n \in 1..Len(Tail(events)) : n + 1 \in DOMAIN events
    BY <2>1, <2>2
  <2>5. \A n \in DOMAIN Tail(events) :
          Tail(events)[n].kind = "removed" => Tail(events)[n].item \notin alive
    BY <2>1, <2>2, <2>4 DEF HostInv
  <2>6. Len(Tail(events)) <= EventCap
    BY <2>1, <2>2, TrayAssumption DEF HostInv
  <2> QED BY <1>1, <2>1, <2>3, <2>5, <2>6 DEF HostInv
<1> HIDE DEF e
<1>4. CASE DropOthers /\ UNCHANGED metas
  <2>1. WorkInv'
    BY <1>1, <1>4, WorkDropped DEF DropOthers
  <2> QED BY <1>1, <1>2, <1>3, <1>4, <2>1, TaskKept, QueueKept, GuiKept, FreshKept
          DEF Guiless, Recoloured
<1>5. CASE e.kind = "added" /\ e.item \notin DOMAIN metas /\ StartAdd(e.item) /\ UNCHANGED metas
  <2>1. WorkInv'
    BY <1>1, <1>2, <1>3, <1>5, AddBegins DEF Guiless
  <2> QED BY <1>1, <1>2, <1>3, <1>5, <2>1, TaskKept, QueueKept, GuiKept, FreshKept
          DEF Guiless, Recoloured
<1>6. CASE /\ e.kind = "removed"
           /\ metas' = Restrict(metas, DOMAIN metas \ {e.item})
           /\ watchWork' = [at |-> "remove", item |-> e.item, icon |-> NoIcon]
  <2>1. /\ DOMAIN metas' = DOMAIN metas \ {e.item}
        /\ \A i \in DOMAIN metas' : metas'[i] = metas[i]
    BY <1>6 DEF Restrict
  <2>2. WorkInv'
    <3>1. NoIcon \in Icon
      BY DEF NoIcon, Icon
    <3>2. watchWork' \in Work /\ watchWork'.item = e.item /\ watchWork'.at = "remove"
      BY <1>3, <1>6, <3>1 DEF Work
    <3> QED BY <1>1, <1>3, <1>6, <2>1, <3>2 DEF WorkInv
  <2>3. TaskInv'
    BY <1>1, <1>3, <1>6, <2>1 DEF TaskInv
  <2>4. QueueInv'
    BY <1>1, <1>2, <2>1 DEF QueueInv, Guiless
  <2>5. GuiInv'
    BY <1>2, GuiKept DEF Guiless
  <2>6. FreshInv'
    <3>1. ASSUME NEW i \in DOMAIN metas' \intersect alive', NEW r, r = tasks'[metas'[i]]
          PROVE  /\ r.at # "send" => WillDraw(msgs', items', i, r.icon)
                 /\ r.at # "ended" => Coloured(r)'
                 /\ UpToDate(r)'
      <4>1. i \in DOMAIN metas \intersect alive /\ r = tasks[metas[i]]
        BY <1>1, <2>1, <3>1
      <4>2. UNCHANGED <<msgs, items, ver, missed, fg>> /\ (Recoloured <=> Recoloured')
        BY <1>1, <1>2 DEF Guiless, Recoloured
      <4> QED BY <4>1, <4>2 DEF FreshInv, Coloured, UpToDate
    <3> QED BY <3>1, FreshNext
  <2> QED BY <1>3, <2>2, <2>3, <2>4, <2>5, <2>6
<1> QED BY <1>4, <1>5, <1>6 DEF TakeEvent, e

(* An item that add_item gives up on has no tasks, before and after.       *)
LEMMA FailsStep ==
  ASSUME TrayInv, AddFails
  PROVE  TrayInv'
<1> USE DEF TrayInv
<1>1. UNCHANGED <<alive, ver, missed, hostPhase, registered, ownersLost, events, toAdd>>
  BY DEF AddFails, busVars
<1>2. UNCHANGED <<metas, tasks>> /\ UNCHANGED Guiless
  BY DEF AddFails, guiVars, Guiless
<1>3. HostInv' /\ TaskInv' /\ QueueInv' /\ GuiInv' /\ FreshInv'
  BY <1>1, <1>2, HostKept, TaskKept, QueueKept, GuiKept, FreshKept DEF Guiless, Recoloured
<1>4. WorkInv'
  <2>1. watchWork' = None
    BY DEF AddFails, DropOthers
  <2> QED BY <1>1, <1>2, <2>1, WorkDropped DEF WorkInv
<1> QED BY <1>3, <1>4

(* The foreground is read once the proxy is built.                         *)
LEMMA BuiltStep ==
  ASSUME TrayInv, ProxyBuilt
  PROVE  TrayInv'
<1> USE DEF TrayInv
<1>1. UNCHANGED <<alive, ver, missed, hostPhase, registered, ownersLost, events, toAdd>>
  BY DEF ProxyBuilt, busVars, hostVars
<1>2. UNCHANGED <<metas, tasks>> /\ UNCHANGED Guiless
  BY DEF ProxyBuilt, guiVars, Guiless
<1>3. HostInv' /\ TaskInv' /\ QueueInv' /\ GuiInv' /\ FreshInv'
  BY <1>1, <1>2, HostKept, TaskKept, QueueKept, GuiKept, FreshKept DEF Guiless, Recoloured
<1>4. watchWork # None /\ watchWork \in Work
  BY DEF ProxyBuilt, WorkInv
<1>5. watchWork' = [watchWork EXCEPT !.at = "fetch", !.icon = <<fg, 0>>]
  BY DEF ProxyBuilt
<1>6. <<fg, 0>> \in Icon /\ <<fg, 0>>[1] = fg
  BY DEF Icon, GuiInv
<1>7. /\ watchWork' \in Work /\ watchWork'.item = watchWork.item
      /\ watchWork'.at = "fetch" /\ watchWork'.icon = <<fg, 0>>
  BY <1>4, <1>5, <1>6 DEF Work
<1>8. UNCHANGED fg
  BY <1>2 DEF Guiless
<1>9. WorkInv'
  <2>1. /\ watchWork.item \notin DOMAIN metas
        /\ hostPhase = "boot" => watchWork.item \notin toAdd
        /\ hostPhase = "boot" => toAdd \intersect DOMAIN metas = {}
        /\ hostPhase \in {"boot", "loop"}
    BY <1>4 DEF WorkInv
  <2> QED BY <1>1, <1>2, <1>6, <1>7, <1>8, <2>1 DEF WorkInv
<1> QED BY <1>3, <1>9

LEMMA FetchedStep ==
  ASSUME TrayInv, PropsFetched
  PROVE  TrayInv'
<1> USE DEF TrayInv
<1>1. UNCHANGED <<alive, ver, missed, hostPhase, registered, ownersLost, events, toAdd>>
  BY DEF PropsFetched, busVars, hostVars
<1>2. UNCHANGED <<metas, tasks>> /\ UNCHANGED Guiless
  BY DEF PropsFetched, guiVars, Guiless
<1>3. HostInv' /\ TaskInv' /\ QueueInv' /\ GuiInv' /\ FreshInv'
  BY <1>1, <1>2, HostKept, TaskKept, QueueKept, GuiKept, FreshKept DEF Guiless, Recoloured
<1>4. watchWork # None /\ watchWork.at = "fetch" /\ watchWork \in Work
  BY DEF PropsFetched, WorkInv
<1> DEFINE icon == Published(watchWork.item, watchWork.icon[1])
<1>5. watchWork' = [watchWork EXCEPT !.at = "send", !.icon = icon]
  BY DEF PropsFetched
<1>6. /\ icon \in Icon
      /\ watchWork.item \in alive =>
           icon[1] = watchWork.icon[1] /\ icon[2] = ver[watchWork.item]
  <2>1. watchWork.item \in Item /\ watchWork.icon[1] \in Fg \union {None} /\ None \in Fg \union {None}
    BY <1>4 DEF Work, Icon
  <2>2. ver[watchWork.item] \in Nat
    BY <2>1 DEF HostInv
  <2> QED BY <2>1, <2>2 DEF Published, NoIcon, Icon
<1> HIDE DEF icon
<1>7. /\ watchWork' \in Work /\ watchWork'.item = watchWork.item
      /\ watchWork'.at = "send" /\ watchWork'.icon = icon
  BY <1>4, <1>5, <1>6 DEF Work
<1>8. Recoloured' <=> Recoloured
  BY <1>2 DEF Guiless, Recoloured
<1>9. /\ UNCHANGED <<alive, ver, missed, hostPhase, toAdd, metas, fg>>
  BY <1>1, <1>2 DEF Guiless
<1>10. WorkInv'
  <2>1. /\ watchWork.item \notin DOMAIN metas
        /\ hostPhase = "boot" => watchWork.item \notin toAdd
        /\ watchWork.item \in alive /\ watchWork.at # "build" => watchWork.icon[1] = fg \/ Recoloured
        /\ hostPhase = "boot" => toAdd \intersect DOMAIN metas = {}
        /\ hostPhase \in {"boot", "loop"}
    BY <1>4 DEF WorkInv
  <2>2. watchWork.at # "build"
    BY <1>4
  <2> QED BY <1>6, <1>7, <1>8, <1>9, <2>1, <2>2 DEF WorkInv
<1> QED BY <1>3, <1>10

(* A message sent to the module.                                           *)
LEMMA QueueSent ==
  ASSUME QueueInv, NEW m \in Message, SendMsg(m), UNCHANGED items, alive' = alive,
         m.kind = "remove" => m.item \notin alive /\ m.item \notin DOMAIN metas',
         \A i \in DOMAIN metas' : i \in DOMAIN metas \/ (m.kind = "add" /\ m.item = i)
  PROVE  QueueInv'
<1>1. msgs \in Seq(Message) /\ msgs' = Append(msgs, m) /\ Len(msgs) < MsgCap /\ Len(msgs) \in Nat
  BY LenProperties DEF QueueInv, SendMsg
<1> HIDE DEF Message
<1>2. /\ msgs' \in Seq(Message) /\ Len(msgs') = Len(msgs) + 1
      /\ \A n \in 1..Len(msgs) : msgs'[n] = msgs[n]
      /\ msgs'[Len(msgs) + 1] = m
  BY <1>1, AppendProperties
<1>3. DOMAIN msgs' = 1..(Len(msgs) + 1) /\ DOMAIN msgs = 1..Len(msgs)
  BY <1>1, <1>2, LenProperties
<1>4. \A n \in 1..(Len(msgs) + 1) : n \in 1..Len(msgs) \/ n = Len(msgs) + 1
  BY <1>1
<1>5. \A n \in DOMAIN msgs' : msgs'[n].kind = "remove" => msgs'[n].item \notin alive
  BY <1>2, <1>3, <1>4 DEF QueueInv
<1>6. Len(msgs') <= MsgCap
  BY <1>1, <1>2, TrayAssumption
<1>7. ASSUME NEW i \in DOMAIN metas' PROVE WillShow(msgs', items, i)
  <2>1. CASE m.kind = "add" /\ m.item = i
    BY <1>1, <2>1, SendOwn
  <2>2. CASE ~(m.item = i /\ m.kind \in {"add", "remove"})
    <3>1. WillShow(msgs, items, i)
      BY <2>2 DEF QueueInv
    <3> QED BY <1>1, <2>2, <3>1, SendOther
  <2> QED BY <2>1, <2>2
<1> QED BY <1>2, <1>5, <1>6, <1>7 DEF QueueInv

LEMMA AddStep ==
  ASSUME TrayInv, AddSent
  PROVE  TrayInv'
<1> USE DEF TrayInv
<1> DEFINE w == watchWork
           i == w.item
           m == [kind |-> "add", item |-> i, icon |-> w.icon]
           new == NewTask(i, w.icon)
<1>1. /\ UNCHANGED <<alive, ver, missed, hostPhase, registered, ownersLost, events, toAdd>>
      /\ UNCHANGED <<fg, signalling, themeSigs, menu, reqs, items>>
  BY DEF AddSent, busVars, hostVars, guiVars
<1>2. /\ w # None /\ w.at = "send" /\ SendMsg(m) /\ watchWork' = None
      /\ tasks' = Append(tasks, new) /\ metas' = Put(metas, i, Len(tasks'))
  BY DEF AddSent, DropOthers
<1>3. /\ i \in Item /\ w.icon \in Icon /\ i \notin DOMAIN metas
      /\ hostPhase \in {"boot", "loop"}
      /\ hostPhase = "boot" => i \notin toAdd /\ toAdd \intersect DOMAIN metas = {}
      /\ i \in alive => /\ w.icon[1] = fg \/ Recoloured
                        /\ i \notin missed => w.icon[2] = ver[i]
  BY <1>2 DEF WorkInv, Work
<1> HIDE DEF w, i
<1>4. /\ m \in Message /\ m.kind = "add" /\ m.item = i /\ m.icon = w.icon
      /\ new \in Task /\ new.item = i /\ new.at = "spawned" /\ new.icon = w.icon
      /\ new.refetch = 0 /\ new.news = 0
  BY <1>3, TrayAssumption DEF Message, Task, NewTask
<1> HIDE DEF m, new
<1>5. /\ tasks' \in Seq(Task) /\ Len(tasks) \in Nat
      /\ DOMAIN tasks = 1..Len(tasks) /\ DOMAIN tasks' = 1..(Len(tasks) + 1)
      /\ Len(tasks') = Len(tasks) + 1
      /\ \A t \in 1..Len(tasks) : tasks'[t] = tasks[t]
      /\ tasks'[Len(tasks) + 1] = new
  <2> HIDE DEF Task
  <2>1. tasks \in Seq(Task) /\ Len(tasks) \in Nat /\ DOMAIN tasks = 1..Len(tasks)
    BY LenProperties DEF TaskInv
  <2>2. /\ tasks' \in Seq(Task) /\ Len(tasks') = Len(tasks) + 1
        /\ \A t \in 1..Len(tasks) : tasks'[t] = tasks[t]
        /\ tasks'[Len(tasks) + 1] = new
    BY <1>2, <1>4, <2>1, AppendProperties
  <2>3. DOMAIN tasks' = 1..(Len(tasks) + 1)
    BY <2>2, LenProperties
  <2> QED BY <2>1, <2>2, <2>3
<1>6. /\ DOMAIN metas' = DOMAIN metas \union {i} /\ metas'[i] = Len(tasks) + 1
      /\ \A j \in DOMAIN metas : metas'[j] = metas[j] /\ j # i
  BY <1>2, <1>3, <1>5 DEF Put
<1>7. \A t \in 1..(Len(tasks) + 1) : t \in 1..Len(tasks) \/ t = Len(tasks) + 1
  BY <1>5
<1>8. HostInv' /\ GuiInv'
  BY <1>1, HostKept, GuiKept
<1>9. WorkInv'
  BY <1>1, <1>2, <1>3, <1>6 DEF WorkInv
<1>10. TaskInv'
  <2>1. \A j \in DOMAIN metas' : metas'[j] \in DOMAIN tasks' /\ tasks'[metas'[j]].item = j
    <3>1. \A t \in 1..Len(tasks) : t \in 1..(Len(tasks) + 1)
      BY <1>5
    <3>2. Len(tasks) + 1 \in 1..(Len(tasks) + 1)
      BY <1>5
    <3> QED BY <1>4, <1>5, <1>6, <3>1, <3>2 DEF TaskInv
  <2>2. ASSUME NEW t \in DOMAIN tasks', tasks'[t].item \in alive
        PROVE  tasks'[t].item \in DOMAIN metas' /\ metas'[tasks'[t].item] = t
    <3>1. CASE t \in 1..Len(tasks)
      BY <1>5, <1>6, <2>2, <3>1 DEF TaskInv
    <3>2. CASE t = Len(tasks) + 1
      BY <1>4, <1>5, <1>6, <3>2
    <3> QED BY <1>5, <1>7, <3>1, <3>2
  <2> QED BY <1>1, <1>3, <1>5, <1>6, <2>1, <2>2 DEF TaskInv
<1>11. QueueInv'
  BY <1>1, <1>2, <1>4, <1>6, QueueSent
<1>12. FreshInv'
  <2>1. ASSUME NEW j \in DOMAIN metas' \intersect alive', NEW r, r = tasks'[metas'[j]]
        PROVE  /\ r.at # "send" => WillDraw(msgs', items', j, r.icon)
               /\ r.at # "ended" => Coloured(r)'
               /\ UpToDate(r)'
    <3>0. msgs \in Seq(Message) /\ msgs' = Append(msgs, m) /\ (Recoloured' <=> Recoloured)
      BY <1>1, <1>2 DEF QueueInv, SendMsg, Recoloured
    <3>1. CASE j = i
      <4>1. r = new
        BY <1>5, <1>6, <2>1, <3>1
      <4>2. WillDraw(msgs', items', j, r.icon)
        BY <1>1, <1>4, <3>0, <3>1, <4>1, SendOwn
      <4>3. Coloured(r)' /\ UpToDate(r)'
        BY <1>1, <1>3, <1>4, <2>1, <3>0, <3>1, <4>1 DEF Coloured, UpToDate
      <4> QED BY <4>2, <4>3
    <3>2. CASE j # i
      <4>1. j \in DOMAIN metas \intersect alive /\ r = tasks[metas[j]]
        BY <1>1, <1>5, <1>6, <2>1, <3>2 DEF TaskInv
      <4>2. /\ r.at # "send" => WillDraw(msgs, items, j, r.icon)
            /\ r.at # "ended" => Coloured(r)
            /\ UpToDate(r)
        BY <4>1 DEF FreshInv
      <4>3. r.at # "send" => WillDraw(msgs', items', j, r.icon)
        BY <1>1, <1>4, <3>0, <3>2, <4>2, SendOther
      <4>4. (Coloured(r) => Coloured(r)') /\ (UpToDate(r) => UpToDate(r)')
        BY <1>1, <3>0 DEF Coloured, UpToDate
      <4> QED BY <4>2, <4>3, <4>4
    <3> QED BY <3>1, <3>2
  <2> QED BY <2>1, FreshNext
<1> QED BY <1>8, <1>9, <1>10, <1>11, <1>12

LEMMA FreshSent ==
  ASSUME QueueInv, FreshInv, NEW m \in Message, SendMsg(m), m.kind \notin {"add", "update"},
         UNCHANGED <<alive, metas, tasks, items, ver, missed, fg, signalling, themeSigs>>
  PROVE  FreshInv'
<1>0. msgs \in Seq(Message) /\ msgs' = Append(msgs, m) /\ (Recoloured' <=> Recoloured)
  BY DEF QueueInv, SendMsg, Recoloured
<1>1. ASSUME NEW i \in DOMAIN metas' \intersect alive', NEW r, r = tasks'[metas'[i]]
      PROVE  /\ r.at # "send" => WillDraw(msgs', items', i, r.icon)
             /\ r.at # "ended" => Coloured(r)'
             /\ UpToDate(r)'
  <2>1. /\ r.at # "send" => WillDraw(msgs, items, i, r.icon)
        /\ r.at # "ended" => Coloured(r)
        /\ UpToDate(r)
    BY <1>1 DEF FreshInv
  <2>2. r.at # "send" => WillDraw(msgs', items', i, r.icon)
    BY <1>0, <2>1, SendOther
  <2>3. (Coloured(r) => Coloured(r)') /\ (UpToDate(r) => UpToDate(r)')
    BY <1>0 DEF Coloured, UpToDate
  <2> QED BY <2>1, <2>2, <2>3
<1> QED BY <1>1, FreshNext

LEMMA RemoveStep ==
  ASSUME TrayInv, RemoveSent
  PROVE  TrayInv'
<1> USE DEF TrayInv
<1> DEFINE m == [kind |-> "remove", item |-> watchWork.item, icon |-> NoIcon]
<1>1. /\ UNCHANGED <<alive, ver, missed, hostPhase, registered, ownersLost, events, toAdd>>
      /\ UNCHANGED <<fg, signalling, themeSigs, menu, reqs, items, metas, tasks>>
  BY DEF RemoveSent, busVars, hostVars, guiVars
<1>2. /\ watchWork # None /\ watchWork.at = "remove" /\ SendMsg(m) /\ watchWork' = None
  BY DEF RemoveSent, DropOthers
<1>3. /\ watchWork.item \in Item /\ watchWork.item \notin DOMAIN metas /\ watchWork.item \notin alive
      /\ hostPhase \in {"boot", "loop"}
      /\ hostPhase = "boot" => toAdd \intersect DOMAIN metas = {}
  BY <1>2 DEF WorkInv, Work
<1>4. m \in Message /\ m.kind = "remove" /\ m.item = watchWork.item
  BY <1>3 DEF Message, Icon, NoIcon
<1> HIDE DEF m
<1>5. HostInv' /\ TaskInv' /\ GuiInv'
  BY <1>1, HostKept, TaskKept, GuiKept
<1>6. WorkInv'
  BY <1>1, <1>2, <1>3, WorkDropped
<1>7. QueueInv'
  BY <1>1, <1>2, <1>3, <1>4, QueueSent
<1>8. FreshInv'
  BY <1>1, <1>2, <1>4, FreshSent
<1> QED BY <1>5, <1>6, <1>7, <1>8

(* The steps that only end the round of the loop.                          *)
LEMMA RoundSteps ==
  ASSUME TrayInv, SubscribeCleanup \/ Unrelated
  PROVE  TrayInv'
<1> USE DEF TrayInv
<1>1. /\ UNCHANGED <<alive, ver, missed, hostPhase, registered, ownersLost, events, toAdd>>
      /\ UNCHANGED <<metas, tasks>> /\ UNCHANGED Guiless
      /\ hostPhase = "loop" /\ watchWork' = None
  BY DEF SubscribeCleanup, Unrelated, Tick, DropOthers, busVars, hostVars, guiVars, Guiless
<1>2. WorkInv'
  BY <1>1, WorkDropped
<1> QED BY <1>1, <1>2, HostKept, TaskKept, QueueKept, GuiKept, FreshKept DEF Guiless, Recoloured

-----------------------------------------------------------------------------
(* The tasks.                                                              *)

(* A task that goes on is the task of the same item.                       *)
LEMMA TaskSet ==
  ASSUME TaskInv, NEW t \in DOMAIN tasks, NEW r \in Task, SetTask(t, r),
         r.item = tasks[t].item, UNCHANGED metas, alive' = alive
  PROVE  /\ TaskInv' /\ DOMAIN tasks' = DOMAIN tasks /\ tasks'[t] = r
         /\ \A u \in DOMAIN tasks : u # t => tasks'[u] = tasks[u]
<1> HIDE DEF Task
<1>1. tasks \in Seq(Task) /\ tasks' = [tasks EXCEPT ![t] = r]
  BY DEF TaskInv, SetTask
<1>2. DOMAIN tasks = 1..Len(tasks)
  BY <1>1, LenProperties
<1>3. tasks' \in Seq(Task)
  BY <1>1, <1>2, ExceptSeq
<1>4. /\ DOMAIN tasks' = DOMAIN tasks /\ tasks'[t] = r
      /\ \A u \in DOMAIN tasks : u # t => tasks'[u] = tasks[u]
  BY <1>1
<1>5. \A u \in DOMAIN tasks : tasks'[u].item = tasks[u].item
  BY <1>4
<1>6. TaskInv'
  BY <1>3, <1>4, <1>5 DEF TaskInv
<1> QED BY <1>4, <1>6

(* What a step of task t leaves to prove of FreshInv.                      *)
LEMMA FreshSet ==
  ASSUME TaskInv, FreshInv, NEW t \in DOMAIN tasks, NEW r \in Task, SetTask(t, r),
         r.item = tasks[t].item,
         UNCHANGED <<alive, metas, items, ver, missed, fg, signalling, themeSigs>>,
         \A i, icon : i # r.item /\ WillDraw(msgs, items, i, icon) => WillDraw(msgs', items, i, icon),
         r.item \in alive /\ metas[r.item] = t /\ r.item \in DOMAIN metas =>
           /\ r.at # "send" => WillDraw(msgs', items, r.item, r.icon)
           /\ r.at # "ended" => Coloured(r)
           /\ UpToDate(r)
  PROVE  FreshInv'
<1>0. Recoloured' <=> Recoloured
  BY DEF Recoloured
<1>1. /\ DOMAIN tasks' = DOMAIN tasks /\ tasks'[t] = r
      /\ \A u \in DOMAIN tasks : u # t => tasks'[u] = tasks[u]
  BY TaskSet
<1>2. ASSUME NEW i \in DOMAIN metas' \intersect alive', NEW s, s = tasks'[metas'[i]]
      PROVE  /\ s.at # "send" => WillDraw(msgs', items', i, s.icon)
             /\ s.at # "ended" => Coloured(s)'
             /\ UpToDate(s)'
  <2>1. (Coloured(s) => Coloured(s)') /\ (UpToDate(s) => UpToDate(s)')
    BY <1>0 DEF Coloured, UpToDate
  <2>2. i \in DOMAIN metas \intersect alive /\ metas[i] \in DOMAIN tasks /\ tasks[metas[i]].item = i
    BY DEF TaskInv
  <2>3. CASE metas[i] = t
    <3>1. s = r /\ r.item = i
      BY <1>1, <1>2, <2>2, <2>3
    <3> QED BY <2>1, <2>2, <2>3, <3>1
  <2>4. CASE metas[i] # t
    <3>1. s = tasks[metas[i]]
      BY <1>1, <1>2, <2>2, <2>4
    <3>2. i # r.item
      <4>1. ASSUME i = r.item PROVE FALSE
        BY <2>2, <2>4, <4>1 DEF TaskInv
      <4> QED BY <4>1
    <3>3. /\ s.at # "send" => WillDraw(msgs, items, i, s.icon)
          /\ s.at # "ended" => Coloured(s)
          /\ UpToDate(s)
      BY <2>2, <3>1 DEF FreshInv
    <3> QED BY <2>1, <3>2, <3>3
  <2> QED BY <2>3, <2>4
<1> QED BY <1>2, FreshNext

LEMMA TaskRest ==
  ASSUME TrayInv, NEW t \in DOMAIN tasks, NEW r \in Task, SetTask(t, r),
         r.item = tasks[t].item, Tick,
         UNCHANGED <<busVars, hostVars, metas, guiVars, reqs, themeSigs>>
  PROVE  /\ HostInv' /\ WorkInv' /\ TaskInv' /\ GuiInv'
         /\ UNCHANGED <<alive, ver, missed, metas, items, fg, signalling, themeSigs>>
<1> USE DEF TrayInv
<1>1. /\ UNCHANGED <<alive, ver, missed, hostPhase, registered, ownersLost, events, toAdd>>
      /\ UNCHANGED <<fg, signalling, themeSigs, menu, reqs, items, metas>>
      /\ hostPhase = "loop" /\ watchWork' = None
  BY DEF busVars, hostVars, guiVars, Tick, DropOthers
<1>2. HostInv' /\ GuiInv'
  BY <1>1, HostKept, GuiKept
<1>3. WorkInv'
  BY <1>1, WorkDropped
<1>4. TaskInv'
  BY <1>1, TaskSet
<1> QED BY <1>1, <1>2, <1>3, <1>4

(* A step of a task that sends nothing.                                    *)
LEMMA TaskSilent ==
  ASSUME TrayInv, NEW t \in DOMAIN tasks, NEW r \in Task, SetTask(t, r),
         r.item = tasks[t].item, Tick,
         UNCHANGED <<busVars, hostVars, metas, guiVars, reqs, themeSigs, msgs>>,
         r.item \in alive /\ metas[r.item] = t /\ r.item \in DOMAIN metas =>
           /\ r.at # "send" => WillDraw(msgs, items, r.item, r.icon)
           /\ r.at # "ended" => Coloured(r)
           /\ UpToDate(r)
  PROVE  TrayInv'
<1>1. /\ HostInv' /\ WorkInv' /\ TaskInv' /\ GuiInv'
      /\ UNCHANGED <<alive, ver, missed, metas, items, fg, signalling, themeSigs>>
  BY TaskRest
<1>2. msgs' = msgs
  OBVIOUS
<1>3. QueueInv'
  BY <1>1, <1>2, QueueKept DEF TrayInv
<1>4. FreshInv'
  BY <1>1, <1>2, FreshSet DEF TrayInv
<1> QED BY <1>1, <1>3, <1>4 DEF TrayInv

LEMMA TaskKnown ==
  ASSUME TrayInv, NEW t \in DOMAIN tasks
  PROVE  /\ tasks[t] \in Task
         /\ tasks[t].item \in alive => tasks[t].item \in DOMAIN metas /\ metas[tasks[t].item] = t
         /\ tasks[t].item \in alive =>
              /\ tasks[t].at # "send" => WillDraw(msgs, items, tasks[t].item, tasks[t].icon)
              /\ tasks[t].at # "ended" => Coloured(tasks[t])
              /\ UpToDate(tasks[t])
<1> HIDE DEF Task
<1>1. tasks[t] \in Task
  <2>1. tasks \in Seq(Task)
    BY DEF TrayInv, TaskInv
  <2>2. \A u \in DOMAIN tasks : tasks[u] \in Task
    BY <2>1
  <2> QED BY <2>2
<1>2. tasks[t].item \in alive => tasks[t].item \in DOMAIN metas /\ metas[tasks[t].item] = t
  BY DEF TrayInv, TaskInv
<1> QED BY <1>1, <1>2 DEF TrayInv, FreshInv

LEMMA SubscribesStep ==
  ASSUME TrayInv, NEW t \in DOMAIN tasks, TaskSubscribes(t)
  PROVE  TrayInv'
<1>1. /\ tasks[t].at = "spawned" /\ Tick
      /\ UNCHANGED <<busVars, hostVars, metas, guiVars, reqs, themeSigs, msgs>>
  BY DEF TaskSubscribes
<1>2. ASSUME SetTask(t, [tasks[t] EXCEPT !.at = "wait"]) PROVE TrayInv'
  <2> DEFINE r == [tasks[t] EXCEPT !.at = "wait"]
  <2>1. /\ r \in Task /\ r.item = tasks[t].item /\ r.at = "wait" /\ r.icon = tasks[t].icon
        /\ r.refetch = tasks[t].refetch /\ r.news = tasks[t].news
    BY TaskKnown DEF Task
  <2>2. SetTask(t, r)
    BY <1>2
  <2> HIDE DEF r
  <2>3. r.item \in alive => /\ WillDraw(msgs, items, r.item, r.icon)
                            /\ Coloured(r) /\ UpToDate(r)
    BY <1>1, <2>1, TaskKnown DEF Coloured, UpToDate
  <2> QED BY <1>1, <2>1, <2>2, <2>3, TaskSilent
<1>3. ASSUME tasks[t].item \notin alive, SetTask(t, [tasks[t] EXCEPT !.at = "ended"])
      PROVE TrayInv'
  <2> DEFINE r == [tasks[t] EXCEPT !.at = "ended"]
  <2>1. r \in Task /\ r.item = tasks[t].item
    BY TaskKnown DEF Task
  <2>2. SetTask(t, r)
    BY <1>3
  <2> HIDE DEF r
  <2> QED BY <1>1, <1>3, <2>1, <2>2, TaskSilent
<1> QED BY <1>2, <1>3 DEF TaskSubscribes

LEMMA TriggeredStep ==
  ASSUME TrayInv, NEW t \in DOMAIN tasks, TaskTriggered(t)
  PROVE  TrayInv'
<1>1. /\ tasks[t].at = "wait" /\ Tick
      /\ UNCHANGED <<busVars, hostVars, metas, guiVars, reqs, themeSigs, msgs>>
  BY DEF TaskTriggered
<1>2. ASSUME NEW r \in Task, SetTask(t, r), r.item = tasks[t].item, r.at = "fetch", r.fg = fg,
             r.icon = tasks[t].icon
      PROVE  TrayInv'
  <2>1. r.item \in alive => /\ WillDraw(msgs, items, r.item, r.icon)
                            /\ Coloured(r) /\ UpToDate(r)
    BY <1>1, <1>2, TaskKnown DEF Coloured, UpToDate
  <2> QED BY <1>1, <1>2, <2>1, TaskSilent
<1>3. fg \in Fg /\ RefetchCap \in Nat
  BY TrayAssumption DEF TrayInv, GuiInv
<1>4. ASSUME tasks[t].news > 0,
             SetTask(t, [tasks[t] EXCEPT !.at = "fetch", !.fg = fg, !.news = @ - 1])
      PROVE  TrayInv'
  <2> DEFINE r == [tasks[t] EXCEPT !.at = "fetch", !.fg = fg, !.news = @ - 1]
  <2>1. /\ r \in Task /\ r.item = tasks[t].item /\ r.at = "fetch" /\ r.fg = fg
        /\ r.icon = tasks[t].icon
    <3>1. tasks[t] \in Task /\ tasks[t].news - 1 \in Nat
      BY <1>4, TaskKnown DEF Task
    <3> QED BY <1>3, <3>1 DEF Task
  <2>2. SetTask(t, r)
    BY <1>4
  <2> HIDE DEF r
  <2> QED BY <1>2, <2>1, <2>2
<1>5. ASSUME tasks[t].refetch > 0,
             SetTask(t, [tasks[t] EXCEPT !.at = "fetch", !.fg = fg, !.refetch = @ - 1])
      PROVE  TrayInv'
  <2> DEFINE r == [tasks[t] EXCEPT !.at = "fetch", !.fg = fg, !.refetch = @ - 1]
  <2>1. /\ r \in Task /\ r.item = tasks[t].item /\ r.at = "fetch" /\ r.fg = fg
        /\ r.icon = tasks[t].icon
    <3>1. tasks[t] \in Task /\ tasks[t].refetch - 1 \in 0..RefetchCap
      <4>1. tasks[t] \in Task /\ tasks[t].refetch \in 0..RefetchCap
        BY TaskKnown DEF Task
      <4> QED BY <1>3, <1>5, <4>1
    <3> QED BY <1>3, <3>1 DEF Task
  <2>2. SetTask(t, r)
    BY <1>5
  <2> HIDE DEF r
  <2> QED BY <1>2, <2>1, <2>2
<1>6. ASSUME ~HasSender(t), SetTask(t, [tasks[t] EXCEPT !.at = "ended"])
      PROVE  TrayInv'
  <2> DEFINE r == [tasks[t] EXCEPT !.at = "ended"]
  <2>1. r \in Task /\ r.item = tasks[t].item
    BY TaskKnown DEF Task
  <2>2. SetTask(t, r)
    BY <1>6
  <2> HIDE DEF r
  <2>3. ~(r.item \in alive /\ metas[r.item] = t /\ r.item \in DOMAIN metas)
    BY <1>6 DEF HasSender
  <2> QED BY <1>1, <2>1, <2>2, <2>3, TaskSilent
<1> QED BY <1>4, <1>5, <1>6 DEF TaskTriggered

LEMMA FetchesStep ==
  ASSUME TrayInv, NEW t \in DOMAIN tasks, TaskFetches(t)
  PROVE  TrayInv'
<1> DEFINE icon == Published(tasks[t].item, tasks[t].fg)
           r == [tasks[t] EXCEPT !.at = "send", !.icon = icon]
<1>1. /\ tasks[t].at = "fetch" /\ Tick /\ SetTask(t, r)
      /\ UNCHANGED <<busVars, hostVars, metas, guiVars, reqs, themeSigs, msgs>>
  BY DEF TaskFetches
<1>2. /\ icon \in Icon
      /\ tasks[t].item \in alive => icon[1] = tasks[t].fg /\ icon[2] = ver[tasks[t].item]
  <2>1. tasks[t].item \in Item /\ tasks[t].fg \in Fg \union {None} /\ None \in Fg \union {None}
    BY TaskKnown DEF Task
  <2>2. ver[tasks[t].item] \in Nat
    BY <2>1 DEF TrayInv, HostInv
  <2> QED BY <2>1, <2>2 DEF Published, NoIcon, Icon
<1> HIDE DEF icon
<1>3. /\ r \in Task /\ r.item = tasks[t].item /\ r.at = "send" /\ r.icon = icon
      /\ r.refetch = tasks[t].refetch
  BY <1>2, TaskKnown DEF Task
<1> HIDE DEF r
<1>4. r.item \in alive => Coloured(r) /\ UpToDate(r)
  BY <1>1, <1>2, <1>3, TaskKnown DEF Coloured, UpToDate
<1> QED BY <1>1, <1>3, <1>4, TaskSilent

LEMMA SendsStep ==
  ASSUME TrayInv, NEW t \in DOMAIN tasks, TaskSends(t)
  PROVE  TrayInv'
<1> DEFINE m == [kind |-> "update", item |-> tasks[t].item, icon |-> tasks[t].icon]
           r == [tasks[t] EXCEPT !.at = "wait"]
<1>1. /\ tasks[t].at = "send" /\ Tick /\ SetTask(t, r) /\ SendMsg(m)
      /\ UNCHANGED <<busVars, hostVars, metas, guiVars, reqs, themeSigs>>
  BY DEF TaskSends
<1>2. /\ r \in Task /\ r.item = tasks[t].item /\ r.at = "wait" /\ r.icon = tasks[t].icon
      /\ r.refetch = tasks[t].refetch /\ r.news = tasks[t].news
  BY TaskKnown DEF Task
<1>3. m \in Message /\ m.kind = "update" /\ m.item = r.item /\ m.icon = r.icon
  BY <1>2, TaskKnown DEF Task, Message
<1> HIDE DEF m, r
<1>4. /\ HostInv' /\ WorkInv' /\ TaskInv' /\ GuiInv'
      /\ UNCHANGED <<alive, ver, missed, metas, items, fg, signalling, themeSigs>>
  BY <1>1, <1>2, TaskRest
<1>5. QueueInv'
  BY <1>1, <1>3, <1>4, QueueSent DEF TrayInv
<1>6. msgs \in Seq(Message) /\ msgs' = Append(msgs, m)
  BY <1>1 DEF TrayInv, QueueInv, SendMsg
<1>7. r.item \in alive => Coloured(r) /\ UpToDate(r)
  BY <1>1, <1>2, TaskKnown DEF Coloured, UpToDate
<1>8. WillDraw(msgs', items, r.item, r.icon)
  BY <1>3, <1>6, SendOwn
<1>9. \A i, icon : i # r.item /\ WillDraw(msgs, items, i, icon) => WillDraw(msgs', items, i, icon)
  BY <1>3, <1>6, SendOther
<1>10. FreshInv'
  BY <1>1, <1>2, <1>4, <1>7, <1>8, <1>9, FreshSet DEF TrayInv
<1> QED BY <1>4, <1>5, <1>10 DEF TrayInv

-----------------------------------------------------------------------------
(* The other branches of the loop, the module and the applications.        *)

(* Every task is changed in its place.                                     *)
LEMMA TasksMapped ==
  ASSUME TaskInv, NEW s \in [DOMAIN tasks -> Task], tasks' = s,
         \A t \in DOMAIN tasks : s[t].item = tasks[t].item,
         UNCHANGED metas, alive' \subseteq alive
  PROVE  TaskInv'
<1> HIDE DEF Task
<1>1. tasks \in Seq(Task) /\ DOMAIN tasks = 1..Len(tasks) /\ Len(tasks) \in Nat
  BY LenProperties DEF TaskInv
<1>2. tasks' \in [1..Len(tasks) -> Task]
  BY <1>1
<1>3. tasks' \in Seq(Task)
  BY <1>1, <1>2, SeqDef
<1>4. \A t \in DOMAIN tasks : tasks'[t].item = tasks[t].item
  OBVIOUS
<1>5. DOMAIN tasks' = DOMAIN tasks
  OBVIOUS
<1> QED BY <1>3, <1>4, <1>5 DEF TaskInv

LEMMA ThemeStep ==
  ASSUME TrayInv, ThemeBranch
  PROVE  TrayInv'
<1> USE DEF TrayInv
<1> DEFINE F(t) == IF HasSender(t) /\ tasks[t].at # "ended" /\ tasks[t].refetch < RefetchCap
                   THEN [tasks[t] EXCEPT !.refetch = @ + 1] ELSE tasks[t]
<1>1. /\ UNCHANGED <<alive, ver, missed, hostPhase, registered, ownersLost, events, toAdd>>
      /\ UNCHANGED <<fg, signalling, menu, reqs, items, metas, msgs>>
      /\ hostPhase = "loop" /\ watchWork' = None
  BY DEF ThemeBranch, busVars, hostVars, guiVars, DropOthers
<1>2. themeSigs > 0 /\ themeSigs' = themeSigs - 1 /\ tasks' = [t \in DOMAIN tasks |-> F(t)]
  BY DEF ThemeBranch
<1>3. ASSUME NEW t \in DOMAIN tasks
      PROVE  /\ F(t) \in Task /\ F(t).item = tasks[t].item /\ F(t).at = tasks[t].at
             /\ F(t).icon = tasks[t].icon /\ F(t).news = tasks[t].news
             /\ HasSender(t) /\ tasks[t].at # "ended" => F(t).refetch > 0
  <2>1. /\ tasks[t] \in Task /\ tasks[t].refetch \in 0..RefetchCap
        /\ RefetchCap \in Nat /\ RefetchCap # 0
    BY TaskKnown, TrayAssumption DEF Task
  <2>2. tasks[t].refetch < RefetchCap => tasks[t].refetch + 1 \in 0..RefetchCap /\ tasks[t].refetch + 1 > 0
    BY <2>1
  <2>3. ~(tasks[t].refetch < RefetchCap) => tasks[t].refetch > 0
    BY <2>1
  <2> QED BY <2>1, <2>2, <2>3 DEF Task
<1> HIDE DEF F
<1>4. TaskInv'
  <2> DEFINE s == [t \in DOMAIN tasks |-> F(t)]
  <2>1. s \in [DOMAIN tasks -> Task] /\ \A t \in DOMAIN tasks : s[t].item = tasks[t].item
    BY <1>3
  <2>2. tasks' = s
    BY <1>2
  <2> HIDE DEF s
  <2> QED BY <1>1, <2>1, <2>2, TasksMapped
<1>5. HostInv' /\ QueueInv'
  BY <1>1, HostKept, QueueKept
<1>6. WorkInv'
  BY <1>1, WorkDropped
<1>7. GuiInv'
  <2>1. themeSigs' \in 0..ThemeCap
    BY <1>2, TrayAssumption DEF GuiInv
  <2>2. signalling' \in BOOLEAN
    BY <1>1 DEF GuiInv
  <2> QED BY <1>1, <2>1, <2>2 DEF GuiInv
<1>8. FreshInv'
  <2>1. ASSUME NEW i \in DOMAIN metas' \intersect alive', NEW r, r = tasks'[metas'[i]]
        PROVE  /\ r.at # "send" => WillDraw(msgs', items', i, r.icon)
               /\ r.at # "ended" => Coloured(r)'
               /\ UpToDate(r)'
    <3>1. i \in DOMAIN metas \intersect alive /\ metas[i] \in DOMAIN tasks
      BY <1>1 DEF TaskInv
    <3> DEFINE t == metas[i]
               old == tasks[t]
    <3>2. r = F(t) /\ HasSender(t) /\ t \in DOMAIN tasks
      BY <1>1, <1>2, <2>1, <3>1 DEF HasSender
    <3>3. /\ old.at # "send" => WillDraw(msgs, items, i, old.icon)
          /\ UpToDate(old)
      BY <3>1 DEF FreshInv
    <3>4. /\ r.item = old.item /\ r.at = old.at /\ r.icon = old.icon /\ r.news = old.news
          /\ r.at # "ended" => r.refetch > 0
      BY <1>3, <3>2
    <3> HIDE DEF t, old
    <3>5. (r.at # "ended" => Coloured(r)') /\ UpToDate(r)'
      BY <1>1, <2>1, <3>3, <3>4 DEF Coloured, UpToDate
    <3> QED BY <1>1, <3>3, <3>4, <3>5
  <2> QED BY <2>1, FreshNext
<1> QED BY <1>4, <1>5, <1>6, <1>7, <1>8

(* The queues of requests.                                                 *)
LEMMA RequestSet ==
  ASSUME GuiInv, NEW b \in Branch, NEW q \in Seq([kind : {"menu", "call"}, item : Item]),
         Len(q) <= ReqCap, reqs' = [reqs EXCEPT ![b] = q],
         UNCHANGED <<fg, signalling, themeSigs, menu>>
  PROVE  GuiInv'
<1>1. signalling' \in BOOLEAN
  BY DEF GuiInv
<1>2. /\ reqs' \in [Branch -> Seq([kind : {"menu", "call"}, item : Item])]
      /\ \A c \in Branch : Len(reqs'[c]) <= ReqCap
  BY DEF GuiInv
<1> QED BY <1>1, <1>2 DEF GuiInv

LEMMA RequestSteps ==
  ASSUME TrayInv, NEW b \in Branch, TakeRequest(b) \/ RequestAnswered(b)
  PROVE  TrayInv'
<1> USE DEF TrayInv
<1> DEFINE Request == [kind : {"menu", "call"}, item : Item]
<1>1. /\ UNCHANGED <<alive, ver, missed, hostPhase, registered, ownersLost, events, toAdd>>
      /\ UNCHANGED <<fg, signalling, themeSigs, menu, items, metas, tasks, msgs>>
  BY DEF TakeRequest, RequestAnswered, busVars, hostVars, guiVars
<1>2. HostInv' /\ TaskInv' /\ QueueInv' /\ FreshInv'
  BY <1>1, HostKept, TaskKept, QueueKept, FreshKept DEF Recoloured
<1>3. WorkInv'
  <2>1. watchWork' \in {watchWork, None}
    BY DEF TakeRequest, RequestAnswered, Works, DropOthers
  <2>2. CASE watchWork' = watchWork
    BY <1>1, <2>2, WorkKept DEF Recoloured
  <2>3. CASE watchWork' = None
    BY <1>1, <2>3 DEF WorkInv
  <2> QED BY <2>1, <2>2, <2>3
<1>4. GuiInv'
  <2>1. CASE TakeRequest(b)
    <3>1. reqs[b] # <<>> /\ reqs' = [reqs EXCEPT ![b] = Tail(reqs[b])]
      BY <2>1 DEF TakeRequest
    <3>2. reqs[b] \in Seq(Request) /\ Len(reqs[b]) <= ReqCap
      BY DEF GuiInv
    <3> HIDE DEF Request
    <3>3. Tail(reqs[b]) \in Seq(Request) /\ Len(Tail(reqs[b])) = Len(reqs[b]) - 1
      BY <3>1, <3>2, HeadTailProperties
    <3>4. Len(reqs[b]) \in Nat
      BY <3>2, LenProperties
    <3>5. Len(Tail(reqs[b])) <= ReqCap
      BY <3>2, <3>3, <3>4, TrayAssumption
    <3> QED BY <1>1, <3>1, <3>3, <3>5, RequestSet DEF Request
  <2>2. CASE RequestAnswered(b)
    BY <1>1, <2>2, GuiKept DEF RequestAnswered
  <2> QED BY <2>1, <2>2
<1> QED BY <1>2, <1>3, <1>4

RequestWork == [at : {"call", "send"}, kind : {"menu", "call"}, item : Item]
RequestInv == reqWork \in [Branch -> RequestWork \union {None}]

LEMMA RequestsTyped ==
  ASSUME TrayInv, RequestInv, TrayNext
  PROVE  RequestInv'
<1>1. Idle \in [Branch -> RequestWork \union {None}]
  BY DEF Idle
<1>2. ASSUME NEW b \in Branch, TakeRequest(b) PROVE RequestInv'
  <2>1. CASE DropOthers
    BY <1>1, <2>1 DEF DropOthers, RequestInv
  <2>2. CASE Works(b, [at |-> "call", kind |-> Head(reqs[b]).kind, item |-> Head(reqs[b]).item])
    <3> DEFINE Request == [kind : {"menu", "call"}, item : Item]
               w == [at |-> "call", kind |-> Head(reqs[b]).kind, item |-> Head(reqs[b]).item]
    <3>1. reqs[b] \in Seq(Request) /\ reqs[b] # <<>>
      BY <1>2 DEF TrayInv, GuiInv, TakeRequest
    <3>2. Head(reqs[b]) \in Request
      <4> HIDE DEF Request
      <4> QED BY <3>1, HeadTailProperties
    <3>3. w \in RequestWork
      BY <3>2 DEF RequestWork
    <3>4. reqWork' = [reqWork EXCEPT ![b] = w]
      BY <2>2 DEF Works
    <3> HIDE DEF w
    <3> QED BY <3>3, <3>4 DEF RequestInv
  <2> QED BY <1>2, <2>1, <2>2 DEF TakeRequest
<1>3. ASSUME NEW b \in Branch, RequestAnswered(b) PROVE RequestInv'
  <2>1. CASE DropOthers
    BY <1>1, <2>1 DEF DropOthers, RequestInv
  <2>2. CASE Works(b, [reqWork[b] EXCEPT !.at = "send"])
    <3> DEFINE w == [reqWork[b] EXCEPT !.at = "send"]
    <3>1. reqWork[b] \in RequestWork
      BY <1>3 DEF RequestInv, RequestAnswered
    <3>2. w \in RequestWork
      BY <3>1 DEF RequestWork
    <3>3. reqWork' = [reqWork EXCEPT ![b] = w]
      BY <2>2 DEF Works
    <3> HIDE DEF w
    <3> QED BY <3>2, <3>3 DEF RequestInv
  <2> QED BY <1>3, <2>1, <2>2 DEF RequestAnswered
<1>4. ASSUME reqWork' \in {reqWork, Idle} PROVE RequestInv'
  BY <1>1, <1>4 DEF RequestInv
<1>5. CASE Connect \/ SessionFails \/ Boot \/ NextInitial \/ SubscribeCleanup \/ OwnerLost
  BY <1>4, <1>5 DEF Connect, SessionFails, Boot, NextInitial, SubscribeCleanup, OwnerLost,
     Tick, DropOthers, loopVars
<1>6. CASE \/ TakeEvent \/ ProxyBuilt \/ AddFails \/ PropsFetched \/ AddSent \/ RemoveSent
           \/ ThemeBranch \/ MenuSent
  BY <1>4, <1>6 DEF TakeEvent, ProxyBuilt, AddFails, PropsFetched, AddSent, RemoveSent, ThemeBranch, MenuSent, DropOthers
<1>7. CASE ThemeSignalled \/ GuiReceives \/ ThemeWritten \/ UserRequests \/ Unrelated
  BY <1>4, <1>7 DEF ThemeSignalled, GuiReceives, ThemeWritten, UserRequests, Asks, Unrelated,
     Tick, DropOthers, loopVars
<1>8. CASE TaskStep
  BY <1>4, <1>8 DEF TaskStep, TaskSubscribes, TaskTriggered, TaskFetches, TaskSends, Tick, DropOthers
<1>9. CASE \E i \in Item : RegisterItem(i) \/ Publish(i) \/ Dies(i)
  BY <1>4, <1>9 DEF RegisterItem, Publish, Dies, loopVars
<1> QED BY <1>2, <1>3, <1>5, <1>6, <1>7, <1>8, <1>9 DEF TrayNext, TrayReacts, TrayHappens

LEMMA HollowTyped ==
  ASSUME TrayInv, hollow \subseteq Item, TrayNext
  PROVE  hollow' \subseteq Item
<1>1. CASE AddFails
  <2>1. watchWork \in Work
    BY <1>1 DEF AddFails, TrayInv, WorkInv
  <2>2. watchWork.item \in Item
    BY <2>1 DEF Work
  <2> QED BY <1>1, <2>2 DEF AddFails
<1>2. CASE \/ Connect \/ SessionFails \/ Boot \/ NextInitial \/ SubscribeCleanup \/ OwnerLost
           \/ \E i \in Item : RegisterItem(i) \/ Publish(i) \/ Dies(i)
  BY <1>2 DEF Connect, SessionFails, Boot, NextInitial, SubscribeCleanup, OwnerLost,
     RegisterItem, Publish, Dies, hostVars
<1>3. CASE TakeEvent \/ ProxyBuilt \/ PropsFetched \/ AddSent \/ RemoveSent \/ ThemeBranch \/ MenuSent
  BY <1>3 DEF TakeEvent, ProxyBuilt, PropsFetched, AddSent, RemoveSent, ThemeBranch, MenuSent, hostVars
<1>4. CASE \/ ThemeSignalled \/ GuiReceives \/ ThemeWritten \/ UserRequests \/ Unrelated
           \/ \E b \in Branch : TakeRequest(b) \/ RequestAnswered(b)
  BY <1>4 DEF ThemeSignalled, GuiReceives, ThemeWritten, UserRequests, Asks, Unrelated,
     TakeRequest, RequestAnswered, hostVars
<1>5. CASE TaskStep
  BY <1>5 DEF TaskStep, TaskSubscribes, TaskTriggered, TaskFetches, TaskSends, hostVars
<1> QED BY <1>1, <1>2, <1>3, <1>4, <1>5 DEF TrayNext, TrayReacts, TrayHappens

SessionInv == RequestInv /\ hollow \subseteq Item

LEMMA MenuStep ==
  ASSUME TrayInv, RequestInv, MenuSent
  PROVE  TrayInv'
<1> USE DEF TrayInv
<1> DEFINE m == [kind |-> "menu", item |-> reqWork["activate"].item, icon |-> NoIcon]
<1>1. /\ UNCHANGED <<alive, ver, missed, hostPhase, registered, ownersLost, events, toAdd>>
      /\ UNCHANGED <<fg, signalling, themeSigs, menu, reqs, items, metas, tasks>>
  BY DEF MenuSent, busVars, hostVars, guiVars
<1>2. reqWork["activate"] # None /\ SendMsg(m) /\ watchWork' = None
  BY DEF MenuSent, DropOthers
<1>3. m \in Message /\ m.kind = "menu"
  <2>1. reqWork["activate"].item \in Item
    BY <1>2 DEF RequestInv, RequestWork, Branch
  <2> QED BY <2>1 DEF Message, Icon, NoIcon
<1> HIDE DEF m
<1>4. HostInv' /\ TaskInv' /\ GuiInv'
  BY <1>1, HostKept, TaskKept, GuiKept
<1>5. WorkInv'
  BY <1>1, <1>2 DEF WorkInv
<1>6. QueueInv'
  BY <1>1, <1>2, <1>3, QueueSent
<1>7. FreshInv'
  BY <1>1, <1>2, <1>3, FreshSent
<1> QED BY <1>4, <1>5, <1>6, <1>7

LEMMA RecolourSteps ==
  ASSUME TrayInv, ThemeWritten \/ ThemeSignalled
  PROVE  TrayInv'
<1> USE DEF TrayInv
<1>1. /\ UNCHANGED <<alive, ver, missed, hostPhase, registered, ownersLost, events, toAdd>>
      /\ UNCHANGED <<menu, reqs, items, watchWork, metas, tasks, msgs>>
  BY DEF ThemeWritten, ThemeSignalled, busVars, hostVars, loopVars
<1>2. /\ themeSigs' \in 0..ThemeCap /\ fg' \in Fg /\ Recoloured'
  <2>1. themeSigs \in 0..ThemeCap /\ ThemeCap \in Nat /\ ThemeCap # 0
    BY TrayAssumption DEF GuiInv
  <2>2. CASE ThemeWritten
    BY <2>1, <2>2 DEF ThemeWritten, Recoloured
  <2>3. CASE ThemeSignalled
    <3>1. themeSigs' \in 0..ThemeCap /\ themeSigs' > 0
      BY <2>1, <2>3 DEF ThemeSignalled
    <3> QED BY <2>3, <3>1 DEF ThemeSignalled, Recoloured, GuiInv
  <2> QED BY <2>2, <2>3
<1>3. signalling' \in BOOLEAN
  BY DEF ThemeWritten, ThemeSignalled
<1>4. GuiInv'
  BY <1>1, <1>2, <1>3 DEF GuiInv
<1>5. HostInv' /\ TaskInv' /\ QueueInv' /\ WorkInv' /\ FreshInv'
  BY <1>1, <1>2, HostKept, TaskKept, QueueKept, WorkKept, FreshKept
<1> QED BY <1>4, <1>5

LEMMA ReceivesStep ==
  ASSUME TrayInv, GuiReceives
  PROVE  TrayInv'
<1> USE DEF TrayInv
<1> DEFINE m == Head(msgs)
<1>1. /\ UNCHANGED <<alive, ver, missed, hostPhase, registered, ownersLost, events, toAdd>>
      /\ UNCHANGED <<fg, signalling, themeSigs, reqs, watchWork, metas, tasks>>
      /\ msgs # <<>> /\ msgs' = Tail(msgs) /\ msgs \in Seq(Message)
  BY DEF GuiReceives, busVars, hostVars, loopVars, QueueInv
<1>2. m \in Message /\ items' = Shown(items, m) /\ menu' \in Item \union {None}
  <2>1. m \in Message
    BY <1>1, HeadTailProperties
  <2>2. m.item \in Item
    BY <2>1 DEF Message
  <2>3. items' = Shown(items, m)
    <3>1. CASE m.kind = "add"
      BY <3>1 DEF GuiReceives, Shown
    <3>2. CASE m.kind = "update"
      BY <3>2 DEF GuiReceives, Shown
    <3>3. CASE m.kind = "remove"
      BY <3>3 DEF GuiReceives, Shown
    <3>4. CASE m.kind = "menu"
      BY <3>4 DEF GuiReceives, Shown
    <3> QED BY <3>1, <3>2, <3>3, <3>4 DEF GuiReceives
  <2>4. menu' \in Item \union {None}
    BY <2>2 DEF GuiReceives, GuiInv
  <2> QED BY <2>1, <2>3, <2>4
<1>3. HostInv' /\ TaskInv' /\ WorkInv'
  BY <1>1, HostKept, TaskKept, WorkKept DEF Recoloured
<1>4. GuiInv'
  <2>1. signalling' \in BOOLEAN
    BY <1>1 DEF GuiInv
  <2> QED BY <1>1, <1>2, <2>1 DEF GuiInv
<1>5. QueueInv'
  <2>1. /\ msgs' \in Seq(Message) /\ Len(msgs') <= MsgCap
        /\ \A n \in DOMAIN msgs' : msgs'[n].kind = "remove" => msgs'[n].item \notin alive
    <3> HIDE DEF Message
    <3>1. /\ Tail(msgs) \in Seq(Message) /\ Len(Tail(msgs)) = Len(msgs) - 1
          /\ \A n \in 1..Len(Tail(msgs)) : Tail(msgs)[n] = msgs[n + 1]
      BY <1>1, HeadTailProperties
    <3>2. /\ DOMAIN msgs = 1..Len(msgs) /\ Len(msgs) \in Nat
          /\ DOMAIN Tail(msgs) = 1..Len(Tail(msgs))
      BY <1>1, <3>1, LenProperties
    <3>3. \A n \in 1..Len(Tail(msgs)) : n + 1 \in DOMAIN msgs
      BY <3>1, <3>2
    <3>4. Len(Tail(msgs)) <= MsgCap
      BY <3>1, <3>2, TrayAssumption DEF QueueInv
    <3>5. \A n \in DOMAIN Tail(msgs) :
            Tail(msgs)[n].kind = "remove" => Tail(msgs)[n].item \notin alive
      BY <3>1, <3>2, <3>3 DEF QueueInv
    <3> QED BY <1>1, <3>1, <3>4, <3>5
  <2>2. DOMAIN items' \subseteq Item
    BY <1>2 DEF QueueInv, Shown, Message, Put, Restrict
  <2>3. \A i \in DOMAIN metas : WillShow(msgs', items', i)
    BY <1>1, <1>2, Reading DEF QueueInv
  <2> QED BY <1>1, <2>1, <2>2, <2>3 DEF QueueInv
<1>6. ~(m.kind = "remove" /\ m.item \in alive)
  <2>1. m = msgs[1] /\ 1 \in DOMAIN msgs
    BY <1>1, PlacesTail
  <2> QED BY <2>1 DEF QueueInv
<1>7. FreshInv'
  <2>1. ASSUME NEW i \in DOMAIN metas' \intersect alive', NEW r, r = tasks'[metas'[i]]
        PROVE  /\ r.at # "send" => WillDraw(msgs', items', i, r.icon)
               /\ r.at # "ended" => Coloured(r)'
               /\ UpToDate(r)'
    <3>1. i \in DOMAIN metas \intersect alive /\ r = tasks[metas[i]] /\ (Recoloured' <=> Recoloured)
      BY <1>1, <2>1 DEF Recoloured
    <3>2. /\ r.at # "send" => WillDraw(msgs, items, i, r.icon)
          /\ r.at # "ended" => Coloured(r)
          /\ UpToDate(r)
      BY <3>1 DEF FreshInv
    <3>3. WillShow(msgs, items, i)
      BY <3>1 DEF QueueInv
    <3>4. r.at # "send" => WillDraw(msgs', items', i, r.icon)
      BY <1>1, <1>2, <1>6, <3>1, <3>2, <3>3, Reading
    <3>5. (Coloured(r) => Coloured(r)') /\ (UpToDate(r) => UpToDate(r)')
      BY <1>1, <3>1 DEF Coloured, UpToDate
    <3> QED BY <3>2, <3>4, <3>5
  <2> QED BY <2>1, FreshNext
<1> QED BY <1>3, <1>4, <1>5, <1>7

LEMMA AsksStep ==
  ASSUME TrayInv, UserRequests
  PROVE  TrayInv'
<1> USE DEF TrayInv
<1> DEFINE Request == [kind : {"menu", "call"}, item : Item]
<1>1. PICK b \in Branch : \E kind \in {"menu", "call"} : \E i \in Item : Asks(b, kind, i)
  <2>1. ASSUME NEW i \in DOMAIN items, Asks("activate", "menu", i) \/ Asks("activate", "call", i)
        PROVE  \E b \in Branch : \E kind \in {"menu", "call"} : \E j \in Item : Asks(b, kind, j)
    BY <2>1 DEF QueueInv, Branch
  <2>2. ASSUME menu # None, Asks("click", "call", menu)
        PROVE  \E b \in Branch : \E kind \in {"menu", "call"} : \E j \in Item : Asks(b, kind, j)
    BY <2>2 DEF GuiInv, Branch
  <2> QED BY <2>1, <2>2 DEF UserRequests
<1>2. PICK kind \in {"menu", "call"} : \E i \in Item : Asks(b, kind, i)
  BY <1>1
<1>3. PICK i \in Item : Asks(b, kind, i)
  BY <1>2
<1> DEFINE r == [kind |-> kind, item |-> i]
<1>4. /\ UNCHANGED <<alive, ver, missed, hostPhase, registered, ownersLost, events, toAdd>>
      /\ UNCHANGED <<fg, signalling, themeSigs, menu, items, watchWork, metas, tasks, msgs>>
      /\ reqs' = [reqs EXCEPT ![b] = Offer(reqs[b], ReqCap, r)]
  BY <1>3 DEF Asks, busVars, hostVars, loopVars, guiVars
<1>5. HostInv' /\ TaskInv' /\ QueueInv' /\ WorkInv' /\ FreshInv'
  BY <1>4, HostKept, TaskKept, QueueKept, WorkKept, FreshKept DEF Recoloured
<1>6. reqs[b] \in Seq(Request) /\ Len(reqs[b]) <= ReqCap /\ r \in Request
  BY DEF GuiInv
<1>7. Offer(reqs[b], ReqCap, r) \in Seq(Request) /\ Len(Offer(reqs[b], ReqCap, r)) <= ReqCap
  <2> HIDE DEF Request, r
  <2>1. /\ Append(reqs[b], r) \in Seq(Request) /\ Len(Append(reqs[b], r)) = Len(reqs[b]) + 1
        /\ Len(reqs[b]) \in Nat
    BY <1>6, AppendProperties, LenProperties
  <2>2. Len(reqs[b]) < ReqCap => Len(Append(reqs[b], r)) <= ReqCap
    BY <2>1, TrayAssumption
  <2> QED BY <1>6, <2>1, <2>2 DEF Offer
<1>8. GuiInv'
  <2> DEFINE q == Offer(reqs[b], ReqCap, r)
  <2>1. q \in Seq(Request) /\ Len(q) <= ReqCap /\ reqs' = [reqs EXCEPT ![b] = q]
    BY <1>4, <1>7
  <2> HIDE DEF q
  <2> QED BY <1>4, <2>1, RequestSet
<1> QED BY <1>5, <1>8

LEMMA PublishStep ==
  ASSUME TrayInv, NEW i \in Item, Publish(i)
  PROVE  TrayInv'
<1> USE DEF TrayInv
<1> DEFINE F(t) == IF tasks[t].item = i /\ Listening(t)
                   THEN [tasks[t] EXCEPT !.news = @ + 1] ELSE tasks[t]
<1>1. /\ UNCHANGED <<alive, hostPhase, registered, ownersLost, events, toAdd>>
      /\ UNCHANGED <<fg, signalling, themeSigs, menu, reqs, items, watchWork, metas, msgs>>
      /\ i \in alive
  BY DEF Publish, hostVars, guiVars
<1>2. /\ ver' = [ver EXCEPT ![i] = ver[i] + 1] /\ tasks' = [t \in DOMAIN tasks |-> F(t)]
      /\ missed' = IF Deaf(i) THEN missed \union {i} ELSE missed
  BY DEF Publish
<1>3. /\ ver' \in [Item -> Nat] /\ \A j \in Item : j # i => ver'[j] = ver[j]
  BY <1>2 DEF HostInv
<1>4. missed \subseteq missed' /\ (Deaf(i) => i \in missed')
  BY <1>2
<1>5. ASSUME NEW t \in DOMAIN tasks
      PROVE  /\ F(t) \in Task /\ F(t).item = tasks[t].item /\ F(t).at = tasks[t].at
             /\ F(t).icon = tasks[t].icon /\ F(t).fg = tasks[t].fg
             /\ F(t).refetch = tasks[t].refetch
             /\ tasks[t].item # i => F(t).news = tasks[t].news
             /\ tasks[t].item = i /\ Listening(t) => F(t).news > 0
  <2>1. tasks[t] \in Task /\ tasks[t].news \in Nat
    BY TaskKnown DEF Task
  <2>2. tasks[t].news + 1 \in Nat /\ tasks[t].news + 1 > 0
    BY <2>1
  <2> QED BY <2>1, <2>2 DEF Task
<1> HIDE DEF F
<1>6. TaskInv'
  <2> DEFINE s == [t \in DOMAIN tasks |-> F(t)]
  <2>1. s \in [DOMAIN tasks -> Task] /\ \A t \in DOMAIN tasks : s[t].item = tasks[t].item
    BY <1>5
  <2>2. tasks' = s
    BY <1>2
  <2> HIDE DEF s
  <2> QED BY <1>1, <2>1, <2>2, TasksMapped
<1>7. HostInv'
  BY <1>1, <1>3 DEF HostInv
<1>8. QueueInv' /\ GuiInv'
  BY <1>1, QueueKept, GuiKept
<1>9. WorkInv'
  <2>1. Recoloured' <=> Recoloured
    BY <1>1 DEF Recoloured
  <2>2. ASSUME watchWork # None, watchWork.item \in alive, watchWork.at = "send",
               watchWork.item \notin missed'
        PROVE  watchWork.icon[2] = ver'[watchWork.item]
    <3>1. watchWork.item # i
      BY <1>4, <2>2 DEF Deaf
    <3>2. watchWork.item \in Item
      BY <2>2 DEF WorkInv, Work
    <3> QED BY <1>3, <1>4, <2>2, <3>1, <3>2 DEF WorkInv
  <2> QED BY <1>1, <2>1, <2>2 DEF WorkInv
<1>10. FreshInv'
  <2>1. ASSUME NEW j \in DOMAIN metas' \intersect alive', NEW r, r = tasks'[metas'[j]]
        PROVE  /\ r.at # "send" => WillDraw(msgs', items', j, r.icon)
               /\ r.at # "ended" => Coloured(r)'
               /\ UpToDate(r)'
    <3>1. /\ j \in DOMAIN metas \intersect alive /\ metas[j] \in DOMAIN tasks
          /\ tasks[metas[j]].item = j /\ j \in Item
      BY <1>1 DEF TaskInv
    <3> DEFINE t == metas[j]
               old == tasks[t]
    <3>2. /\ old.at # "send" => WillDraw(msgs, items, j, old.icon)
          /\ old.at # "ended" => Coloured(old)
          /\ UpToDate(old)
      BY <3>1 DEF FreshInv
    <3>3. r = F(t) /\ t \in DOMAIN tasks /\ old.item = j
      BY <1>1, <1>2, <2>1, <3>1
    <3>4. /\ r.item = j /\ r.at = old.at /\ r.icon = old.icon /\ r.fg = old.fg
          /\ r.refetch = old.refetch
          /\ j # i => r.news = old.news
          /\ j = i /\ Listening(t) => r.news > 0
      BY <1>5, <3>3
    <3>5. Coloured(old) => Coloured(r)'
      <4> HIDE DEF t, old
      <4>1. Recoloured' <=> Recoloured
        BY <1>1 DEF Recoloured
      <4> QED BY <1>1, <2>1, <3>4, <4>1 DEF Coloured
    <3>6. UpToDate(r)'
      <4>1. CASE j # i
        <5> HIDE DEF t, old
        <5> QED BY <1>3, <1>4, <2>1, <3>1, <3>2, <3>3, <3>4, <4>1 DEF UpToDate
      <4>2. CASE j = i /\ Listening(t)
        BY <2>1, <3>4, <4>2 DEF UpToDate
      <4>3. CASE j = i /\ ~Listening(t)
        <5>1. i \in missed'
          BY <1>4, <3>1, <4>3 DEF Deaf
        <5> QED BY <2>1, <3>4, <4>3, <5>1 DEF UpToDate
      <4> QED BY <4>1, <4>2, <4>3
    <3> HIDE DEF t, old
    <3> QED BY <1>1, <3>2, <3>4, <3>5, <3>6
  <2> QED BY <2>1, FreshNext
<1> QED BY <1>6, <1>7, <1>8, <1>9, <1>10

LEMMA DiesStep ==
  ASSUME TrayInv, NEW i \in Item, Dies(i)
  PROVE  TrayInv'
<1> USE DEF TrayInv
<1>1. /\ UNCHANGED <<ver, missed, hostPhase, registered, events, toAdd>>
      /\ UNCHANGED <<fg, signalling, themeSigs, menu, reqs, items, watchWork, metas, tasks, msgs>>
      /\ i \in alive /\ alive' = alive \ {i}
      /\ ownersLost' \in {ownersLost, Append(ownersLost, i)}
  BY DEF Dies, loopVars, guiVars
<1>2. TaskInv' /\ QueueInv' /\ GuiInv' /\ WorkInv' /\ FreshInv'
  BY <1>1, TaskKept, QueueKept, GuiKept, WorkKept, FreshKept DEF Recoloured
<1>3. ownersLost' \in Seq(Item) /\ \A n \in DOMAIN ownersLost' : ownersLost'[n] \notin alive'
  <2>1. CASE ownersLost' = ownersLost
    BY <1>1, <2>1 DEF HostInv
  <2>2. CASE ownersLost' = Append(ownersLost, i)
    <3>1. ownersLost \in Seq(Item) /\ DOMAIN ownersLost = 1..Len(ownersLost) /\ Len(ownersLost) \in Nat
      BY LenProperties DEF HostInv
    <3>2. /\ ownersLost' \in Seq(Item) /\ Len(ownersLost') = Len(ownersLost) + 1
          /\ \A n \in 1..Len(ownersLost) : ownersLost'[n] = ownersLost[n]
          /\ ownersLost'[Len(ownersLost) + 1] = i
      BY <2>2, <3>1, AppendProperties
    <3>3. DOMAIN ownersLost' = 1..(Len(ownersLost) + 1)
      BY <3>2, LenProperties
    <3>4. \A n \in 1..(Len(ownersLost) + 1) : n \in 1..Len(ownersLost) \/ n = Len(ownersLost) + 1
      BY <3>1
    <3> QED BY <1>1, <3>1, <3>2, <3>3, <3>4 DEF HostInv
  <2> QED BY <1>1, <2>1, <2>2
<1>4. HostInv'
  BY <1>1, <1>3 DEF HostInv
<1> QED BY <1>2, <1>4

-----------------------------------------------------------------------------
LEMMA TrayKeeps == TrayInv /\ SessionInv /\ [TrayNext]_trayVars => (TrayInv /\ SessionInv)'
<1> SUFFICES ASSUME TrayInv, SessionInv, [TrayNext]_trayVars
             PROVE  TrayInv' /\ SessionInv'
  OBVIOUS
<1>1. CASE TrayNext
  <2>1. ASSUME Connect \/ SessionFails \/ Boot PROVE TrayInv'
    BY <2>1, SetUpSteps
  <2>2. ASSUME NextInitial PROVE TrayInv'
    BY <2>2, InitialStep
  <2>3. ASSUME SubscribeCleanup \/ Unrelated PROVE TrayInv'
    BY <2>3, RoundSteps
  <2>4. ASSUME OwnerLost PROVE TrayInv'
    BY <2>4, OwnerStep
  <2>5. ASSUME TakeEvent PROVE TrayInv'
    BY <2>5, EventStep
  <2>6. ASSUME ProxyBuilt \/ AddFails \/ PropsFetched PROVE TrayInv'
    BY <2>6, BuiltStep, FailsStep, FetchedStep
  <2>7. ASSUME AddSent PROVE TrayInv'
    BY <2>7, AddStep
  <2>8. ASSUME RemoveSent PROVE TrayInv'
    BY <2>8, RemoveStep
  <2>9. ASSUME ThemeBranch PROVE TrayInv'
    BY <2>9, ThemeStep
  <2>10. ASSUME MenuSent PROVE TrayInv'
    BY <2>10, MenuStep DEF SessionInv
  <2>11. ASSUME ThemeWritten \/ ThemeSignalled PROVE TrayInv'
    BY <2>11, RecolourSteps
  <2>12. ASSUME GuiReceives PROVE TrayInv'
    BY <2>12, ReceivesStep
  <2>13. ASSUME UserRequests PROVE TrayInv'
    BY <2>13, AsksStep
  <2>14. ASSUME NEW b \in Branch, TakeRequest(b) \/ RequestAnswered(b) PROVE TrayInv'
    BY <2>14, RequestSteps
  <2>15. ASSUME NEW t \in DOMAIN tasks, TaskSubscribes(t) PROVE TrayInv'
    BY <2>15, SubscribesStep
  <2>16. ASSUME NEW t \in DOMAIN tasks, TaskTriggered(t) PROVE TrayInv'
    BY <2>16, TriggeredStep
  <2>17. ASSUME NEW t \in DOMAIN tasks, TaskFetches(t) PROVE TrayInv'
    BY <2>17, FetchesStep
  <2>18. ASSUME NEW t \in DOMAIN tasks, TaskSends(t) PROVE TrayInv'
    BY <2>18, SendsStep
  <2>19. ASSUME NEW i \in Item, RegisterItem(i) \/ Publish(i) \/ Dies(i) PROVE TrayInv'
    BY <2>19, RegisterStep, PublishStep, DiesStep
  <2>20. TrayInv'
    BY <1>1, <2>1, <2>2, <2>3, <2>4, <2>5, <2>6, <2>7, <2>8, <2>9, <2>10, <2>11, <2>12, <2>13,
       <2>14, <2>15, <2>16, <2>17, <2>18, <2>19 DEF TrayNext, TrayReacts, TrayHappens, TaskStep
  <2> QED BY <1>1, <2>20, RequestsTyped, HollowTyped DEF SessionInv
<1>2. CASE UNCHANGED trayVars
  <2>1. /\ UNCHANGED <<alive, ver, missed, hostPhase, registered, ownersLost, events, toAdd>>
        /\ UNCHANGED <<fg, signalling, themeSigs, menu, reqs, items, watchWork, metas, tasks, msgs>>
        /\ UNCHANGED <<reqWork, hollow>>
    BY <1>2 DEF trayVars, busVars, hostVars, loopVars, guiVars
  <2>2. HostInv' /\ TaskInv' /\ QueueInv' /\ GuiInv' /\ WorkInv' /\ FreshInv'
    BY <2>1, HostKept, TaskKept, QueueKept, GuiKept, WorkKept, FreshKept DEF Recoloured, TrayInv
  <2> QED BY <2>1, <2>2 DEF TrayInv, SessionInv, RequestInv
<1> QED BY <1>1, <1>2

LEMMA TrayInvSays == TrayInv /\ SessionInv => TrayType /\ MetasShown /\ IconFresh
<1> SUFFICES ASSUME TrayInv, SessionInv PROVE TrayType /\ MetasShown /\ IconFresh
  OBVIOUS
<1> USE DEF TrayInv
<1>1. TrayType
  <2>1. signalling \in BOOLEAN
    BY DEF GuiInv
  <2> QED BY <2>1 DEF TrayType, SessionInv, HostInv, WorkInv, TaskInv, QueueInv, GuiInv
<1>2. MetasShown
  <2>1. ASSUME NEW i \in DOMAIN metas, NEW last, last = Places(msgs, i, {"add", "remove"})
        PROVE  \/ last = {} /\ i \in DOMAIN items
               \/ \E n \in last : msgs[n].kind = "add" /\ \A m \in last : m <= n
    BY <2>1 DEF QueueInv, WillShow, Last
  <2> QED BY <2>1 DEF MetasShown, Places
<1>3. IconFresh
  <2> SUFFICES ASSUME TrayQuiet, NEW i \in DOMAIN metas, i \in alive, tasks[metas[i]].at = "wait"
               PROVE  items[i][1] = fg /\ (i \notin missed => items[i][2] = ver[i])
    BY DEF IconFresh
  <2> DEFINE r == tasks[metas[i]]
  <2>1. metas[i] \in DOMAIN tasks /\ r.item = i
    BY DEF TaskInv
  <2>2. r.news = 0 /\ r.refetch = 0 /\ msgs = <<>> /\ ~Recoloured /\ r.at = "wait"
    BY <2>1 DEF TrayQuiet, Recoloured
  <2>3. WillDraw(msgs, items, i, r.icon) /\ Coloured(r) /\ UpToDate(r)
    BY <2>2 DEF FreshInv
  <2> HIDE DEF r
  <2>4. items[i] = r.icon
    BY <2>2, <2>3 DEF WillDraw
  <2> QED BY <2>1, <2>2, <2>3, <2>4 DEF Coloured, UpToDate
<1> QED BY <1>1, <1>2, <1>3

(* Every variable keeps its type, and the queues their capacities.         *)
THEOREM TrayTyped == TraySpec => []TrayType
<1>1. TrayInit => TrayInv /\ SessionInv
  BY TrayStarts DEF TrayInit, SessionInv, RequestInv, Idle
<1> QED BY <1>1, TrayKeeps, TrayInvSays, PTL DEF TraySpec

(* An item whose tasks the session runs is shown by the module, or will be *)
(* once its messages are read: add_item sends before it keeps the item and *)
(* the Remove is queued behind every Add (tray.rs:818-839), also when other *)
(* items are given up on (tray.rs:966-981).                                *)
THEOREM MetasAlwaysShown == TraySpec => []MetasShown
<1>1. TrayInit => TrayInv /\ SessionInv
  BY TrayStarts DEF TrayInit, SessionInv, RequestInv, Idle
<1> QED BY <1>1, TrayKeeps, TrayInvSays, PTL DEF TraySpec

(* At rest every icon is drawn in the theme's colour and as published: the *)
(* foreground is read anew for every fetch and a theme signal, a refetch or *)
(* a fetch is under way for every task that drew an older one (tray.rs:1019).*)
THEOREM IconsFresh == TraySpec => []IconFresh
<1>1. TrayInit => TrayInv /\ SessionInv
  BY TrayStarts DEF TrayInit, SessionInv, RequestInv, Idle
<1> QED BY <1>1, TrayKeeps, TrayInvSays, PTL DEF TraySpec

-----------------------------------------------------------------------------
(* The popups.  Both clauses of PopupsSound hold by themselves once the    *)
(* types are known: a popup opens only in a step that tells all the others.*)
PopupsInv == PopupsType /\ PopupsSound

LEMMA PopupsInitial == PopupsInit => PopupsInv
<1> SUFFICES ASSUME PopupsInit PROVE PopupsInv
  OBVIOUS
<1>1. /\ popup \in [Kind -> MenuItem \union {NotOpen, "settings", "network", "panel"}]
      /\ window \in [Kind -> BOOLEAN] /\ catchers \in [Kind -> SUBSET Output]
  BY DEF PopupsInit
<1>2. lost \in BOOLEAN
  BY DEF PopupsInit
<1>5. relay \in [Kind -> 0..RelayCap]
  <2>1. relay = [k \in Kind |-> 0] /\ 0 \in 0..RelayCap
    BY PopupCaps DEF PopupsInit
  <2> QED BY <2>1
<1>3. tmsgs \in Seq(MenuItem \union {"close"}) /\ Len(tmsgs) <= TrayCap
  BY PopupCaps DEF PopupsInit
<1>4. PopupsExclusive /\ PopupsTracked
  BY DEF PopupsInit, PopupsExclusive, PopupsTracked
<1> QED BY <1>1, <1>2, <1>3, <1>4, <1>5 DEF PopupsInv, PopupsType, PopupsSound

(* A popup that closes takes its windows along.                            *)
LEMMA Shuts ==
  ASSUME PopupsInv, NEW k \in Kind, Shut(k)
  PROVE  /\ popup' \in [Kind -> MenuItem \union {NotOpen, "settings", "network", "panel"}]
         /\ window' \in [Kind -> BOOLEAN] /\ catchers' \in [Kind -> SUBSET Output]
         /\ PopupsTracked'
         /\ popup'[k] = NotOpen /\ \A j \in Kind \ {k} : popup'[j] = popup[j]
BY DEF PopupsInv, PopupsType, PopupsSound, PopupsTracked, Shut

LEMMA Opens ==
  ASSUME PopupsInv, NEW k \in Kind, NEW what \in MenuItem \union {"settings", "network", "panel"},
         OpenPopup(k, what)
  PROVE  /\ popup' \in [Kind -> MenuItem \union {NotOpen, "settings", "network", "panel"}]
         /\ window' \in [Kind -> BOOLEAN] /\ catchers' \in [Kind -> SUBSET Output]
         /\ PopupsTracked'
         /\ \A j \in Kind \ {k} : popup'[j] = popup[j]
<1>1. CASE Shut(k)
  BY <1>1, Shuts
<1>2. ASSUME NEW S \in SUBSET Output,
             popup' = [popup EXCEPT ![k] = what], window' = [window EXCEPT ![k] = TRUE],
             catchers' = [catchers EXCEPT ![k] = S]
      PROVE  /\ popup' \in [Kind -> MenuItem \union {NotOpen, "settings", "network", "panel"}]
             /\ window' \in [Kind -> BOOLEAN] /\ catchers' \in [Kind -> SUBSET Output]
             /\ PopupsTracked'
             /\ \A j \in Kind \ {k} : popup'[j] = popup[j]
  <2>1. what # NotOpen
    BY PopupCaps
  <2> QED BY <1>2, <2>1 DEF PopupsInv, PopupsType, PopupsSound, PopupsTracked
<1> QED BY <1>1, <1>2 DEF OpenPopup

LEMMA Signals ==
  ASSUME PopupsInv, NEW S \in SUBSET Kind, relay' = Signal(S)
  PROVE  /\ relay' \in [Kind -> 0..RelayCap]
         /\ \A k \in Kind : relay'[k] >= relay[k] /\ (k \in S => relay'[k] > 0)
BY PopupCaps DEF PopupsInv, PopupsType, Signal

(* Nothing that was to close is forgotten while signals are only added.    *)
LEMMA StillToClose ==
  ASSUME PopupsInv, NEW k \in Kind, relay'[k] >= relay[k], relay'[k] \in Nat,
         ToClose(k), tmsgs' = tmsgs \/ \E m : tmsgs' = Append(tmsgs, m)
  PROVE  ToClose(k)'
<1>1. tmsgs \in Seq(MenuItem \union {"close"}) /\ relay[k] \in Nat
  BY PopupCaps DEF PopupsInv, PopupsType
<1>2. \A n \in DOMAIN tmsgs : n \in DOMAIN tmsgs' /\ tmsgs'[n] = tmsgs[n]
  <2>1. CASE tmsgs' = tmsgs
    BY <2>1
  <2>2. ASSUME NEW m, tmsgs' = Append(tmsgs, m)
        PROVE  \A n \in DOMAIN tmsgs : n \in DOMAIN tmsgs' /\ tmsgs'[n] = tmsgs[n]
    BY <1>1, <2>2
  <2> QED BY <2>1, <2>2
<1> QED BY <1>1, <1>2 DEF ToClose

LEMMA ClosesTray ==
  ASSUME PopupsInv, TryCloseMenu
  PROVE  /\ tmsgs' \in Seq(MenuItem \union {"close"}) /\ Len(tmsgs') <= TrayCap
         /\ tmsgs' = tmsgs \/ tmsgs' = Append(tmsgs, "close")
         /\ Len(tmsgs) = TrayCap \/ \E n \in DOMAIN tmsgs' : tmsgs'[n] = "close"
<1>1. tmsgs \in Seq(MenuItem \union {"close"}) /\ Len(tmsgs) <= TrayCap /\ Len(tmsgs) \in Nat
  BY DEF PopupsInv, PopupsType
<1>2. CASE Len(tmsgs) < TrayCap
  <2>1. tmsgs' = Append(tmsgs, "close")
    BY <1>2 DEF TryCloseMenu
  <2>2. Len(tmsgs') = Len(tmsgs) + 1 /\ tmsgs'[Len(tmsgs) + 1] = "close"
        /\ DOMAIN tmsgs' = 1..(Len(tmsgs) + 1) /\ tmsgs' \in Seq(MenuItem \union {"close"})
    BY <1>1, <2>1
  <2> QED BY <1>1, <1>2, <2>1, <2>2, PopupCaps
<1>3. CASE ~(Len(tmsgs) < TrayCap)
  BY <1>1, <1>3, PopupCaps DEF TryCloseMenu
<1> QED BY <1>2, <1>3

(* Opening k tells all the others: of any two, one is not k.               *)
LEMMA OpeningExcludes ==
  ASSUME PopupsInv, NEW k \in Kind, DismissOthers(k)
  PROVE  PopupsExclusive'
<1>1. \A j \in Kind \ {k} : relay'[j] > 0
  BY Signals DEF DismissOthers
<1>2. \A j \in Kind \ {k} : ToClose(j)'
  BY <1>1 DEF ToClose
<1> QED BY <1>2 DEF PopupsExclusive

(* A step that opens nothing keeps them apart if it forgets nothing.       *)
LEMMA ClosingExcludes ==
  ASSUME PopupsInv,
         \A j \in Kind : popup'[j] # NotOpen =>
           popup[j] # NotOpen /\ (ToClose(j) => ToClose(j)' \/ (lost' /\ j = "tray")),
         lost => lost'
  PROVE  PopupsExclusive'
BY DEF PopupsExclusive, PopupsInv, PopupsSound

LEMMA PopupsStep == PopupsInv /\ [PopupsNext]_popupVars => PopupsInv'
<1> SUFFICES ASSUME PopupsInv, [PopupsNext]_popupVars PROVE PopupsInv'
  OBVIOUS
<1> USE DEF PopupsInv
<1>0. /\ popup \in [Kind -> MenuItem \union {NotOpen, "settings", "network", "panel"}]
      /\ window \in [Kind -> BOOLEAN] /\ catchers \in [Kind -> SUBSET Output]
      /\ relay \in [Kind -> 0..RelayCap] /\ lost \in BOOLEAN
      /\ tmsgs \in Seq(MenuItem \union {"close"}) /\ Len(tmsgs) <= TrayCap
      /\ PopupsTracked /\ "tray" \in Kind
      /\ \A k \in Kind : relay[k] \in Nat
  BY PopupCaps DEF PopupsType, PopupsSound, Kind
<1>1. CASE UNCHANGED popupVars
  BY <1>1 DEF popupVars, PopupsType, PopupsSound, PopupsExclusive, PopupsTracked, ToClose
<1>2. ASSUME NEW k \in Kind, NEW what \in MenuItem \union {"settings", "network", "panel"},
             DismissOthers(k), OpenPopup(k, what), UNCHANGED lost,
             tmsgs' \in Seq(MenuItem \union {"close"}) /\ Len(tmsgs') <= TrayCap
      PROVE  PopupsInv'
  <2>1. relay' \in [Kind -> 0..RelayCap]
    BY <1>2, Signals DEF DismissOthers
  <2> QED BY <1>0, <1>2, <2>1, Opens, OpeningExcludes DEF PopupsType, PopupsSound
<1>3. ASSUME NEW k \in Kind, Shut(k), lost => lost', lost' \in BOOLEAN,
             relay' \in [Kind -> 0..RelayCap],
             tmsgs' \in Seq(MenuItem \union {"close"}) /\ Len(tmsgs') <= TrayCap,
             \A j \in Kind \ {k} : ToClose(j) => ToClose(j)'
      PROVE  PopupsInv'
  BY <1>0, <1>3, Shuts, ClosingExcludes DEF PopupsType, PopupsSound
<1>4. ASSUME NEW k \in Kind, Toggle(k) PROVE PopupsInv'
  <2>1. CASE popup[k] # NotOpen
    BY <1>0, <1>3, <1>4, <2>1 DEF Toggle, ToClose
  <2>2. CASE popup[k] = NotOpen
    BY <1>0, <1>2, <1>4, <2>2 DEF Toggle
  <2> QED BY <2>1, <2>2
<1>5. ASSUME UNCHANGED popup, window' \in [Kind -> BOOLEAN], catchers' \in [Kind -> SUBSET Output],
             \A k \in Kind : window'[k] => window[k],
             \A k \in Kind : catchers'[k] \subseteq catchers[k],
             relay' \in [Kind -> 0..RelayCap], lost' \in BOOLEAN, lost => lost',
             tmsgs' \in Seq(MenuItem \union {"close"}) /\ Len(tmsgs') <= TrayCap,
             \A k \in Kind : ToClose(k) => ToClose(k)' \/ (lost' /\ k = "tray")
      PROVE  PopupsInv'
  <2>1. PopupsExclusive'
    BY <1>5, ClosingExcludes
  <2>2. PopupsTracked'
    BY <1>0, <1>5 DEF PopupsTracked
  <2> QED BY <1>0, <1>5, <2>1, <2>2 DEF PopupsType, PopupsSound
<1>6. \A m \in MenuItem \union {"close"} : Len(tmsgs) < TrayCap =>
        Append(tmsgs, m) \in Seq(MenuItem \union {"close"}) /\ Len(Append(tmsgs, m)) <= TrayCap
  BY <1>0, PopupCaps
<1>7. ASSUME NEW k \in Kind, Escape(k) PROVE PopupsInv'
  <2>1. tmsgs' = tmsgs \/ TryCloseMenu
    BY <1>7 DEF Escape
  <2>2. tmsgs' \in Seq(MenuItem \union {"close"}) /\ Len(tmsgs') <= TrayCap
        /\ (tmsgs' = tmsgs \/ \E m : tmsgs' = Append(tmsgs, m))
    BY <1>0, <2>1, ClosesTray
  <2>3. UNCHANGED <<popup, catchers, relay, lost>> /\ window' = [window EXCEPT ![k] = FALSE]
    BY <1>7 DEF Escape, RemoveWindow
  <2>4. \A j \in Kind : ToClose(j) => ToClose(j)'
    BY <1>0, <2>2, <2>3, StillToClose
  <2> QED BY <1>0, <1>5, <2>2, <2>3, <2>4
<1>8. ASSUME NEW k \in Kind, Choose(k) PROVE PopupsInv'
  <2>1. UNCHANGED <<popup, catchers, relay, tmsgs, lost>> /\ window' = [window EXCEPT ![k] = FALSE]
    BY <1>8 DEF Choose, RemoveWindow
  <2>2. \A j \in Kind : ToClose(j) => ToClose(j)'
    BY <2>1 DEF ToClose
  <2> QED BY <1>0, <1>5, <2>1, <2>2
<1>9. ASSUME NEW k \in Kind, NEW d \in Output, CatcherClicked(k, d) PROVE PopupsInv'
  <2>1. UNCHANGED <<popup, window, lost>> /\ catchers' = [catchers EXCEPT ![k] = @ \ {d}]
    BY <1>9 DEF CatcherClicked
  <2>2. /\ tmsgs' \in Seq(MenuItem \union {"close"}) /\ Len(tmsgs') <= TrayCap
        /\ tmsgs' = tmsgs \/ \E m : tmsgs' = Append(tmsgs, m)
    BY <1>0, <1>9, ClosesTray DEF CatcherClicked
  <2>3. relay' \in [Kind -> 0..RelayCap] /\ \A j \in Kind : relay'[j] >= relay[j]
    BY <1>0, <1>9, Signals DEF CatcherClicked
  <2>4. \A j \in Kind : ToClose(j) => ToClose(j)'
    BY <1>0, <2>2, <2>3, PopupCaps, StillToClose
  <2> QED BY <1>0, <1>5, <2>1, <2>2, <2>3, <2>4
<1>10. CASE HoverIn
  <2>1. "network" \in Kind
    BY DEF Kind
  <2> QED BY <1>0, <1>2, <1>10, <2>1 DEF HoverIn
<1>11. CASE HoverOut
  <2>1. "network" \in Kind
    BY DEF Kind
  <2>2. \A j \in Kind : ToClose(j) => ToClose(j)'
    BY <1>11 DEF HoverOut, ToClose
  <2> QED BY <1>0, <1>3, <1>11, <2>1, <2>2 DEF HoverOut
<1>12. ASSUME tmsgs' = tmsgs \/ \E m : tmsgs' = Append(tmsgs, m),
              tmsgs' \in Seq(MenuItem \union {"close"}) /\ Len(tmsgs') <= TrayCap,
              UNCHANGED <<popup, window, catchers, relay, lost>>
       PROVE  PopupsInv'
  <2>1. \A j \in Kind : ToClose(j) => ToClose(j)'
    BY <1>0, <1>12, StillToClose
  <2> QED BY <1>0, <1>5, <1>12, <2>1
<1>13. CASE TrayLeftClick
  BY <1>12, <1>13, ClosesTray DEF TrayLeftClick
<1>14. ASSUME NEW i \in MenuItem, MenuReady(i) PROVE PopupsInv'
  BY <1>6, <1>12, <1>14 DEF MenuReady
<1>15. CASE TrayReceives
  <2>1. tmsgs # <<>> /\ tmsgs' = Tail(tmsgs) /\ UNCHANGED lost
    BY <1>15 DEF TrayReceives
  <2>2. Head(tmsgs) \in MenuItem \union {"close"}
        /\ tmsgs' \in Seq(MenuItem \union {"close"}) /\ Len(tmsgs') <= TrayCap
    BY <1>0, <2>1, PopupCaps
  <2>3. CASE Shut("tray") /\ UNCHANGED relay
    <3>1. \A j \in Kind \ {"tray"} : ToClose(j) => ToClose(j)'
      BY <2>3 DEF ToClose
    <3> QED BY <1>0, <1>3, <2>1, <2>2, <2>3, <3>1
  <2>4. CASE Head(tmsgs) # "close" /\ DismissOthers("tray") /\ OpenPopup("tray", Head(tmsgs))
    BY <1>0, <1>2, <2>1, <2>2, <2>4
  <2> QED BY <1>15, <2>3, <2>4 DEF TrayReceives
<1>16. ASSUME NEW k \in Kind, RelayRuns(k) PROVE PopupsInv'
  <2>1. relay[k] > 0 /\ relay' = [relay EXCEPT ![k] = @ - 1]
    BY <1>16 DEF RelayRuns
  <2>2. relay' \in [Kind -> 0..RelayCap] /\ \A j \in Kind \ {k} : relay'[j] = relay[j]
    BY <1>0, <2>1, PopupCaps
  <2>3. CASE k = "tray"
    <3>1. TryCloseMenu /\ UNCHANGED <<popup, window, catchers>>
      BY <1>16, <2>3 DEF RelayRuns
    <3>2. lost' = (lost \/ Len(tmsgs) = TrayCap)
      BY <1>16, <2>3 DEF RelayRuns
    <3>3. /\ tmsgs' \in Seq(MenuItem \union {"close"}) /\ Len(tmsgs') <= TrayCap
          /\ Len(tmsgs) = TrayCap \/ \E n \in DOMAIN tmsgs' : tmsgs'[n] = "close"
      BY <3>1, ClosesTray
    <3>4. ToClose("tray")' \/ lost'
      BY <3>2, <3>3 DEF ToClose
    <3>5. \A j \in Kind \ {"tray"} : ToClose(j) => ToClose(j)'
      BY <2>2, <2>3 DEF ToClose
    <3> QED BY <1>0, <1>5, <2>2, <3>1, <3>2, <3>3, <3>4, <3>5
  <2>4. CASE k # "tray"
    <3>1. Shut(k) /\ UNCHANGED <<tmsgs, lost>>
      BY <1>16, <2>4 DEF RelayRuns
    <3>2. \A j \in Kind \ {k} : ToClose(j) => ToClose(j)'
      BY <2>2, <3>1 DEF ToClose
    <3> QED BY <1>0, <1>3, <2>2, <3>1, <3>2
  <2> QED BY <2>3, <2>4
<1> QED BY <1>1, <1>4, <1>7, <1>8, <1>9, <1>10, <1>11, <1>13, <1>14, <1>15, <1>16
        DEF PopupsNext, PopupsUser, PopupsReact

(* PopupsSound for any menus, displays and capacities: of two popups that  *)
(* are open one has been told to close, and no window is left behind.      *)
THEOREM PopupsStaySound == PopupsSpec => []PopupsSound
<1>1. PopupsInv => PopupsSound
  BY DEF PopupsInv
<1> QED BY <1>1, PopupsInitial, PopupsStep, PTL DEF PopupsSpec

-----------------------------------------------------------------------------
(* The two side by side: each step is a step of one and keeps the other.   *)
LEMMA MCTraySteps ==
  ASSUME [MCNext]_barVars
  PROVE  [TrayNext]_trayVars /\ [PopupsNext]_popupVars
<1>1. CASE UNCHANGED barVars
  BY <1>1 DEF barVars
<1>2. CASE TraySpends /\ UNCHANGED popupVars
  <2>1. TraySpends => TrayReacts \/ TrayHappens
    BY DEF TraySpends, TrayHappens
  <2> QED BY <1>2, <2>1 DEF TrayNext
<1>3. CASE PopupsNext /\ UNCHANGED trayVars
  BY <1>3
<1> QED BY <1>1, <1>2, <1>3 DEF MCNext

LEMMA MCTrayParts == MCSpec => TraySpec /\ PopupsSpec
<1>1. MCInit => TrayInit /\ PopupsInit
  BY DEF MCInit
<1>2. [MCNext]_barVars => [TrayNext]_trayVars /\ [PopupsNext]_popupVars
  BY MCTraySteps
<1> QED BY <1>1, <1>2, PTL DEF MCSpec, TraySpec, PopupsSpec

(* TypeOK for any applications, capacities and bounds of what happens: what *)
(* the tray's host, its tasks, its channels and the popups hold is always  *)
(* of the kinds the code gives them.                                       *)
THEOREM TrayAndPopupsTyped == MCSpec => []TypeOK
<1>1. PopupsSpec => []PopupsType
  <2>1. PopupsInv => PopupsType
    BY DEF PopupsInv
  <2> QED BY <2>1, PopupsInitial, PopupsStep, PTL DEF PopupsSpec
<1>2. TrayType /\ PopupsType => TypeOK
  BY DEF TypeOK
<1> QED BY <1>1, <1>2, MCTrayParts, TrayTyped, PTL
=============================================================================
