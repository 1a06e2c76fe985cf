-------------------------- MODULE Workspaces_proofs --------------------------
(***************************************************************************)
(* The workspaces module and its two backends: for any bars, workspaces,   *)
(* outputs, channel capacities and bounds, a bar that is caught up shows   *)
(* what its backend has (SwayFollows and BarsAgree), and the mirror of     *)
(* ext-workspace is what the compositor has (MirrorsCompositor, KeysFresh). *)
(***************************************************************************)
EXTENDS SwayBackend, ExtWorkspace, FiniteSetTheorems, SequenceTheorems, WellFoundedInduction, TLAPS

-----------------------------------------------------------------------------
(* Induction up to n, with the numbers it has reached as a set.            *)

Less == {p \in Nat \X Nat : p[1] < p[2]}

LEMMA Climb ==
  ASSUME NEW n \in Nat, NEW T, 0 \in T, \A k \in 0..n : k \in T /\ k < n => k + 1 \in T
  PROVE  0..n \subseteq T
<1> DEFINE Out == {k \in 0..n : k \notin T}
<1> SUFFICES ASSUME Out # {} PROVE FALSE
  OBVIOUS
<1>1. IsWellFoundedOn(Less, Nat)
  BY NatLessThanWellFounded DEF OpToRel, Less
<1>2. Out \subseteq Nat
  OBVIOUS
<1>3. PICK k \in Out : \A j \in Out : ~(<<j, k>> \in Less)
  <2> HIDE DEF Out
  <2> QED BY <1>1, <1>2, WFMin
<1>4. k \in 0..n /\ k # 0
  OBVIOUS
<1>5. k - 1 \in 0..n /\ k - 1 < n /\ (k - 1) + 1 = k
  BY <1>4
<1>6. k - 1 \notin Out
  <2>1. <<k - 1, k>> \in Nat \X Nat /\ <<k - 1, k>>[1] < <<k - 1, k>>[2]
    BY <1>4
  <2>2. <<k - 1, k>> \in Less
    BY <2>1 DEF Less
  <2> QED BY <1>3, <2>2
<1> QED BY <1>4, <1>5, <1>6

-----------------------------------------------------------------------------
(* After: f[k] is what the bar shows after the first k events of q.        *)

Trace(f, s, q) == f[0] = s /\ \A k \in 1..Len(q) : f[k] = Applied(f[k - 1], q[k])

LEMMA TraceExists ==
  ASSUME NEW s, NEW q, Len(q) \in Nat
  PROVE  \E f : f = [k \in 0..Len(q) |-> IF k = 0 THEN s ELSE Applied(f[k - 1], q[k])]
<1> DEFINE Upto(f, n) == f = [k \in 0..n |-> IF k = 0 THEN s ELSE Applied(f[k - 1], q[k])]
           T == {n \in 0..Len(q) : \E f : Upto(f, n)}
<1>1. 0 \in T
  <2>1. [k \in {0} |-> s] = [k \in 0..0 |-> IF k = 0 THEN s ELSE Applied([j \in {0} |-> s][k - 1], q[k])]
    OBVIOUS
  <2>2. Upto([k \in {0} |-> s], 0)
    BY <2>1
  <2> HIDE DEF Upto
  <2>3. \E f : Upto(f, 0)
    BY <2>2
  <2> QED BY <2>3
<1>2. ASSUME NEW n \in 0..Len(q), n \in T, n < Len(q) PROVE n + 1 \in T
  <2>1. PICK f : Upto(f, n)
    BY <1>2
  <2> DEFINE g == [k \in 0..(n + 1) |-> IF k \in 0..n THEN f[k] ELSE Applied(f[n], q[n + 1])]
  <2>2. ASSUME NEW k \in 0..(n + 1)
        PROVE  g[k] = IF k = 0 THEN s ELSE Applied(g[k - 1], q[k])
    <3>1. CASE k = n + 1
      <4>1. g[k] = Applied(f[n], q[n + 1]) /\ g[k - 1] = f[n] /\ k # 0
        BY <3>1
      <4> QED BY <3>1, <4>1
    <3>2. CASE k \in 0..n
      <4>1. g[k] = f[k] /\ (k # 0 => k - 1 \in 0..n /\ g[k - 1] = f[k - 1])
        BY <3>2
      <4>2. f[k] = IF k = 0 THEN s ELSE Applied(f[k - 1], q[k])
        BY <2>1, <3>2
      <4> QED BY <4>1, <4>2
    <3> QED BY <3>1, <3>2
  <2>3. g = [k \in 0..(n + 1) |-> g[k]]
    OBVIOUS
  <2> HIDE DEF g
  <2>4. Upto(g, n + 1)
    BY <2>2, <2>3
  <2> QED BY <1>2, <2>4
<1>3. Len(q) \in T
  <2> HIDE DEF T
  <2>1. 0..Len(q) \subseteq T
    BY <1>1, <1>2, Climb
  <2> QED BY <2>1
<1> QED BY <1>3

LEMMA TraceUnique ==
  ASSUME NEW s, NEW q, Len(q) \in Nat, NEW f, Trace(f, s, q), NEW g, Trace(g, s, q)
  PROVE  f[Len(q)] = g[Len(q)]
<1> DEFINE T == {k \in 0..Len(q) : f[k] = g[k]}
<1>1. 0 \in T
  BY DEF Trace
<1>2. ASSUME NEW k \in 0..Len(q), k \in T, k < Len(q) PROVE k + 1 \in T
  <2>1. k + 1 \in 1..Len(q) /\ (k + 1) - 1 = k
    BY <1>2
  <2> QED BY <1>2, <2>1 DEF Trace
<1>3. 0..Len(q) \subseteq T
  <2> HIDE DEF T
  <2> QED BY <1>1, <1>2, Climb
<1> QED BY <1>3

LEMMA AfterIs ==
  ASSUME NEW s, NEW q, Len(q) \in Nat
  PROVE  /\ \E f : Trace(f, s, q)
         /\ \A f : Trace(f, s, q) => After(s, q) = f[Len(q)]
<1> DEFINE p == CHOOSE f : f = [k \in 0..Len(q) |-> IF k = 0 THEN s ELSE Applied(f[k - 1], q[k])]
<1>1. p = [k \in 0..Len(q) |-> IF k = 0 THEN s ELSE Applied(p[k - 1], q[k])]
  BY TraceExists
<1>2. After(s, q) = p[Len(q)]
  BY DEF After
<1> HIDE DEF p
<1>3. Trace(p, s, q)
  BY <1>1 DEF Trace
<1> QED BY <1>2, <1>3, TraceUnique

(* An event sent is applied last, and reading the first changes nothing.   *)
LEMMA AfterSteps ==
  ASSUME NEW S, NEW q \in Seq(S), NEW s
  PROVE  /\ q = <<>> => After(s, q) = s
         /\ \A e \in S : After(s, Append(q, e)) = Applied(After(s, q), e)
         /\ q # <<>> => After(Applied(s, Head(q)), Tail(q)) = After(s, q)
<1>1. Len(q) \in Nat /\ DOMAIN q = 1..Len(q)
  BY LenProperties
<1>2. PICK f : Trace(f, s, q) /\ After(s, q) = f[Len(q)]
  BY <1>1, AfterIs
<1>3. q = <<>> => After(s, q) = s
  BY <1>1, <1>2, EmptySeq DEF Trace
<1>4. ASSUME NEW e \in S PROVE After(s, Append(q, e)) = Applied(After(s, q), e)
  <2> DEFINE r == Append(q, e)
             g == [k \in 0..Len(r) |-> IF k \in 0..Len(q) THEN f[k] ELSE Applied(f[Len(q)], e)]
  <2>1. Len(r) = Len(q) + 1 /\ (\A k \in 1..Len(q) : r[k] = q[k]) /\ r[Len(q) + 1] = e
    BY AppendProperties
  <2> HIDE DEF r
  <2>2. ASSUME NEW k \in 1..Len(r) PROVE g[k] = Applied(g[k - 1], r[k])
    <3>1. CASE k \in 1..Len(q)
      <4>1. g[k] = f[k] /\ g[k - 1] = f[k - 1]
        BY <1>1, <2>1, <3>1
      <4> QED BY <1>2, <2>1, <3>1, <4>1 DEF Trace
    <3>2. CASE k = Len(q) + 1
      <4>1. g[k] = Applied(f[Len(q)], e) /\ g[k - 1] = f[Len(q)]
        BY <1>1, <2>1, <3>2
      <4> QED BY <2>1, <3>2, <4>1
    <3> QED BY <1>1, <2>1, <3>1, <3>2
  <2>3. g[0] = s /\ g[Len(r)] = Applied(f[Len(q)], e)
    BY <1>1, <1>2, <2>1 DEF Trace
  <2> HIDE DEF g
  <2>4. Trace(g, s, r)
    BY <2>2, <2>3 DEF Trace
  <2>5. After(s, r) = g[Len(r)]
    BY <1>1, <2>1, <2>4, AfterIs
  <2> QED BY <1>2, <2>3, <2>5 DEF r
<1>5. ASSUME q # <<>> PROVE After(Applied(s, Head(q)), Tail(q)) = After(s, q)
  <2> DEFINE r == Tail(q)
             g == [k \in 0..Len(r) |-> f[k + 1]]
  <2>1. Len(q) # 0
    BY <1>1, <1>5, EmptySeq
  <2>2. Len(r) = Len(q) - 1 /\ \A k \in 1..Len(r) : r[k] = q[k + 1]
    BY <1>5, HeadTailProperties
  <2>3. Head(q) = q[1]
    OBVIOUS
  <2> HIDE DEF r
  <2>4. ASSUME NEW k \in 1..Len(r) PROVE g[k] = Applied(g[k - 1], r[k])
    <3>1. /\ g[k] = f[k + 1] /\ g[k - 1] = f[(k + 1) - 1] /\ k + 1 \in 1..Len(q)
      BY <1>1, <2>1, <2>2
    <3> QED BY <1>2, <2>2, <3>1 DEF Trace
  <2>5. g[0] = Applied(s, Head(q)) /\ g[Len(r)] = f[Len(q)] /\ Len(r) \in Nat
    <3>1. f[1] = Applied(f[1 - 1], q[1])
      BY <1>1, <1>2, <2>1 DEF Trace
    <3> QED BY <1>1, <1>2, <2>1, <2>2, <2>3, <3>1 DEF Trace
  <2> HIDE DEF g
  <2>6. Trace(g, Applied(s, Head(q)), r)
    BY <2>4, <2>5 DEF Trace
  <2> QED BY <1>2, <2>5, <2>6, AfterIs DEF r
<1> QED BY <1>3, <1>4, <1>5

LEMMA AppliedTyped ==
  ASSUME NEW x \in SUBSET Entry, NEW e \in Event PROVE Applied(x, e) \in SUBSET Entry
<1>1. CASE e.t = "snapshot"
  <2>1. e.state \in SUBSET Entry
    BY <1>1 DEF Event
  <2> QED BY <1>1, <2>1 DEF Applied
<1>2. CASE e.t = "focus"
  <2>1. e.id \in Name
    BY <1>2 DEF Event
  <2> QED BY <1>2, <2>1 DEF Applied, Highlight, Entry
<1>3. CASE e.t \notin {"snapshot", "focus"}
  BY <1>3 DEF Applied
<1> QED BY <1>1, <1>2, <1>3

LEMMA AfterTyped ==
  ASSUME NEW q \in Seq(Event), NEW s \in SUBSET Entry
  PROVE  After(s, q) \in SUBSET Entry
<1>1. Len(q) \in Nat /\ DOMAIN q = 1..Len(q) /\ \A k \in 1..Len(q) : q[k] \in Event
  <2> HIDE DEF Event
  <2> QED BY LenProperties
<1>2. PICK f : Trace(f, s, q) /\ After(s, q) = f[Len(q)]
  BY <1>1, AfterIs
<1> DEFINE T == {k \in 0..Len(q) : f[k] \in SUBSET Entry}
<1>3. 0 \in T
  BY <1>1, <1>2 DEF Trace
<1>4. \A x \in SUBSET Entry, e \in Event : Applied(x, e) \in SUBSET Entry
  BY AppliedTyped
<1>5. ASSUME NEW k \in 0..Len(q), k \in T, k < Len(q) PROVE k + 1 \in T
  <2>1. k + 1 \in 1..Len(q) /\ (k + 1) - 1 = k
    BY <1>1, <1>5
  <2>2. f[k + 1] = Applied(f[k], q[k + 1])
    BY <1>2, <2>1 DEF Trace
  <2> QED BY <1>1, <1>4, <1>5, <2>1, <2>2
<1>6. 0..Len(q) \subseteq T
  <2> HIDE DEF T
  <2> QED BY <1>1, <1>3, <1>5, Climb
<1> QED BY <1>1, <1>2, <1>6

-----------------------------------------------------------------------------
(* The highlights.                                                         *)

LEMMA Highlights ==
  ASSUME NEW s \in SUBSET Entry, NEW b, NEW m \in Name, NEW n \in Name
  PROVE  /\ Highlight(s, m) \in SUBSET Entry /\ Clicked(s, b, m) \in SUBSET Entry
         /\ Highlight(Highlight(s, m), n) = Highlight(s, n)
         /\ Highlight(Clicked(s, b, m), n) = Highlight(s, n)
         /\ Clicked(Clicked(s, b, m), b, n) = Clicked(s, b, n)
<1> DEFINE H(e, x) == [e EXCEPT !.active = (e.id = x)]
           C(e, x) == IF OnBar(b, e) THEN H(e, x) ELSE e
<1>1. ASSUME NEW e \in Entry, NEW x \in Name
      PROVE  /\ H(e, x) \in Entry /\ C(e, x) \in Entry
             /\ H(e, x).id = e.id /\ H(e, x).output = e.output
             /\ \A y \in Name : H(H(e, x), y) = H(e, y)
             /\ OnBar(b, H(e, x)) <=> OnBar(b, e)
  BY DEF Entry, OnBar
<1>2. /\ \A x, y : Highlight(x, y) = {H(e, y) : e \in x}
      /\ \A x, y : Clicked(x, b, y) = {C(e, y) : e \in x}
  BY DEF Highlight, Clicked
<1> HIDE DEF H
<1>3. \A e \in Entry : H(C(e, m), n) = H(e, n) /\ C(C(e, m), n) = C(e, n)
  BY <1>1
<1> HIDE DEF C
<1>4. Highlight(s, m) \in SUBSET Entry /\ Clicked(s, b, m) \in SUBSET Entry
  BY <1>1, <1>2
<1>5. Highlight(Highlight(s, m), n) = Highlight(s, n)
  <2>1. Highlight(Highlight(s, m), n) = {H(e, n) : e \in {H(x, m) : x \in s}}
    BY <1>2
  <2>2. {H(e, n) : e \in {H(x, m) : x \in s}} = {H(e, n) : e \in s}
    BY <1>1
  <2> QED BY <1>2, <2>1, <2>2
<1>6. Highlight(Clicked(s, b, m), n) = Highlight(s, n)
  <2>1. Highlight(Clicked(s, b, m), n) = {H(e, n) : e \in {C(x, m) : x \in s}}
    BY <1>2
  <2>2. {H(e, n) : e \in {C(x, m) : x \in s}} = {H(e, n) : e \in s}
    BY <1>3
  <2> QED BY <1>2, <2>1, <2>2
<1>7. Clicked(Clicked(s, b, m), b, n) = Clicked(s, b, n)
  <2>1. Clicked(Clicked(s, b, m), b, n) = {C(e, n) : e \in {C(x, m) : x \in s}}
    BY <1>2
  <2>2. {C(e, n) : e \in {C(x, m) : x \in s}} = {C(e, n) : e \in s}
    BY <1>3
  <2> QED BY <1>2, <2>1, <2>2
<1> QED BY <1>4, <1>5, <1>6, <1>7

(* A click changes nothing that an event still in the channel will show.   *)
LEMMA ClickOvertaken ==
  ASSUME NEW s \in SUBSET Entry, NEW b, NEW n \in Name
  PROVE  /\ \A e \in Event : Applied(Clicked(s, b, n), e) = Applied(s, e)
         /\ \A q \in Seq(Event) : q # <<>> => After(Clicked(s, b, n), q) = After(s, q)
<1>1. ASSUME NEW e \in Event PROVE Applied(Clicked(s, b, n), e) = Applied(s, e)
  <2>1. CASE e.t = "focus"
    <3>1. e.id \in Name
      BY <2>1 DEF Event
    <3> QED BY <2>1, <3>1, Highlights DEF Applied
  <2>2. CASE e.t # "focus"
    BY <2>2 DEF Applied
  <2> QED BY <2>1, <2>2
<1>2. ASSUME NEW q \in Seq(Event), q # <<>>
      PROVE  After(Clicked(s, b, n), q) = After(s, q)
  <2> HIDE DEF Event
  <2>1. Head(q) \in Event
    BY <1>2, HeadTailProperties
  <2>2. Applied(Clicked(s, b, n), Head(q)) = Applied(s, Head(q))
    BY <1>1, <2>1
  <2> QED BY <1>2, <2>2, AfterSteps
<1> QED BY <1>1, <1>2

-----------------------------------------------------------------------------
(* The sway backend.                                                       *)

SwayEvent == [t : {"focus"}, id : Name] \cup [t : {"refetch", "bad"}, id : {None}]

(* What a bar shows once it has applied what its session has to send.      *)
View(b) == IF pc[b] = "send" THEN Applied(Drained(b), got[b]) ELSE Drained(b)

(* No event that makes the session fetch anew is queued for it.            *)
Steady(b) == \A k \in DOMAIN sub[b] : sub[b][k].t = "focus"

LastQueued(b) == sub[b][Len(sub[b])]

(* A connected session that needs no fetch has the workspaces; it has the  *)
(* focus too, or is sent it, or the bar was clicked and a command moves it. *)
Tracks(b) ==
  /\ sub[b] # <<>> /\ LastQueued(b).t = "focus" => LastQueued(b).id = focus
  /\ pc[b] \in {"send", "read"} =>
       /\ Steady(b) => Highlight(View(b), focus) = Truth
       /\ sub[b] = <<>> => View(b) = Truth \/ \E c \in Command : cmds[c] > 0 /\ c.id # focus

SessionInv(b) ==
  /\ pc[b] = "send" => got[b] \in Event
  /\ pc[b] \in {"connect", "sleep"} => sub[b] = <<>> /\ ~conn[b]
  /\ conn[b] => up /\ Tracks(b)

CompType ==
  /\ DOMAIN spaces \subseteq Name /\ \A n \in DOMAIN spaces : spaces[n] \in Output
  /\ focus \in DOMAIN spaces
  /\ cmds \in [Command -> Nat]

LinkType ==
  /\ sub \in [SwayBar -> Seq(SwayEvent)] /\ conn \in [SwayBar -> BOOLEAN]
  /\ pc \in [SwayBar -> {"connect", "fetch", "send", "read", "lost", "sleep"}]
  /\ got \in [SwayBar -> Event \cup {None}]

SwayInv ==
  /\ BarType /\ CompType /\ LinkType /\ up \in BOOLEAN
  /\ \A b \in SwayBar : SessionInv(b)

LEMMA SwayStarts == BarInit /\ SwayInit => SwayInv
<1> SUFFICES ASSUME BarInit, SwayInit PROVE SwayInv
  OBVIOUS
<1>1. BarType
  <2>1. <<>> \in Seq(Event) /\ Len(<<>>) = 0
    BY EmptySeq
  <2> HIDE DEF Event
  <2> QED BY <2>1, BarAssumption DEF BarInit, BarType
<1>2. CompType
  BY DEF SwayInit, CompType
<1>3. LinkType
  <2>1. <<>> \in Seq(SwayEvent)
    BY EmptySeq
  <2> QED BY <2>1 DEF SwayInit, LinkType
<1>4. up \in BOOLEAN
  BY DEF SwayInit
<1>5. \A b \in SwayBar : SessionInv(b)
  BY DEF SwayInit, SessionInv
<1> QED BY <1>1, <1>2, <1>3, <1>4, <1>5 DEF SwayInv

LEMMA TruthFacts ==
  ASSUME CompType, NEW b
  PROVE  /\ Truth \in SUBSET Entry /\ focus \in Name
         /\ \A n \in Name :
              Highlight(Truth, n) =
                {[id |-> m, output |-> spaces[m], active |-> m = n] : m \in DOMAIN spaces}
         /\ Highlight(Truth, focus) = Truth /\ Clicked(Truth, b, focus) = Truth
<1> DEFINE E(m, n) == [id |-> m, output |-> spaces[m], active |-> m = n]
<1>1. Truth = {E(m, focus) : m \in DOMAIN spaces}
  BY DEF Truth
<1>2. focus \in Name /\ \A m \in DOMAIN spaces : E(m, focus) \in Entry
  BY DEF CompType, Entry
<1>3. \A m \in DOMAIN spaces : \A n :
        /\ [E(m, focus) EXCEPT !.active = (E(m, focus).id = n)] = E(m, n)
        /\ (IF OnBar(b, E(m, focus)) THEN [E(m, focus) EXCEPT !.active = (E(m, focus).id = focus)]
                                     ELSE E(m, focus)) = E(m, focus)
  OBVIOUS
<1>4. \A n : Highlight(Truth, n) = {E(m, n) : m \in DOMAIN spaces}
  <2> HIDE DEF E
  <2> QED BY <1>1, <1>3 DEF Highlight
<1>5. Clicked(Truth, b, focus) = {E(m, focus) : m \in DOMAIN spaces}
  <2> HIDE DEF E
  <2> QED BY <1>1, <1>3 DEF Clicked
<1>6. Highlight(Truth, focus) = Truth /\ Clicked(Truth, b, focus) = Truth
  BY <1>1, <1>4, <1>5
<1>7. Truth \in SUBSET Entry
  <2> HIDE DEF E
  <2> QED BY <1>1, <1>2
<1> QED BY <1>2, <1>4, <1>6, <1>7

LEMMA ViewTyped ==
  ASSUME SwayInv, NEW b \in SwayBar
  PROVE  /\ shown[b] \in SUBSET Entry /\ chan[b] \in Seq(Event) /\ Drained(b) \in SUBSET Entry
         /\ sub[b] \in Seq(SwayEvent)
<1>1. b \in Bar
  BY SwayAssumption
<1>2. shown[b] \in SUBSET Entry /\ chan[b] \in Seq(Event)
  BY <1>1 DEF SwayInv, BarType
<1>3. sub[b] \in Seq(SwayEvent)
  BY DEF SwayInv, LinkType
<1> QED BY <1>2, <1>3, AfterTyped DEF Drained

(* The events queued for a session, one more taken or some more written.   *)
LEMMA Queued ==
  ASSUME NEW q \in Seq(SwayEvent)
  PROVE  /\ q # <<>> =>
              /\ Head(q) \in SwayEvent /\ Tail(q) \in Seq(SwayEvent)
              /\ Tail(q) # <<>> => Tail(q)[Len(Tail(q))] = q[Len(q)]
              /\ Tail(q) = <<>> => Head(q) = q[Len(q)]
              /\ 1 \in DOMAIN q /\ Head(q) = q[1] /\ Len(q) \in DOMAIN q
              /\ \A k \in DOMAIN Tail(q) : k + 1 \in DOMAIN q /\ Tail(q)[k] = q[k + 1]
              /\ \A k \in DOMAIN q : k = 1 \/ (k - 1 \in DOMAIN Tail(q) /\ Tail(q)[k - 1] = q[k])
         /\ \A r \in Seq(SwayEvent) : r # <<>> =>
              /\ q \o r \in Seq(SwayEvent) /\ q \o r # <<>>
              /\ (q \o r)[Len(q \o r)] = r[Len(r)]
              /\ \A k \in DOMAIN q : k \in DOMAIN (q \o r) /\ (q \o r)[k] = q[k]
              /\ \A k \in DOMAIN r : \E j \in DOMAIN (q \o r) : (q \o r)[j] = r[k]
<1> HIDE DEF SwayEvent
<1>1. Len(q) \in Nat /\ DOMAIN q = 1..Len(q) /\ (q = <<>> <=> Len(q) = 0)
  BY LenProperties, EmptySeq
<1>2. ASSUME q # <<>>
      PROVE  /\ Head(q) \in SwayEvent /\ Tail(q) \in Seq(SwayEvent)
             /\ Tail(q) # <<>> => Tail(q)[Len(Tail(q))] = q[Len(q)]
             /\ Tail(q) = <<>> => Head(q) = q[Len(q)]
             /\ 1 \in DOMAIN q /\ Head(q) = q[1] /\ Len(q) \in DOMAIN q
             /\ \A k \in DOMAIN Tail(q) : k + 1 \in DOMAIN q /\ Tail(q)[k] = q[k + 1]
             /\ \A k \in DOMAIN q : k = 1 \/ (k - 1 \in DOMAIN Tail(q) /\ Tail(q)[k - 1] = q[k])
  <2>1. /\ Head(q) \in SwayEvent /\ Tail(q) \in Seq(SwayEvent) /\ Len(Tail(q)) = Len(q) - 1
        /\ \A k \in 1..Len(Tail(q)) : Tail(q)[k] = q[k + 1]
    BY <1>2, HeadTailProperties
  <2>2. DOMAIN Tail(q) = 1..Len(Tail(q)) /\ (Tail(q) = <<>> <=> Len(Tail(q)) = 0)
    BY <2>1, LenProperties, EmptySeq
  <2>3. Head(q) = q[1] /\ Len(q) # 0
    BY <1>1, <1>2
  <2>4. /\ \A k \in DOMAIN Tail(q) : k + 1 \in DOMAIN q /\ Tail(q)[k] = q[k + 1]
        /\ 1 \in DOMAIN q /\ Len(q) \in DOMAIN q
    BY <1>1, <2>1, <2>2, <2>3
  <2>5. ASSUME NEW k \in DOMAIN q, k # 1
        PROVE  k - 1 \in DOMAIN Tail(q) /\ Tail(q)[k - 1] = q[k]
    <3>1. k - 1 \in 1..Len(Tail(q)) /\ (k - 1) + 1 = k
      BY <1>1, <2>1, <2>5
    <3> QED BY <2>1, <2>2, <3>1
  <2>6. Tail(q) # <<>> => Tail(q)[Len(Tail(q))] = q[Len(q)]
    <3>1. Tail(q) # <<>> => Len(Tail(q)) \in 1..Len(Tail(q)) /\ Len(Tail(q)) + 1 = Len(q)
      BY <1>1, <2>1, <2>2
    <3> QED BY <2>1, <3>1
  <2>7. Tail(q) = <<>> => Len(q) = 1
    BY <1>1, <2>1, <2>2
  <2> QED BY <2>1, <2>3, <2>4, <2>5, <2>6, <2>7
<1>3. ASSUME NEW r \in Seq(SwayEvent), r # <<>>
      PROVE  /\ q \o r \in Seq(SwayEvent) /\ q \o r # <<>>
             /\ (q \o r)[Len(q \o r)] = r[Len(r)]
             /\ \A k \in DOMAIN q : k \in DOMAIN (q \o r) /\ (q \o r)[k] = q[k]
             /\ \A k \in DOMAIN r : \E j \in DOMAIN (q \o r) : (q \o r)[j] = r[k]
  <2>1. Len(r) \in Nat /\ DOMAIN r = 1..Len(r) /\ Len(r) # 0
    BY <1>3, LenProperties, EmptySeq
  <2>2. q \o r \in Seq(SwayEvent) /\ Len(q \o r) = Len(q) + Len(r)
    BY ConcatProperties
  <2>3. DOMAIN (q \o r) = 1..(Len(q) + Len(r))
    BY <2>2, LenProperties
  <2>4. \A k \in 1..(Len(q) + Len(r)) :
          (q \o r)[k] = IF k <= Len(q) THEN q[k] ELSE r[k - Len(q)]
    BY ConcatProperties
  <2>5. q \o r # <<>>
    BY <1>1, <2>1, <2>2, EmptySeq
  <2>6. ASSUME NEW k \in DOMAIN r
        PROVE  Len(q) + k \in DOMAIN (q \o r) /\ (q \o r)[Len(q) + k] = r[k]
    <3>1. Len(q) + k \in 1..(Len(q) + Len(r)) /\ ~(Len(q) + k <= Len(q)) /\ (Len(q) + k) - Len(q) = k
      BY <1>1, <2>1
    <3> QED BY <2>3, <2>4, <3>1
  <2>7. ASSUME NEW k \in DOMAIN q PROVE k \in DOMAIN (q \o r) /\ (q \o r)[k] = q[k]
    <3>1. k \in 1..(Len(q) + Len(r)) /\ k <= Len(q)
      BY <1>1, <2>1
    <3> QED BY <2>3, <2>4, <3>1
  <2>8. (q \o r)[Len(q \o r)] = r[Len(r)]
    BY <2>1, <2>2, <2>6
  <2> QED BY <2>2, <2>5, <2>6, <2>7, <2>8
<1> QED BY <1>2, <1>3

(* What sway writes to a session when something changes: nothing, or       *)
(* events after which the session is sent the focus or fetches anew.       *)
Told(b) ==
  \/ sub'[b] = sub[b] /\ UNCHANGED <<spaces, focus>>
  \/ /\ sub'[b] \in Seq(SwayEvent) /\ sub'[b] # <<>>
     /\ LastQueued(b)'.t = "focus" => LastQueued(b)'.id = focus'
     /\ Steady(b)' => Steady(b) /\ spaces' = spaces

LEMMA EmitTold ==
  ASSUME SwayInv, NEW evs \in Seq(SwayEvent), evs # <<>>, Emit(evs),
         evs[Len(evs)].t = "focus" => evs[Len(evs)].id = focus',
         (\A k \in DOMAIN evs : evs[k].t = "focus") => spaces' = spaces,
         NEW b \in SwayBar, conn[b]
  PROVE  Told(b)
<1>1. sub[b] \in Seq(SwayEvent) /\ sub'[b] = sub[b] \o evs
  BY ViewTyped DEF Emit
<1> DEFINE q == sub[b]
<1>2. /\ q \o evs \in Seq(SwayEvent) /\ q \o evs # <<>>
      /\ (q \o evs)[Len(q \o evs)] = evs[Len(evs)]
      /\ \A k \in DOMAIN q : k \in DOMAIN (q \o evs) /\ (q \o evs)[k] = q[k]
      /\ \A k \in DOMAIN evs : \E j \in DOMAIN (q \o evs) : (q \o evs)[j] = evs[k]
  <2> HIDE DEF q
  <2> QED BY <1>1, Queued DEF q
<1>3. LastQueued(b)' = evs[Len(evs)]
  BY <1>1, <1>2 DEF LastQueued
<1>4. Steady(b)' => Steady(b) /\ spaces' = spaces
  <2> SUFFICES ASSUME \A k \in DOMAIN (q \o evs) : (q \o evs)[k].t = "focus"
               PROVE  Steady(b) /\ spaces' = spaces
    BY <1>1 DEF Steady
  <2>1. \A k \in DOMAIN q : q[k].t = "focus"
    BY <1>2
  <2>2. \A k \in DOMAIN evs : evs[k].t = "focus"
    BY <1>2
  <2> QED BY <2>1, <2>2 DEF Steady
<1> QED BY <1>1, <1>2, <1>3, <1>4 DEF Told

(* The events sway writes, one or two at a time.                           *)
LEMMA SwayEvents ==
  /\ \A n \in Name : <<FocusOn(n)>> \in Seq(SwayEvent) /\ <<Refetch, FocusOn(n)>> \in Seq(SwayEvent)
  /\ <<Refetch>> \in Seq(SwayEvent) /\ <<Bad>> \in Seq(SwayEvent)
<1>1. Refetch \in SwayEvent /\ Bad \in SwayEvent /\ \A n \in Name : FocusOn(n) \in SwayEvent
  BY DEF Refetch, Bad, FocusOn, SwayEvent
<1> HIDE DEF SwayEvent
<1> QED BY <1>1

LEMMA GoToTold ==
  ASSUME SwayInv, NEW n \in Name, NEW o \in Output, GoTo(n, o)
  PROVE  /\ focus' = n /\ focus' \in DOMAIN spaces' /\ DOMAIN spaces' \subseteq Name
         /\ \A m \in DOMAIN spaces' : spaces'[m] \in Output
         /\ \A b \in SwayBar : IF conn[b] THEN Told(b) ELSE sub'[b] = sub[b]
         /\ sub' \in [SwayBar -> Seq(SwayEvent)]
         /\ n # focus => \A b \in SwayBar : conn[b] => sub'[b] # <<>>
<1>1. CompType /\ sub \in [SwayBar -> Seq(SwayEvent)]
  BY DEF SwayInv, LinkType
<1>2. focus' = n /\ focus \in DOMAIN spaces
  BY <1>1 DEF GoTo, CompType
<1>3. CASE n = focus
  <2>1. UNCHANGED spaces /\ Emit(<<>>)
    BY <1>2, <1>3 DEF GoTo
  <2>2. \A b \in SwayBar : sub'[b] = sub[b]
    <3>1. ASSUME NEW b \in SwayBar PROVE sub[b] \o <<>> = sub[b]
      <4>1. sub[b] \in Seq(SwayEvent)
        BY <1>1
      <4> QED BY <4>1, ConcatEmptySeq
    <3> QED BY <2>1, <3>1 DEF Emit
  <2>3. sub' = [b \in SwayBar |-> sub'[b]]
    BY <2>1 DEF Emit
  <2>4. sub' \in [SwayBar -> Seq(SwayEvent)]
    BY <1>1, <2>2, <2>3
  <2> QED BY <1>1, <1>2, <1>3, <2>1, <2>2, <2>4 DEF CompType, Told
<1>4. CASE n # focus
  <2> DEFINE evs == IF n \in DOMAIN spaces THEN <<FocusOn(n)>> ELSE <<Refetch, FocusOn(n)>>
  <2>1. Emit(evs)
    BY <1>4 DEF GoTo
  <2>2. /\ DOMAIN spaces' = DOMAIN spaces \cup {n}
        /\ \A m \in DOMAIN spaces' : spaces'[m] \in Output
    BY <1>1 DEF GoTo, CompType
  <2>3. /\ evs[Len(evs)] = FocusOn(n) /\ evs # <<>> /\ evs \in Seq(SwayEvent)
        /\ n \notin DOMAIN spaces => 1 \in DOMAIN evs /\ evs[1] = Refetch
    BY SwayEvents
  <2>4. n \in DOMAIN spaces => spaces' = spaces
    BY DEF GoTo
  <2> HIDE DEF evs
  <2>5. ASSUME NEW b \in SwayBar, conn[b] PROVE Told(b) /\ sub'[b] # <<>>
    <3>1. evs[Len(evs)].t = "focus" => evs[Len(evs)].id = focus'
      BY <1>2, <2>3 DEF FocusOn
    <3>2. (\A k \in DOMAIN evs : evs[k].t = "focus") => spaces' = spaces
      BY <2>3, <2>4 DEF Refetch
    <3>3. Told(b)
      BY <2>1, <2>3, <2>5, <3>1, <3>2, EmitTold
    <3>4. sub'[b] = sub[b] \o evs /\ sub[b] \in Seq(SwayEvent)
      BY <1>1, <2>1, <2>5 DEF Emit
    <3> QED BY <2>3, <3>3, <3>4, Queued
  <2>6. \A b \in SwayBar : ~conn[b] => sub'[b] = sub[b]
    BY <2>1 DEF Emit
  <2>7. sub' \in [SwayBar -> Seq(SwayEvent)]
    <3>1. ASSUME NEW b \in SwayBar PROVE sub'[b] \in Seq(SwayEvent)
      <4>1. sub[b] \in Seq(SwayEvent) /\ sub[b] \o evs \in Seq(SwayEvent)
        BY <1>1, <2>3, Queued
      <4> QED BY <2>1, <4>1 DEF Emit
    <3> QED BY <2>1, <3>1 DEF Emit
  <2> QED BY <1>1, <1>2, <2>2, <2>5, <2>6, <2>7 DEF CompType
<1> QED BY <1>3, <1>4

(* Someone has a command that moves the focus.                             *)
Moving == \E c \in Command : cmds[c] > 0 /\ c.id # focus

(* The parts of the invariant come one by one.                             *)
LEMMA ToldKeeps ==
  ASSUME SwayInv, CompType', sub' \in [SwayBar -> Seq(SwayEvent)],
         UNCHANGED <<barVars, up, conn, pc, got>>,
         \A b \in SwayBar : IF conn[b] THEN Told(b) ELSE sub'[b] = sub[b],
         \A b \in SwayBar : conn[b] /\ sub'[b] = <<>> /\ Moving => Moving'
  PROVE  SwayInv'
<1>1. BarType' /\ LinkType' /\ up' \in BOOLEAN
  <2>1. BarType'
    BY DEF SwayInv, BarType, barVars
  <2>2. LinkType'
    BY DEF SwayInv, LinkType
  <2>3. up' \in BOOLEAN
    BY DEF SwayInv
  <2> QED BY <2>1, <2>2, <2>3
<1>2. ASSUME NEW b \in SwayBar PROVE SessionInv(b)'
  <2>1. /\ pc[b] = "send" => got[b] \in Event
        /\ pc[b] \in {"connect", "sleep"} => sub[b] = <<>> /\ ~conn[b]
        /\ conn[b] => up /\ Tracks(b)
    BY DEF SwayInv, SessionInv
  <2>2. View(b)' = View(b) /\ View(b) \in SUBSET Entry
    <3>1. Drained(b) \in SUBSET Entry
      BY ViewTyped
    <3>2. pc[b] = "send" => Applied(Drained(b), got[b]) \in SUBSET Entry
      BY <2>1, <3>1, AppliedTyped
    <3> QED BY <3>1, <3>2 DEF View, Drained, barVars
  <2>3. ASSUME conn[b] PROVE Tracks(b)'
    <3>1. Tracks(b) /\ Told(b)
      BY <2>1, <2>3
    <3>2. CASE sub'[b] = sub[b] /\ UNCHANGED <<spaces, focus>>
      <4>1. Truth' = Truth /\ (Steady(b)' <=> Steady(b)) /\ LastQueued(b)' = LastQueued(b)
        BY <3>2 DEF Truth, Steady, LastQueued
      <4> QED BY <2>2, <2>3, <3>1, <3>2, <4>1 DEF Tracks, Moving
    <3>3. CASE /\ sub'[b] \in Seq(SwayEvent) /\ sub'[b] # <<>>
               /\ LastQueued(b)'.t = "focus" => LastQueued(b)'.id = focus'
               /\ Steady(b)' => Steady(b) /\ spaces' = spaces
      <4>1. ASSUME pc[b] \in {"send", "read"}, Steady(b)'
            PROVE  Highlight(View(b), focus') = Truth'
        <5>1. Highlight(View(b), focus) = Truth /\ spaces' = spaces
          BY <3>1, <3>3, <4>1 DEF Tracks
        <5>2. CompType /\ focus \in Name /\ focus' \in Name
          BY DEF SwayInv, CompType
        <5>3. Highlight(Truth, focus') = Truth'
          <6>1. Highlight(Truth, focus') =
                  {[id |-> m, output |-> spaces[m], active |-> m = focus'] : m \in DOMAIN spaces}
            BY <5>2, TruthFacts
          <6> QED BY <5>1, <6>1 DEF Truth
        <5>4. Highlight(Highlight(View(b), focus), focus') = Highlight(View(b), focus')
          BY <2>2, <5>2, Highlights
        <5> QED BY <5>1, <5>3, <5>4
      <4> QED BY <2>2, <3>3, <4>1 DEF Tracks
    <3> QED BY <3>1, <3>2, <3>3 DEF Told
  <2>4. ~conn[b] => sub'[b] = sub[b]
    OBVIOUS
  <2> QED BY <2>1, <2>3, <2>4 DEF SessionInv
<1> QED BY <1>1, <1>2 DEF SwayInv

LEMMA SwayActsKeeps ==
  ASSUME SwayInv, SwayActs PROVE SwayInv'
<1>1. UNCHANGED <<barVars, up, conn, pc, got, cmds>> /\ CompType
  BY DEF SwayActs, SwayInv
<1>2. CASE SwitchFocus
  <2>1. PICK n \in Name, o \in Output : n # focus /\ GoTo(n, o)
    BY <1>2 DEF SwitchFocus
  <2>2. CompType'
    BY <1>1, <2>1, GoToTold DEF CompType
  <2> QED BY <1>1, <2>1, <2>2, GoToTold, ToldKeeps
<1>3. ASSUME NEW evs \in Seq(SwayEvent), evs # <<>>, Emit(evs), UNCHANGED focus, CompType',
             evs[Len(evs)].t # "focus", 1 \in DOMAIN evs, evs[1].t # "focus"
      PROVE  SwayInv'
  <2>1. \A b \in SwayBar : IF conn[b] THEN Told(b) ELSE sub'[b] = sub[b]
    <3>1. ASSUME NEW b \in SwayBar, conn[b] PROVE Told(b)
      BY <1>3, <3>1, EmitTold
    <3> QED BY <1>3, <3>1 DEF Emit
  <2>2. \A b \in SwayBar : sub'[b] \in Seq(SwayEvent) /\ (conn[b] => sub'[b] # <<>>)
    <3>1. ASSUME NEW b \in SwayBar
          PROVE  sub[b] \in Seq(SwayEvent) /\ sub[b] \o evs \in Seq(SwayEvent) /\ sub[b] \o evs # <<>>
      BY <1>3, ViewTyped, Queued
    <3> QED BY <1>3, <3>1 DEF Emit
  <2>3. sub' \in [SwayBar -> Seq(SwayEvent)]
    BY <1>3, <2>2 DEF Emit
  <2> QED BY <1>1, <1>3, <2>1, <2>2, <2>3, ToldKeeps
<1>4. /\ <<Refetch>> \in Seq(SwayEvent) /\ <<Refetch>>[Len(<<Refetch>>)] = Refetch
      /\ <<Refetch>> # <<>> /\ 1 \in DOMAIN <<Refetch>> /\ <<Refetch>>[1] = Refetch
      /\ <<Bad>> \in Seq(SwayEvent) /\ <<Bad>>[Len(<<Bad>>)] = Bad
      /\ <<Bad>> # <<>> /\ 1 \in DOMAIN <<Bad>> /\ <<Bad>>[1] = Bad
      /\ Refetch.t # "focus" /\ Bad.t # "focus"
  BY SwayEvents DEF Refetch, Bad
<1>5. CASE EmptySpace
  <2>1. CompType'
    BY <1>1, <1>5 DEF EmptySpace, CompType
  <2> QED BY <1>3, <1>4, <1>5, <2>1 DEF EmptySpace
<1>6. CASE MoveSpace
  <2>1. CompType'
    BY <1>1, <1>6 DEF MoveSpace, CompType
  <2> QED BY <1>3, <1>4, <1>6, <2>1 DEF MoveSpace
<1>7. CASE SendBad
  <2>1. CompType'
    BY <1>1, <1>7 DEF SendBad, CompType
  <2> QED BY <1>3, <1>4, <1>7, <2>1 DEF SendBad
<1> QED BY <1>2, <1>5, <1>6, <1>7 DEF SwayActs

LEMMA RunCommandKeeps ==
  ASSUME SwayInv, NEW c \in Command, RunCommand(c) PROVE SwayInv'
<1>1. /\ UNCHANGED <<barVars, up, conn, pc, got>> /\ CompType
      /\ cmds[c] > 0 /\ cmds' = [cmds EXCEPT ![c] = @ - 1]
      /\ c.id \in Name
  BY DEF RunCommand, SwayInv, Command
<1>2. cmds' \in [Command -> Nat]
  BY <1>1 DEF CompType
<1>3. \A d \in Command : d # c => cmds'[d] = cmds[d]
  BY <1>1 DEF CompType
<1>4. CASE up
  <2>1. PICK o \in Output : GoTo(c.id, o)
    BY <1>4 DEF RunCommand, Command
  <2>2. CompType'
    BY <1>1, <1>2, <2>1, GoToTold DEF CompType
  <2>3. ASSUME NEW b \in SwayBar, conn[b], sub'[b] = <<>>, Moving PROVE Moving'
    <3>1. c.id = focus /\ focus' = focus
      BY <1>1, <2>1, <2>3, GoToTold
    <3>2. PICK d \in Command : cmds[d] > 0 /\ d.id # focus
      BY <2>3 DEF Moving
    <3> QED BY <1>3, <3>1, <3>2 DEF Moving
  <2> QED BY <1>1, <2>1, <2>2, <2>3, GoToTold, ToldKeeps
<1>5. CASE ~up
  <2>1. UNCHANGED <<spaces, focus, sub>> /\ CompType'
    BY <1>1, <1>2, <1>5 DEF RunCommand, CompType
  <2>2. \A b \in SwayBar : ~conn[b]
    BY <1>5 DEF SwayInv, SessionInv
  <2>3. sub \in [SwayBar -> Seq(SwayEvent)]
    BY DEF SwayInv, LinkType
  <2> QED BY <1>1, <2>1, <2>2, <2>3, ToldKeeps
<1> QED BY <1>4, <1>5

(* A step of one bar keeps what is known of the others.                    *)
LEMMA OneBar ==
  ASSUME SwayInv, NEW b \in SwayBar, BarType', LinkType', cmds' \in [Command -> Nat],
         UNCHANGED compVars, Moving => Moving', SessionInv(b)',
         \A x \in SwayBar \ {b} : /\ shown'[x] = shown[x] /\ chan'[x] = chan[x]
                                  /\ sub'[x] = sub[x] /\ conn'[x] = conn[x]
                                  /\ pc'[x] = pc[x] /\ got'[x] = got[x]
  PROVE  SwayInv'
<1>1. CompType' /\ up' \in BOOLEAN
  BY DEF SwayInv, CompType, compVars
<1>2. ASSUME NEW x \in SwayBar \ {b} PROVE SessionInv(x)'
  <2>1. SessionInv(x)
    BY DEF SwayInv
  <2>2. View(x)' = View(x) /\ (Steady(x)' <=> Steady(x)) /\ LastQueued(x)' = LastQueued(x)
    BY DEF View, Drained, Steady, LastQueued
  <2>3. Truth' = Truth
    BY DEF Truth, compVars
  <2>4. Tracks(x) => Tracks(x)'
    BY <2>2, <2>3 DEF Tracks, Moving, compVars
  <2> QED BY <2>1, <2>4 DEF SessionInv, compVars
<1> QED BY <1>1, <1>2 DEF SwayInv

(* The session of a bar, up to what it sends.                              *)
LEMMA SessionTurns ==
  ASSUME SwayInv, NEW b \in SwayBar,
         Subscribe(b) \/ FetchWorkspaces(b) \/ ReadEof(b) \/ Reconnect(b)
  PROVE  SwayInv'
<1>1. UNCHANGED <<barVars, compVars, sub, cmds>>
  BY DEF Subscribe, FetchWorkspaces, ReadEof, Reconnect
<1>2. /\ BarType' /\ cmds' \in [Command -> Nat] /\ (Moving => Moving') /\ Truth' = Truth
      /\ Drained(b)' = Drained(b)
  BY <1>1 DEF SwayInv, CompType, BarType, barVars, compVars, Moving, Truth, Drained
<1>3. CompType /\ SessionInv(b) /\ Truth \in SUBSET Entry
  BY TruthFacts DEF SwayInv
<1>4. Snapshot(Truth) \in Event
  BY <1>3 DEF Snapshot, Event
<1>5. LinkType'
  <2>1. sub' \in [SwayBar -> Seq(SwayEvent)]
    BY <1>1 DEF SwayInv, LinkType
  <2>2. conn' \in [SwayBar -> BOOLEAN]
    BY DEF SwayInv, LinkType, Subscribe, FetchWorkspaces, ReadEof, Reconnect
  <2>3. pc' \in [SwayBar -> {"connect", "fetch", "send", "read", "lost", "sleep"}]
    BY DEF SwayInv, LinkType, Subscribe, FetchWorkspaces, ReadEof, Reconnect, GoOn
  <2>4. got' \in [SwayBar -> Event \cup {None}]
    <3> HIDE DEF Event
    <3> QED BY <1>4 DEF SwayInv, LinkType, Subscribe, FetchWorkspaces, ReadEof, Reconnect
  <2> QED BY <2>1, <2>2, <2>3, <2>4 DEF LinkType
<1>6. \A x \in SwayBar \ {b} : /\ shown'[x] = shown[x] /\ chan'[x] = chan[x]
                               /\ sub'[x] = sub[x] /\ conn'[x] = conn[x]
                               /\ pc'[x] = pc[x] /\ got'[x] = got[x]
  <2>1. \A x \in SwayBar \ {b} : pc'[x] = pc[x] /\ got'[x] = got[x]
    BY DEF SwayInv, LinkType, Subscribe, FetchWorkspaces, ReadEof, Reconnect, GoOn
  <2>2. \A x \in SwayBar \ {b} : conn'[x] = conn[x]
    BY DEF SwayInv, LinkType, Subscribe, FetchWorkspaces, ReadEof, Reconnect
  <2> QED BY <1>1, <2>1, <2>2 DEF barVars
<1>7. pc \in [SwayBar -> {"connect", "fetch", "send", "read", "lost", "sleep"}]
  BY DEF SwayInv, LinkType
<1>8. conn \in [SwayBar -> BOOLEAN] /\ got \in [SwayBar -> Event \cup {None}]
  BY DEF SwayInv, LinkType
<1>9. SessionInv(b)'
  <2>1. CASE Subscribe(b)
    <3>1. pc[b] = "connect" /\ sub'[b] = <<>> /\ up' = up
      BY <1>1, <1>3, <2>1 DEF Subscribe, At, SessionInv, compVars
    <3>2. conn'[b] <=> up
      BY <1>8, <2>1 DEF Subscribe
    <3>3. pc'[b] \in {"fetch", "lost"}
      BY <1>7, <2>1 DEF Subscribe, GoOn
    <3>4. Tracks(b)'
      BY <3>1, <3>3 DEF Tracks
    <3> QED BY <3>1, <3>2, <3>3, <3>4 DEF SessionInv
  <2>2. CASE FetchWorkspaces(b)
    <3>1. pc[b] = "fetch" /\ (conn'[b] <=> conn[b]) /\ sub' = sub /\ UNCHANGED <<up, focus>>
      BY <1>1, <2>2 DEF FetchWorkspaces, At, compVars
    <3>2. CASE conn[b]
      <4>1. pc'[b] = "send" /\ got'[b] = Snapshot(Truth)
        BY <1>7, <1>8, <2>2, <3>2 DEF FetchWorkspaces, GoOn
      <4>2. View(b)' = Truth
        BY <4>1 DEF View, Applied, Snapshot
      <4>3. Highlight(Truth, focus) = Truth
        BY <1>3, TruthFacts
      <4>4. Tracks(b)'
        BY <1>2, <1>3, <3>1, <3>2, <4>1, <4>2, <4>3 DEF SessionInv, Tracks, LastQueued
      <4> QED BY <1>3, <1>4, <3>1, <3>2, <4>1, <4>4 DEF SessionInv
    <3>3. CASE ~conn[b]
      <4>1. pc'[b] = "lost"
        BY <1>7, <2>2, <3>3 DEF FetchWorkspaces, GoOn
      <4> QED BY <3>1, <3>3, <4>1 DEF SessionInv
    <3> QED BY <3>2, <3>3
  <2>3. CASE ReadEof(b)
    <3>1. ~conn'[b]
      BY <2>3 DEF ReadEof
    <3>2. pc'[b] = "lost"
      BY <1>7, <2>3 DEF ReadEof, GoOn
    <3> QED BY <3>1, <3>2 DEF SessionInv
  <2>4. CASE Reconnect(b)
    <3>1. pc[b] = "sleep" /\ pc'[b] = "connect" /\ sub'[b] = sub[b]
      BY <1>7, <2>4 DEF Reconnect, GoOn, At
    <3>2. conn'[b] <=> conn[b]
      BY <2>4 DEF Reconnect
    <3> QED BY <1>3, <3>1, <3>2 DEF SessionInv
  <2> QED BY <2>1, <2>2, <2>3, <2>4
<1> QED BY <1>1, <1>2, <1>5, <1>6, <1>9, OneBar

(* What is sent to a bar, and what it applies.                             *)
LEMMA SendShows ==
  ASSUME BarType, NEW b \in Bar, NEW e \in Event, Send(b, e), UNCHANGED shown
  PROVE  /\ BarType' /\ Drained(b)' = Applied(Drained(b), e)
         /\ \A x \in Bar \ {b} : shown'[x] = shown[x] /\ chan'[x] = chan[x]
<1> HIDE DEF Event
<1>1. /\ chan[b] \in Seq(Event) /\ chan' = [chan EXCEPT ![b] = Append(@, e)]
      /\ chan \in [Bar -> Seq(Event)] /\ shown' = shown
  BY DEF BarType, Send
<1>2. Append(chan[b], e) \in Seq(Event) /\ Len(Append(chan[b], e)) = Len(chan[b]) + 1
  BY <1>1, AppendProperties
<1>3. chan'[b] = Append(chan[b], e) /\ \A x \in Bar \ {b} : chan'[x] = chan[x]
  BY <1>1
<1>4. Drained(b)' = Applied(Drained(b), e)
  BY <1>1, <1>3, AfterSteps DEF Drained
<1>5. chan' \in [Bar -> Seq(Event)]
  BY <1>1, <1>2
<1>6. \A x \in Bar : Len(chan'[x]) <= Cap
  <2>1. Len(chan[b]) < Cap /\ Len(chan[b]) \in Nat /\ Cap \in Nat
    BY <1>1, LenProperties, BarAssumption DEF Send, Room
  <2>2. Len(chan'[b]) <= Cap
    BY <1>2, <1>3, <2>1
  <2> QED BY <1>3, <2>2 DEF BarType
<1> QED BY <1>1, <1>3, <1>4, <1>5, <1>6 DEF BarType

LEMMA ApplyShows ==
  ASSUME BarType, NEW b \in Bar, Apply(b)
  PROVE  /\ BarType' /\ Drained(b)' = Drained(b)
         /\ \A x \in Bar \ {b} : shown'[x] = shown[x] /\ chan'[x] = chan[x]
<1>1. /\ shown[b] \in SUBSET Entry /\ chan \in [Bar -> Seq(Event)] /\ shown \in [Bar -> SUBSET Entry]
      /\ chan[b] \in Seq(Event)
  BY DEF BarType
<1>2. /\ chan[b] # <<>> /\ shown' = [shown EXCEPT ![b] = Applied(@, Head(chan[b]))]
      /\ chan' = [chan EXCEPT ![b] = Tail(@)]
  BY DEF Apply
<1>3. /\ shown'[b] = Applied(shown[b], Head(chan[b])) /\ chan'[b] = Tail(chan[b])
      /\ \A x \in Bar \ {b} : shown'[x] = shown[x] /\ chan'[x] = chan[x]
  BY <1>1, <1>2
<1>4. /\ Head(chan[b]) \in Event /\ Tail(chan[b]) \in Seq(Event)
      /\ Len(Tail(chan[b])) = Len(chan[b]) - 1 /\ Len(chan[b]) \in Nat
  <2> HIDE DEF Event
  <2> QED BY <1>1, <1>2, HeadTailProperties, LenProperties
<1>5. Applied(shown[b], Head(chan[b])) \in SUBSET Entry
  BY <1>1, <1>4, AppliedTyped
<1>6. Drained(b)' = Drained(b)
  <2> HIDE DEF Event
  <2> QED BY <1>1, <1>2, <1>3, AfterSteps DEF Drained
<1>7. shown' \in [Bar -> SUBSET Entry] /\ chan' \in [Bar -> Seq(Event)]
  <2> HIDE DEF Event
  <2> QED BY <1>1, <1>2, <1>4, <1>5
<1>8. \A x \in Bar : Len(chan'[x]) <= Cap
  <2>1. Len(chan[b]) <= Cap /\ Cap \in Nat
    BY BarAssumption DEF BarType
  <2>2. Len(chan'[b]) <= Cap
    BY <1>3, <1>4, <2>1
  <2> QED BY <1>3, <2>2 DEF BarType
<1> QED BY <1>3, <1>6, <1>7, <1>8 DEF BarType

LEMMA SessionSends ==
  ASSUME SwayInv, NEW b \in SwayBar, SendGot(b) \/ SendDisconnected(b)
  PROVE  SwayInv'
<1>1. /\ UNCHANGED <<shown, compVars, cmds>> /\ b \in Bar /\ BarType /\ SessionInv(b)
      /\ CompType /\ LinkType
  BY SwayAssumption DEF SendGot, SendDisconnected, SwayInv
<1>2. cmds' \in [Command -> Nat] /\ (Moving => Moving') /\ Truth' = Truth
  BY <1>1 DEF CompType, compVars, Moving, Truth
<1>3. SwayBar \ {b} \subseteq Bar \ {b}
  BY SwayAssumption
<1>4. CASE SendGot(b)
  <2>1. pc[b] = "send" /\ got[b] \in Event /\ Send(b, got[b])
    BY <1>1, <1>4 DEF SendGot, At, SessionInv
  <2>2. /\ BarType' /\ Drained(b)' = Applied(Drained(b), got[b])
        /\ \A x \in Bar \ {b} : shown'[x] = shown[x] /\ chan'[x] = chan[x]
    BY <1>1, <2>1, SendShows
  <2>3. /\ got' = [got EXCEPT ![b] = None] /\ pc' = [pc EXCEPT ![b] = "read"]
        /\ UNCHANGED <<sub, conn>>
    BY <1>4 DEF SendGot, GoOn
  <2>4. LinkType'
    <3> HIDE DEF Event
    <3> QED BY <1>1, <2>3 DEF LinkType
  <2>5. pc'[b] = "read" /\ \A x \in SwayBar \ {b} : pc'[x] = pc[x] /\ got'[x] = got[x]
    BY <1>1, <2>3 DEF LinkType
  <2>6. View(b)' = View(b)
    BY <2>1, <2>2, <2>5 DEF View
  <2>7. /\ Tracks(b) => Tracks(b)'
    BY <1>1, <1>2, <2>1, <2>3, <2>5, <2>6 DEF Tracks, Moving, Steady, LastQueued, compVars
  <2>8. SessionInv(b)'
    BY <1>1, <2>3, <2>5, <2>7 DEF SessionInv, compVars
  <2> QED BY <1>1, <1>2, <1>3, <2>2, <2>3, <2>4, <2>5, <2>8, OneBar
<1>5. CASE SendDisconnected(b)
  <2>1. Disconnected \in Event /\ Send(b, Disconnected)
    BY <1>5 DEF SendDisconnected, Disconnected, Event
  <2>2. /\ BarType' /\ \A x \in Bar \ {b} : shown'[x] = shown[x] /\ chan'[x] = chan[x]
    BY <1>1, <2>1, SendShows
  <2>3. /\ pc' = [pc EXCEPT ![b] = "sleep"] /\ sub' = [sub EXCEPT ![b] = <<>>] /\ UNCHANGED got
    BY <1>5 DEF SendDisconnected, GoOn
  <2>4. conn' = [conn EXCEPT ![b] = FALSE]
    BY <1>5 DEF SendDisconnected
  <2>5. LinkType'
    <3> HIDE DEF Event, SwayEvent
    <3>1. <<>> \in Seq(SwayEvent)
      OBVIOUS
    <3>2. conn' \in [SwayBar -> BOOLEAN]
      BY <1>1, <2>4 DEF LinkType
    <3> QED BY <1>1, <2>3, <3>1, <3>2 DEF LinkType
  <2>6. /\ pc'[b] = "sleep" /\ sub'[b] = <<>>
        /\ \A x \in SwayBar \ {b} : pc'[x] = pc[x] /\ got'[x] = got[x] /\ sub'[x] = sub[x]
    BY <1>1, <2>3 DEF LinkType
  <2>7. ~conn'[b] /\ \A x \in SwayBar \ {b} : conn'[x] = conn[x]
    BY <1>1, <2>4 DEF LinkType
  <2>8. SessionInv(b)'
    BY <2>6, <2>7 DEF SessionInv
  <2> QED BY <1>1, <1>2, <1>3, <2>2, <2>5, <2>6, <2>7, <2>8, OneBar
<1> QED BY <1>4, <1>5

LEMMA ApplyKeeps ==
  ASSUME SwayInv, NEW b \in SwayBar, Apply(b), UNCHANGED swayVars
  PROVE  SwayInv'
<1>1. /\ UNCHANGED <<compVars, sub, conn, pc, got, cmds>> /\ b \in Bar /\ BarType
      /\ SessionInv(b) /\ CompType /\ LinkType
  BY SwayAssumption DEF swayVars, compVars, SwayInv
<1>2. /\ BarType' /\ Drained(b)' = Drained(b)
      /\ \A x \in SwayBar \ {b} : shown'[x] = shown[x] /\ chan'[x] = chan[x]
  BY <1>1, ApplyShows, SwayAssumption
<1>3. cmds' \in [Command -> Nat] /\ (Moving => Moving') /\ Truth' = Truth /\ LinkType'
  BY <1>1 DEF CompType, compVars, Moving, Truth, LinkType
<1>4. View(b)' = View(b)
  BY <1>1, <1>2 DEF View
<1>5. Tracks(b) => Tracks(b)'
  BY <1>1, <1>3, <1>4 DEF Tracks, Moving, Steady, LastQueued, compVars
<1>6. SessionInv(b)'
  BY <1>1, <1>5 DEF SessionInv, compVars
<1> QED BY <1>1, <1>2, <1>3, <1>6, OneBar

(* An event read off the subscription.                                     *)
LEMMA ReadEventKeeps ==
  ASSUME SwayInv, NEW b \in SwayBar, ReadEvent(b)
  PROVE  SwayInv'
<1> DEFINE q == sub[b]
           e == Head(q)
<1>1. /\ UNCHANGED <<barVars, compVars, conn, cmds>> /\ BarType /\ SessionInv(b)
      /\ CompType /\ LinkType /\ pc[b] = "read" /\ q # <<>> /\ q \in Seq(SwayEvent)
  BY ViewTyped DEF ReadEvent, At, SwayInv
<1>2. /\ BarType' /\ cmds' \in [Command -> Nat] /\ (Moving => Moving') /\ Truth' = Truth
      /\ Drained(b)' = Drained(b)
  BY <1>1 DEF CompType, BarType, barVars, compVars, Moving, Truth, Drained
<1>3. /\ e \in SwayEvent /\ Tail(q) \in Seq(SwayEvent)
      /\ Tail(q) # <<>> => Tail(q)[Len(Tail(q))] = q[Len(q)]
      /\ Tail(q) = <<>> => e = q[Len(q)]
      /\ 1 \in DOMAIN q /\ e = q[1] /\ Len(q) \in DOMAIN q
      /\ \A k \in DOMAIN Tail(q) : k + 1 \in DOMAIN q /\ Tail(q)[k] = q[k + 1]
      /\ \A k \in DOMAIN q : k = 1 \/ (k - 1 \in DOMAIN Tail(q) /\ Tail(q)[k - 1] = q[k])
  <2> HIDE DEF q
  <2> QED BY <1>1, Queued
<1>4. /\ sub' = [sub EXCEPT ![b] = Tail(q)]
      /\ got' = IF e.t = "focus" THEN [got EXCEPT ![b] = Focus(e.id)] ELSE got
      /\ pc' = [pc EXCEPT ![b] = CASE e.t = "focus" -> "send" [] e.t = "refetch" -> "fetch"
                                   [] OTHER -> "lost"]
  BY DEF ReadEvent, GoOn
<1>5. e.t = "focus" => e.id \in Name /\ Focus(e.id) \in Event
  BY <1>3 DEF SwayEvent, Focus, Event
<1>6. /\ sub'[b] = Tail(q) /\ sub' \in [SwayBar -> Seq(SwayEvent)]
      /\ \A x \in SwayBar \ {b} : sub'[x] = sub[x]
  <2> HIDE DEF q, SwayEvent
  <2> QED BY <1>1, <1>3, <1>4 DEF LinkType
<1>7. /\ e.t = "focus" => pc'[b] = "send" /\ got'[b] = Focus(e.id)
      /\ e.t # "focus" => pc'[b] \in {"fetch", "lost"}
      /\ pc' \in [SwayBar -> {"connect", "fetch", "send", "read", "lost", "sleep"}]
      /\ \A x \in SwayBar \ {b} : pc'[x] = pc[x] /\ got'[x] = got[x]
  <2> HIDE DEF e
  <2> QED BY <1>1, <1>4 DEF LinkType
<1>8. got' \in [SwayBar -> Event \cup {None}]
  <2> HIDE DEF e, Event
  <2> QED BY <1>1, <1>4, <1>5 DEF LinkType
<1> HIDE DEF e
<1>9. LinkType'
  BY <1>1, <1>6, <1>7, <1>8 DEF LinkType
<1>10. ASSUME conn[b] PROVE Tracks(b)'
  <2>1. Tracks(b)
    BY <1>1, <1>10 DEF SessionInv
  <2>2. LastQueued(b) = q[Len(q)] /\ LastQueued(b)' = Tail(q)[Len(Tail(q))] /\ focus' = focus
    BY <1>1, <1>6 DEF LastQueued, compVars
  <2>3. sub'[b] # <<>> /\ LastQueued(b)'.t = "focus" => LastQueued(b)'.id = focus'
    BY <1>1, <1>3, <1>6, <2>1, <2>2 DEF Tracks
  <2>4. CASE e.t # "focus"
    BY <1>7, <2>3, <2>4 DEF Tracks
  <2>5. CASE e.t = "focus"
    <3>1. View(b)' = Highlight(Drained(b), e.id) /\ View(b) = Drained(b)
      BY <1>1, <1>2, <1>7, <2>5 DEF View, Applied, Focus
    <3>2. Steady(b)' => Steady(b)
      <4> SUFFICES ASSUME \A k \in DOMAIN Tail(q) : Tail(q)[k].t = "focus",
                          NEW k \in DOMAIN q
                   PROVE  q[k].t = "focus"
        BY <1>6 DEF Steady
      <4> QED BY <1>3, <2>5
    <3>3. Highlight(Highlight(Drained(b), e.id), focus) = Highlight(Drained(b), focus)
      <4>1. Drained(b) \in SUBSET Entry /\ focus \in Name /\ e.id \in Name
        BY <1>1, <1>5, <2>5, ViewTyped, TruthFacts
      <4> QED BY <4>1, Highlights
    <3>4. Steady(b)' => Highlight(View(b)', focus) = Truth
      BY <1>1, <2>1, <3>1, <3>2, <3>3 DEF Tracks
    <3>5. ASSUME Tail(q) = <<>> PROVE View(b)' = Truth
      <4>1. e.id = focus
        BY <1>1, <1>3, <2>1, <2>2, <2>5, <3>5 DEF Tracks
      <4>2. DOMAIN Tail(q) = {}
        BY <3>5
      <4>3. Steady(b)
        BY <1>6, <3>2, <4>2 DEF Steady
      <4>4. Highlight(View(b), focus) = Truth
        BY <1>1, <2>1, <4>3 DEF Tracks
      <4> QED BY <3>1, <4>1, <4>4
    <3> QED BY <1>2, <1>6, <1>7, <2>2, <2>3, <2>5, <3>4, <3>5 DEF Tracks
  <2> QED BY <2>4, <2>5
<1>11. SessionInv(b)'
  <2>1. /\ pc'[b] = "send" => got'[b] \in Event
        /\ pc'[b] \notin {"connect", "sleep"}
    BY <1>5, <1>7
  <2>2. (conn'[b] <=> conn[b]) /\ up' = up
    BY <1>1 DEF compVars
  <2> QED BY <1>1, <1>10, <2>1, <2>2 DEF SessionInv
<1> QED BY <1>1, <1>2, <1>6, <1>7, <1>9, <1>11, OneBar DEF barVars

(* A click: the command that follows it is the witness.                    *)
LEMMA SwayClickKeeps ==
  ASSUME SwayInv, NEW b \in SwayBar, SwayClick(b)
  PROVE  SwayInv'
<1>1. /\ UNCHANGED <<chan, compVars, sub, conn, pc, got>> /\ b \in Bar /\ BarType
      /\ SessionInv(b) /\ CompType /\ LinkType
  BY SwayAssumption DEF SwayClick, SwayInv
<1>2. PICK e \in Pills(b) :
        /\ shown' = [shown EXCEPT ![b] = Clicked(@, b, e.id)]
        /\ cmds' = [cmds EXCEPT ![[id |-> e.id, output |-> e.output]] = @ + 1]
  BY DEF SwayClick, Optimistic
<1> DEFINE c == [id |-> e.id, output |-> e.output]
<1>3. e.id \in Name /\ c \in Command /\ c.id = e.id
  <2>1. e \in Entry
    BY <1>1, <1>2 DEF Pills, BarType
  <2> QED BY <2>1 DEF Entry, Command
<1>4. cmds' = [cmds EXCEPT ![c] = @ + 1]
  BY <1>2
<1> HIDE DEF c
<1>5. /\ cmds' \in [Command -> Nat] /\ cmds'[c] > 0 /\ (Moving => Moving')
  <2>1. cmds \in [Command -> Nat]
    BY <1>1 DEF CompType
  <2>2. cmds' \in [Command -> Nat] /\ \A d \in Command : cmds[d] > 0 => cmds'[d] > 0
    BY <1>3, <1>4, <2>1
  <2>3. cmds'[c] > 0
    BY <1>3, <1>4, <2>1
  <2> QED BY <1>1, <2>2, <2>3 DEF Moving, compVars
<1>6. /\ shown[b] \in SUBSET Entry /\ chan[b] \in Seq(Event)
      /\ shown'[b] = Clicked(shown[b], b, e.id)
      /\ \A x \in SwayBar \ {b} : shown'[x] = shown[x]
  BY <1>1, <1>2, SwayAssumption DEF BarType
<1>7. BarType'
  <2>1. Clicked(shown[b], b, e.id) \in SUBSET Entry
    BY <1>3, <1>6, Highlights
  <2> HIDE DEF Event
  <2>2. shown' \in [Bar -> SUBSET Entry]
    BY <1>1, <1>2, <2>1 DEF BarType
  <2> QED BY <1>1, <2>2 DEF BarType
<1>8. LinkType' /\ Truth' = Truth /\ Truth \in SUBSET Entry
  <2>1. LinkType'
    BY <1>1 DEF LinkType
  <2> QED BY <1>1, <2>1, TruthFacts DEF Truth, compVars
<1>9. pc[b] \in {"send", "read"} =>
        \/ View(b)' = View(b)
        \/ pc[b] = "read" /\ View(b)' = Clicked(View(b), b, e.id) /\ View(b) \in SUBSET Entry
  <2> SUFFICES ASSUME pc[b] \in {"send", "read"}
               PROVE  \/ View(b)' = View(b)
                      \/ /\ pc[b] = "read" /\ View(b)' = Clicked(View(b), b, e.id)
                         /\ View(b) \in SUBSET Entry
    OBVIOUS
  <2>1. CASE chan[b] # <<>>
    <3>1. Drained(b)' = Drained(b)
      <4>1. After(Clicked(shown[b], b, e.id), chan[b]) = After(shown[b], chan[b])
        BY <1>3, <1>6, <2>1, ClickOvertaken
      <4>2. Drained(b)' = After(Clicked(shown[b], b, e.id), chan[b])
        BY <1>1, <1>6 DEF Drained
      <4> QED BY <4>1, <4>2 DEF Drained
    <3> QED BY <1>1, <3>1 DEF View
  <2>2. CASE chan[b] = <<>>
    <3>1. Drained(b) = shown[b] /\ Drained(b)' = Clicked(shown[b], b, e.id)
      <4>1. \A x : After(x, chan[b]) = x
        BY <1>6, <2>2, AfterSteps
      <4>2. Drained(b)' = After(Clicked(shown[b], b, e.id), chan[b])
        BY <1>1, <1>6 DEF Drained
      <4> QED BY <4>1, <4>2 DEF Drained
    <3>2. CASE pc[b] = "send"
      <4>1. got[b] \in Event
        BY <1>1, <3>2 DEF SessionInv
      <4>2. Applied(Clicked(shown[b], b, e.id), got[b]) = Applied(shown[b], got[b])
        BY <1>3, <1>6, <4>1, ClickOvertaken
      <4>3. View(b)' = Applied(Drained(b)', got[b]) /\ View(b) = Applied(Drained(b), got[b])
        BY <1>1, <3>2 DEF View
      <4> QED BY <3>1, <4>2, <4>3
    <3>3. CASE pc[b] = "read"
      BY <1>1, <1>6, <3>1, <3>3 DEF View
    <3> QED BY <3>2, <3>3
  <2> QED BY <2>1, <2>2
<1>10. ASSUME conn[b] PROVE Tracks(b)'
  <2>1. Tracks(b) /\ focus' = focus /\ (Steady(b)' <=> Steady(b)) /\ LastQueued(b)' = LastQueued(b)
    BY <1>1, <1>10 DEF SessionInv, Steady, LastQueued, compVars
  <2>2. CASE pc[b] \notin {"send", "read"}
    BY <1>1, <2>1, <2>2 DEF Tracks
  <2>3. CASE pc[b] \in {"send", "read"} /\ View(b)' = View(b)
    BY <1>1, <1>5, <1>8, <2>1, <2>3 DEF Tracks, Moving
  <2>4. CASE /\ pc[b] = "read" /\ View(b)' = Clicked(View(b), b, e.id)
             /\ View(b) \in SUBSET Entry
    <3>1. focus \in Name
      BY <1>1, TruthFacts
    <3>2. Highlight(View(b)', focus) = Highlight(View(b), focus)
      BY <1>3, <2>4, <3>1, Highlights
    <3>3. sub[b] = <<>> => View(b)' = Truth \/ Moving'
      <4>1. CASE e.id # focus
        BY <1>1, <1>3, <1>5, <2>1, <4>1 DEF Moving
      <4>2. CASE e.id = focus
        <5>1. Clicked(Truth, b, focus) = Truth
          BY <1>1, TruthFacts
        <5> QED BY <1>5, <2>1, <2>4, <4>2, <5>1 DEF Tracks, Moving
      <4> QED BY <4>1, <4>2
    <3> QED BY <1>1, <1>8, <2>1, <2>4, <3>2, <3>3 DEF Tracks, Moving
  <2> QED BY <1>9, <2>2, <2>3, <2>4
<1>11. SessionInv(b)'
  <2>1. (conn'[b] <=> conn[b]) /\ up' = up
    BY <1>1 DEF compVars
  <2> QED BY <1>1, <1>10, <2>1 DEF SessionInv
<1> QED BY <1>1, <1>5, <1>6, <1>7, <1>8, <1>11, OneBar

(* sway goes and comes back: no session is connected to it.                 *)
LEMMA SwayDownKeeps ==
  ASSUME SwayInv, SwayDies \/ SwayBack
  PROVE  SwayInv'
<1>1. UNCHANGED <<barVars, sub, pc, got, cmds>>
  BY DEF SwayDies, SwayBack
<1>2. BarType' /\ cmds' \in [Command -> Nat]
  BY <1>1 DEF SwayInv, BarType, barVars, CompType
<1>3. conn' \in [SwayBar -> BOOLEAN] /\ up' \in BOOLEAN
  BY DEF SwayInv, LinkType, SwayDies, SwayBack
<1>4. LinkType'
  BY <1>1, <1>3 DEF SwayInv, LinkType
<1>5. \A b \in SwayBar : ~conn'[b]
  <2>1. CASE SwayDies
    BY <2>1 DEF SwayDies
  <2>2. CASE SwayBack
    BY <2>2 DEF SwayBack, SwayInv, SessionInv
  <2> QED BY <2>1, <2>2
<1>6. CompType'
  <2>1. CASE SwayDies
    BY <1>2, <2>1 DEF SwayDies, SwayInv, CompType
  <2>2. CASE SwayBack
    <3>1. PICK n \in Name, o \in Output : spaces' = [x \in {n} |-> o] /\ focus' = n
      BY <2>2 DEF SwayBack
    <3> QED BY <1>2, <3>1 DEF CompType
  <2> QED BY <2>1, <2>2
<1>7. \A b \in SwayBar : SessionInv(b)'
  BY <1>1, <1>5 DEF SwayInv, SessionInv
<1> QED BY <1>2, <1>3, <1>4, <1>6, <1>7 DEF SwayInv

LEMMA SwaySteps == SwayInv /\ [SwayNext]_<<barVars, swayVars>> => SwayInv'
<1> SUFFICES ASSUME SwayInv, [SwayNext]_<<barVars, swayVars>> PROVE SwayInv'
  OBVIOUS
<1>1. CASE SwayActs
  BY <1>1, SwayActsKeeps
<1>2. CASE SwayDies \/ SwayBack
  BY <1>2, SwayDownKeeps
<1>3. ASSUME NEW c \in Command, RunCommand(c) PROVE SwayInv'
  BY <1>3, RunCommandKeeps
<1>4. ASSUME NEW b \in SwayBar, SwayClick(b) PROVE SwayInv'
  BY <1>4, SwayClickKeeps
<1>5. ASSUME NEW b \in SwayBar, Session(b) PROVE SwayInv'
  BY <1>5, SessionTurns, SessionSends, ReadEventKeeps DEF Session
<1>6. ASSUME NEW b \in SwayBar, Apply(b), UNCHANGED swayVars PROVE SwayInv'
  BY <1>6, ApplyKeeps
<1>7. CASE UNCHANGED <<barVars, swayVars>>
  <2>1. CompType' /\ \A b \in SwayBar : IF conn[b] THEN Told(b) ELSE sub'[b] = sub[b]
    BY <1>7 DEF SwayInv, CompType, swayVars, Told
  <2>2. sub \in [SwayBar -> Seq(SwayEvent)]
    BY DEF SwayInv, LinkType
  <2>3. Moving => Moving'
    BY <1>7 DEF Moving, swayVars
  <2> QED BY <1>7, <2>1, <2>2, <2>3, ToldKeeps DEF swayVars
<1> QED BY <1>1, <1>2, <1>3, <1>4, <1>5, <1>6, <1>7 DEF SwayNext, SwayEnvironment, SwayReacts

(* The inductive invariant of the sway backend.                            *)
THEOREM SwayInvariant == SwaySpec => []SwayInv
<1>1. BarInit /\ SwayInit => SwayInv
  BY SwayStarts
<1>2. SwayInv /\ [SwayNext]_<<barVars, swayVars>> => SwayInv'
  BY SwaySteps
<1> QED BY <1>1, <1>2, PTL DEF SwaySpec

(* Once a session has read what sway sent, no click is waiting for its     *)
(* command and the bar has applied what it was sent, the bar shows what    *)
(* sway has (sway.rs, run_session: the subscription comes before the       *)
(* fetch; workspaces.rs, activate_optimistic).                             *)
THEOREM BarFollowsSway == SwaySpec => []SwayFollows
<1>1. SwayInv => SwayFollows
  <2> SUFFICES ASSUME SwayInv, NEW b \in SwayBar, At(b, "read"), conn[b], sub[b] = <<>>, NoCommand
               PROVE  Drained(b) = Truth
    BY DEF SwayFollows
  <2>1. Tracks(b) /\ pc[b] = "read"
    BY DEF SwayInv, SessionInv, At
  <2>2. \A c \in Command : ~(cmds[c] > 0)
    BY DEF NoCommand
  <2> QED BY <2>1, <2>2 DEF Tracks, View
<1> QED BY <1>1, SwayInvariant, PTL

-----------------------------------------------------------------------------
(* The ext-workspace backend: the mirror and the messages it is made from. *)

Space == [name : Name, active : BOOLEAN, group : Output \cup {None}]

Message ==
  [t : {"workspace", "removed"}, h : Nat, g : {None}, v : {None}]
    \cup [t : {"name"}, h : Nat, g : {None}, v : Name]
    \cup [t : {"state"}, h : Nat, g : {None}, v : BOOLEAN]
    \cup [t : {"enter", "leave"}, h : Nat, g : Output, v : {None}]
    \cup [t : {"output", "group", "group_removed"}, h : {0}, g : Output, v : {None}]
    \cup [t : {"output_enter", "output_leave"}, h : {0}, g : Output, v : Output]
    \cup {Done}

LEMMA Messages ==
  /\ Done \in Message
  /\ \A h \in Nat : /\ Msg("workspace", h, None, None) \in Message
                    /\ Msg("removed", h, None, None) \in Message
                    /\ \A n \in Name : Msg("name", h, None, n) \in Message
                    /\ \A a \in BOOLEAN : Msg("state", h, None, a) \in Message
                    /\ \A g \in Output : /\ Msg("enter", h, g, None) \in Message
                                         /\ Msg("leave", h, g, None) \in Message
  /\ \A g \in Output : /\ Msg("output", 0, g, None) \in Message
                       /\ Msg("group", 0, g, None) \in Message
                       /\ Msg("group_removed", 0, g, None) \in Message
                       /\ Msg("output_enter", 0, g, g) \in Message
                       /\ Msg("output_leave", 0, g, g) \in Message
BY DEF Message, Msg, Done

(* What the session mirrors, as one value, and what a message makes of it. *)
App == [b |-> builders, g |-> groups, o |-> outputs]

Fresh == [name |-> None, active |-> FALSE, group |-> None]
WithName(b, n) == [b EXCEPT !.name = n]
WithActive(b, a) == [b EXCEPT !.active = a]
WithGroup(b, g) == [b EXCEPT !.group = g]

Edit(f, x, v) == IF x \in DOMAIN f THEN [f EXCEPT ![x] = v] ELSE f
OutputsIn(f, g) == IF g \in DOMAIN f THEN f[g] ELSE {}

EditKind == {"name", "state", "enter", "leave"}

Edited(b, m) ==
  IF m.t = "name" THEN WithName(b, m.v)
  ELSE IF m.t = "state" THEN WithActive(b, m.v)
  ELSE IF m.t = "enter" THEN WithGroup(b, m.g)
  ELSE Leave(b, m.g)

BuildersAfter(f, m) ==
  IF m.t = "workspace" THEN Put(f, m.h, Fresh)
  ELSE IF m.t = "removed" THEN Without(f, m.h)
  ELSE IF m.t \in EditKind THEN Edit(f, m.h, Edited(f[m.h], m))
  ELSE f

GroupsAfter(f, m) ==
  IF m.t = "group" THEN Put(f, m.g, {})
  ELSE IF m.t = "group_removed" THEN Without(f, m.g)
  ELSE IF m.t = "output_enter" THEN Put(f, m.g, OutputsIn(f, m.g) \cup {m.v})
  ELSE IF m.t = "output_leave" THEN Edit(f, m.g, f[m.g] \ {m.v})
  ELSE IF m.t = "enter" THEN Put(f, m.g, OutputsIn(f, m.g))
  ELSE f

OutputsAfter(s, m) == IF m.t = "output" THEN s \cup {m.g} ELSE s

Handled(st, m) ==
  [b |-> BuildersAfter(st.b, m), g |-> GroupsAfter(st.g, m), o |-> OutputsAfter(st.o, m)]

LEMMA EditIs ==
  ASSUME NEW f, NEW x, NEW v
  PROVE  /\ DOMAIN Edit(f, x, v) = DOMAIN f
         /\ \A y \in DOMAIN f : Edit(f, x, v)[y] = IF y = x THEN v ELSE f[y]
BY DEF Edit

LEMMA WithoutIs ==
  ASSUME NEW f, NEW x
  PROVE  /\ DOMAIN Without(f, x) = DOMAIN f \ {x}
         /\ \A y \in DOMAIN f : y # x => Without(f, x)[y] = f[y]
BY DEF Without

(* The handlers do that, one message at a time.                            *)
LEMMA MirrorHandles ==
  ASSUME Mirror
  PROVE  /\ App' = Handled(App, Head(wire)) /\ Head(wire).t # "done"
         /\ xpc = "dispatch" /\ wire # <<>> /\ wire' = Tail(wire)
         /\ UNCHANGED <<barVars, xcompVars, linked, reqs, session, sinks, task, todo>>
         /\ UNCHANGED <<by_key, last, xpc, ev>>
<1> DEFINE m == Head(wire)
<1>1. /\ xpc = "dispatch" /\ wire # <<>> /\ wire' = Tail(wire) /\ m.t # "done"
      /\ UNCHANGED <<barVars, xcompVars, linked, reqs, session, sinks, task, todo>>
      /\ UNCHANGED <<by_key, last, xpc, ev>>
  BY DEF Mirror, OnManager, OnOutputName, OnGroup, OnWorkspace, Handling, Quietly
<1>2. builders' = BuildersAfter(builders, m)
  <2>1. CASE OnManager
    BY <2>1 DEF OnManager, Handling, BuildersAfter, Fresh, EditKind
  <2>2. CASE OnOutputName
    BY <2>2 DEF OnOutputName, Handling, BuildersAfter, EditKind
  <2>3. CASE OnGroup
    BY <2>3 DEF OnGroup, Handling, BuildersAfter, SetBuilder, Edit, Edited, EditKind, WithGroup
  <2>4. CASE OnWorkspace
    BY <2>4 DEF OnWorkspace, Handling, BuildersAfter, SetBuilder, Edit, Edited, EditKind, WithName,
              WithActive
  <2> QED BY <2>1, <2>2, <2>3, <2>4 DEF Mirror
<1>3. groups' = GroupsAfter(groups, m)
  BY DEF Mirror, OnManager, OnOutputName, OnGroup, OnWorkspace, Handling, GroupsAfter,
         GroupOutputs, OutputsIn, Edit
<1>4. outputs' = OutputsAfter(outputs, m)
  BY DEF Mirror, OnManager, OnOutputName, OnGroup, OnWorkspace, Handling, OutputsAfter
<1>5. App' = Handled(App, m)
  BY <1>2, <1>3, <1>4 DEF App, Handled
<1> QED BY <1>1, <1>5

AppOK(st) ==
  /\ st.o \subseteq Output
  /\ \A h \in DOMAIN st.b : st.b[h] \in Builder

LEMMA EditedOK ==
  ASSUME NEW b \in Builder, NEW m \in Message, m.t \in EditKind
  PROVE  Edited(b, m) \in Builder
<1>1. CASE m.t = "name"
  <2>1. m.v \in Name
    BY <1>1 DEF Message, Done, Msg
  <2> QED BY <1>1, <2>1 DEF Builder, WithName, Edited
<1>2. CASE m.t = "state"
  <2>1. m.v \in BOOLEAN
    BY <1>2 DEF Message, Done, Msg
  <2> QED BY <1>2, <2>1 DEF Builder, WithActive, Edited
<1>3. CASE m.t = "enter"
  <2>1. m.g \in Output
    BY <1>3 DEF Message, Done, Msg
  <2> QED BY <1>3, <2>1 DEF Builder, WithGroup, Edited
<1>4. CASE m.t = "leave"
  BY <1>4 DEF Builder, Leave, Edited
<1> QED BY <1>1, <1>2, <1>3, <1>4 DEF EditKind

LEMMA HandledOK ==
  ASSUME NEW st, AppOK(st), NEW m \in Message
  PROVE  AppOK(Handled(st, m))
<1>1. OutputsAfter(st.o, m) \subseteq Output
  <2>1. m.t = "output" => m.g \in Output
    BY DEF Message, Done, Msg
  <2> QED BY <2>1 DEF AppOK, OutputsAfter
<1> DEFINE f == st.b
           u == BuildersAfter(f, m)
<1>2. \A h \in DOMAIN f : f[h] \in Builder
  BY DEF AppOK
<1> HIDE DEF f
<1>3. ASSUME NEW h \in DOMAIN u PROVE u[h] \in Builder
  <2>1. CASE m.t = "workspace"
    <3>1. Fresh \in Builder
      BY DEF Fresh, Builder
    <3>2. u = Put(f, m.h, Fresh)
      BY <2>1 DEF BuildersAfter
    <3> HIDE DEF u
    <3>3. /\ DOMAIN u = DOMAIN f \cup {m.h} /\ u[m.h] = Fresh
          /\ \A y \in DOMAIN f : y # m.h => u[y] = f[y]
      BY <3>2 DEF Put
    <3> QED BY <1>2, <1>3, <3>1, <3>3
  <2>2. CASE m.t = "removed"
    <3>1. u = Without(f, m.h)
      BY <2>2 DEF BuildersAfter
    <3> HIDE DEF u
    <3>2. /\ DOMAIN u = DOMAIN f \ {m.h}
          /\ \A y \in DOMAIN f : y # m.h => u[y] = f[y]
      BY <3>1, WithoutIs
    <3> QED BY <1>2, <1>3, <3>2
  <2>3. CASE m.t \in EditKind
    <3>1. \A b \in Builder : Edited(b, m) \in Builder
      BY <2>3, EditedOK
    <3>2. u = Edit(f, m.h, Edited(f[m.h], m))
      BY <2>3 DEF BuildersAfter, EditKind
    <3> HIDE DEF u
    <3>3. h \in DOMAIN f /\ u[h] = IF h = m.h THEN Edited(f[m.h], m) ELSE f[h]
      BY <1>3, <3>2, EditIs
    <3> QED BY <1>2, <3>1, <3>3
  <2>4. CASE m.t \notin EditKind \cup {"workspace", "removed"}
    BY <1>2, <1>3, <2>4 DEF BuildersAfter
  <2> QED BY <2>1, <2>2, <2>3, <2>4
<1>4. Handled(st, m) = [b |-> u, g |-> GroupsAfter(st.g, m), o |-> OutputsAfter(st.o, m)]
  BY DEF Handled, f
<1> HIDE DEF u
<1> QED BY <1>1, <1>3, <1>4 DEF AppOK

-----------------------------------------------------------------------------
(* What becomes of the mirror when a sequence of messages is handled.      *)

Reach(s, q, u) ==
  \E f : /\ f[0] = s /\ f[Len(q)] = u
         /\ \A k \in 1..Len(q) : f[k] = Handled(f[k - 1], q[k])

LEMMA ReachNone == \A s, u : Reach(s, <<>>, u) <=> u = s
<1>1. Len(<<>>) = 0 /\ 1..0 = {}
  OBVIOUS
<1>2. ASSUME NEW s, NEW u, Reach(s, <<>>, u) PROVE u = s
  BY <1>1, <1>2 DEF Reach
<1>3. ASSUME NEW s PROVE Reach(s, <<>>, s)
  <2> DEFINE f == [k \in {0} |-> s]
  <2>1. f[0] = s
    OBVIOUS
  <2> HIDE DEF f
  <2>2. f[Len(<<>>)] = s /\ \A k \in 1..Len(<<>>) : f[k] = Handled(f[k - 1], <<>>[k])
    BY <1>1, <2>1
  <2> QED BY <2>1, <2>2 DEF Reach
<1> QED BY <1>2, <1>3

LEMMA ReachShift ==
  ASSUME NEW S, NEW q \in Seq(S), q # <<>>, NEW s, NEW u, Reach(s, q, u)
  PROVE  Reach(Handled(s, Head(q)), Tail(q), u)
<1>1. PICK f : /\ f[0] = s /\ f[Len(q)] = u
               /\ \A k \in 1..Len(q) : f[k] = Handled(f[k - 1], q[k])
  BY DEF Reach
<1> DEFINE r == Tail(q)
           g == [k \in 0..Len(r) |-> f[k + 1]]
<1>2. Len(q) \in Nat /\ Len(q) # 0
  BY LenProperties, EmptySeq
<1>3. Len(r) = Len(q) - 1 /\ \A k \in 1..Len(r) : r[k] = q[k + 1]
  BY HeadTailProperties
<1>4. Head(q) = q[1]
  OBVIOUS
<1> HIDE DEF r
<1>5. ASSUME NEW k \in 1..Len(r) PROVE g[k] = Handled(g[k - 1], r[k])
  <2>1. /\ g[k] = f[k + 1] /\ g[k - 1] = f[(k + 1) - 1] /\ k + 1 \in 1..Len(q)
    BY <1>2, <1>3
  <2> QED BY <1>1, <1>3, <2>1
<1>6. g[0] = Handled(s, Head(q)) /\ g[Len(r)] = u
  <2>1. f[1] = Handled(f[1 - 1], q[1])
    BY <1>1, <1>2
  <2> QED BY <1>1, <1>2, <1>3, <1>4, <2>1
<1> HIDE DEF g
<1>7. Reach(Handled(s, Head(q)), r, u)
  BY <1>5, <1>6 DEF Reach
<1> QED BY <1>7 DEF r

LEMMA ReachJoin ==
  ASSUME NEW S, NEW q \in Seq(S), NEW r \in Seq(S), NEW s, NEW u, NEW w,
         Reach(s, q, u), Reach(u, r, w)
  PROVE  Reach(s, q \o r, w)
<1>1. PICK f : /\ f[0] = s /\ f[Len(q)] = u
               /\ \A k \in 1..Len(q) : f[k] = Handled(f[k - 1], q[k])
  BY DEF Reach
<1>2. PICK g : /\ g[0] = u /\ g[Len(r)] = w
               /\ \A k \in 1..Len(r) : g[k] = Handled(g[k - 1], r[k])
  BY DEF Reach
<1>3. /\ Len(q) \in Nat /\ Len(r) \in Nat /\ Len(q \o r) = Len(q) + Len(r)
      /\ \A k \in 1..(Len(q) + Len(r)) : (q \o r)[k] = IF k <= Len(q) THEN q[k] ELSE r[k - Len(q)]
  BY LenProperties, ConcatProperties
<1> DEFINE x == q \o r
           h == [k \in 0..Len(x) |-> IF k <= Len(q) THEN f[k] ELSE g[k - Len(q)]]
<1> HIDE DEF x
<1>4. ASSUME NEW k \in 1..Len(x) PROVE h[k] = Handled(h[k - 1], x[k])
  <2>1. CASE k <= Len(q)
    <3>1. h[k] = f[k] /\ h[k - 1] = f[k - 1] /\ x[k] = q[k] /\ k \in 1..Len(q)
      BY <1>3, <2>1 DEF x
    <3> QED BY <1>1, <3>1
  <2>2. CASE k = Len(q) + 1
    <3>1. h[k] = g[1] /\ h[k - 1] = f[Len(q)] /\ x[k] = r[1] /\ 1 \in 1..Len(r)
      BY <1>3, <2>2 DEF x
    <3>2. g[1] = Handled(g[1 - 1], r[1])
      BY <1>2, <3>1
    <3> QED BY <1>1, <1>2, <3>1, <3>2
  <2>3. CASE k > Len(q) + 1
    <3>1. /\ h[k] = g[k - Len(q)] /\ h[k - 1] = g[(k - Len(q)) - 1]
          /\ x[k] = r[k - Len(q)] /\ k - Len(q) \in 1..Len(r)
      BY <1>3, <2>3 DEF x
    <3> QED BY <1>2, <3>1
  <2> QED BY <1>3, <2>1, <2>2, <2>3 DEF x
<1>5. h[0] = s /\ h[Len(x)] = w
  <2>1. CASE Len(r) = 0
    <3>1. w = u /\ Len(x) = Len(q)
      BY <1>2, <1>3, <2>1 DEF x
    <3> QED BY <1>1, <1>3, <3>1
  <2>2. CASE Len(r) # 0
    <3>1. ~(Len(x) <= Len(q)) /\ Len(x) - Len(q) = Len(r) /\ Len(x) \in 0..Len(x)
      BY <1>3, <2>2 DEF x
    <3> QED BY <1>1, <1>2, <1>3, <3>1
  <2> QED BY <2>1, <2>2
<1> HIDE DEF h
<1>6. Reach(s, x, w)
  BY <1>4, <1>5 DEF Reach
<1> QED BY <1>6 DEF x

LEMMA ReachOne == \A s, m : Reach(s, <<m>>, Handled(s, m))
<1> SUFFICES ASSUME NEW s, NEW m PROVE Reach(s, <<m>>, Handled(s, m))
  OBVIOUS
<1> DEFINE f == [k \in 0..1 |-> IF k = 0 THEN s ELSE Handled(s, m)]
<1>1. Len(<<m>>) = 1 /\ <<m>>[1] = m /\ f[0] = s /\ f[1] = Handled(s, m)
  OBVIOUS
<1> HIDE DEF f
<1>2. \A k \in 1..Len(<<m>>) : f[k] = Handled(f[k - 1], <<m>>[k])
  <2> SUFFICES ASSUME NEW k \in 1..1 PROVE f[k] = Handled(f[k - 1], <<m>>[k])
    BY <1>1
  <2>1. k = 1 /\ k - 1 = 0
    OBVIOUS
  <2> QED BY <1>1, <2>1
<1> QED BY <1>1, <1>2 DEF Reach

(* A step at a time.                                                       *)
LEMMA ReachStep ==
  ASSUME NEW S, NEW q \in Seq(S), NEW m \in S, NEW s, NEW u, Reach(s, q, u)
  PROVE  Reach(s, q \o <<m>>, Handled(u, m))
<1>1. <<m>> \in Seq(S)
  OBVIOUS
<1> QED BY <1>1, ReachOne, ReachJoin

(* Every sequence is handled somehow.                                      *)
LEMMA ReachExists ==
  ASSUME NEW s, NEW q, Len(q) \in Nat
  PROVE  \E u : Reach(s, q, u)
<1> DEFINE Upto(f, n) == f[0] = s /\ \A k \in 1..n : f[k] = Handled(f[k - 1], q[k])
           T == {n \in 0..Len(q) : \E f : Upto(f, n)}
<1>1. 0 \in T
  <2> DEFINE f == [k \in {0} |-> s]
  <2>1. f[0] = s /\ 1..0 = {}
    OBVIOUS
  <2> HIDE DEF f
  <2>2. Upto(f, 0)
    BY <2>1
  <2> HIDE DEF Upto
  <2> QED BY <2>2
<1>2. ASSUME NEW n \in 0..Len(q), n \in T, n < Len(q) PROVE n + 1 \in T
  <2>1. PICK f : Upto(f, n)
    BY <1>2
  <2> DEFINE g == [k \in 0..(n + 1) |-> IF k \in 0..n THEN f[k] ELSE Handled(f[n], q[n + 1])]
  <2>2. ASSUME NEW k \in 1..(n + 1) PROVE g[k] = Handled(g[k - 1], q[k])
    <3>1. CASE k = n + 1
      <4>1. g[k] = Handled(f[n], q[n + 1]) /\ g[k - 1] = f[n]
        BY <3>1
      <4> QED BY <3>1, <4>1
    <3>2. CASE k \in 1..n
      <4>1. g[k] = f[k] /\ g[k - 1] = f[k - 1]
        BY <3>2
      <4> QED BY <2>1, <3>2, <4>1
    <3> QED BY <3>1, <3>2
  <2>3. g[0] = s
    BY <2>1
  <2> HIDE DEF g
  <2>4. Upto(g, n + 1)
    BY <2>2, <2>3
  <2> HIDE DEF Upto
  <2> QED BY <1>2, <2>4
<1>3. Len(q) \in T
  <2> HIDE DEF T
  <2>1. 0..Len(q) \subseteq T
    BY <1>1, <1>2, Climb
  <2> QED BY <2>1
<1>4. PICK f : Upto(f, Len(q))
  BY <1>3
<1> QED BY <1>4 DEF Reach

(* A sequence of edits: of every workspace named in it the builder is in   *)
(* the end what one edit makes of it, when a second one changes nothing.   *)
Sweeps(s, q, e) ==
  \A k \in 1..Len(q) :
    /\ q[k].t \in EditKind /\ (q[k].t = "enter" => q[k].g \in DOMAIN s.g)
    /\ q[k].h \in DOMAIN s.b =>
         /\ Edited(s.b[q[k].h], q[k]) = e[q[k].h]
         /\ Edited(e[q[k].h], q[k]) = e[q[k].h]

Swept(s, q, u, e) ==
  /\ DOMAIN u.b = DOMAIN s.b /\ u.o = s.o
  /\ DOMAIN u.g = DOMAIN s.g /\ \A x \in DOMAIN s.g : u.g[x] = s.g[x]
  /\ \A x \in DOMAIN s.b : /\ (\E k \in 1..Len(q) : q[k].h = x) => u.b[x] = e[x]
                           /\ (\A k \in 1..Len(q) : q[k].h # x) => u.b[x] = s.b[x]

LEMMA EditsReach ==
  ASSUME NEW s, NEW q, Len(q) \in Nat, NEW u, Reach(s, q, u), NEW e, Sweeps(s, q, e)
  PROVE  Swept(s, q, u, e)
<1>1. PICK f : /\ f[0] = s /\ f[Len(q)] = u
               /\ \A k \in 1..Len(q) : f[k] = Handled(f[k - 1], q[k])
  BY DEF Reach
<1> DEFINE Part(k) ==
             /\ DOMAIN f[k].b = DOMAIN s.b /\ f[k].o = s.o
             /\ DOMAIN f[k].g = DOMAIN s.g /\ \A x \in DOMAIN s.g : f[k].g[x] = s.g[x]
             /\ \A x \in DOMAIN s.b : /\ (\E i \in 1..k : q[i].h = x) => f[k].b[x] = e[x]
                                      /\ (\A i \in 1..k : q[i].h # x) => f[k].b[x] = s.b[x]
           T == {k \in 0..Len(q) : Part(k)}
<1>2. 0 \in T
  <2>1. 1..0 = {}
    OBVIOUS
  <2> QED BY <1>1, <2>1
<1>3. ASSUME NEW k \in 0..Len(q), k \in T, k < Len(q) PROVE k + 1 \in T
  <2>1. k + 1 \in 1..Len(q) /\ (k + 1) - 1 = k /\ k + 1 \in 0..Len(q)
    BY <1>3
  <2> DEFINE m == q[k + 1]
             c == f[k]
  <2>2. f[k + 1] = Handled(c, m) /\ m.t \in EditKind /\ (m.t = "enter" => m.g \in DOMAIN s.g)
    BY <1>1, <2>1 DEF Sweeps
  <2>3. /\ f[k + 1].b = BuildersAfter(c.b, m) /\ f[k + 1].g = GroupsAfter(c.g, m)
        /\ f[k + 1].o = OutputsAfter(c.o, m)
    BY <2>2 DEF Handled
  <2>4. f[k + 1].b = Edit(c.b, m.h, Edited(c.b[m.h], m)) /\ f[k + 1].o = c.o
    BY <2>2, <2>3 DEF BuildersAfter, EditKind, OutputsAfter
  <2>5. /\ DOMAIN f[k + 1].b = DOMAIN c.b
        /\ \A x \in DOMAIN c.b : f[k + 1].b[x] = IF x = m.h THEN Edited(c.b[m.h], m) ELSE c.b[x]
    BY <2>4, EditIs
  <2>6. Part(k)
    BY <1>3
  <2>7. DOMAIN f[k + 1].g = DOMAIN s.g /\ \A x \in DOMAIN s.g : f[k + 1].g[x] = s.g[x]
    <3>1. CASE m.t = "enter"
      <4>1. f[k + 1].g = Put(c.g, m.g, OutputsIn(c.g, m.g))
        BY <2>3, <3>1 DEF GroupsAfter
      <4>2. OutputsIn(c.g, m.g) = c.g[m.g] /\ m.g \in DOMAIN c.g
        BY <2>2, <2>6, <3>1 DEF OutputsIn
      <4> HIDE DEF m, c
      <4>3. DOMAIN f[k + 1].g = DOMAIN c.g /\ \A x \in DOMAIN c.g : f[k + 1].g[x] = c.g[x]
        BY <4>1, <4>2 DEF Put
      <4> QED BY <2>6, <4>3 DEF c
    <3>2. CASE m.t # "enter"
      <4>1. f[k + 1].g = c.g
        BY <2>2, <2>3, <3>2 DEF GroupsAfter, EditKind
      <4> QED BY <2>6, <4>1
    <3> QED BY <3>1, <3>2
  <2>8. ASSUME NEW x \in DOMAIN s.b
        PROVE  /\ (\E i \in 1..(k + 1) : q[i].h = x) => f[k + 1].b[x] = e[x]
               /\ (\A i \in 1..(k + 1) : q[i].h # x) => f[k + 1].b[x] = s.b[x]
    <3>1. c.b[x] \in {s.b[x], e[x]}
      BY <2>6
    <3>2. CASE x = m.h
      <4>1. Edited(s.b[x], m) = e[x] /\ Edited(e[x], m) = e[x]
        BY <2>1, <3>2 DEF Sweeps
      <4>2. f[k + 1].b[x] = Edited(c.b[x], m)
        BY <2>5, <2>6, <3>2
      <4>3. f[k + 1].b[x] = e[x]
        BY <3>1, <4>1, <4>2
      <4>4. k + 1 \in 1..(k + 1)
        BY <1>3
      <4> QED BY <3>2, <4>3, <4>4
    <3>3. CASE x # m.h
      <4>1. f[k + 1].b[x] = c.b[x]
        BY <2>5, <2>6, <3>3
      <4>2. \A i \in 1..(k + 1) : q[i].h = x => i \in 1..k
        BY <1>3, <3>3
      <4>3. 1..k \subseteq 1..(k + 1)
        BY <1>3
      <4> QED BY <2>6, <4>1, <4>2, <4>3
    <3> QED BY <3>2, <3>3
  <2>9. Part(k + 1)
    BY <2>4, <2>5, <2>6, <2>7, <2>8
  <2> HIDE DEF Part
  <2> QED BY <2>1, <2>9
<1>4. Part(Len(q))
  <2> HIDE DEF T
  <2>1. 0..Len(q) \subseteq T
    BY <1>2, <1>3, Climb
  <2>2. Len(q) \in T
    BY <2>1
  <2> QED BY <2>2 DEF T
<1> QED BY <1>1, <1>4 DEF Swept

-----------------------------------------------------------------------------
(* The sequences the compositor's messages are sent in: what is in them.   *)

Covers(q, M) == q \in Seq(M) /\ \A m \in M : \E k \in 1..Len(q) : q[k] = m

LEMMA CoversSet == ASSUME NEW S, IsFiniteSet(S) PROVE Covers(SetToSeq(S), S)
<1> DEFINE n == Cardinality(S)
           q == SetToSeq(S)
<1>1. n \in Nat /\ ExistsBijection(1..n, S)
  BY FS_CardinalityType
<1>2. n \in Nat /\ \E f \in [1..n -> S] : IsInjective(f)
  BY <1>1 DEF ExistsBijection, Bijection, Injection
<1>3. q = CHOOSE f \in [1..n -> S] : IsInjective(f)
  BY DEF SetToSeq
<1>4. q \in [1..n -> S] /\ IsInjective(q)
  <2> HIDE DEF n, q
  <2> QED BY <1>2, <1>3
<1>5. \A x \in S : \E k \in 1..n : q[k] = x
  <2>1. q \in Injection(1..n, S)
    BY <1>4 DEF Injection
  <2>2. Cardinality(1..n) = n
    <3> HIDE DEF n
    <3>1. 1 \in Int /\ n \in Int /\ (1 > n => n = 0)
      BY <1>2
    <3>2. Cardinality(1..n) = IF 1 > n THEN 0 ELSE n - 1 + 1
      BY <3>1, FS_Interval
    <3> QED BY <1>2, <3>1, <3>2
  <2>3. q \in Surjection(1..n, S)
    BY <2>1, <2>2, FS_Injection
  <2> QED BY <2>3 DEF Surjection
<1>6. q \in Seq(S) /\ Len(q) = n
  <2> HIDE DEF n, q
  <2> QED BY <1>2, <1>4, SeqDef, LenProperties
<1> QED BY <1>5, <1>6 DEF Covers

LEMMA CoversJoin ==
  ASSUME NEW q, NEW r, NEW A, NEW B, Covers(q, A), Covers(r, B)
  PROVE  Covers(q \o r, A \cup B)
<1>1. q \in Seq(A \cup B) /\ r \in Seq(A \cup B)
  BY DEF Covers
<1>2. /\ q \o r \in Seq(A \cup B) /\ Len(q \o r) = Len(q) + Len(r)
      /\ \A k \in 1..(Len(q) + Len(r)) : (q \o r)[k] = IF k <= Len(q) THEN q[k] ELSE r[k - Len(q)]
  BY <1>1, ConcatProperties
<1>3. Len(q) \in Nat /\ Len(r) \in Nat
  BY <1>1, LenProperties
<1>4. ASSUME NEW m \in A PROVE \E k \in 1..Len(q \o r) : (q \o r)[k] = m
  <2>1. PICK k \in 1..Len(q) : q[k] = m
    BY DEF Covers
  <2> QED BY <1>2, <1>3, <2>1
<1>5. ASSUME NEW m \in B PROVE \E k \in 1..Len(q \o r) : (q \o r)[k] = m
  <2>1. PICK k \in 1..Len(r) : r[k] = m
    BY DEF Covers
  <2>2. /\ Len(q) + k \in 1..(Len(q) + Len(r)) /\ ~(Len(q) + k <= Len(q))
        /\ (Len(q) + k) - Len(q) = k
    BY <1>3, <2>1
  <2> QED BY <1>2, <2>1, <2>2
<1> QED BY <1>2, <1>4, <1>5 DEF Covers

LEMMA CoversOne == \A m : Covers(<<m>>, {m})
<1> SUFFICES ASSUME NEW m PROVE Covers(<<m>>, {m})
  OBVIOUS
<1>1. <<m>> \in Seq({m}) /\ Len(<<m>>) = 1 /\ <<m>>[1] = m
  OBVIOUS
<1> QED BY <1>1 DEF Covers

(* One message for each element of a sequence of others.                   *)
LEMMA CoversEach ==
  ASSUME NEW S, NEW q \in Seq(S), NEW f \in [DOMAIN q -> Message]
  PROVE  f \in Seq(Message) /\ Len(f) = Len(q)
<1>1. Len(q) \in Nat /\ DOMAIN q = 1..Len(q)
  BY LenProperties
<1> HIDE DEF Message
<1> QED BY <1>1, SeqDef, LenProperties

(* Messages of a finite set of workspaces, in some order.                  *)
LEMMA CoversImage ==
  ASSUME NEW S, IsFiniteSet(S), NEW f \in [S -> Message]
  PROVE  Covers(SetToSeq({f[x] : x \in S}), {f[x] : x \in S})
<1> DEFINE T == {f[x] : x \in S}
<1>1. f \in Surjection(S, T)
  BY DEF Surjection
<1>2. IsFiniteSet(T)
  BY <1>1, FS_Surjection
<1> QED BY <1>2, CoversSet

LEMMA HandledEdit ==
  ASSUME NEW st, NEW m, m.t \in EditKind, m.t = "enter" => m.g \in DOMAIN st.g, NEW u,
         u = Handled(st, m)
  PROVE  /\ DOMAIN u.b = DOMAIN st.b /\ u.o = st.o
         /\ \A x \in DOMAIN st.b : u.b[x] = IF x = m.h THEN Edited(st.b[x], m) ELSE st.b[x]
         /\ DOMAIN u.g = DOMAIN st.g /\ \A x \in DOMAIN st.g : u.g[x] = st.g[x]
<1> DEFINE b == st.b
           g == st.g
<1>1. /\ u.b = BuildersAfter(b, m) /\ u.g = GroupsAfter(g, m) /\ u.o = OutputsAfter(st.o, m)
  BY DEF Handled
<1>2. u.b = Edit(b, m.h, Edited(b[m.h], m)) /\ u.o = st.o
  BY <1>1 DEF BuildersAfter, EditKind, OutputsAfter
<1> HIDE DEF b, g
<1>3. /\ DOMAIN u.b = DOMAIN b
      /\ \A x \in DOMAIN b : u.b[x] = IF x = m.h THEN Edited(b[m.h], m) ELSE b[x]
  BY <1>2, EditIs
<1>4. DOMAIN u.g = DOMAIN g /\ \A x \in DOMAIN g : u.g[x] = g[x]
  <2>1. CASE m.t = "enter"
    <3>1. u.g = Put(g, m.g, OutputsIn(g, m.g))
      BY <1>1, <2>1 DEF GroupsAfter
    <3>2. OutputsIn(g, m.g) = g[m.g] /\ m.g \in DOMAIN g
      BY <2>1 DEF OutputsIn, g
    <3> QED BY <3>1, <3>2 DEF Put
  <2>2. CASE m.t # "enter"
    BY <1>1, <2>2 DEF GroupsAfter, EditKind
  <2> QED BY <2>1, <2>2
<1> QED BY <1>2, <1>3, <1>4 DEF b, g

(* The edits M leave e of every workspace they name, and nothing else new. *)
EditedBy(s, u, M, e) ==
  /\ DOMAIN u.b = DOMAIN s.b /\ u.o = s.o
  /\ DOMAIN u.g = DOMAIN s.g /\ \A x \in DOMAIN s.g : u.g[x] = s.g[x]
  /\ \A x \in DOMAIN s.b : u.b[x] = IF \E m \in M : m.h = x THEN e[x] ELSE s.b[x]

LEMMA EditsCover ==
  ASSUME NEW M, NEW q, Covers(q, M), NEW s, NEW e,
         \A m \in M :
           /\ m.t \in EditKind /\ (m.t = "enter" => m.g \in DOMAIN s.g)
           /\ m.h \in DOMAIN s.b => Edited(s.b[m.h], m) = e[m.h] /\ Edited(e[m.h], m) = e[m.h]
  PROVE  \E u : Reach(s, q, u) /\ EditedBy(s, u, M, e)
<1>1. q \in Seq(M) /\ Len(q) \in Nat /\ \A k \in 1..Len(q) : q[k] \in M
  BY LenProperties, ElementOfSeq DEF Covers
<1>2. PICK u : Reach(s, q, u)
  BY <1>1, ReachExists
<1>3. Sweeps(s, q, e)
  BY <1>1 DEF Sweeps
<1>4. Swept(s, q, u, e)
  BY <1>1, <1>2, <1>3, EditsReach
<1>5. ASSUME NEW x \in DOMAIN s.b
      PROVE  u.b[x] = IF \E m \in M : m.h = x THEN e[x] ELSE s.b[x]
  <2>1. CASE \E m \in M : m.h = x
    <3>1. \E k \in 1..Len(q) : q[k].h = x
      BY <2>1 DEF Covers
    <3> QED BY <1>4, <1>5, <2>1, <3>1 DEF Swept
  <2>2. CASE \A m \in M : m.h # x
    <3>1. \A k \in 1..Len(q) : q[k].h # x
      BY <1>1, <2>2
    <3> QED BY <1>4, <1>5, <2>2, <3>1 DEF Swept
  <2> QED BY <2>1, <2>2
<1> QED BY <1>2, <1>4, <1>5 DEF EditedBy, Swept

-----------------------------------------------------------------------------
(* The mirror of what the compositor has, and the moves of the compositor. *)

LiveType ==
  /\ used \in Nat /\ monitors \subseteq Output /\ DOMAIN live \subseteq 1..used
  /\ \A h \in DOMAIN live : live[h] \in Space /\ live[h].group \in monitors \cup {None}

(* The mirror st shows the workspaces lv on the outputs ms; a group that   *)
(* has gone may still be the one of a builder.                             *)
Matches(ms, lv, st) ==
  /\ DOMAIN st.b = DOMAIN lv
  /\ \A h \in DOMAIN lv :
       /\ st.b[h] \in Builder /\ st.b[h].name = lv[h].name /\ st.b[h].active = lv[h].active
       /\ IF lv[h].group = None THEN st.b[h].group \notin ms ELSE st.b[h].group = lv[h].group
  /\ DOMAIN st.g = ms /\ \A g \in ms : st.g[g] = {g}
  /\ ms \subseteq st.o

(* A client that mirrors the compositor and handles msgs mirrors it still. *)
Carries(msgs) ==
  \A st : Matches(monitors, live, st) =>
    \E u : Reach(st, msgs, u) /\ Matches(monitors', live', u)

Moved == LiveType' /\ \E msgs \in Seq(Message) : Tell(msgs) /\ Carries(msgs)

LEMMA FiniteLive == ASSUME LiveType PROVE IsFiniteSet(DOMAIN live) /\ IsFiniteSet(monitors)
<1>1. IsFiniteSet(monitors)
  BY ExtAssumption, FS_Subset DEF LiveType
<1>2. IsFiniteSet(1..used)
  BY FS_Interval DEF LiveType
<1> QED BY <1>1, <1>2, FS_Subset DEF LiveType

LEMMA WithIs ==
  ASSUME NEW b \in Builder, NEW a \in BOOLEAN, NEW w, w = WithActive(b, a)
  PROVE  w \in Builder /\ w.name = b.name /\ w.group = b.group /\ w.active = a
BY DEF WithActive, Builder

LEMMA MakeActiveMoves ==
  ASSUME LiveType, NEW h \in DOMAIN live, MakeActive(h) PROVE Moved
<1> DEFINE old == {x \in DOMAIN live : x # h /\ live[x].active /\ live[x].group = live[h].group}
           M == {Msg("state", x, None, FALSE) : x \in old}
           N == M \cup {Msg("state", h, None, TRUE)}
           q == SetToSeq(M) \o <<Msg("state", h, None, TRUE)>>
<1>1. DOMAIN live \subseteq Nat
  BY DEF LiveType
<1>2. Covers(q, N)
  <2>1. IsFiniteSet(old)
    BY FiniteLive, FS_Subset
  <2> DEFINE f == [x \in old |-> Msg("state", x, None, FALSE)]
  <2>2. f \in [old -> Message] /\ M = {f[x] : x \in old}
    BY <1>1, Messages
  <2>3. Covers(SetToSeq(M), M)
    <3> HIDE DEF f, M, old
    <3> QED BY <2>1, <2>2, CoversImage
  <2> HIDE DEF M
  <2> QED BY <2>3, CoversOne, CoversJoin
<1>3. q \in Seq(Message)
  <2>1. N \subseteq Message
    BY <1>1, Messages
  <2> HIDE DEF N, q, Message
  <2> QED BY <1>2, <2>1, SeqMonotonic DEF Covers
<1>4. Tell(q)
  BY DEF MakeActive
<1>5. /\ monitors' = monitors /\ used' = used /\ DOMAIN live' = DOMAIN live
      /\ \A x \in DOMAIN live :
           live'[x] = WithActive(live[x], x = h \/ (live[x].active /\ x \notin old))
  BY DEF MakeActive, WithActive
<1>6. \A x \in DOMAIN live : live[x] \in Space /\ live[x] \in Builder
  BY DEF LiveType, Space, Builder
<1> DEFINE On(x) == IF x = h THEN TRUE ELSE IF x \in old THEN FALSE ELSE live[x].active
<1>7. ASSUME NEW x \in DOMAIN live
      PROVE  /\ live'[x] \in Space /\ On(x) \in BOOLEAN
             /\ live'[x].name = live[x].name /\ live'[x].group = live[x].group
             /\ live'[x].active = On(x)
  <2>1. live[x].active \in BOOLEAN
    BY <1>6 DEF Space
  <2>2. On(x) \in BOOLEAN
    BY <2>1
  <2>3. (x = h \/ (live[x].active /\ x \notin old)) = On(x)
    <3>1. CASE x = h
      BY <3>1
    <3>2. CASE x # h /\ x \in old
      BY <3>2
    <3>3. CASE x # h /\ x \notin old
      <4> HIDE DEF old
      <4>1. On(x) = live[x].active
        BY <3>3
      <4>2. live[x].active = TRUE \/ live[x].active = FALSE
        BY <2>1
      <4> QED BY <3>3, <4>1, <4>2
    <3> QED BY <3>1, <3>2, <3>3
  <2>4. live'[x] = WithActive(live[x], On(x))
    BY <1>5, <2>3
  <2> HIDE DEF On
  <2>5. live'[x] \in Builder /\ live'[x].name = live[x].name /\ live'[x].group = live[x].group
        /\ live'[x].active = On(x)
    BY <1>6, <2>2, <2>4, WithIs
  <2>6. live'[x].name \in Name
    BY <1>6, <2>5 DEF Space
  <2>7. live'[x] \in Space
    BY <2>5, <2>6 DEF Space, Builder
  <2> QED BY <2>2, <2>5, <2>7
<1> HIDE DEF On
<1>8. LiveType'
  BY <1>5, <1>7 DEF LiveType
<1>9. Carries(q)
  <2> SUFFICES ASSUME NEW st, Matches(monitors, live, st)
               PROVE  \E u : Reach(st, q, u) /\ Matches(monitors', live', u)
    BY DEF Carries
  <2> DEFINE e == [x \in DOMAIN st.b |-> WithActive(st.b[x], IF x = h THEN TRUE ELSE FALSE)]
  <2>1. ASSUME NEW m \in N
        PROVE  m.t = "state" /\ m.h \in old \cup {h} /\ m.v = IF m.h = h THEN TRUE ELSE FALSE
    <3>1. CASE m \in M
      <4>1. PICK x \in old : m = Msg("state", x, None, FALSE)
        BY <3>1
      <4>2. m.t = "state" /\ m.h = x /\ m.v = FALSE
        BY <4>1 DEF Msg
      <4> QED BY <4>2
    <3>2. CASE m = Msg("state", h, None, TRUE)
      BY <3>2 DEF Msg
    <3> QED BY <3>1, <3>2
  <2>2. ASSUME NEW m \in N, m.h \in DOMAIN st.b
        PROVE  Edited(st.b[m.h], m) = e[m.h] /\ Edited(e[m.h], m) = e[m.h]
    <3>1. st.b[m.h] \in Builder
      BY <2>2 DEF Matches
    <3> DEFINE b == st.b[m.h]
    <3>2. e[m.h] = WithActive(b, m.v)
      BY <2>1, <2>2
    <3>3. m.t = "state"
      BY <2>1
    <3> HIDE DEF e, N
    <3>4. WithActive(WithActive(b, m.v), m.v) = WithActive(b, m.v)
      BY <3>1 DEF WithActive, Builder
    <3> QED BY <3>2, <3>3, <3>4 DEF Edited
  <2>3. \A x \in DOMAIN st.b : e[x] = WithActive(st.b[x], IF x = h THEN TRUE ELSE FALSE)
    OBVIOUS
  <2> HIDE DEF e
  <2>4. PICK u : Reach(st, q, u) /\ EditedBy(st, u, N, e)
    <3>1. \A m \in N :
            /\ m.t \in EditKind /\ (m.t = "enter" => m.g \in DOMAIN st.g)
            /\ m.h \in DOMAIN st.b => Edited(st.b[m.h], m) = e[m.h] /\ Edited(e[m.h], m) = e[m.h]
      BY <2>1, <2>2 DEF EditKind
    <3> HIDE DEF q, N
    <3> QED BY <1>2, <3>1, EditsCover
  <2>5. \A x : (\E m \in N : m.h = x) <=> x \in old \cup {h}
    <3>1. \A x \in old : Msg("state", x, None, FALSE) \in N /\ Msg("state", x, None, FALSE).h = x
      BY DEF Msg
    <3>2. Msg("state", h, None, TRUE) \in N /\ Msg("state", h, None, TRUE).h = h
      BY DEF Msg
    <3> HIDE DEF N
    <3> QED BY <2>1, <3>1, <3>2
  <2>6. ASSUME NEW x \in DOMAIN live
        PROVE  /\ u.b[x] \in Builder /\ u.b[x].name = st.b[x].name /\ u.b[x].group = st.b[x].group
               /\ u.b[x].active = On(x)
    <3>1. /\ x \in DOMAIN st.b /\ st.b[x] \in Builder /\ st.b[x].active = live[x].active
          /\ u.b[x] = IF \E m \in N : m.h = x THEN e[x] ELSE st.b[x]
      BY <2>4 DEF Matches, EditedBy
    <3>2. u.b[x] = IF x \in old \cup {h} THEN e[x] ELSE st.b[x]
      <4> HIDE DEF N
      <4> QED BY <2>5, <3>1
    <3>3. CASE x \in old \cup {h}
      <4>1. u.b[x] = WithActive(st.b[x], IF x = h THEN TRUE ELSE FALSE)
        BY <2>3, <3>1, <3>2, <3>3
      <4>2. On(x) = IF x = h THEN TRUE ELSE FALSE
        BY <3>3 DEF On
      <4>3. PICK a \in BOOLEAN : a = On(x)
        BY <1>7
      <4>4. u.b[x] = WithActive(st.b[x], a)
        BY <4>1, <4>2, <4>3
      <4>5. u.b[x] \in Builder /\ u.b[x].name = st.b[x].name /\ u.b[x].group = st.b[x].group
            /\ u.b[x].active = a
        BY <3>1, <4>4 DEF WithActive, Builder
      <4> QED BY <4>3, <4>5
    <3>4. CASE x \notin old \cup {h}
      BY <3>1, <3>2, <3>4 DEF On
    <3> QED BY <3>3, <3>4
  <2>7. Matches(monitors', live', u)
    BY <1>5, <1>7, <2>4, <2>6 DEF Matches, EditedBy
  <2> QED BY <2>4, <2>7
<1> HIDE DEF q
<1> QED BY <1>3, <1>4, <1>8, <1>9 DEF Moved

LEMMA AnnounceTyped ==
  ASSUME NEW h \in Nat, NEW w \in Space PROVE Announce(h, w) \in Seq(Message)
<1> DEFINE m1 == Msg("workspace", h, None, None)
           m2 == Msg("name", h, None, w.name)
           m3 == Msg("state", h, None, w.active)
           m4 == Msg("enter", h, w.group, None)
<1>1. /\ m1 \in Message /\ m2 \in Message /\ m3 \in Message
      /\ w.group # None => m4 \in Message
  BY Messages DEF Space
<1>2. Announce(h, w) = <<m1, m2, m3>> \o IF w.group = None THEN <<>> ELSE <<m4>>
  BY DEF Announce
<1> HIDE DEF m1, m2, m3, m4, Message
<1> QED BY <1>1, <1>2

(* The mirror u is st with the workspace w and handle h, or without h.     *)
Gains(st, u, h, w) ==
  /\ DOMAIN u.b = DOMAIN st.b \cup {h} /\ u.b[h] = w /\ u.o = st.o
  /\ \A x \in DOMAIN st.b : x # h => u.b[x] = st.b[x]
  /\ DOMAIN u.g = DOMAIN st.g /\ \A x \in DOMAIN st.g : u.g[x] = st.g[x]

Drops(st, u, h) ==
  /\ DOMAIN u.b = DOMAIN st.b \ {h} /\ u.o = st.o
  /\ \A x \in DOMAIN st.b : x # h => u.b[x] = st.b[x]
  /\ DOMAIN u.g = DOMAIN st.g /\ \A x \in DOMAIN st.g : u.g[x] = st.g[x]

LEMMA Pair == \A a, b : <<a, b>> = <<a>> \o <<b>>
<1> SUFFICES ASSUME NEW a, NEW b PROVE <<a, b>> = <<a>> \o <<b>>
  OBVIOUS
<1> DEFINE S == {a, b}
           q == <<a>>
           r == <<b>>
           x == <<a, b>>
<1>1. /\ q \in Seq(S) /\ Len(q) = 1 /\ q[1] = a
      /\ r \in Seq(S) /\ Len(r) = 1 /\ r[1] = b
      /\ x \in Seq(S) /\ Len(x) = 2 /\ x[1] = a /\ x[2] = b
  OBVIOUS
<1> HIDE DEF S, q, r, x
<1>2. /\ q \o r \in Seq(S) /\ Len(q \o r) = 2
      /\ \A i \in 1..2 : (q \o r)[i] = IF i <= 1 THEN q[i] ELSE r[i - 1]
  <2>1. /\ q \o r \in Seq(S) /\ Len(q \o r) = Len(q) + Len(r)
        /\ \A i \in 1..(Len(q) + Len(r)) :
             (q \o r)[i] = IF i <= Len(q) THEN q[i] ELSE r[i - Len(q)]
    BY <1>1, ConcatProperties
  <2> QED BY <1>1, <2>1
<1>3. \A i \in 1..2 : x[i] = (q \o r)[i]
  BY <1>1, <1>2
<1>4. x = q \o r
  BY <1>1, <1>2, <1>3, SeqEqual
<1> QED BY <1>4 DEF q, r, x

LEMMA AnnounceReach ==
  ASSUME NEW st, NEW h \in Nat, NEW w \in Space, w.group = None \/ w.group \in DOMAIN st.g
  PROVE  \E u : Reach(st, Announce(h, w), u) /\ Gains(st, u, h, w)
<1> DEFINE m1 == Msg("workspace", h, None, None)
           m2 == Msg("name", h, None, w.name)
           m3 == Msg("state", h, None, w.active)
           m4 == Msg("enter", h, w.group, None)
           s1 == Handled(st, m1)
           s2 == Handled(s1, m2)
           s3 == Handled(s2, m3)
           s4 == Handled(s3, m4)
<1>1. /\ m1 \in Message /\ m2 \in Message /\ m3 \in Message
      /\ w.group # None => m4 \in Message
  BY Messages DEF Space
<1>2. /\ s1.b = Put(st.b, h, Fresh) /\ s1.g = st.g /\ s1.o = st.o
  BY DEF Handled, Msg, BuildersAfter, GroupsAfter, OutputsAfter
<1>3. /\ DOMAIN s1.b = DOMAIN st.b \cup {h} /\ s1.b[h] = Fresh
      /\ \A x \in DOMAIN st.b : x # h => s1.b[x] = st.b[x]
  <2> DEFINE b == st.b
  <2>1. s1.b = Put(b, h, Fresh)
    BY <1>2
  <2> HIDE DEF s1, b
  <2>2. /\ DOMAIN s1.b = DOMAIN b \cup {h} /\ s1.b[h] = Fresh
        /\ \A x \in DOMAIN b : x # h => s1.b[x] = b[x]
    BY <2>1 DEF Put
  <2> QED BY <2>2 DEF b
<1>4. /\ DOMAIN s2.b = DOMAIN s1.b /\ s2.o = s1.o
      /\ \A x \in DOMAIN s1.b : s2.b[x] = IF x = h THEN WithName(s1.b[x], w.name) ELSE s1.b[x]
      /\ DOMAIN s2.g = DOMAIN s1.g /\ \A x \in DOMAIN s1.g : s2.g[x] = s1.g[x]
  <2>1. m2.t = "name" /\ m2.h = h /\ m2.v = w.name
    BY DEF Msg
  <2> HIDE DEF m2, s1
  <2>2. /\ DOMAIN s2.b = DOMAIN s1.b /\ s2.o = s1.o
        /\ \A x \in DOMAIN s1.b : s2.b[x] = IF x = m2.h THEN Edited(s1.b[x], m2) ELSE s1.b[x]
        /\ DOMAIN s2.g = DOMAIN s1.g /\ \A x \in DOMAIN s1.g : s2.g[x] = s1.g[x]
    <3>1. m2.t \in EditKind /\ (m2.t = "enter" => m2.g \in DOMAIN s1.g)
      BY <2>1 DEF EditKind
    <3> QED BY <3>1, HandledEdit
  <2>3. \A b : Edited(b, m2) = WithName(b, w.name)
    BY <2>1 DEF Edited
  <2> QED BY <2>1, <2>2, <2>3
<1>5. /\ DOMAIN s3.b = DOMAIN s2.b /\ s3.o = s2.o
      /\ \A x \in DOMAIN s2.b : s3.b[x] = IF x = h THEN WithActive(s2.b[x], w.active) ELSE s2.b[x]
      /\ DOMAIN s3.g = DOMAIN s2.g /\ \A x \in DOMAIN s2.g : s3.g[x] = s2.g[x]
  <2>1. m3.t = "state" /\ m3.h = h /\ m3.v = w.active
    BY DEF Msg
  <2> HIDE DEF m3, s2
  <2>2. /\ DOMAIN s3.b = DOMAIN s2.b /\ s3.o = s2.o
        /\ \A x \in DOMAIN s2.b : s3.b[x] = IF x = m3.h THEN Edited(s2.b[x], m3) ELSE s2.b[x]
        /\ DOMAIN s3.g = DOMAIN s2.g /\ \A x \in DOMAIN s2.g : s3.g[x] = s2.g[x]
    <3>1. m3.t \in EditKind /\ (m3.t = "enter" => m3.g \in DOMAIN s2.g)
      BY <2>1 DEF EditKind
    <3> QED BY <3>1, HandledEdit
  <2>3. \A b : Edited(b, m3) = WithActive(b, w.active)
    BY <2>1 DEF Edited
  <2> QED BY <2>1, <2>2, <2>3
<1>6. s3.b[h] = [name |-> w.name, active |-> w.active, group |-> None]
  <2> HIDE DEF s1, s2, s3
  <2>1. s3.b[h] = WithActive(WithName(Fresh, w.name), w.active)
    BY <1>3, <1>4, <1>5
  <2> QED BY <2>1 DEF WithActive, WithName, Fresh
<1>7. Reach(st, <<m1, m2, m3>>, s3)
  <2>1. /\ <<m1>> \in Seq(Message) /\ <<m1, m2>> \in Seq(Message)
        /\ <<m1, m2>> = <<m1>> \o <<m2>> /\ <<m1, m2, m3>> = <<m1, m2>> \o <<m3>>
    <3> HIDE DEF m1, m2, m3, Message
    <3>1. <<m1>> \in Seq(Message) /\ <<m1, m2>> \in Seq(Message)
      BY <1>1
    <3>2. <<m1, m2>> = <<m1>> \o <<m2>>
      BY Pair
    <3>3. <<m1, m2, m3>> = <<m1, m2>> \o <<m3>>
      OBVIOUS
    <3> QED BY <3>1, <3>2, <3>3
  <2> HIDE DEF m1, m2, m3, s1, s2, Message
  <2>2. Reach(st, <<m1>>, s1)
    BY ReachOne DEF s1
  <2>3. Reach(st, <<m1, m2>>, s2)
    BY <1>1, <2>1, <2>2, ReachStep DEF s2
  <2> QED BY <1>1, <2>1, <2>3, ReachStep
<1>8. w = [name |-> w.name, active |-> w.active, group |-> w.group]
  BY DEF Space
<1>9. CASE w.group = None
  <2>1. Announce(h, w) = <<m1, m2, m3>>
    <3>1. Announce(h, w) = <<m1, m2, m3>> \o <<>>
      BY <1>9 DEF Announce
    <3> HIDE DEF m1, m2, m3, Message
    <3> QED BY <1>1, <3>1
  <2>2. s3.b[h] = w
    BY <1>6, <1>8, <1>9
  <2> HIDE DEF s1, s2, s3, m1, m2, m3
  <2>3. /\ DOMAIN s3.b = DOMAIN st.b \cup {h} /\ s3.o = st.o
        /\ \A x \in DOMAIN st.b : x # h => s3.b[x] = st.b[x]
        /\ DOMAIN s3.g = DOMAIN st.g /\ \A x \in DOMAIN st.g : s3.g[x] = st.g[x]
    BY <1>2, <1>3, <1>4, <1>5
  <2> QED BY <1>7, <2>1, <2>2, <2>3 DEF Gains
<1>10. CASE w.group \in DOMAIN st.g /\ w.group # None
  <2>1. Announce(h, w) = <<m1, m2, m3>> \o <<m4>> /\ <<m1, m2, m3>> \in Seq(Message)
    <3>1. Announce(h, w) = <<m1, m2, m3>> \o <<m4>>
      BY <1>10 DEF Announce
    <3> HIDE DEF m1, m2, m3, Message
    <3> QED BY <1>1, <3>1
  <2>2. m4.t = "enter" /\ m4.h = h /\ m4.g = w.group
    BY DEF Msg
  <2> HIDE DEF s1, s2, s3, m1, m2, m3, m4, Message
  <2>4. Reach(st, Announce(h, w), s4)
    BY <1>1, <1>7, <1>10, <2>1, ReachStep
  <2>5. DOMAIN s3.g = DOMAIN st.g /\ m4.t \in EditKind
    BY <1>2, <1>4, <1>5, <2>2 DEF EditKind
  <2>6. /\ DOMAIN s4.b = DOMAIN s3.b /\ s4.o = s3.o
        /\ \A x \in DOMAIN s3.b : s4.b[x] = IF x = m4.h THEN Edited(s3.b[x], m4) ELSE s3.b[x]
        /\ DOMAIN s4.g = DOMAIN s3.g /\ \A x \in DOMAIN s3.g : s4.g[x] = s3.g[x]
    BY <1>10, <2>2, <2>5, HandledEdit
  <2>7. \A b : Edited(b, m4) = WithGroup(b, w.group)
    BY <2>2 DEF Edited
  <2>8. s4.b[h] = w
    <3>1. s4.b[h] = WithGroup(s3.b[h], w.group)
      BY <1>3, <1>4, <1>5, <2>2, <2>6, <2>7
    <3> QED BY <1>6, <1>8, <3>1 DEF WithGroup
  <2> HIDE DEF s4
  <2>9. /\ DOMAIN s4.b = DOMAIN st.b \cup {h} /\ s4.o = st.o
        /\ \A x \in DOMAIN st.b : x # h => s4.b[x] = st.b[x]
        /\ DOMAIN s4.g = DOMAIN st.g /\ \A x \in DOMAIN st.g : s4.g[x] = st.g[x]
    BY <1>2, <1>3, <1>4, <1>5, <2>2, <2>6
  <2> QED BY <2>4, <2>8, <2>9 DEF Gains
<1> QED BY <1>9, <1>10

Forget(h, g) ==
  (IF g = None THEN <<>> ELSE <<Msg("leave", h, g, None)>>) \o <<Msg("removed", h, None, None)>>

LEMMA ForgetReach ==
  ASSUME NEW st, NEW h \in Nat, NEW g \in Output \cup {None}
  PROVE  /\ Forget(h, g) \in Seq(Message)
         /\ \E u : Reach(st, Forget(h, g), u) /\ Drops(st, u, h)
<1> DEFINE m == Msg("removed", h, None, None)
           p == Msg("leave", h, g, None)
           q == IF g = None THEN <<>> ELSE <<p>>
<1>1. m \in Message /\ (g # None => p \in Message)
  BY Messages
<1>2. q \in Seq(Message)
  <2> HIDE DEF p, Message
  <2> QED BY <1>1
<1>3. Forget(h, g) = q \o <<m>>
  BY DEF Forget
<1>4. Forget(h, g) \in Seq(Message)
  <2> HIDE DEF q, m, Message
  <2> QED BY <1>1, <1>2, <1>3
<1>5. PICK s : /\ Reach(st, q, s)
               /\ DOMAIN s.b = DOMAIN st.b /\ s.o = st.o
               /\ \A x \in DOMAIN st.b : x # h => s.b[x] = st.b[x]
               /\ DOMAIN s.g = DOMAIN st.g /\ \A x \in DOMAIN st.g : s.g[x] = st.g[x]
  <2>1. CASE g = None
    BY <2>1, ReachNone
  <2>2. CASE g # None
    <3> DEFINE s == Handled(st, p)
    <3>1. p.t = "leave" /\ p.h = h
      BY DEF Msg
    <3> HIDE DEF p, s
    <3>2. /\ DOMAIN s.b = DOMAIN st.b /\ s.o = st.o
          /\ \A x \in DOMAIN st.b : s.b[x] = IF x = p.h THEN Edited(st.b[x], p) ELSE st.b[x]
          /\ DOMAIN s.g = DOMAIN st.g /\ \A x \in DOMAIN st.g : s.g[x] = st.g[x]
      <4>1. p.t \in EditKind /\ p.t # "enter"
        BY <3>1 DEF EditKind
      <4> QED BY <4>1, HandledEdit DEF s
    <3>3. q = <<p>>
      BY <2>2
    <3>4. Reach(st, q, s)
      BY <3>3, ReachOne DEF s
    <3> HIDE DEF q
    <3> QED BY <3>1, <3>2, <3>4
  <2> QED BY <2>1, <2>2
<1> DEFINE u == Handled(s, m)
<1>6. u.b = Without(s.b, h) /\ u.g = s.g /\ u.o = s.o
  BY DEF Handled, Msg, BuildersAfter, GroupsAfter, OutputsAfter
<1>7. Reach(st, q \o <<m>>, u)
  <2> HIDE DEF q, m, Message
  <2> QED BY <1>1, <1>2, <1>5, ReachStep
<1>8. DOMAIN u.b = DOMAIN s.b \ {h} /\ \A x \in DOMAIN s.b : x # h => u.b[x] = s.b[x]
  <2> DEFINE b == s.b
  <2>1. u.b = Without(b, h)
    BY <1>6
  <2> HIDE DEF u, b
  <2>2. DOMAIN u.b = DOMAIN b \ {h} /\ \A x \in DOMAIN b : x # h => u.b[x] = b[x]
    BY <2>1 DEF Without
  <2> QED BY <2>2 DEF b
<1> HIDE DEF u
<1>9. Drops(st, u, h)
  BY <1>5, <1>6, <1>8 DEF Drops
<1> QED BY <1>3, <1>4, <1>7, <1>9

LEMMA NewWorkspaceMoves == ASSUME LiveType, NewWorkspace PROVE Moved
<1>1. PICK n \in Name, g \in monitors :
        /\ live' = [h \in DOMAIN live \cup {used'} |->
                      IF h \in DOMAIN live THEN live[h]
                      ELSE [name |-> n, active |-> FALSE, group |-> g]]
        /\ Tell(Announce(used', live'[used']))
  BY DEF NewWorkspace
<1>2. /\ used' = used + 1 /\ used' \in Nat /\ used' \notin DOMAIN live /\ monitors' = monitors
      /\ DOMAIN live \subseteq 1..used'
  BY DEF NewWorkspace, LiveType
<1> DEFINE h == used'
           w == [name |-> n, active |-> FALSE, group |-> g]
<1>3. DOMAIN live' = DOMAIN live \cup {h} /\ live'[h] = w /\ \A x \in DOMAIN live : live'[x] = live[x]
  BY <1>1, <1>2
<1>4. w \in Space /\ w.group = g /\ g \in Output /\ w.group # None
  BY BarAssumption DEF Space, LiveType
<1> HIDE DEF w
<1>5. LiveType'
  BY <1>2, <1>3, <1>4 DEF LiveType
<1>6. Carries(Announce(h, w))
  <2> SUFFICES ASSUME NEW st, Matches(monitors, live, st)
               PROVE  \E u : Reach(st, Announce(h, w), u) /\ Matches(monitors', live', u)
    BY DEF Carries
  <2>1. DOMAIN st.g = monitors /\ DOMAIN st.b = DOMAIN live
    BY DEF Matches
  <2>2. PICK u : Reach(st, Announce(h, w), u) /\ Gains(st, u, h, w)
    BY <1>2, <1>4, <2>1, AnnounceReach
  <2>3. Matches(monitors', live', u)
    <3>1. w \in Builder
      BY <1>4 DEF Space, Builder
    <3> QED BY <1>2, <1>3, <1>4, <2>1, <2>2, <3>1 DEF Matches, Gains
  <2> QED BY <2>2, <2>3
<1>7. Announce(h, w) \in Seq(Message)
  BY <1>2, <1>4, AnnounceTyped
<1> QED BY <1>1, <1>3, <1>5, <1>6, <1>7 DEF Moved

LEMMA RemoveWorkspaceMoves == ASSUME LiveType, RemoveWorkspace PROVE Moved
<1>1. PICK h \in DOMAIN live :
        /\ live' = [x \in DOMAIN live \ {h} |-> live[x]]
        /\ Tell(Forget(h, live[h].group))
  BY DEF RemoveWorkspace, Forget
<1>2. monitors' = monitors /\ used' = used
  BY DEF RemoveWorkspace
<1>3. DOMAIN live' = DOMAIN live \ {h} /\ \A x \in DOMAIN live' : live'[x] = live[x]
  BY <1>1
<1>4. LiveType'
  BY <1>2, <1>3 DEF LiveType
<1> DEFINE g == live[h].group
<1>5. h \in Nat /\ g \in Output \cup {None}
  BY DEF LiveType, Space
<1>6. Carries(Forget(h, g))
  <2> SUFFICES ASSUME NEW st, Matches(monitors, live, st)
               PROVE  \E u : Reach(st, Forget(h, g), u) /\ Matches(monitors', live', u)
    BY DEF Carries
  <2>1. PICK u : Reach(st, Forget(h, g), u) /\ Drops(st, u, h)
    BY <1>5, ForgetReach
  <2>2. Matches(monitors', live', u)
    BY <1>2, <1>3, <2>1 DEF Matches, Drops
  <2> QED BY <2>1, <2>2
<1>7. Forget(h, g) \in Seq(Message)
  BY <1>5, ForgetReach
<1> QED BY <1>1, <1>4, <1>6, <1>7 DEF Moved

LEMMA ReplaceWorkspaceMoves == ASSUME LiveType, ReplaceWorkspace PROVE Moved
<1>1. PICK h \in DOMAIN live :
        /\ live' = [x \in (DOMAIN live \ {h}) \cup {used'} |-> IF x = used' THEN live[h] ELSE live[x]]
        /\ Tell(Forget(h, live[h].group) \o Announce(used', live[h]))
  BY DEF ReplaceWorkspace, Forget
<1>2. /\ used' = used + 1 /\ used' \in Nat /\ used' \notin DOMAIN live /\ monitors' = monitors
      /\ DOMAIN live \subseteq 1..used'
  BY DEF ReplaceWorkspace, LiveType
<1> DEFINE k == used'
           w == live[h]
           g == live[h].group
           q == Forget(h, g)
           r == Announce(k, w)
<1>3. /\ DOMAIN live' = (DOMAIN live \ {h}) \cup {k} /\ live'[k] = w
      /\ \A x \in DOMAIN live : x # h => live'[x] = live[x]
  BY <1>1, <1>2
<1>4. LiveType'
  BY <1>2, <1>3 DEF LiveType
<1>5. h \in Nat /\ k \in Nat /\ w \in Space /\ g \in Output \cup {None}
  BY <1>2 DEF LiveType, Space
<1>6. w.group = None \/ w.group \in monitors
  BY DEF LiveType
<1>7. q \in Seq(Message) /\ r \in Seq(Message)
  <2>1. q \in Seq(Message)
    BY <1>5, ForgetReach
  <2>2. r \in Seq(Message)
    BY <1>5, AnnounceTyped
  <2> QED BY <2>1, <2>2
<1>8. Carries(q \o r)
  <2> SUFFICES ASSUME NEW st, Matches(monitors, live, st)
               PROVE  \E u : Reach(st, q \o r, u) /\ Matches(monitors', live', u)
    BY DEF Carries
  <2>1. PICK s : Reach(st, q, s) /\ Drops(st, s, h)
    BY <1>5, ForgetReach
  <2>2. DOMAIN s.g = monitors /\ DOMAIN st.b = DOMAIN live
    BY <2>1 DEF Matches, Drops
  <2>3. PICK u : Reach(s, r, u) /\ Gains(s, u, k, w)
    BY <1>5, <1>6, <2>2, AnnounceReach
  <2>4. Reach(st, q \o r, u)
    <3> HIDE DEF q, r, Message
    <3> QED BY <1>7, <2>1, <2>3, ReachJoin
  <2>5. ASSUME NEW x \in DOMAIN live'
        PROVE  /\ u.b[x] \in Builder /\ u.b[x].name = live'[x].name
               /\ u.b[x].active = live'[x].active
               /\ IF live'[x].group = None THEN u.b[x].group \notin monitors
                                           ELSE u.b[x].group = live'[x].group
    <3>1. CASE x = k
      <4>1. w \in Builder
        BY <1>5 DEF Space, Builder
      <4>2. None \notin monitors
        BY BarAssumption DEF LiveType
      <4> QED BY <1>3, <2>3, <3>1, <4>1, <4>2 DEF Gains
    <3>2. CASE x # k
      <4>1. x \in DOMAIN live /\ x # h /\ u.b[x] = st.b[x] /\ live'[x] = live[x]
        BY <1>3, <2>1, <2>2, <2>3, <2>5, <3>2 DEF Gains, Drops
      <4> QED BY <4>1 DEF Matches
    <3> QED BY <3>1, <3>2
  <2>6. Matches(monitors', live', u)
    BY <1>2, <1>3, <2>1, <2>2, <2>3, <2>5 DEF Matches, Gains, Drops
  <2> QED BY <2>4, <2>6
<1>9. q \o r \in Seq(Message)
  <2> HIDE DEF q, r, Message
  <2> QED BY <1>7, ConcatProperties
<1> QED BY <1>1, <1>4, <1>8, <1>9 DEF Moved

(* The workspace h of a mirror is moved to the group g.                    *)
Joins(st, u, h, g) ==
  /\ DOMAIN u.b = DOMAIN st.b /\ u.o = st.o
  /\ \A x \in DOMAIN st.b : u.b[x] = IF x = h THEN WithGroup(st.b[x], g) ELSE st.b[x]
  /\ DOMAIN u.g = DOMAIN st.g /\ \A x \in DOMAIN st.g : u.g[x] = st.g[x]

LEMMA EnterReach ==
  ASSUME NEW st, NEW h, NEW g \in DOMAIN st.g
  PROVE  \E u : Reach(st, <<Msg("enter", h, g, None)>>, u) /\ Joins(st, u, h, g)
<1> DEFINE m == Msg("enter", h, g, None)
           u == Handled(st, m)
<1>1. Reach(st, <<m>>, u)
  BY ReachOne
<1>2. m.t = "enter" /\ m.h = h /\ m.g = g
  BY DEF Msg
<1>3. \A b : Edited(b, m) = WithGroup(b, g)
  BY <1>2 DEF Edited
<1> HIDE DEF m, u
<1>4. m.t \in EditKind /\ (m.t = "enter" => m.g \in DOMAIN st.g)
  BY <1>2 DEF EditKind
<1>5. /\ DOMAIN u.b = DOMAIN st.b /\ u.o = st.o
      /\ \A x \in DOMAIN st.b : u.b[x] = IF x = m.h THEN Edited(st.b[x], m) ELSE st.b[x]
      /\ DOMAIN u.g = DOMAIN st.g /\ \A x \in DOMAIN st.g : u.g[x] = st.g[x]
  BY <1>4, HandledEdit DEF u
<1>6. Joins(st, u, h, g)
  BY <1>2, <1>3, <1>5 DEF Joins
<1> QED BY <1>1, <1>6 DEF m

(* Entering a group and leaving another, in either order.                  *)
LEMMA TransferReach ==
  ASSUME NEW st, NEW h \in DOMAIN st.b, st.b[h] \in Builder, NEW g \in DOMAIN st.g, NEW old,
         st.b[h].group = old, g # old
  PROVE  /\ \E u : /\ Reach(st, <<Msg("enter", h, g, None), Msg("leave", h, old, None)>>, u)
                   /\ Joins(st, u, h, g)
         /\ \E u : /\ Reach(st, <<Msg("leave", h, old, None), Msg("enter", h, g, None)>>, u)
                   /\ Joins(st, u, h, g)
<1> DEFINE m == Msg("enter", h, g, None)
           p == Msg("leave", h, old, None)
<1>1. p.t = "leave" /\ p.h = h /\ p.g = old
  BY DEF Msg
<1>2. \A b : Edited(b, p) = Leave(b, old)
  BY <1>1 DEF Edited
<1>3. p.t \in EditKind /\ p.t # "enter"
  BY <1>1 DEF EditKind
<1>4. /\ \A b \in Builder : b.group = old => WithGroup(Leave(b, old), g) = WithGroup(b, g)
      /\ \A b \in Builder : Leave(WithGroup(b, g), old) = WithGroup(b, g)
  BY DEF WithGroup, Leave, Builder
<1>5. \A s, a, b, u, w : Reach(s, <<a>>, u) /\ Reach(u, <<b>>, w) => Reach(s, <<a, b>>, w)
  <2> SUFFICES ASSUME NEW s, NEW a, NEW b, NEW u, NEW w, Reach(s, <<a>>, u), Reach(u, <<b>>, w)
               PROVE  Reach(s, <<a, b>>, w)
    OBVIOUS
  <2>1. <<a>> \in Seq({a, b}) /\ <<b>> \in Seq({a, b})
    OBVIOUS
  <2>2. Reach(s, <<a>> \o <<b>>, w)
    BY <2>1, ReachJoin
  <2> QED BY <2>2, Pair
<1>6. \E u : Reach(st, <<m, p>>, u) /\ Joins(st, u, h, g)
  <2>1. PICK s : Reach(st, <<m>>, s) /\ Joins(st, s, h, g)
    BY EnterReach
  <2> DEFINE u == Handled(s, p)
  <2>2. Reach(s, <<p>>, u)
    BY ReachOne
  <2>3. Reach(st, <<m, p>>, u)
    <3> HIDE DEF m, p, u
    <3> QED BY <1>5, <2>1, <2>2
  <2> HIDE DEF m, p, u
  <2>4. /\ DOMAIN u.b = DOMAIN s.b /\ u.o = s.o
        /\ \A x \in DOMAIN s.b : u.b[x] = IF x = p.h THEN Edited(s.b[x], p) ELSE s.b[x]
        /\ DOMAIN u.g = DOMAIN s.g /\ \A x \in DOMAIN s.g : u.g[x] = s.g[x]
    BY <1>3, HandledEdit DEF u
  <2>5. s.b[h] = WithGroup(st.b[h], g) /\ u.b[h] = WithGroup(st.b[h], g)
    BY <1>1, <1>2, <1>4, <2>1, <2>4 DEF Joins
  <2>6. Joins(st, u, h, g)
    BY <1>1, <2>1, <2>4, <2>5 DEF Joins
  <2> QED BY <2>3, <2>6
<1>7. \E u : Reach(st, <<p, m>>, u) /\ Joins(st, u, h, g)
  <2> DEFINE s == Handled(st, p)
  <2>1. Reach(st, <<p>>, s)
    BY ReachOne
  <2> HIDE DEF m, p, s
  <2>2. /\ DOMAIN s.b = DOMAIN st.b /\ s.o = st.o
        /\ \A x \in DOMAIN st.b : s.b[x] = IF x = p.h THEN Edited(st.b[x], p) ELSE st.b[x]
        /\ DOMAIN s.g = DOMAIN st.g /\ \A x \in DOMAIN st.g : s.g[x] = st.g[x]
    BY <1>3, HandledEdit DEF s
  <2>3. PICK u : Reach(s, <<m>>, u) /\ Joins(s, u, h, g)
    BY <2>2, EnterReach DEF m
  <2>4. Reach(st, <<p, m>>, u)
    BY <1>5, <2>1, <2>3
  <2>5. u.b[h] = WithGroup(st.b[h], g)
    BY <1>1, <1>2, <1>4, <2>2, <2>3 DEF Joins
  <2>6. Joins(st, u, h, g)
    BY <1>1, <2>2, <2>3, <2>5 DEF Joins
  <2> QED BY <2>4, <2>6
<1> QED BY <1>6, <1>7

(* A mirror in which h has joined g is one of what the compositor has.     *)
LEMMA JoinsMatches ==
  ASSUME LiveType, NEW h \in DOMAIN live, NEW g \in monitors,
         live' = [live EXCEPT ![h].group = g], UNCHANGED <<monitors, used>>
  PROVE  /\ LiveType'
         /\ \A st, u : Matches(monitors, live, st) /\ Joins(st, u, h, g) =>
              Matches(monitors', live', u)
<1>1. /\ DOMAIN live' = DOMAIN live /\ live'[h] = WithGroup(live[h], g)
      /\ \A x \in DOMAIN live : x # h => live'[x] = live[x]
  BY DEF WithGroup
<1>2. g \in Output /\ g # None
  BY BarAssumption DEF LiveType
<1>3. \A w \in Space : /\ WithGroup(w, g) \in Space /\ WithGroup(w, g).name = w.name
                       /\ WithGroup(w, g).active = w.active /\ WithGroup(w, g).group = g
  BY <1>2 DEF WithGroup, Space
<1>4. \A w \in Builder : /\ WithGroup(w, g) \in Builder /\ WithGroup(w, g).name = w.name
                         /\ WithGroup(w, g).active = w.active /\ WithGroup(w, g).group = g
  BY <1>2 DEF WithGroup, Builder
<1>5. \A x \in DOMAIN live : live[x] \in Space
  BY DEF LiveType
<1>6. LiveType'
  <2>1. \A x \in DOMAIN live' : live'[x] \in Space /\ live'[x].group \in monitors \cup {None}
    BY <1>1, <1>3, <1>5 DEF LiveType
  <2> QED BY <1>1, <2>1 DEF LiveType
<1>7. ASSUME NEW st, NEW u, Matches(monitors, live, st), Joins(st, u, h, g)
      PROVE  Matches(monitors', live', u)
  <2>1. ASSUME NEW x \in DOMAIN live
        PROVE  /\ u.b[x] \in Builder /\ u.b[x].name = live'[x].name
               /\ u.b[x].active = live'[x].active
               /\ IF live'[x].group = None THEN u.b[x].group \notin monitors
                                           ELSE u.b[x].group = live'[x].group
    <3>1. /\ st.b[x] \in Builder /\ st.b[x].name = live[x].name /\ st.b[x].active = live[x].active
          /\ x \in DOMAIN st.b
      BY <1>7 DEF Matches
    <3>2. CASE x = h
      <4>1. u.b[x] = WithGroup(st.b[x], g)
        BY <1>7, <3>1, <3>2 DEF Joins
      <4> QED BY <1>1, <1>2, <1>3, <1>4, <1>5, <3>1, <3>2, <4>1
    <3>3. CASE x # h
      <4>1. u.b[x] = st.b[x] /\ live'[x] = live[x]
        BY <1>1, <1>7, <3>1, <3>3 DEF Joins
      <4> QED BY <1>7, <4>1 DEF Matches
    <3> QED BY <3>2, <3>3
  <2> QED BY <1>1, <1>7, <2>1 DEF Matches, Joins
<1> QED BY <1>6, <1>7

LEMMA MoveWorkspaceMoves == ASSUME LiveType, MoveWorkspace \/ Adopt PROVE Moved
<1>1. UNCHANGED <<monitors, used>>
  BY DEF MoveWorkspace, Adopt
<1>2. CASE MoveWorkspace
  <2>1. PICK h \in DOMAIN live, g \in monitors :
          LET enter == Msg("enter", h, g, None)
              leave == Msg("leave", h, live[h].group, None)
          IN /\ live[h].group \notin {g, None}
             /\ live' = [live EXCEPT ![h].group = g]
             /\ Tell(<<enter, leave>>) \/ Tell(<<leave, enter>>)
    BY <1>2 DEF MoveWorkspace
  <2> DEFINE old == live[h].group
             m == Msg("enter", h, g, None)
             p == Msg("leave", h, old, None)
  <2>2. old \in Output /\ g \in Output /\ h \in Nat /\ old \notin {g, None}
    BY <2>1 DEF LiveType, Space
  <2>3. m \in Message /\ p \in Message
    BY <2>2, Messages
  <2>4. <<m, p>> \in Seq(Message) /\ <<p, m>> \in Seq(Message)
    <3> HIDE DEF m, p, Message
    <3> QED BY <2>3
  <2>5. LiveType' /\ \A st, u : Matches(monitors, live, st) /\ Joins(st, u, h, g) =>
                       Matches(monitors', live', u)
    BY <1>1, <2>1, JoinsMatches
  <2>6. ASSUME NEW st, Matches(monitors, live, st)
        PROVE  /\ \E u : Reach(st, <<m, p>>, u) /\ Joins(st, u, h, g)
               /\ \E u : Reach(st, <<p, m>>, u) /\ Joins(st, u, h, g)
    <3>1. h \in DOMAIN st.b /\ st.b[h] \in Builder /\ g \in DOMAIN st.g /\ st.b[h].group = old
      BY <2>2, <2>6 DEF Matches
    <3> QED BY <2>2, <3>1, TransferReach
  <2>7. Carries(<<m, p>>) /\ Carries(<<p, m>>)
    <3> HIDE DEF m, p
    <3> QED BY <2>5, <2>6 DEF Carries
  <2>8. Tell(<<m, p>>) \/ Tell(<<p, m>>)
    BY <2>1
  <2> HIDE DEF m, p
  <2> QED BY <2>4, <2>5, <2>7, <2>8 DEF Moved
<1>3. CASE Adopt
  <2>1. PICK h \in DOMAIN live, g \in monitors :
          /\ live' = [live EXCEPT ![h].group = g]
          /\ Tell(<<Msg("enter", h, g, None)>>)
    BY <1>3 DEF Adopt
  <2> DEFINE m == Msg("enter", h, g, None)
  <2>2. h \in Nat /\ g \in Output
    BY DEF LiveType
  <2>3. m \in Message
    BY <2>2, Messages
  <2>4. <<m>> \in Seq(Message)
    <3> HIDE DEF m, Message
    <3> QED BY <2>3
  <2>5. LiveType' /\ \A st, u : Matches(monitors, live, st) /\ Joins(st, u, h, g) =>
                       Matches(monitors', live', u)
    BY <1>1, <2>1, JoinsMatches
  <2>6. ASSUME NEW st, Matches(monitors, live, st)
        PROVE  \E u : Reach(st, <<m>>, u) /\ Joins(st, u, h, g)
    <3>1. g \in DOMAIN st.g
      BY <2>6 DEF Matches
    <3> QED BY <3>1, EnterReach
  <2>7. Carries(<<m>>)
    <3> HIDE DEF m
    <3> QED BY <2>5, <2>6 DEF Carries
  <2> QED BY <2>1, <2>4, <2>5, <2>7 DEF Moved
<1> QED BY <1>2, <1>3

LEMMA UnplugMoves == ASSUME LiveType, Unplug PROVE Moved
<1>1. PICK g \in monitors :
        LET mine == {h \in DOMAIN live : live[h].group = g} IN
          /\ monitors' = monitors \ {g}
          /\ live' = [h \in DOMAIN live |->
                        IF h \in mine THEN [live[h] EXCEPT !.group = None] ELSE live[h]]
          /\ \E told \in {mine, {}} :
               Tell(SetToSeq({Msg("leave", h, g, None) : h \in told})
                      \o <<Msg("output_leave", 0, g, g), Msg("group_removed", 0, g, None)>>)
  BY DEF Unplug
<1> DEFINE mine == {h \in DOMAIN live : live[h].group = g}
           M(told) == {Msg("leave", h, g, None) : h \in told}
           a == Msg("output_leave", 0, g, g)
           b == Msg("group_removed", 0, g, None)
<1>2. PICK told \in {mine, {}} : Tell(SetToSeq(M(told)) \o <<a, b>>)
  BY <1>1
<1> DEFINE N == M(told)
           q == SetToSeq(N)
<1>3. used' = used /\ g \in Output /\ told \subseteq DOMAIN live /\ DOMAIN live \subseteq Nat
  BY <1>2 DEF Unplug, LiveType
<1>4. Covers(q, N) /\ N \subseteq Message
  <2>1. IsFiniteSet(told)
    BY <1>3, FiniteLive, FS_Subset
  <2> DEFINE f == [x \in told |-> Msg("leave", x, g, None)]
  <2>2. f \in [told -> Message] /\ N = {f[x] : x \in told} /\ N \subseteq Message
    BY <1>3, Messages
  <2> HIDE DEF f, N
  <2> QED BY <2>1, <2>2, CoversImage
<1>5. a \in Message /\ b \in Message
  BY <1>3, Messages
<1>6. q \in Seq(Message) /\ <<a>> \in Seq(Message) /\ <<a, b>> \in Seq(Message)
  <2> HIDE DEF N, q, a, b, Message
  <2>1. q \in Seq(Message)
    BY <1>4, SeqMonotonic DEF Covers
  <2> QED BY <1>5, <2>1
<1>7. q \o <<a, b>> \in Seq(Message)
  <2> HIDE DEF q, a, b, Message
  <2> QED BY <1>6, ConcatProperties
<1>8. /\ DOMAIN live' = DOMAIN live /\ monitors' = monitors \ {g}
      /\ \A h \in DOMAIN live : live'[h] = IF h \in mine THEN WithGroup(live[h], None) ELSE live[h]
  BY <1>1 DEF WithGroup
<1>9. \A w \in Space : /\ WithGroup(w, None) \in Space /\ WithGroup(w, None).name = w.name
                       /\ WithGroup(w, None).active = w.active /\ WithGroup(w, None).group = None
  BY DEF WithGroup, Space
<1>10. \A h \in DOMAIN live : live[h] \in Space /\ live[h].group \in monitors \cup {None}
  BY DEF LiveType
<1>11. LiveType'
  <2>1. \A h \in DOMAIN live' : live'[h] \in Space /\ live'[h].group \in monitors' \cup {None}
    BY <1>8, <1>9, <1>10
  <2>2. monitors' \subseteq Output /\ used' \in Nat /\ DOMAIN live' \subseteq 1..used'
    BY <1>3, <1>8 DEF LiveType
  <2> QED BY <2>1, <2>2 DEF LiveType
<1>12. Carries(q \o <<a, b>>)
  <2> SUFFICES ASSUME NEW st, Matches(monitors, live, st)
               PROVE  \E u : Reach(st, q \o <<a, b>>, u) /\ Matches(monitors', live', u)
    BY DEF Carries
  <2> DEFINE e == [x \in DOMAIN st.b |-> Leave(st.b[x], g)]
  <2>1. \A m \in N : m.t = "leave" /\ m.g = g /\ m.h \in told
    BY DEF Msg
  <2>2. \A m \in N : \A c : Edited(c, m) = Leave(c, g)
    <3> HIDE DEF N
    <3> QED BY <2>1 DEF Edited
  <2>3. \A c \in Builder : Leave(Leave(c, g), g) = Leave(c, g)
    BY DEF Leave, Builder
  <2>4. \A x \in DOMAIN st.b : st.b[x] \in Builder /\ e[x] = Leave(st.b[x], g)
    BY DEF Matches
  <2> HIDE DEF e
  <2>5. PICK s : Reach(st, q, s) /\ EditedBy(st, s, N, e)
    <3>1. \A m \in N :
            /\ m.t \in EditKind /\ (m.t = "enter" => m.g \in DOMAIN st.g)
            /\ m.h \in DOMAIN st.b => Edited(st.b[m.h], m) = e[m.h] /\ Edited(e[m.h], m) = e[m.h]
      <4> HIDE DEF N
      <4> QED BY <2>1, <2>2, <2>3, <2>4 DEF EditKind
    <3> HIDE DEF q, N
    <3> QED BY <1>4, <3>1, EditsCover
  <2>6. \A x : (\E m \in N : m.h = x) <=> x \in told
    <3>1. \A x \in told : Msg("leave", x, g, None) \in N /\ Msg("leave", x, g, None).h = x
      BY DEF Msg
    <3> HIDE DEF N
    <3> QED BY <2>1, <3>1
  <2>7. /\ DOMAIN s.b = DOMAIN live /\ s.o = st.o
        /\ DOMAIN s.g = monitors /\ \A x \in monitors : s.g[x] = {x}
        /\ \A x \in DOMAIN live : s.b[x] = IF x \in told THEN Leave(st.b[x], g) ELSE st.b[x]
    <3> HIDE DEF N
    <3> QED BY <2>4, <2>5, <2>6 DEF Matches, EditedBy
  <2> DEFINE v == Handled(s, a)
             u == Handled(v, b)
  <2>8. Reach(st, q \o <<a, b>>, u)
    <3>1. Reach(s, <<a>>, v)
      BY ReachOne
    <3> HIDE DEF v, q, a, b, Message
    <3>2. Reach(s, <<a>> \o <<b>>, u)
      BY <1>5, <1>6, <3>1, ReachStep
    <3>3. Reach(s, <<a, b>>, u)
      BY <3>2, Pair
    <3> HIDE DEF u
    <3> QED BY <1>6, <2>5, <3>3, ReachJoin
  <2>9. v.b = s.b /\ v.o = s.o /\ v.g = Edit(s.g, g, s.g[g] \ {g})
    BY DEF Handled, Msg, BuildersAfter, GroupsAfter, OutputsAfter, EditKind
  <2>10. u.b = v.b /\ u.o = v.o /\ u.g = Without(v.g, g)
    BY DEF Handled, Msg, BuildersAfter, GroupsAfter, OutputsAfter, EditKind
  <2>11. DOMAIN u.g = monitors' /\ \A x \in monitors' : u.g[x] = {x}
    <3> DEFINE c == s.g
               d == v.g
    <3>1. d = Edit(c, g, c[g] \ {g}) /\ u.g = Without(d, g)
      BY <2>9, <2>10
    <3>2. DOMAIN c = monitors /\ \A x \in monitors : c[x] = {x}
      BY <2>7
    <3> HIDE DEF c, d, u, v
    <3>3. DOMAIN d = monitors /\ \A x \in monitors : x # g => d[x] = {x}
      BY <3>1, <3>2 DEF Edit
    <3> QED BY <1>8, <3>1, <3>3 DEF Without
  <2> HIDE DEF u, v
  <2>12. ASSUME NEW x \in DOMAIN live
         PROVE  /\ u.b[x] \in Builder /\ u.b[x].name = live'[x].name
                /\ u.b[x].active = live'[x].active
                /\ IF live'[x].group = None THEN u.b[x].group \notin monitors'
                                            ELSE u.b[x].group = live'[x].group
    <3>1. /\ st.b[x] \in Builder /\ st.b[x].name = live[x].name /\ st.b[x].active = live[x].active
          /\ IF live[x].group = None THEN st.b[x].group \notin monitors
                                     ELSE st.b[x].group = live[x].group
      BY DEF Matches
    <3>2. u.b[x] = IF x \in told THEN Leave(st.b[x], g) ELSE st.b[x]
      BY <2>7, <2>9, <2>10
    <3>3. None \notin monitors' /\ g \notin monitors' /\ g # None
      BY <1>3, <1>8, BarAssumption DEF LiveType
    <3>4. CASE x \in mine
      <4>1. live'[x].name = live[x].name /\ live'[x].active = live[x].active /\ live'[x].group = None
        BY <1>8, <1>9, <1>10, <3>4
      <4>2. st.b[x].group = g
        BY <3>1, <3>3, <3>4
      <4>3. Leave(st.b[x], g) = WithGroup(st.b[x], None)
        BY <4>2 DEF Leave, WithGroup
      <4>4. \A c \in Builder : /\ WithGroup(c, None) \in Builder /\ WithGroup(c, None).name = c.name
                               /\ WithGroup(c, None).active = c.active
                               /\ WithGroup(c, None).group = None
        BY DEF WithGroup, Builder
      <4>5. CASE x \in told
        BY <3>1, <3>2, <3>3, <4>1, <4>3, <4>4, <4>5
      <4>6. CASE x \notin told
        BY <3>1, <3>2, <3>3, <4>1, <4>2, <4>6
      <4> QED BY <4>5, <4>6
    <3>5. CASE x \notin mine
      <4>1. x \notin told /\ live'[x] = live[x]
        BY <1>2, <1>8, <3>5
      <4>2. u.b[x] = st.b[x]
        BY <3>2, <4>1
      <4> HIDE DEF mine
      <4> QED BY <1>8, <3>1, <4>1, <4>2
    <3> QED BY <3>4, <3>5
  <2>13. monitors' \subseteq u.o
    BY <1>8, <2>7, <2>9, <2>10 DEF Matches
  <2>14. DOMAIN u.b = DOMAIN live'
    BY <1>8, <2>7, <2>9, <2>10
  <2>15. Matches(monitors', live', u)
    BY <1>8, <2>11, <2>12, <2>13, <2>14 DEF Matches
  <2> QED BY <2>8, <2>15
<1> HIDE DEF q, a, b
<1> QED BY <1>2, <1>7, <1>11, <1>12 DEF Moved, q

LEMMA TickMoves == ASSUME LiveType, Tick PROVE Moved
<1>1. Tell(<<>>) /\ UNCHANGED <<monitors, live, used>>
  BY DEF Tick
<1>2. LiveType'
  BY <1>1 DEF LiveType
<1>3. Carries(<<>>)
  BY <1>1, ReachNone DEF Carries
<1>4. <<>> \in Seq(Message)
  OBVIOUS
<1> QED BY <1>1, <1>2, <1>3, <1>4 DEF Moved

(* What a client that binds now is told makes a mirror of it.              *)
Blank == [b |-> <<>>, g |-> <<>>, o |-> {}]

Bare(s) ==
  (\A g \in DOMAIN s.g : s.g[g] = {}) /\ \A h \in DOMAIN s.b : s.b[h] = Fresh

Declares(s, q, n, u) ==
  /\ Bare(u)
  /\ \A x : x \in u.o <=> x \in s.o \/ \E k \in 1..n : q[k].t = "output" /\ q[k].g = x
  /\ \A x : x \in DOMAIN u.g <=> x \in DOMAIN s.g \/ \E k \in 1..n : q[k].t = "group" /\ q[k].g = x
  /\ \A x : x \in DOMAIN u.b <=>
       x \in DOMAIN s.b \/ \E k \in 1..n : q[k].t = "workspace" /\ q[k].h = x

LEMMA DeclareReach ==
  ASSUME NEW s, NEW q, Len(q) \in Nat, Bare(s),
         \A k \in 1..Len(q) : q[k].t \in {"output", "group", "workspace"}
  PROVE  \E u : Reach(s, q, u) /\ Declares(s, q, Len(q), u)
<1>1. PICK u : Reach(s, q, u)
  BY ReachExists
<1>2. PICK f : /\ f[0] = s /\ f[Len(q)] = u
               /\ \A k \in 1..Len(q) : f[k] = Handled(f[k - 1], q[k])
  BY <1>1 DEF Reach
<1> DEFINE T == {k \in 0..Len(q) : Declares(s, q, k, f[k])}
<1>3. 0 \in T
  <2>1. 1..0 = {}
    OBVIOUS
  <2> QED BY <1>2, <2>1 DEF Declares
<1>4. ASSUME NEW k \in 0..Len(q), k \in T, k < Len(q) PROVE k + 1 \in T
  <2>1. k + 1 \in 1..Len(q) /\ (k + 1) - 1 = k /\ k + 1 \in 0..Len(q)
    BY <1>4
  <2>2. \A i : i \in 1..(k + 1) <=> i \in 1..k \/ i = k + 1
    BY <1>4
  <2> DEFINE m == q[k + 1]
             c == f[k]
             d == f[k + 1]
  <2>3. d = Handled(c, m) /\ m.t \in {"output", "group", "workspace"}
    BY <1>2, <2>1
  <2>4. Declares(s, q, k, c)
    BY <1>4
  <2>5. /\ m.t = "output" => d.b = c.b /\ d.g = c.g /\ d.o = c.o \cup {m.g}
        /\ m.t = "group" => d.b = c.b /\ d.g = Put(c.g, m.g, {}) /\ d.o = c.o
        /\ m.t = "workspace" => d.b = Put(c.b, m.h, Fresh) /\ d.g = c.g /\ d.o = c.o
    BY <2>3 DEF Handled, BuildersAfter, GroupsAfter, OutputsAfter, EditKind
  <2>6. m.t = "group" =>
          /\ DOMAIN d.g = DOMAIN c.g \cup {m.g}
          /\ \A y \in DOMAIN d.g : d.g[y] = IF y = m.g THEN {} ELSE c.g[y]
    <3> DEFINE p == c.g
    <3>1. m.t = "group" => d.g = Put(p, m.g, {})
      BY <2>5
    <3> HIDE DEF c, d, m, p
    <3>2. m.t = "group" =>
            /\ DOMAIN d.g = DOMAIN p \cup {m.g}
            /\ \A y \in DOMAIN d.g : d.g[y] = IF y = m.g THEN {} ELSE p[y]
      BY <3>1 DEF Put
    <3> QED BY <3>2 DEF p
  <2>7. m.t = "workspace" =>
          /\ DOMAIN d.b = DOMAIN c.b \cup {m.h}
          /\ \A y \in DOMAIN d.b : d.b[y] = IF y = m.h THEN Fresh ELSE c.b[y]
    <3> DEFINE p == c.b
    <3>1. m.t = "workspace" => d.b = Put(p, m.h, Fresh)
      BY <2>5
    <3> HIDE DEF c, d, m, p
    <3>2. m.t = "workspace" =>
            /\ DOMAIN d.b = DOMAIN p \cup {m.h}
            /\ \A y \in DOMAIN d.b : d.b[y] = IF y = m.h THEN Fresh ELSE p[y]
      BY <3>1 DEF Put
    <3> QED BY <3>2 DEF p
  <2> HIDE DEF c, d
  <2>8. Bare(d)
    <3>1. \A y \in DOMAIN d.g : d.g[y] = {}
      BY <2>3, <2>4, <2>5, <2>6 DEF Bare, Declares
    <3>2. \A y \in DOMAIN d.b : d.b[y] = Fresh
      BY <2>3, <2>4, <2>5, <2>7 DEF Bare, Declares
    <3> QED BY <3>1, <3>2 DEF Bare
  <2>9. \A x : x \in d.o <=> x \in s.o \/ \E i \in 1..(k + 1) : q[i].t = "output" /\ q[i].g = x
    <3>1. \A x : x \in d.o <=> x \in c.o \/ (m.t = "output" /\ m.g = x)
      BY <2>3, <2>5
    <3>2. \A x : x \in c.o <=>
                   x \in s.o \/ \E i \in 1..k : q[i].t = "output" /\ q[i].g = x
      BY <2>4 DEF Declares
    <3> QED BY <2>2, <3>1, <3>2
  <2>10. \A x : x \in DOMAIN d.g <=>
                x \in DOMAIN s.g \/ \E i \in 1..(k + 1) : q[i].t = "group" /\ q[i].g = x
    <3>1. \A x : x \in DOMAIN d.g <=> x \in DOMAIN c.g \/ (m.t = "group" /\ m.g = x)
      BY <2>3, <2>5, <2>6
    <3>2. \A x : x \in DOMAIN c.g <=>
                   x \in DOMAIN s.g \/ \E i \in 1..k : q[i].t = "group" /\ q[i].g = x
      BY <2>4 DEF Declares
    <3> QED BY <2>2, <3>1, <3>2
  <2>11. \A x : x \in DOMAIN d.b <=>
                x \in DOMAIN s.b \/ \E i \in 1..(k + 1) : q[i].t = "workspace" /\ q[i].h = x
    <3>1. \A x : x \in DOMAIN d.b <=> x \in DOMAIN c.b \/ (m.t = "workspace" /\ m.h = x)
      BY <2>3, <2>5, <2>7
    <3>2. \A x : x \in DOMAIN c.b <=>
                   x \in DOMAIN s.b \/ \E i \in 1..k : q[i].t = "workspace" /\ q[i].h = x
      BY <2>4 DEF Declares
    <3> QED BY <2>2, <3>1, <3>2
  <2>12. Declares(s, q, k + 1, d)
    BY <2>8, <2>9, <2>10, <2>11 DEF Declares
  <2> QED BY <2>1, <2>12 DEF d
<1>5. Len(q) \in T
  <2> HIDE DEF T
  <2>1. 0..Len(q) \subseteq T
    BY <1>3, <1>4, Climb
  <2> QED BY <2>1
<1> QED BY <1>1, <1>2, <1>5

(* The groups are told their outputs.                                      *)
Entered(s, u) ==
  u.b = s.b /\ u.o = s.o /\ DOMAIN u.g = DOMAIN s.g /\ \A g \in DOMAIN s.g : u.g[g] = {g}

LEMMA OutputEnterReach ==
  ASSUME NEW s, NEW q, Len(q) \in Nat,
         \A k \in 1..Len(q) : q[k].t = "output_enter" /\ q[k].v = q[k].g /\ q[k].g \in DOMAIN s.g,
         \A g \in DOMAIN s.g : s.g[g] = {} /\ \E k \in 1..Len(q) : q[k].g = g
  PROVE  \E u : Reach(s, q, u) /\ Entered(s, u)
<1>1. PICK u : Reach(s, q, u)
  BY ReachExists
<1>2. PICK f : /\ f[0] = s /\ f[Len(q)] = u
               /\ \A k \in 1..Len(q) : f[k] = Handled(f[k - 1], q[k])
  BY <1>1 DEF Reach
<1> DEFINE Part(k) ==
             /\ f[k].b = s.b /\ f[k].o = s.o /\ DOMAIN f[k].g = DOMAIN s.g
             /\ \A g \in DOMAIN s.g : /\ (\E i \in 1..k : q[i].g = g) => f[k].g[g] = {g}
                                      /\ (\A i \in 1..k : q[i].g # g) => f[k].g[g] = {}
           T == {k \in 0..Len(q) : Part(k)}
<1>3. 0 \in T
  <2>1. 1..0 = {} /\ 0 \in 0..Len(q)
    OBVIOUS
  <2>2. f[0] = s /\ \A g \in DOMAIN s.g : s.g[g] = {}
    BY <1>2
  <2>3. Part(0)
    BY <2>1, <2>2
  <2> QED BY <2>1, <2>3
<1>4. ASSUME NEW k \in 0..Len(q), k \in T, k < Len(q) PROVE k + 1 \in T
  <2>1. k + 1 \in 1..Len(q) /\ (k + 1) - 1 = k /\ k + 1 \in 0..Len(q)
    BY <1>4
  <2>2. \A i : i \in 1..(k + 1) <=> i \in 1..k \/ i = k + 1
    BY <1>4
  <2> DEFINE m == q[k + 1]
             c == f[k]
             d == f[k + 1]
  <2>3. d = Handled(c, m) /\ m.t = "output_enter" /\ m.v = m.g /\ m.g \in DOMAIN s.g
    BY <1>2, <2>1
  <2>4. /\ c.b = s.b /\ c.o = s.o /\ DOMAIN c.g = DOMAIN s.g
        /\ \A g \in DOMAIN s.g : /\ (\E i \in 1..k : q[i].g = g) => c.g[g] = {g}
                                 /\ (\A i \in 1..k : q[i].g # g) => c.g[g] = {}
    BY <1>4
  <2>5. d.b = c.b /\ d.o = c.o /\ d.g = Put(c.g, m.g, OutputsIn(c.g, m.g) \cup {m.v})
    BY <2>3 DEF Handled, BuildersAfter, GroupsAfter, OutputsAfter, EditKind
  <2>6. OutputsIn(c.g, m.g) = c.g[m.g]
    BY <2>3, <2>4 DEF OutputsIn
  <2>7. /\ DOMAIN d.g = DOMAIN s.g
        /\ \A y \in DOMAIN s.g : d.g[y] = IF y = m.g THEN c.g[m.g] \cup {m.g} ELSE c.g[y]
    <3> DEFINE p == c.g
    <3>1. d.g = Put(p, m.g, p[m.g] \cup {m.g}) /\ DOMAIN p = DOMAIN s.g /\ m.g \in DOMAIN s.g
      BY <2>3, <2>4, <2>5, <2>6
    <3> HIDE DEF c, d, m, p
    <3>2. /\ DOMAIN d.g = DOMAIN p
          /\ \A y \in DOMAIN p : d.g[y] = IF y = m.g THEN p[m.g] \cup {m.g} ELSE p[y]
      BY <3>1 DEF Put
    <3> QED BY <3>1, <3>2 DEF p
  <2>8. ASSUME NEW g \in DOMAIN s.g
        PROVE  /\ (\E i \in 1..(k + 1) : q[i].g = g) => d.g[g] = {g}
               /\ (\A i \in 1..(k + 1) : q[i].g # g) => d.g[g] = {}
    <3>1. CASE g = m.g
      <4>1. c.g[g] \in {{g}, {}}
        BY <2>4
      <4>2. \E i \in 1..(k + 1) : q[i].g = g
        BY <2>2, <3>1
      <4>3. d.g[g] = c.g[g] \cup {g}
        BY <2>7, <3>1
      <4>4. d.g[g] = {g}
        BY <4>1, <4>3
      <4> QED BY <4>2, <4>4
    <3>2. CASE g # m.g
      <4>1. (\E i \in 1..(k + 1) : q[i].g = g) => \E i \in 1..k : q[i].g = g
        BY <2>2, <3>2
      <4>2. (\A i \in 1..(k + 1) : q[i].g # g) => \A i \in 1..k : q[i].g # g
        BY <2>2
      <4>3. d.g[g] = c.g[g]
        BY <2>7, <3>2
      <4> HIDE DEF c, d
      <4> QED BY <2>4, <4>1, <4>2, <4>3
    <3> QED BY <3>1, <3>2
  <2>9. Part(k + 1)
    BY <2>4, <2>5, <2>7, <2>8
  <2> HIDE DEF Part
  <2> QED BY <2>1, <2>9
<1>5. Part(Len(q))
  <2> HIDE DEF T
  <2>1. 0..Len(q) \subseteq T
    BY <1>3, <1>4, Climb
  <2>2. Len(q) \in T
    BY <2>1
  <2> QED BY <2>2 DEF T
<1>6. Entered(s, u)
  BY <1>2, <1>5 DEF Entered
<1> QED BY <1>1, <1>6

LEMMA MsgIs ==
  \A t, h, g, v : /\ Msg(t, h, g, v).t = t /\ Msg(t, h, g, v).h = h
                  /\ Msg(t, h, g, v).g = g /\ Msg(t, h, g, v).v = v
BY DEF Msg

LEMMA BurstReach ==
  ASSUME LiveType
  PROVE  /\ Burst \in Seq(Message) /\ Burst # <<>> /\ Burst[Len(Burst)] = Done
         /\ \E u : Reach(Blank, Burst, u) /\ Matches(monitors, live, u)
<1> DEFINE placed == {h \in DOMAIN live : live[h].group # None}
           ms == SetToSeq(monitors)
           hs == SetToSeq(DOMAIN live)
           in == SetToSeq(placed)
           q1 == [i \in DOMAIN ms |-> Msg("output", 0, ms[i], None)]
           q2 == [i \in DOMAIN ms |-> Msg("group", 0, ms[i], None)]
           q3 == [i \in DOMAIN hs |-> Msg("workspace", hs[i], None, None)]
           q4 == [i \in DOMAIN ms |-> Msg("output_enter", 0, ms[i], ms[i])]
           q5 == [i \in DOMAIN hs |-> Msg("name", hs[i], None, live[hs[i]].name)]
           q6 == [i \in DOMAIN hs |-> Msg("state", hs[i], None, live[hs[i]].active)]
           q7 == [i \in DOMAIN in |-> Msg("enter", in[i], live[in[i]].group, None)]
<1>1. Covers(ms, monitors) /\ Covers(hs, DOMAIN live) /\ Covers(in, placed)
  <2>1. IsFiniteSet(placed)
    BY FiniteLive, FS_Subset
  <2> HIDE DEF placed
  <2> QED BY <2>1, FiniteLive, CoversSet
<1>2. /\ Len(ms) \in Nat /\ DOMAIN ms = 1..Len(ms) /\ \A k \in 1..Len(ms) : ms[k] \in monitors
      /\ Len(hs) \in Nat /\ DOMAIN hs = 1..Len(hs) /\ \A k \in 1..Len(hs) : hs[k] \in DOMAIN live
      /\ Len(in) \in Nat /\ DOMAIN in = 1..Len(in) /\ \A k \in 1..Len(in) : in[k] \in placed
  <2> HIDE DEF placed, ms, hs, in
  <2> QED BY <1>1, LenProperties, ElementOfSeq DEF Covers
<1>3. /\ \A g \in monitors : \E k \in 1..Len(ms) : ms[k] = g
      /\ \A h \in DOMAIN live : \E k \in 1..Len(hs) : hs[k] = h
      /\ \A h \in placed : \E k \in 1..Len(in) : in[k] = h
  BY <1>1 DEF Covers
<1>4. /\ \A g \in monitors : g \in Output
      /\ \A h \in DOMAIN live : h \in Nat /\ live[h] \in Space
      /\ \A h \in placed : h \in DOMAIN live /\ live[h].group \in monitors
  BY DEF LiveType
<1>5. Burst = q1 \o q2 \o q3 \o q4 \o q5 \o q6 \o q7 \o <<Done>>
  BY DEF Burst
<1> HIDE DEF ms, hs, in
<1>6. /\ \A k \in 1..Len(ms) :
           /\ q1[k] = Msg("output", 0, ms[k], None) /\ q2[k] = Msg("group", 0, ms[k], None)
           /\ q4[k] = Msg("output_enter", 0, ms[k], ms[k])
      /\ \A k \in 1..Len(hs) :
           /\ q3[k] = Msg("workspace", hs[k], None, None)
           /\ q5[k] = Msg("name", hs[k], None, live[hs[k]].name)
           /\ q6[k] = Msg("state", hs[k], None, live[hs[k]].active)
      /\ \A k \in 1..Len(in) : q7[k] = Msg("enter", in[k], live[in[k]].group, None)
  BY <1>2
<1>7. /\ q1 \in Seq(Message) /\ Len(q1) = Len(ms) /\ q2 \in Seq(Message) /\ Len(q2) = Len(ms)
      /\ q3 \in Seq(Message) /\ Len(q3) = Len(hs) /\ q4 \in Seq(Message) /\ Len(q4) = Len(ms)
      /\ q5 \in Seq(Message) /\ Len(q5) = Len(hs) /\ q6 \in Seq(Message) /\ Len(q6) = Len(hs)
      /\ q7 \in Seq(Message) /\ Len(q7) = Len(in)
  <2>1. /\ q1 \in [DOMAIN ms -> Message] /\ q2 \in [DOMAIN ms -> Message]
        /\ q4 \in [DOMAIN ms -> Message]
    <3>1. \A k \in DOMAIN ms : ms[k] \in Output
      BY <1>2, <1>4
    <3> QED BY <3>1, Messages
  <2>2. /\ q3 \in [DOMAIN hs -> Message] /\ q5 \in [DOMAIN hs -> Message]
        /\ q6 \in [DOMAIN hs -> Message]
    <3>1. \A k \in DOMAIN hs : /\ hs[k] \in Nat /\ live[hs[k]].name \in Name
                               /\ live[hs[k]].active \in BOOLEAN
      BY <1>2, <1>4 DEF Space
    <3> QED BY <3>1, Messages
  <2>3. q7 \in [DOMAIN in -> Message]
    <3>1. \A k \in DOMAIN in : in[k] \in Nat /\ live[in[k]].group \in Output
      BY <1>2, <1>4
    <3> QED BY <3>1, Messages
  <2>4. ms \in Seq(monitors) /\ hs \in Seq(DOMAIN live) /\ in \in Seq(placed)
    BY <1>1 DEF Covers
  <2> HIDE DEF q1, q2, q3, q4, q5, q6, q7, placed, Message
  <2> QED BY <2>1, <2>2, <2>3, <2>4, CoversEach
<1> HIDE DEF q1, q2, q3, q4, q5, q6, q7
<1> HIDE DEF placed
<1>8. /\ Len(q1) \in Nat /\ \A k \in 1..Len(q1) : q1[k].t = "output" /\ q1[k].g \in monitors
      /\ \A g \in monitors : \E k \in 1..Len(q1) : q1[k].g = g
  <2>1. \A k \in 1..Len(ms) : q1[k].t = "output" /\ q1[k].g = ms[k]
    BY <1>6, MsgIs
  <2>2. Len(q1) = Len(ms)
    BY <1>7
  <2>3. Len(ms) \in Nat /\ \A k \in 1..Len(ms) : ms[k] \in monitors
    BY <1>2
  <2>4. \A g \in monitors : \E k \in 1..Len(ms) : ms[k] = g
    BY <1>3
  <2> QED BY <2>1, <2>2, <2>3, <2>4
<1>9. /\ Len(q2) \in Nat /\ \A k \in 1..Len(q2) : q2[k].t = "group" /\ q2[k].g \in monitors
      /\ \A g \in monitors : \E k \in 1..Len(q2) : q2[k].g = g
  <2>1. \A k \in 1..Len(ms) : q2[k].t = "group" /\ q2[k].g = ms[k]
    BY <1>6, MsgIs
  <2>2. Len(q2) = Len(ms)
    BY <1>7
  <2>3. Len(ms) \in Nat /\ \A k \in 1..Len(ms) : ms[k] \in monitors
    BY <1>2
  <2>4. \A g \in monitors : \E k \in 1..Len(ms) : ms[k] = g
    BY <1>3
  <2> QED BY <2>1, <2>2, <2>3, <2>4
<1>10. /\ Len(q3) \in Nat /\ \A k \in 1..Len(q3) : q3[k].t = "workspace" /\ q3[k].h \in DOMAIN live
       /\ \A h \in DOMAIN live : \E k \in 1..Len(q3) : q3[k].h = h
  <2>1. \A k \in 1..Len(hs) : q3[k].t = "workspace" /\ q3[k].h = hs[k]
    BY <1>6, MsgIs
  <2>2. Len(q3) = Len(hs)
    BY <1>7
  <2>3. Len(hs) \in Nat /\ \A k \in 1..Len(hs) : hs[k] \in DOMAIN live
    BY <1>2
  <2>4. \A h \in DOMAIN live : \E k \in 1..Len(hs) : hs[k] = h
    BY <1>3
  <2> QED BY <2>1, <2>2, <2>3, <2>4
<1>11. /\ Len(q4) \in Nat
       /\ \A k \in 1..Len(q4) :
            q4[k].t = "output_enter" /\ q4[k].g \in monitors /\ q4[k].v = q4[k].g
       /\ \A g \in monitors : \E k \in 1..Len(q4) : q4[k].g = g
  <2>1. \A k \in 1..Len(ms) : q4[k].t = "output_enter" /\ q4[k].g = ms[k] /\ q4[k].v = ms[k]
    BY <1>6, MsgIs
  <2>2. Len(q4) = Len(ms)
    BY <1>7
  <2>3. Len(ms) \in Nat /\ \A k \in 1..Len(ms) : ms[k] \in monitors
    BY <1>2
  <2>4. \A g \in monitors : \E k \in 1..Len(ms) : ms[k] = g
    BY <1>3
  <2> QED BY <2>1, <2>2, <2>3, <2>4
<1>12. /\ Len(q5) \in Nat
       /\ \A k \in 1..Len(q5) :
            q5[k].t = "name" /\ q5[k].h \in DOMAIN live /\ q5[k].v = live[q5[k].h].name
       /\ \A h \in DOMAIN live : \E k \in 1..Len(q5) : q5[k].h = h
  <2>1. \A k \in 1..Len(hs) : q5[k].t = "name" /\ q5[k].h = hs[k] /\ q5[k].v = live[hs[k]].name
    BY <1>6, MsgIs
  <2>2. Len(q5) = Len(hs)
    BY <1>7
  <2>3. Len(hs) \in Nat /\ \A k \in 1..Len(hs) : hs[k] \in DOMAIN live
    BY <1>2
  <2>4. \A h \in DOMAIN live : \E k \in 1..Len(hs) : hs[k] = h
    BY <1>3
  <2> QED BY <2>1, <2>2, <2>3, <2>4
<1>13. /\ Len(q6) \in Nat
       /\ \A k \in 1..Len(q6) :
            q6[k].t = "state" /\ q6[k].h \in DOMAIN live /\ q6[k].v = live[q6[k].h].active
       /\ \A h \in DOMAIN live : \E k \in 1..Len(q6) : q6[k].h = h
  <2>1. \A k \in 1..Len(hs) : q6[k].t = "state" /\ q6[k].h = hs[k] /\ q6[k].v = live[hs[k]].active
    BY <1>6, MsgIs
  <2>2. Len(q6) = Len(hs)
    BY <1>7
  <2>3. Len(hs) \in Nat /\ \A k \in 1..Len(hs) : hs[k] \in DOMAIN live
    BY <1>2
  <2>4. \A h \in DOMAIN live : \E k \in 1..Len(hs) : hs[k] = h
    BY <1>3
  <2> QED BY <2>1, <2>2, <2>3, <2>4
<1>14. /\ Len(q7) \in Nat
       /\ \A k \in 1..Len(q7) :
            q7[k].t = "enter" /\ q7[k].h \in placed /\ q7[k].g = live[q7[k].h].group
       /\ \A h \in placed : \E k \in 1..Len(q7) : q7[k].h = h
  <2>1. \A k \in 1..Len(in) : q7[k].t = "enter" /\ q7[k].h = in[k] /\ q7[k].g = live[in[k]].group
    BY <1>6, MsgIs
  <2>2. Len(q7) = Len(in)
    BY <1>7
  <2>3. Len(in) \in Nat /\ \A k \in 1..Len(in) : in[k] \in placed
    BY <1>2
  <2>4. \A h \in placed : \E k \in 1..Len(in) : in[k] = h
    BY <1>3
  <2> QED BY <2>1, <2>2, <2>3, <2>4
<1>15. PICK s3 : /\ Reach(Blank, q1 \o q2 \o q3, s3) /\ Bare(s3)
                 /\ s3.o = monitors /\ DOMAIN s3.g = monitors /\ DOMAIN s3.b = DOMAIN live
  <2>1. /\ DOMAIN Blank.g = {} /\ DOMAIN Blank.b = {} /\ Blank.o = {} /\ Bare(Blank)
    BY DEF Blank, Bare
  <2>2. PICK s1 : Reach(Blank, q1, s1) /\ Declares(Blank, q1, Len(q1), s1)
    BY <1>8, <2>1, DeclareReach
  <2>3. s1.o = monitors /\ DOMAIN s1.g = {} /\ DOMAIN s1.b = {} /\ Bare(s1)
    <3>1. \A x : x \in s1.o <=> x \in monitors
      <4>1. \A x : x \in s1.o <=>
                     x \in Blank.o \/ \E k \in 1..Len(q1) : q1[k].t = "output" /\ q1[k].g = x
        BY <2>2 DEF Declares
      <4>2. \A x : (\E k \in 1..Len(q1) : q1[k].t = "output" /\ q1[k].g = x) <=> x \in monitors
        BY <1>8
      <4> QED BY <2>1, <4>1, <4>2
    <3>2. \A x : x \notin DOMAIN s1.g /\ x \notin DOMAIN s1.b
      BY <1>8, <2>1, <2>2 DEF Declares
    <3> QED BY <2>2, <3>1, <3>2 DEF Declares
  <2>4. PICK s2 : Reach(s1, q2, s2) /\ Declares(s1, q2, Len(q2), s2)
    BY <1>9, <2>3, DeclareReach
  <2>5. s2.o = monitors /\ DOMAIN s2.g = monitors /\ DOMAIN s2.b = {} /\ Bare(s2)
    <3>1. \A x : x \in DOMAIN s2.g <=> x \in monitors
      <4>1. \A x : x \in DOMAIN s2.g <=>
                     x \in DOMAIN s1.g \/ \E k \in 1..Len(q2) : q2[k].t = "group" /\ q2[k].g = x
        BY <2>4 DEF Declares
      <4>2. \A x : (\E k \in 1..Len(q2) : q2[k].t = "group" /\ q2[k].g = x) <=> x \in monitors
        BY <1>9
      <4> QED BY <2>3, <4>1, <4>2
    <3>2. \A x : x \notin DOMAIN s2.b /\ (x \in s2.o <=> x \in monitors)
      BY <1>9, <2>3, <2>4 DEF Declares
    <3> QED BY <2>4, <3>1, <3>2 DEF Declares
  <2>6. PICK s3 : Reach(s2, q3, s3) /\ Declares(s2, q3, Len(q3), s3)
    BY <1>10, <2>5, DeclareReach
  <2>7. s3.o = monitors /\ DOMAIN s3.g = monitors /\ DOMAIN s3.b = DOMAIN live /\ Bare(s3)
    <3>1. \A x : x \in DOMAIN s3.b <=> x \in DOMAIN live
      <4>1. \A x : x \in DOMAIN s3.b <=>
                     x \in DOMAIN s2.b \/ \E k \in 1..Len(q3) : q3[k].t = "workspace" /\ q3[k].h = x
        BY <2>6 DEF Declares
      <4>2. \A x : (\E k \in 1..Len(q3) : q3[k].t = "workspace" /\ q3[k].h = x) <=> x \in DOMAIN live
        BY <1>10
      <4> QED BY <2>5, <4>1, <4>2
    <3>2. \A x : (x \in DOMAIN s3.g <=> x \in monitors) /\ (x \in s3.o <=> x \in monitors)
      BY <1>10, <2>5, <2>6 DEF Declares
    <3> QED BY <2>6, <3>1, <3>2 DEF Declares
  <2> HIDE DEF Message, Blank
  <2>8. q1 \o q2 \in Seq(Message) /\ Reach(Blank, q1 \o q2, s2)
    BY <1>7, <2>2, <2>4, ReachJoin, ConcatProperties
  <2>9. Reach(Blank, q1 \o q2 \o q3, s3)
    BY <1>7, <2>6, <2>8, ReachJoin
  <2> QED BY <2>7, <2>9
<1> DEFINE Settled(u, e) ==
             /\ u.o = monitors /\ DOMAIN u.b = DOMAIN live
             /\ DOMAIN u.g = monitors /\ (\A g \in monitors : u.g[g] = {g})
             /\ \A x \in DOMAIN live : u.b[x] = e[x]
           e5 == [x \in DOMAIN live |-> WithName(Fresh, live[x].name)]
           e6 == [x \in DOMAIN live |-> WithActive(e5[x], live[x].active)]
           e7 == [x \in DOMAIN live |-> WithGroup(e6[x], live[x].group)]
<1>16. \A x \in DOMAIN live :
         /\ e5[x] = [name |-> live[x].name, active |-> FALSE, group |-> None]
         /\ e6[x] = [name |-> live[x].name, active |-> live[x].active, group |-> None]
         /\ e7[x] = [name |-> live[x].name, active |-> live[x].active, group |-> live[x].group]
  BY DEF WithName, WithActive, WithGroup, Fresh
<1>17. \A x \in DOMAIN live :
         /\ WithName(Fresh, live[x].name) = e5[x] /\ WithName(e5[x], live[x].name) = e5[x]
         /\ WithActive(e5[x], live[x].active) = e6[x] /\ WithActive(e6[x], live[x].active) = e6[x]
         /\ WithGroup(e6[x], live[x].group) = e7[x] /\ WithGroup(e7[x], live[x].group) = e7[x]
         /\ live[x].group = None => e7[x] = e6[x]
  <2> HIDE DEF e5, e6, e7
  <2> SUFFICES ASSUME NEW x \in DOMAIN live
      PROVE  /\ WithName(Fresh, live[x].name) = e5[x] /\ WithName(e5[x], live[x].name) = e5[x]
             /\ WithActive(e5[x], live[x].active) = e6[x]
             /\ WithActive(e6[x], live[x].active) = e6[x]
             /\ WithGroup(e6[x], live[x].group) = e7[x] /\ WithGroup(e7[x], live[x].group) = e7[x]
             /\ live[x].group = None => e7[x] = e6[x]
    OBVIOUS
  <2>1. /\ e5[x] = [name |-> live[x].name, active |-> FALSE, group |-> None]
        /\ e6[x] = [name |-> live[x].name, active |-> live[x].active, group |-> None]
        /\ e7[x] = [name |-> live[x].name, active |-> live[x].active, group |-> live[x].group]
    BY <1>16
  <2>2. WithName(Fresh, live[x].name) = e5[x] /\ WithName(e5[x], live[x].name) = e5[x]
    <3>1. WithName(Fresh, live[x].name) = e5[x]
      BY DEF e5
    <3>2. e5[x] \in Builder /\ e5[x].name = live[x].name
      BY <1>4, <2>1 DEF Builder, Space
    <3>3. \A c \in Builder : WithName(c, c.name) = c
      BY DEF WithName, Builder
    <3> QED BY <3>1, <3>2, <3>3
  <2>3. WithActive(e5[x], live[x].active) = e6[x] /\ WithActive(e6[x], live[x].active) = e6[x]
    BY <2>1 DEF WithActive
  <2>4. WithGroup(e6[x], live[x].group) = e7[x] /\ WithGroup(e7[x], live[x].group) = e7[x]
    BY <2>1 DEF WithGroup
  <2> QED BY <2>1, <2>2, <2>3, <2>4
<1> HIDE DEF e5, e6, e7
<1>18. PICK s4 : /\ Reach(s3, q4, s4) /\ s4.o = monitors
                 /\ DOMAIN s4.b = DOMAIN live /\ \A x \in DOMAIN live : s4.b[x] = Fresh
                 /\ DOMAIN s4.g = monitors /\ \A g \in monitors : s4.g[g] = {g}
  <2>1. \A k \in 1..Len(q4) : q4[k].t = "output_enter" /\ q4[k].v = q4[k].g /\ q4[k].g \in DOMAIN s3.g
    BY <1>11, <1>15
  <2>2. \A g \in DOMAIN s3.g : s3.g[g] = {} /\ \E k \in 1..Len(q4) : q4[k].g = g
    BY <1>11, <1>15 DEF Bare
  <2>3. PICK s4 : Reach(s3, q4, s4) /\ Entered(s3, s4)
    BY <1>11, <2>1, <2>2, OutputEnterReach
  <2> QED BY <1>15, <2>3 DEF Bare, Entered
<1>19. PICK s5 : Reach(s4, q5, s5) /\ Settled(s5, e5)
  <2>1. PICK u : Reach(s4, q5, u)
    BY <1>12, ReachExists
  <2>2. ASSUME NEW k \in 1..Len(q5)
        PROVE  /\ q5[k].t \in EditKind /\ q5[k].t # "enter"
               /\ q5[k].h \in DOMAIN s4.b /\ Edited(s4.b[q5[k].h], q5[k]) = e5[q5[k].h]
               /\ Edited(e5[q5[k].h], q5[k]) = e5[q5[k].h]
    <3>1. q5[k].t = "name" /\ q5[k].h \in DOMAIN live /\ q5[k].v = live[q5[k].h].name
      BY <1>12
    <3>2. \A c : Edited(c, q5[k]) = WithName(c, live[q5[k].h].name)
      BY <3>1 DEF Edited
    <3> QED BY <1>17, <1>18, <3>1, <3>2 DEF EditKind
  <2>3. Sweeps(s4, q5, e5)
    BY <2>2 DEF Sweeps
  <2>4. Swept(s4, q5, u, e5)
    BY <1>12, <2>1, <2>3, EditsReach
  <2>5. \A x \in DOMAIN live : \E k \in 1..Len(q5) : q5[k].h = x
    BY <1>12
  <2> QED BY <1>18, <2>1, <2>4, <2>5 DEF Swept
<1>20. PICK s6 : Reach(s5, q6, s6) /\ Settled(s6, e6)
  <2>1. PICK u : Reach(s5, q6, u)
    BY <1>13, ReachExists
  <2>2. ASSUME NEW k \in 1..Len(q6)
        PROVE  /\ q6[k].t \in EditKind /\ q6[k].t # "enter"
               /\ q6[k].h \in DOMAIN s5.b /\ Edited(s5.b[q6[k].h], q6[k]) = e6[q6[k].h]
               /\ Edited(e6[q6[k].h], q6[k]) = e6[q6[k].h]
    <3>1. q6[k].t = "state" /\ q6[k].h \in DOMAIN live /\ q6[k].v = live[q6[k].h].active
      BY <1>13
    <3>2. \A c : Edited(c, q6[k]) = WithActive(c, live[q6[k].h].active)
      BY <3>1 DEF Edited
    <3> QED BY <1>17, <1>19, <3>1, <3>2 DEF EditKind
  <2>3. Sweeps(s5, q6, e6)
    BY <2>2 DEF Sweeps
  <2>4. Swept(s5, q6, u, e6)
    BY <1>13, <2>1, <2>3, EditsReach
  <2>5. \A x \in DOMAIN live : \E k \in 1..Len(q6) : q6[k].h = x
    BY <1>13
  <2> QED BY <1>19, <2>1, <2>4, <2>5 DEF Swept
<1>21. PICK s7 : Reach(s6, q7, s7) /\ Settled(s7, e7)
  <2>1. PICK u : Reach(s6, q7, u)
    BY <1>14, ReachExists
  <2>2. ASSUME NEW k \in 1..Len(q7)
        PROVE  /\ q7[k].t \in EditKind /\ q7[k].g \in DOMAIN s6.g
               /\ q7[k].h \in DOMAIN s6.b /\ Edited(s6.b[q7[k].h], q7[k]) = e7[q7[k].h]
               /\ Edited(e7[q7[k].h], q7[k]) = e7[q7[k].h]
    <3>1. /\ q7[k].t = "enter" /\ q7[k].h \in DOMAIN live /\ q7[k].g = live[q7[k].h].group
          /\ q7[k].g \in monitors
      BY <1>4, <1>14
    <3>2. \A c : Edited(c, q7[k]) = WithGroup(c, live[q7[k].h].group)
      BY <3>1 DEF Edited
    <3> QED BY <1>17, <1>20, <3>1, <3>2 DEF EditKind
  <2>3. Sweeps(s6, q7, e7)
    BY <2>2 DEF Sweeps
  <2>4. Swept(s6, q7, u, e7)
    BY <1>14, <2>1, <2>3, EditsReach
  <2>5. ASSUME NEW x \in DOMAIN live PROVE u.b[x] = e7[x]
    <3>1. CASE x \in placed
      <4>1. \E k \in 1..Len(q7) : q7[k].h = x
        BY <1>14, <3>1
      <4> QED BY <1>20, <2>4, <4>1 DEF Swept
    <3>2. CASE x \notin placed
      <4>1. \A k \in 1..Len(q7) : q7[k].h # x
        BY <1>14, <3>2
      <4>2. live[x].group = None
        BY <3>2 DEF placed
      <4> QED BY <1>17, <1>20, <2>4, <4>1, <4>2 DEF Swept
    <3> QED BY <3>1, <3>2
  <2> QED BY <1>20, <2>1, <2>4, <2>5 DEF Swept
<1>22. Matches(monitors, live, s7)
  <2>1. ASSUME NEW x \in DOMAIN live
        PROVE  /\ s7.b[x] \in Builder /\ s7.b[x].name = live[x].name
               /\ s7.b[x].active = live[x].active
               /\ IF live[x].group = None THEN s7.b[x].group \notin monitors
                                          ELSE s7.b[x].group = live[x].group
    <3>1. s7.b[x] = live[x] /\ live[x] \in Space
      BY <1>4, <1>16, <1>21 DEF Space
    <3>2. None \notin monitors /\ live[x] \in Builder
      BY <1>4, <3>1, BarAssumption DEF Space, Builder
    <3> QED BY <3>1, <3>2
  <2> QED BY <1>21, <2>1 DEF Matches
<1> DEFINE p3 == q1 \o q2 \o q3
           p4 == p3 \o q4
           p5 == p4 \o q5
           p6 == p5 \o q6
           p7 == p6 \o q7
<1> HIDE DEF Settled, Message, Blank
<1>23. p3 \in Seq(Message) /\ Reach(Blank, p3, s3)
  <2>1. q1 \o q2 \in Seq(Message)
    BY <1>7, ConcatProperties
  <2> QED BY <1>7, <1>15, <2>1, ConcatProperties
<1> HIDE DEF p3
<1>24. p4 \in Seq(Message) /\ Reach(Blank, p4, s4)
  BY <1>7, <1>18, <1>23, ReachJoin, ConcatProperties
<1> HIDE DEF p4
<1>25. p5 \in Seq(Message) /\ Reach(Blank, p5, s5)
  BY <1>7, <1>19, <1>24, ReachJoin, ConcatProperties
<1> HIDE DEF p5
<1>26. p6 \in Seq(Message) /\ Reach(Blank, p6, s6)
  BY <1>7, <1>20, <1>25, ReachJoin, ConcatProperties
<1> HIDE DEF p6
<1>27. p7 \in Seq(Message) /\ Reach(Blank, p7, s7)
  BY <1>7, <1>21, <1>26, ReachJoin, ConcatProperties
<1>28. Burst = p7 \o <<Done>>
  BY <1>5 DEF p3, p4, p5, p6
<1> HIDE DEF p7
<1>29. \E u : Reach(Blank, Burst, u) /\ Matches(monitors, live, u)
  <2> DEFINE u == Handled(s7, Done)
  <2>1. u.b = s7.b /\ u.g = s7.g /\ u.o = s7.o
    BY MsgIs DEF Done, Handled, BuildersAfter, GroupsAfter, OutputsAfter, EditKind
  <2> HIDE DEF u
  <2>2. Matches(monitors, live, u)
    BY <1>22, <2>1 DEF Matches
  <2>3. Reach(Blank, Burst, u)
    BY <1>27, <1>28, Messages, ReachStep DEF u
  <2> QED BY <2>2, <2>3
<1>30. Burst \in Seq(Message) /\ Burst # <<>> /\ Burst[Len(Burst)] = Done
  <2>1. Done \in Message
    BY Messages
  <2> QED BY <1>27, <1>28, <2>1
<1> QED BY <1>29, <1>30

-----------------------------------------------------------------------------
(* The session of ext-workspace: once it has handled what is on the wire,  *)
(* its mirror shows what the compositor has.                               *)

Closed == wire # <<>> => wire[Len(wire)] = Done

Flushed == last = StateNow /\ by_key = HandlesNow

MirrorInv ==
  /\ LiveType /\ wire \in Seq(Message) /\ AppOK(App)
  /\ linked =>
       /\ xpc \in {"dispatch", "clone", "send"} /\ (xpc # "dispatch" => last # None)
       /\ Closed /\ (wire = <<>> => Flushed)
       /\ \E u : Reach(App, wire, u) /\ Matches(monitors, live, u)

LEMMA StateTyped == ASSUME AppOK(App) PROVE StateNow \in SUBSET Entry /\ StateNow # None
<1>1. ASSUME NEW h \in Named
      PROVE  [id |-> KeyOf(h)[1], output |-> KeyOf(h)[2], active |-> builders[h].active] \in Entry
  <2>1. builders[h] \in Builder /\ builders[h].name # None
    BY DEF Named, AppOK, App
  <2>2. builders[h].name \in Name /\ builders[h].active \in BOOLEAN
    BY <2>1 DEF Builder
  <2>3. \A g : OutputNameFor(g) \in Output \cup {None}
    BY DEF OutputNameFor, AppOK, App
  <2>4. KeyOf(h)[1] = builders[h].name /\ KeyOf(h)[2] = OutputNameFor(builders[h].group)
    BY DEF KeyOf
  <2> QED BY <2>2, <2>3, <2>4 DEF Entry
<1>2. StateNow \in SUBSET Entry
  BY <1>1 DEF StateNow
<1> QED BY <1>2, ExtAssumption

LEMMA DoneKeeps ==
  ASSUME NEW ms, NEW lv, NEW u, Matches(ms, lv, u), NEW m, m.t = "done"
  PROVE  Matches(ms, lv, Handled(u, m))
<1> DEFINE w == Handled(u, m)
<1>1. w.b = u.b /\ w.g = u.g /\ w.o = u.o
  BY DEF Handled, BuildersAfter, GroupsAfter, OutputsAfter, EditKind
<1> HIDE DEF w
<1>2. Matches(ms, lv, w)
  BY <1>1 DEF Matches
<1> QED BY <1>2 DEF w

LEMMA WireFacts ==
  ASSUME NEW q \in Seq(Message), q # <<>>
  PROVE  /\ Head(q) \in Message /\ Tail(q) \in Seq(Message)
         /\ Tail(q) = <<>> => Head(q) = q[Len(q)]
         /\ Tail(q) # <<>> => Tail(q)[Len(Tail(q))] = q[Len(q)]
<1> HIDE DEF Message
<1>1. Len(q) \in Nat /\ Len(q) # 0 /\ Head(q) = q[1]
  BY LenProperties, EmptySeq
<1>2. /\ Head(q) \in Message /\ Tail(q) \in Seq(Message) /\ Len(Tail(q)) = Len(q) - 1
      /\ \A k \in 1..Len(Tail(q)) : Tail(q)[k] = q[k + 1]
  BY HeadTailProperties
<1>3. Tail(q) = <<>> <=> Len(Tail(q)) = 0
  BY <1>2, EmptySeq
<1>4. Tail(q) = <<>> => Len(q) = 1
  BY <1>1, <1>2, <1>3
<1>5. Tail(q) # <<>> => Len(Tail(q)) \in 1..Len(Tail(q)) /\ Len(Tail(q)) + 1 = Len(q)
  BY <1>1, <1>2, <1>3
<1> QED BY <1>1, <1>2, <1>4, <1>5

(* A batch that the compositor sends leaves the mirror-to-be a mirror.     *)
LEMMA MovedKeeps ==
  ASSUME MirrorInv, Moved, UNCHANGED <<linked, appVars, sharedVars, xpc>>
  PROVE  MirrorInv'
<1>1. PICK msgs \in Seq(Message) : Tell(msgs) /\ Carries(msgs)
  BY DEF Moved
<1>2. LiveType' /\ App' = App /\ wire \in Seq(Message) /\ AppOK(App) /\ Done \in Message
  BY Messages DEF Moved, App, appVars, MirrorInv
<1>3. AppOK(App)'
  BY <1>2 DEF AppOK
<1>4. wire' \in Seq(Message)
  <2> HIDE DEF Message
  <2>1. wire \o msgs \in Seq(Message)
    BY <1>2, ConcatProperties
  <2>2. wire \o msgs \o <<Done>> \in Seq(Message)
    BY <1>2, <2>1
  <2> QED BY <1>1, <1>2, <2>2 DEF Tell
<1>5. ASSUME linked
      PROVE  /\ Closed' /\ wire' # <<>>
             /\ \E u : Reach(App, wire', u) /\ Matches(monitors', live', u)
  <2>1. wire' = wire \o msgs \o <<Done>>
    BY <1>1, <1>5 DEF Tell
  <2>2. PICK u : Reach(App, wire, u) /\ Matches(monitors, live, u)
    BY <1>5 DEF MirrorInv
  <2>3. PICK v : Reach(u, msgs, v) /\ Matches(monitors', live', v)
    BY <1>1, <2>2 DEF Carries
  <2> DEFINE w == Handled(v, Done)
  <2>4. Matches(monitors', live', w)
    BY <2>3, DoneKeeps, MsgIs DEF Done
  <2> HIDE DEF w, Message
  <2>5. wire \o msgs \in Seq(Message) /\ Reach(App, wire \o msgs, v)
    BY <1>2, <2>2, <2>3, ReachJoin, ConcatProperties
  <2>6. Reach(App, wire', w)
    BY <1>2, <2>1, <2>5, ReachStep DEF w
  <2>7. wire' # <<>> /\ wire'[Len(wire')] = Done
    BY <1>2, <2>1, <2>5
  <2> QED BY <2>4, <2>6, <2>7 DEF Closed
<1>6. UNCHANGED <<last, xpc, linked>>
  BY DEF sharedVars
<1> QED BY <1>2, <1>3, <1>4, <1>5, <1>6 DEF MirrorInv

LEMMA CompositorMoves ==
  ASSUME LiveType, CompositorActs
  PROVE  Moved /\ UNCHANGED <<linked, appVars, sharedVars, xpc>>
<1>1. UNCHANGED <<linked, appVars, sharedVars, xpc>>
  BY DEF CompositorActs
<1>2. ASSUME NEW h \in DOMAIN live, MakeActive(h) PROVE Moved
  BY <1>2, MakeActiveMoves
<1>3. ASSUME NewWorkspace PROVE Moved
  BY <1>3, NewWorkspaceMoves
<1>4. ASSUME RemoveWorkspace PROVE Moved
  BY <1>4, RemoveWorkspaceMoves
<1>5. ASSUME ReplaceWorkspace PROVE Moved
  BY <1>5, ReplaceWorkspaceMoves
<1>6. ASSUME MoveWorkspace \/ Adopt PROVE Moved
  BY <1>6, MoveWorkspaceMoves
<1>7. ASSUME Unplug PROVE Moved
  BY <1>7, UnplugMoves
<1>8. ASSUME Tick PROVE Moved
  BY <1>8, TickMoves
<1>9. \/ \E h \in DOMAIN live : MakeActive(h)
      \/ NewWorkspace \/ RemoveWorkspace \/ ReplaceWorkspace \/ MoveWorkspace \/ Unplug \/ Adopt
      \/ Tick
  BY DEF CompositorActs
<1> QED BY <1>1, <1>2, <1>3, <1>4, <1>5, <1>6, <1>7, <1>8, <1>9

LEMMA MirrorKeeps == ASSUME MirrorInv, Mirror PROVE MirrorInv'
<1> DEFINE m == Head(wire)
           t == Tail(wire)
           A == Handled(App, m)
<1>1. /\ App' = A /\ m.t # "done" /\ xpc = "dispatch" /\ wire # <<>> /\ wire' = t
      /\ UNCHANGED <<monitors, live, used, linked, xpc>>
  BY MirrorHandles DEF xcompVars
<1>2. LiveType /\ wire \in Seq(Message) /\ AppOK(App)
  BY DEF MirrorInv
<1>3. m \in Message /\ t \in Seq(Message)
  BY <1>1, <1>2, WireFacts
<1>4. AppOK(A)
  BY <1>2, <1>3, HandledOK
<1> HIDE DEF A
<1>5. AppOK(App)' /\ LiveType' /\ wire' \in Seq(Message)
  <2>1. AppOK(App')
    BY <1>1, <1>4
  <2> QED BY <1>1, <1>2, <1>3, <2>1 DEF AppOK, LiveType
<1>6. ASSUME linked
      PROVE  /\ wire' # <<>> /\ Closed'
             /\ \E u : Reach(App', wire', u) /\ Matches(monitors', live', u)
  <2>1. wire[Len(wire)] = Done /\ Done.t = "done"
    BY <1>1, <1>6, MsgIs DEF MirrorInv, Closed, Done
  <2>2. t # <<>> /\ t[Len(t)] = Done
    BY <1>1, <1>2, <2>1, WireFacts
  <2>3. PICK u : Reach(App, wire, u) /\ Matches(monitors, live, u)
    BY <1>6 DEF MirrorInv
  <2>4. Reach(A, t, u)
    <3> HIDE DEF Message
    <3> QED BY <1>1, <1>2, <2>3, ReachShift DEF A
  <2> HIDE DEF t
  <2> QED BY <1>1, <2>2, <2>3, <2>4 DEF Closed
<1> QED BY <1>1, <1>5, <1>6 DEF MirrorInv

LEMMA FlushKeeps == ASSUME MirrorInv, Flush PROVE MirrorInv' /\ last' \in SUBSET Entry /\ last' # None
<1> DEFINE m == Head(wire)
           t == Tail(wire)
<1>1. /\ m.t = "done" /\ xpc = "dispatch" /\ wire # <<>> /\ wire' = t
      /\ UNCHANGED <<monitors, live, used, linked, builders, groups, outputs>>
      /\ last' = StateNow /\ by_key' = HandlesNow /\ xpc' \in {"dispatch", "clone"}
  BY DEF Flush, Handling, xcompVars, appVars
<1>2. LiveType /\ wire \in Seq(Message) /\ AppOK(App) /\ App' = App
  BY <1>1 DEF MirrorInv, App
<1>3. t \in Seq(Message)
  BY <1>1, <1>2, WireFacts
<1>4. AppOK(App)' /\ LiveType' /\ wire' \in Seq(Message)
  BY <1>1, <1>2, <1>3 DEF AppOK, LiveType
<1>5. StateNow' = StateNow /\ HandlesNow' = HandlesNow
  BY <1>1 DEF StateNow, HandlesNow, Named, KeyOf, OutputNameFor, GroupOutputs
<1>6. Flushed' /\ last' \in SUBSET Entry /\ last' # None
  BY <1>1, <1>2, <1>5, StateTyped DEF Flushed
<1>7. ASSUME linked
      PROVE  /\ Closed'
             /\ \E u : Reach(App', wire', u) /\ Matches(monitors', live', u)
  <2>1. wire[Len(wire)] = Done
    BY <1>1, <1>7 DEF MirrorInv, Closed
  <2>2. t # <<>> => t[Len(t)] = Done
    BY <1>1, <1>2, <2>1, WireFacts
  <2>3. PICK u : Reach(App, wire, u) /\ Matches(monitors, live, u)
    BY <1>7 DEF MirrorInv
  <2>4. Handled(App, m) = App
    BY <1>1 DEF App, Handled, BuildersAfter, GroupsAfter, OutputsAfter, EditKind
  <2>5. Reach(App, t, u)
    <3> HIDE DEF Message
    <3>1. Reach(Handled(App, m), t, u)
      BY <1>1, <1>2, <2>3, ReachShift
    <3> QED BY <2>4, <3>1
  <2> HIDE DEF t
  <2> QED BY <1>1, <1>2, <2>2, <2>3, <2>5 DEF Closed
<1> QED BY <1>1, <1>4, <1>6, <1>7 DEF MirrorInv

LEMMA ConnectKeeps == ASSUME MirrorInv, Connect PROVE MirrorInv'
<1>1. CASE ~xup
  <2>1. ~linked /\ UNCHANGED <<monitors, live, used, wire, linked, builders, groups, outputs>>
    BY <1>1 DEF Connect, MirrorInv, xcompVars, appVars
  <2> QED BY <2>1 DEF MirrorInv, LiveType, AppOK, App
<1>2. CASE xup
  <2>1. /\ wire' = Burst /\ xpc' = "dispatch" /\ builders' = <<>> /\ groups' = <<>> /\ outputs' = {}
        /\ UNCHANGED <<monitors, live, used>>
    BY <1>2 DEF Connect, xcompVars
  <2>2. App' = Blank /\ LiveType
    BY <2>1 DEF App, Blank, MirrorInv
  <2>3. /\ Burst \in Seq(Message) /\ Burst # <<>> /\ Burst[Len(Burst)] = Done
        /\ \E u : Reach(Blank, Burst, u) /\ Matches(monitors, live, u)
    BY <2>2, BurstReach
  <2>4. AppOK(App)'
    BY <2>1 DEF AppOK, App
  <2>5. LiveType'
    BY <2>1, <2>2 DEF LiveType
  <2>6. wire' \in Seq(Message) /\ wire' # <<>> /\ Closed'
    BY <2>1, <2>3 DEF Closed
  <2>7. \E u : Reach(App', wire', u) /\ Matches(monitors', live', u)
    BY <2>1, <2>2, <2>3
  <2> QED BY <2>1, <2>4, <2>5, <2>6, <2>7 DEF MirrorInv
<1> QED BY <1>1, <1>2

(* The steps that touch nothing of the mirror.                             *)
LEMMA Elsewhere ==
  ASSUME MirrorInv, UNCHANGED <<monitors, live, used, wire, appVars>>,
         linked' => /\ linked /\ xpc' \in {"dispatch", "clone", "send"}
                    /\ xpc' # "dispatch" => last' # None
                    /\ UNCHANGED <<last, by_key>>
  PROVE  MirrorInv'
<1>1. App' = App /\ StateNow' = StateNow /\ HandlesNow' = HandlesNow
  BY DEF appVars, App, StateNow, HandlesNow, Named, KeyOf, OutputNameFor, GroupOutputs
<1>2. LiveType' /\ AppOK(App)' /\ wire' \in Seq(Message)
  BY <1>1 DEF MirrorInv, LiveType, AppOK
<1>3. linked' => Closed' /\ (wire' = <<>> => Flushed')
  BY <1>1 DEF MirrorInv, Closed, Flushed
<1>4. linked' => \E u : Reach(App', wire', u) /\ Matches(monitors', live', u)
  BY <1>1 DEF MirrorInv
<1> QED BY <1>2, <1>3, <1>4 DEF MirrorInv

-----------------------------------------------------------------------------
(* The broadcasts of ext-workspace: a bar that no event is under way to    *)
(* has been sent what amounts to the last snapshot.                        *)

LEMMA RangeIs ==
  ASSUME NEW S, NEW q \in Seq(S)
  PROVE  /\ Range(q) \subseteq S
         /\ \A e \in S : Append(q, e) \in Seq(S) /\ Append(q, e) # <<>> /\ Range(Append(q, e)) = Range(q) \cup {e}
         /\ q # <<>> => /\ Head(q) \in S /\ Tail(q) \in Seq(S) /\ Head(q) \in Range(q)
                        /\ Range(q) = {Head(q)} \cup Range(Tail(q))
                        /\ (Tail(q) # <<>> <=> Len(q) > 1)
<1>1. Len(q) \in Nat /\ DOMAIN q = 1..Len(q) /\ (q = <<>> <=> Len(q) = 0) /\ \A k \in 1..Len(q) : q[k] \in S
  BY LenProperties, EmptySeq
<1>2. Range(q) = {q[k] : k \in 1..Len(q)}
  BY <1>1 DEF Range
<1>3. Range(q) \subseteq S
  BY <1>1, <1>2
<1>4. ASSUME NEW e \in S
      PROVE  Append(q, e) \in Seq(S) /\ Append(q, e) # <<>> /\ Range(Append(q, e)) = Range(q) \cup {e}
  <2> DEFINE r == Append(q, e)
  <2>1. /\ r \in Seq(S) /\ r # <<>> /\ Len(r) = Len(q) + 1
        /\ (\A k \in 1..Len(q) : r[k] = q[k]) /\ r[Len(q) + 1] = e
    BY AppendProperties
  <2> HIDE DEF r
  <2>2. Range(r) = {r[k] : k \in 1..(Len(q) + 1)}
    BY <2>1, LenProperties DEF Range
  <2>3. {r[k] : k \in 1..(Len(q) + 1)} = {q[k] : k \in 1..Len(q)} \cup {e}
    BY <1>1, <2>1
  <2>4. r \in Seq(S) /\ r # <<>> /\ Range(r) = Range(q) \cup {e}
    BY <1>2, <2>1, <2>2, <2>3
  <2> QED BY <2>4 DEF r
<1>5. ASSUME q # <<>>
      PROVE  /\ Head(q) \in S /\ Tail(q) \in Seq(S) /\ Head(q) \in Range(q)
             /\ Range(q) = {Head(q)} \cup Range(Tail(q))
             /\ (Tail(q) # <<>> <=> Len(q) > 1)
  <2> DEFINE r == Tail(q)
  <2>1. /\ Head(q) \in S /\ r \in Seq(S) /\ Len(r) = Len(q) - 1 /\ Len(q) # 0 /\ Head(q) = q[1]
        /\ \A k \in 1..Len(r) : r[k] = q[k + 1]
    BY <1>1, <1>5, HeadTailProperties
  <2> HIDE DEF r
  <2>2. Range(r) = {r[k] : k \in 1..(Len(q) - 1)}
    BY <2>1, LenProperties DEF Range
  <2>3. {q[k] : k \in 1..Len(q)} = {q[1]} \cup {r[k] : k \in 1..(Len(q) - 1)}
    <3>1. ASSUME NEW k \in 1..Len(q), k # 1 PROVE q[k] \in {r[j] : j \in 1..(Len(q) - 1)}
      <4>1. k - 1 \in 1..(Len(q) - 1) /\ r[k - 1] = q[(k - 1) + 1] /\ (k - 1) + 1 = k
        BY <1>1, <2>1, <3>1
      <4> QED BY <4>1
    <3>2. ASSUME NEW k \in 1..(Len(q) - 1) PROVE r[k] \in {q[j] : j \in 1..Len(q)}
      <4>1. k + 1 \in 1..Len(q) /\ r[k] = q[k + 1]
        BY <1>1, <2>1, <3>2
      <4> QED BY <4>1
    <3>3. 1 \in 1..Len(q)
      BY <1>1, <2>1
    <3> QED BY <3>1, <3>2, <3>3
  <2>4. r # <<>> <=> Len(q) > 1
    <3>1. r = <<>> <=> Len(r) = 0
      BY <2>1, EmptySeq
    <3> QED BY <1>1, <2>1, <3>1
  <2>5. Range(q) = {Head(q)} \cup Range(r) /\ Head(q) \in Range(q)
    BY <1>2, <2>1, <2>2, <2>3
  <2> QED BY <2>1, <2>4, <2>5 DEF r
<1> QED BY <1>3, <1>4, <1>5

(* The event under way has still to be sent to b.                          *)
Await(b) == xpc = "clone" \/ (xpc = "send" /\ b \in Range(todo))

Upto(b) == {Current} \cup {Clicked(Current, b, n) : n \in Name}

CastType ==
  /\ BarType /\ task \in [Bar -> {"new", "replay", "loop"}]
  /\ sinks \in Seq(Bar) /\ todo \in Seq(Bar)
  /\ last = None \/ last \in SUBSET Entry
  /\ xpc \in {"off", "connect", "dispatch", "lost", "clone", "send", "sleep"}

ThreadOK ==
  /\ xpc # "off" => sinks # <<>>
  /\ xpc \in {"clone", "send"} => ev = IF last = None THEN Disconnected ELSE Snapshot(last)
  /\ xpc = "send" => todo # <<>> /\ Range(todo) \subseteq Range(sinks)

BarOK(b) ==
  /\ task[b] # "new" <=> b \in Range(sinks)
  /\ task[b] = "new" => Drained(b) = {}
  /\ task[b] = "replay" /\ ~Await(b) => Drained(b) \in {Current, {}}
  /\ task[b] = "loop" /\ ~Await(b) => Drained(b) \in Upto(b)

CastInv == CastType /\ ThreadOK /\ \A b \in Bar : BarOK(b)

Resting == {"connect", "dispatch", "lost", "sleep"}

(* Between two broadcasts the thread sends no bar anything.                *)
LEMMA ThreadRests ==
  ASSUME CastInv, UNCHANGED <<barVars, sinks, last, task, castVars>>,
         xpc' = xpc \/ (xpc \in Resting /\ xpc' \in Resting)
  PROVE  CastInv'
<1>1. UNCHANGED <<shown, chan, sinks, last, task, ev, todo>>
  BY DEF barVars, castVars
<1>2. CastType'
  BY <1>1 DEF CastInv, CastType, BarType, Resting
<1>3. ThreadOK'
  BY <1>1 DEF CastInv, ThreadOK, Resting
<1>4. Current' = Current
  BY <1>1 DEF Current
<1>5. ASSUME NEW b \in Bar PROVE BarOK(b)'
  <2>1. BarOK(b) /\ (Await(b)' <=> Await(b))
    BY <1>1 DEF CastInv, Await, Resting
  <2>2. Drained(b)' = Drained(b) /\ Upto(b)' = Upto(b)
    BY <1>1, <1>4 DEF Drained, Upto
  <2> QED BY <1>1, <1>4, <2>1, <2>2 DEF BarOK
<1> QED BY <1>2, <1>3, <1>5 DEF CastInv

(* An event to broadcast: no bar is yet held to what it says.              *)
LEMMA BroadcastStarts ==
  ASSUME CastInv, UNCHANGED <<barVars, sinks, task, todo>>, xpc # "off", xpc' = "clone",
         last' = None \/ last' \in SUBSET Entry,
         ev' = IF last' = None THEN Disconnected ELSE Snapshot(last')
  PROVE  CastInv'
<1>1. UNCHANGED <<shown, chan>>
  BY DEF barVars
<1>2. CastType'
  BY <1>1 DEF CastInv, CastType, BarType
<1>3. ThreadOK'
  BY DEF CastInv, ThreadOK
<1>4. ASSUME NEW b \in Bar PROVE BarOK(b)'
  <2>1. BarOK(b) /\ Await(b)' /\ Drained(b)' = Drained(b)
    BY <1>1 DEF CastInv, Await, Drained
  <2> QED BY <2>1 DEF BarOK
<1> QED BY <1>2, <1>3, <1>4 DEF CastInv

LEMMA CloneKeeps == ASSUME CastInv, CloneSinks PROVE CastInv'
<1>1. /\ UNCHANGED <<shown, chan, sinks, last, task, ev>> /\ xpc = "clone" /\ xpc' = "send"
      /\ todo' = sinks
  BY DEF CloneSinks, barVars, sharedVars
<1>2. CastType'
  BY <1>1 DEF CastInv, CastType, BarType
<1>3. ThreadOK'
  BY <1>1 DEF CastInv, ThreadOK
<1>4. ASSUME NEW b \in Bar PROVE BarOK(b)'
  <2>1. BarOK(b) /\ Drained(b)' = Drained(b)
    BY <1>1 DEF CastInv, Drained
  <2>2. b \in Range(sinks) => Await(b)'
    BY <1>1 DEF Await
  <2> QED BY <1>1, <2>1, <2>2 DEF BarOK
<1> QED BY <1>2, <1>3, <1>4 DEF CastInv

(* What an event of a broadcast, or of a replay, leaves on a bar.          *)
LEMMA CastShows ==
  ASSUME CastType
  PROVE  /\ last # None => Snapshot(last) \in Event /\ \A s : Applied(s, Snapshot(last)) = Current
         /\ Disconnected \in Event /\ (last = None => \A s : Applied(s, Disconnected) = Current)
         /\ Snapshot(last) # Disconnected /\ Current \in SUBSET Entry
<1>1. Current \in SUBSET Entry
  BY DEF CastType, Current
<1>2. Snapshot(last).t = "snapshot" /\ Disconnected.t = "disconnected" /\ Disconnected \in Event
  BY DEF Snapshot, Disconnected, Event
<1>3. last # None => Snapshot(last) \in Event /\ Snapshot(last).state = Current
  BY DEF CastType, Snapshot, Event, Current
<1>4. last = None => Current = {}
  BY DEF Current
<1> QED BY <1>1, <1>2, <1>3, <1>4 DEF Applied

LEMMA SendKeeps == ASSUME CastInv, SendNext PROVE CastInv'
<1>0. PICK h : h = Head(todo)
  OBVIOUS
<1>1. /\ xpc = "send" /\ Send(h, ev) /\ todo' = Tail(todo) /\ xpc' = AfterSend
      /\ UNCHANGED <<shown, sinks, last, task, ev>>
  BY <1>0 DEF SendNext, sharedVars
<1>2. CastType /\ BarType /\ todo \in Seq(Bar) /\ todo # <<>> /\ Range(todo) \subseteq Range(sinks)
  BY <1>1 DEF CastInv, CastType, ThreadOK
<1>3. /\ h \in Bar /\ h \in Range(todo) /\ Tail(todo) \in Seq(Bar)
      /\ Range(todo) = {h} \cup Range(Tail(todo)) /\ (Tail(todo) # <<>> <=> Len(todo) > 1)
  BY <1>0, <1>2, RangeIs
<1>4. ev = IF last = None THEN Disconnected ELSE Snapshot(last)
  BY <1>1 DEF CastInv, ThreadOK
<1>5. ev \in Event /\ \A s : Applied(s, ev) = Current
  BY <1>2, <1>4, CastShows
<1>6. /\ BarType' /\ Drained(h)' = Current
      /\ \A x \in Bar \ {h} : shown'[x] = shown[x] /\ chan'[x] = chan[x]
  <2>1. PICK e \in Event : e = ev
    BY <1>5
  <2>2. Send(h, e) /\ UNCHANGED shown
    BY <1>1, <2>1
  <2>3. /\ BarType' /\ Drained(h)' = Applied(Drained(h), e)
        /\ \A x \in Bar \ {h} : shown'[x] = shown[x] /\ chan'[x] = chan[x]
    BY <1>2, <1>3, <2>2, SendShows
  <2> QED BY <1>5, <2>1, <2>3
<1>7. xpc' = IF Tail(todo) # <<>> THEN "send" ELSE IF ev = Disconnected THEN "sleep" ELSE "dispatch"
  BY <1>1, <1>3 DEF AfterSend
<1>8. CastType'
  BY <1>1, <1>2, <1>3, <1>6, <1>7 DEF CastType
<1>9. ThreadOK'
  BY <1>1, <1>2, <1>3, <1>4, <1>7 DEF CastInv, ThreadOK
<1>10. Current' = Current
  BY <1>1 DEF Current
<1>11. ASSUME NEW b \in Bar PROVE BarOK(b)'
  <2>1. BarOK(b) /\ Upto(b)' = Upto(b)
    BY <1>10 DEF CastInv, Upto
  <2>2. CASE b = h
    <3>1. task[b] # "new" /\ Drained(b)' = Current'
      BY <1>2, <1>3, <1>6, <1>10, <2>1, <2>2 DEF BarOK
    <3> QED BY <1>1, <2>1, <3>1 DEF BarOK, Upto
  <2>3. CASE b # h
    <3>1. Drained(b)' = Drained(b)
      BY <1>6, <2>3 DEF Drained
    <3>2. Await(b) => Await(b)'
      <4>1. b \in Range(todo) => b \in Range(Tail(todo))
        BY <1>3, <2>3
      <4>2. b \in Range(Tail(todo)) => Tail(todo) # <<>>
        BY DEF Range
      <4> QED BY <1>1, <1>7, <4>1, <4>2 DEF Await
    <3> QED BY <1>1, <1>10, <2>1, <3>1, <3>2 DEF BarOK
  <2> QED BY <2>2, <2>3
<1> QED BY <1>8, <1>9, <1>11 DEF CastInv

(* A step of the main thread for one bar.                                  *)
LEMMA OtherBars ==
  ASSUME CastInv, NEW b \in Bar, CastType', ThreadOK', BarOK(b)', UNCHANGED <<last, todo>>,
         xpc' = xpc \/ {xpc, xpc'} \cap {"clone", "send"} = {},
         \A x \in Bar \ {b} : /\ shown'[x] = shown[x] /\ chan'[x] = chan[x] /\ task'[x] = task[x]
                              /\ (x \in Range(sinks') <=> x \in Range(sinks))
  PROVE  CastInv'
<1>1. Current' = Current
  BY DEF Current
<1>2. ASSUME NEW x \in Bar \ {b} PROVE BarOK(x)'
  <2>1. BarOK(x) /\ Drained(x)' = Drained(x) /\ Upto(x)' = Upto(x)
    BY <1>1 DEF CastInv, Drained, Upto
  <2>2. Await(x)' <=> Await(x)
    BY DEF Await
  <2> QED BY <1>1, <2>1, <2>2 DEF BarOK
<1> QED BY <1>2 DEF CastInv

LEMMA PushKeeps == ASSUME CastInv, NEW b \in Bar, PushSink(b) PROVE CastInv'
<1>1. /\ task[b] = "new" /\ task' = [task EXCEPT ![b] = "replay"] /\ sinks' = Append(sinks, b)
      /\ UNCHANGED <<shown, chan, last, xpc, ev, todo>>
  BY DEF PushSink, barVars, castVars
<1>2. CastType /\ ThreadOK /\ BarOK(b) /\ sinks \in Seq(Bar)
  BY DEF CastInv, CastType
<1>3. sinks' \in Seq(Bar) /\ sinks' # <<>> /\ Range(sinks') = Range(sinks) \cup {b}
  BY <1>1, <1>2, RangeIs
<1>4. CastType' /\ task'[b] = "replay" /\ \A x \in Bar \ {b} : task'[x] = task[x]
  BY <1>1, <1>2, <1>3 DEF CastType, BarType
<1>5. ThreadOK'
  BY <1>1, <1>2, <1>3 DEF ThreadOK
<1>6. BarOK(b)'
  <2>1. Drained(b)' = {}
    BY <1>1, <1>2 DEF BarOK, Drained
  <2> QED BY <1>3, <1>4, <2>1 DEF BarOK
<1> QED BY <1>1, <1>3, <1>4, <1>5, <1>6, OtherBars

LEMMA ReplayKeeps == ASSUME CastInv, NEW b \in Bar, Replay(b) PROVE CastInv'
<1>1. /\ task[b] = "replay" /\ task' = [task EXCEPT ![b] = "loop"]
      /\ UNCHANGED <<shown, sinks, last, ev, todo>>
      /\ xpc' = IF xpc = "off" THEN "connect" ELSE xpc
  BY DEF Replay, sharedVars, castVars
<1>2. CastType /\ ThreadOK /\ BarOK(b) /\ BarType
  BY DEF CastInv, CastType
<1>3. IF last = None THEN UNCHANGED chan ELSE Send(b, Snapshot(last))
  BY DEF Replay
<1>4. /\ BarType' /\ \A x \in Bar \ {b} : shown'[x] = shown[x] /\ chan'[x] = chan[x]
      /\ IF last = None THEN Drained(b)' = Drained(b) ELSE Drained(b)' = Current
  <2>1. CASE last = None
    BY <1>1, <1>2, <1>3, <2>1 DEF BarType, Drained
  <2>2. CASE last # None
    <3>1. PICK e \in Event : e = Snapshot(last) /\ \A s : Applied(s, e) = Current
      BY <1>2, <2>2, CastShows
    <3>2. Send(b, e) /\ UNCHANGED shown
      BY <1>1, <1>3, <2>2, <3>1
    <3>3. /\ BarType' /\ Drained(b)' = Applied(Drained(b), e)
          /\ \A x \in Bar \ {b} : shown'[x] = shown[x] /\ chan'[x] = chan[x]
      BY <1>2, <3>2, SendShows
    <3> QED BY <2>2, <3>1, <3>3
  <2> QED BY <2>1, <2>2
<1>5. CastType' /\ task'[b] = "loop" /\ \A x \in Bar \ {b} : task'[x] = task[x]
  BY <1>1, <1>2, <1>4 DEF CastType
<1>6. sinks # <<>> /\ b \in Range(sinks)
  <2>1. b \in Range(sinks)
    BY <1>1, <1>2 DEF BarOK
  <2> QED BY <2>1 DEF Range
<1>7. ThreadOK'
  BY <1>1, <1>2, <1>6 DEF ThreadOK
<1>8. Current' = Current /\ (Await(b)' <=> Await(b))
  BY <1>1 DEF Current, Await
<1>9. ~Await(b) => Drained(b)' = Current
  <2>1. CASE last = None
    <3>1. Current = {}
      BY <2>1 DEF Current
    <3> QED BY <1>1, <1>2, <1>4, <2>1, <3>1 DEF BarOK
  <2>2. CASE last # None
    BY <1>4, <2>2
  <2> QED BY <2>1, <2>2
<1>10. BarOK(b)'
  BY <1>1, <1>5, <1>6, <1>8, <1>9 DEF BarOK, Upto
<1>11. xpc' = xpc \/ {xpc, xpc'} \cap {"clone", "send"} = {}
  BY <1>1
<1> QED BY <1>1, <1>4, <1>5, <1>7, <1>10, <1>11, OtherBars

LEMMA BarAppliesKeeps == ASSUME CastInv, NEW b \in Bar, BarApplies(b) PROVE CastInv'
<1>1. Apply(b) /\ UNCHANGED <<sinks, last, task, xpc, ev, todo>>
  BY DEF BarApplies, extVars, sharedVars, castVars
<1>2. CastType /\ ThreadOK /\ BarOK(b) /\ BarType
  BY DEF CastInv, CastType
<1>3. /\ BarType' /\ Drained(b)' = Drained(b)
      /\ \A x \in Bar \ {b} : shown'[x] = shown[x] /\ chan'[x] = chan[x]
  BY <1>1, <1>2, ApplyShows
<1>4. CastType' /\ ThreadOK'
  BY <1>1, <1>2, <1>3 DEF CastType, ThreadOK
<1>5. Upto(b)' = Upto(b) /\ Current' = Current /\ (Await(b)' <=> Await(b))
  BY <1>1 DEF Upto, Current, Await
<1>6. BarOK(b)'
  BY <1>1, <1>2, <1>3, <1>5 DEF BarOK
<1> QED BY <1>1, <1>3, <1>4, <1>6, OtherBars

(* A click shows at once what is overtaken by any event in the channel.    *)
LEMMA ExtClickKeeps == ASSUME CastInv, NEW b \in Bar, ExtClick(b) PROVE CastInv'
<1>1. task[b] = "loop" /\ UNCHANGED <<chan, sinks, last, task, xpc, ev, todo>>
  BY DEF ExtClick, sharedVars, castVars
<1>2. CastType /\ ThreadOK /\ BarOK(b) /\ BarType
  BY DEF CastInv, CastType
<1>3. PICK e \in Pills(b) : shown' = [shown EXCEPT ![b] = Clicked(@, b, e.id)]
  BY DEF ExtClick, Optimistic
<1>4. PICK n \in Name : n = e.id
  <2>1. e \in Entry
    BY <1>2, <1>3 DEF Pills, BarType
  <2> QED BY <2>1 DEF Entry
<1>5. shown[b] \in SUBSET Entry /\ chan[b] \in Seq(Event) /\ Drained(b) \in SUBSET Entry
  <2>1. shown[b] \in SUBSET Entry /\ chan[b] \in Seq(Event)
    BY <1>2 DEF BarType
  <2> QED BY <2>1, AfterTyped DEF Drained
<1>6. shown'[b] = Clicked(shown[b], b, n) /\ \A x \in Bar \ {b} : shown'[x] = shown[x]
  BY <1>2, <1>3, <1>4 DEF BarType
<1>7. BarType'
  <2>1. Clicked(shown[b], b, n) \in SUBSET Entry
    BY <1>5, Highlights
  <2> HIDE DEF Event
  <2>2. shown' \in [Bar -> SUBSET Entry]
    BY <1>2, <1>3, <1>4, <2>1 DEF BarType
  <2> QED BY <1>1, <1>2, <2>2 DEF BarType
<1>8. CastType' /\ ThreadOK'
  BY <1>1, <1>2, <1>7 DEF CastType, ThreadOK
<1>9. Drained(b)' \in {Drained(b), Clicked(Drained(b), b, n)}
  <2>1. Drained(b)' = After(Clicked(shown[b], b, n), chan[b])
    BY <1>1, <1>6 DEF Drained
  <2>2. CASE chan[b] # <<>>
    <3>1. After(Clicked(shown[b], b, n), chan[b]) = After(shown[b], chan[b])
      BY <1>5, <2>2, ClickOvertaken
    <3> QED BY <2>1, <3>1 DEF Drained
  <2>3. CASE chan[b] = <<>>
    <3>1. \A x : After(x, chan[b]) = x
      BY <1>5, <2>3, AfterSteps
    <3> QED BY <2>1, <3>1 DEF Drained
  <2> QED BY <2>2, <2>3
<1>10. Current' = Current /\ Upto(b)' = Upto(b) /\ (Await(b)' <=> Await(b))
  BY <1>1 DEF Current, Upto, Await
<1>11. Drained(b) \in Upto(b) => Drained(b)' \in Upto(b)
  <2>1. Current \in SUBSET Entry
    BY <1>2, CastShows
  <2>2. \A m \in Name : Clicked(Clicked(Current, b, m), b, n) = Clicked(Current, b, n)
    BY <2>1, Highlights
  <2>3. Clicked(Current, b, n) \in Upto(b)
    BY DEF Upto
  <2>4. Drained(b) \in Upto(b) => Clicked(Drained(b), b, n) = Clicked(Current, b, n)
    BY <2>2 DEF Upto
  <2> QED BY <1>9, <2>3, <2>4
<1>12. BarOK(b)'
  BY <1>1, <1>2, <1>10, <1>11 DEF BarOK
<1> QED BY <1>1, <1>6, <1>8, <1>12, OtherBars

-----------------------------------------------------------------------------
(* Both together.                                                          *)

ExtInv == MirrorInv /\ CastInv

LEMMA ExtStarts == BarInit /\ ExtInit => ExtInv
<1> SUFFICES ASSUME BarInit, ExtInit PROVE ExtInv
  OBVIOUS
<1>1. /\ monitors = Output /\ used = 1 /\ linked = FALSE /\ wire = <<>> /\ sinks = <<>> /\ todo = <<>>
      /\ builders = <<>> /\ groups = <<>> /\ outputs = {} /\ last = None /\ xpc = "off"
      /\ task = [b \in Bar |-> "new"]
  BY DEF ExtInit
<1>2. LiveType
  <2>1. PICK n \in Name, g \in Output : live = [h \in {1} |-> [name |-> n, active |-> TRUE, group |-> g]]
    BY DEF ExtInit
  <2>2. DOMAIN live = {1} /\ live[1] = [name |-> n, active |-> TRUE, group |-> g]
    BY <2>1
  <2>3. live[1] \in Space /\ live[1].group = g
    BY <2>2 DEF Space
  <2>4. 1..used = {1} /\ used \in Nat
    BY <1>1
  <2>5. \A h \in DOMAIN live : live[h] \in Space /\ live[h].group \in monitors
    BY <1>1, <2>2, <2>3
  <2> QED BY <1>1, <2>2, <2>4, <2>5 DEF LiveType
<1>3. AppOK(App)
  BY <1>1 DEF AppOK, App
<1>4. wire \in Seq(Message) /\ sinks \in Seq(Bar) /\ todo \in Seq(Bar)
  BY <1>1, EmptySeq
<1>5. MirrorInv
  BY <1>1, <1>2, <1>3, <1>4 DEF MirrorInv
<1>6. BarType /\ \A b \in Bar : shown[b] = {} /\ chan[b] = <<>>
  <2>1. <<>> \in Seq(Event) /\ Len(<<>>) = 0
    BY EmptySeq
  <2> HIDE DEF Event
  <2> QED BY <2>1, BarAssumption DEF BarInit, BarType
<1>7. CastType /\ ThreadOK
  BY <1>1, <1>4, <1>6 DEF CastType, ThreadOK
<1>8. ASSUME NEW b \in Bar PROVE BarOK(b)
  <2>1. task[b] = "new" /\ b \notin Range(sinks)
    BY <1>1 DEF Range
  <2>2. chan[b] \in Seq(Event)
    BY <1>6 DEF BarType
  <2>3. Drained(b) = {}
    BY <1>6, <2>2, AfterSteps DEF Drained
  <2> QED BY <2>1, <2>3 DEF BarOK
<1> QED BY <1>5, <1>7, <1>8 DEF ExtInv, CastInv

LEMMA CompositorKeeps ==
  ASSUME ExtInv, CompositorActs \/ CompositorObeys \/ CompositorDies \/ CompositorBack PROVE ExtInv'
<1>1. MirrorInv /\ CastInv /\ LiveType
  BY DEF ExtInv, MirrorInv
<1>2. UNCHANGED <<barVars, appVars, sharedVars, task, xpc, castVars>>
  BY DEF CompositorActs, CompositorObeys, CompositorDies, CompositorBack
<1>3. UNCHANGED <<by_key, sinks, last>>
  BY <1>2 DEF sharedVars
<1>4. CastInv'
  BY <1>1, <1>2, <1>3, ThreadRests
<1>5. CASE CompositorActs
  BY <1>1, <1>4, <1>5, CompositorMoves, MovedKeeps DEF ExtInv
<1>6. ASSUME UNCHANGED <<monitors, live, used, wire>>, linked' => linked PROVE MirrorInv'
  BY <1>1, <1>2, <1>3, <1>6, Elsewhere DEF MirrorInv
<1>7. CASE CompositorObeys
  <2>1. linked' = linked
    BY <1>7 DEF CompositorObeys
  <2>2. CASE UNCHANGED <<monitors, live, used, wire>>
    BY <1>4, <1>6, <2>1, <2>2 DEF ExtInv
  <2>3. CASE Head(reqs) \in DOMAIN live /\ MakeActive(Head(reqs))
    <3>1. Moved
      BY <1>1, <2>3, MakeActiveMoves
    <3> QED BY <1>1, <1>2, <1>4, <2>1, <3>1, MovedKeeps DEF ExtInv
  <2> QED BY <1>7, <2>2, <2>3 DEF CompositorObeys
<1>8. CASE CompositorDies
  <2>1. UNCHANGED <<monitors, live, used, wire>> /\ ~linked'
    BY <1>8 DEF CompositorDies
  <2> QED BY <1>4, <1>6, <2>1 DEF ExtInv
<1>9. CASE CompositorBack
  <2>1. UNCHANGED <<monitors, live, used, wire>> /\ linked' = linked
    BY <1>9 DEF CompositorBack, linkVars
  <2> QED BY <1>4, <1>6, <2>1 DEF ExtInv
<1> QED BY <1>5, <1>7, <1>8, <1>9

LEMMA DispatchKeeps == ASSUME ExtInv, Mirror \/ Flush PROVE ExtInv'
<1>1. MirrorInv /\ CastInv
  BY DEF ExtInv
<1>2. CASE Mirror
  <2>1. UNCHANGED <<barVars, sinks, task, todo>>
    BY <1>2, MirrorHandles
  <2>2. UNCHANGED <<last, xpc, ev>>
    BY <1>2 DEF Mirror, OnManager, OnOutputName, OnGroup, OnWorkspace, Quietly
  <2>3. CastInv'
    BY <1>1, <2>1, <2>2, ThreadRests DEF castVars
  <2> QED BY <1>1, <1>2, <2>3, MirrorKeeps DEF ExtInv
<1>3. CASE Flush
  <2>1. UNCHANGED <<barVars, sinks, task, todo>> /\ xpc = "dispatch"
    BY <1>3 DEF Flush, Handling
  <2>2. MirrorInv' /\ last' \in SUBSET Entry /\ last' # None
    BY <1>1, <1>3, FlushKeeps
  <2>3. CASE last = StateNow
    <3>1. UNCHANGED <<last, xpc, ev>>
      BY <1>3, <2>3 DEF Flush
    <3>2. CastInv'
      BY <1>1, <2>1, <3>1, ThreadRests DEF castVars
    <3> QED BY <2>2, <3>2 DEF ExtInv
  <2>4. CASE last # StateNow
    <3>1. last' = StateNow /\ ev' = Snapshot(StateNow) /\ xpc' = "clone"
      BY <1>3, <2>4 DEF Flush
    <3>2. ev' = Snapshot(last')
      BY <3>1
    <3>3. CastInv'
      BY <1>1, <2>1, <2>2, <3>1, <3>2, BroadcastStarts
    <3> QED BY <2>2, <3>3 DEF ExtInv
  <2> QED BY <2>3, <2>4
<1> QED BY <1>2, <1>3

LEMMA ThreadKeeps ==
  ASSUME ExtInv, Connect \/ ConnectionLost \/ Lose \/ CloneSinks \/ SendNext \/ Sleep PROVE ExtInv'
<1>1. MirrorInv /\ CastInv
  BY DEF ExtInv
<1>2. linked => xpc \in {"dispatch", "clone", "send"} /\ (xpc # "dispatch" => last # None)
  BY <1>1 DEF MirrorInv
<1>3. CASE Connect
  <2>1. UNCHANGED <<barVars, sinks, last, task, castVars>> /\ xpc = "connect" /\ xpc' \in {"dispatch", "lost"}
    BY <1>3 DEF Connect
  <2>2. CastInv'
    BY <1>1, <2>1, ThreadRests DEF Resting
  <2> QED BY <1>1, <1>3, <2>2, ConnectKeeps DEF ExtInv
<1>4. CASE ConnectionLost
  <2>1. /\ UNCHANGED <<barVars, sinks, last, task, castVars>> /\ UNCHANGED <<monitors, live, used, wire, appVars>>
        /\ ~linked' /\ xpc = "dispatch" /\ xpc' = "lost"
    BY <1>4 DEF ConnectionLost, sharedVars, xcompVars, linkVars
  <2>2. CastInv'
    BY <1>1, <2>1, ThreadRests DEF Resting
  <2> QED BY <1>1, <2>1, <2>2, Elsewhere DEF ExtInv
<1>5. CASE Lose
  <2>1. /\ UNCHANGED <<barVars, sinks, task, todo>> /\ UNCHANGED <<monitors, live, used, wire, appVars>>
        /\ linked' = linked /\ xpc = "lost" /\ xpc' = "clone" /\ last' = None /\ ev' = Disconnected
    BY <1>5 DEF Lose, xcompVars, linkVars
  <2>2. CastInv'
    BY <1>1, <2>1, BroadcastStarts
  <2>3. ~linked'
    BY <1>2, <2>1
  <2> QED BY <1>1, <2>1, <2>2, <2>3, Elsewhere DEF ExtInv
<1>6. CASE CloneSinks
  <2>1. /\ UNCHANGED <<monitors, live, used, wire, appVars>> /\ UNCHANGED <<linked, last, by_key>>
        /\ xpc = "clone" /\ xpc' = "send"
    BY <1>6 DEF CloneSinks, xcompVars, linkVars, sharedVars
  <2>2. MirrorInv'
    BY <1>1, <1>2, <2>1, Elsewhere
  <2> QED BY <1>1, <1>6, <2>2, CloneKeeps DEF ExtInv
<1>7. CASE SendNext
  <2>1. /\ UNCHANGED <<monitors, live, used, wire, appVars>> /\ UNCHANGED <<linked, last, by_key>>
        /\ xpc = "send" /\ xpc' = AfterSend
    BY <1>7 DEF SendNext, xcompVars, linkVars, sharedVars
  <2>2. linked => last # None /\ ev # Disconnected
    <3>1. CastType /\ (last # None => ev = Snapshot(last))
      BY <1>1, <2>1 DEF CastInv, ThreadOK
    <3> QED BY <1>2, <2>1, <3>1, CastShows
  <2>3. linked => xpc' \in {"send", "dispatch"}
    BY <2>1, <2>2 DEF AfterSend
  <2>4. MirrorInv'
    BY <1>1, <2>1, <2>2, <2>3, Elsewhere
  <2> QED BY <1>1, <1>7, <2>4, SendKeeps DEF ExtInv
<1>8. CASE Sleep
  <2>1. /\ UNCHANGED <<barVars, sinks, last, task, castVars>> /\ UNCHANGED <<monitors, live, used, wire, appVars>>
        /\ linked' = linked /\ xpc = "sleep" /\ xpc' = "connect"
    BY <1>8 DEF Sleep, sharedVars, xcompVars, linkVars
  <2>2. CastInv'
    BY <1>1, <2>1, ThreadRests DEF Resting
  <2>3. ~linked'
    BY <1>2, <2>1
  <2> QED BY <1>1, <2>1, <2>2, <2>3, Elsewhere DEF ExtInv
<1> QED BY <1>3, <1>4, <1>5, <1>6, <1>7, <1>8

LEMMA MainKeeps ==
  ASSUME ExtInv, NEW b \in Bar, PushSink(b) \/ Replay(b) \/ BarApplies(b) \/ ExtClick(b) PROVE ExtInv'
<1>1. MirrorInv /\ CastInv
  BY DEF ExtInv
<1>2. /\ UNCHANGED <<monitors, live, used, wire, appVars>> /\ UNCHANGED <<linked, last, by_key>>
      /\ xpc' = xpc \/ (xpc = "off" /\ xpc' = "connect")
  BY DEF PushSink, Replay, BarApplies, ExtClick, extVars, xcompVars, linkVars, sharedVars
<1>3. linked => xpc \in {"dispatch", "clone", "send"} /\ (xpc # "dispatch" => last # None)
  BY <1>1 DEF MirrorInv
<1>4. linked' => linked /\ xpc' = xpc
  BY <1>2, <1>3
<1>5. MirrorInv'
  BY <1>1, <1>2, <1>3, <1>4, Elsewhere
<1>6. CastInv'
  BY <1>1, PushKeeps, ReplayKeeps, BarAppliesKeeps, ExtClickKeeps
<1> QED BY <1>5, <1>6 DEF ExtInv

LEMMA StutterKeeps == ASSUME ExtInv, UNCHANGED <<barVars, extVars>> PROVE ExtInv'
<1>1. MirrorInv /\ CastInv
  BY DEF ExtInv
<1>2. /\ UNCHANGED <<barVars, sinks, last, task, castVars>> /\ xpc' = xpc
      /\ UNCHANGED <<monitors, live, used, wire, appVars>> /\ UNCHANGED <<linked, by_key>>
  BY DEF extVars, xcompVars, linkVars, sharedVars
<1>3. CastInv'
  BY <1>1, <1>2, ThreadRests
<1>4. linked => xpc \in {"dispatch", "clone", "send"} /\ (xpc # "dispatch" => last # None)
  BY <1>1 DEF MirrorInv
<1>5. MirrorInv'
  BY <1>1, <1>2, <1>4, Elsewhere
<1> QED BY <1>3, <1>5 DEF ExtInv

LEMMA ExtSteps == ExtInv /\ [ExtNext]_<<barVars, extVars>> => ExtInv'
<1> SUFFICES ASSUME ExtInv, [ExtNext]_<<barVars, extVars>> PROVE ExtInv'
  OBVIOUS
<1>1. CASE CompositorActs \/ CompositorObeys \/ CompositorDies \/ CompositorBack
  BY <1>1, CompositorKeeps
<1>2. CASE Mirror \/ Flush
  BY <1>2, DispatchKeeps
<1>3. CASE Connect \/ ConnectionLost \/ Lose \/ CloneSinks \/ SendNext \/ Sleep
  BY <1>3, ThreadKeeps
<1>4. ASSUME NEW b \in Bar, PushSink(b) \/ Replay(b) \/ BarApplies(b) \/ ExtClick(b) PROVE ExtInv'
  BY <1>4, MainKeeps
<1>5. CASE UNCHANGED <<barVars, extVars>>
  BY <1>5, StutterKeeps
<1>6. ExtNext => \/ CompositorActs \/ CompositorObeys \/ CompositorDies \/ CompositorBack
                 \/ Mirror \/ Flush
                 \/ Connect \/ ConnectionLost \/ Lose \/ CloneSinks \/ SendNext \/ Sleep
                 \/ \E b \in Bar : PushSink(b) \/ Replay(b) \/ BarApplies(b) \/ ExtClick(b)
  BY DEF ExtNext, ExtEnvironment, ExtReacts
<1> QED BY <1>1, <1>2, <1>3, <1>4, <1>5, <1>6

(* The session of ext-workspace, whatever the compositor does and however  *)
(* its events, its death and the broadcasts interleave: the events on the  *)
(* wire take the mirror to what the compositor has, and the events still   *)
(* to be sent to a bar take it to the last snapshot.                       *)
THEOREM ExtInvariant == ExtSpec => []ExtInv
<1>1. BarInit /\ ExtInit => ExtInv
  BY ExtStarts
<1>2. ExtInv /\ [ExtNext]_<<barVars, extVars>> => ExtInv'
  BY ExtSteps
<1> QED BY <1>1, <1>2, PTL DEF ExtSpec

(* The task, the bar it is of and the broadcasts of the session thread     *)
(* (run, broadcast and reconnect of ext_workspace.rs) in any order leave a *)
(* bar with the last snapshot, up to the highlight of its last click.      *)
THEOREM BarsAlwaysAgree == ExtSpec => []BarsAgree
<1>1. ExtInv => BarsAgree
  <2> SUFFICES ASSUME ExtInv, NEW b \in Bar, task[b] = "loop", xpc # "clone",
                      xpc = "send" => b \notin Range(todo)
               PROVE  Drained(b) \in {Current} \cup {Clicked(Current, b, n) : n \in Name}
    BY DEF BarsAgree
  <2>1. BarOK(b) /\ ~Await(b)
    BY DEF ExtInv, CastInv, Await
  <2> QED BY <2>1 DEF BarOK, Upto
<1> QED BY <1>1, ExtInvariant, PTL

-----------------------------------------------------------------------------
(* What a session that is caught up has.                                   *)

LEMMA CaughtUpMatches ==
  ASSUME ExtInv, CaughtUp
  PROVE  Flushed /\ Matches(monitors, live, App) /\ LiveType
<1>1. MirrorInv /\ linked /\ wire = <<>>
  BY DEF ExtInv, CaughtUp
<1>2. PICK u : Reach(App, wire, u) /\ Matches(monitors, live, u)
  BY <1>1 DEF MirrorInv
<1>3. u = App
  BY <1>1, <1>2, ReachNone
<1> QED BY <1>1, <1>2, <1>3 DEF MirrorInv

(* Each workspace of the mirror is one of the compositor and looks it.     *)
LEMMA MirrorLooks ==
  ASSUME LiveType, Matches(monitors, live, App)
  PROVE  /\ Named = DOMAIN live
         /\ \A h \in DOMAIN live : /\ builders[h].active = live[h].active
                                   /\ KeyOf(h) = <<live[h].name, live[h].group>>
<1>1. /\ DOMAIN builders = DOMAIN live /\ DOMAIN groups = monitors /\ monitors \subseteq outputs
      /\ \A g \in monitors : groups[g] = {g}
      /\ \A h \in DOMAIN live :
           /\ builders[h].name = live[h].name /\ builders[h].active = live[h].active
           /\ IF live[h].group = None THEN builders[h].group \notin monitors
                                      ELSE builders[h].group = live[h].group
  BY DEF Matches, App
<1>2. ASSUME NEW h \in DOMAIN live
      PROVE  live[h].name \in Name /\ live[h].name # None /\ live[h].group \in monitors \cup {None}
  BY BarAssumption DEF LiveType, Space
<1>3. Named = DOMAIN live
  BY <1>1, <1>2 DEF Named
<1>4. ASSUME NEW g \in monitors PROVE OutputNameFor(g) = g
  <2>1. GroupOutputs(g) \cap outputs = {g}
    BY <1>1, <1>4 DEF GroupOutputs
  <2> QED BY <2>1 DEF OutputNameFor
<1>5. ASSUME NEW g, g \notin monitors PROVE OutputNameFor(g) = None
  BY <1>1, <1>5 DEF GroupOutputs, OutputNameFor
<1>6. None \notin monitors
  BY BarAssumption DEF LiveType
<1>7. ASSUME NEW h \in DOMAIN live PROVE KeyOf(h) = <<live[h].name, live[h].group>>
  <2>1. OutputNameFor(builders[h].group) = live[h].group
    BY <1>1, <1>2, <1>4, <1>5
  <2> QED BY <1>1, <2>1 DEF KeyOf
<1> QED BY <1>1, <1>3, <1>7

(* A session that has handled all it was sent has broadcast last exactly   *)
(* the workspaces of the compositor, whatever the order of enter and leave *)
(* and of the end of a group (the Dispatch handlers of ext_workspace.rs).  *)
THEOREM MirrorIsCompositor == ExtSpec => []MirrorsCompositor
<1>1. ExtInv => MirrorsCompositor
  <2> SUFFICES ASSUME ExtInv, CaughtUp
               PROVE  last = {[id |-> live[h].name, output |-> live[h].group,
                               active |-> live[h].active] : h \in DOMAIN live}
    BY DEF MirrorsCompositor
  <2>1. last = StateNow /\ Matches(monitors, live, App) /\ LiveType
    BY CaughtUpMatches DEF Flushed
  <2>2. Named = DOMAIN live /\ \A h \in DOMAIN live : /\ builders[h].active = live[h].active
                                                      /\ KeyOf(h) = <<live[h].name, live[h].group>>
    BY <2>1, MirrorLooks
  <2>3. \A h \in DOMAIN live : KeyOf(h)[1] = live[h].name /\ KeyOf(h)[2] = live[h].group
    BY <2>2
  <2> QED BY <2>1, <2>2, <2>3 DEF StateNow
<1> QED BY <1>1, ExtInvariant, PTL

(* A workspace handle is an id: of those that look the same one is newest. *)
LEMMA Newest ==
  ASSUME NEW n \in Nat, NEW S \in SUBSET (1..n), S # {}
  PROVE  \E m \in S : \A x \in S : x <= m
<1> DEFINE Up == {k \in Nat : \A x \in S : x <= k}
<1>1. IsWellFoundedOn(Less, Nat)
  BY NatLessThanWellFounded DEF OpToRel, Less
<1>2. Up \subseteq Nat /\ Up # {}
  <2>1. n \in Up
    OBVIOUS
  <2> QED BY <2>1
<1>3. PICK k \in Up : \A j \in Up : ~(<<j, k>> \in Less)
  <2> HIDE DEF Up
  <2> QED BY <1>1, <1>2, WFMin
<1>4. k \in Nat /\ (\A x \in S : x <= k) /\ k # 0
  <2>1. PICK x \in S : TRUE
    OBVIOUS
  <2> QED BY <1>3, <2>1
<1>5. k \in S
  <2> SUFFICES ASSUME k \notin S PROVE FALSE
    OBVIOUS
  <2>1. k - 1 \in Nat /\ \A x \in S : x <= k - 1
    BY <1>4
  <2>2. <<k - 1, k>> \in Nat \X Nat /\ <<k - 1, k>>[1] < <<k - 1, k>>[2]
    BY <1>4
  <2>3. k - 1 \in Up /\ <<k - 1, k>> \in Less
    BY <2>1, <2>2 DEF Less
  <2> QED BY <1>3, <2>3
<1> QED BY <1>4, <1>5

(* The handles a click activates are refreshed on every done, also when    *)
(* the snapshot is suppressed (flush_state, ext_workspace.rs:148): they    *)
(* are of the pills of the last snapshot and of living workspaces.         *)
THEOREM KeysAlwaysFresh == ExtSpec => []KeysFresh
<1>1. ExtInv => KeysFresh
  <2> SUFFICES ASSUME ExtInv, CaughtUp
               PROVE  /\ DOMAIN by_key = {<<e.id, e.output>> : e \in last}
                      /\ \A k \in DOMAIN by_key : by_key[k] \in DOMAIN live /\ live[by_key[k]].name = k[1]
    BY DEF KeysFresh
  <2>1. last = StateNow /\ by_key = HandlesNow /\ Matches(monitors, live, App) /\ LiveType
    BY CaughtUpMatches DEF Flushed
  <2>2. Named = DOMAIN live /\ \A h \in DOMAIN live : KeyOf(h) = <<live[h].name, live[h].group>>
    BY <2>1, MirrorLooks
  <2>3. DOMAIN by_key = {KeyOf(h) : h \in Named}
    BY <2>1 DEF HandlesNow
  <2>4. {<<e.id, e.output>> : e \in last} = {KeyOf(h) : h \in Named}
    <3> DEFINE E(h) == [id |-> KeyOf(h)[1], output |-> KeyOf(h)[2], active |-> builders[h].active]
    <3>1. last = {E(h) : h \in Named}
      BY <2>1 DEF StateNow
    <3>2. \A h \in Named : <<E(h).id, E(h).output>> = KeyOf(h)
      BY <2>2
    <3> HIDE DEF E
    <3> QED BY <3>1, <3>2
  <2>5. ASSUME NEW k \in DOMAIN by_key PROVE by_key[k] \in DOMAIN live /\ live[by_key[k]].name = k[1]
    <3> DEFINE S == {h \in Named : KeyOf(h) = k}
    <3>1. S # {} /\ S \in SUBSET (1..used) /\ used \in Nat
      BY <2>1, <2>2, <2>3 DEF LiveType
    <3> HIDE DEF S
    <3>2. \E m \in S : \A x \in S : x <= m
      BY <3>1, Newest
    <3>3. \E h \in Named : KeyOf(h) = k /\ \A x \in Named : KeyOf(x) = k => x <= h
      BY <3>2 DEF S
    <3>4. by_key[k] = CHOOSE h \in Named : KeyOf(h) = k /\ \A x \in Named : KeyOf(x) = k => x <= h
      BY <2>1, <2>3 DEF HandlesNow
    <3>5. by_key[k] \in Named /\ KeyOf(by_key[k]) = k
      BY <3>3, <3>4
    <3>6. by_key[k] \in DOMAIN live /\ k = <<live[by_key[k]].name, live[by_key[k]].group>>
      BY <2>2, <3>5
    <3> QED BY <3>6
  <2> QED BY <2>3, <2>4, <2>5
<1> QED BY <1>1, ExtInvariant, PTL

=============================================================================
