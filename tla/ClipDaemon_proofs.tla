-------------------------- MODULE ClipDaemon_proofs --------------------------
(***************************************************************************)
(* ClipDaemon for every set of selections, mimes, contents and uuids and   *)
(* every preference order: whatever the applications, the compositor and   *)
(* the launchers do meanwhile, the daemon serves the selection it owns,    *)
(* gathers a job from the one offer it drains, never reads its own offer,  *)
(* never polls over unread events, and only ever steps the database as     *)
(* ClipStore allows.                                                       *)
(***************************************************************************)
EXTENDS ClipDaemon, ClipStore_proofs, SequenceTheorems, WellFoundedInduction

Less == {p \in Nat \X Nat : p[1] < p[2]}

LEMMA LeastIndex == ASSUME NEW T \in SUBSET Nat, T # {}
                    PROVE  \E i \in T : \A j \in T : i <= j
<1>1. IsWellFoundedOn(Less, Nat)
  BY NatLessThanWellFounded DEF OpToRel, Less
<1>2. PICK i \in T : \A j \in T : ~(<<j, i>> \in Less)
  BY <1>1, WFMin
<1>3. \A j \in T : <<j, i>> \in Nat \X Nat /\ <<j, i>>[1] = j /\ <<j, i>>[2] = i
  OBVIOUS
<1>4. \A j \in T : ~(j < i)
  BY <1>2, <1>3 DEF Less
<1> QED BY <1>4

(* pick_mime returns a mime it was given, one of the preference order.     *)
LEMMA PickProperties ==
  ASSUME NEW ms, Pickable(ms)
  PROVE  Pick(ms) \in ms /\ Pick(ms) \in Image \cup Text /\ Pick(ms) \in Mime
<1> DEFINE Wanted == {i \in DOMAIN PickOrder : PickOrder[i] \in ms}
<1>1. PickOrder \in Seq(Image \cup Text) /\ DOMAIN PickOrder \subseteq Nat
  BY DaemonAssumption, LenProperties
<1>2. Wanted \subseteq Nat /\ Wanted # {}
  BY <1>1 DEF Pickable
<1>3. PICK i \in Wanted : \A j \in Wanted : i <= j
  BY <1>2, LeastIndex
<1>5. \E k \in DOMAIN PickOrder :
        /\ PickOrder[k] \in ms
        /\ \A j \in DOMAIN PickOrder : PickOrder[j] \in ms => k <= j
  BY <1>3
<1>6. Pick(ms) \in ms /\ \E k \in DOMAIN PickOrder : Pick(ms) = PickOrder[k]
  BY <1>5 DEF Pick
<1>7. Pick(ms) \in Image \cup Text
  BY <1>1, <1>6, LenProperties, ElementOfSeq
<1> QED BY <1>6, <1>7, DaemonAssumption

LEMMA ExtrasAreMimes ==
  ASSUME NEW ms \in SUBSET (Mime \cup {SELF_MIME}), Pickable(ms)
  PROVE  Extras(ms) \subseteq Mime
BY PickProperties, DaemonAssumption DEF Extras, Kind

-----------------------------------------------------------------------------
(* What is known of the offer being drained.                               *)
JobTyped ==
  /\ pc = "roundtrip" => job.src \in DOMAIN data /\ job.want \in Mime
  /\ pc \in {"roundtrip", "record"} => job.primary \in Mime
  /\ job.got # {} => job.src \in DOMAIN data

(* The daemon's and the importer's steps are ClipStore's, or leave it be.  *)
LEMMA StoreSteps ==
  ASSUME TypeOK, JobTyped, JobFromOneOffer, [Next]_vars
  PROVE  [StoreNext]_storeVars
<1>0. {} \in Extra
  BY DEF Extra
<1>1. ASSUME NEW b \in Bytes, NEW ts \in Time, ImportEntry(b, ts)
      PROVE  StoreNext
  <2>1. Pick(Text) \in Mime
    BY <1>1, PickProperties, DaemonAssumption DEF ImportEntry, Pickable
  <2> QED BY <1>0, <1>1, <2>1 DEF ImportEntry, StoreNext
<1>2. ASSUME NEW ts \in Time, RecordJob(ts)
      PROVE  StoreNext \/ UNCHANGED storeVars
  <2>1. CASE UNCHANGED storeVars
    BY <2>1
  <2>2. ASSUME NEW p \in job.got, p.mime = job.primary,
               Record(job.primary, p.bytes, job.got \ {p}, ts)
        PROVE  StoreNext
    <3>1. job.got \subseteq Part /\ job.primary \in Mime
      BY <1>2 DEF TypeOK, JobTyped, RecordJob
    <3>2. p.bytes \in Bytes
      BY <3>1 DEF Part
    <3>3. \A q, r \in job.got : q.mime = r.mime => q = r
      BY <3>1 DEF JobFromOneOffer, Part
    <3>4. job.got \ {p} \in Extra
      BY <3>1, <3>3 DEF Extra
    <3> QED BY <2>2, <3>1, <3>2, <3>4 DEF StoreNext
  <2> QED BY <1>2, <2>1, <2>2 DEF RecordJob
<1>3. CASE FinishJob
  BY <1>3 DEF FinishJob, StoreNext
<1>4. ASSUME NEW s, NEW ts \in Time, Activate(s, ts)
      PROVE  StoreNext
  <2>1. Head(ipc).uuid \in Uuid
    BY <1>4 DEF Activate, TypeOK, StoreTypeOK
  <2> QED BY <1>4, <2>1 DEF Activate, TypeOK, StoreTypeOK, StoreNext
<1>5. ASSUME NEW s, NEW ts \in Time, SetSelection(s, ts)
      PROVE  StoreNext
  <2>1. ipc \in Seq(Requests) /\ ipc # <<>>
    BY <1>5 DEF SetSelection, TakeRequest, TypeOK
  <2>2. Head(ipc) \in Requests
    BY <2>1, HeadTailProperties
  <2>3. Head(ipc).mime \in Mime /\ Head(ipc).bytes \in Bytes
    BY <1>5, <2>2 DEF SetSelection, Requests
  <2> QED BY <1>0, <1>5, <2>3 DEF SetSelection, StoreNext
<1>6. CASE UNCHANGED storeVars
  BY <1>6
<1> QED
  BY <1>1, <1>2, <1>3, <1>4, <1>5, <1>6
  DEF Next, Environment, Daemon, ProcessOffer, ServeIpc, vars, daemonVars, Handlers,
      AppCopy, AppPrimary, AppClear, AppPaste, CompositorReceive, CompositorSet,
      CompositorDestroy, ClientRequest, OnOffer, OnSelection, OnIgnored, OnDone, OnSend,
      OnCancelled, NothingPending, TakePending, RoundtripRead, PrimaryRejected,
      NextExtra, AllDrained, Poll, RequestRefused, IpcDrained

-----------------------------------------------------------------------------
(***************************************************************************)
(* The inductive invariant.  What a handler or a roundtrip does depends on *)
(* what is still queued in either direction, so the clauses are about the  *)
(* queues: what they name exists; the set_selection of a source no longer  *)
(* held is followed by its destroy; a receive is outstanding, or its       *)
(* answer queued, only while the roundtrip that sent it waits.             *)
(***************************************************************************)
SourcesMade ==
  /\ \A k \in DOMAIN events :
       events[k].t \in {"offer", "selection", "cancelled", "send"}
         => events[k].src \in DOMAIN data
  /\ \A k \in DOMAIN reqs : reqs[k].src \in DOMAIN data

OffersRight == \A s \in DOMAIN offer_mimes : offer_mimes[s] = DOMAIN data[s]

QueueEmptied == pc \in {"poll", "record", "finish"} => nread = 0

(* The held content is what the held source was created with.              *)
HeldIs ==
  held_source # None =>
    /\ held_mime \in Mime
    /\ data[held_source] = [x \in {held_mime, SELF_MIME} |->
                              IF x = held_mime THEN held_content ELSE Empty]

SetHeld ==
  \A k \in DOMAIN reqs : reqs[k].t = "set" =>
    \/ reqs[k].src = held_source
    \/ \E j \in DOMAIN reqs : j > k /\ reqs[j].t = "destroy" /\ reqs[j].src = reqs[k].src

Reading == pc = "roundtrip" /\ ~done

PipeRight ==
  pipe \in Bytes => job.want \in DOMAIN data[job.src] /\ data[job.src][job.want] = pipe

OneReceive ==
  \A k \in DOMAIN reqs : reqs[k].t = "receive" =>
    /\ Reading /\ reqs[k].src = job.src /\ reqs[k].mime = job.want
    /\ \A j \in DOMAIN reqs : reqs[j].t = "receive" => j = k
    /\ \A j \in DOMAIN events : events[j].t # "done"

OneDone ==
  \A k \in DOMAIN events : events[k].t = "done" =>
    /\ Reading /\ PipeRight
    /\ \A j \in DOMAIN events : events[j].t = "done" => j = k

PipeRead == pc = "roundtrip" /\ done => PipeRight

DaemonInv ==
  /\ TypeOK /\ SourcesMade /\ JobTyped
  /\ OffersRight /\ NoSelfRead /\ QueueEmptied
  /\ HeldIs /\ SetHeld /\ HeldServesSelection /\ ServedRight
  /\ OneReceive /\ OneDone /\ PipeRead /\ JobFromOneOffer

-----------------------------------------------------------------------------
(* Queues.                                                                 *)
LEMMA Appended ==
  ASSUME NEW S, NEW q \in Seq(S), NEW e \in S
  PROVE  /\ Append(q, e) \in Seq(S) /\ Len(Append(q, e)) = Len(q) + 1
         /\ Len(q) \in Nat /\ DOMAIN q = 1..Len(q)
         /\ DOMAIN Append(q, e) = 1..(Len(q) + 1)
         /\ \A k \in 1..Len(q) : Append(q, e)[k] = q[k]
         /\ Append(q, e)[Len(q) + 1] = e
BY AppendProperties, LenProperties

LEMMA Taken ==
  ASSUME NEW S, NEW q \in Seq(S), q # <<>>
  PROVE  /\ Tail(q) \in Seq(S) /\ Len(Tail(q)) = Len(q) - 1
         /\ Len(q) \in Nat \ {0} /\ DOMAIN q = 1..Len(q)
         /\ DOMAIN Tail(q) = 1..(Len(q) - 1)
         /\ \A k \in 1..(Len(q) - 1) : Tail(q)[k] = q[k + 1]
         /\ Head(q) = q[1] /\ Head(q) \in S
<1>1. Len(q) \in Nat \ {0} /\ DOMAIN q = 1..Len(q)
  BY EmptySeq, LenProperties
<1>2. Tail(q) \in Seq(S) /\ Len(Tail(q)) = Len(q) - 1 /\ Head(q) \in S
      /\ \A k \in 1..Len(Tail(q)) : Tail(q)[k] = q[k + 1]
  BY HeadTailProperties
<1>3. DOMAIN Tail(q) = 1..(Len(q) - 1)
  BY <1>2, LenProperties
<1> QED BY <1>1, <1>2, <1>3

LEMMA Types ==
  ASSUME TypeOK
  PROVE  /\ events \in Seq(Event) /\ reqs \in Seq(Req)
         /\ Len(events) \in Nat /\ DOMAIN events = 1..Len(events)
         /\ Len(reqs) \in Nat /\ DOMAIN reqs = 1..Len(reqs)
BY LenProperties DEF TypeOK

(* The events a new owner of the clipboard causes.                         *)
Announced(s) == events \o CancelOwner \o Announce(s)

LEMMA AnnouncedEvents ==
  ASSUME TypeOK, NEW s \in Source
  PROVE  /\ Announced(s) \in Seq(Event)
         /\ Len(Announced(s)) \in Nat /\ Len(Announced(s)) >= Len(events)
         /\ DOMAIN Announced(s) = 1..Len(Announced(s))
         /\ \A k \in 1..Len(events) : Announced(s)[k] = events[k]
         /\ \A k \in DOMAIN Announced(s) : k > Len(events) =>
              \/ /\ Announced(s)[k].t = "cancelled" /\ Announced(s)[k].src = sel
                 /\ sel \in DOMAIN data
              \/ Announced(s)[k].t \in {"offer", "selection"} /\ Announced(s)[k].src = s
<1>1. events \in Seq(Event) /\ Len(events) \in Nat /\ DOMAIN events = 1..Len(events)
  BY Types
<1> DEFINE offer == [t |-> "offer", src |-> s]
           selection == [t |-> "selection", src |-> s]
           cancelled == [t |-> "cancelled", src |-> sel]
<1>2. offer \in Event /\ selection \in Event
  BY DEF Event
<1>3. sel \in Own => cancelled \in Event /\ sel \in DOMAIN data
  BY DEF Event, TypeOK, Own
<1>4. /\ offer.t \in {"offer", "selection"} /\ offer.src = s
      /\ selection.t \in {"offer", "selection"} /\ selection.src = s
      /\ cancelled.t = "cancelled" /\ cancelled.src = sel
  OBVIOUS
<1>5. Announce(s) = <<offer, selection>>
  BY DEF Announce
<1>6. CancelOwner = IF sel \in Own THEN <<cancelled>> ELSE <<>>
  BY DEF CancelOwner
<1> HIDE DEF offer, selection, cancelled
<1>7. /\ Announce(s) \in Seq(Event) /\ Len(Announce(s)) = 2
      /\ Announce(s)[1] = offer /\ Announce(s)[2] = selection
  BY <1>2, <1>5
<1>8. /\ CancelOwner \in Seq(Event) /\ Len(CancelOwner) \in {0, 1}
      /\ Len(CancelOwner) = 1 => sel \in Own /\ CancelOwner[1] = cancelled
  <2>1. CASE sel \in Own
    BY <1>3, <1>6, <2>1
  <2>2. CASE sel \notin Own
    BY <1>6, <2>2, EmptySeq
  <2> QED BY <2>1, <2>2
<1> DEFINE w == events \o CancelOwner
<1>9. /\ w \in Seq(Event) /\ Len(w) = Len(events) + Len(CancelOwner)
      /\ \A k \in 1..Len(w) : w[k] = IF k <= Len(events) THEN events[k]
                                     ELSE CancelOwner[k - Len(events)]
  BY <1>1, <1>8, ConcatProperties
<1>10. Announced(s) = w \o Announce(s)
  BY DEF Announced
<1> HIDE DEF w
<1> DEFINE n == Announced(s)
<1>11. /\ n \in Seq(Event) /\ Len(n) = Len(w) + 2
       /\ \A k \in 1..Len(n) : n[k] = IF k <= Len(w) THEN w[k]
                                      ELSE Announce(s)[k - Len(w)]
  <2>1. /\ w \o Announce(s) \in Seq(Event)
        /\ Len(w \o Announce(s)) = Len(w) + Len(Announce(s))
        /\ \A k \in 1..Len(w) + Len(Announce(s)) :
             (w \o Announce(s))[k] = IF k <= Len(w) THEN w[k]
                                     ELSE Announce(s)[k - Len(w)]
    <3> w \in Seq(Event) /\ Announce(s) \in Seq(Event)
      BY <1>7, <1>9
    <3> QED BY ConcatProperties
  <2> QED BY <1>7, <1>10, <2>1
<1>12. DOMAIN n = 1..Len(n)
  BY <1>11, LenProperties
<1> HIDE DEF n
<1>13. ASSUME NEW k \in 1..Len(n), k > Len(events)
       PROVE  \/ n[k] = cancelled /\ sel \in DOMAIN data
              \/ n[k] \in {offer, selection}
  <2>1. CASE k <= Len(w)
    <3>1. k = Len(events) + 1 /\ Len(CancelOwner) = 1
      BY <1>1, <1>8, <1>9, <1>13, <2>1
    <3>2. n[k] = CancelOwner[1]
      BY <1>1, <1>8, <1>9, <1>11, <1>13, <2>1, <3>1
    <3> QED BY <1>3, <1>8, <3>1, <3>2
  <2>2. CASE k > Len(w)
    <3>1. k - Len(w) \in {1, 2}
      BY <1>1, <1>8, <1>9, <1>11, <1>13, <2>2
    <3>2. n[k] = Announce(s)[k - Len(w)]
      BY <1>1, <1>8, <1>9, <1>11, <1>13, <2>2
    <3> QED BY <1>7, <3>1, <3>2
  <2> QED BY <1>1, <1>8, <1>9, <2>1, <2>2
<1>14. \A k \in 1..Len(events) : n[k] = events[k]
  BY <1>1, <1>8, <1>9, <1>11
<1>15. Len(n) \in Nat /\ Len(n) >= Len(events)
  BY <1>1, <1>8, <1>9, <1>11
<1> QED BY <1>4, <1>11, <1>12, <1>13, <1>14, <1>15 DEF n

(* The requests hold_selection sends.                                      *)
Holds(s) ==
  reqs \o (IF held_source = None THEN <<>>
           ELSE <<[t |-> "destroy", src |-> held_source]>>)
       \o <<[t |-> "set", src |-> s]>>

LEMMA HeldRequests ==
  ASSUME TypeOK, NEW s \in Source
  PROVE  /\ Holds(s) \in Seq(Req)
         /\ Len(Holds(s)) \in Nat /\ Len(Holds(s)) > Len(reqs)
         /\ DOMAIN Holds(s) = 1..Len(Holds(s))
         /\ \A k \in 1..Len(reqs) : Holds(s)[k] = reqs[k]
         /\ \A k \in DOMAIN Holds(s) : k > Len(reqs) =>
              \/ /\ Holds(s)[k].t = "destroy" /\ Holds(s)[k].src = held_source
                 /\ held_source \in DOMAIN data
              \/ Holds(s)[k].t = "set" /\ Holds(s)[k].src = s
         /\ held_source # None =>
              \E k \in DOMAIN Holds(s) : /\ k > Len(reqs) /\ Holds(s)[k].t = "destroy"
                                         /\ Holds(s)[k].src = held_source
<1>1. reqs \in Seq(Req) /\ Len(reqs) \in Nat
  BY Types
<1> DEFINE set == [t |-> "set", src |-> s]
           destroy == [t |-> "destroy", src |-> held_source]
           drop == IF held_source = None THEN <<>> ELSE <<destroy>>
           w == reqs \o drop
           n == Holds(s)
<1>2. set \in Req /\ (held_source # None => destroy \in Req /\ held_source \in DOMAIN data)
  BY DEF Req, TypeOK
<1>3. set.t = "set" /\ set.src = s /\ destroy.t = "destroy" /\ destroy.src = held_source
  OBVIOUS
<1>4. n = w \o <<set>>
  BY DEF Holds
<1> HIDE DEF set, destroy, n
<1>5. CASE held_source = None
  <2>1. n = Append(reqs, set)
    BY <1>1, <1>2, <1>4, <1>5, ConcatEmptySeq, EmptySeq
  <2>2. /\ n \in Seq(Req) /\ Len(n) = Len(reqs) + 1 /\ DOMAIN n = 1..(Len(reqs) + 1)
        /\ \A k \in 1..Len(reqs) : n[k] = reqs[k]
        /\ n[Len(reqs) + 1] = set
    BY <1>1, <1>2, <2>1, Appended
  <2>3. \A k \in DOMAIN n : k > Len(reqs) => n[k] = set
    BY <1>1, <2>2
  <2> QED BY <1>1, <1>3, <1>5, <2>2, <2>3 DEF n
<1>6. CASE held_source # None
  <2>1. n = Append(Append(reqs, destroy), set)
    <3>1. w = Append(reqs, destroy) /\ w \in Seq(Req)
      BY <1>1, <1>2, <1>6, AppendIsConcat, AppendProperties
    <3> HIDE DEF w
    <3> QED BY <1>2, <1>4, <3>1, AppendIsConcat
  <2>2. /\ Append(reqs, destroy) \in Seq(Req)
        /\ Len(Append(reqs, destroy)) = Len(reqs) + 1
        /\ \A k \in 1..Len(reqs) : Append(reqs, destroy)[k] = reqs[k]
        /\ Append(reqs, destroy)[Len(reqs) + 1] = destroy
    BY <1>1, <1>2, <1>6, Appended
  <2>3. /\ n \in Seq(Req) /\ Len(n) = Len(reqs) + 2 /\ DOMAIN n = 1..(Len(reqs) + 2)
        /\ \A k \in 1..(Len(reqs) + 1) : n[k] = Append(reqs, destroy)[k]
        /\ n[Len(reqs) + 2] = set
    BY <1>1, <1>2, <2>1, <2>2, Appended
  <2>4. n[Len(reqs) + 1] = destroy /\ \A k \in 1..Len(reqs) : n[k] = reqs[k]
    BY <1>1, <2>2, <2>3
  <2>5. \A k \in DOMAIN n : k > Len(reqs) => k = Len(reqs) + 1 \/ k = Len(reqs) + 2
    BY <1>1, <2>3
  <2>6. Len(reqs) + 1 \in DOMAIN n /\ Len(reqs) + 1 > Len(reqs)
    BY <1>1, <2>3
  <2>7. Len(n) \in Nat /\ Len(n) > Len(reqs) /\ DOMAIN n = 1..Len(n)
    BY <1>1, <2>3
  <2>8. \A k \in DOMAIN n : k > Len(reqs) => n[k] = destroy \/ n[k] = set
    BY <2>3, <2>4, <2>5
  <2> QED BY <1>2, <1>3, <1>6, <2>3, <2>4, <2>6, <2>7, <2>8 DEF n
<1> QED BY <1>5, <1>6

-----------------------------------------------------------------------------
(* The steps, and the effects several of them share.                       *)
NewOffer == \E s \in Unused, c \in Copy : AppCopy(s, c) \/ AppPrimary(s, c)
Hold     == \E s \in Unused, ts \in Time : Activate(s, ts) \/ SetSelection(s, ts)

(* The steps that touch no source, no selection and no request.            *)
Aside ==
  \/ \E m \in Mime \cup {SELF_MIME} : AppPaste(m)
  \/ \E r \in Requests : ClientRequest(r)
  \/ \E b \in Bytes, ts \in Time : ImportEntry(b, ts)
  \/ OnOffer \/ OnSelection \/ OnIgnored \/ OnDone
  \/ NothingPending \/ RoundtripRead \/ PrimaryRejected \/ AllDrained
  \/ \E ts \in Time : RecordJob(ts)
  \/ FinishJob \/ Poll \/ RequestRefused \/ IpcDrained

LEMMA NextCases ==
  ASSUME Next
  PROVE  \/ NewOffer \/ AppClear
         \/ CompositorReceive \/ CompositorSet \/ CompositorDestroy
         \/ Aside \/ OnSend \/ OnCancelled
         \/ TakePending \/ \E m \in job.todo : NextExtra(m)
         \/ Hold
BY DEF Next, Environment, Daemon, Handlers, ProcessOffer, ServeIpc, NewOffer, Hold, Aside

LEMMA AsideKeeps == Aside => UNCHANGED <<data, sel, reqs, pipe, heldVars, served>>
BY DEF Aside, AppPaste, ClientRequest, ImportEntry, OnOffer, OnSelection, OnIgnored,
       OnDone, NothingPending, RoundtripRead, PrimaryRejected, AllDrained, RecordJob,
       FinishJob, Poll, RequestRefused, IpcDrained, wlVars, daemonVars, IpcUnchanged

LEMMA DataGrows ==
  ASSUME TypeOK, NEW s \in Unused, NEW p, NewSource(s, p)
  PROVE  /\ DOMAIN data' = DOMAIN data \cup {s} /\ s \in Source /\ s \notin DOMAIN data
         /\ s # None
         /\ data'[s] = p /\ \A x \in DOMAIN data : data'[x] = data[x]
BY DaemonAssumption DEF NewSource, Unused

LEMMA Holding1 ==
  ASSUME TypeOK, Hold
  PROVE  \E s \in Unused, m \in Mime, b \in Bytes :
           /\ NewSource(s, [x \in {m, SELF_MIME} |-> IF x = m THEN b ELSE Empty])
           /\ reqs' = Holds(s)
           /\ held_source' = s /\ held_mime' = m /\ held_content' = b
           /\ pc = "ipc" /\ ipc # <<>> /\ ipc' = Tail(ipc) /\ IpcUnchanged
<1>1. ipc # <<>> /\ ipc \in Seq(Requests)
  BY DEF Hold, Activate, SetSelection, TakeRequest, TypeOK
<1>2. Head(ipc) \in Requests
  BY <1>1, HeadTailProperties
<1>3. ASSUME NEW s \in Unused, NEW ts \in Time, Activate(s, ts)
      PROVE  \E m \in Mime, b \in Bytes : HoldSelection(s, m, b)
  <2>1. PICK b \in ContentFor(Head(ipc).uuid, Target(Head(ipc))) :
             HoldSelection(s, Target(Head(ipc)), b)
    BY <1>3 DEF Activate
  <2>2. b \in Bytes /\ Target(Head(ipc)) \in Mime
    BY DEF ContentFor, TypeOK, StoreTypeOK, Row
  <2> QED BY <2>1, <2>2
<1>4. ASSUME NEW s \in Unused, NEW ts \in Time, SetSelection(s, ts)
      PROVE  \E m \in Mime, b \in Bytes : HoldSelection(s, m, b)
  <2>1. Head(ipc).mime \in Mime /\ Head(ipc).bytes \in Bytes
    BY <1>2, <1>4 DEF SetSelection, Requests
  <2> QED BY <1>4, <2>1 DEF SetSelection
<1> QED BY <1>1, <1>3, <1>4 DEF Hold, Activate, SetSelection, TakeRequest, HoldSelection, Holds

-----------------------------------------------------------------------------
(* Type correctness, given that of the tables.                             *)
LEMMA TypeNew ==
  ASSUME TypeOK, StoreTypeOK', NewOffer
  PROVE  TypeOK'
<1>1. PICK s \in Unused, c \in Copy : AppCopy(s, c) \/ AppPrimary(s, c)
  BY DEF NewOffer
<1>2. NewSource(s, c)
  BY <1>1 DEF AppCopy, AppPrimary
<1>3. /\ DOMAIN data' = DOMAIN data \cup {s} /\ s \in Source
      /\ data'[s] = c /\ \A x \in DOMAIN data : data'[x] = data[x]
  BY <1>2, DataGrows
<1>4. /\ DOMAIN data' \subseteq Source
      /\ \A x \in DOMAIN data' : /\ DOMAIN data'[x] \subseteq Mime \cup {SELF_MIME}
                                 /\ \A m \in DOMAIN data'[x] : data'[x][m] \in Payload
  BY <1>3, DaemonAssumption DEF TypeOK
<1>5. events' \in Seq(Event) /\ Len(events') >= Len(events) /\ Len(events') \in Nat
  <2>1. CASE AppCopy(s, c)
    BY <1>3, <2>1, AnnouncedEvents DEF AppCopy, Announced
  <2>2. CASE AppPrimary(s, c)
    <3> DEFINE offer == [t |-> "offer", src |-> s]
               ignored == [t |-> "ignored"]
    <3>1. offer \in Event /\ ignored \in Event
      BY <1>3 DEF Event
    <3>2. events' = events \o <<offer, ignored>>
      BY <2>2 DEF AppPrimary
    <3> HIDE DEF offer, ignored
    <3>3. <<offer, ignored>> \in Seq(Event) /\ Len(<<offer, ignored>>) = 2
      BY <3>1
    <3> DEFINE more == <<offer, ignored>>
    <3> HIDE DEF more
    <3>4. events \in Seq(Event) /\ more \in Seq(Event) /\ Len(more) = 2 /\ Len(events) \in Nat
      BY <3>3, Types DEF more
    <3>5. events \o more \in Seq(Event) /\ Len(events \o more) = Len(events) + Len(more)
      BY <3>4, ConcatProperties
    <3> QED BY <3>2, <3>4, <3>5 DEF more
  <2> QED BY <1>1, <2>1, <2>2
<1>6. UNCHANGED <<reqs, pipe, nread, ipc, daemonVars>> /\ sel' \in {sel, s}
  BY <1>1 DEF AppCopy, AppPrimary
<1>7. nread' \in 0..Len(events')
  BY <1>5, <1>6, Types DEF TypeOK
<1> QED BY <1>3, <1>4, <1>5, <1>6, <1>7 DEF TypeOK, daemonVars, heldVars

LEMMA TypeEnvironment ==
  ASSUME TypeOK, SourcesMade, StoreTypeOK',
         AppClear \/ CompositorReceive \/ CompositorSet \/ CompositorDestroy
  PROVE  TypeOK'
<1>1. /\ events \in Seq(Event) /\ reqs \in Seq(Req) /\ Len(events) \in Nat
  BY Types
<1>2. [t |-> "ignored"] \in Event /\ [t |-> "done"] \in Event
  BY DEF Event
<1>3. UNCHANGED <<data, nread, ipc, daemonVars>>
  BY DEF AppClear, CompositorReceive, CompositorSet, CompositorDestroy
<1>4. reqs # <<>> => Tail(reqs) \in Seq(Req) /\ Head(reqs) \in Req
  BY <1>1, HeadTailProperties
<1>5. \A e \in Event : /\ Append(events, e) \in Seq(Event)
                         /\ Len(Append(events, e)) = Len(events) + 1
  BY <1>1, Appended
<1>6. ASSUME events' \in Seq(Event), Len(events') \in Nat, Len(events') >= Len(events),
             reqs' \in Seq(Req), pipe' \in Payload, sel' \in DOMAIN data \cup {None}
      PROVE  TypeOK'
  <2>1. nread' \in 0..Len(events')
    BY <1>1, <1>3, <1>6 DEF TypeOK
  <2> QED BY <1>3, <1>6, <2>1 DEF TypeOK, daemonVars, heldVars
<1>7. CASE AppClear
  BY <1>1, <1>2, <1>5, <1>6, <1>7 DEF AppClear, TypeOK
<1>8. CASE CompositorReceive
  <2>1. /\ events' = Append(events, [t |-> "done"]) /\ reqs' = Tail(reqs)
        /\ reqs # <<>> /\ UNCHANGED sel
    BY <1>8 DEF CompositorReceive
  <2>2. pipe' \in Payload
    <3>1. Head(reqs).src \in Source
      BY <1>4, <2>1 DEF Req
    <3>2. sel = Head(reqs).src => sel \in DOMAIN data
      BY <3>1, DaemonAssumption DEF TypeOK
    <3> QED BY <1>8, <3>2 DEF CompositorReceive, TypeOK, Payload
  <2> QED BY <1>1, <1>2, <1>4, <1>5, <1>6, <2>1, <2>2 DEF TypeOK
<1>9. CASE CompositorDestroy
  <2>1. events' = events \/ events' = Append(events, [t |-> "ignored"])
    BY <1>9 DEF CompositorDestroy
  <2>2. reqs # <<>> /\ reqs' = Tail(reqs) /\ UNCHANGED pipe /\ sel' \in {sel, None}
    BY <1>9 DEF CompositorDestroy
  <2>3. events' \in Seq(Event) /\ Len(events') \in Nat /\ Len(events') >= Len(events)
    <3> DEFINE ignored == [t |-> "ignored"]
    <3>1. ignored \in Event
      BY <1>2
    <3> HIDE DEF ignored
    <3>2. /\ Append(events, ignored) \in Seq(Event)
          /\ Len(Append(events, ignored)) = Len(events) + 1
      BY <1>5, <3>1
    <3>3. CASE events' = events
      BY <1>1, <3>3
    <3>4. CASE events' = Append(events, ignored)
      BY <1>1, <3>2, <3>4
    <3> QED BY <2>1, <3>3, <3>4 DEF ignored
  <2>4. sel \in DOMAIN data \cup {None} /\ pipe \in Payload
    BY DEF TypeOK
  <2> QED BY <1>4, <1>6, <2>2, <2>3, <2>4
<1>10. CASE CompositorSet
  <2>1. Head(reqs).src \in DOMAIN data /\ reqs # <<>>
    BY <1>1, <1>10, Taken DEF CompositorSet, SourcesMade
  <2>2. events' = Announced(Head(reqs).src) /\ Head(reqs).src \in Source
    BY <1>10, <2>1 DEF CompositorSet, Announced, TypeOK
  <2>3. events' \in Seq(Event) /\ Len(events') \in Nat /\ Len(events') >= Len(events)
    BY <2>2, AnnouncedEvents
  <2>4. reqs' = Tail(reqs) /\ UNCHANGED pipe /\ sel' = Head(reqs).src
    BY <1>10 DEF CompositorSet
  <2> QED BY <1>4, <1>6, <2>1, <2>3, <2>4 DEF TypeOK
<1> QED BY <1>7, <1>8, <1>9, <1>10

LEMMA TypeAside ==
  ASSUME TypeOK, SourcesMade, JobTyped, StoreTypeOK', Aside
  PROVE  TypeOK'
<1>0. UNCHANGED <<data, sel, reqs, pipe, heldVars, served>>
  BY AsideKeeps
<1>1. /\ events \in Seq(Event) /\ Len(events) \in Nat /\ DOMAIN events = 1..Len(events)
  BY Types
<1>2. CASE UNCHANGED <<events, nread, ipc, offer_mimes, pending, job>> /\ UNCHANGED <<pc, done>>
  BY <1>0, <1>2 DEF TypeOK, heldVars
<1>3. ASSUME NEW m \in Mime \cup {SELF_MIME}, AppPaste(m)
      PROVE  TypeOK'
  <2>1. [t |-> "send", src |-> sel, mime |-> m] \in Event
    BY <1>3 DEF AppPaste, Own, TypeOK, Event
  <2>2. events' \in Seq(Event) /\ Len(events') = Len(events) + 1
    BY <1>1, <1>3, <2>1, Appended DEF AppPaste
  <2>3. nread' \in 0..Len(events')
    BY <1>1, <1>3, <2>2 DEF AppPaste, TypeOK
  <2> QED BY <1>0, <1>3, <2>2, <2>3 DEF TypeOK, AppPaste, daemonVars, heldVars
<1>4. ASSUME NEW r \in Requests, ClientRequest(r)
      PROVE  TypeOK'
  <2>1. ipc' \in Seq(Requests)
    BY <1>4, Appended DEF ClientRequest, TypeOK
  <2> QED BY <1>0, <1>4, <2>1 DEF TypeOK, ClientRequest, wlVars, daemonVars, heldVars
<1>5. CASE OnOffer \/ OnSelection \/ OnIgnored \/ OnDone
  <2>1. /\ events # <<>> /\ events' = Tail(events) /\ nread' = nread - 1 /\ nread > 0
        /\ UNCHANGED <<ipc, pc, job>>
    BY <1>1, <1>5 DEF OnOffer, OnSelection, OnIgnored, OnDone, Handling, Dispatching, Consume,
           daemonVars, TypeOK
  <2>2. /\ events' \in Seq(Event) /\ Len(events') = Len(events) - 1
        /\ Head(events) = events[1] /\ 1 \in DOMAIN events
    BY <1>1, <2>1, Taken
  <2>3. nread' \in 0..Len(events')
    BY <1>1, <2>1, <2>2 DEF TypeOK
  <2>4. Head(events).t \in {"offer", "selection"} => Head(events).src \in DOMAIN data
    BY <2>2 DEF SourcesMade
  <2>5. /\ DOMAIN offer_mimes' \subseteq DOMAIN data
        /\ \A s \in DOMAIN offer_mimes' : offer_mimes'[s] \subseteq Mime \cup {SELF_MIME}
        /\ pending' \in DOMAIN data \cup {None} /\ done' \in BOOLEAN
    <3>1. CASE OnOffer
      BY <2>4, <3>1 DEF OnOffer, Handling, TypeOK
    <3>2. CASE OnSelection
      BY <2>4, <3>2 DEF OnSelection, Handling, TypeOK
    <3>3. CASE OnIgnored \/ OnDone
      BY <3>3 DEF OnIgnored, OnDone, TypeOK, daemonVars
    <3> QED BY <1>5, <3>1, <3>2, <3>3
  <2> QED BY <1>0, <2>1, <2>2, <2>3, <2>5 DEF TypeOK, heldVars
<1>6. CASE RoundtripRead \/ Poll
  <2>1. nread' \in 0..Len(events')
    BY <1>1, <1>6 DEF RoundtripRead, Poll, TypeOK
  <2> QED BY <1>0, <1>6, <2>1 DEF RoundtripRead, Poll, TypeOK, daemonVars, heldVars
<1>7. CASE AllDrained
  <2>1. job'.got \subseteq Part /\ job' = [job EXCEPT !.got = Drained]
    BY <1>7 DEF AllDrained, Drained, Received, TypeOK, JobTyped, Part
  <2> QED BY <1>0, <1>7, <2>1 DEF AllDrained, TypeOK, wlVars, heldVars
<1>8. CASE FinishJob
  BY <1>0, <1>8 DEF FinishJob, TypeOK, NoJob, wlVars, heldVars
<1>9. CASE RequestRefused
  <2>1. ipc' \in Seq(Requests)
    BY <1>9, HeadTailProperties DEF RequestRefused, TakeRequest, TypeOK
  <2> QED BY <1>0, <1>9, <2>1 DEF RequestRefused, IpcUnchanged, TypeOK, heldVars
<1>10. ASSUME NEW ts \in Time, RecordJob(ts)
       PROVE  TypeOK'
  BY <1>0, <1>10 DEF RecordJob, TypeOK, wlVars, heldVars
<1>11. CASE NothingPending \/ PrimaryRejected \/ IpcDrained
  BY <1>0, <1>11 DEF NothingPending, PrimaryRejected, IpcDrained, TypeOK, wlVars, heldVars
<1>12. ASSUME NEW b \in Bytes, NEW ts \in Time, ImportEntry(b, ts)
       PROVE  TypeOK'
  BY <1>12 DEF ImportEntry, TypeOK, wlVars, daemonVars, heldVars
<1> QED BY <1>3, <1>4, <1>5, <1>6, <1>7, <1>8, <1>9, <1>10, <1>11, <1>12 DEF Aside

LEMMA TypeServe ==
  ASSUME TypeOK, SourcesMade, StoreTypeOK', OnSend \/ OnCancelled
  PROVE  TypeOK'
<1>1. /\ events \in Seq(Event) /\ Len(events) \in Nat /\ DOMAIN events = 1..Len(events)
      /\ reqs \in Seq(Req)
  BY Types
<1>2. /\ events # <<>> /\ events' = Tail(events) /\ nread' = nread - 1 /\ nread > 0
      /\ UNCHANGED <<data, sel, pipe, ipc, pc, offer_mimes, pending, job, done>>
  BY <1>1 DEF OnSend, OnCancelled, Handling, Dispatching, Consume, TypeOK
<1>3. /\ events' \in Seq(Event) /\ Len(events') = Len(events) - 1
      /\ Head(events) \in Event /\ Head(events) = events[1] /\ 1 \in DOMAIN events
  BY <1>1, <1>2, Taken
<1>4. nread' \in 0..Len(events')
  BY <1>1, <1>2, <1>3 DEF TypeOK
<1>5. CASE OnSend
  <2>1. Head(events).src \in DOMAIN data /\ Head(events).t = "send"
    BY <1>3, <1>5 DEF SourcesMade, OnSend, Handling
  <2>2. Head(events).mime \in Mime \cup {SELF_MIME}
    BY <1>3, <2>1 DEF Event
  <2>3. \/ UNCHANGED served
        \/ served' = [src |-> Head(events).src, mime |-> Head(events).mime,
                      bytes |-> IF Head(events).mime = held_mime THEN held_content ELSE None]
    BY <1>5 DEF OnSend
  <2>4. (IF Head(events).mime = held_mime THEN held_content ELSE None) \in Bytes \cup {Empty, None}
    BY DEF TypeOK
  <2>5. UNCHANGED <<reqs, heldVars>>
    BY <1>5 DEF OnSend
  <2>6. served' = None \/ served' \in [src : DOMAIN data, mime : Mime \cup {SELF_MIME},
                                       bytes : Bytes \cup {Empty, None}]
    BY <2>1, <2>2, <2>3, <2>4 DEF TypeOK
  <2> QED BY <1>2, <1>3, <1>4, <2>5, <2>6 DEF TypeOK, heldVars
<1>6. CASE OnCancelled
  <2>1. reqs' \in Seq(Req)
    <3>1. held_source # None => [t |-> "destroy", src |-> held_source] \in Req
      BY DEF TypeOK, Req
    <3>2. Head(events).src # None
      BY <1>3, <1>6, DaemonAssumption DEF OnCancelled, Handling, SourcesMade, TypeOK
    <3> QED BY <1>1, <1>6, <3>1, <3>2, Appended DEF OnCancelled, heldVars
  <2>2. /\ held_source' \in DOMAIN data \cup {None} /\ held_mime' \in Mime \cup {None}
        /\ held_content' \in Bytes \cup {Empty} /\ UNCHANGED served
    BY <1>6 DEF OnCancelled, heldVars, TypeOK
  <2> QED BY <1>2, <1>3, <1>4, <2>1, <2>2 DEF TypeOK
<1> QED BY <1>5, <1>6

(* What TakePending makes of the offer it takes.                           *)
LEMMA Taking ==
  ASSUME TypeOK, OffersRight, TakePending
  PROVE  /\ pending \in DOMAIN data /\ pc = "dispatch" /\ nread = 0
         /\ UNCHANGED <<storeVars, data, sel, pipe, events, nread, ipc, offer_mimes,
                        heldVars, served>>
         /\ pending' = None
         /\ \/ /\ pc' = "finish" /\ UNCHANGED <<reqs, done>>
               /\ job' = [NoJob EXCEPT !.src = pending]
            \/ \E m \in Mime, ms \in SUBSET Mime :
                 /\ pc' = "roundtrip" /\ done' = FALSE
                 /\ job' = [src |-> pending, primary |-> m, want |-> m, todo |-> ms, got |-> {}]
                 /\ reqs' = Append(reqs, [t |-> "receive", src |-> pending, mime |-> m])
                 /\ SELF_MIME \notin DOMAIN data[pending]
<1> DEFINE ms == IF pending \in DOMAIN offer_mimes THEN offer_mimes[pending] ELSE {}
<1>1. ms \subseteq Mime \cup {SELF_MIME}
  BY DEF TypeOK
<1>2. pending \in DOMAIN data /\ pending # None
  BY DEF TakePending, TypeOK
<1>3. Pickable(ms) => ms = DOMAIN data[pending]
  BY DEF Pickable, OffersRight
<1>4. Pickable(ms) => Pick(ms) \in Mime /\ Extras(ms) \subseteq Mime
  BY <1>1, PickProperties, ExtrasAreMimes
<1>5. \/ /\ pc' = "finish" /\ UNCHANGED <<reqs, done>>
         /\ job' = [NoJob EXCEPT !.src = pending]
      \/ /\ SELF_MIME \notin ms /\ Pickable(ms)
         /\ job' = [src |-> pending, primary |-> Pick(ms), want |-> Pick(ms),
                    todo |-> Extras(ms), got |-> {}]
         /\ reqs' = Append(reqs, [t |-> "receive", src |-> pending, mime |-> Pick(ms)])
         /\ done' = FALSE /\ pc' = "roundtrip"
  BY DEF TakePending, SendReceive
<1> HIDE DEF ms
<1> QED BY <1>2, <1>3, <1>4, <1>5 DEF TakePending

LEMMA TypeProcess ==
  ASSUME TypeOK, JobTyped, OffersRight, StoreTypeOK',
         TakePending \/ \E m \in job.todo : NextExtra(m)
  PROVE  TypeOK'
<1>1. reqs \in Seq(Req)
  BY Types
<1>2. \A s \in DOMAIN data, m \in Mime : [t |-> "receive", src |-> s, mime |-> m] \in Req
  BY DEF Req, TypeOK
<1>3. CASE TakePending
  <2>1. pending \in DOMAIN data
    BY <1>3, Taking
  <2>2. /\ reqs' \in Seq(Req)
        /\ job' \in [src : DOMAIN data \cup {None}, primary : Mime \cup {None},
                     want : Mime \cup {None}, todo : SUBSET Mime, got : SUBSET Part]
    <3>1. CASE UNCHANGED reqs /\ job' = [NoJob EXCEPT !.src = pending]
      BY <1>1, <2>1, <3>1 DEF NoJob
    <3>2. ASSUME NEW m \in Mime, NEW ms \in SUBSET Mime,
                 job' = [src |-> pending, primary |-> m, want |-> m, todo |-> ms, got |-> {}],
                 reqs' = Append(reqs, [t |-> "receive", src |-> pending, mime |-> m])
          PROVE  /\ reqs' \in Seq(Req)
                 /\ job' \in [src : DOMAIN data \cup {None}, primary : Mime \cup {None},
                              want : Mime \cup {None}, todo : SUBSET Mime, got : SUBSET Part]
      <4>1. reqs' \in Seq(Req)
        BY <1>1, <1>2, <2>1, <3>2, Appended
      <4> QED BY <2>1, <3>2, <4>1
    <3> QED BY <1>3, <3>1, <3>2, Taking
  <2>3. /\ UNCHANGED <<data, sel, pipe, events, nread, ipc, offer_mimes, heldVars, served>>
        /\ pending' = None /\ pc' \in {"finish", "roundtrip"} /\ done' \in BOOLEAN
    BY <1>3, Taking DEF TypeOK
  <2> QED BY <2>2, <2>3 DEF TypeOK, heldVars
<1>4. ASSUME NEW m \in job.todo, NextExtra(m)
      PROVE  TypeOK'
  <2>1. m \in Mime /\ job.src \in DOMAIN data /\ job.want \in Mime
    BY <1>4 DEF NextExtra, Received, TypeOK, JobTyped
  <2>2. reqs' \in Seq(Req)
    BY <1>1, <1>2, <1>4, <2>1, Appended DEF NextExtra, SendReceive
  <2>3. Drained \subseteq Part
    BY <2>1 DEF Drained, TypeOK, Part
  <2>4. job' \in [src : DOMAIN data \cup {None}, primary : Mime \cup {None},
                  want : Mime \cup {None}, todo : SUBSET Mime, got : SUBSET Part]
    BY <1>4, <2>1, <2>3 DEF NextExtra, TypeOK
  <2>5. /\ done' \in BOOLEAN
        /\ UNCHANGED <<data, sel, pipe, events, nread, ipc, pc, offer_mimes, pending,
                       heldVars, served>>
    BY <1>4 DEF NextExtra
  <2> QED BY <2>2, <2>4, <2>5 DEF TypeOK, heldVars
<1> QED BY <1>3, <1>4

LEMMA TypeHold ==
  ASSUME TypeOK, StoreTypeOK', Hold
  PROVE  TypeOK'
<1>1. PICK s \in Unused, m \in Mime, b \in Bytes :
           /\ NewSource(s, [x \in {m, SELF_MIME} |-> IF x = m THEN b ELSE Empty])
           /\ reqs' = Holds(s)
           /\ held_source' = s /\ held_mime' = m /\ held_content' = b
           /\ pc = "ipc" /\ ipc # <<>> /\ ipc' = Tail(ipc) /\ IpcUnchanged
  BY Holding1
<1> DEFINE p == [x \in {m, SELF_MIME} |-> IF x = m THEN b ELSE Empty]
<1>2. /\ DOMAIN p \subseteq Mime \cup {SELF_MIME} /\ \A x \in DOMAIN p : p[x] \in Payload
  BY DEF Payload
<1>3. NewSource(s, p)
  BY <1>1
<1> HIDE DEF p
<1>4. /\ DOMAIN data' = DOMAIN data \cup {s} /\ s \in Source
      /\ data'[s] = p /\ \A x \in DOMAIN data : data'[x] = data[x]
  BY <1>3, DataGrows
<1>5. \A x \in DOMAIN data' : /\ DOMAIN data'[x] \subseteq Mime \cup {SELF_MIME}
                              /\ \A y \in DOMAIN data'[x] : data'[x][y] \in Payload
  BY <1>2, <1>4 DEF TypeOK
<1>6. reqs' \in Seq(Req) /\ ipc' \in Seq(Requests)
  BY <1>1, <1>4, HeldRequests, HeadTailProperties DEF TypeOK
<1> QED BY <1>1, <1>4, <1>5, <1>6 DEF TypeOK, IpcUnchanged

LEMMA TypeOKStep ==
  ASSUME DaemonInv, [Next]_vars
  PROVE  TypeOK'
<1>1. StoreTypeOK'
  BY StoreSteps, StoreTypeStep DEF DaemonInv, TypeOK
<1>2. CASE UNCHANGED vars
  BY <1>1, <1>2 DEF DaemonInv, TypeOK, vars, wlVars, daemonVars, heldVars
<1>3. CASE Next
  BY <1>1, <1>3, NextCases, TypeNew, TypeEnvironment, TypeAside, TypeServe, TypeProcess,
     TypeHold DEF DaemonInv
<1> QED BY <1>2, <1>3

-----------------------------------------------------------------------------
(* What a step does to the events and the requests, element by element.    *)
EventsGrow ==
  /\ DOMAIN events \subseteq DOMAIN events'
  /\ \A k \in DOMAIN events : events'[k] = events[k]

EventsShift ==
  /\ \A k \in DOMAIN events' : k + 1 \in DOMAIN events /\ events'[k] = events[k + 1]
  /\ \A j, k \in DOMAIN events' : j + 1 = k + 1 => j = k

LEMMA Dispatched ==
  ASSUME TypeOK, Dispatching, Consume
  PROVE  /\ EventsShift /\ events # <<>> /\ Head(events) = events[1] /\ 1 \in DOMAIN events
         /\ \A k \in DOMAIN events' : k \in Nat \ {0}
<1>1. /\ events \in Seq(Event) /\ events # <<>> /\ events' = Tail(events)
  BY Types DEF Dispatching, Consume, TypeOK
<1> QED BY <1>1, Taken DEF EventsShift

LEMMA Announcing ==
  ASSUME TypeOK, NEW s \in Source, events' = Announced(s)
  PROVE  /\ EventsGrow
         /\ \A k \in DOMAIN events' \ DOMAIN events :
              \/ events'[k].t = "cancelled" /\ events'[k].src \in DOMAIN data
              \/ events'[k].t \in {"offer", "selection"} /\ events'[k].src = s
<1>1. DOMAIN events = 1..Len(events) /\ Len(events) \in Nat
  BY Types
<1> DEFINE n == Announced(s)
<1>2. /\ Len(n) \in Nat /\ Len(n) >= Len(events) /\ DOMAIN n = 1..Len(n)
      /\ \A k \in 1..Len(events) : n[k] = events[k]
      /\ \A k \in DOMAIN n : k > Len(events) =>
              \/ n[k].t = "cancelled" /\ n[k].src = sel /\ sel \in DOMAIN data
              \/ n[k].t \in {"offer", "selection"} /\ n[k].src = s
  BY AnnouncedEvents
<1>3. events' = n
  OBVIOUS
<1> HIDE DEF n
<1>4. \A k \in DOMAIN n \ DOMAIN events : k > Len(events)
  BY <1>1, <1>2
<1> QED BY <1>1, <1>2, <1>3, <1>4 DEF EventsGrow

LEMMA Adding ==
  ASSUME TypeOK, NEW e \in Event, events' = Append(events, e)
  PROVE  /\ EventsGrow
         /\ \A k \in DOMAIN events' \ DOMAIN events : events'[k] = e
         /\ \A j, k \in DOMAIN events' \ DOMAIN events : j = k
<1>1. /\ DOMAIN events = 1..Len(events) /\ Len(events) \in Nat
      /\ DOMAIN events' = 1..(Len(events) + 1)
      /\ \A k \in 1..Len(events) : events'[k] = events[k]
      /\ events'[Len(events) + 1] = e
  BY Types, Appended
<1>2. \A k \in DOMAIN events' \ DOMAIN events : k = Len(events) + 1
  BY <1>1
<1> QED BY <1>1, <1>2 DEF EventsGrow

ReqsShift ==
  \A k \in DOMAIN reqs' : k + 1 \in DOMAIN reqs /\ reqs'[k] = reqs[k + 1] /\ k \in Nat \ {0}

LEMMA Handled ==
  ASSUME TypeOK, reqs # <<>>, reqs' = Tail(reqs)
  PROVE  /\ ReqsShift /\ Head(reqs) = reqs[1] /\ 1 \in DOMAIN reqs
         /\ \A k \in DOMAIN reqs : k # 1 =>
              k - 1 \in DOMAIN reqs' /\ reqs'[k - 1] = reqs[k] /\ k > 1 /\ k \in Nat
<1>1. /\ Len(reqs) \in Nat \ {0} /\ DOMAIN reqs = 1..Len(reqs)
      /\ DOMAIN reqs' = 1..(Len(reqs) - 1)
      /\ \A k \in 1..(Len(reqs) - 1) : reqs'[k] = reqs[k + 1]
      /\ Head(reqs) = reqs[1]
  BY Types, Taken
<1>2. \A k \in DOMAIN reqs : k # 1 => k - 1 \in DOMAIN reqs' /\ (k - 1) + 1 = k /\ k > 1
  BY <1>1
<1>3. \A k \in DOMAIN reqs : k # 1 => reqs'[k - 1] = reqs[k]
  BY <1>1, <1>2
<1>4. ReqsShift
  BY <1>1 DEF ReqsShift
<1> QED BY <1>1, <1>2, <1>3, <1>4

ReqsGrow ==
  /\ DOMAIN reqs \subseteq DOMAIN reqs'
  /\ \A k \in DOMAIN reqs : reqs'[k] = reqs[k]
  /\ \A j \in DOMAIN reqs, k \in DOMAIN reqs' \ DOMAIN reqs : k > j

LEMMA Requesting ==
  ASSUME TypeOK, NEW r \in Req, reqs' = Append(reqs, r)
  PROVE  /\ ReqsGrow
         /\ \A k \in DOMAIN reqs' \ DOMAIN reqs : reqs'[k] = r
         /\ \A j, k \in DOMAIN reqs' \ DOMAIN reqs : j = k
         /\ \E k \in DOMAIN reqs' \ DOMAIN reqs : reqs'[k] = r
<1>1. /\ DOMAIN reqs = 1..Len(reqs) /\ Len(reqs) \in Nat
      /\ DOMAIN reqs' = 1..(Len(reqs) + 1)
      /\ \A k \in 1..Len(reqs) : reqs'[k] = reqs[k]
      /\ reqs'[Len(reqs) + 1] = r
  BY Types, Appended
<1>2. \A k \in DOMAIN reqs' \ DOMAIN reqs : k = Len(reqs) + 1
  BY <1>1
<1>3. Len(reqs) + 1 \in DOMAIN reqs' \ DOMAIN reqs
  BY <1>1
<1> QED BY <1>1, <1>2, <1>3 DEF ReqsGrow

LEMMA Reholding ==
  ASSUME TypeOK, NEW s \in Source, reqs' = Holds(s)
  PROVE  /\ ReqsGrow
         /\ \A k \in DOMAIN reqs' \ DOMAIN reqs :
              \/ /\ reqs'[k].t = "destroy" /\ reqs'[k].src = held_source
                 /\ held_source \in DOMAIN data
              \/ reqs'[k].t = "set" /\ reqs'[k].src = s
         /\ held_source # None =>
              \E k \in DOMAIN reqs' \ DOMAIN reqs :
                reqs'[k].t = "destroy" /\ reqs'[k].src = held_source
<1>1. DOMAIN reqs = 1..Len(reqs) /\ Len(reqs) \in Nat
  BY Types
<1> DEFINE n == Holds(s)
<1>2. /\ Len(n) \in Nat /\ Len(n) > Len(reqs) /\ DOMAIN n = 1..Len(n)
      /\ \A k \in 1..Len(reqs) : n[k] = reqs[k]
      /\ \A k \in DOMAIN n : k > Len(reqs) =>
              \/ /\ n[k].t = "destroy" /\ n[k].src = held_source
                 /\ held_source \in DOMAIN data
              \/ n[k].t = "set" /\ n[k].src = s
      /\ held_source # None =>
           \E k \in DOMAIN n : k > Len(reqs) /\ n[k].t = "destroy" /\ n[k].src = held_source
  BY HeldRequests
<1>3. reqs' = n
  OBVIOUS
<1> HIDE DEF n
<1>4. /\ \A k \in DOMAIN n : k > Len(reqs) <=> k \notin DOMAIN reqs
      /\ DOMAIN reqs \subseteq DOMAIN n
      /\ \A j \in DOMAIN reqs, k \in DOMAIN n \ DOMAIN reqs : k > j
  BY <1>1, <1>2
<1> QED BY <1>1, <1>2, <1>3, <1>4 DEF ReqsGrow

-----------------------------------------------------------------------------
(* The held source: what it serves, and whether it owns the clipboard.     *)
LEMMA HeldAside ==
  ASSUME HeldIs, SetHeld, HeldServesSelection, ServedRight,
         UNCHANGED <<data, sel, reqs, heldVars, served>>
  PROVE  HeldIs' /\ SetHeld' /\ HeldServesSelection' /\ ServedRight'
BY DEF HeldIs, SetHeld, HeldServesSelection, ServedRight, heldVars, Own, Holding,
       BeingDestroyed

LEMMA HeldNew ==
  ASSUME DaemonInv, NewOffer
  PROVE  HeldIs' /\ SetHeld' /\ HeldServesSelection' /\ ServedRight'
<1> USE DEF DaemonInv
<1>1. PICK s \in Unused, c \in Copy : AppCopy(s, c) \/ AppPrimary(s, c)
  BY DEF NewOffer
<1>2. /\ UNCHANGED <<reqs, heldVars, served>>
      /\ NewSource(s, c) /\ sel' \in {sel, s}
  BY <1>1 DEF AppCopy, AppPrimary, daemonVars
<1>3. /\ DOMAIN data' = DOMAIN data \cup {s} /\ s \notin DOMAIN data
      /\ data'[s] = c /\ \A x \in DOMAIN data : data'[x] = data[x]
  BY <1>2, DataGrows
<1>4. sel' \in Own' => sel' = sel /\ sel \in Own
  BY <1>2, <1>3, DaemonAssumption DEF Own
<1>5. HeldIs' /\ SetHeld'
  BY <1>2, <1>3 DEF HeldIs, SetHeld, heldVars, TypeOK
<1>6. HeldServesSelection'
  BY <1>2, <1>4 DEF HeldServesSelection, Holding, BeingDestroyed, heldVars
<1>7. ServedRight'
  BY <1>2, <1>3 DEF ServedRight, TypeOK
<1> QED BY <1>5, <1>6, <1>7

(* The compositor handles the requests in the order they were sent: a      *)
(* source becomes the owner before its destroy is looked at.               *)
LEMMA HeldHandled ==
  ASSUME DaemonInv, CompositorReceive \/ CompositorSet \/ CompositorDestroy
  PROVE  HeldIs' /\ SetHeld' /\ HeldServesSelection' /\ ServedRight'
<1> USE DEF DaemonInv
<1>1. /\ UNCHANGED <<data, heldVars, served>> /\ reqs # <<>> /\ reqs' = Tail(reqs)
  BY DEF CompositorReceive, CompositorSet, CompositorDestroy, daemonVars
<1>2. HeldIs' /\ ServedRight'
  BY <1>1 DEF HeldIs, ServedRight, heldVars
<1>3. /\ \A k \in DOMAIN reqs' : k + 1 \in DOMAIN reqs /\ reqs'[k] = reqs[k + 1] /\ k \in Nat \ {0}
      /\ Head(reqs) = reqs[1] /\ 1 \in DOMAIN reqs
      /\ \A k \in DOMAIN reqs : k # 1 =>
           k - 1 \in DOMAIN reqs' /\ reqs'[k - 1] = reqs[k] /\ k > 1 /\ k \in Nat
  BY <1>1, Handled DEF ReqsShift
<1>4. ASSUME NEW k \in DOMAIN reqs', reqs'[k].t = "set", reqs'[k].src # held_source
      PROVE  \E j \in DOMAIN reqs' :
               j > k /\ reqs'[j].t = "destroy" /\ reqs'[j].src = reqs'[k].src
  <2>1. PICK j \in DOMAIN reqs :
             j > k + 1 /\ reqs[j].t = "destroy" /\ reqs[j].src = reqs[k + 1].src
    BY <1>3, <1>4 DEF SetHeld
  <2>2. j # 1
    BY <1>3, <2>1
  <2>3. j - 1 \in DOMAIN reqs' /\ reqs'[j - 1] = reqs[j] /\ j \in Nat
    BY <1>3, <2>2
  <2>4. j - 1 > k
    BY <1>3, <2>1, <2>3
  <2> QED BY <1>3, <2>1, <2>3, <2>4
<1>5. SetHeld'
  BY <1>1, <1>4 DEF SetHeld, heldVars
<1>6. ASSUME NEW s, BeingDestroyed(s), ~(Head(reqs).t = "destroy" /\ Head(reqs).src = s)
      PROVE  \E j \in DOMAIN reqs' : reqs'[j].t = "destroy" /\ reqs'[j].src = s
  <2>1. PICK j \in DOMAIN reqs : reqs[j].t = "destroy" /\ reqs[j].src = s
    BY <1>6 DEF BeingDestroyed
  <2>2. j - 1 \in DOMAIN reqs' /\ reqs'[j - 1] = reqs[j]
    BY <1>3, <1>6, <2>1
  <2> QED BY <2>1, <2>2
<1>7. ASSUME NEW s, s \in Own, sel' = s,
             Holding(s) \/ \E j \in DOMAIN reqs' : reqs'[j].t = "destroy" /\ reqs'[j].src = s
      PROVE  HeldServesSelection'
  BY <1>1, <1>7 DEF HeldServesSelection, Holding, BeingDestroyed, heldVars, Own
<1>8. sel' \notin Own => HeldServesSelection'
  BY <1>1 DEF HeldServesSelection, Own
<1>9. HeldServesSelection'
  <2>1. PICK s : s = sel'
    OBVIOUS
  <2> SUFFICES ASSUME s \in Own PROVE HeldServesSelection'
    BY <1>8, <2>1
  <2>2. CASE CompositorReceive
    <3>1. Head(reqs).t = "receive" /\ sel' = sel
      BY <2>2 DEF CompositorReceive
    <3> QED BY <1>6, <1>7, <2>1, <3>1 DEF HeldServesSelection
  <2>3. CASE CompositorDestroy
    <3>1. Head(reqs).t = "destroy"
          /\ \/ sel' = None
             \/ sel' = sel /\ Head(reqs).src # sel
      BY <2>3 DEF CompositorDestroy
    <3>2. None \notin Own
      BY DaemonAssumption DEF Own, TypeOK
    <3> QED BY <1>6, <1>7, <2>1, <3>1, <3>2 DEF HeldServesSelection
  <2>4. CASE CompositorSet
    <3>1. reqs[1].t = "set" /\ reqs[1].src = s
      BY <1>3, <2>1, <2>4 DEF CompositorSet
    <3>2. CASE s = held_source
      BY <1>7, <2>1, <3>2 DEF Holding
    <3>3. CASE s # held_source
      <4>1. PICK j \in DOMAIN reqs : j > 1 /\ reqs[j].t = "destroy" /\ reqs[j].src = s
        BY <1>3, <3>1, <3>3 DEF SetHeld
      <4>2. BeingDestroyed(s)
        BY <4>1 DEF BeingDestroyed
      <4>3. Head(reqs).t # "destroy"
        BY <1>3, <3>1
      <4> QED BY <1>6, <1>7, <2>1, <4>2, <4>3
    <3> QED BY <3>2, <3>3
  <2> QED BY <2>2, <2>3, <2>4
<1> QED BY <1>2, <1>5, <1>9

(* A Cancelled for the held source gives it up; a Send is answered with    *)
(* what the held source was created with.                                  *)
LEMMA HeldEvents ==
  ASSUME DaemonInv, OnSend \/ OnCancelled
  PROVE  HeldIs' /\ SetHeld' /\ HeldServesSelection' /\ ServedRight'
<1> USE DEF DaemonInv
<1>1. CASE OnSend
  <2>1. UNCHANGED <<data, sel, reqs, heldVars>>
    BY <1>1 DEF OnSend
  <2>2. HeldIs' /\ SetHeld' /\ HeldServesSelection'
    BY <2>1 DEF HeldIs, SetHeld, HeldServesSelection, heldVars, Own, Holding, BeingDestroyed
  <2>3. ServedRight'
    <3>1. CASE UNCHANGED served
      BY <2>1, <3>1 DEF ServedRight
    <3>2. CASE ~UNCHANGED served
      <4>1. /\ Head(events).src = held_source
            /\ served' = [src |-> Head(events).src, mime |-> Head(events).mime,
                          bytes |-> IF Head(events).mime = held_mime
                                      THEN held_content ELSE None]
        BY <1>1, <3>2 DEF OnSend
      <4>2. held_source # None
        <5>1. Head(events) = events[1] /\ 1 \in DOMAIN events /\ Head(events).t = "send"
          BY <1>1, Dispatched DEF OnSend, Handling
        <5> QED BY <4>1, <5>1, DaemonAssumption DEF SourcesMade, TypeOK
      <4>3. /\ held_mime \in Mime
            /\ data[held_source] = [x \in {held_mime, SELF_MIME} |->
                                      IF x = held_mime THEN held_content ELSE Empty]
        BY <4>2 DEF HeldIs
      <4>4. DOMAIN data[held_source] \ {SELF_MIME} = {held_mime}
        BY <4>3, DaemonAssumption
      <4>5. data[held_source][held_mime] = held_content
        BY <4>3
      <4> QED BY <2>1, <4>1, <4>4, <4>5 DEF ServedRight
    <3> QED BY <3>1, <3>2
  <2> QED BY <2>2, <2>3
<1>2. CASE OnCancelled
  <2>1. UNCHANGED <<data, sel, served>>
    BY <1>2 DEF OnCancelled
  <2>2. CASE UNCHANGED <<heldVars, reqs>>
    BY <2>1, <2>2, HeldAside
  <2>3. CASE ~UNCHANGED <<heldVars, reqs>>
    <3>1. /\ held_source' = None /\ held_source = Head(events).src
          /\ reqs' = Append(reqs, [t |-> "destroy", src |-> held_source])
      BY <1>2, <2>3 DEF OnCancelled
    <3>2. held_source # None
      <4>1. Head(events) = events[1] /\ 1 \in DOMAIN events /\ Head(events).t = "cancelled"
        BY <1>2, Dispatched DEF OnCancelled, Handling
      <4> QED BY <3>1, <4>1, DaemonAssumption DEF SourcesMade, TypeOK
    <3> DEFINE r == [t |-> "destroy", src |-> held_source]
    <3>3. r \in Req /\ r.t = "destroy" /\ r.src = held_source
      BY <3>2 DEF Req, TypeOK
    <3> HIDE DEF r
    <3>4. /\ ReqsGrow /\ \A k \in DOMAIN reqs' \ DOMAIN reqs : reqs'[k] = r
          /\ \E k \in DOMAIN reqs' \ DOMAIN reqs : reqs'[k] = r
      BY <3>1, <3>3, Requesting DEF r
    <3>5. HeldIs' /\ ServedRight'
      BY <2>1, <3>1 DEF HeldIs, ServedRight
    <3>6. SetHeld'
      <4>1. ASSUME NEW k \in DOMAIN reqs', reqs'[k].t = "set"
            PROVE  \E j \in DOMAIN reqs' :
                     j > k /\ reqs'[j].t = "destroy" /\ reqs'[j].src = reqs'[k].src
        <5>1. k \in DOMAIN reqs /\ reqs'[k] = reqs[k]
          BY <3>3, <3>4, <4>1 DEF ReqsGrow
        <5>2. CASE reqs[k].src = held_source
          BY <3>3, <3>4, <5>1, <5>2 DEF ReqsGrow
        <5>3. CASE reqs[k].src # held_source
          BY <3>4, <4>1, <5>1, <5>3 DEF ReqsGrow, SetHeld
        <5> QED BY <5>2, <5>3
      <4> QED BY <4>1 DEF SetHeld
    <3>7. HeldServesSelection'
      <4>1. sel' \in Own' <=> sel \in Own
        BY <2>1 DEF Own
      <4>2. CASE sel = held_source
        BY <2>1, <3>3, <3>4, <4>2 DEF HeldServesSelection, BeingDestroyed
      <4>3. CASE sel \in Own /\ sel # held_source
        BY <2>1, <3>4, <4>3 DEF HeldServesSelection, BeingDestroyed, Holding, ReqsGrow
      <4> QED BY <4>1, <4>2, <4>3 DEF HeldServesSelection
    <3> QED BY <3>5, <3>6, <3>7
  <2> QED BY <2>2, <2>3
<1> QED BY <1>1, <1>2

(* A receive is neither a set_selection nor a destroy.                     *)
LEMMA HeldReceive ==
  ASSUME DaemonInv, TakePending \/ \E m \in job.todo : NextExtra(m)
  PROVE  HeldIs' /\ SetHeld' /\ HeldServesSelection' /\ ServedRight'
<1> USE DEF DaemonInv
<1>1. UNCHANGED <<data, sel, heldVars, served>>
  BY DEF TakePending, NextExtra
<1>2. CASE UNCHANGED reqs
  BY <1>1, <1>2, HeldAside
<1>3. ASSUME NEW s \in DOMAIN data, NEW m \in Mime,
             reqs' = Append(reqs, [t |-> "receive", src |-> s, mime |-> m])
      PROVE  HeldIs' /\ SetHeld' /\ HeldServesSelection' /\ ServedRight'
  <2> DEFINE r == [t |-> "receive", src |-> s, mime |-> m]
  <2>1. r \in Req /\ r.t = "receive"
    BY DEF Req, TypeOK
  <2> HIDE DEF r
  <2>2. ReqsGrow /\ \A k \in DOMAIN reqs' \ DOMAIN reqs : reqs'[k] = r
    BY <1>3, <2>1, Requesting DEF r
  <2>3. HeldIs' /\ ServedRight'
    BY <1>1 DEF HeldIs, ServedRight, heldVars
  <2>4. SetHeld'
    BY <1>1, <2>1, <2>2 DEF SetHeld, ReqsGrow, heldVars
  <2>5. HeldServesSelection'
    BY <1>1, <2>1, <2>2
    DEF HeldServesSelection, BeingDestroyed, Holding, ReqsGrow, Own, heldVars
  <2> QED BY <2>3, <2>4, <2>5
<1>4. \/ UNCHANGED reqs
      \/ \E s \in DOMAIN data, m \in Mime :
           reqs' = Append(reqs, [t |-> "receive", src |-> s, mime |-> m])
  <2>1. CASE TakePending
    BY <2>1, Taking
  <2>2. ASSUME NEW m \in job.todo, NextExtra(m)
        PROVE  \E s \in DOMAIN data, x \in Mime :
                 reqs' = Append(reqs, [t |-> "receive", src |-> s, mime |-> x])
    <3>1. job.src \in DOMAIN data /\ m \in Mime
      BY <2>2 DEF NextExtra, Received, JobTyped, TypeOK
    <3> QED BY <2>2, <3>1 DEF NextExtra, SendReceive
  <2> QED BY <2>1, <2>2
<1> QED BY <1>2, <1>3, <1>4

(* The old held source is destroyed before the new one is set.             *)
LEMMA HeldHold ==
  ASSUME DaemonInv, Hold
  PROVE  HeldIs' /\ SetHeld' /\ HeldServesSelection' /\ ServedRight'
<1> USE DEF DaemonInv
<1>1. PICK s \in Unused, m \in Mime, b \in Bytes :
           /\ NewSource(s, [x \in {m, SELF_MIME} |-> IF x = m THEN b ELSE Empty])
           /\ reqs' = Holds(s)
           /\ held_source' = s /\ held_mime' = m /\ held_content' = b
           /\ pc = "ipc" /\ ipc # <<>> /\ ipc' = Tail(ipc) /\ IpcUnchanged
  BY Holding1
<1> DEFINE p == [x \in {m, SELF_MIME} |-> IF x = m THEN b ELSE Empty]
<1>2. /\ DOMAIN data' = DOMAIN data \cup {s} /\ s \in Source /\ s \notin DOMAIN data
      /\ data'[s] = p /\ \A x \in DOMAIN data : data'[x] = data[x]
      /\ s # None
  BY <1>1, DataGrows
<1>3. HeldIs'
  BY <1>1, <1>2 DEF HeldIs
<1> HIDE DEF p
<1>4. /\ ReqsGrow
      /\ \A k \in DOMAIN reqs' \ DOMAIN reqs :
           \/ reqs'[k].t = "destroy"
           \/ reqs'[k].t = "set" /\ reqs'[k].src = s
      /\ held_source # None =>
           \E k \in DOMAIN reqs' \ DOMAIN reqs :
             reqs'[k].t = "destroy" /\ reqs'[k].src = held_source
  BY <1>1, <1>2, Reholding
<1>5. \A k \in DOMAIN reqs : reqs[k].src \in DOMAIN data /\ reqs[k].src # None
  BY DaemonAssumption DEF SourcesMade, TypeOK
<1>6. SetHeld'
  <2>1. ASSUME NEW k \in DOMAIN reqs, reqs[k].t = "set"
        PROVE  \E j \in DOMAIN reqs' :
                 j > k /\ reqs'[j].t = "destroy" /\ reqs'[j].src = reqs[k].src
    <3>1. CASE reqs[k].src = held_source
      BY <1>4, <1>5, <2>1, <3>1 DEF ReqsGrow
    <3>2. CASE reqs[k].src # held_source
      BY <1>4, <2>1, <3>2 DEF ReqsGrow, SetHeld
    <3> QED BY <3>1, <3>2
  <2> QED BY <1>1, <1>4, <2>1 DEF SetHeld, ReqsGrow
<1>7. HeldServesSelection'
  <2>1. UNCHANGED sel
    BY <1>1 DEF IpcUnchanged
  <2>2. sel' \in Own' => sel \in Own /\ sel # None
    BY <1>2, <2>1, DaemonAssumption DEF Own, TypeOK
  <2>3. CASE sel = held_source /\ sel \in Own /\ sel # None
    BY <1>4, <2>1, <2>3 DEF HeldServesSelection, BeingDestroyed
  <2>4. CASE sel # held_source /\ sel \in Own
    BY <1>4, <2>1, <2>4 DEF HeldServesSelection, BeingDestroyed, Holding, ReqsGrow
  <2>5. CASE sel' \notin Own'
    BY <2>5 DEF HeldServesSelection
  <2> QED BY <2>2, <2>3, <2>4, <2>5
<1>8. ServedRight'
  BY <1>1, <1>2 DEF ServedRight, IpcUnchanged, TypeOK
<1> QED BY <1>3, <1>6, <1>7, <1>8

LEMMA HeldStep ==
  ASSUME DaemonInv, [Next]_vars
  PROVE  HeldIs' /\ SetHeld' /\ HeldServesSelection' /\ ServedRight'
<1>1. CASE AppClear
  <2>1. UNCHANGED <<data, reqs, heldVars, served>> /\ sel' = None
    BY <1>1 DEF AppClear, daemonVars
  <2>2. sel' \notin Own'
    BY <2>1, DaemonAssumption DEF Own, DaemonInv, TypeOK
  <2> QED
    BY <2>1, <2>2
    DEF DaemonInv, HeldIs, SetHeld, HeldServesSelection, ServedRight, heldVars
<1>2. CASE Aside
  BY <1>2, AsideKeeps, HeldAside DEF DaemonInv
<1>3. CASE UNCHANGED vars
  BY <1>3, HeldAside DEF DaemonInv, vars, wlVars, daemonVars
<1> QED BY <1>1, <1>2, <1>3, NextCases, HeldNew, HeldHandled, HeldEvents, HeldReceive, HeldHold

-----------------------------------------------------------------------------
(* What is queued names what exists.                                       *)
LEMMA DataKept ==
  ASSUME TypeOK, [Next]_vars
  PROVE  /\ DOMAIN data \subseteq DOMAIN data'
         /\ \A s \in DOMAIN data : data'[s] = data[s]
         /\ \A s \in DOMAIN data : s \in Own' <=> s \in Own
<1>1. UNCHANGED data \/ \E s \in Unused : \E p : NewSource(s, p)
  <2>1. CASE NewOffer
    BY <2>1 DEF NewOffer, AppCopy, AppPrimary
  <2>2. CASE Hold
    BY <2>2, Holding1
  <2>3. CASE Aside
    BY <2>3, AsideKeeps
  <2>4. CASE ~(NewOffer \/ Hold \/ Aside)
    BY <2>4, NextCases
    DEF AppClear, CompositorReceive, CompositorSet, CompositorDestroy, OnSend, OnCancelled,
        TakePending, NextExtra, vars, wlVars
  <2> QED BY <2>1, <2>2, <2>3, <2>4
<1> QED BY <1>1, DataGrows DEF Own

NoNewDone ==
  EventsGrow /\ \A k \in DOMAIN events' \ DOMAIN events : events'[k].t # "done"

Made(e) ==
  e.t \in {"offer", "selection", "cancelled", "send"} => e.src \in DOMAIN data'

LEMMA EventsMade ==
  ASSUME TypeOK, SourcesMade, DOMAIN data \subseteq DOMAIN data',
         EventsShift \/ (EventsGrow /\ \A k \in DOMAIN events' \ DOMAIN events : Made(events'[k]))
  PROVE  \A k \in DOMAIN events' : Made(events'[k])
BY DEF SourcesMade, EventsShift, EventsGrow, Made

LEMMA EventsStep ==
  ASSUME DaemonInv, [Next]_vars
  PROVE  /\ \A k \in DOMAIN events' : Made(events'[k])
         /\ EventsShift \/ NoNewDone \/ CompositorReceive
<1> USE DEF DaemonInv
<1>0. DOMAIN data \subseteq DOMAIN data'
  BY DataKept
<1> DEFINE Goal == /\ \A k \in DOMAIN events' : Made(events'[k])
                   /\ EventsShift \/ NoNewDone \/ CompositorReceive
<1>1. CASE UNCHANGED events
  BY <1>0, <1>1, EventsMade DEF EventsGrow, NoNewDone
<1>2. ASSUME NEW s \in DOMAIN data', s \in Source, events' = Announced(s)
      PROVE  Goal
  <2>1. EventsGrow /\ \A k \in DOMAIN events' \ DOMAIN events :
                        events'[k].t \in {"cancelled", "offer", "selection"} /\ Made(events'[k])
    BY <1>0, <1>2, Announcing DEF Made
  <2> QED BY <1>0, <2>1, EventsMade DEF NoNewDone
<1>3. ASSUME NEW e \in Event, events' = Append(events, e), Made(e),
             e.t # "done" \/ CompositorReceive
      PROVE  Goal
  <2>1. EventsGrow /\ \A k \in DOMAIN events' \ DOMAIN events : events'[k] = e
    BY <1>3, Adding
  <2> QED BY <1>0, <1>3, <2>1, EventsMade DEF NoNewDone
<1>4. CASE Dispatching /\ Consume
  BY <1>0, <1>4, Dispatched, EventsMade
<1>5. ASSUME NEW s \in Unused, NEW c \in Copy, AppPrimary(s, c)
      PROVE  Goal
  <2>1. NewSource(s, c)
    BY <1>5 DEF AppPrimary
  <2>2. s \in DOMAIN data' /\ s \in Source
    BY <2>1, DataGrows
  <2> DEFINE offer == [t |-> "offer", src |-> s]
             ignored == [t |-> "ignored"]
  <2>3. /\ offer \in Event /\ ignored \in Event
        /\ offer.t = "offer" /\ offer.src = s /\ ignored.t = "ignored"
    BY <2>2 DEF Event
  <2>4. events' = events \o <<offer, ignored>>
    BY <1>5 DEF AppPrimary
  <2> HIDE DEF offer, ignored
  <2> DEFINE more == <<offer, ignored>>
  <2>5. /\ more \in Seq(Event) /\ Len(more) = 2
        /\ \A i \in 1..2 : more[i] \in {offer, ignored}
    BY <2>3
  <2>6. events' = events \o more
    BY <2>4
  <2> HIDE DEF more
  <2>7. events \in Seq(Event) /\ Len(events) \in Nat /\ DOMAIN events = 1..Len(events)
    BY Types
  <2>8. /\ events \o more \in Seq(Event) /\ Len(events \o more) = Len(events) + Len(more)
        /\ \A i \in 1..Len(events) + Len(more) : (events \o more)[i] =
             IF i <= Len(events) THEN events[i] ELSE more[i - Len(events)]
    BY <2>5, <2>7, ConcatProperties
  <2>9. /\ DOMAIN events' = 1..(Len(events) + 2)
        /\ \A i \in 1..(Len(events) + 2) : events'[i] =
             IF i <= Len(events) THEN events[i] ELSE more[i - Len(events)]
    BY <2>5, <2>6, <2>8, LenProperties
  <2>10. EventsGrow
    BY <2>7, <2>9 DEF EventsGrow
  <2>11. ASSUME NEW k \in DOMAIN events' \ DOMAIN events
         PROVE  events'[k] \in {offer, ignored}
    <3>1. k - Len(events) \in 1..2 /\ ~(k <= Len(events)) /\ k \in 1..(Len(events) + 2)
      BY <2>7, <2>9
    <3> QED BY <2>5, <2>9, <3>1
  <2>12. \A k \in DOMAIN events' \ DOMAIN events :
           Made(events'[k]) /\ events'[k].t # "done"
    BY <2>2, <2>3, <2>11 DEF Made
  <2> QED BY <1>0, <2>10, <2>12, EventsMade DEF NoNewDone
<1>6. CASE NewOffer
  <2>1. PICK s \in Unused, c \in Copy : AppCopy(s, c) \/ AppPrimary(s, c)
    BY <1>6 DEF NewOffer
  <2>2. CASE AppCopy(s, c)
    <3>1. NewSource(s, c) /\ events' = Announced(s)
      BY <2>2 DEF AppCopy, Announced
    <3>2. s \in DOMAIN data' /\ s \in Source
      BY <3>1, DataGrows
    <3> QED BY <1>2, <3>1, <3>2
  <2> QED BY <1>5, <2>1, <2>2
<1>7. [t |-> "ignored"] \in Event /\ [t |-> "done"] \in Event
  BY DEF Event
<1>8. CASE AppClear \/ CompositorDestroy
  BY <1>1, <1>3, <1>7, <1>8 DEF AppClear, CompositorDestroy, Made
<1>9. CASE CompositorReceive
  BY <1>3, <1>7, <1>9 DEF CompositorReceive, Made
<1>10. CASE CompositorSet
  <2>1. Head(reqs).src \in DOMAIN data
    BY <1>10, Handled DEF CompositorSet, SourcesMade
  <2>2. events' = Announced(Head(reqs).src)
    BY <1>10 DEF CompositorSet, Announced
  <2>3. PICK s : s = Head(reqs).src
    OBVIOUS
  <2>4. s \in DOMAIN data' /\ s \in Source /\ events' = Announced(s)
    BY <1>0, <2>1, <2>2, <2>3 DEF TypeOK
  <2> QED BY <1>2, <2>4
<1>11. ASSUME NEW m \in Mime \cup {SELF_MIME}, AppPaste(m)
       PROVE  Goal
  <2>1. /\ [t |-> "send", src |-> sel, mime |-> m] \in Event /\ sel \in DOMAIN data
        /\ events' = Append(events, [t |-> "send", src |-> sel, mime |-> m])
    BY <1>11 DEF AppPaste, Own, TypeOK, Event
  <2>2. PICK e \in Event : e = [t |-> "send", src |-> sel, mime |-> m]
    BY <2>1
  <2>3. e.t = "send" /\ e.src = sel
    BY <2>2
  <2>4. Made(e)
    BY <1>0, <2>1, <2>3 DEF Made
  <2> QED BY <1>3, <2>1, <2>2, <2>3, <2>4
<1>12. CASE Aside
  <2>1. \/ UNCHANGED events \/ (Dispatching /\ Consume)
        \/ \E m \in Mime \cup {SELF_MIME} : AppPaste(m)
    BY <1>12
    DEF Aside, ClientRequest, ImportEntry, OnOffer, OnSelection, OnIgnored, OnDone,
        Handling, NothingPending, RoundtripRead, PrimaryRejected, AllDrained, RecordJob,
        FinishJob, Poll, RequestRefused, IpcDrained, wlVars, IpcUnchanged
  <2> QED BY <1>1, <1>4, <1>11, <2>1
<1>13. CASE OnSend \/ OnCancelled
  BY <1>4, <1>13 DEF OnSend, OnCancelled, Handling
<1>14. CASE TakePending \/ (\E m \in job.todo : NextExtra(m)) \/ Hold \/ UNCHANGED vars
  <2>1. Hold => UNCHANGED events
    BY Holding1 DEF IpcUnchanged
  <2> QED BY <1>1, <1>14, <2>1 DEF TakePending, NextExtra, vars, wlVars
<1> QED BY <1>6, <1>8, <1>9, <1>10, <1>12, <1>13, <1>14, NextCases

(* The requests: old ones but the one handled, and no receive is added     *)
(* except by process_offer.                                                *)
Receiving == TakePending \/ \E m \in job.todo : NextExtra(m)

ReqsNoReceive ==
  ReqsGrow /\ \A k \in DOMAIN reqs' \ DOMAIN reqs : reqs'[k].t # "receive"

LEMMA ReqsStep ==
  ASSUME DaemonInv, [Next]_vars
  PROVE  /\ \A k \in DOMAIN reqs' : reqs'[k].src \in DOMAIN data'
         /\ Receiving \/ ReqsNoReceive \/ ReqsShift
<1> USE DEF DaemonInv
<1>0. DOMAIN data \subseteq DOMAIN data' /\ \A k \in DOMAIN reqs : reqs[k].src \in DOMAIN data
  BY DataKept DEF SourcesMade
<1> DEFINE Goal == /\ \A k \in DOMAIN reqs' : reqs'[k].src \in DOMAIN data'
                   /\ Receiving \/ ReqsNoReceive \/ ReqsShift
<1>1. CASE UNCHANGED reqs
  <2>1. ReqsNoReceive
    BY <1>1 DEF ReqsNoReceive, ReqsGrow
  <2> QED BY <1>0, <1>1, <2>1
<1>2. ASSUME NEW r \in Req, reqs' = Append(reqs, r), r.src \in DOMAIN data,
             r.t # "receive" \/ Receiving
      PROVE  Goal
  <2>1. ReqsGrow /\ \A k \in DOMAIN reqs' \ DOMAIN reqs : reqs'[k] = r
    BY <1>2, Requesting
  <2> QED BY <1>0, <1>2, <2>1 DEF ReqsNoReceive, ReqsGrow
<1>3. CASE reqs # <<>> /\ reqs' = Tail(reqs)
  <2>1. ReqsShift
    BY <1>3, Handled
  <2> QED BY <1>0, <2>1 DEF ReqsShift
<1>4. CASE OnCancelled
  <2>1. CASE UNCHANGED reqs
    BY <1>1, <2>1
  <2>2. CASE ~UNCHANGED reqs
    <3>1. /\ held_source = Head(events).src
          /\ reqs' = Append(reqs, [t |-> "destroy", src |-> held_source])
      BY <1>4, <2>2 DEF OnCancelled
    <3>2. held_source \in DOMAIN data
      <4>1. Head(events) = events[1] /\ 1 \in DOMAIN events /\ Head(events).t = "cancelled"
        BY <1>4, Dispatched DEF OnCancelled, Handling
      <4> QED BY <3>1, <4>1 DEF SourcesMade
    <3>3. PICK r \in Req : r = [t |-> "destroy", src |-> held_source]
      BY <3>2 DEF Req, TypeOK
    <3>4. r.t = "destroy" /\ r.src = held_source
      BY <3>3
    <3> QED BY <1>2, <3>1, <3>2, <3>3, <3>4
  <2> QED BY <2>1, <2>2
<1>5. CASE Hold
  <2>1. PICK s \in Unused : reqs' = Holds(s) /\ \E p : NewSource(s, p)
    BY <1>5, Holding1
  <2>2. s \in Source /\ s \in DOMAIN data'
    BY <2>1, DataGrows
  <2>3. /\ ReqsGrow
        /\ \A k \in DOMAIN reqs' \ DOMAIN reqs :
             reqs'[k].t # "receive" /\ reqs'[k].src \in DOMAIN data'
    BY <1>0, <2>1, <2>2, Reholding
  <2> QED BY <1>0, <2>3 DEF ReqsNoReceive, ReqsGrow
<1>6. ASSUME NEW s \in DOMAIN data, NEW m \in Mime, Receiving,
             reqs' = Append(reqs, [t |-> "receive", src |-> s, mime |-> m])
      PROVE  Goal
  <2>1. PICK r \in Req : r = [t |-> "receive", src |-> s, mime |-> m]
    BY DEF Req, TypeOK
  <2>2. r.src = s
    BY <2>1
  <2> QED BY <1>2, <1>6, <2>1, <2>2
<1>7. CASE TakePending
  BY <1>1, <1>6, <1>7, Taking DEF Receiving
<1>8. ASSUME NEW m \in job.todo, NextExtra(m)
      PROVE  Goal
  <2>1. job.src \in DOMAIN data /\ m \in Mime
    BY <1>8 DEF NextExtra, Received, JobTyped, TypeOK
  <2> QED BY <1>6, <1>8, <2>1 DEF NextExtra, SendReceive, Receiving
<1>9. CASE CompositorReceive \/ CompositorSet \/ CompositorDestroy
  BY <1>3, <1>9 DEF CompositorReceive, CompositorSet, CompositorDestroy
<1>10. CASE NewOffer \/ AppClear \/ Aside \/ OnSend \/ UNCHANGED vars
  <2>1. UNCHANGED reqs
    BY <1>10, AsideKeeps DEF NewOffer, AppCopy, AppPrimary, AppClear, OnSend, vars, wlVars
  <2> QED BY <1>1, <2>1
<1> QED BY <1>4, <1>5, <1>7, <1>8, <1>9, <1>10, NextCases

-----------------------------------------------------------------------------
(* While a roundtrip waits only OnDone ends it, and nothing else touches   *)
(* the job, or the pipe but the compositor.                                *)
LEMMA ReadingKept ==
  ASSUME [Next]_vars, Reading, ~OnDone
  PROVE  Reading' /\ UNCHANGED job /\ ~Receiving /\ (CompositorReceive \/ UNCHANGED pipe)
<1>1. pc = "roundtrip" /\ ~done
  BY DEF Reading
<1>2. ~Receiving /\ ~Hold
  BY <1>1
  DEF Receiving, TakePending, NextExtra, Received, Hold, Activate, SetSelection, TakeRequest
<1>3. CASE Aside
  <2>1. UNCHANGED <<pc, done, job>>
    BY <1>1, <1>3
    DEF Aside, AppPaste, ClientRequest, ImportEntry, OnOffer, OnSelection, OnIgnored,
        NothingPending, RoundtripRead, PrimaryRejected, AllDrained, RecordJob, FinishJob,
        Poll, RequestRefused, IpcDrained, Received, TakeRequest, wlVars, daemonVars
  <2>2. Reading'
    BY <1>1, <2>1 DEF Reading
  <2> QED BY <1>2, <1>3, <2>1, <2>2, AsideKeeps
<1>4. CASE NewOffer \/ AppClear \/ CompositorReceive \/ CompositorSet \/ CompositorDestroy
           \/ OnSend \/ OnCancelled \/ UNCHANGED vars
  <2>1. UNCHANGED <<pc, done, job>> /\ (CompositorReceive \/ UNCHANGED pipe)
    BY <1>1, <1>4
    DEF NewOffer, AppCopy, AppPrimary, AppClear, CompositorReceive, CompositorSet,
        CompositorDestroy, OnSend, OnCancelled, vars, wlVars, daemonVars
  <2>2. Reading'
    BY <1>1, <2>1 DEF Reading
  <2> QED BY <1>2, <2>1, <2>2
<1> QED BY <1>2, <1>3, <1>4, NextCases DEF Receiving

(* A roundtrip that is over stays over until the next receive.             *)
LEMMA ReadKept ==
  ASSUME [Next]_vars, pc' = "roundtrip", done', ~OnDone
  PROVE  pc = "roundtrip" /\ done /\ UNCHANGED job /\ (CompositorReceive \/ UNCHANGED pipe)
<1>1. CASE Receiving
  BY <1>1 DEF Receiving, TakePending, NextExtra
<1>2. CASE Hold
  BY <1>2 DEF Hold, Activate, SetSelection, TakeRequest, IpcUnchanged
<1>3. CASE Aside
  BY <1>3
  DEF Aside, AppPaste, ClientRequest, ImportEntry, OnOffer, OnSelection, OnIgnored,
      NothingPending, RoundtripRead, PrimaryRejected, AllDrained, RecordJob, FinishJob, Poll,
      RequestRefused, IpcDrained, Received, TakeRequest, IpcUnchanged, wlVars, daemonVars
<1>4. CASE NewOffer \/ AppClear \/ CompositorReceive \/ CompositorSet \/ CompositorDestroy
           \/ OnSend \/ OnCancelled \/ UNCHANGED vars
  BY <1>4
  DEF NewOffer, AppCopy, AppPrimary, AppClear, CompositorReceive, CompositorSet,
      CompositorDestroy, OnSend, OnCancelled, vars, wlVars, daemonVars
<1> QED BY <1>1, <1>2, <1>3, <1>4, NextCases DEF Receiving

LEMMA OneReceiveStep == ASSUME DaemonInv, [Next]_vars PROVE OneReceive'
<1> USE DEF DaemonInv
<1>1. CASE Receiving
  <2>1. \A k \in DOMAIN reqs : reqs[k].t # "receive"
    BY <1>1 DEF Receiving, TakePending, NextExtra, Received, OneReceive, Reading
  <2>2. \A k \in DOMAIN events' : events'[k].t # "done"
    BY <1>1 DEF Receiving, TakePending, NextExtra, Received, OneDone, Reading
  <2>3. CASE UNCHANGED reqs
    BY <2>1, <2>3 DEF OneReceive
  <2>4. ASSUME NEW s \in DOMAIN data, NEW m \in Mime, Reading',
               job'.src = s, job'.want = m,
               reqs' = Append(reqs, [t |-> "receive", src |-> s, mime |-> m])
        PROVE  OneReceive'
    <3>1. PICK r \in Req : r = [t |-> "receive", src |-> s, mime |-> m]
      BY DEF Req, TypeOK
    <3>2. r.src = s /\ r.mime = m
      BY <3>1
    <3>3. /\ \A k \in DOMAIN reqs : reqs'[k] = reqs[k]
          /\ \A k \in DOMAIN reqs' \ DOMAIN reqs : reqs'[k] = r
          /\ \A j, k \in DOMAIN reqs' \ DOMAIN reqs : j = k
      BY <2>4, <3>1, Requesting DEF ReqsGrow
    <3> QED BY <2>1, <2>2, <2>4, <3>2, <3>3 DEF OneReceive
  <2>5. CASE TakePending
    <3>1. CASE UNCHANGED reqs
      BY <2>3, <3>1
    <3>2. CASE ~UNCHANGED reqs
      <4>1. PICK m \in Mime, ms \in SUBSET Mime :
              /\ pc' = "roundtrip" /\ done' = FALSE
              /\ job' = [src |-> pending, primary |-> m, want |-> m, todo |-> ms, got |-> {}]
              /\ reqs' = Append(reqs, [t |-> "receive", src |-> pending, mime |-> m])
        BY <2>5, <3>2, Taking
      <4>2. Reading' /\ job'.src = pending /\ job'.want = m /\ pending \in DOMAIN data
        BY <2>5, <4>1, Taking DEF Reading
      <4> QED BY <2>4, <4>1, <4>2
    <3> QED BY <3>1, <3>2
  <2>6. ASSUME NEW m \in job.todo, NextExtra(m)
        PROVE  OneReceive'
    <3>1. job.src \in DOMAIN data /\ m \in Mime
      BY <2>6 DEF NextExtra, Received, JobTyped, TypeOK
    <3>2. job'.src = job.src /\ job'.want = m /\ Reading'
      BY <2>6 DEF NextExtra, Received, Reading, TypeOK
    <3> QED BY <2>4, <2>6, <3>1, <3>2 DEF NextExtra, SendReceive
  <2> QED BY <1>1, <2>5, <2>6 DEF Receiving
<1>2. CASE ~Receiving
  <2> SUFFICES ASSUME NEW k \in DOMAIN reqs', reqs'[k].t = "receive"
               PROVE  /\ Reading' /\ reqs'[k].src = job'.src /\ reqs'[k].mime = job'.want
                      /\ \A j \in DOMAIN reqs' : reqs'[j].t = "receive" => j = k
                      /\ \A j \in DOMAIN events' : events'[j].t # "done"
    BY DEF OneReceive
  <2>1. \E i \in DOMAIN reqs : reqs[i] = reqs'[k] /\ reqs[i].t = "receive"
    BY <1>2, ReqsStep DEF ReqsNoReceive, ReqsGrow, ReqsShift
  <2>2. Reading /\ \A j \in DOMAIN events : events[j].t # "done"
    BY <2>1 DEF OneReceive
  <2>3. ~OnDone
    BY <2>2, Dispatched DEF OnDone, Handling
  <2>4. Reading' /\ UNCHANGED job
    BY <2>2, <2>3, ReadingKept
  <2>5. \A j \in DOMAIN reqs' : reqs'[j].t = "receive" => j = k
    <3>1. CASE ReqsNoReceive
      BY <3>1 DEF ReqsNoReceive, ReqsGrow, OneReceive
    <3>2. CASE ReqsShift
      <4>1. ASSUME NEW j \in DOMAIN reqs', reqs'[j].t = "receive" PROVE j = k
        <5>1. j + 1 = k + 1 /\ j \in Nat /\ k \in Nat
          BY <3>2, <4>1 DEF ReqsShift, OneReceive
        <5> QED BY <5>1
      <4> QED BY <4>1
    <3> QED BY <1>2, <3>1, <3>2, ReqsStep
  <2>6. ~CompositorReceive
    <3>1. SUFFICES ASSUME CompositorReceive PROVE FALSE
      OBVIOUS
    <3>2. /\ reqs[1].t = "receive" /\ 1 \in DOMAIN reqs
          /\ \A j \in DOMAIN reqs' : j + 1 \in DOMAIN reqs /\ reqs'[j] = reqs[j + 1] /\ j \in Nat \ {0}
      BY <3>1, Handled DEF CompositorReceive, ReqsShift
    <3>3. k + 1 = 1 /\ k \in Nat \ {0}
      BY <3>2 DEF OneReceive
    <3> QED BY <3>3
  <2>7. \A j \in DOMAIN events' : events'[j].t # "done"
    BY <2>2, <2>6, EventsStep DEF EventsShift, NoNewDone, EventsGrow
  <2> QED BY <2>1, <2>4, <2>5, <2>7 DEF OneReceive
<1> QED BY <1>1, <1>2

LEMMA OneDoneStep == ASSUME DaemonInv, [Next]_vars PROVE OneDone'
<1> USE DEF DaemonInv
<1>1. CASE CompositorReceive
  <2>1. /\ reqs[1].t = "receive" /\ 1 \in DOMAIN reqs /\ Head(reqs) = reqs[1]
    BY <1>1, Handled DEF CompositorReceive
  <2>2. /\ Reading /\ reqs[1].src = job.src /\ reqs[1].mime = job.want
        /\ \A j \in DOMAIN events : events[j].t # "done"
    BY <2>1 DEF OneReceive
  <2>3. PICK e \in Event : e = [t |-> "done"]
    BY DEF Event
  <2>4. /\ \A k \in DOMAIN events : events'[k] = events[k]
        /\ \A j, k \in DOMAIN events' \ DOMAIN events : j = k
    BY <1>1, <2>3, Adding DEF CompositorReceive, EventsGrow
  <2>5. Reading' /\ UNCHANGED <<job, data>>
    BY <1>1, <2>2 DEF CompositorReceive, Reading, daemonVars
  <2>6. pipe' = IF sel = job.src /\ job.want \in DOMAIN data[job.src]
                  THEN data[job.src][job.want] ELSE Empty
    BY <1>1, <2>1, <2>2 DEF CompositorReceive
  <2>7. PipeRight'
    BY <2>5, <2>6, DaemonAssumption DEF PipeRight
  <2> QED BY <2>2, <2>4, <2>5, <2>7 DEF OneDone
<1>2. CASE ~CompositorReceive
  <2> SUFFICES ASSUME NEW k \in DOMAIN events', events'[k].t = "done"
               PROVE  /\ Reading' /\ PipeRight'
                      /\ \A j \in DOMAIN events' : events'[j].t = "done" => j = k
    BY DEF OneDone
  <2>1. EventsShift \/ NoNewDone
    BY <1>2, EventsStep
  <2>2. \E i \in DOMAIN events : events[i] = events'[k] /\ events[i].t = "done"
    BY <2>1 DEF NoNewDone, EventsGrow, EventsShift
  <2>3. Reading /\ PipeRight
    BY <2>2 DEF OneDone
  <2>4. ~OnDone
    <3> SUFFICES ASSUME OnDone PROVE FALSE
      OBVIOUS
    <3>1. /\ EventsShift /\ events[1].t = "done" /\ 1 \in DOMAIN events
          /\ k \in Nat \ {0}
      BY Dispatched DEF OnDone, Handling
    <3>2. k + 1 = 1
      BY <3>1 DEF EventsShift, OneDone
    <3> QED BY <3>1, <3>2
  <2>5. Reading' /\ UNCHANGED <<job, pipe>>
    BY <1>2, <2>3, <2>4, ReadingKept
  <2>6. job.src \in DOMAIN data
    BY <2>3 DEF Reading, JobTyped
  <2>7. data'[job.src] = data[job.src]
    BY <2>6, DataKept
  <2>8. PipeRight'
    BY <2>3, <2>5, <2>7 DEF PipeRight
  <2>9. \A j \in DOMAIN events' : events'[j].t = "done" => j = k
    BY <2>1 DEF NoNewDone, EventsGrow, EventsShift, OneDone
  <2> QED BY <2>5, <2>8, <2>9
<1> QED BY <1>1, <1>2

LEMMA PipeReadStep == ASSUME DaemonInv, [Next]_vars PROVE PipeRead'
<1> USE DEF DaemonInv
<1> SUFFICES ASSUME pc' = "roundtrip", done' PROVE PipeRight'
  BY DEF PipeRead
<1>1. PipeRight /\ UNCHANGED <<job, pipe>> /\ pc = "roundtrip"
  <2>1. CASE OnDone
    <3>1. events[1].t = "done" /\ 1 \in DOMAIN events
      BY <2>1, Dispatched DEF OnDone, Handling
    <3>2. PipeRight
      BY <3>1 DEF OneDone
    <3> QED BY <2>1, <3>2 DEF OnDone
  <2>2. CASE ~OnDone
    <3>1. pc = "roundtrip" /\ done /\ UNCHANGED job /\ (CompositorReceive \/ UNCHANGED pipe)
      BY <2>2, ReadKept
    <3>2. ~CompositorReceive
      <4> SUFFICES ASSUME CompositorReceive PROVE FALSE
        OBVIOUS
      <4>1. reqs[1].t = "receive" /\ 1 \in DOMAIN reqs
        BY Handled DEF CompositorReceive
      <4> QED BY <3>1, <4>1 DEF OneReceive, Reading
    <3> QED BY <3>1, <3>2 DEF PipeRead
  <2> QED BY <2>1, <2>2
<1>2. data'[job.src] = data[job.src]
  BY <1>1, DataKept DEF JobTyped
<1> QED BY <1>1, <1>2 DEF PipeRight

(* A job changes only when it is taken, drained or finished.               *)
LEMMA JobSteps ==
  ASSUME [Next]_vars
  PROVE  \/ UNCHANGED job /\ (pc' = "roundtrip" => pc = "roundtrip")
                          /\ (pc' = "record" => pc = "record")
         \/ TakePending \/ (\E m \in job.todo : NextExtra(m)) \/ AllDrained \/ FinishJob
<1>1. CASE Hold
  BY <1>1 DEF Hold, Activate, SetSelection, IpcUnchanged
<1>2. CASE Aside
  BY <1>2
  DEF Aside, AppPaste, ClientRequest, ImportEntry, OnOffer, OnSelection, OnIgnored, OnDone,
      NothingPending, RoundtripRead, PrimaryRejected, RecordJob, Poll,
      RequestRefused, IpcDrained, IpcUnchanged, wlVars, daemonVars
<1>3. CASE NewOffer \/ AppClear \/ CompositorReceive \/ CompositorSet \/ CompositorDestroy
           \/ OnSend \/ OnCancelled \/ UNCHANGED vars
  BY <1>3
  DEF NewOffer, AppCopy, AppPrimary, AppClear, CompositorReceive, CompositorSet,
      CompositorDestroy, OnSend, OnCancelled, vars, wlVars, daemonVars
<1> QED BY <1>1, <1>2, <1>3, NextCases

(* All a receive adds to the job was offered under the mime asked for.     *)
LEMMA DrainedRight ==
  ASSUME DaemonInv, Received, NEW p \in Drained
  PROVE  p.mime \in DOMAIN data[job.src] /\ data[job.src][p.mime] = p.bytes
<1>1. PipeRight
  BY DEF Received, DaemonInv, PipeRead
<1>2. CASE p \in job.got
  BY <1>2 DEF DaemonInv, JobFromOneOffer
<1>3. CASE p = [mime |-> job.want, bytes |-> pipe] /\ pipe \in Bytes
  BY <1>1, <1>3 DEF PipeRight
<1> QED BY <1>2, <1>3 DEF Drained

LEMMA JobStep ==
  ASSUME DaemonInv, [Next]_vars
  PROVE  JobTyped' /\ JobFromOneOffer' /\ NoSelfRead'
<1> USE DEF DaemonInv
<1>0. /\ DOMAIN data \subseteq DOMAIN data'
      /\ \A s \in DOMAIN data : data'[s] = data[s]
      /\ \A s \in DOMAIN data : s \in Own' <=> s \in Own
  BY DataKept
<1>1. CASE UNCHANGED job /\ (pc' = "roundtrip" => pc = "roundtrip")
                         /\ (pc' = "record" => pc = "record")
  BY <1>0, <1>1 DEF JobTyped, JobFromOneOffer, NoSelfRead
<1>2. CASE TakePending
  <2>1. pending \in DOMAIN data /\ UNCHANGED data
    BY <1>2, Taking
  <2>2. CASE pc' = "finish" /\ job' = [NoJob EXCEPT !.src = pending]
    BY <2>2 DEF NoJob, JobTyped, JobFromOneOffer, NoSelfRead
  <2>3. ASSUME NEW m \in Mime, NEW ms \in SUBSET Mime, pc' = "roundtrip",
               job' = [src |-> pending, primary |-> m, want |-> m, todo |-> ms, got |-> {}],
               SELF_MIME \notin DOMAIN data[pending]
        PROVE  JobTyped' /\ JobFromOneOffer' /\ NoSelfRead'
    BY <2>1, <2>3 DEF JobTyped, JobFromOneOffer, NoSelfRead, Own
  <2> QED BY <1>2, <2>2, <2>3, Taking
<1>3. ASSUME NEW m \in job.todo, NextExtra(m)
      PROVE  JobTyped' /\ JobFromOneOffer' /\ NoSelfRead'
  <2>1. /\ m \in Mime /\ UNCHANGED <<data, pc>> /\ pc = "roundtrip" /\ Received
        /\ job'.src = job.src /\ job'.primary = job.primary /\ job'.want = m
        /\ job'.got = Drained
    BY <1>3 DEF NextExtra, Received, TypeOK
  <2>2. JobTyped' /\ NoSelfRead'
    BY <2>1 DEF JobTyped, NoSelfRead, Own
  <2>3. JobFromOneOffer'
    BY <2>1, DrainedRight DEF JobFromOneOffer
  <2> QED BY <2>2, <2>3
<1>4. CASE AllDrained
  <2>1. /\ UNCHANGED data /\ pc = "roundtrip" /\ Received /\ pc' = "record"
        /\ job'.src = job.src /\ job'.primary = job.primary /\ job'.got = Drained
    BY <1>4 DEF AllDrained, Received, TypeOK, wlVars
  <2>2. JobTyped' /\ NoSelfRead'
    BY <2>1 DEF JobTyped, NoSelfRead
  <2>3. JobFromOneOffer'
    BY <2>1, DrainedRight DEF JobFromOneOffer
  <2> QED BY <2>2, <2>3
<1>5. CASE FinishJob
  BY <1>5 DEF FinishJob, NoJob, JobTyped, JobFromOneOffer, NoSelfRead
<1> QED BY <1>1, <1>2, <1>3, <1>4, <1>5, JobSteps

LEMMA SourcesMadeStep == ASSUME DaemonInv, [Next]_vars PROVE SourcesMade'
<1>1. \A k \in DOMAIN events' : Made(events'[k])
  BY EventsStep
<1>2. \A k \in DOMAIN reqs' : reqs'[k].src \in DOMAIN data'
  BY ReqsStep
<1> QED BY <1>1, <1>2 DEF SourcesMade, Made

LEMMA OffersStep == ASSUME DaemonInv, [Next]_vars PROVE OffersRight'
<1> USE DEF DaemonInv
<1>1. /\ \A s \in DOMAIN data : data'[s] = data[s]
      /\ DOMAIN offer_mimes \subseteq DOMAIN data
  BY DataKept DEF TypeOK
<1>2. CASE UNCHANGED offer_mimes
  BY <1>1, <1>2 DEF OffersRight
<1>3. CASE OnOffer
  <2>1. Head(events).src \in DOMAIN data
    BY <1>3, Dispatched DEF OnOffer, Handling, SourcesMade
  <2>2. UNCHANGED data
    BY <1>3 DEF OnOffer
  <2> QED BY <1>3, <2>1, <2>2 DEF OnOffer, OffersRight
<1>4. CASE FinishJob
  BY <1>1, <1>4 DEF FinishJob, OffersRight
<1>5. CASE ~OnOffer /\ ~FinishJob
  <2>1. Hold => UNCHANGED offer_mimes
    BY DEF Hold, Activate, SetSelection, IpcUnchanged
  <2>2. Aside => UNCHANGED offer_mimes
    BY <1>5
    DEF Aside, AppPaste, ClientRequest, ImportEntry, OnSelection, OnIgnored, OnDone,
        NothingPending, RoundtripRead, PrimaryRejected, AllDrained, RecordJob, Poll,
        RequestRefused, IpcDrained, IpcUnchanged, wlVars, daemonVars
  <2>3. CASE NewOffer \/ AppClear \/ CompositorReceive \/ CompositorSet \/ CompositorDestroy
             \/ OnSend \/ OnCancelled \/ TakePending \/ (\E m \in job.todo : NextExtra(m))
             \/ UNCHANGED vars
    BY <1>2, <2>3
    DEF NewOffer, AppCopy, AppPrimary, AppClear, CompositorReceive, CompositorSet,
        CompositorDestroy, OnSend, OnCancelled, TakePending, NextExtra, vars, wlVars, daemonVars
  <2> QED BY <1>2, <2>1, <2>2, <2>3, NextCases
<1> QED BY <1>3, <1>4, <1>5

LEMMA QueueEmptiedStep == ASSUME DaemonInv, [Next]_vars PROVE QueueEmptied'
<1> USE DEF DaemonInv
<1>1. CASE UNCHANGED <<pc, nread>>
  BY <1>1 DEF QueueEmptied
<1>2. CASE pc' = pc /\ pc \in {"dispatch", "roundtrip", "ipc"}
  BY <1>2 DEF QueueEmptied
<1>3. CASE Hold
  BY <1>1, <1>3 DEF Hold, Activate, SetSelection, IpcUnchanged
<1>4. CASE OnOffer \/ OnSelection \/ OnIgnored \/ OnDone \/ OnSend \/ OnCancelled
  <2>1. UNCHANGED pc /\ pc \in {"dispatch", "roundtrip"}
    BY <1>4
    DEF OnOffer, OnSelection, OnIgnored, OnDone, OnSend, OnCancelled, Handling, Dispatching,
        daemonVars
  <2> QED BY <1>2, <2>1
<1>5. CASE TakePending \/ (\E m \in job.todo : NextExtra(m))
  BY <1>5 DEF TakePending, NextExtra, Received, QueueEmptied
<1>6. CASE NothingPending \/ PrimaryRejected \/ AllDrained \/ FinishJob \/ RoundtripRead
           \/ Poll \/ IpcDrained
  BY <1>6
  DEF NothingPending, PrimaryRejected, AllDrained, FinishJob, RoundtripRead, Poll, IpcDrained,
      Received, QueueEmptied, wlVars, daemonVars
<1>7. ASSUME NEW ts \in Time, RecordJob(ts)
      PROVE  QueueEmptied'
  BY <1>7 DEF RecordJob, QueueEmptied, wlVars
<1>8. CASE \/ \E m \in Mime \cup {SELF_MIME} : AppPaste(m)
           \/ \E r \in Requests : ClientRequest(r)
           \/ \E b \in Bytes, ts \in Time : ImportEntry(b, ts)
           \/ RequestRefused \/ NewOffer \/ AppClear
           \/ CompositorReceive \/ CompositorSet \/ CompositorDestroy \/ UNCHANGED vars
  BY <1>1, <1>8
  DEF AppPaste, ClientRequest, ImportEntry, RequestRefused, IpcUnchanged, NewOffer, AppCopy,
      AppPrimary, AppClear, CompositorReceive, CompositorSet, CompositorDestroy, vars, wlVars,
      daemonVars
<1> QED BY <1>3, <1>4, <1>5, <1>6, <1>7, <1>8, NextCases DEF Aside

LEMMA DaemonInit == Init => DaemonInv
<1> SUFFICES ASSUME Init PROVE DaemonInv
  OBVIOUS
<1>1. /\ events = <<>> /\ reqs = <<>> /\ ipc = <<>> /\ nread = 0
      /\ DOMAIN data = {} /\ DOMAIN offer_mimes = {}
      /\ job = NoJob /\ pc = "dispatch" /\ sel = None /\ served = None
  BY DEF Init
<1>2. /\ events \in Seq(Event) /\ reqs \in Seq(Req) /\ ipc \in Seq(Requests)
      /\ Len(events) = 0 /\ DOMAIN events = {} /\ DOMAIN reqs = {}
  BY <1>1, EmptySeq
<1>3. StoreTypeOK
  BY StoreTypeInit DEF Init
<1>4. TypeOK
  <2>1. job \in [src : DOMAIN data \cup {None}, primary : Mime \cup {None},
                want : Mime \cup {None}, todo : SUBSET Mime, got : SUBSET Part]
    BY <1>1 DEF NoJob
  <2>2. nread \in 0..Len(events) /\ pipe \in Payload
    BY <1>1, <1>2 DEF Init, Payload
  <2>3. held_source = None /\ held_mime = None /\ held_content = Empty /\ pending = None
    BY DEF Init
  <2>4. done \in BOOLEAN
    BY DEF Init
  <2> QED BY <1>1, <1>2, <1>3, <2>1, <2>2, <2>3, <2>4 DEF TypeOK
<1>5. None \notin Own
  BY <1>1 DEF Own
<1> QED
  BY <1>1, <1>2, <1>4, <1>5
  DEF Init, DaemonInv, SourcesMade, JobTyped, OffersRight, NoSelfRead, QueueEmptied, HeldIs,
      SetHeld, HeldServesSelection, ServedRight, OneReceive, OneDone, PipeRead,
      JobFromOneOffer, NoJob

LEMMA DaemonStep == DaemonInv /\ [Next]_vars => DaemonInv'
<1> SUFFICES ASSUME DaemonInv, [Next]_vars PROVE DaemonInv'
  OBVIOUS
<1> QED
  BY TypeOKStep, SourcesMadeStep, JobStep, OffersStep, QueueEmptiedStep, HeldStep,
     OneReceiveStep, OneDoneStep, PipeReadStep
  DEF DaemonInv

LEMMA DaemonAlways == Spec => []DaemonInv
<1> QED BY DaemonInit, DaemonStep, PTL DEF Spec

-----------------------------------------------------------------------------
(* While a source of the daemon owns the clipboard it is the one held, or  *)
(* its destroy is on its way: a late Cancelled for an older source never   *)
(* empties the newer one (daemon.rs:591).                                  *)
THEOREM SelectionServed == Spec => []HeldServesSelection
<1>1. DaemonInv => HeldServesSelection
  BY DEF DaemonInv
<1> QED BY <1>1, DaemonAlways, PTL

(* A paste gets the content its source was made with, or a closed pipe,    *)
(* whatever replaced that source while the Send was queued.                *)
THEOREM PasteRight == Spec => []ServedRight
<1>1. DaemonInv => ServedRight
  BY DEF DaemonInv
<1> QED BY <1>1, DaemonAlways, PTL

(* The daemon never receives from an offer of its own (daemon.rs:332).     *)
THEOREM NeverReadsItself == Spec => []NoSelfRead
<1>1. DaemonInv => NoSelfRead
  BY DEF DaemonInv
<1> QED BY <1>1, DaemonAlways, PTL

(* The loop never polls with undispatched events (daemon.rs:170).          *)
THEOREM NeverPendingAtPoll == Spec => []NoPendingEventsExit
<1>1. DaemonInv => NoPendingEventsExit
  BY DEF DaemonInv, QueueEmptied, NoPendingEventsExit
<1> QED BY <1>1, DaemonAlways, PTL

(* All a job holds comes from the offer it drains, each content under its  *)
(* own mime, however often that offer is replaced while it is read.        *)
THEOREM JobOfOneOffer == Spec => []JobFromOneOffer
<1>1. DaemonInv => JobFromOneOffer
  BY DEF DaemonInv
<1> QED BY <1>1, DaemonAlways, PTL

(* The daemon and the importer implement ClipStore: each of their steps    *)
(* records, touches or prunes as one transaction, or leaves the tables     *)
(* alone.                                                                  *)
THEOREM DaemonImplementsStore == Spec => StoreSpec
<1>1. Init => StoreInit
  BY DEF Init
<1>2. DaemonInv /\ [Next]_vars => [StoreNext]_storeVars
  BY StoreSteps DEF DaemonInv
<1> QED BY <1>1, <1>2, DaemonAlways, PTL DEF Spec, StoreSpec

(* Hence the tables the launcher reads beside the daemon are sound.        *)
THEOREM DaemonStoreSound == Spec => []StoreSound
<1> QED BY DaemonImplementsStore, StoreIsSound, PTL
=============================================================================
