----------------------------- MODULE Zofi_proofs -----------------------------
(***************************************************************************)
(* The parts of zofi beside the database and the launcher: the usage       *)
(* tracker for every set of launchers and keys, the start of the clipboard *)
(* daemon for every set of processes, window capture for every set of      *)
(* windows, the text field for all characters and lengths; and all of them *)
(* side by side.                                                           *)
(***************************************************************************)
EXTENDS MCZofi, ClipStore_proofs, Launcher_proofs, TLAPS

-----------------------------------------------------------------------------
(* A count grows in the table by the activation that is recorded and by    *)
(* nothing else, since the UPSERT adds to the row and not to the map.      *)
UsageInv == UsageType /\ CountsAddUp

LEMMA UsageInitial == UsageInit => UsageInv
BY DEF UsageInit, UsageInv, UsageType, CountsAddUp, NoUse, Gone

LEMMA UsageStep == UsageInv /\ [UsageNext]_usageVars => UsageInv'
<1> SUFFICES ASSUME UsageInv, [UsageNext]_usageVars PROVE UsageInv'
  OBVIOUS
<1> USE DEF UsageInv
<1>0. NoUse \in [Key -> Nat] /\ Gone \in [db : {"none", "disk", "memory"}, map : [Key -> Nat]]
      /\ Gone.map = NoUse
  BY DEF NoUse, Gone
<1>1. CASE UNCHANGED usageVars
  BY <1>1 DEF usageVars, UsageType, CountsAddUp
<1>2. ASSUME NEW t \in Tracker, OpenTracker(t)
      PROVE  UsageInv'
  <2>1. PICK new \in {[db |-> "disk", map |-> usage], [db |-> "memory", map |-> NoUse]} :
             trackers' = [trackers EXCEPT ![t] = new]
    BY <1>2 DEF OpenTracker
  <2>2. /\ new \in [db : {"none", "disk", "memory"}, map : [Key -> Nat]]
        /\ new.map \in {usage, NoUse}
    BY <1>0, <2>1 DEF UsageType
  <2>3. \A k \in Key : new.map[k] <= uses[k]
    BY <2>2 DEF CountsAddUp, UsageType, NoUse
  <2> QED BY <1>2, <2>1, <2>2, <2>3 DEF OpenTracker, UsageType, CountsAddUp
<1>3. ASSUME NEW t \in Tracker, trackers' = [trackers EXCEPT ![t] = Gone],
             usage' \in [Key -> Nat], uses' = usage',
             \A k \in Key : uses'[k] >= uses[k]
      PROVE  UsageInv'
  <2>1. UsageType'
    BY <1>0, <1>3 DEF UsageType
  <2>2. ASSUME NEW r \in Tracker, NEW k \in Key PROVE trackers'[r].map[k] <= uses'[k]
    <3>1. CASE r = t
      BY <1>0, <1>3, <3>1 DEF UsageType, NoUse
    <3>2. CASE r # t
      <4>1. trackers'[r] = trackers[r] /\ trackers[r].map \in [Key -> Nat]
        BY <1>3, <3>2 DEF UsageType
      <4>2. trackers[r].map[k] <= uses[k] /\ trackers[r].map[k] \in Nat
        BY <4>1 DEF CountsAddUp
      <4> QED BY <1>3, <4>1, <4>2 DEF UsageType
    <3> QED BY <3>1, <3>2
  <2> QED BY <1>3, <2>1, <2>2 DEF CountsAddUp
<1>4. usage \in [Key -> Nat] /\ uses = usage /\ \A k \in Key : uses[k] \in Nat
  BY DEF UsageType, CountsAddUp
<1>5. ASSUME NEW t \in Tracker, CloseTracker(t)
      PROVE  UsageInv'
  <2>1. trackers' = [trackers EXCEPT ![t] = Gone] /\ UNCHANGED <<usage, uses>>
    BY <1>5 DEF CloseTracker
  <2>2. usage' \in [Key -> Nat] /\ uses' = usage' /\ \A k \in Key : uses'[k] >= uses[k]
    BY <1>4, <2>1
  <2> QED BY <1>3, <2>1, <2>2
<1>6. ASSUME NEW t \in Tracker, NEW k \in Key, CountUse(t, k)
      PROVE  UsageInv'
  <2>1. trackers' = [trackers EXCEPT ![t] = Gone]
    BY <1>6 DEF CountUse
  <2>2. \/ UNCHANGED <<usage, uses>>
        \/ usage' = [usage EXCEPT ![k] = @ + 1] /\ uses' = [uses EXCEPT ![k] = @ + 1]
    BY <1>6 DEF CountUse, Upsert
  <2>3. usage' \in [Key -> Nat] /\ uses' = usage' /\ \A x \in Key : uses'[x] >= uses[x]
    BY <1>4, <2>2
  <2> QED BY <1>3, <2>1, <2>3
<1> QED BY <1>1, <1>2, <1>5, <1>6 DEF UsageNext

(* However many launchers run side by side, the table counts every         *)
(* activation that was recorded (usage.rs:138).                            *)
THEOREM UsesAddUp == UsageSpec => []CountsAddUp
<1>1. UsageInv => CountsAddUp
  BY DEF UsageInv
<1> QED BY <1>1, UsageInitial, UsageStep, PTL DEF UsageSpec

-----------------------------------------------------------------------------
(* The lock has one holder, and only it goes past "locked"; the pid and the *)
(* socket are its own from the moment it has written them.                 *)
Held == {"locked", "truncated", "written", "unlinked", "ready"}

StartInv ==
  /\ StartType
  /\ \A p \in Pid : procs[p] \in Held <=> lock = p
  /\ \A p \in Pid : procs[p] \in {"written", "unlinked", "ready"} => pidfile = p
  /\ \A p \in Pid : procs[p] = "ready" => sock = p

LEMMA StartInitial == StartInit => StartInv
BY StartAssumption DEF StartInit, StartInv, StartType, Held

LEMMA StartStep == StartInv /\ [StartNext]_startVars => StartInv'
<1> SUFFICES ASSUME StartInv, [StartNext]_startVars PROVE StartInv'
  OBVIOUS
<1> USE StartAssumption DEF StartInv, StartType, Daemon, Held
<1>1. CASE UNCHANGED startVars
  BY <1>1 DEF startVars
<1>2. ASSUME NEW l \in Asking, Load(l)
      PROVE  StartInv'
  BY <1>2 DEF Load, Goes
<1>3. ASSUME NEW l \in Asking, Waits(l) \/ Quits(l)
      PROVE  StartInv'
  BY <1>3 DEF Waits, Quits
<1>4. ASSUME NEW p \in Pid, OpensPidfile(p) \/ OtherStarts(p)
      PROVE  StartInv'
  BY <1>4 DEF OpensPidfile, OtherStarts, Goes
<1>5. ASSUME NEW p \in Pid, Locks(p)
      PROVE  StartInv'
  BY <1>5 DEF Locks, Goes
<1>6. ASSUME NEW p \in Pid, TruncatesPidfile(p) \/ WritesPid(p)
      PROVE  StartInv'
  BY <1>6 DEF TruncatesPidfile, WritesPid, Goes
<1>7. ASSUME NEW p \in Pid, UnlinksSocket(p) \/ Binds(p)
      PROVE  StartInv'
  BY <1>7 DEF UnlinksSocket, Binds, Goes
<1>8. ASSUME NEW p \in Pid, Ends(p)
      PROVE  StartInv'
  BY <1>8 DEF Ends
<1> QED BY <1>1, <1>2, <1>3, <1>4, <1>5, <1>6, <1>7, <1>8 DEF StartNext

(* Whatever launchers race and wherever daemons die, the one that listens  *)
(* has the lock, the pid file and the socket (pidfile.rs:32).              *)
THEOREM OneDaemonListens == StartSpec => []SocketIsHolders
<1>1. StartInv => SocketIsHolders
  BY DEF StartInv, SocketIsHolders, Held
<1> QED BY <1>1, StartInitial, StartStep, PTL DEF StartSpec

-----------------------------------------------------------------------------
(* What is alive of the window being captured, by where the call is; all   *)
(* else is a handle, or what a failed buffer left behind.                  *)
Alive ==
  IF capturing \in {"session", "session blocked", "stopped", "constrained"}
    THEN {"source", "session"}
  ELSE IF capturing \in {"frame", "frame blocked", "captured"}
    THEN {"source", "session", "buffer", "frame"}
  ELSE {}

Accounted(o) ==
  \/ o[1] = "handle" /\ o[2] \in dropped.handles
  \/ o[1] = "handle" /\ capturing # "returned" /\ o[2] \in listed
  \/ o[1] \in {"source", "session"} /\ o[2] \in dropped.shm
  \/ o[1] \in Alive /\ o[2] = current

CaptureInv ==
  /\ CaptureType
  /\ listed \subseteq Window /\ (Alive # {} => current \in listed)
  /\ dropped \in [handles : SUBSET Window, shm : SUBSET Window]
  /\ capturing = "bind" => objects = {} /\ results = {}
  /\ \A o \in objects : Accounted(o)

Kinds == {"handle", "source", "session", "buffer", "frame"}

LEMMA OfMembers ==
  ASSUME NEW kinds \in SUBSET Kinds, NEW w \in Window
  PROVE  /\ Of(kinds, w) \subseteq Kinds \X Window
         /\ \A o \in Kinds \X Window : o \in Of(kinds, w) <=> o[1] \in kinds /\ o[2] = w
<1>1. ASSUME NEW o \in Kinds \X Window PROVE o = <<o[1], o[2]>>
  OBVIOUS
<1> QED BY <1>1 DEF Of

LEMMA CaptureInitial == CaptureInit => CaptureInv
<1> SUFFICES ASSUME CaptureInit PROVE CaptureInv
  OBVIOUS
<1>1. /\ capturing = "bind" /\ objects = {} /\ listed = {} /\ waiting = {} /\ results = {}
      /\ late = FALSE /\ dropped = [handles |-> {}, shm |-> {}]
  BY DEF CaptureInit, Nowhere
<1> QED BY <1>1 DEF CaptureInv, CaptureType, Alive

(* The clauses about one object, from those about the step.                *)
LEMMA CaptureObjects ==
  ASSUME CaptureInv, listed' \subseteq Window, waiting' \subseteq listed', results' \subseteq listed',
         late' \in BOOLEAN, Alive' # {} => current' \in listed', capturing' # "bind",
         dropped' \in [handles : SUBSET Window, shm : SUBSET Window],
         \A o \in objects' : o \in Kinds \X Window /\ Accounted(o)'
  PROVE  CaptureInv'
BY DEF CaptureInv, CaptureType, Kinds

LEMMA CaptureKept ==
  ASSUME CaptureInv, UNCHANGED <<current, listed, dropped>>, capturing # "returned",
         capturing' # "returned", Alive \subseteq Alive', NEW o \in objects
  PROVE  o \in Kinds \X Window /\ Accounted(o)'
BY DEF CaptureInv, CaptureType, Kinds, Accounted

(* A window announced too late.                                            *)
LEMMA CaptureEvents ==
  ASSUME CaptureInv, SessionEvents \/ FrameEvents
  PROVE  CaptureInv'
<1>1. /\ UNCHANGED <<current, waiting, listed, late, results>>
      /\ capturing \in {"session blocked", "frame blocked"}
      /\ capturing = "session blocked" => capturing' \in {"stopped", "constrained", "session"}
      /\ capturing = "frame blocked" => capturing' \in {"captured", "frame"}
      /\ UNCHANGED <<objects, dropped>> \/ \E w \in Window : Announces(w)
  BY DEF SessionEvents, FrameEvents
<1>2. Alive' = Alive /\ Alive # {}
  BY <1>1 DEF Alive
<1>3. CASE UNCHANGED <<objects, dropped>>
  <2>1. \A o \in objects' : o \in Kinds \X Window /\ Accounted(o)'
    BY <1>1, <1>2, <1>3, CaptureKept
  <2> QED BY <1>1, <1>2, <1>3, <2>1, CaptureObjects DEF CaptureInv, CaptureType
<1>4. ASSUME NEW w \in Window, Announces(w)
      PROVE  CaptureInv'
  <2>1. /\ objects' = objects \union {<<"handle", w>>}
        /\ dropped' = [dropped EXCEPT !.handles = @ \union {w}]
    BY <1>4 DEF Announces
  <2>2. /\ dropped' \in [handles : SUBSET Window, shm : SUBSET Window]
        /\ dropped'.handles = dropped.handles \union {w} /\ dropped'.shm = dropped.shm
    BY <2>1 DEF CaptureInv
  <2>3. ASSUME NEW o \in objects PROVE o \in Kinds \X Window /\ Accounted(o)'
    BY <1>1, <1>2, <2>2, <2>3 DEF CaptureInv, CaptureType, Kinds, Accounted
  <2>4. /\ <<"handle", w>> \in Kinds \X Window
        /\ <<"handle", w>>[1] = "handle" /\ <<"handle", w>>[2] = w
    BY DEF Kinds
  <2>5. Accounted(<<"handle", w>>)'
    BY <2>2, <2>4 DEF Accounted
  <2>6. \A o \in objects' : o \in Kinds \X Window /\ Accounted(o)'
    BY <2>1, <2>3, <2>4, <2>5
  <2> QED BY <1>1, <1>2, <2>2, <2>6, CaptureObjects DEF CaptureInv, CaptureType
<1> QED BY <1>1, <1>3, <1>4

(* Each exit destroys all that is alive of the window at that point.       *)
LEMMA CaptureSkips ==
  ASSUME CaptureInv, NEW kinds \in SUBSET Kinds, Alive # {}, Alive \subseteq kinds,
         Skipped(kinds), UNCHANGED <<current, waiting, listed, late, dropped>>,
         results' \subseteq listed
  PROVE  CaptureInv'
<1>1. objects' = objects \ Of(kinds, current) /\ capturing' = "next" /\ Alive' = {}
  BY DEF Skipped, Alive
<1>2. current \in Window
  BY DEF CaptureInv
<1>3. ASSUME NEW o \in objects' PROVE o \in Kinds \X Window /\ Accounted(o)'
  <2>1. o \in objects /\ o \in Kinds \X Window /\ ~(o[1] \in kinds /\ o[2] = current)
    BY <1>1, <1>2, <1>3, OfMembers DEF CaptureInv, CaptureType, Kinds
  <2>2. Accounted(o)
    BY <2>1 DEF CaptureInv
  <2> QED BY <1>1, <2>1, <2>2 DEF Accounted
<1> QED BY <1>1, <1>3, CaptureObjects DEF CaptureInv, CaptureType

LEMMA CaptureWaits ==
  ASSUME CaptureInv, NEW what, NEW blocked, NEW kinds \in SUBSET Kinds,
         WaitsFor(what, blocked, kinds),
         \/ what = "session" /\ blocked = "session blocked" /\ kinds = {"source", "session"}
         \/ /\ what = "frame" /\ blocked = "frame blocked"
            /\ kinds = {"frame", "session", "source", "buffer"}
  PROVE  CaptureInv'
<1>1. /\ capturing = what
      /\ IF late THEN Skipped(kinds) ELSE capturing' = blocked /\ UNCHANGED objects
      /\ UNCHANGED <<current, waiting, listed, late, results, dropped>>
  BY DEF WaitsFor
<1>2. Alive = kinds /\ Alive # {}
  BY <1>1 DEF Alive
<1>3. CASE late
  BY <1>1, <1>2, <1>3, CaptureSkips DEF CaptureInv, CaptureType
<1>4. CASE ~late
  <2>1. capturing' = blocked /\ UNCHANGED objects /\ Alive' = Alive
    BY <1>1, <1>4 DEF Alive
  <2>2. \A o \in objects' : o \in Kinds \X Window /\ Accounted(o)'
    BY <1>1, <1>2, <2>1, CaptureKept
  <2> QED BY <1>1, <1>2, <2>1, <2>2, CaptureObjects DEF CaptureInv, CaptureType
<1> QED BY <1>3, <1>4

LEMMA CaptureStep == CaptureInv /\ [CaptureNext]_captureVars => CaptureInv'
<1> SUFFICES ASSUME CaptureInv, [CaptureNext]_captureVars PROVE CaptureInv'
  OBVIOUS
<1>1. CASE UNCHANGED captureVars \/ Elapses \/ StopSeen
  <2>1. /\ UNCHANGED <<capturing, current, waiting, listed, objects, results, dropped>>
        /\ late' \in BOOLEAN
    BY <1>1 DEF captureVars, Elapses, StopSeen, CaptureInv, CaptureType
  <2> QED BY <2>1 DEF CaptureInv, CaptureType, Alive, Accounted
<1>2. CASE Lists
  <2>1. PICK all \in SUBSET Window, usable \in SUBSET Window :
          /\ usable \subseteq all /\ listed' = all /\ waiting' = usable
          /\ objects' = {<<"handle", w>> : w \in all}
          /\ capturing' \in {"nothing to do", "next"}
    BY <1>2 DEF Lists
  <2>2. UNCHANGED <<dropped, late>> /\ results' = {} /\ Alive' = {}
    BY <1>2, <2>1 DEF Lists, Alive, CaptureInv
  <2>3. ASSUME NEW o \in objects' PROVE o \in Kinds \X Window /\ Accounted(o)'
    <3>1. PICK w \in all : o = <<"handle", w>>
      BY <2>1
    <3>2. o[1] = "handle" /\ o[2] = w
      BY <3>1
    <3> QED BY <2>1, <3>1, <3>2 DEF Kinds, Accounted
  <2> QED BY <2>1, <2>2, <2>3, CaptureObjects DEF CaptureInv, CaptureType
<1>3. ASSUME NEW w \in Window, Creates(w)
      PROVE  CaptureInv'
  <2>1. /\ w \in waiting /\ waiting' = waiting \ {w} /\ current' = w
        /\ objects' = objects \union Of({"source", "session"}, w)
        /\ capturing = "next" /\ capturing' = "session"
        /\ UNCHANGED <<listed, late, results, dropped>>
    BY <1>3 DEF Creates
  <2>2. Alive = {} /\ Alive' = {"source", "session"}
    BY <2>1 DEF Alive
  <2>3. ASSUME NEW o \in objects' PROVE o \in Kinds \X Window /\ Accounted(o)'
    <3>1. CASE o \in objects
      BY <2>1, <2>2, <3>1 DEF CaptureInv, CaptureType, Kinds, Accounted
    <3>2. CASE o \in Of({"source", "session"}, w)
      BY <2>1, <2>2, <3>2, OfMembers DEF Kinds, Accounted
    <3> QED BY <2>1, <2>3, <3>1, <3>2
  <2> QED BY <2>1, <2>2, <2>3, CaptureObjects DEF CaptureInv, CaptureType
<1>4. CASE SessionWait \/ FrameWait
  BY <1>4, CaptureWaits DEF SessionWait, FrameWait, Kinds
<1>5. CASE SessionEvents \/ FrameEvents
  BY <1>5, CaptureEvents
<1>6. CASE Stopped
  <2>1. /\ Skipped({"session", "source"}) /\ capturing = "stopped"
        /\ UNCHANGED <<current, waiting, listed, late, results, dropped>>
    BY <1>6 DEF Stopped
  <2>2. Alive # {} /\ Alive \subseteq {"session", "source"}
    BY <2>1 DEF Alive
  <2> QED BY <2>1, <2>2, CaptureSkips DEF Kinds, CaptureInv, CaptureType
<1>7. CASE Captured
  <2>1. /\ Skipped({"frame", "session", "source", "buffer"}) /\ capturing = "captured"
        /\ UNCHANGED <<current, waiting, listed, late, dropped>>
        /\ results' \in {results, results \union {current}}
    BY <1>7 DEF Captured
  <2>2. Alive # {} /\ Alive \subseteq {"frame", "session", "source", "buffer"}
    BY <2>1 DEF Alive
  <2>3. results' \subseteq listed
    BY <2>1, <2>2 DEF CaptureInv, CaptureType
  <2> QED BY <2>1, <2>2, <2>3, CaptureSkips DEF Kinds
<1>8. CASE StartsFrame
  <2>1. capturing = "constrained" /\ UNCHANGED <<current, waiting, listed, late, results>>
    BY <1>8 DEF StartsFrame
  <2>2. Alive = {"source", "session"} /\ current \in listed /\ current \in Window
    BY <2>1 DEF Alive, CaptureInv
  <2>3. CASE /\ objects' = objects \union Of({"buffer", "frame"}, current)
             /\ capturing' = "frame" /\ UNCHANGED dropped
    <3>1. Alive' = {"source", "session", "buffer", "frame"}
      BY <2>3 DEF Alive
    <3>2. ASSUME NEW o \in objects' PROVE o \in Kinds \X Window /\ Accounted(o)'
      <4>1. CASE o \in objects
        BY <2>1, <2>2, <2>3, <3>1, <4>1, CaptureKept
      <4>2. CASE o \in Of({"buffer", "frame"}, current)
        BY <2>1, <2>2, <3>1, <4>2, OfMembers DEF Kinds, Accounted
      <4> QED BY <2>3, <3>2, <4>1, <4>2
    <3> QED BY <2>1, <2>2, <2>3, <3>1, <3>2, CaptureObjects DEF CaptureInv, CaptureType
  <2>4. CASE /\ dropped' = [dropped EXCEPT !.shm = @ \union {current}]
             /\ capturing' = "next" /\ UNCHANGED objects
    <3>1. /\ dropped' \in [handles : SUBSET Window, shm : SUBSET Window]
          /\ dropped'.handles = dropped.handles
          /\ dropped'.shm = dropped.shm \union {current}
      BY <2>2, <2>4 DEF CaptureInv
    <3>2. Alive' = {}
      BY <2>4 DEF Alive
    <3>3. ASSUME NEW o \in objects' PROVE o \in Kinds \X Window /\ Accounted(o)'
      BY <2>1, <2>2, <2>4, <3>1, <3>2, <3>3 DEF CaptureInv, CaptureType, Kinds, Accounted
    <3> QED BY <2>1, <2>4, <3>1, <3>2, <3>3, CaptureObjects DEF CaptureInv, CaptureType
  <2> QED BY <1>8, <2>3, <2>4 DEF StartsFrame
<1>9. CASE Releases
  <2>1. /\ objects' = objects \ {<<"handle", w>> : w \in listed}
        /\ capturing = "next" /\ capturing' = "returned"
        /\ UNCHANGED <<current, waiting, listed, late, results, dropped>>
    BY <1>9 DEF Releases
  <2>2. Alive = {} /\ Alive' = {}
    BY <2>1 DEF Alive
  <2>3. ASSUME NEW o \in objects' PROVE o \in Kinds \X Window /\ Accounted(o)'
    <3>1. o \in objects /\ o \in Kinds \X Window /\ Accounted(o)
      BY <2>1, <2>3 DEF CaptureInv, CaptureType, Kinds
    <3>2. ~(o[1] = "handle" /\ o[2] \in listed)
      <4>1. o = <<o[1], o[2]>>
        BY <3>1
      <4> QED BY <2>1, <2>3, <4>1
    <3> QED BY <2>1, <2>2, <3>1, <3>2 DEF Accounted
  <2> QED BY <2>1, <2>2, <2>3, CaptureObjects DEF CaptureInv, CaptureType
<1>10. CASE Disconnects
  <2>1. /\ objects' = {} /\ capturing' = "returned"
        /\ UNCHANGED <<current, waiting, listed, late, results, dropped>>
    BY <1>10 DEF Disconnects
  <2>2. Alive' = {}
    BY <2>1 DEF Alive
  <2> QED BY <2>1, <2>2, CaptureObjects DEF CaptureInv, CaptureType
<1> QED
  BY <1>1, <1>2, <1>3, <1>4, <1>5, <1>6, <1>7, <1>8, <1>9, <1>10 DEF CaptureNext

(* Every exit of a capture destroys what it created                        *)
(* (toplevel_capture.rs:170-173), but for what CaptureReleased excuses.    *)
THEOREM CapturesReleased == CaptureSpec => []CaptureReleased
<1>1. CaptureInv => CaptureReleased
  BY DEF CaptureInv, CaptureType, CaptureReleased, Accounted, Alive
<1> QED BY <1>1, CaptureInitial, CaptureStep, PTL DEF CaptureSpec

-----------------------------------------------------------------------------
(* The text field.  What the first characters of a text take grows with    *)
(* their number, so each boundary is that of one number of characters.     *)

LEMMA TextsAre ==
  \A s : s \in Texts <=> s \in Seq(Char) /\ Len(s) <= MaxChars
<1> SUFFICES ASSUME NEW s PROVE s \in Texts <=> s \in Seq(Char) /\ Len(s) <= MaxChars
  OBVIOUS
<1>1. s \in Texts <=> \E m \in 0..MaxChars : s \in [1..m -> Char]
  BY DEF Texts, BoundedSeq, SeqOf
<1>2. ASSUME NEW m \in 0..MaxChars, s \in [1..m -> Char]
      PROVE  s \in Seq(Char) /\ Len(s) <= MaxChars
  <2>1. m \in Nat /\ m <= MaxChars
    BY TextAssumption
  <2>2. s \in Seq(Char) /\ Len(s) = m
    BY <1>2, <2>1, SeqDef, LenProperties
  <2> QED BY <2>1, <2>2
<1>3. ASSUME s \in Seq(Char), Len(s) <= MaxChars
      PROVE  \E m \in 0..MaxChars : s \in [1..m -> Char]
  <2>1. Len(s) \in 0..MaxChars /\ s \in [1..Len(s) -> Char]
    BY <1>3, TextAssumption, LenProperties
  <2> QED BY <2>1
<1> QED BY <1>1, <1>2, <1>3

(* Induction up to n, with the numbers it has reached as a set.            *)
LEMMA Reaches ==
  ASSUME NEW n \in Nat, NEW T, 0 \in T, \A k \in 0..n : k \in T /\ k < n => k + 1 \in T
  PROVE  0..n \subseteq T
<1> DEFINE Out == {k \in 0..n : k \notin T}
<1> SUFFICES ASSUME Out # {} PROVE FALSE
  OBVIOUS
<1>1. Out \in SUBSET Nat
  OBVIOUS
<1>2. PICK k \in Out : \A j \in Out : k <= j
  <2> HIDE DEF Out
  <2> QED BY <1>1, LeastIndex
<1>3. k \in 0..n /\ k # 0
  OBVIOUS
<1>4. k - 1 \in 0..n /\ k - 1 < n /\ (k - 1) + 1 = k
  BY <1>3
<1>5. k - 1 \notin Out
  BY <1>2, <1>3, <1>4
<1> QED BY <1>3, <1>4, <1>5

(* The lengths of a text, for one of the two ways to measure a character.  *)
Measure(f, s, n) ==
  /\ n \in [0..Len(s) -> Nat] /\ n[0] = 0
  /\ \A k \in 1..Len(s) : n[k] = n[k - 1] + f[s[k]]

LEMMA Measurable ==
  ASSUME NEW f \in [Char -> Nat \ {0}], NEW s \in Texts
  PROVE  Measure(f, s, Lengths(f)[s])
<1> DEFINE Step(n, k) == IF k = 0 THEN 0 ELSE n[k - 1] + f[s[k]]
           Good(m, n) == n = [k \in 0..m |-> Step(n, k)]
           Typed(m, n) == n \in [0..m -> Nat]
           T == {m \in 0..Len(s) : \E n : Good(m, n) /\ Typed(m, n)}
<1>1. s \in Seq(Char) /\ Len(s) \in Nat
  BY TextsAre, LenProperties
<1>2. 0 \in T
  <2>1. Good(0, [k \in 0..0 |-> 0]) /\ Typed(0, [k \in 0..0 |-> 0])
    OBVIOUS
  <2>2. 0 \in 0..Len(s)
    BY <1>1
  <2> HIDE DEF Good, Typed
  <2>3. \E n : Good(0, n) /\ Typed(0, n)
    BY <2>1
  <2> QED BY <2>2, <2>3
<1>3. ASSUME NEW m \in 0..Len(s), m \in T, m < Len(s) PROVE m + 1 \in T
  <2>1. PICK n : Good(m, n) /\ Typed(m, n)
    BY <1>3
  <2> DEFINE o == [k \in 0..m + 1 |-> IF k = m + 1 THEN n[m] + f[s[m + 1]] ELSE n[k]]
  <2>2. m \in Nat /\ m + 1 \in 1..Len(s) /\ s[m + 1] \in Char /\ f[s[m + 1]] \in Nat
    BY <1>1, <1>3
  <2>3. Typed(m + 1, o)
    BY <2>1, <2>2
  <2>4. ASSUME NEW k \in 0..m + 1 PROVE o[k] = Step(o, k)
    <3>1. CASE k = m + 1
      <4>1. k # 0 /\ k - 1 = m /\ m \in 0..m + 1 /\ m # m + 1
        BY <2>2, <3>1
      <4>2. o[k - 1] = n[m]
        BY <4>1
      <4> QED BY <3>1, <4>1, <4>2
    <3>2. CASE k = 0
      <4>1. n[0] = 0 /\ 0 \in 0..m + 1 /\ 0 # m + 1
        BY <2>1, <2>2
      <4> QED BY <3>2, <4>1
    <3>3. CASE k # m + 1 /\ k # 0
      <4>1. k \in 0..m /\ k - 1 \in 0..m + 1 /\ k - 1 # m + 1
        BY <2>2, <3>3
      <4>2. n[k] = n[k - 1] + f[s[k]]
        BY <2>1, <3>3, <4>1
      <4>3. o[k - 1] = n[k - 1] /\ o[k] = n[k]
        BY <3>3, <4>1
      <4> QED BY <3>3, <4>2, <4>3
    <3> QED BY <3>1, <3>2, <3>3
  <2>5. Good(m + 1, o)
    BY <2>4
  <2> HIDE DEF Good, Typed, o
  <2>6. \E x : Good(m + 1, x) /\ Typed(m + 1, x)
    BY <2>3, <2>5
  <2>7. m + 1 \in 0..Len(s)
    BY <2>2
  <2> QED BY <2>6, <2>7
<1>4. Len(s) \in T
  <2> HIDE DEF T
  <2>1. 0..Len(s) \subseteq T
    BY <1>1, <1>2, <1>3, Reaches
  <2> QED BY <1>1, <2>1
<1> DEFINE c == CHOOSE n : n = [k \in 0..Len(s) |-> Step(n, k)]
<1>5. Lengths(f)[s] = c
  BY DEF Lengths
<1>6. PICK n : n = [k \in 0..Len(s) |-> Step(n, k)] /\ n \in [0..Len(s) -> Nat]
  BY <1>4
<1>7. c = [k \in 0..Len(s) |-> Step(c, k)]
  BY <1>6
<1> HIDE DEF c
<1>8. \A k \in 0..Len(s) : c[k] = Step(c, k)
  BY <1>7
<1> DEFINE U == {k \in 0..Len(s) : c[k] \in Nat}
<1>9. 0 \in U
  BY <1>1, <1>8
<1>10. ASSUME NEW k \in 0..Len(s), k \in U, k < Len(s) PROVE k + 1 \in U
  <2>1. k + 1 \in 1..Len(s) /\ k + 1 # 0 /\ (k + 1) - 1 = k /\ k + 1 \in 0..Len(s)
    BY <1>1, <1>10
  <2>2. s[k + 1] \in Char /\ f[s[k + 1]] \in Nat
    BY <1>1, <2>1
  <2>3. c[k + 1] = c[k] + f[s[k + 1]]
    BY <1>8, <2>1
  <2> QED BY <1>10, <2>1, <2>2, <2>3
<1>11. 0..Len(s) \subseteq U
  <2> HIDE DEF U
  <2> QED BY <1>1, <1>9, <1>10, Reaches
<1>12. c \in [0..Len(s) -> Nat]
  <2>1. c = [k \in 0..Len(s) |-> c[k]]
    BY <1>7
  <2> QED BY <1>11, <2>1
<1>13. c[0] = 0 /\ \A k \in 1..Len(s) : c[k] = c[k - 1] + f[s[k]]
  BY <1>1, <1>8
<1> QED BY <1>5, <1>12, <1>13 DEF Measure

LEMMA Lengthened ==
  ASSUME NEW s \in Texts
  PROVE  /\ Measure(Utf8, s, Octets[s]) /\ Measure(Utf16, s, Units[s])
         /\ Utf8 \in [Char -> Nat \ {0}] /\ Utf16 \in [Char -> Nat \ {0}]
BY Measurable, TextAssumption DEF Octets, Units

(* More characters are longer.                                             *)
LEMMA Grows ==
  ASSUME NEW f \in [Char -> Nat \ {0}], NEW s \in Texts, NEW n, Measure(f, s, n),
         NEW j \in 0..Len(s), NEW k \in 0..Len(s), j < k
  PROVE  n[j] < n[k]
<1>1. s \in Seq(Char) /\ Len(s) \in Nat
  BY TextsAre, LenProperties
<1> DEFINE T == {i \in 0..Len(s) : j < i => n[j] < n[i]}
<1>2. 0 \in T
  BY <1>1
<1>3. ASSUME NEW i \in 0..Len(s), i \in T, i < Len(s) PROVE i + 1 \in T
  <2>1. i + 1 \in 1..Len(s) /\ (i + 1) - 1 = i /\ i + 1 \in 0..Len(s)
    BY <1>1, <1>3
  <2>2. s[i + 1] \in Char /\ f[s[i + 1]] \in Nat /\ f[s[i + 1]] > 0
    BY <1>1, <2>1
  <2>3. n[i + 1] = n[i] + f[s[i + 1]] /\ n[i] \in Nat /\ n[j] \in Nat
    BY <1>3, <2>1 DEF Measure
  <2>4. ASSUME j < i + 1 PROVE n[j] < n[i + 1]
    <3>1. CASE j = i
      BY <2>2, <2>3, <3>1
    <3>2. CASE j < i
      BY <1>3, <2>2, <2>3, <3>2
    <3> QED BY <2>4, <3>1, <3>2
  <2> QED BY <2>1, <2>4
<1>4. 0..Len(s) \subseteq T
  <2> HIDE DEF T
  <2> QED BY <1>1, <1>2, <1>3, Reaches
<1> QED BY <1>4

(* A piece of a text is as long there as it is at the start of another.    *)
LEMMA SamePiece ==
  ASSUME NEW s \in Texts, NEW t \in Texts, NEW i \in 0..Len(s), NEW m \in 0..Len(t),
         i + m <= Len(s), \A k \in 1..m : s[i + k] = t[k]
  PROVE  Octets[s][i + m] = Octets[s][i] + Octets[t][m]
<1> DEFINE n == Octets[s]  o == Octets[t]
<1>0. Measure(Utf8, s, n) /\ Measure(Utf8, t, o) /\ Utf8 \in [Char -> Nat \ {0}]
  BY Lengthened
<1> HIDE DEF n, o
<1>1. s \in Seq(Char) /\ Len(s) \in Nat /\ t \in Seq(Char) /\ Len(t) \in Nat /\ i \in Nat /\ m \in Nat
  BY TextsAre, LenProperties
<1> DEFINE T == {k \in 0..m : n[i + k] = n[i] + o[k]}
<1>2. n[i] \in Nat /\ \A k \in 0..m : o[k] \in Nat
  <2>1. n \in [0..Len(s) -> Nat] /\ o \in [0..Len(t) -> Nat]
    BY <1>0 DEF Measure
  <2>2. \A k \in 0..m : k \in 0..Len(t)
    BY <1>1
  <2> QED BY <2>1, <2>2
<1>3. 0 \in T
  <2>1. i + 0 = i /\ n[i] + 0 = n[i] /\ 0 \in 0..m
    BY <1>2, <1>1
  <2>2. o[0] = 0
    BY <1>0 DEF Measure
  <2> QED BY <2>1, <2>2
<1>4. ASSUME NEW k \in 0..m, k \in T, k < m PROVE k + 1 \in T
  <2>1. /\ k + 1 \in 1..m /\ (k + 1) - 1 = k /\ k + 1 \in 1..Len(t)
        /\ i + (k + 1) \in 1..Len(s) /\ (i + (k + 1)) - 1 = i + k
    BY <1>1, <1>4
  <2>2. n[i + (k + 1)] = n[i + k] + Utf8[s[i + (k + 1)]] /\ o[k + 1] = o[k] + Utf8[t[k + 1]]
    BY <1>0, <2>1 DEF Measure
  <2>3. s[i + (k + 1)] = t[k + 1] /\ t[k + 1] \in Char
    BY <1>1, <2>1
  <2>4. Utf8[t[k + 1]] \in Nat
    BY <1>0, <2>3
  <2>5. n[i + k] = n[i] + o[k] /\ n[i] \in Nat /\ o[k] \in Nat
    BY <1>2, <1>4
  <2>6. n[i + (k + 1)] = n[i] + o[k + 1]
    <3>1. PICK size \in Nat : size = Utf8[t[k + 1]]
      BY <2>4
    <3>2. n[i + (k + 1)] = (n[i] + o[k]) + size /\ o[k + 1] = o[k] + size
      BY <2>2, <2>3, <2>5, <3>1
    <3> QED BY <2>5, <3>2
  <2> QED BY <2>1, <2>6
<1>5. 0..m \subseteq T
  <2> HIDE DEF T
  <2> QED BY <1>1, <1>3, <1>4, Reaches
<1>6. n[i + m] = n[i] + o[m]
  BY <1>1, <1>5
<1> QED BY <1>6 DEF n, o

-----------------------------------------------------------------------------
(* The boundaries of a text, and the moves from one to another.            *)
LEMMA Boundaries ==
  ASSUME NEW s \in Texts
  PROVE  /\ s \in Seq(Char) /\ Len(s) \in Nat /\ Len(s) <= MaxChars
         /\ Octets[s] \in [0..Len(s) -> Nat] /\ Octets[s][0] = 0 /\ Size(s) \in Nat
         /\ Offsets[s] = {Octets[s][k] : k \in 0..Len(s)}
         /\ {0, Size(s)} \subseteq Offsets[s] /\ Offsets[s] \subseteq 0..Size(s)
<1>1. s \in Seq(Char) /\ Len(s) \in Nat /\ Len(s) <= MaxChars
  BY TextsAre, LenProperties
<1>2. Octets[s] \in [0..Len(s) -> Nat] /\ Octets[s][0] = 0
  BY Lengthened DEF Measure
<1>3. Size(s) \in Nat
  BY <1>1, <1>2 DEF Size
<1>4. Offsets[s] = {Octets[s][k] : k \in 0..Len(s)}
  BY DEF Offsets
<1>5. {0, Size(s)} \subseteq Offsets[s]
  <2>1. 0 \in 0..Len(s) /\ Len(s) \in 0..Len(s)
    BY <1>1
  <2> QED BY <1>2, <1>4, <2>1 DEF Size
<1>6. ASSUME NEW k \in 0..Len(s) PROVE Octets[s][k] \in 0..Size(s)
  <2>1. CASE k = Len(s)
    BY <1>2, <1>3, <2>1 DEF Size
  <2>2. CASE k # Len(s)
    <3>1. k < Len(s) /\ Len(s) \in 0..Len(s)
      BY <1>1, <2>2
    <3>2. Octets[s][k] < Octets[s][Len(s)]
      BY <3>1, Lengthened, Grows
    <3> QED BY <1>2, <1>3, <3>2 DEF Size
  <2> QED BY <2>1, <2>2
<1>7. Offsets[s] \subseteq 0..Size(s)
  BY <1>4, <1>6
<1> QED BY <1>1, <1>2, <1>3, <1>4, <1>5, <1>7

LEMMA LeastFound ==
  ASSUME NEW S \in SUBSET Nat, S # {}, NEW d
  PROVE  LeastOr(S, d) \in S /\ \A n \in S : LeastOr(S, d) <= n
<1>1. \E m \in S : \A n \in S : m <= n
  BY LeastIndex
<1> QED BY <1>1 DEF LeastOr

LEMMA LargestFound ==
  ASSUME NEW top \in Nat, NEW S \in SUBSET (0..top), S # {}, NEW d
  PROVE  LargestOr(S, d) \in S
<1>1. \E m \in S : \A n \in S : n <= m
  BY GreatestIndex
<1> QED BY <1>1 DEF LargestOr

LEMMA MovesOnText ==
  ASSUME text \in Texts, NEW o
  PROVE  /\ PreviousBoundary(o) \in Offsets[text] /\ NextBoundary(o) \in Offsets[text]
         /\ o \in Offsets[text] =>
              /\ At(o) \in 0..Len(text) /\ Octets[text][At(o)] = o
              /\ PreviousWord(o) \in Offsets[text] /\ NextWord(o) \in Offsets[text]
<1>1. /\ Size(text) \in Nat /\ {0, Size(text)} \subseteq Offsets[text]
      /\ Offsets[text] \subseteq 0..Size(text) /\ Offsets[text] \subseteq Nat
      /\ Offsets[text] = {Octets[text][k] : k \in 0..Len(text)}
  BY Boundaries
<1>2. ASSUME NEW S \in SUBSET Offsets[text]
      PROVE  LargestOr(S, 0) \in Offsets[text] /\ LeastOr(S, Size(text)) \in Offsets[text]
  <2>1. CASE S = {}
    BY <1>1, <2>1 DEF LargestOr, LeastOr
  <2>2. CASE S # {}
    <3>1. S \in SUBSET (0..Size(text)) /\ S \in SUBSET Nat
      BY <1>1
    <3> QED BY <1>1, <2>2, <3>1, LargestFound, LeastFound
  <2> QED BY <2>1, <2>2
<1>3. PreviousBoundary(o) \in Offsets[text] /\ NextBoundary(o) \in Offsets[text]
  <2>1. {p \in Offsets[text] : p < o} \in SUBSET Offsets[text]
        /\ {p \in Offsets[text] : p > o} \in SUBSET Offsets[text]
    OBVIOUS
  <2> QED BY <1>2, <2>1 DEF PreviousBoundary, NextBoundary
<1>4. ASSUME o \in Offsets[text]
      PROVE  /\ At(o) \in 0..Len(text) /\ Octets[text][At(o)] = o
             /\ PreviousWord(o) \in Offsets[text] /\ NextWord(o) \in Offsets[text]
  <2>1. \E k \in 0..Len(text) : Octets[text][k] = o
    BY <1>1, <1>4
  <2>2. At(o) \in 0..Len(text) /\ Octets[text][At(o)] = o
    BY <2>1 DEF At
  <2> DEFINE P == {j \in 0..At(o) - 1 : IsWord(text, j + 1) /\ ~IsWord(text, j)}
             N == {j \in At(o) + 1..Len(text) - 1 :
                     ~IsWord(text, j + 1) /\ \E i \in At(o) + 1..j : IsWord(text, i)}
  <2>3. P \subseteq 0..Len(text) /\ N \subseteq 0..Len(text)
    <3>1. Len(text) \in Nat /\ At(o) \in Nat /\ At(o) <= Len(text)
      BY <2>2, Boundaries
    <3>2. 0..At(o) - 1 \subseteq 0..Len(text) /\ At(o) + 1..Len(text) - 1 \subseteq 0..Len(text)
      BY <3>1
    <3> QED BY <3>2
  <2>4. PreviousWord(o) = LargestOr({Octets[text][k] : k \in P}, 0)
        /\ NextWord(o) = LeastOr({Octets[text][k] : k \in N}, Size(text))
    BY DEF PreviousWord, NextWord
  <2> HIDE DEF P, N
  <2>5. {Octets[text][k] : k \in P} \in SUBSET Offsets[text]
        /\ {Octets[text][k] : k \in N} \in SUBSET Offsets[text]
    BY <1>1, <2>3
  <2> QED BY <1>2, <2>2, <2>4, <2>5
<1> QED BY <1>3, <1>4

(* A boundary converts to UTF-16 and back to itself: in both countings the *)
(* first number of characters that reaches its length is its own.          *)
LEMMA Converts ==
  ASSUME text \in Texts, NEW o \in Offsets[text]
  PROVE  FromUtf16(ToUtf16(o)) = o
<1>1. PICK k \in 0..Len(text) : o = Octets[text][k]
  BY Boundaries
<1>2. ASSUME NEW f \in [Char -> Nat \ {0}], NEW n, Measure(f, text, n)
      PROVE  LeastOr({j \in 0..Len(text) : n[j] >= n[k]}, Len(text)) = k
  <2> DEFINE S == {j \in 0..Len(text) : n[j] >= n[k]}
  <2>1. n \in [0..Len(text) -> Nat] /\ Len(text) \in Nat
    BY <1>2, Boundaries DEF Measure
  <2>2. k \in S /\ S \in SUBSET Nat
    BY <2>1
  <2> DEFINE l == LeastOr(S, Len(text))
  <2>3. l \in S /\ l <= k
    <3> HIDE DEF S
    <3> QED BY <2>2, LeastFound
  <2> HIDE DEF l
  <2>4. l \in 0..Len(text) /\ n[l] >= n[k]
    BY <2>3
  <2>5. ~(l < k)
    <3>1. ASSUME l < k PROVE n[l] < n[k]
      BY <1>2, <2>4, <3>1, Grows
    <3> QED BY <2>1, <2>4, <3>1
  <2>6. l = k
    BY <2>1, <2>3, <2>4, <2>5
  <2> QED BY <2>6 DEF l
<1>3. ToUtf16(o) = Units[text][k]
  BY <1>1, <1>2, Lengthened DEF ToUtf16
<1>4. FromUtf16(Units[text][k]) = Octets[text][k]
  BY <1>2, Lengthened DEF FromUtf16
<1> QED BY <1>1, <1>3, <1>4

-----------------------------------------------------------------------------
(* Selection and mark stay on the text: what a key or the input method     *)
(* changes starts and ends on boundaries, and the new text has one where   *)
(* the change starts and one where what was put in ends.                   *)
TextInv ==
  /\ TextType
  /\ marked # Unmarked => OnText(marked)
  /\ ~misplaced => OnText(sel)

(* What a selection on a text, or anywhere, extends to.                    *)
LEMMA ExtendedTyped ==
  ASSUME NEW r, NEW S \in SUBSET Nat, r.start \in S, r.end \in S, r.reversed \in BOOLEAN,
         NEW o \in S, NEW new, new = Extended(r, o)
  PROVE  new.start \in S /\ new.end \in S /\ new.reversed \in BOOLEAN
         /\ (r.start <= r.end => new.start <= new.end)
<1> DEFINE s == IF r.reversed THEN o ELSE r.start
           e == IF r.reversed THEN r.end ELSE o
<1>1. s \in S /\ e \in S /\ s \in Nat /\ e \in Nat
  OBVIOUS
<1>2. new = IF e < s THEN [start |-> e, end |-> s, reversed |-> ~r.reversed]
            ELSE [start |-> s, end |-> e, reversed |-> r.reversed]
  BY DEF Extended
<1> HIDE DEF s, e
<1>3. CASE e < s
  <2>1. new.start = e /\ new.end = s /\ new.reversed = ~r.reversed
    BY <1>2, <1>3
  <2>2. (~r.reversed) \in BOOLEAN
    OBVIOUS
  <2> QED BY <1>1, <1>3, <2>1, <2>2
<1>4. CASE ~(e < s)
  <2>1. new.start = s /\ new.end = e /\ new.reversed = r.reversed
    BY <1>2, <1>4
  <2> QED BY <1>1, <1>4, <2>1
<1> QED BY <1>3, <1>4

(* A new selection, where the text is left as it is.                       *)
LEMMA SelectionMoves ==
  ASSUME TextInv, UNCHANGED <<text, marked, hits>>, is_selecting' \in BOOLEAN,
         sel'.start \in Nat, sel'.end \in Nat, sel'.reversed \in BOOLEAN,
         misplaced' \in BOOLEAN, ~misplaced' => OnText(sel)'
  PROVE  TextInv'
BY DEF TextInv, TextType, OnText

LEMMA CursorMoves ==
  ASSUME TextInv, NEW o \in Offsets[text], MoveTo(o)
  PROVE  TextInv'
<1>1. text \in Texts /\ o \in Nat
  BY Boundaries DEF TextInv, TextType
<1>2. sel' = [start |-> o, end |-> o, reversed |-> sel.reversed] /\ UNCHANGED <<text, marked, hits, is_selecting>>
  BY DEF MoveTo, MovedTo
<1>3. misplaced' \in BOOLEAN
  BY DEF MoveTo
<1>4. OnText(sel)'
  BY <1>1, <1>2 DEF OnText
<1> QED BY <1>1, <1>2, <1>3, <1>4, SelectionMoves DEF TextInv, TextType

(* The selection's own ends are moved to as well, wherever they are.       *)
LEMMA CursorToEnd ==
  ASSUME TextInv, NEW o \in {sel.start, sel.end}, MoveTo(o)
  PROVE  TextInv'
<1>1. sel' = [start |-> o, end |-> o, reversed |-> sel.reversed] /\ UNCHANGED <<text, marked, hits, is_selecting>>
  BY DEF MoveTo, MovedTo
<1>2. misplaced' \in BOOLEAN /\ o \in Nat
  BY DEF MoveTo, TextInv, TextType
<1>3. ~misplaced' => OnText(sel)'
  <2> SUFFICES ASSUME ~misplaced' PROVE OnText(sel)'
    OBVIOUS
  <2>1. o \in Offsets[text]
    BY DEF MoveTo, TextInv, OnText
  <2> QED BY <1>1, <1>2, <2>1 DEF OnText
<1> QED BY <1>1, <1>2, <1>3, SelectionMoves DEF TextInv, TextType

LEMMA SelectionExtends ==
  ASSUME TextInv, NEW o \in Nat, sel' = Extended(sel, o), UNCHANGED <<text, marked, hits>>,
         is_selecting' \in BOOLEAN, misplaced' \in BOOLEAN,
         ~misplaced' => ~misplaced /\ o \in Offsets[text]
  PROVE  TextInv'
<1>0. text \in Texts /\ Offsets[text] \in SUBSET Nat
  BY Boundaries DEF TextInv, TextType
<1>1. sel'.start \in Nat /\ sel'.end \in Nat /\ sel'.reversed \in BOOLEAN
  <2>1. sel.start \in Nat /\ sel.end \in Nat /\ sel.reversed \in BOOLEAN
    BY DEF TextInv, TextType
  <2> QED BY <2>1, ExtendedTyped
<1>2. ASSUME ~misplaced' PROVE OnText(sel)'
  <2>1. OnText(sel) /\ o \in Offsets[text] /\ sel.reversed \in BOOLEAN
    BY <1>2 DEF TextInv, TextType
  <2>2. sel'.start \in Offsets[text] /\ sel'.end \in Offsets[text] /\ sel'.start <= sel'.end
    BY <1>0, <2>1, ExtendedTyped DEF OnText
  <2> QED BY <2>2 DEF OnText
<1> QED BY <1>1, <1>2, SelectionMoves

LEMMA AllSelected == TextInv /\ SelectAll => TextInv'
<1> SUFFICES ASSUME TextInv, SelectAll PROVE TextInv'
  OBVIOUS
<1> DEFINE r == MovedTo(0)
<1>1. r.start = 0 /\ r.end = 0 /\ r.reversed = sel.reversed
  BY DEF MovedTo
<1> HIDE DEF r
<1>2. sel' = Extended(r, Size(text)) /\ ~misplaced' /\ misplaced' = FALSE
      /\ UNCHANGED <<text, marked, hits, is_selecting>>
  BY DEF SelectAll, r
<1>3. text \in Texts /\ {0, Size(text)} \subseteq Offsets[text] /\ Offsets[text] \in SUBSET Nat
  BY Boundaries DEF TextInv, TextType
<1>4. sel'.start \in Offsets[text] /\ sel'.end \in Offsets[text] /\ sel'.reversed \in BOOLEAN
      /\ sel'.start <= sel'.end
  BY <1>1, <1>2, <1>3, ExtendedTyped DEF TextInv, TextType
<1>5. OnText(sel)'
  BY <1>2, <1>4 DEF OnText
<1>6. misplaced' \in BOOLEAN /\ is_selecting' \in BOOLEAN
  BY <1>2 DEF TextInv, TextType
<1> QED BY <1>2, <1>3, <1>4, <1>5, <1>6, SelectionMoves

LEMMA Joined ==
  ASSUME NEW S, NEW p \in Seq(S), NEW q \in Seq(S)
  PROVE  /\ p \o q \in Seq(S) /\ Len(p \o q) = Len(p) + Len(q)
         /\ \A k \in 1..Len(p) : (p \o q)[k] = p[k]
         /\ \A k \in 1..Len(q) : (p \o q)[Len(p) + k] = q[k]
<1>1. Len(p) \in Nat /\ Len(q) \in Nat
  BY LenProperties
<1>2. /\ p \o q \in Seq(S) /\ Len(p \o q) = Len(p) + Len(q)
      /\ \A k \in 1..Len(p) + Len(q) : (p \o q)[k] = IF k <= Len(p) THEN p[k] ELSE q[k - Len(p)]
  BY ConcatProperties
<1>3. ASSUME NEW k \in 1..Len(p) PROVE (p \o q)[k] = p[k]
  <2>1. k \in 1..Len(p) + Len(q) /\ k <= Len(p)
    BY <1>1
  <2> QED BY <1>2, <2>1
<1>4. ASSUME NEW k \in 1..Len(q) PROVE (p \o q)[Len(p) + k] = q[k]
  <2>1. Len(p) + k \in 1..Len(p) + Len(q) /\ ~(Len(p) + k <= Len(p)) /\ (Len(p) + k) - Len(p) = k
    BY <1>1
  <2> QED BY <1>2, <2>1
<1> QED BY <1>2, <1>3, <1>4

(* What is put in place of a range.                                        *)
LEMMA ReplacedKeeps ==
  ASSUME TextInv, NEW range, NEW new \in Seq(Char), Replaced(range, new),
         NEW o, o = range.start + Size(new)
  PROVE  /\ text' \in Texts /\ o \in Nat /\ range.start \in Nat
         /\ {range.start, o} \subseteq Offsets[text'] /\ range.start <= o
         /\ sel' = [start |-> o, end |-> o, reversed |-> sel.reversed]
         /\ ~misplaced' /\ misplaced' \in BOOLEAN /\ UNCHANGED <<hits, is_selecting>>
<1> DEFINE i == At(range.start)  j == At(range.end)
           tail == SubSeq(text, j + 1, Len(text))
           t == SubSeq(text, 1, i) \o new \o tail
<1>1. text \in Texts /\ OnText(range)
  BY DEF TextInv, TextType, Replaced
<1>2. i \in 0..Len(text) /\ j \in 0..Len(text) /\ Octets[text][i] = range.start
  BY <1>1, MovesOnText DEF OnText
<1>3. text \in Seq(Char) /\ Len(text) \in Nat /\ Octets[text] \in [0..Len(text) -> Nat]
  BY <1>1, Boundaries
<1>4. i + Len(new) + Len(text) - j <= MaxChars /\ text' = t
  BY DEF Replaced
<1> HIDE DEF i, j
<1>5. Len(new) \in Nat /\ i \in Nat /\ j \in Nat
  BY <1>2, LenProperties
<1>6. /\ SubSeq(text, 1, i) \in Seq(Char) /\ Len(SubSeq(text, 1, i)) = i
      /\ \A k \in 1..i : SubSeq(text, 1, i)[k] = text[k]
  BY <1>2, <1>3, <1>5
<1>7. tail \in Seq(Char) /\ Len(tail) = Len(text) - j
  BY <1>2, <1>3, <1>5
<1> DEFINE front == SubSeq(text, 1, i)
<1>8. /\ front \o new \in Seq(Char) /\ Len(front \o new) = i + Len(new)
      /\ \A k \in 1..i : (front \o new)[k] = text[k]
      /\ \A k \in 1..Len(new) : (front \o new)[i + k] = new[k]
  <2> HIDE DEF front
  <2>1. front \in Seq(Char) /\ Len(front) = i /\ \A k \in 1..i : front[k] = text[k]
    BY <1>6 DEF front
  <2>2. /\ front \o new \in Seq(Char) /\ Len(front \o new) = Len(front) + Len(new)
        /\ \A k \in 1..Len(front) : (front \o new)[k] = front[k]
        /\ \A k \in 1..Len(new) : (front \o new)[Len(front) + k] = new[k]
    <3>1. front \in Seq(Char) /\ new \in Seq(Char)
      BY <2>1
    <3> QED BY <3>1, Joined
  <2> QED BY <2>1, <2>2
<1>9. /\ t \in Seq(Char) /\ Len(t) = i + Len(new) + Len(text) - j
      /\ \A k \in 1..i + Len(new) : t[k] = (front \o new)[k]
  <2> HIDE DEF front, tail
  <2>1. t = (front \o new) \o tail
    BY DEF front
  <2> HIDE DEF t
  <2> DEFINE head == front \o new
  <2>2. head \in Seq(Char) /\ Len(head) = i + Len(new)
    BY <1>8
  <2> HIDE DEF head
  <2>3. t \in Seq(Char) /\ Len(t) = Len(head) + Len(tail) /\ \A k \in 1..Len(head) : t[k] = head[k]
    <3>1. tail \in Seq(Char) /\ head \in Seq(Char) /\ t = head \o tail
      BY <1>7, <2>1, <2>2 DEF head, tail
    <3> QED BY <3>1, Joined
  <2>4. Len(t) = i + Len(new) + Len(text) - j
    BY <1>3, <1>5, <1>7, <2>2, <2>3
  <2> QED BY <2>2, <2>3, <2>4 DEF head
<1> HIDE DEF front, tail, t
<1>10. t \in Texts /\ Len(new) <= MaxChars /\ new \in Texts
  <2>1. MaxChars \in Nat /\ Len(text) - j >= 0
    BY <1>2, <1>3, TextAssumption
  <2>2. Len(t) <= MaxChars /\ Len(new) <= MaxChars
    BY <1>3, <1>4, <1>5, <1>9, <2>1
  <2> QED BY <1>9, <2>2, TextsAre
<1>11. Len(t) \in Nat /\ i + Len(new) <= Len(t)
  BY <1>2, <1>3, <1>5, <1>9
<1>12. Octets[t][i] = Octets[text][i]
  <2>1. ASSUME NEW k \in 1..i PROVE t[0 + k] = text[k]
    <3>1. k \in 1..i + Len(new) /\ 0 + k = k
      BY <1>5
    <3> QED BY <1>8, <1>9, <3>1
  <2>2. 0 \in 0..Len(t) /\ i \in 0..Len(text) /\ 0 + i <= Len(t)
    BY <1>2, <1>5, <1>11
  <2>3. t \in Texts /\ text \in Texts
    BY <1>1, <1>10
  <2>4. Octets[t][0 + i] = Octets[t][0] + Octets[text][i]
    BY <2>1, <2>2, <2>3, SamePiece
  <2>5. Octets[t][0] = 0 /\ Octets[text][i] \in Nat
    BY <1>2, <1>3, <2>3, Boundaries
  <2>6. 0 + i = i /\ 0 + Octets[text][i] = Octets[text][i]
    BY <1>5, <2>5
  <2>7. PICK size : size = Octets[text][i]
    OBVIOUS
  <2>8. Octets[t][i] = 0 + size /\ 0 + size = size
    BY <2>4, <2>5, <2>6, <2>7
  <2> QED BY <2>7, <2>8
<1>13. Octets[t][i + Len(new)] = Octets[t][i] + Octets[new][Len(new)]
  <2>1. ASSUME NEW k \in 1..Len(new) PROVE t[i + k] = new[k]
    <3>1. i + k \in 1..i + Len(new)
      BY <1>5
    <3>2. t[i + k] = (front \o new)[i + k]
      BY <1>9, <3>1
    <3> QED BY <1>8, <3>2
  <2>2. i \in 0..Len(t) /\ Len(new) \in 0..Len(new)
    BY <1>5, <1>11
  <2>3. PICK m : m = Len(new)
    OBVIOUS
  <2>4. m \in 0..Len(new) /\ i + m <= Len(t) /\ \A k \in 1..m : t[i + k] = new[k]
    BY <1>11, <2>1, <2>2, <2>3
  <2>5. Octets[t][i + m] = Octets[t][i] + Octets[new][m]
    BY <1>10, <2>2, <2>4, SamePiece
  <2> QED BY <2>3, <2>5
<1>14. o = Octets[t][i + Len(new)] /\ range.start = Octets[t][i]
  BY <1>2, <1>12, <1>13 DEF Size
<1>15. {range.start, o} \subseteq Offsets[t] /\ Offsets[t] \subseteq Nat
  <2>1. i \in 0..Len(t) /\ i + Len(new) \in 0..Len(t)
    BY <1>5, <1>11
  <2>2. Offsets[t] = {Octets[t][k] : k \in 0..Len(t)} /\ Offsets[t] \subseteq 0..Size(t) /\ Size(t) \in Nat
    BY <1>10, Boundaries
  <2> QED BY <1>14, <2>1, <2>2
<1>16. range.start <= o
  <2>1. Size(new) \in Nat /\ range.start \in Nat
    BY <1>10, <1>15, Boundaries
  <2> QED BY <2>1
<1>17. /\ sel' = [start |-> o, end |-> o, reversed |-> sel.reversed]
       /\ misplaced' = FALSE /\ UNCHANGED <<hits, is_selecting>>
  BY DEF Replaced
<1> QED BY <1>4, <1>10, <1>15, <1>16, <1>17

(* Replaced, and nothing composed any more.                                *)
LEMMA ReplaceKeeps ==
  ASSUME TextInv, NEW range, NEW new \in Seq(Char), Replace(range, new)
  PROVE  TextInv'
<1> DEFINE o == range.start + Size(new)
<1>1. Replaced(range, new) /\ marked' = Unmarked
  BY DEF Replace
<1>2. /\ text' \in Texts /\ o \in Nat /\ o \in Offsets[text']
      /\ sel' = [start |-> o, end |-> o, reversed |-> sel.reversed]
      /\ ~misplaced' /\ misplaced' \in BOOLEAN /\ UNCHANGED <<hits, is_selecting>>
  BY <1>1, ReplacedKeeps
<1> HIDE DEF o
<1>3. OnText(sel)'
  BY <1>2 DEF OnText
<1> QED BY <1>1, <1>2, <1>3 DEF TextInv, TextType

LEMMA ComposeKeeps ==
  ASSUME TextInv, NEW new \in Seq(Char), Compose(new)
  PROVE  TextInv'
<1> DEFINE range == InRange(Unmarked, sel)
           o == range.start + Size(new)
<1>1. Replaced(range, new)
      /\ marked' = IF new = <<>> THEN Unmarked ELSE [start |-> range.start, end |-> o]
  BY DEF Compose
<1>2. /\ text' \in Texts /\ o \in Nat /\ range.start \in Nat
      /\ {range.start, o} \subseteq Offsets[text'] /\ range.start <= o
      /\ sel' = [start |-> o, end |-> o, reversed |-> sel.reversed]
      /\ ~misplaced' /\ misplaced' \in BOOLEAN /\ UNCHANGED <<hits, is_selecting>>
  BY <1>1, ReplacedKeeps
<1> HIDE DEF o, range
<1>3. OnText(sel)'
  BY <1>2 DEF OnText
<1>4. marked' # Unmarked => OnText(marked)'
  <2> SUFFICES ASSUME marked' # Unmarked PROVE OnText(marked)'
    OBVIOUS
  <2>1. marked' = [start |-> range.start, end |-> o]
    BY <1>1
  <2> QED BY <1>2, <2>1 DEF OnText
<1> QED BY <1>2, <1>3, <1>4 DEF TextInv, TextType

LEMMA EmptyText == <<>> \in Texts
<1>1. <<>> \in Seq(Char) /\ Len(<<>>) = 0
  BY EmptySeq
<1>2. Len(<<>>) <= MaxChars
  BY <1>1, TextAssumption
<1>3. PICK s : s = <<>>
  OBVIOUS
<1>4. s \in Seq(Char) /\ Len(s) <= MaxChars
  BY <1>1, <1>2, <1>3
<1>5. s \in Texts
  BY <1>4, TextsAre
<1> QED BY <1>3, <1>5

LEMMA TextInitial == TextInit => TextInv
<1> SUFFICES ASSUME TextInit PROVE TextInv
  OBVIOUS
<1>1. text = <<>> /\ text \in Texts
  BY EmptyText DEF TextInit
<1>2. sel.start = 0 /\ sel.end = 0 /\ sel.reversed = FALSE
  BY DEF TextInit
<1>3. OnText(sel)
  BY <1>1, <1>2, Boundaries DEF OnText
<1>4. marked = Unmarked /\ hits = {0} /\ is_selecting \in BOOLEAN /\ misplaced \in BOOLEAN
  BY DEF TextInit
<1>5. hits \subseteq Nat /\ sel.reversed \in BOOLEAN
  <2>1. hits \subseteq Nat
    BY <1>4
  <2>2. sel.reversed \in BOOLEAN
    BY <1>2
  <2> QED BY <2>1, <2>2
<1>6. TextType
  BY <1>1, <1>2, <1>4, <1>5 DEF TextType
<1> QED BY <1>3, <1>4, <1>6 DEF TextInv

LEMMA MouseSelects ==
  ASSUME TextInv
  PROVE  /\ \A shift \in BOOLEAN : MouseDown(shift) => TextInv'
         /\ MouseMove => TextInv'
<1>1. MouseIndexes \subseteq Nat /\ text \in Texts /\ Offsets[text] \subseteq Nat
  <2>1. text \in Texts /\ hits \subseteq Nat
    BY DEF TextInv, TextType
  <2>2. Size(text) \in Nat /\ Offsets[text] \subseteq Nat
    BY <2>1, Boundaries
  <2>3. MouseIndexes \subseteq {0} \union ({0, Size(text)} \union hits)
    BY DEF MouseIndexes
  <2> QED BY <2>1, <2>2, <2>3
<1>2. ASSUME NEW shift \in BOOLEAN, MouseDown(shift) PROVE TextInv'
  <2>1. PICK o \in MouseIndexes :
          /\ sel' = IF shift THEN Extended(sel, o) ELSE MovedTo(o)
          /\ misplaced' = (Stale(o) \/ (shift /\ misplaced))
    BY <1>2 DEF MouseDown
  <2>2. is_selecting' \in BOOLEAN /\ misplaced' \in BOOLEAN /\ UNCHANGED <<text, marked, hits>>
    <3>1. (Stale(o) \/ (shift /\ misplaced)) \in BOOLEAN
      OBVIOUS
    <3> QED BY <1>2, <2>1, <3>1 DEF MouseDown
  <2>3. o \in Nat
    BY <1>1
  <2>4. ASSUME ~misplaced' PROVE o \in Offsets[text] /\ (shift => ~misplaced)
    BY <2>1, <2>4 DEF Stale
  <2>5. CASE shift
    BY <2>1, <2>2, <2>3, <2>4, <2>5, SelectionExtends
  <2>6. CASE ~shift
    <3>1. sel' = [start |-> o, end |-> o, reversed |-> sel.reversed]
      BY <2>1, <2>6 DEF MovedTo
    <3>2. ~misplaced' => OnText(sel)'
      BY <2>2, <2>3, <2>4, <3>1 DEF OnText
    <3> QED BY <2>2, <2>3, <3>1, <3>2, SelectionMoves DEF TextInv, TextType
  <2> QED BY <2>5, <2>6
<1>3. ASSUME MouseMove PROVE TextInv'
  <2>1. PICK o \in MouseIndexes :
          sel' = Extended(sel, o) /\ misplaced' = (misplaced \/ Stale(o))
    BY <1>3 DEF MouseMove
  <2>2. is_selecting' \in BOOLEAN /\ misplaced' \in BOOLEAN /\ UNCHANGED <<text, marked, hits>>
    <3>1. (misplaced \/ Stale(o)) \in BOOLEAN /\ is_selecting \in BOOLEAN
      BY DEF TextInv, TextType
    <3> QED BY <1>3, <2>1, <3>1 DEF MouseMove
  <2>3. o \in Nat /\ (~misplaced' => ~misplaced /\ o \in Offsets[text])
    BY <1>1, <2>1 DEF Stale
  <2> QED BY <2>1, <2>2, <2>3, SelectionExtends
<1> QED BY <1>2, <1>3

LEMMA TextStep == TextInv /\ [TextNext]_textVars => TextInv'
<1> SUFFICES ASSUME TextInv, [TextNext]_textVars PROVE TextInv'
  OBVIOUS
<1>0. /\ text \in Texts /\ {0, Size(text)} \subseteq Offsets[text] /\ Offsets[text] \subseteq Nat
      /\ <<>> \in Seq(Char) /\ \A c \in Char : <<c>> \in Seq(Char) /\ <<c, c>> \in Seq(Char)
  BY Boundaries DEF TextInv, TextType
<1>1. CASE UNCHANGED textVars
  BY <1>1 DEF textVars, TextInv, TextType, OnText
<1>2. ASSUME NEW o, o \in Offsets[text] \union {sel.start, sel.end}, MoveTo(o) PROVE TextInv'
  BY <1>2, CursorMoves, CursorToEnd
<1>3. CASE Left \/ Right \/ Home \/ End
  <2>1. CASE Left
    BY <1>0, <1>2, <2>1, MovesOnText DEF Left
  <2>2. CASE Right
    BY <1>0, <1>2, <2>2, MovesOnText DEF Right
  <2> QED BY <1>0, <1>2, <1>3, <2>1, <2>2 DEF Home, End
<1>4. CASE WordLeft \/ WordRight
  BY <1>0, <1>2, <1>4, MovesOnText DEF WordLeft, WordRight
<1>5. CASE SelectLeft \/ SelectRight
  <2>1. PICK o \in Offsets[text] : SelectTo(o)
    BY <1>0, <1>5, MovesOnText DEF SelectLeft, SelectRight
  <2>2. is_selecting' \in BOOLEAN /\ misplaced' \in BOOLEAN
    BY <2>1 DEF SelectTo, TextInv, TextType
  <2> QED BY <1>0, <2>1, <2>2, SelectionExtends DEF SelectTo
<1>6. CASE SelectAll
  BY <1>6, AllSelected
<1>7. ASSUME NEW range, NEW new \in Seq(Char), Replace(range, new) PROVE TextInv'
  BY <1>7, ReplaceKeeps
<1>8. CASE Backspace \/ Delete \/ DeleteWord \/ ClearLine \/ Cut
  BY <1>0, <1>7, <1>8 DEF Backspace, Delete, DeleteWord, RemoveTo, ClearLine, Cut
<1>9. ASSUME NEW c \in Char, Insert(<<c>>) PROVE TextInv'
  BY <1>0, <1>7, <1>9 DEF Insert
<1>10. ASSUME NEW c \in Char, Compose(<<c>>) \/ Compose(<<c, c>>) PROVE TextInv'
  BY <1>0, <1>10, ComposeKeeps
<1>11. CASE Compose(<<>>)
  BY <1>0, <1>11, ComposeKeeps
<1>12. CASE Decompose
  BY <1>0, <1>7, <1>12 DEF Decompose
<1>13. CASE Unmark
  BY <1>13 DEF Unmark, TextInv, TextType, OnText
<1>14. CASE SetText
  <2>1. text' = <<>> /\ marked' = Unmarked /\ misplaced' = FALSE /\ UNCHANGED <<hits, is_selecting>>
        /\ sel' = [start |-> 0, end |-> 0, reversed |-> sel.reversed]
    BY <1>14 DEF SetText
  <2>2. text' \in Texts
    BY <2>1, EmptyText
  <2>3. 0 \in Offsets[text']
    BY <2>2, Boundaries
  <2>4. OnText(sel)'
    BY <2>1, <2>3 DEF OnText
  <2> QED BY <2>1, <2>2, <2>4 DEF TextInv, TextType
<1>15. CASE Paint
  <2>1. Painted(text) \subseteq Nat
    BY <1>0, TextAssumption DEF Painted
  <2> QED BY <1>15, <2>1 DEF Paint, TextInv, TextType, OnText
<1>16. CASE MouseDown(TRUE) \/ MouseDown(FALSE) \/ MouseMove
  BY <1>16, MouseSelects
<1>17. CASE MouseUp
  BY <1>17 DEF MouseUp, TextInv, TextType, OnText
<1> QED BY <1>1, <1>3, <1>4, <1>5, <1>6, <1>8, <1>9, <1>10, <1>11, <1>12, <1>13, <1>14, <1>15,
           <1>16, <1>17 DEF TextNext

LEMMA TextInvSays == TextInv => TextType /\ OffsetsOnText
BY Converts DEF TextInv, TextType, OffsetsOnText

(* OffsetsOnText for any characters, lengths in bytes and units, and bound *)
(* on the text: the offsets input.rs slices the text at are boundaries of  *)
(* it after any keys, edits and composing, unless a mouse event was        *)
(* located in the layout of an earlier text.                               *)
THEOREM OffsetsStayOnText == TextSpec => [](TextType /\ OffsetsOnText)
BY TextInitial, TextStep, TextInvSays, PTL DEF TextSpec

-----------------------------------------------------------------------------
(* The parts of zofi beside each other: a step of the instance is one of a *)
(* part, or leaves that part as it is.                                     *)
LEMMA ZofiStarts ==
  MCInit => StoreInit /\ LauncherInit /\ TextInit /\ UsageInit /\ StartInit /\ CaptureInit
BY DEF MCInit

LEMMA ZofiMoves ==
  [MCNext]_zofiVars => /\ [StoreNext]_storeVars /\ [LauncherNext]_launcherVars
                       /\ [TextNext]_textVars /\ [UsageNext]_usageVars
                       /\ [StartNext]_startVars /\ [CaptureNext]_captureVars
BY DEF MCNext, zofiVars, OthersStore, OthersLauncher, OthersInput, OthersUsage, OthersStart, OthersCapture

LEMMA ZofiParts ==
  MCSpec => StoreSpec /\ LauncherSpec /\ TextSpec /\ UsageSpec /\ StartSpec /\ CaptureSpec
BY ZofiStarts, ZofiMoves, PTL DEF MCSpec, StoreSpec, LauncherSpec, TextSpec, UsageSpec, StartSpec,
                                  CaptureSpec

(* TypeOK of zofi's instance, for any uuids, rows, texts, launchers,       *)
(* processes and windows: no part ever holds what the code has no kind for. *)
THEOREM ZofiTyped == MCSpec => []TypeOK
<1>1. UsageInv => UsageType
  BY DEF UsageInv
<1>2. StartInv => StartType
  BY DEF StartInv
<1>3. CaptureInv => CaptureType
  BY DEF CaptureInv
<1>4. StoreTypeOK /\ LauncherType /\ TextType /\ UsageType /\ StartType /\ CaptureType => TypeOK
  BY DEF TypeOK
<1>5. StoreSpec => []StoreTypeOK
  BY StoreType
<1>6. UsageSpec => []UsageInv
  BY UsageInitial, UsageStep, PTL DEF UsageSpec
<1>7. StartSpec => []StartInv
  BY StartInitial, StartStep, PTL DEF StartSpec
<1>8. CaptureSpec => []CaptureInv
  BY CaptureInitial, CaptureStep, PTL DEF CaptureSpec
<1> QED BY <1>1, <1>2, <1>3, <1>4, <1>5, <1>6, <1>7, <1>8, ZofiParts, ViewStaysCoherent,
           OffsetsStayOnText, PTL
=============================================================================
