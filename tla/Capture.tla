------------------------------- MODULE Capture ------------------------------
(* capture_toplevels (crates/zwindows/src/toplevel_capture.rs): one after    *)
(* the other, each window is captured into a buffer through a source, a      *)
(* session and a frame, under one deadline. The compositor renders what is   *)
(* captured off screen for as long as these objects live.                   *)
EXTENDS Naturals, FiniteSets

CONSTANTS Window

VARIABLES
  capturing,  \* where the call is
  current,    \* the window being captured
  waiting,    \* those still to be
  listed,     \* State::toplevels
  objects,    \* live protocol objects: a kind, and the window it belongs to
  sess, frm,  \* SessionState, FrameState
  late,       \* the deadline has passed
  listing,    \* the compositor still announces windows
  results,    \* the windows whose buffers are returned
  dropped     \* windows whose handle, or whose capture, nothing refers to (history)

captureVars == <<capturing, current, waiting, listed, objects, sess, frm, late, listing,
                 results, dropped>>

NoSession == [complete |-> FALSE, done |-> FALSE, stopped |-> FALSE]
NoFrame == [ready |-> FALSE, failed |-> FALSE]
Nowhere == [handles |-> {}, shm |-> {}]

Of(kinds, w) == {<<k, w>> : k \in kinds}

CaptureInit ==
  /\ capturing = "bind" /\ current = (CHOOSE w \in Window : TRUE) /\ waiting = {} /\ listed = {} /\ objects = {}
  /\ sess = NoSession /\ frm = NoFrame /\ late = FALSE /\ listing = TRUE
  /\ results = {} /\ dropped = Nowhere

(* Two roundtrips; those with no app_id, or no done yet, are left out. With  *)
(* nothing to capture, or a global missing, the call returns.               *)
Lists ==
  /\ capturing = "bind"
  /\ \E all \in SUBSET Window : \E usable \in SUBSET all :
       /\ listed' = all /\ waiting' = usable
       /\ objects' = {<<"handle", w>> : w \in all}
       /\ capturing' = IF usable = {} THEN "nothing to do" ELSE "next"
  /\ UNCHANGED <<current, sess, frm, late, listing, results, dropped>>

(* The list is stopped, but windows are announced until the compositor reads *)
(* that; they reach a State that is thrown away.                            *)
Announces(w) ==
  /\ listing /\ w \notin listed \union dropped.handles
  /\ objects' = objects \union {<<"handle", w>>}
  /\ dropped' = [dropped EXCEPT !.handles = @ \union {w}]

(* capture_one_toplevel.                                                    *)
Creates(w) ==
  /\ capturing = "next" /\ ~late /\ w \in waiting
  /\ waiting' = waiting \ {w} /\ current' = w
  /\ objects' = objects \union Of({"source", "session"}, w)
  /\ sess' = NoSession /\ frm' = NoFrame /\ capturing' = "session"
  /\ UNCHANGED <<listed, late, listing, results, dropped>>

Skipped(kinds) == objects' = objects \ Of(kinds, current) /\ capturing' = "next"

(* The deadline is looked at, then any event is waited for.                 *)
WaitsFor(what, blocked, kinds) ==
  /\ capturing = what
  /\ IF late THEN Skipped(kinds) ELSE capturing' = blocked /\ UNCHANGED objects
  /\ UNCHANGED <<current, waiting, listed, sess, frm, late, listing, results, dropped>>

(* Mutant of SessionWait: the timeout only destroys the source.             *)
SessionWaitLeaky == WaitsFor("session", "session blocked", {"source"})

SessionWait == WaitsFor("session", "session blocked", {"source", "session"})
FrameWait == WaitsFor("frame", "frame blocked", {"frame", "session", "source", "buffer"})

(* Events arrive, of the session or not; stopped comes first.               *)
SessionEvents ==
  /\ capturing = "session blocked"
  /\ sess' \in [complete : {sess.complete, TRUE}, done : {sess.done, TRUE}, stopped : BOOLEAN]
  /\ \/ UNCHANGED <<objects, dropped>>
     \/ \E w \in Window : Announces(w)
  /\ capturing' = IF sess'.stopped THEN "stopped"
                  ELSE IF sess'.done /\ sess'.complete THEN "constrained" ELSE "session"
  /\ UNCHANGED <<current, waiting, listed, frm, late, listing, results>>

Stopped ==
  /\ capturing = "stopped" /\ Skipped({"session", "source"})
  /\ UNCHANGED <<current, waiting, listed, sess, frm, late, listing, results, dropped>>

(* Without memory for the buffer the `?` leaves source and session behind.  *)
StartsFrame ==
  /\ capturing = "constrained"
  /\ \/ /\ objects' = objects \union Of({"buffer", "frame"}, current)
        /\ capturing' = "frame" /\ UNCHANGED dropped
     \/ /\ dropped' = [dropped EXCEPT !.shm = @ \union {current}]
        /\ capturing' = "next" /\ UNCHANGED objects
  /\ UNCHANGED <<current, waiting, listed, sess, frm, late, listing, results>>

FrameEvents ==
  /\ capturing = "frame blocked"
  /\ frm' \in {NoFrame, [NoFrame EXCEPT !.ready = TRUE], [NoFrame EXCEPT !.failed = TRUE]}
  /\ sess' \in {sess, [sess EXCEPT !.stopped = TRUE]}
  /\ \/ UNCHANGED <<objects, dropped>>
     \/ \E w \in Window : Announces(w)
  /\ capturing' = IF frm'.failed \/ frm'.ready THEN "captured" ELSE "frame"
  /\ UNCHANGED <<current, waiting, listed, late, listing, results>>

Captured ==
  /\ capturing = "captured" /\ Skipped({"frame", "session", "source", "buffer"})
  /\ results' = IF frm.ready THEN results \union {current} ELSE results
  /\ UNCHANGED <<current, waiting, listed, sess, frm, late, listing, dropped>>

(* The handles are destroyed, and the requests seen, before the call returns. *)
Releases ==
  /\ capturing = "next" /\ (late \/ waiting = {})
  /\ objects' = objects \ {<<"handle", w>> : w \in listed}
  /\ capturing' = "returned"
  /\ UNCHANGED <<current, waiting, listed, sess, frm, late, listing, results, dropped>>

(* A dead connection ends every dispatch; the compositor drops what it had.  *)
Disconnects ==
  /\ capturing \in {"session blocked", "frame blocked"}
  /\ objects' = {} /\ capturing' = "returned"
  /\ UNCHANGED <<current, waiting, listed, sess, frm, late, listing, results, dropped>>

Elapses == ~late /\ late' = TRUE
           /\ UNCHANGED <<capturing, current, waiting, listed, objects, sess, frm, listing, results, dropped>>

StopSeen == listing /\ capturing # "bind" /\ listing' = FALSE
            /\ UNCHANGED <<capturing, current, waiting, listed, objects, sess, frm, late, results, dropped>>

CaptureNext ==
  \/ Lists \/ (\E w \in Window : Creates(w)) \/ SessionWait \/ SessionEvents \/ Stopped
  \/ StartsFrame \/ FrameWait \/ FrameEvents \/ Captured \/ Releases
  \/ Disconnects \/ Elapses \/ StopSeen

CaptureSpec == CaptureInit /\ [][CaptureNext]_captureVars

CaptureType ==
  /\ objects \subseteq {"handle", "source", "session", "buffer", "frame"} \X Window
  /\ waiting \subseteq listed /\ results \subseteq listed /\ late \in BOOLEAN

(* What toplevel_capture.rs:170-173 wants, "Without this, sway keeps windows *)
(* in a degraded rendering mode": from whichever wait a capture leaves, by   *)
(* success, failure, stop or deadline, nothing of it is alive when the next  *)
(* begins or the call returns. Left behind are the sources and sessions of   *)
(* windows whose buffer could not be made, and handles announced too late;  *)
(* with no window to capture the handles of the list go with the connection. *)
CaptureReleased ==
  capturing \in {"next", "returned"} =>
    \A o \in objects : \/ o[1] = "handle" /\ (capturing = "returned" => o[2] \in dropped.handles)
                       \/ o[1] \in {"source", "session"} /\ o[2] \in dropped.shm
=============================================================================
