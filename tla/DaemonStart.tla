----------------------------- MODULE DaemonStart ----------------------------
(* How launchers come by the one clipboard daemon: the pid file they probe,  *)
(* its lock, and the socket. Processes may die between any two steps, and    *)
(* their ids be used again.                                                 *)
EXTENDS Naturals

CONSTANTS Pid,       \* process ids
          Asking,    \* launchers that load the clipboard source
          Nobody,
          MaxDeaths  \* bound: processes that die

ASSUME StartAssumption ==
  /\ Pid \intersect {Nobody, "absent", "empty", "dead"} = {}
  /\ MaxDeaths \in Nat

VARIABLES
  procs,    \* pid -> "free", "other", or how far a daemon has come
  pidfile,  \* "absent", "empty", or the pid in it
  lock,     \* the daemon that has the file locked
  sock,     \* the socket file: none, "dead", or the daemon that listens
  asking,   \* launcher -> how far load() has come
  deaths

startVars == <<procs, pidfile, lock, sock, asking, deaths>>

Daemon == {"spawned", "opened", "locked", "truncated", "written", "unlinked", "ready"}

StartInit ==
  /\ procs = [p \in Pid |-> "free"] /\ pidfile = "absent" /\ lock = Nobody /\ sock = Nobody
  /\ asking = [l \in Asking |-> "idle"] /\ deaths = 0

Goes(p, from, to) == procs[p] = from /\ procs' = [procs EXCEPT ![p] = to]

-----------------------------------------------------------------------------
(* ClipboardSource::load.                                                   *)

(* kill(pid, 0) says that some process has the id.                          *)
Probe == pidfile \in Pid /\ procs[pidfile] # "free"

Load(l) ==
  /\ asking[l] = "idle"
  /\ \/ Probe /\ asking' = [asking EXCEPT ![l] = "up"] /\ UNCHANGED procs
     \/ ~Probe /\ asking' = [asking EXCEPT ![l] = "waiting"]
        /\ \E p \in Pid : Goes(p, "free", "spawned")
     \/ ~Probe /\ asking' = [asking EXCEPT ![l] = "down"] /\ UNCHANGED procs
  /\ UNCHANGED <<pidfile, lock, sock, deaths>>

(* Every 25 ms, for 1.5 s.                                                  *)
Waits(l) ==
  /\ asking[l] = "waiting"
  /\ asking' = [asking EXCEPT ![l] = IF Probe THEN "up" ELSE "down"]
  /\ UNCHANGED <<procs, pidfile, lock, sock, deaths>>

Quits(l) ==
  /\ asking[l] \in {"up", "down"} /\ asking' = [asking EXCEPT ![l] = "idle"]
  /\ UNCHANGED <<procs, pidfile, lock, sock, deaths>>

-----------------------------------------------------------------------------
(* zofi clipd: DaemonLock::acquire, the database and the globals, the socket. *)

(* Mutant of OpensPidfile: with truncate(true).                             *)
OpensPidfileEmpty(p) ==
  /\ Goes(p, "spawned", "opened") /\ pidfile' = "empty"
  /\ UNCHANGED <<lock, sock, asking, deaths>>

OpensPidfile(p) ==
  /\ Goes(p, "spawned", "opened")
  /\ pidfile' = IF pidfile = "absent" THEN "empty" ELSE pidfile
  /\ UNCHANGED <<lock, sock, asking, deaths>>

(* The lock is not waited for.                                              *)
Locks(p) ==
  /\ IF lock = Nobody THEN lock' = p /\ Goes(p, "opened", "locked")
                      ELSE Goes(p, "opened", "free") /\ UNCHANGED lock
  /\ UNCHANGED <<pidfile, sock, asking, deaths>>

TruncatesPidfile(p) ==
  Goes(p, "locked", "truncated") /\ pidfile' = "empty" /\ UNCHANGED <<lock, sock, asking, deaths>>

WritesPid(p) ==
  Goes(p, "truncated", "written") /\ pidfile' = p /\ UNCHANGED <<lock, sock, asking, deaths>>

UnlinksSocket(p) ==
  Goes(p, "written", "unlinked") /\ sock' = Nobody /\ UNCHANGED <<pidfile, lock, asking, deaths>>

Binds(p) ==
  /\ sock = Nobody /\ Goes(p, "unlinked", "ready") /\ sock' = p
  /\ UNCHANGED <<pidfile, lock, asking, deaths>>

(* Ends, on an error of any step or killed; the files stay.                 *)
Ends(p) ==
  /\ procs[p] # "free" /\ deaths < MaxDeaths /\ deaths' = deaths + 1
  /\ procs' = [procs EXCEPT ![p] = "free"]
  /\ lock' = IF lock = p THEN Nobody ELSE lock
  /\ sock' = IF sock = p THEN "dead" ELSE sock
  /\ UNCHANGED <<pidfile, asking>>

OtherStarts(p) == Goes(p, "free", "other") /\ UNCHANGED <<pidfile, lock, sock, asking, deaths>>

StartNext ==
  \/ \E l \in Asking : Load(l) \/ Waits(l) \/ Quits(l)
  \/ \E p \in Pid : \/ OpensPidfile(p) \/ Locks(p) \/ TruncatesPidfile(p) \/ WritesPid(p)
                    \/ UnlinksSocket(p) \/ Binds(p) \/ Ends(p) \/ OtherStarts(p)

StartSpec == StartInit /\ [][StartNext]_startVars

StartType ==
  /\ procs \in [Pid -> Daemon \union {"free", "other"}]
  /\ pidfile \in Pid \union {"absent", "empty"} /\ lock \in Pid \union {Nobody}
  /\ sock \in Pid \union {Nobody, "dead"} /\ deaths \in 0..MaxDeaths
  /\ asking \in [Asking -> {"idle", "waiting", "up", "down"}]

(* pidfile.rs:32-61 and daemon.rs:139-148: launchers that start daemons at   *)
(* the same time, daemons that lose the race or die half way and files left  *)
(* behind never lead to two that listen, nor to a socket or a pid taken from *)
(* the one that does.                                                       *)
SocketIsHolders ==
  \A p \in Pid : procs[p] = "ready" => lock = p /\ pidfile = p /\ sock = p
=============================================================================
