----------------------------- MODULE Brightness -----------------------------
(* The brightness module of zbar: a backlight set by brightnessctl and read *)
(* back by a poll, or monitors set over DDC/CI by one worker thread per bus.*)
EXTENDS Naturals, Sequences, FiniteSets, SequencesExt

CONSTANTS Monitor     \* monitors that answer over DDC/CI
CONSTANTS Backlight   \* the key of the backlight: an empty path
CONSTANTS Percent     \* the percentages that set_percent is asked for
CONSTANTS Scale       \* the maxima that devices report
CONSTANTS NoLevel     \* -1 in a target, no entry in percents
CONSTANTS EchoCap     \* capacity of worker_echo_tx
CONSTANTS MaxSets     \* bound: calls of set_percent, and failures of the backlight's file

ASSUME BrightnessAssumption ==
  /\ Backlight \notin Monitor /\ NoLevel \notin Nat /\ EchoCap \in Nat \ {0}
  /\ Percent \subseteq 0..100 /\ Scale \subseteq Nat

VARIABLES
  source,    \* "backlight" or "ddc"
  scale,     \* the maximum of each device
  hw,        \* the level each device has, in its own units
  readable,  \* can the backlight's level be read and parsed?
  percents,  \* the level the module shows, a percentage
  setting,   \* the step set_percent is at: monitors still to do, one to wake
  sets,
  target,    \* target[m]: the atomic the worker swaps
  wake,      \* wake[m]: is a wake-up queued?
  worker,    \* worker[m]: "open", "recv", "drain", "swap", "set", "echo" or "gone"
  value,     \* value[m]: the percentage its worker writes
  echoes,    \* <<key, level>> queued for the GUI thread
  procs,     \* brightnessctl processes that have not run yet
  polled,    \* a level the poll has read and not shown yet
  asked,     \* asked[k]: the percentage asked for last (history)
  failed,    \* monitors whose last write failed (history)
  echoLost   \* an echo found the channel full (history)

ddcVars == <<target, wake, worker, value>>
deviceVars == <<source, scale, readable>>
brightVars == <<deviceVars, hw, percents, setting, sets, ddcVars, echoes, procs, polled,
                asked, failed, echoLost>>

Device == Monitor \union {Backlight}

(* read_ddc and read_backlight scale a level to a percentage.               *)
ReadPercent(d) == IF scale[d] = 0 THEN NoLevel ELSE (hw[d] * 100) \div scale[d]

(* The percentage p of a device's scale.                                    *)
Share(p, d) == (p * scale[d]) \div 100

(* The levels are read once at the start; each of the reads may fail.       *)
BrightInit ==
  /\ source \in {"backlight", "ddc"} /\ readable \in BOOLEAN
  /\ scale \in [Device -> Scale] /\ scale[Backlight] > 0
  /\ \E p \in Percent : hw = [d \in Device |-> Share(p, d)]
  /\ \E read \in SUBSET Device : /\ Backlight \in read => readable
                                /\ percents = [d \in Device |-> IF d \in read THEN ReadPercent(d) ELSE NoLevel]
  /\ setting = [todo |-> {}, wakes |-> {}, level |-> NoLevel] /\ sets = 0
  /\ target = [m \in Monitor |-> NoLevel] /\ wake = [m \in Monitor |-> FALSE]
  /\ worker = [m \in Monitor |-> "open"] /\ value = target
  /\ echoes = <<>> /\ procs = <<>> /\ polled = NoLevel
  /\ asked = [d \in Device |-> NoLevel] /\ failed = {} /\ echoLost = FALSE

GuiFree == setting.todo = {} /\ setting.wakes = {}

EchoSent(k, l) ==
  IF Len(echoes) < EchoCap THEN echoes' = Append(echoes, <<k, l>>) /\ UNCHANGED echoLost
  ELSE echoLost' = TRUE /\ UNCHANGED echoes

(* set_percent for one monitor or for all: the target is stored, then its   *)
(* worker is woken, monitor by monitor, while the workers run.              *)
SetPercent(S, l) ==
  /\ GuiFree /\ sets < MaxSets /\ sets' = sets + 1
  /\ \/ /\ source = "backlight" /\ S = Monitor
        /\ EchoSent(Backlight, l) /\ procs' = Append(procs, l)
        /\ asked' = [asked EXCEPT ![Backlight] = l] /\ UNCHANGED setting
     \/ /\ source = "ddc" /\ setting' = [todo |-> S, wakes |-> {}, level |-> l]
        /\ UNCHANGED <<echoes, echoLost, procs, asked>>
  /\ UNCHANGED <<deviceVars, hw, percents, ddcVars, polled, failed>>

TargetStored(m) ==
  /\ setting.wakes = {} /\ m \in setting.todo
  /\ target' = [target EXCEPT ![m] = setting.level]
  /\ asked' = [asked EXCEPT ![m] = setting.level]
  /\ setting' = [setting EXCEPT !.todo = @ \ {m}, !.wakes = {m}]
  /\ UNCHANGED <<deviceVars, hw, percents, sets, wake, worker, value, echoes, procs, polled, failed, echoLost>>

WorkerWoken(m) ==
  /\ m \in setting.wakes /\ wake' = [wake EXCEPT ![m] = TRUE]
  /\ setting' = [setting EXCEPT !.wakes = {}]
  /\ UNCHANGED <<deviceVars, hw, percents, sets, target, worker, value, echoes, procs, polled, asked, failed, echoLost>>

-----------------------------------------------------------------------------
(* The worker of a bus.                                                     *)

Moves(m, from, to) == worker[m] = from /\ worker' = [worker EXCEPT ![m] = to]

WorkerOpens(m) ==
  /\ source = "ddc"
  /\ Moves(m, "open", "recv") \/ Moves(m, "open", "gone")
  /\ UNCHANGED <<deviceVars, hw, percents, setting, sets, target, wake, value, echoes, procs, polled, asked, failed, echoLost>>

WorkerReceives(m) ==
  /\ wake[m] /\ Moves(m, "recv", "drain") /\ wake' = [wake EXCEPT ![m] = FALSE]
  /\ UNCHANGED <<deviceVars, hw, percents, setting, sets, target, value, echoes, procs, polled, asked, failed, echoLost>>

(* More wake-ups are drained before the target is taken.                    *)
WorkerDrains(m) ==
  /\ Moves(m, "drain", "swap") /\ wake' = [wake EXCEPT ![m] = FALSE]
  /\ UNCHANGED <<deviceVars, hw, percents, setting, sets, target, value, echoes, procs, polled, asked, failed, echoLost>>

WorkerSwaps(m) ==
  /\ \/ target[m] = NoLevel /\ Moves(m, "swap", "recv")
     \/ target[m] # NoLevel /\ Moves(m, "swap", "set")
  /\ value' = [value EXCEPT ![m] = target[m]]
  /\ target' = [target EXCEPT ![m] = NoLevel]
  /\ UNCHANGED <<deviceVars, hw, percents, setting, sets, wake, echoes, procs, polled, asked, failed, echoLost>>

(* What a monitor has after l is written to it: a value beyond its maximum  *)
(* it refuses or cuts.                                                      *)
Taken(m, l) == IF l <= scale[m] THEN {l} ELSE {hw[m], scale[m]}

(* Mutant of WorkerSets: the wake-ups are drained once the level is written. *)
WorkerSetsDraining(m) ==
  /\ Moves(m, "set", "echo") /\ wake' = [wake EXCEPT ![m] = FALSE]
  /\ \E l \in Taken(m, value[m]) : hw' = [hw EXCEPT ![m] = l]
  /\ failed' = failed \ {m}
  /\ UNCHANGED <<deviceVars, percents, setting, sets, target, value, echoes, procs, polled, asked, echoLost>>

(* The percentage is written as it is, whatever the monitor's maximum.      *)
WorkerSets(m) ==
  /\ Moves(m, "set", "echo")
  /\ \/ /\ \E l \in Taken(m, value[m]) : hw' = [hw EXCEPT ![m] = l]
        /\ failed' = failed \ {m}
     \/ failed' = failed \union {m} /\ UNCHANGED hw
  /\ UNCHANGED <<deviceVars, percents, setting, sets, target, wake, value, echoes, procs, polled, asked, echoLost>>

(* The level is echoed whether the write failed or not.                     *)
WorkerEchoes(m) ==
  /\ Moves(m, "echo", "recv") /\ EchoSent(m, value[m])
  /\ UNCHANGED <<deviceVars, hw, percents, setting, sets, target, wake, value, procs, polled, asked, failed>>

-----------------------------------------------------------------------------
EchoShown ==
  /\ GuiFree /\ echoes # <<>> /\ echoes' = Tail(echoes)
  /\ percents' = [percents EXCEPT ![Head(echoes)[1]] = Head(echoes)[2]]
  /\ UNCHANGED <<deviceVars, hw, setting, sets, ddcVars, procs, polled, asked, failed, echoLost>>

(* Each brightnessctl is a process of its own; they may overtake another,   *)
(* and one that fails leaves the backlight as it is.                        *)
ProcRuns ==
  /\ \E n \in DOMAIN procs :
       /\ procs' = RemoveAt(procs, n)
       /\ hw' \in {hw, [hw EXCEPT ![Backlight] = Share(procs[n], Backlight)]}
  /\ UNCHANGED <<deviceVars, percents, setting, sets, ddcVars, echoes, polled, asked, failed, echoLost>>

(* The backlight's file goes, is unreadable, or is back.                    *)
ReadingBreaks ==
  /\ source = "backlight" /\ sets < MaxSets /\ sets' = sets + 1 /\ readable' = ~readable
  /\ UNCHANGED <<source, scale, hw, percents, setting, ddcVars, echoes, procs, polled, asked, failed, echoLost>>

(* Off the GUI thread; monitors are not polled, and a read that fails shows *)
(* nothing.                                                                 *)
PollReads ==
  /\ source = "backlight" /\ readable /\ polled = NoLevel /\ polled' = ReadPercent(Backlight)
  /\ UNCHANGED <<deviceVars, hw, percents, setting, sets, ddcVars, echoes, procs, asked, failed, echoLost>>

PollShown ==
  /\ polled # NoLevel /\ polled' = NoLevel
  /\ percents' = [percents EXCEPT ![Backlight] = polled]
  /\ UNCHANGED <<deviceVars, hw, setting, sets, ddcVars, echoes, procs, asked, failed, echoLost>>

WorkerStep(m) ==
  \/ TargetStored(m) \/ WorkerWoken(m) \/ WorkerOpens(m) \/ WorkerReceives(m)
  \/ WorkerDrains(m) \/ WorkerSwaps(m) \/ WorkerSets(m) \/ WorkerEchoes(m)

BrightNext ==
  \/ \E p \in Percent : SetPercent(Monitor, p) \/ \E m \in Monitor : SetPercent({m}, p)
  \/ \E m \in Monitor : WorkerStep(m)
  \/ EchoShown \/ ProcRuns \/ ReadingBreaks \/ PollReads \/ PollShown

BrightSpec == BrightInit /\ [][BrightNext]_brightVars

BrightType ==
  /\ scale \in [Device -> Scale] /\ readable \in BOOLEAN
  /\ hw \in [Device -> Nat] /\ percents \in [Device -> Nat \union {NoLevel}]
  /\ target \in [Monitor -> Percent \union {NoLevel}] /\ wake \in [Monitor -> BOOLEAN]
  /\ Len(echoes) <= EchoCap /\ asked \in [Device -> Percent \union {NoLevel}]

Settled(m) ==
  worker[m] = "recv" /\ ~wake[m] /\ GuiFree /\ \A n \in DOMAIN echoes : echoes[n][1] # m

(* brightness.rs:300-304: however fast the slider moves, a worker that has  *)
(* come to rest has written the number asked for last and not an earlier    *)
(* one, and the module shows that number. A write that failed, a number     *)
(* beyond the monitor's maximum and an echo that was dropped are excused:   *)
(* what the module then shows is not what the monitor has.                  *)
HardwareFollows == \A m \in Monitor : Settled(m) /\ asked[m] # NoLevel =>
  /\ m \notin failed /\ asked[m] <= scale[m] => hw[m] = asked[m]
  /\ ~echoLost => percents[m] = asked[m]

(* brightness.rs:203 "the 5s poll picks it up": in whichever order the      *)
(* brightnessctl processes run, and whether they failed, the module ends up *)
(* showing the backlight, if it can be read.                                *)
BacklightSettles ==
  source = "backlight" => <>[](readable => percents[Backlight] = ReadPercent(Backlight))
=============================================================================
