----------------------------- MODULE ThemeWatch -----------------------------
(* The theme of the bar: the config file, the thread of ztheme that watches *)
(* it and reloads it, and the global that zbar draws with.                  *)
EXTENDS Naturals, Sequences

CONSTANTS Theme, Mocha   \* the built-in themes; the one to fall back to
CONSTANTS ThemeQueueCap  \* capacity of the channel to the GUI thread
CONSTANTS MaxWrites      \* bound: writes to the file

ASSUME ThemeAssumption == Mocha \in Theme /\ ThemeQueueCap \in Nat \ {0} /\ MaxWrites \in Nat

VARIABLES
  conf,        \* content of config.toml: the name it holds, or another
  writes,
  watcher,     \* "start", "off", "recv", "debounce", "load" or "send"
  wevents,     \* write events of the file queued for the thread
  loaded,      \* the theme the thread has read
  themeQueue,  \* themes queued for the GUI thread
  theme,       \* the global theme
  saving,      \* the theme a click has saved and not shown yet, if any
  unseen       \* a write that no queued or coming load accounts for (history)

themeVars == <<conf, writes, watcher, wevents, loaded, themeQueue, theme, saving, unseen>>

(* A truncated file, no file, an unknown name.                              *)
Broken == {"partial", "absent", "unknown"}
NoTheme == "none"

Load(c) == IF c \in Theme THEN c ELSE Mocha

(* main loads the theme before it starts to watch.                          *)
ThemeInit ==
  /\ conf \in Theme \union Broken /\ writes = 0
  /\ watcher = "start" /\ wevents = 0 /\ loaded = Mocha
  /\ themeQueue = <<>> /\ theme = Load(conf) /\ saving = NoTheme /\ unseen = FALSE

WatchStarts ==
  /\ watcher = "start" /\ watcher' \in {"recv", "off"}
  /\ UNCHANGED <<conf, writes, wevents, loaded, themeQueue, theme, saving, unseen>>

FileWritten(c) ==
  /\ writes < MaxWrites /\ writes' = writes + 1 /\ conf' = c
  /\ IF watcher \in {"start", "off"}
     THEN unseen' = TRUE /\ UNCHANGED wevents
     ELSE wevents' = wevents + 1 /\ UNCHANGED unseen

(* Editors and other processes write in place, by renaming, or remove it.   *)
EditorWrites ==
  /\ \E c \in Theme \union Broken : FileWritten(c)
  /\ UNCHANGED <<watcher, loaded, themeQueue, theme, saving>>

(* A click on a theme: save renames a sibling over the file, then the click *)
(* shows the theme itself; the thread may run in between.                   *)
ThemeClicked ==
  /\ watcher # "start" /\ saving = NoTheme
  /\ \E t \in Theme : FileWritten(t) /\ saving' = t
  /\ UNCHANGED <<watcher, loaded, themeQueue, theme>>

ClickShows ==
  /\ saving # NoTheme /\ theme' = saving /\ saving' = NoTheme
  /\ UNCHANGED <<conf, writes, watcher, wevents, loaded, themeQueue, unseen>>

ThreadWakes ==
  /\ watcher = "recv" /\ wevents > 0
  /\ wevents' = wevents - 1 /\ watcher' = "debounce"
  /\ UNCHANGED <<conf, writes, loaded, themeQueue, theme, saving, unseen>>

DebounceSwallows ==
  /\ watcher = "debounce" /\ wevents > 0 /\ wevents' = wevents - 1
  /\ UNCHANGED <<conf, writes, watcher, loaded, themeQueue, theme, saving, unseen>>

DebounceEnds ==
  /\ watcher = "debounce" /\ watcher' = "load"
  /\ UNCHANGED <<conf, writes, wevents, loaded, themeQueue, theme, saving, unseen>>

ThreadLoads ==
  /\ watcher = "load" /\ loaded' = Load(conf) /\ watcher' = "send"
  /\ UNCHANGED <<conf, writes, wevents, themeQueue, theme, saving, unseen>>

(* Mutant of ThreadSends: the burst is drained after the file was read.     *)
ThreadSendsDraining ==
  /\ watcher = "send" /\ watcher' = "recv" /\ wevents' = 0
  /\ Len(themeQueue) < ThemeQueueCap
  /\ themeQueue' = Append(themeQueue, loaded) /\ unseen' = FALSE
  /\ UNCHANGED <<conf, writes, loaded, theme, saving>>

(* try_send: with a full channel the newest theme is dropped.               *)
ThreadSends ==
  /\ watcher = "send" /\ watcher' = "recv"
  /\ IF Len(themeQueue) < ThemeQueueCap
     THEN themeQueue' = Append(themeQueue, loaded) /\ unseen' = FALSE
     ELSE UNCHANGED themeQueue /\ unseen' = TRUE
  /\ UNCHANGED <<conf, writes, wevents, loaded, theme, saving>>

GlobalSet ==
  /\ saving = NoTheme /\ themeQueue # <<>>
  /\ theme' = Head(themeQueue) /\ themeQueue' = Tail(themeQueue)
  /\ UNCHANGED <<conf, writes, watcher, wevents, loaded, saving, unseen>>

ThemeNext ==
  \/ WatchStarts \/ EditorWrites \/ ThemeClicked \/ ClickShows
  \/ ThreadWakes \/ DebounceSwallows \/ DebounceEnds \/ ThreadLoads \/ ThreadSends
  \/ GlobalSet

ThemeSpec == ThemeInit /\ [][ThemeNext]_themeVars

ThemeType ==
  /\ conf \in Theme \union Broken /\ theme \in Theme /\ loaded \in Theme
  /\ watcher \in {"start", "off", "recv", "debounce", "load", "send"}
  /\ wevents \in 0..MaxWrites /\ Len(themeQueue) <= ThemeQueueCap
  /\ saving \in Theme \union {NoTheme} /\ unseen \in BOOLEAN

(* watcher.rs:75-101: a burst of writes is reloaded once, and what is shown  *)
(* in the end is what the file says, whatever was clicked in between. Only a *)
(* write before the watch and a theme that found the channel full are owed.  *)
ThemeSettles ==
  (/\ watcher = "recv" /\ wevents = 0 /\ themeQueue = <<>>
   /\ saving = NoTheme /\ ~unseen) => theme = Load(conf)
=============================================================================
