------------------------------- MODULE MCZofi -------------------------------
(* The parts of zofi that keep state of their own, with the clipboard's      *)
(* database: a behaviour lets one of them run and keeps the others as they   *)
(* start, so the instance is the sum of theirs, not the product.            *)
EXTENDS ClipStore, Launcher, TextInput, Usage, DaemonStart, Capture, TLC

CONSTANTS u1, u2, u3, u4, a, b      \* uuids and contents of the database
CONSTANTS w1, w2, a1, c1            \* windows, an application, an entry

(* The registry of main.rs: windows and apps in a union, then clipboard.    *)
MCRegistry == << <<"windows", "apps">>, <<"clipboard">> >>
MCPrefix == "windows" :> "@" @@ "apps" :> ">" @@ "clipboard" :> "'"
MCFixed == "apps" :> <<a1>> @@ "clipboard" :> <<c1>>

MCQuery == {<<>>, <<"@">>, <<"'">>, <<"@", "x">>}

(* Nothing matches a prefix character but the clipboard entry; the longer   *)
(* text is in a window, the application and the clipboard entry.            *)
MCHits == w1 :> {<<>>, <<"@", "x">>} @@ w2 :> {<<>>} @@ a1 :> {<<>>, <<"@", "x">>}
            @@ c1 :> {<<>>, <<"'">>, <<"@", "x">>}
MCRank == w1 :> 0 @@ w2 :> 2 @@ a1 :> 1 @@ c1 :> 0
MCMimes == [r \in {w1, w2, a1, c1} |-> IF r = c1 THEN <<"plain", "html">> ELSE <<"plain">>]

(* A letter, and a character of four bytes that UTF-16 needs two units for. *)
MCUtf8 == "a" :> 1 @@ "wide" :> 4
MCUtf16 == "a" :> 1 @@ "wide" :> 2

VARIABLE part   \* the part that runs

Parts == {"store", "launcher", "input", "usage", "start", "capture"}

zofiVars == <<part, storeVars, launcherVars, textVars, usageVars, startVars, captureVars>>

MCInit ==
  /\ part \in Parts
  /\ StoreInit /\ LauncherInit /\ TextInit /\ UsageInit /\ StartInit /\ CaptureInit

OthersStore == <<part, launcherVars, textVars, usageVars, startVars, captureVars>>
OthersLauncher == <<part, storeVars, textVars, usageVars, startVars, captureVars>>
OthersInput == <<part, storeVars, launcherVars, usageVars, startVars, captureVars>>
OthersUsage == <<part, storeVars, launcherVars, textVars, startVars, captureVars>>
OthersStart == <<part, storeVars, launcherVars, textVars, usageVars, captureVars>>
OthersCapture == <<part, storeVars, launcherVars, textVars, usageVars, startVars>>

MCNext ==
  \/ part = "store" /\ StoreNext /\ UNCHANGED OthersStore
  \/ part = "launcher" /\ LauncherNext /\ UNCHANGED OthersLauncher
  \/ part = "input" /\ TextNext /\ UNCHANGED OthersInput
  \/ part = "usage" /\ UsageNext /\ UNCHANGED OthersUsage
  \/ part = "start" /\ StartNext /\ UNCHANGED OthersStart
  \/ part = "capture" /\ CaptureNext /\ UNCHANGED OthersCapture

MCSpec == MCInit /\ [][MCNext]_zofiVars

TypeOK ==
  /\ StoreTypeOK /\ LauncherType /\ TextType
  /\ UsageType /\ StartType /\ CaptureType
=============================================================================
