------------------------------- MODULE MCBar --------------------------------
(* The components of zbar beside the tray and the workspaces. They share no  *)
(* state, only the thread that draws them, so a behaviour lets one of them   *)
(* run and keeps the others as they start: the instance is the sum of        *)
(* theirs, not the product.                                                 *)
EXTENDS ThemeWatch, Brightness, Volume, NetInfo, Bluetooth, QuickPanel, Pills, WindowTitle

VARIABLE part   \* the component that runs

barVars == <<part, themeVars, brightVars, volumeVars, netVars, btVars, panelVars, pillVars,
             titleVars>>

Parts == {"theme", "brightness", "volume", "net", "bluetooth", "panel", "pills", "title"}

MCInit ==
  /\ part \in Parts
  /\ ThemeInit /\ (part # "theme" => conf = Mocha)
  /\ BrightInit
  /\ part # "brightness" => source = "ddc" /\ hw[Backlight] < scale[Backlight] \div 2
  /\ source = "ddc" => readable /\ percents[Backlight] # NoLevel
  /\ source = "ddc" /\ part # "brightness" => \A m \in Monitor : percents[m] # NoLevel
  /\ source = "backlight" => \A m \in Monitor : percents[m] = NoLevel
  /\ VolumeInit /\ (part # "volume" => sink = "quiet" /\ volume = sink)
  /\ NetInit /\ links[2] = "up" /\ (part # "net" => links[1] = "up")
  /\ BtInit /\ (part # "bluetooth" => linked = {})
  /\ PanelInit
  /\ TitleInit /\ (part # "title" => wm.kind = "sway")
  /\ PillsInit
  /\ part # "pills" => /\ radio = [wifi |-> TRUE, bluetooth |-> TRUE] /\ nmcli = "answers"
                      /\ switches = {"wifi", "bluetooth"} /\ pills.wifi /\ pills.bluetooth

OthersTheme == <<part, brightVars, volumeVars, netVars, btVars, panelVars, pillVars, titleVars>>
OthersBrightness == <<part, themeVars, volumeVars, netVars, btVars, panelVars, pillVars, titleVars>>
OthersVolume == <<part, themeVars, brightVars, netVars, btVars, panelVars, pillVars, titleVars>>
OthersNet == <<part, themeVars, brightVars, volumeVars, btVars, panelVars, pillVars, titleVars>>
OthersBluetooth == <<part, themeVars, brightVars, volumeVars, netVars, panelVars, pillVars, titleVars>>
OthersPanel == <<part, themeVars, brightVars, volumeVars, netVars, btVars, pillVars, titleVars>>
OthersPills == <<part, themeVars, brightVars, volumeVars, netVars, btVars, panelVars, titleVars>>
OthersTitle == <<part, themeVars, brightVars, volumeVars, netVars, btVars, panelVars, pillVars>>

MCNext ==
  \/ part = "theme" /\ ThemeNext /\ UNCHANGED OthersTheme
  \/ part = "brightness" /\ BrightNext /\ UNCHANGED OthersBrightness
  \/ part = "volume" /\ VolumeNext /\ UNCHANGED OthersVolume
  \/ part = "net" /\ NetNext /\ UNCHANGED OthersNet
  \/ part = "bluetooth" /\ BtNext /\ UNCHANGED OthersBluetooth
  \/ part = "panel" /\ PanelNext /\ UNCHANGED OthersPanel
  \/ part = "pills" /\ PillsNext /\ UNCHANGED OthersPills
  \/ part = "title" /\ TitleNext /\ UNCHANGED OthersTitle

(* The GUI thread, the timers, the worker threads and the processes that     *)
(* were started run; a dump for the counters, or the read of a device, does *)
(* not fail for ever.                                                       *)
BarFair ==
  /\ WF_brightVars(part = "brightness" /\ EchoShown)
  /\ WF_brightVars(part = "brightness" /\ ProcRuns)
  /\ WF_brightVars(part = "brightness" /\ PollReads)
  /\ WF_brightVars(part = "brightness" /\ PollShown)
  /\ WF_netVars(part = "net" /\ NetWorker) /\ SF_netVars(part = "net" /\ StatsDumped)
  /\ WF_netVars(part = "net" /\ PopupTakes) /\ WF_netVars(part = "net" /\ PopupTaskEnds)
  /\ WF_btVars(part = "bluetooth" /\ ClientNext) /\ WF_btVars(part = "bluetooth" /\ PanelDrawn)
  /\ WF_btVars(part = "bluetooth" /\ \E p \in waiters : SnapshotTaken(p))
  /\ \A d \in Dev : SF_btVars(part = "bluetooth" /\ DeviceRead(d))
  /\ WF_pillVars(part = "pills" /\ CommandRuns)
  /\ WF_pillVars(part = "pills" /\ ProbeReads) /\ WF_pillVars(part = "pills" /\ ProbeShown)

MCSpec == MCInit /\ [][MCNext]_barVars /\ BarFair

(* What the readers of the outside world show, once they have caught up, is  *)
(* how it is: the theme file, the sound server, the kernel's links, the      *)
(* focused window.                                                          *)
ReadersSettle ==
  ThemeSettles /\ VolumeSettles /\ NetSettles /\ SelectedListed /\ TitleFollows

(* So it is for what is read again and again: the backlight and the state of *)
(* the radios, if nothing changes any more, and the rows of the Bluetooth   *)
(* view while it is kept open; whichever of the readings fail on the way.    *)
PollsSettle == BacklightSettles /\ PillsSettle /\ RowsFollow

TypeOK ==
  /\ ThemeType /\ BrightType /\ VolumeType /\ NetType
  /\ BtType /\ PanelType /\ PillsType /\ TitleType
=============================================================================
