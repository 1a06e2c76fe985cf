----------------------------- MODULE QuickPanel -----------------------------
(* The quick settings panel of zbar: its window, the sliders dragged in it,  *)
(* the overlays that show a display's brightness meanwhile, and the one      *)
(* Wi-Fi scan of each panel.                                                *)
EXTENDS Naturals, FiniteSets

CONSTANTS Display          \* displays with a brightness slider of their own
CONSTANTS NoSlider
CONSTANTS MaxReleases      \* bound: release timers that run at a time
CONSTANTS MaxOsd           \* bound: overlays of one display

ASSUME PanelAssumption == MaxReleases \in Nat /\ MaxOsd \in Nat

VARIABLES
  opened,      \* does the module hold a panel?
  shown,       \* does the panel's window, and with it the panel, exist?
  view,        \* "main", "wifi" or "bluetooth"
  drag,        \* the slider being dragged, or NoSlider
  bound,       \* the drag that the closures of the last drawing captured
  cached,      \* sliders that show the cursor's value, not the module's
  osd,         \* the displays whose overlay the panel knows
  osdWindows,  \* the overlays that exist on each display
  releases,    \* release timers of this panel
  scan,        \* its Wi-Fi scan: "none", "running" or "done"
  orphaned     \* overlays were left by a panel that is gone (history)

panelVars == <<opened, shown, view, drag, bound, cached, osd, osdWindows, releases, scan, orphaned>>

(* Brightness of a display, of the backlight, and the volume.               *)
Slider == Display \union {"backlight", "volume"}

PanelInit ==
  /\ opened = FALSE /\ shown = FALSE /\ view = "main" /\ drag = NoSlider /\ bound = NoSlider
  /\ cached = {} /\ osd = {} /\ osdWindows = [d \in Display |-> 0] /\ releases = 0
  /\ scan = "none" /\ orphaned = FALSE

(* What a panel starts with, and what is left when its entity is dropped:   *)
(* its tasks hold it weakly and do nothing any more.                        *)
PanelReset ==
  /\ view' = "main" /\ drag' = NoSlider /\ bound' = NoSlider
  /\ cached' = {} /\ osd' = {} /\ releases' = 0 /\ scan' = "none"

CloseAllOsd ==
  osdWindows' = [d \in Display |-> IF d \in osd THEN osdWindows[d] - 1 ELSE osdWindows[d]]

(* A click on the cluster, or a close signal of another popup.              *)
PanelToggled ==
  /\ \/ opened /\ opened' = FALSE /\ shown' = FALSE
        /\ IF shown THEN CloseAllOsd /\ UNCHANGED orphaned ELSE UNCHANGED <<osdWindows, orphaned>>
     \/ ~opened /\ opened' \in BOOLEAN /\ shown' = opened' /\ UNCHANGED <<osdWindows, orphaned>>
  /\ PanelReset

PanelEscaped ==
  /\ shown /\ shown' = FALSE /\ orphaned' = (orphaned \/ osd # {})
  /\ PanelReset /\ UNCHANGED <<opened, osdWindows>>

(* Drawing binds the closures and, in the Wi-Fi view, scans once.           *)
PanelDraws ==
  /\ shown /\ bound' = drag
  /\ scan' = IF view = "wifi" /\ scan = "none" THEN "running" ELSE scan
  /\ UNCHANGED <<opened, shown, view, drag, cached, osd, osdWindows, releases, orphaned>>

ScanLands ==
  /\ scan = "running" /\ scan' = "done"
  /\ UNCHANGED <<opened, shown, view, drag, bound, cached, osd, osdWindows, releases, orphaned>>

ViewChosen ==
  /\ shown /\ \/ view = "main" /\ view' \in {"wifi", "bluetooth"}
              \/ view # "main" /\ view' = "main"
  /\ UNCHANGED <<opened, shown, drag, bound, cached, osd, osdWindows, releases, scan, orphaned>>

(* Mutant of ShowOsd: it does not look for an overlay that is open already. *)
ShowOsdAlways(k) ==
  IF k \in Display /\ osdWindows[k] < MaxOsd
  THEN osd' = osd \union {k} /\ osdWindows' = [osdWindows EXCEPT ![k] = @ + 1]
  ELSE UNCHANGED <<osd, osdWindows>>

(* The display's overlay is refreshed or opened, which may fail.            *)
ShowOsd(k) ==
  \/ UNCHANGED <<osd, osdWindows>>
  \/ /\ k \in Display \ osd /\ osdWindows[k] < MaxOsd
     /\ osd' = osd \union {k} /\ osdWindows' = [osdWindows EXCEPT ![k] = @ + 1]

Slides(k) == cached' = cached \union {k} /\ ShowOsd(k)

TrackPressed(k) ==
  /\ shown /\ view = "main" /\ Slides(k) /\ drag' = k
  /\ UNCHANGED <<opened, shown, view, bound, releases, scan, orphaned>>

(* The pointer moves over the panel, with the drag of the last drawing.     *)
PointerMoves ==
  /\ shown /\ bound # NoSlider /\ Slides(bound)
  /\ UNCHANGED <<opened, shown, view, drag, bound, releases, scan, orphaned>>

(* The button is released over the panel; 800 ms later the cache goes.      *)
ButtonReleased ==
  /\ shown /\ releases < MaxReleases /\ releases' = releases + 1 /\ drag' = NoSlider
  /\ UNCHANGED <<opened, shown, view, bound, cached, osd, osdWindows, scan, orphaned>>

ReleaseTimer ==
  /\ releases > 0 /\ releases' = releases - 1
  /\ cached' = {} /\ CloseAllOsd /\ osd' = {}
  /\ UNCHANGED <<opened, shown, view, drag, bound, scan, orphaned>>

PanelNext ==
  \/ PanelToggled \/ PanelEscaped \/ PanelDraws \/ ScanLands \/ ViewChosen
  \/ \E k \in Slider : TrackPressed(k)
  \/ PointerMoves \/ ButtonReleased \/ ReleaseTimer

PanelSpec == PanelInit /\ [][PanelNext]_panelVars

PanelType ==
  /\ opened \in BOOLEAN /\ shown \in BOOLEAN /\ orphaned \in BOOLEAN /\ view \in {"main", "wifi", "bluetooth"}
  /\ {drag, bound} \subseteq Slider \union {NoSlider} /\ cached \subseteq Slider
  /\ osd \subseteq Display /\ osdWindows \in [Display -> 0..MaxOsd] /\ releases \in 0..MaxReleases

(* panel.rs:976-982: whatever presses, moves, releases and late timers come, *)
(* there is one overlay for each display the panel knows and none besides,  *)
(* so that the panel can close them all; but for those it was escaped with. *)
OsdOwned == ~orphaned =>
  \A d \in Display : osdWindows[d] = (IF d \in osd THEN 1 ELSE 0)

=============================================================================
