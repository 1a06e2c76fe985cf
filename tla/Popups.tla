------------------------------- MODULE Popups -------------------------------
(* The popups of zbar: the tray's menu, the settings, the network details   *)
(* and the quick settings panel. Each module owns a popup window and one     *)
(* click catcher per display, and asks the others to close through the       *)
(* registry before it opens its own.                                         *)
EXTENDS Naturals, Sequences, FiniteSets, TLC

CONSTANTS MenuItem   \* tray items that have a menu
CONSTANTS Output     \* displays
CONSTANTS NotOpen

CONSTANTS RelayCap, TrayCap  \* capacity of a relay channel and of TrayMsg's

ASSUME PopupCaps ==
  /\ RelayCap \in Nat \ {0} /\ TrayCap \in Nat \ {0}
  /\ {"close", NotOpen} \intersect MenuItem = {}
  /\ NotOpen \notin {"close", "settings", "network", "panel"}

VARIABLES
  popup,     \* popup[k]: what the module believes to be open, or NotOpen
  window,    \* window[k]: does the popup's window exist?
  catchers,  \* catchers[k]: the displays with a catcher of k
  relay,     \* relay[k]: close signals queued for k's relay task
  tmsgs,     \* TrayMsgs: "close" or the item whose menu is ready
  lost       \* a CloseMenu of the relay found TrayMsg's channel full (history)

popupVars == <<popup, window, catchers, relay, tmsgs, lost>>

Kind == {"tray", "settings", "network", "panel"}

PopupsInit ==
  /\ popup = [k \in Kind |-> NotOpen] /\ window = [k \in Kind |-> FALSE]
  /\ catchers = [k \in Kind |-> {}] /\ relay = [k \in Kind |-> 0]
  /\ tmsgs = <<>> /\ lost = FALSE

Shut(k) ==
  /\ popup' = [popup EXCEPT ![k] = NotOpen]
  /\ window' = [window EXCEPT ![k] = FALSE]
  /\ catchers' = [catchers EXCEPT ![k] = {}]

Signal(S) == [k \in Kind |-> IF k \in S /\ relay[k] < RelayCap THEN relay[k] + 1 ELSE relay[k]]

(* Mutant of DismissOthers: only modules whose window exists are told.      *)
DismissOpen(k) == relay' = Signal({j \in Kind \ {k} : window[j]})

DismissOthers(k) == relay' = Signal(Kind \ {k})

(* The catchers open first, one per display, each may fail; then the popup, *)
(* and if that fails the catchers go again. The tray insists on a catcher.  *)
OpenPopup(k, what) ==
  \E S \in SUBSET Output :
    IF S = {} /\ k = "tray" THEN Shut(k)
    ELSE \/ /\ popup' = [popup EXCEPT ![k] = what]
            /\ window' = [window EXCEPT ![k] = TRUE]
            /\ catchers' = [catchers EXCEPT ![k] = S]
         \/ Shut(k)

(* A click on the settings pill or on the quick settings cluster.           *)
Toggle(k) ==
  /\ k \in {"settings", "panel"}
  /\ IF popup[k] # NotOpen THEN Shut(k) /\ UNCHANGED relay
     ELSE DismissOthers(k) /\ OpenPopup(k, k)
  /\ UNCHANGED <<tmsgs, lost>>

(* The network row opens its details while the pointer is over it.          *)
HoverIn ==
  /\ popup["network"] = NotOpen
  /\ DismissOthers("network") /\ OpenPopup("network", "network")
  /\ UNCHANGED <<tmsgs, lost>>

HoverOut ==
  /\ popup["network"] # NotOpen /\ Shut("network")
  /\ UNCHANGED <<relay, tmsgs, lost>>

(* Somebody's try_send of CloseMenu, and the session's send of a menu.      *)
TryCloseMenu == tmsgs' = IF Len(tmsgs) < TrayCap THEN Append(tmsgs, "close") ELSE tmsgs

MenuReady(i) ==
  /\ Len(tmsgs) < TrayCap /\ tmsgs' = Append(tmsgs, i)
  /\ UNCHANGED <<popup, window, catchers, relay, lost>>

TrayLeftClick ==
  /\ TryCloseMenu /\ UNCHANGED <<popup, window, catchers, relay, lost>>

TrayReceives ==
  /\ tmsgs # <<>> /\ tmsgs' = Tail(tmsgs) /\ UNCHANGED lost
  /\ LET m == Head(tmsgs) IN
       \/ m = "close" /\ Shut("tray") /\ UNCHANGED relay
       \/ m # "close" /\ m = popup["tray"] /\ Shut("tray") /\ UNCHANGED relay
       \/ /\ m # "close" /\ m # popup["tray"]
          /\ DismissOthers("tray") /\ OpenPopup("tray", m)

RelayRuns(k) ==
  /\ relay[k] > 0 /\ relay' = [relay EXCEPT ![k] = @ - 1]
  /\ IF k = "tray"
     THEN /\ TryCloseMenu /\ lost' = (lost \/ Len(tmsgs) = TrayCap)
          /\ UNCHANGED <<popup, window, catchers>>
     ELSE Shut(k) /\ UNCHANGED <<tmsgs, lost>>

CatcherClicked(k, d) ==
  /\ d \in catchers[k] /\ catchers' = [catchers EXCEPT ![k] = @ \ {d}]
  /\ IF k = "tray" THEN TryCloseMenu /\ UNCHANGED relay
     ELSE relay' = Signal({k}) /\ UNCHANGED tmsgs
  /\ UNCHANGED <<popup, window, lost>>

RemoveWindow(k) == window' = [window EXCEPT ![k] = FALSE]

(* Escape outside a submenu closes the window; only the tray's popup tells   *)
(* its module.                                                              *)
Escape(k) ==
  /\ window[k] /\ RemoveWindow(k)
  /\ IF k = "tray" THEN TryCloseMenu ELSE UNCHANGED tmsgs
  /\ UNCHANGED <<popup, catchers, relay, lost>>

(* An entry of the menu or a theme is chosen: the window goes, nobody is told. *)
Choose(k) ==
  /\ k \in {"tray", "settings"} /\ window[k] /\ RemoveWindow(k)
  /\ UNCHANGED <<popup, catchers, relay, tmsgs, lost>>

PopupsUser ==
  \/ \E k \in Kind : Toggle(k) \/ Escape(k) \/ Choose(k)
  \/ \E k \in Kind : \E d \in Output : CatcherClicked(k, d)
  \/ HoverIn \/ HoverOut \/ TrayLeftClick
  \/ \E i \in MenuItem : MenuReady(i)

PopupsReact == TrayReceives \/ \E k \in Kind : RelayRuns(k)

PopupsNext == PopupsUser \/ PopupsReact

PopupsSpec == PopupsInit /\ [][PopupsNext]_popupVars

PopupsType ==
  /\ popup \in [Kind -> MenuItem \union {NotOpen, "settings", "network", "panel"}]
  /\ window \in [Kind -> BOOLEAN] /\ catchers \in [Kind -> SUBSET Output]
  /\ relay \in [Kind -> 0..RelayCap]
  /\ tmsgs \in Seq(MenuItem \union {"close"}) /\ Len(tmsgs) <= TrayCap
  /\ lost \in BOOLEAN

ToClose(k) ==
  relay[k] > 0 \/ (k = "tray" /\ \E n \in DOMAIN tmsgs : tmsgs[n] = "close")

(* popup_catcher.rs:10-13: whoever opens a popup dismisses the others first. *)
(* While two are open, one of them has been told to close and will; only a   *)
(* CloseMenu that found the tray's channel full is ever lost.                *)
PopupsExclusive == \A j, k \in Kind :
  j # k /\ popup[j] # NotOpen /\ popup[k] # NotOpen =>
    ToClose(j) \/ ToClose(k) \/ (lost /\ "tray" \in {j, k})

(* No window is left that its module does not know of and cannot close:     *)
(* a popup that fails to open takes its catchers along (tray_menu.rs:505).   *)
PopupsTracked == \A k \in Kind :
  window[k] \/ catchers[k] # {} => popup[k] # NotOpen

(* popup_catcher.rs and the modules' toggles, as one.                        *)
PopupsSound == PopupsExclusive /\ PopupsTracked
=============================================================================
