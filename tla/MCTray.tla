------------------------------- MODULE MCTray -------------------------------
(* The tray's host and the popups of the bar. A behaviour lets one of the    *)
(* two run and keeps the other as it starts. Tray runs with one application  *)
(* and all that can happen to it, or with two that register and end and one  *)
(* change of the theme.                                                     *)
EXTENDS Tray, Popups

CONSTANTS MaxNews, MaxThemes, MaxReqs  \* bounds of what happens to Tray
CONSTANTS i1, i2

VARIABLES
  part,   \* the component that runs
  spent   \* what has happened to Tray so far

barVars == <<part, spent, trayVars, popupVars>>

Unspent == [news |-> 0, themes |-> 0, reqs |-> 0]
Spent == [news |-> MaxNews, themes |-> MaxThemes - 1, reqs |-> MaxReqs]

MCInit ==
  /\ TrayInit /\ PopupsInit /\ fg = "dark" /\ i1 \in alive
  /\ \/ part = "tray" /\ spent = Unspent /\ alive = {i1}
     \/ part = "tray" /\ spent = Spent /\ Cardinality(alive) = 2
     \/ part = "popups" /\ spent = Spent /\ alive = {i1}

Spend(what, max) == spent[what] < max /\ spent' = [spent EXCEPT ![what] = @ + 1]

TraySpends ==
  \/ TrayReacts /\ UNCHANGED spent
  \/ Unrelated /\ UNCHANGED spent
  \/ \E i \in Item : (RegisterItem(i) \/ Dies(i)) /\ UNCHANGED spent
  \/ \E i \in Item : Publish(i) /\ Spend("news", MaxNews)
  \/ ThemeWritten /\ Spend("themes", MaxThemes)
  \/ UserRequests /\ Spend("reqs", MaxReqs)

MCNext ==
  \/ part = "tray" /\ TraySpends /\ UNCHANGED <<part, popupVars>>
  \/ part = "popups" /\ PopupsNext /\ UNCHANGED <<part, spent, trayVars>>

MCSpec == MCInit /\ [][MCNext]_barVars

TypeOK == TrayType /\ PopupsType
=============================================================================
