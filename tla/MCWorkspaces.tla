--------------------------- MODULE MCWorkspaces ---------------------------
(* The workspaces of zbar with the backend that detect_backend chose.      *)
EXTENDS SwayBackend, ExtWorkspace, TLC

CONSTANTS b1, b2, o1, o2, n1, n2

CONSTANTS MaxSwayChanges, MaxExtChanges  \* bounds: what compositor and user do

VARIABLES backend, changes

MCOutputOf == [b \in Bar |-> IF b = b1 THEN o1 ELSE o2]

vars == <<backend, changes, barVars, swayVars, extVars>>

Init ==
  /\ BarInit /\ SwayInit /\ ExtInit
  /\ changes = 0 /\ backend \in {"sway", "ext"}
  /\ live[1].name = focus /\ live[1].group = spaces[focus]

Change(max) == changes < max /\ changes' = changes + 1

(* The session thread mirrors into state of its own, which commutes with   *)
(* every other step: nothing else is interleaved until it comes to a done. *)
Private == xpc = "dispatch" /\ wire # <<>> /\ Head(wire) # Done

Next ==
  \/ /\ backend = "sway" /\ UNCHANGED <<backend, extVars>>
     /\ \/ SwayEnvironment /\ Change(MaxSwayChanges)
        \/ SwayReacts /\ UNCHANGED changes
  \/ /\ backend = "ext" /\ UNCHANGED <<backend, swayVars>>
     /\ \/ Mirror /\ UNCHANGED changes
        \/ ~Private /\ ExtEnvironment /\ Change(MaxExtChanges)
        \/ ~Private /\ ExtReacts /\ UNCHANGED changes

Spec == Init /\ [][Next]_vars

Symmetry == Permutations(Name)

TypeOK == BarType /\ SwayType /\ ExtType
=============================================================================
