-------------------------- MODULE WindowLifecycle --------------------------
(***************************************************************************)
(* What the launcher's window list promises about one window after the     *)
(* other: it is shown at most once in its life, and once gone it never     *)
(* comes back.  A window may also come and go without being shown.         *)
(***************************************************************************)
CONSTANT Id

VARIABLE phase

LifeInit == phase = [i \in Id |-> "unseen"]

Show(i)   == phase[i] = "unseen" /\ phase' = [phase EXCEPT ![i] = "shown"]
Forget(i) == phase[i] # "gone"   /\ phase' = [phase EXCEPT ![i] = "gone"]

LifeNext == \E i \in Id : Show(i) \/ Forget(i)

LifeSpec == LifeInit /\ [][LifeNext]_phase
=============================================================================
