-------------------------- MODULE MCToplevelFeed --------------------------
(* Instances of ToplevelFeed for TLC.                                      *)
EXTENDS ToplevelFeed, TLC

CONSTANTS w1, w2

As(a, t, act) == [app |-> a, title |-> t, activated |-> act, minimized |-> FALSE]

(* A window that has not set its names yet; one that has, and is focused.  *)
MCUnnamed == {As(None, None, FALSE)}
MCOpenAs == {As(None, None, FALSE), As("a", "a", TRUE)}

MCFocus == {<<FALSE, FALSE>>, <<TRUE, FALSE>>}
MCStates == MCFocus \cup {<<FALSE, TRUE>>}

Symmetry == Permutations({w1, w2})
=============================================================================
