SPECIFICATION Spec
CONSTANTS
  b1 = b1
  b2 = b2
  o1 = o1
  o2 = o2
  n1 = n1
  n2 = n2
  None = None
  Bar = {b1, b2}
  Name = {n1, n2}
  Output = {o1, o2}
  OutputOf <- MCOutputOf
  Cap = 1
  SwayBar = {b1}
  MaxSwayChanges = 5
  MaxExtChanges = 3
  MaxSub = 2
  MaxCmds = 1
  Malformed = TRUE
  MaxHandle = 3
  MaxWire = 1
  MaxReqs = 1
SYMMETRY Symmetry
CHECK_DEADLOCK FALSE
INVARIANTS
  SwayFollows
  MirrorsCompositor
  KeysFresh
  BarsAgree
