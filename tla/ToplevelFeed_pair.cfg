SPECIFICATION Spec
CONSTANTS
  w1 = w1
  w2 = w2
  Id = {w1, w2}
  Str = {"a"}
  None = None
  Cap = 1
  MayFail = FALSE
  MaxWire = 1
  OpenAs <- MCUnnamed
  States <- MCFocus
SYMMETRY Symmetry
CHECK_DEADLOCK FALSE
INVARIANTS
  FeedConsistent
  RowHasHandle
  LastActiveShown
PROPERTIES
  ShownOnce
