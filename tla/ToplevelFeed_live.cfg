SPECIFICATION FairSpec
CONSTANTS
  w1 = w1
  w2 = w2
  Id = {w1}
  Str = {"a"}
  None = None
  Cap = 1
  MayFail = TRUE
  MaxWire = 1
  OpenAs <- MCOpenAs
  States <- MCStates
CHECK_DEADLOCK FALSE
INVARIANTS
  TypeOK
  NoLostPulse
  IdleUpToDate
PROPERTIES
  Converges
