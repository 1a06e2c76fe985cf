SPECIFICATION FairSpec
CONSTANTS
  a = a
  b = b
  u1 = u1
  u2 = u2
  u3 = u3
  u4 = u4
  s1 = s1
  s2 = s2
  s3 = s3
  Empty = Empty
  TooBig = TooBig
  None = None
  SELF_MIME = "self"
  PickOrder <- MCOrder
  Uuid = {u1, u2}
  Mime = {"image/png", "text/plain", "text/html"}
  Image = {"image/png"}
  Text = {"text/plain", "text/html"}
  Bytes = {a, b}
  Time = {0}
  Ring = 1
  Source = {s1, s2}
  Copy <- MCCopy
  DbMayFail = TRUE
  MaxEvents = 2
  MaxIpc = 1
CHECK_DEADLOCK FALSE
INVARIANTS
  JobFromOneOffer
PROPERTIES
  IpcReached
  StoreSpec
