SPECIFICATION Spec
CONSTANTS
  a = a
  b = b
  u1 = u1
  u2 = u2
  u3 = u3
  u4 = u4
  s1 = s1
  s2 = s2
  s3 = s3
  Empty = Empty
  TooBig = TooBig
  None = None
  SELF_MIME = "self"
  PickOrder <- MCOrderPlain
  Uuid = {u1, u2, u3, u4}
  Mime = {"text/plain"}
  Image = {}
  Text = {"text/plain"}
  Bytes = {a, b}
  Time = {0}
  Ring = 1
  Source = {s1, s2, s3}
  Copy <- MCCopyPlain
  DbMayFail = FALSE
  MaxEvents = 3
  MaxIpc = 1
SYMMETRY Symmetry
CHECK_DEADLOCK FALSE
INVARIANTS
  HeldServesSelection
  ServedRight
  NoSelfRead
  NoPendingEventsExit
