SPECIFICATION MCSpec
CONSTANTS
  None = None
  i1 = i1
  i2 = i2
  Item = {i1, i2}
  Fg = {"dark", "light"}
  MsgCap = 1
  EventCap = 2
  ReqCap = 1
  ThemeCap = 1
  RefetchCap = 1
  MaxAdds = 2
  MaxNews = 1
  MaxThemes = 2
  MaxReqs = 1
  MenuItem = {i1}
  Output = {"o1"}
  NotOpen = NotOpen
  RelayCap = 1
  TrayCap = 2
CHECK_DEADLOCK FALSE
INVARIANTS
  RegisteredShown
