SPECIFICATION MCSpec
CONSTANTS
  Theme = {"mocha", "latte"}
  Mocha = "mocha"
  ThemeQueueCap = 2
  MaxWrites = 4
  Monitor = {"m1"}
  Backlight = "bl"
  Percent = {40, 100}
  Scale = {50}
  NoLevel = NoLevel
  EchoCap = 1
  MaxSets = 3
  Sink = {"quiet", "loud", "muted"}
  Unread = "unread"
  VolumeCap = 2
  MaxVolumes = 4
  Link = {1, 2}
  Lo = 0
  Physical = {2}
  NoLink = 99
  McastCap = 2
  NetQueueCap = 1
  MaxKernel = 2
  Dev = {"d1"}
  CmdCap = 1
  SnapCap = 1
  MaxPanels = 2
  MaxClicks = 1
  MaxOutside = 1
  Display = {"d1"}
  NoSlider = "none"
  MaxReleases = 2
  MaxOsd = 2
  MaxPillClicks = 2
  Win = {"w1", "w2"}
  Title = {"x", "y"}
  NoTitle = "none"
  TitleCap = 1
  MaxTitleEvents = 3
CHECK_DEADLOCK FALSE
INVARIANTS
  TypeOK
  ReadersSettle
  HardwareFollows
  RowsSettle
  OsdOwned
PROPERTIES
  WorkerEnds
  PollsSettle
