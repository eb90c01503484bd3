SPECIFICATION UiSpec
CONSTANTS
  s1 = s1
  p1 = p1
  p2 = p2
  t1 = t1
  t2 = t2
  b1 = b1
  g1 = g1
  g2 = g2
  Sessions <- OneSession
  Pages <- TwoPages
  Titles <- TwoTitles
  Bodies <- OneBody
  Screens <- TwoScreens
  None = None
  Expiry = 1
  DesktopTimeout = 2
  BrowserTimeout = 2
  MaxShots = 1
  MaxAsks = 4
  MaxChanges = 2
  MaxClock = 3
INVARIANTS
  ActionsAreSeen
  PointersAreAwaited
CHECK_DEADLOCK FALSE
