SPECIFICATION StreamFairSpec
CONSTANTS
  Publishers = {p1,p2}
  Channels = {a}
  Capacity = 1
  TTL = 1
  MaxEvents = 1
  MaxTime = 2
CHECK_DEADLOCK FALSE
INVARIANTS
  HistoryKeepsTheWindow
  NoGap
  OnlyTheOverlapRepeats
PROPERTIES
  OutputIsShown
  GoneViewerIsReleased
