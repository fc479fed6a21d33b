SPECIFICATION FairSpec
CONSTANTS
  t1 = t1
  t2 = t2
  None = None
  Tag <- TwoTags
  Msg <- ThreePoints
  TagOf <- PointTagOf
  TsOf <- PointTsOf
  Speeds <- TwoSpeeds
  MaxPoints = 3
  MaxDelta = 2
  MaxClicks = 7
INVARIANTS TypeOK ClockInRange ShownAtClock PlayingHasLoop
PROPERTIES RateIsBounded PlaybackEnds
CHECK_DEADLOCK FALSE
