SPECIFICATION Spec
CONSTANTS
  t1 = t1
  None = None
  Tag <- OneTag
  Msg <- TwoMessages
  TagOf <- PairTagOf
  TsOf <- PairTsOf
  Conn = {1, 2}
  QueueMax = 1
  WireMax = 2
  MaxFaults = 2
  MaxRetries = 2
  MaxRemounts = 0
INVARIANTS TypeOK HandoverIsComplete ViewIsCommitted SnapshotComesFirst LeftOutIsOld
PROPERTIES ViewMovesForward
CHECK_DEADLOCK FALSE
