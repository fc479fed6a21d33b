SPECIFICATION FairSpec
CONSTANTS
  t1 = t1
  None = None
  Tag <- OneTag
  Msg <- OneMessage
  TagOf <- OneTagOf
  TsOf <- OneTsOf
  Conn = {1, 2, 3}
  QueueMax = 1
  WireMax = 2
  MaxFaults = 1
  MaxRetries = 2
  MaxRemounts = 1
PROPERTIES EventReachesView StatusRecovers
CHECK_DEADLOCK FALSE
