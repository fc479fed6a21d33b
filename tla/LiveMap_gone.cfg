SPECIFICATION FairSpec
CONSTANTS
  t1 = t1
  None = None
  Tag <- OneTag
  Msg <- TwoMessages
  TagOf <- PairTagOf
  TsOf <- PairTsOf
  Conn = {1, 2}
  QueueMax = 1
  WireMax = 2
  MaxFaults = 1
  MaxRetries = 2
  MaxRemounts = 0
PROPERTIES GoneIsUnsubscribed
CHECK_DEADLOCK FALSE
