SPECIFICATION FairSpec
CONSTANTS
  t1 = t1
  t2 = t2
  backend = backend
  standalone = standalone
  h1 = h1
  h2 = h2
  h3 = h3
  h4 = h4
  None = None
  Tag <- TwoTags
  Msg <- TwoMessages
  TagOf <- MixedTagOf
  TsOf <- MixedTsOf
  Kind <- MixedKinds
  Process <- BothProcesses
  Backend = backend
  Handler = {h1, h2, h3, h4}
  Owner <- TwoEach
  Prefetch = 2
  PoolSize = 1
  MaxFaults = 2
PROPERTIES EventsSettle
CHECK_DEADLOCK FALSE
