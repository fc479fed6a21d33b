SPECIFICATION Spec
CONSTANTS
  t1 = t1
  t2 = t2
  backend = backend
  standalone = standalone
  h1 = h1
  h2 = h2
  h3 = h3
  h4 = h4
  None = None
  Tag <- TwoTags
  Msg <- ThreeMessages
  TagOf <- LateTagOf
  TsOf <- OrderedTsOf
  Kind <- AllEvents
  Process = {backend}
  Backend = backend
  Handler = {h1}
  Owner <- Alone
  Prefetch = 1
  PoolSize = 1
  MaxFaults = 0
INVARIANTS CurrentHasPosition
CHECK_DEADLOCK FALSE
