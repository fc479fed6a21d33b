SPECIFICATION Spec
CONSTANTS
  t1 = t1
  t2 = t2
  backend = backend
  standalone = standalone
  h1 = h1
  h2 = h2
  h3 = h3
  h4 = h4
  None = None
  Tag <- TwoTags
  Msg <- FourMessages
  TagOf <- DropTagOf
  TsOf <- DropTsOf
  Kind <- DropKinds
  Process <- BothProcesses
  Backend = backend
  Handler = {h1, h2, h3}
  Owner <- TwoAndOne
  Prefetch = 2
  PoolSize = 2
  MaxFaults = 2
SYMMETRY BackendTasks
INVARIANTS TypeOK CurrentIsLatest AckedIsStored OneHolder DuplicatesNeedFaults RowLocks CommitBeforeAck
PROPERTIES CurrentMovesForward ImplementsStore
CHECK_DEADLOCK FALSE
