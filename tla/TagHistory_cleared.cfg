SPECIFICATION Spec
CONSTANTS
  t1 = t1
  t2 = t2
  None = None
  Tag <- TwoTags
  MaxRequests = 3
INVARIANT ClearedIsEmpty
CHECK_DEADLOCK FALSE
