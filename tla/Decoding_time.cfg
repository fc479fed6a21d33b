SPECIFICATION Spec
CONSTANTS
    Datagrams <- AllDatagrams
    Now = 100
INVARIANT WarnedHasNoTimestamp
CHECK_DEADLOCK FALSE
