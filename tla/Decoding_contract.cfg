SPECIFICATION Spec
CONSTANTS
    Datagrams <- AllDatagrams
    Now = 100
INVARIANTS
    ConformingIsAccepted
    OnePoint
    DecodersAgree
    FieldsKeepTheirPlace
CHECK_DEADLOCK FALSE
