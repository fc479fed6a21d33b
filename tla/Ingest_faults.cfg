SPECIFICATION FairSpec
CONSTANTS
    Source <- File
    Device <- TagAndLine
    RawConfigs <- SettingsFiles
    BufferSize = 2
    MaxCopies = 2
    MaxFaults = 2
    None = None
INVARIANTS TypeOK PublishedInOrder OneFaultOneEvent TraceIsOwn
PROPERTIES StopsOnlyByFault ArrivalsAreHandled
CHECK_DEADLOCK FALSE
