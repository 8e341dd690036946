SPECIFICATION MCSpec
CONSTANTS
    kCheapPrepend = 2
    kInitialSize = 4
    kExtraBuf = 2
    MaxReadable = 5
    MaxLen = 3
    ByteValues = 2
    FirstYear = 1900
    LastYear = 2500
    SecondsOfDay = {0, 1, 59, 3600, 43261, 86399}
    LastDay = 24854
    ZoneFiles <- MCZoneFiles
    FixedOffsets = {0, 19800}
    Cuts = {"end"}
    FirstTime <- MCFirstTime
    LastTime = 252000
    TimeStep = 600
    kRollPerSeconds_ = 4
    rollSize_ = 3
    flushInterval_ = 1
    checkEveryN_ = 3
    LineLengths = {1, 2}
    MaxClock = 9
    MaxWritten = 5
    BufferSize = 100
    kMaxNumericSize = 32
    TextLengths = {0, 1, 30}
    Integers32 <- MCIntegers
    WideLengths = {1, 20}
    Amounts <- MCAmounts
    TidLength = 6
    NameLength = 12
    LineNumberLength = 3
    ErrnoLength = 15
    LastSecond = 3
    LateZone = FALSE
INVARIANTS
    BufferIsQueue
    CalendarAgrees
    LocalTimeRoundTrips
    RollsInTime
    RecordsSound
CHECK_DEADLOCK FALSE
