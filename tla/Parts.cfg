CONSTANTS
    Channel = {c1, c2, c3}
    NoChannel = NoChannel
    MaxFd = 2
    MaxSocks = 3
    MaxCalls = 3
    Reconnects = FALSE
    Base = 2
    kCheapPrepend = 2
    kInitialSize = 2
    ExtraBuf = 2
    Width = 2
    MaxSize = 6
    Message <- MCMessage
    Unwanted <- MCUnwanted
    Damage <- MCDamage
    MaxSent = 2
    kMaxMessageLen = 4
    Putter = {p1, p2, p3}
    Taker = {t1, t2, t3}
    Capacities = {0, 1, 2}
    MaxItems = 4
    Years <- MCYears
    Epoch <- MCEpoch
    ZoneFiles <- MCZoneFiles
    MaxTime = 40
    SIZE = 9
    kMaxNumericSize = 5
    Number <- MCNumber
    Pointer = {0, 255}
    TextLen = {1, 3}
    LogThread = {l1, l2}
    MaxSecond = 2
    MaxLogs = 2
SPECIFICATION PartsSpec
INVARIANTS
    PollerInv
    ConnectorInv
    LifetimeInv
    BufferInv
    CodecInv
    QueueWakeups
    DateInv
    ZoneInv
    StreamInv
    LoggingInv
PROPERTIES
    BytesKept
CHECK_DEADLOCK FALSE
