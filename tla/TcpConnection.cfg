CONSTANTS
    Thread = {t1}
    Loop = Loop
    MaxLen = 2
    MaxCalls = 3
    HighWaterMark = 2
SPECIFICATION ConnFairSpec
INVARIANTS
    OutputWatched
    SendersInOrder
    LostOnlyToRace
    QueuedWhileUpIsSafe
PROPERTIES
    ImplementsByteStream
    ConnProgress
CHECK_DEADLOCK FALSE
