CONSTANTS
    Addr = {a1, a2}
    MaxTimers = 2
    MaxTicks = 2
    MaxQueued = 1
    MaxJumps = 1
    MaxOpen = 3
    NumThreads = 3
    MaxArrivals = 4
    RpcCaller = {r1, r2}
    services_ <- MCServices
    MaxRpcs = 3
    Worker = {w1, w2}
    Producer = {p1, p2}
    MaxTasks = 5
    maxQueueSize_ = 2
    rollSize_ = 1
    kRollPerSeconds_ = 2
    checkEveryN_ = 2
    logFlushInterval_ = 0
    kLargeBuffer = 3
    LineLen = {1, 3}
    BufferLimit = 2
    MaxLines = 3
    MaxClock = 2
    MaxShort = 1
SPECIFICATION ProgressSpec
INVARIANTS
    TimerInv
    AcceptorInv
    RpcOnce
    PoolInOrder
    AsyncInv
PROPERTIES
    TimerRuns
    BacklogServed
    RpcAnswered
    PoolProgress
    AsyncProgress
CHECK_DEADLOCK FALSE
