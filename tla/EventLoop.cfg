CONSTANTS
    t1 = t1  t2 = t2
    f1 = f1  f2 = f2
    c1 = c1
    Thread = {t1, t2}
    LoopThread = LoopThread
    Owner = t1
    Functor = {f1, f2}
    NoFunctor = NoFunctor
    Channel = {c1}
    WakeupChannel = WakeupChannel
SPECIFICATION ThreadFairSpec
INVARIANTS
    NoLostWakeup
    ThreadInv
PROPERTIES
    ImplementsFunctorQueue
    LoopProgress
    OwnerReturns
CHECK_DEADLOCK FALSE
