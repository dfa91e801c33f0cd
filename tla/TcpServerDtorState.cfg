CONSTANTS
    io1 = io1  io2 = io2
    c1 = c1  c2 = c2
    Conn = {c1}
    Base = Base
    NoLoop = NoLoop
    Pools <- SingleReactor
SPECIFICATION SpecShutdown
INVARIANT
    DestroyedDisconnected
CHECK_DEADLOCK FALSE
