CONSTANTS
    io1 = io1  io2 = io2
    c1 = c1  c2 = c2
    Conn = {c1, c2}
    Base = Base
    NoLoop = NoLoop
    Pools <- AtMostOneIOLoop
SPECIFICATION SpecShutdown
SYMMETRY Symmetry
INVARIANTS
    ShutdownInv
CHECK_DEADLOCK FALSE
