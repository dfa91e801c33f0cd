CONSTANTS
    c1 = c1  c2 = c2  c3 = c3  c4 = c4
    Conn = {c1}
    Base = Base
    NoLoop = NoLoop
    NullIter = NullIter
    SIZECONN = 2
SPECIFICATION Spec
INVARIANT
    ClosedLeavesList
CHECK_DEADLOCK FALSE
