CONSTANTS
    io1 = io1  io2 = io2
    c1 = c1  c2 = c2
    Conn = {c1, c2}
    Base = Base
    NoLoop = NoLoop
    Pools <- AtMostOneIOLoop
SPECIFICATION FairSpec
INVARIANTS
    DestroyedDisconnected
    DestroyedUnpolled
    ServeInv
PROPERTIES
    ImplementsConnectionLife
    DisconnectedIsDestroyed
