SPECIFICATION Spec
CONSTANTS
    Session = {s1, s2}
    Dropped = {}
    Packet = {}
    Empty = {}
    Oversize = {}
    NoSession = NoSession
    NoPacket = NoPacket
    DIDModulus = 3
    QueueSize = 1
    Callback = {TRUE}
INVARIANTS OwnTeardown UniqueNonZeroDID LifeInv
SYMMETRY Symmetry
CHECK_DEADLOCK FALSE
