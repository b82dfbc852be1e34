SPECIFICATION Spec
CONSTANTS
    Session = {s1}
    Dropped = {}
    Packet = {}
    Empty = {}
    Oversize = {}
    NoSession = NoSession
    NoPacket = NoPacket
    DIDModulus = 2
    QueueSize = 1
    Callback = {TRUE}
INVARIANT OnCloseRuns
CHECK_DEADLOCK FALSE
