SPECIFICATION Spec
CONSTANTS
    Session = {s1}
    Dropped = {s1}
    Packet = {p1, p2}
    Empty = {}
    Oversize = {p2}
    NoSession = NoSession
    NoPacket = NoPacket
    DIDModulus = 2
    QueueSize = 1
    Callback = {TRUE, FALSE}
INVARIANTS TypeOK NoPanic TableIsLive  OnCloseExactlyOnce NotifiedIsGone
CHECK_DEADLOCK FALSE
