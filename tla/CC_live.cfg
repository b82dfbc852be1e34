SPECIFICATION CCFairSpec
CONSTANTS
    Session = {s1}
    Dropped = {}
    Packet = {p1, p2, p3, p4}
    Empty = {p1, p2}
    Oversize = {}
    NoSession = NoSession
    NoPacket = NoPacket
    DIDModulus = 2
    QueueSize = 1
    Callback = {TRUE}
    Request <- Requests
    Versions = {0}
    HasEgress = TRUE
    HasKeys = TRUE
    MaxRequests = 2
INVARIANTS AnswersInOrder
PROPERTIES  NoLeak CloseEnds AnswerOrEnd
CHECK_DEADLOCK FALSE
