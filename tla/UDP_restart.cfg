SPECIFICATION FairSpec
CONSTANTS
    Run = {r1, r2}
    Stopper = {c1, c2}
    Sender = {}
    Subscriber = {s1}
    Packet = {p1, p2}
    NoRun = NoRun
    NoSub = NoSub
    NoPacket = NoPacket
    IDModulus = 2
    ChanSize = 1
    r1 = r1
    r2 = r2
    c1 = c1
    c2 = c2
    s1 = s1
    p1 = p1
    p2 = p2
INVARIANTS OneSocket ListenerServes StopQuiesces
PROPERTIES StoppedLoopEnds CallbacksEnd
CHECK_DEADLOCK FALSE
