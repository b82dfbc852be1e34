SPECIFICATION Spec
CONSTANTS
    Run = {r1, r2}
    Stopper = {c1}
    Sender = {x1}
    Subscriber = {s1, s2, s3}
    Packet = {p1}
    NoRun = NoRun
    NoSub = NoSub
    NoPacket = NoPacket
    IDModulus = 4
    ChanSize = 1
    r1 = r1
    r2 = r2
    c1 = c1
    x1 = x1
    s1 = s1
    s2 = s2
    s3 = s3
    p1 = p1
SYMMETRY Symmetry
INVARIANTS TypeOK SubscribersKept
PROPERTIES ImplementsBus
CHECK_DEADLOCK FALSE
