SPECIFICATION Spec
CONSTANTS
    Run = {r1}
    Stopper = {c1, c2}
    NumServers = 1
    MaxQuery = 1
    Addr = {a1}
    Bad = Bad
    NoAddr = NoAddr
    NoRun = NoRun
    NoPacket = NoPacket
    r1 = r1
    c1 = c1
    c2 = c2
    a1 = a1
INVARIANTS StopBlocks
CHECK_DEADLOCK FALSE
