SPECIFICATION FairSpec
CONSTANTS
    Run = {r1, r2}
    Stopper = {c1}
    NumServers = 2
    MaxQuery = 2
    Addr = {a1, a2}
    Bad = Bad
    NoAddr = NoAddr
    NoRun = NoRun
    NoPacket = NoPacket
    r1 = r1
    r2 = r2
    c1 = c1
    a1 = a1
    a2 = a2
INVARIANTS TypeOK AddressIsAnswer NoLeakedSubscription StopQuiesces
PROPERTIES NeverStale StopReturns
CHECK_DEADLOCK FALSE
