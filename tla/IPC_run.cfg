SPECIFICATION FairSpec
CONSTANTS
    Inst = {i1, i2}
    Run = {r1, r2, r3}
    Accepter = {a1, a2}
    NoRun = NoRun
    Stale = Stale
    Platform = {"unix", "windows"}
    i1 = i1
    i2 = i2
    r1 = r1
    r2 = r2
    r3 = r3
    a1 = a1
    a2 = a2
INVARIANTS TypeOK OneListener 
PROPERTIES CancelUnblocksAccept
CHECK_DEADLOCK FALSE
