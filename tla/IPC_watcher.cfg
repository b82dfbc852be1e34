SPECIFICATION Spec
CONSTANTS
    Inst = {i1}
    Run = {r1, r2}
    Accepter = {}
    NoRun = NoRun
    Stale = Stale
    Platform = {"unix"}
    i1 = i1
    r1 = r1
    r2 = r2
INVARIANTS OwnCancelOnly
CHECK_DEADLOCK FALSE
