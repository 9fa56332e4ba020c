CONSTANTS
    o1 = o1
    o2 = o2
    Obj <- MC_Obj
    NoObj = NoObj
    Stale = Stale
    Stuck = Stuck
SPECIFICATION Spec
INVARIANT NoStuckInterface
