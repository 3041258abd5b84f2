SPECIFICATION Spec
CONSTANTS
    o1 = o1
    c1 = c1
    c2 = c2
    tick = tick
    OpenOps = {o1}
    CloseOps = {c1, c2}
    WithdrawOps = {}
    Passes = {tick}
    None = None
    Faults = {}
    MaxSessions = 1
    MaxRequests = 1
    MaxCrashes = 0
SYMMETRY Symmetry
INVARIANT CloseNeverRepeated
