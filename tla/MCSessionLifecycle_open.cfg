\* Two openings compete for one slot; every failure but a failing confirm read of an open.
SPECIFICATION Spec
CONSTANTS
    o1 = o1
    o2 = o2
    c1 = c1
    tick = tick
    OpenOps = {o1, o2}
    CloseOps = {c1}
    WithdrawOps = {}
    Passes = {tick}
    None = None
    Faults = {"revert", "node_crash", "gateway_crash", "confirm_close", "receipt"}
    MaxSessions = 1
    MaxRequests = 0
    MaxCrashes = 1
SYMMETRY Symmetry
INVARIANT TypeOK
INVARIANT FundedTracked
INVARIANT ClosedMeansClosed
INVARIANT PoolBound
PROPERTY NoBlindReplacement
PROPERTY KeepsLedger
