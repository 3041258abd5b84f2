\* One request, one close, one withdrawal, the maintenance loop.
SPECIFICATION Spec
CONSTANTS
    o1 = o1
    c1 = c1
    w1 = w1
    tick = tick
    OpenOps = {o1}
    CloseOps = {c1}
    WithdrawOps = {w1}
    Passes = {tick}
    None = None
    Faults = {"gateway_crash", "confirm_open"}
    MaxSessions = 1
    MaxRequests = 1
    MaxCrashes = 1
SYMMETRY Symmetry
INVARIANT ClosedMeansClosed
INVARIANT WithdrawalTruthful
PROPERTY ReconcileNeverRevives
PROPERTY NoBlindReplacement
