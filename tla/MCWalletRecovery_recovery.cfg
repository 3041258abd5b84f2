\* The default recovery policy: expired sessions without a row are cleaned up.
SPECIFICATION WalletSpec
CONSTANTS
    o1 = o1
    c1 = c1
    tick = tick
    OpenOps = {o1}
    CloseOps = {c1}
    WithdrawOps = {}
    Passes = {tick}
    None = None
    Faults = {"gateway_crash", "receipt"}
    MaxSessions = 1
    MaxRequests = 0
    MaxCrashes = 1
    Cleanup = "expired"
SYMMETRY Symmetry
INVARIANT WalletTypeOK
INVARIANT FundedTracked
INVARIANT ClosedMeansClosed
