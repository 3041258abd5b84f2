SPECIFICATION WalletSpec
CONSTANTS
    o1 = o1
    c1 = c1
    tick = tick
    OpenOps = {o1}
    CloseOps = {c1}
    WithdrawOps = {}
    Passes = {tick}
    None = None
    Faults = {}
    MaxSessions = 1
    MaxRequests = 0
    MaxCrashes = 0
    Cleanup = "live"
SYMMETRY Symmetry
INVARIANT SessionOwnedOnce
