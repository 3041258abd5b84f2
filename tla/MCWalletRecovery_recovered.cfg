\* Liveness of reconciliation and wallet recovery: no symmetry.
SPECIFICATION WalletFairSpec
CONSTANTS
    o1 = o1
    tick = tick
    OpenOps = {o1}
    CloseOps = {}
    WithdrawOps = {}
    Passes = {tick}
    None = None
    Faults = {"node_crash", "confirm_open"}
    MaxSessions = 1
    MaxRequests = 0
    MaxCrashes = 0
    Cleanup = "expired"
PROPERTY FundedRecovered
PROPERTY UncertainOpenResolved
