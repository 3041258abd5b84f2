SPECIFICATION FairSpec
CONSTANTS
    o1 = o1
    w1 = w1
    tick = tick
    OpenOps = {o1}
    CloseOps = {}
    WithdrawOps = {w1}
    Passes = {tick}
    None = None
    Faults = {}
    MaxSessions = 1
    MaxRequests = 0
    MaxCrashes = 0
PROPERTY BuildFailureReleases
