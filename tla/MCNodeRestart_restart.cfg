\* Two restarts, two ratings, one crash of the helper or of the gateway.
SPECIFICATION RestartFairSpec
CONSTANTS
    r1 = r1
    r2 = r2
    a1 = a1
    a2 = a2
    Ratings = {r1, r2}
    DefaultRating = r1
    RestartOps = {a1, a2}
    None = None
    MaxCrashes = 1
INVARIANT RestartTypeOK
INVARIANT LastGoodKept
INVARIANT DrainedBeforeRestart
INVARIANT SuccessWasReal
INVARIANT EffectiveWasOrdered
PROPERTY AppliedIsEffective
PROPERTY AppliesAtomically
PROPERTY MaintenanceEnds
PROPERTY NodeComesBack
