\* Two requests are inside acquire together, for two rows and one opening at a time; it ends when both have been answered.
SPECIFICATION Spec
CONSTANTS
    r1 = r1
    r2 = r2
    m1 = m1
    Requests = {r1, r2}
    MaxRows = 2
    MaxTasks = 2
    MaxWaiting = 2
    None = None
    Marks = {m1}
    Concurrency = 2
    MaxConnections = 2
    MaxCrashes = 1
SYMMETRY Symmetry
CHECK_DEADLOCK FALSE
INVARIANT CompletionTypeOK
INVARIANT OneOpener
INVARIANT CountersExact
INVARIANT SessionExclusive
INVARIANT OneAttempt
PROPERTY RevokedForGood
