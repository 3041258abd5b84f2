\* Three openings, small numbers in the place of 10000 and 300; it ends when all sessions are over.
SPECIFICATION Spec
CONSTANTS
    s1 = s1
    s2 = s2
    s3 = s3
    Sessions = {s1, s2, s3}
    None = None
    Basis = 4
    Minimum = 2
    Prices = {0, 1, 2, 3}
    Supplies = {0, 4, 5}
    Emission = 2
    Duration = 2
    MaxPrice = 2
    MaxSession = 10
    MaxTotal = 16
    MinLiquid = 2
    Wallets = {11, 20}
CHECK_DEADLOCK FALSE
INVARIANT BudgetTypeOK
INVARIANT StakeWithinBudget
INVARIANT LiquidKept
PROPERTY DurationMet
