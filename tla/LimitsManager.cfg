CONSTANTS
    Requests = {r1, r2}
    Actions = {"block", "downgrade"}
    HasDowngrade = TRUE
    BucketCap <- MCBucketCap
    TokenLimit <- MCTokens
    Tokens = 1
    Budget <- MCBudget
    AlertAt <- MCAlertAt
    MaxCost = 1
    MaxConcurrent = 1
    MaxUsed = 3
    Unlimited = Unlimited
SPECIFICATION FairSpec
INVARIANTS
    OvershootBounded
    SlotsAccounted
PROPERTY
    RequestsEnd
