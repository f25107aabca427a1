CONSTANTS
    Requests = {r1, r2}
    Actions = {"block"}
    HasDowngrade = FALSE
    BucketCap <- MCBucketCap
    TokenLimit <- MCTokens
    Tokens = 1
    Budget <- MCBudget
    AlertAt <- MCAlertAt
    MaxCost = 1
    MaxConcurrent = 1
    MaxUsed = 4
    Unlimited = Unlimited
SPECIFICATION Spec
PROPERTY
    ExceededBudgetBlocks
