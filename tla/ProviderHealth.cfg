CONSTANTS
    Callers = {c1}
    Checker = checker
    MaxRetries = 1
    Interval = 3
    MaxBackoff = 20
    IntBits = 8
    MaxFailures = 6
SPECIFICATION FairSpec
PROPERTIES
    RecoversWhenUp
    RequestsReturn
