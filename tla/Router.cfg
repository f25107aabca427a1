CONSTANTS
    p1 = p1  p2 = p2  k1 = k1
    Requests = {r1, r2}
    Providers = {p1, p2}
    Pools = {{p1, p2}, {p2}}
    Keys = {k1}
    Kinds <- MCKinds
    Strategies = {"round-robin", "sticky", "manual", "health-based"}
    FallbackEnabled = TRUE
    RequireHealthy = TRUE
    Excluded = {p1}
    MaxRequests = 3
    None = None
SPECIFICATION Spec
SYMMETRY MCSymmetry
INVARIANTS
    RouteIsPermitted
    StatsBalanced
