SPECIFICATION Spec
CONSTANTS
    Clients = {c1, c2}
    NoClient = nobody
    Emails = {e1, e2}
    Proofs = {p1, p2}
    AccessTTL = 1
    RefreshTTL = 1
    CodeTTL = 1
    UsedResolution = 1
    MaxGrants = 2
    MaxCodes = 1
    SaveOutcomes = {"ok", "early", "late"}
    MaxTime = 2
    LastCodeDrawn = 3
    LastGrantDrawn = 3
    LastRefreshDrawn = 3
SYMMETRY Symmetry
VIEW View
INVARIANTS TypeOK SupersededStaysDead CrashLosesNothing TablesBounded HolderKeepsGrant
PROPERTIES CodeSingleUse ExchangeCostsOne LifecycleSpec
