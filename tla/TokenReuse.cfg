SPECIFICATION Spec
CONSTANTS
    Clients = {c1}
    NoClient = nobody
    Emails = {e1}
    Proofs = {p1}
    AccessTTL = 1
    RefreshTTL = 2
    CodeTTL = 1
    UsedResolution = 1
    MaxGrants = 1
    MaxCodes = 1
    SaveOutcomes = {"ok"}
    MaxTime = 1
    LastCodeDrawn = 1
    LastGrantDrawn = 1
    LastRefreshDrawn = 3
INVARIANTS ReuseRevokes
