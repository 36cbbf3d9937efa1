SPECIFICATION Spec
CONSTANTS
    Ids = {u1, u2}
    Handlers = {h1, h2}
    TTL = 2
    MaxCached = 1
    MaxTime = 4
    LastVersion = 3
SYMMETRY Symmetry
INVARIANTS HitsAreFresh CacheBounded
