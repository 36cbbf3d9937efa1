SPECIFICATION FairSpec
CONSTANTS
    Owners = {u1, u2}
    Requests = {r1, r2, r3, r4}
    Handlers = {h1, h2}
    ConsentTTL = 1
    CodeTTL = 1
    MaxPending = 1
    MaxCodes = 1
INVARIANTS TypeOK DecidedOnce CodesAsApproved TablesBounded
PROPERTIES BusyEnds
