SPECIFICATION FairSpec
CONSTANTS
    Keys = {k1, k2, k3}
    NoKey = none
    MaxPrefer = 3
    Execs = {x}
    Lobbies = {l}
    Ttl = 10
    Second = 2
    MaxOutput = 4
    MaxPrint = 6
CHECK_DEADLOCK FALSE
INVARIANTS TypeOK FirstAccepted PreferredFirst MintsWhenDue TokenLasts OutputExact
PROPERTY CallsReturn
