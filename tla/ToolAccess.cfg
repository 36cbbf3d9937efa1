SPECIFICATION Spec
CONSTANTS
    host = host
    web = web
    prod = prod
    Names = {host, web}
    HostVM = host
    Tags = {prod}
    Policies <- SomePolicies
    Calls = {c1}
INVARIANTS TypeOK OnlyCovered ServersFit SharingKept
