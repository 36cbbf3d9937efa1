SPECIFICATION Spec
CONSTANTS
    Clients = {c1,c2,c3,c4,c5}
    Grants = {g1,g2,g3}
    MaxClients = 3
    MaxGrants = 2
    MaxTime = 2
SYMMETRY Symmetry
INVARIANTS RegistryBounded CrashKeepsClients FailuresCostOne RegistrationOpen
PROPERTIES HolderStays
