SPECIFICATION Spec
CONSTANTS
    Ids = {g1, g2, g3}
    Keys = {k1, k2}
    NoKey = none
    MaxGrants = 2
    Policies <- SomePolicies
SYMMETRY Symmetry
INVARIANTS OldOrNew KeyOfTokens PoliciesAsMeant SavedRemovalLasts
PROPERTIES SavesAtomically
