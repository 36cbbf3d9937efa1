---------------------------- MODULE MCStateFile ----------------------------
\* StateFile on small instances: the policies migrate tells apart.
EXTENDS StateFile, TLC

ManageAll == [allVMs |-> TRUE, ops |-> {"manage"}]
RunSome == [allVMs |-> FALSE, ops |-> {"run"}]

SomePolicies == {ManageAll, RunSome}

Symmetry == Permutations(Ids) \cup Permutations(Keys)

=============================================================================
