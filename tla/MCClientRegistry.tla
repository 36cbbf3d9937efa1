-------------------------- MODULE MCClientRegistry --------------------------
\* ClientRegistry on small instances, where clients and grants are
\* interchangeable.
EXTENDS ClientRegistry, TLC

Symmetry == Permutations(Clients) \cup Permutations(Grants)

=============================================================================
