--------------------------- MODULE MCTokenServer ---------------------------
\* TokenServer on small instances: which clients and proofs are which does
\* not matter, so both are symmetric.
EXTENDS TokenServer, TLC

Symmetry == Permutations(Clients) \cup Permutations(Emails) \cup Permutations(Proofs)

\* No action reads replayed or acked, and no property of the passing run but
\* the type of the two: states that differ in them only need not be told apart.
View == <<now, owners, tables, drawn, issued, presented>>

=============================================================================
