-------------------------- MODULE MCMetadataCache --------------------------
\* MetadataCache on small instances, where documents and handlers are
\* interchangeable.
EXTENDS MetadataCache, TLC

Symmetry == Permutations(Ids) \cup Permutations(Handlers)

=============================================================================
