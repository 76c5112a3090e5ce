----------------------------- MODULE MCSources -----------------------------
EXTENDS Sources, TLC

Symmetry == Permutations(Source) \union Permutations(Payload)
=============================================================================
