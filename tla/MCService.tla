----------------------------- MODULE MCService -----------------------------
\* Small instances of the parts of a service.
EXTENDS Service, TLC

Symmetry == Permutations(Actor) \cup Permutations(Token)
=============================================================================
