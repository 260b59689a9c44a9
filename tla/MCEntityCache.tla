---------------------------- MODULE MCEntityCache ----------------------------
EXTENDS EntityCache, TLC

CONSTANTS list, plain, watched, r1, r2, m1, m2

Both == {"update", "delete"}
Sometimes == BOOLEAN
Symmetric == Permutations({r1, r2}) \cup Permutations({m1, m2})
=============================================================================
