---------------------------- MODULE MCJwksCache ----------------------------
EXTENDS JwksCache, TLC

CONSTANTS old, new, v1, v2, v3

Perms == Permutations({v1, v2, v3})
=============================================================================
