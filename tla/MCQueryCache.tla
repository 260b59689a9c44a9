---------------------------- MODULE MCQueryCache ----------------------------
(* Small instances of QueryCache. Observers are interchangeable, and so are *)
(* keys.                                                                   *)
EXTENDS QueryCache, TLC

Symmetric == Permutations(Keys) \cup Permutations(Observers)
=============================================================================
