--------------------------- MODULE MCAuthRuntime ---------------------------
(***************************************************************************)
(* One account whose requests overlap two at a time.                       *)
(***************************************************************************)
EXTENDS AuthRuntime, TLC

Symmetries == Permutations(Tokens) \cup Permutations(Links) \cup Permutations(Requests)
AllKinds == SessionKinds \cup AccountKinds \cup LinkKinds \cup {"signOut"}

=============================================================================
