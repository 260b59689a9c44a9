--------------------------- MODULE MCSessionStore ---------------------------
(* Small instances of SessionStore: one payload, two listeners and two      *)
(* refreshers, which are interchangeable.                                  *)
EXTENDS SessionStore, TLC

Symmetric == Permutations(Refreshers)
AllReentrant == Operations \cup {Throwing}
NoneReentrant == {}
Explicit == {"error"}
=============================================================================
