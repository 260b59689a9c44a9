---------------------------- MODULE MCAuthClient ----------------------------
(* Small instances of AuthClient: three tasks, three tokens, two           *)
(* organizations; the store has no listeners here (SessionStore has them).   *)
EXTENDS AuthClient, TLC

MCSessions == ClientSessions
NoOps == {}
Symmetric == Permutations(Refreshers)
\* the second token is of another user
MCUserOf ==
    LET other == CHOOSE k \in Tokens : k # FirstToken
    IN  [k \in Tokens |-> IF k = other THEN "bob" ELSE "ann"]
Leaving == {"signOut", "getSession"}
=============================================================================
