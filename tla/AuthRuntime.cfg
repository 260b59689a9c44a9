\* The limits on tokens, links and requests end a behaviour.
SPECIFICATION Spec
CONSTANTS
    Users = {u1}
    Tokens = {t1, t2}
    Links = {l1}
    Requests = {r1, r2, r3}
    Kinds <- AllKinds
    MaxRequests = 3
    MaxEarly = 1
    NoUser = NoUser
    NoToken = NoToken
    NoLink = NoLink
SYMMETRY Symmetries
INVARIANTS TypeOK BanHolds SecondFactorHolds NeverLockedOut
PROPERTIES RevokedStaysGone RevokedAtTheEnd
CHECK_DEADLOCK FALSE
