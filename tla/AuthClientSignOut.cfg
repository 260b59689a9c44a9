SPECIFICATION AuthSpec
CONSTANTS
    Sessions <- MCSessions
    Listeners = {}
    Refreshers = {t1, t2, t3}
    ExplicitStatuses <- NoOps
    ReentrantOps <- NoOps
    MaxEpoch = 12
    MaxDepth = 1
    NoSession = NoSession
    NoEpoch = NoEpoch
    NoCaller = NoCaller
    Tokens = {k1, k2, k3}
    UserOf <- MCUserOf
    Orgs = {o1, o2}
    Kinds <- Leaving
    Hydrated = TRUE
    FirstToken = k1
    MaxFailures = 0
    NoToken = NoToken
    NoOrg = NoOrg
    NoTask = NoTask
SYMMETRY Symmetric
INVARIANTS SignOutIsFinal
CHECK_DEADLOCK FALSE
