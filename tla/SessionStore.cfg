SPECIFICATION FairSpec
CONSTANTS
    Sessions = {s1}
    Listeners = {l1, l2}
    Refreshers = {r1, r2}
    ExplicitStatuses <- Explicit
    ReentrantOps <- AllReentrant
    MaxEpoch = 4
    MaxDepth = 2
    NoSession = NoSession
    NoEpoch = NoEpoch
    NoCaller = NoCaller
INVARIANTS TypeOK LastAuthoritativeWins AllNotified
PROPERTIES MonotonicNotifications RefreshLands
