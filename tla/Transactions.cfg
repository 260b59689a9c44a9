SPECIFICATION FairSpec
CONSTANTS
    Atomic = {a1}
    Interactive = {i1}
    Clients = {c1}
    Ops = 2
    MaxSavepoints = 3
    MaxBreaks = 1
    NoClient = NoClient
    NoTxn = NoTxn
INVARIANTS TypeOK AllOrNothing DoomedNeverCommits ClientsAreExclusive
PROPERTIES CallsEnd
