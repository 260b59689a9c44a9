SPECIFICATION Spec
CONSTANTS
    Atomic = {a1}
    Interactive = {i1}
    Clients = {c1}
    Ops = 2
    MaxSavepoints = 0
    MaxBreaks = 0
    NoClient = NoClient
    NoTxn = NoTxn
INVARIANTS AtomicIsAtomic
