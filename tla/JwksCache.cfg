SPECIFICATION Spec
CONSTANTS
    old = old
    new = new
    v1 = v1
    v2 = v2
    v3 = v3
    Keys = {old, new}
    First = {old}
    Verifiers = {v1, v2, v3}
    TTL = 2
    Cooldown = 1
    Longest = 1
    MaxTime = 4
    Never = Never
    NoEntry = NoEntry
SYMMETRY Perms
INVARIANTS TypeOK PublishedKeysVerify RetiredKeysExpire
