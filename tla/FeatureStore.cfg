SPECIFICATION Spec
CONSTANTS
    c1 = c1
    c2 = c2
    Clients = {c1, c2}
    NCounters = 2
    Ttl <- MCTtl
    Tries = 2
    MaxUpdates = 2
INVARIANTS
    TypeOK
    CountedForItsWindow
    NoLostUpdate
    ExpiryOnItsWay
PROPERTY
    Forgets
