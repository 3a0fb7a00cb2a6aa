\* Three calls of awaken, with tokens shorter and longer than the leeway.
SPECIFICATION Spec
CONSTANTS
    Calls = {c1, c2, c3}
    Lifetimes = {1, 4}
    Leeway = 2
    MintDelay = 1
    Flight = 1
    MaxTime = 5
    None = None
INVARIANTS
    TypeOK
    OneExchange
PROPERTIES
    NoLapseInFlight
    NoNeedlessExchange
    NeverOlder
    EveryCallEnds
