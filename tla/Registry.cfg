\* Three calls of one agent over several TTLs.
SPECIFICATION Spec
CONSTANTS
    Agents = {a1}
    Calls = {c1, c2, c3}
    TTL = 2
    Retry = 2
    MaxTime = 5
    MaxVersion = 1
    Absent = Absent
    Unavailable = Unavailable
    None = None
SYMMETRY Symmetry
INVARIANTS
    TypeOK
    NobodyElseWrites
    ReloadSeesLatest
    GoneStaysGone
PROPERTIES
    NeverOlder
    StaleBeatsDark
    AttemptsSpaced
