\* One person, one conversation with a warm agent, one message at a time.
SPECIFICATION ChatSpec
CONSTANTS
    Turns = {t1, t2, t3, t4}
    Users = {u1}
    Callers = {u1}
    Services = {1}
    Providers = {1}
    Commands = {"redeem"}
    Overlap = FALSE
    Disconnects = FALSE
    MaxCrashes = 0
    None = None
    Keys = {k1}
    Cold = {}
    Messages = {"say", "yes"}
    Photos = {"none", "photo"}
    Target = 1
SYMMETRY Symmetry
INVARIANTS
    SameIdentity
    InformedConsent
    PhotoTravels
