\* Every kind of request, overlapping, with a crash: all of them end.
SPECIFICATION ChatSpec
CONSTANTS
    Turns = {t1, t2}
    Users = {u1}
    Callers = {u1}
    Services = {1}
    Providers = {1}
    Commands = {"prompt", "redeem", "logout"}
    Overlap = TRUE
    Disconnects = TRUE
    MaxCrashes = 1
    None = None
    Keys = {k1}
    Cold = {k1}
    Messages = {"say", "yes"}
    Photos = {"none", "photo", "malformed"}
    Target = 1
PROPERTIES
    EveryTurnEnds
