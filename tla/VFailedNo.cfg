\* One person writing to an agent that has to be loaded, one message at a time.
SPECIFICATION ChatSpec
CONSTANTS
    Turns = {t1, t2, t3}
    Users = {u1}
    Callers = {u1}
    Services = {1}
    Providers = {1}
    Commands = {}
    Overlap = FALSE
    Disconnects = TRUE
    MaxCrashes = 0
    None = None
    Keys = {k1}
    Cold = {k1}
    Messages = {"say", "yes"}
    Photos = {"none"}
    Target = 1
SYMMETRY Symmetry
INVARIANTS
    AnythingElseCancels
