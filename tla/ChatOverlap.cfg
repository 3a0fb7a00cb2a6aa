\* Two people in a conversation of an agent that has to be loaded, messages
\* overlapping, and a crash.
SPECIFICATION ChatSpec
CONSTANTS
    Turns = {t1, t2, t3}
    Users = {u1, u2}
    Callers = {u1, u2}
    Services = {1}
    Providers = {1}
    Commands = {"prompt"}
    Overlap = TRUE
    Disconnects = FALSE
    MaxCrashes = 1
    None = None
    Keys = {k1}
    Cold = {k1}
    Messages = {"say", "yes"}
    Photos = {"none"}
    Target = 1
SYMMETRY Symmetry
INVARIANTS
    ChatTypeOK
    AtMostOnce
    ConsentedByYes
    OwnCredential
    WholeTurns
PROPERTIES
    ImplementsWriteApproval
