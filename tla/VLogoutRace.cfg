\* One person sends /logout and a link code without waiting.
SPECIFICATION LinkSpec
CONSTANTS
    Turns = {t1, t2}
    Users = {u1}
    Callers = {u1}
    Services = {1}
    Providers = {1}
    Commands = {"redeem", "logout"}
    Overlap = TRUE
    Disconnects = TRUE
    MaxCrashes = 0
    None = None
SYMMETRY Symmetry
PROPERTIES
    RevokeBeforeForget
