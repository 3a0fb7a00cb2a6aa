\* Two people, each with one request in progress at a time, one provider, a
\* service whose provider is gone, and a crash.
SPECIFICATION LinkSpec
CONSTANTS
    Turns = {t1, t2, t3}
    Users = {u1, u2}
    Callers = {u1, u2, None}
    Services = {1, 2}
    Providers = {1}
    Commands = {"redeem", "logout", "chat", "prompt"}
    Overlap = FALSE
    Disconnects = TRUE
    MaxCrashes = 1
    None = None
SYMMETRY Symmetry
INVARIANTS
    LinkTypeOK
    CredentialsAreCallers
    HonestLogout
PROPERTIES
    RevokeBeforeForget
    ForgetOnlyRefused
