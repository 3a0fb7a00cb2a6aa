SPECIFICATION ServerSpec
CONSTANTS
    Requests = {r1, r2, r3}
    Bodies <- MCBodies
    Texts <- MCTexts
    Environments <- MCEnvironments
    Known <- MCKnown
    MaxStarts = 2
    None = None
    Unset = Unset
SYMMETRY Symmetry
INVARIANTS
    ServerTypeOK
    AnsweredIsRemembered
    WiredAsConfigured
    CommandsOfTexts
PROPERTIES
    OwnHistory
    StatusTells
