\* A chat or a reload while nobody answers at the memory service's address.
SPECIFICATION ServerSpec
CONSTANTS
    Requests = {r1}
    Bodies <- MCBodies
    Texts <- MCTexts
    Environments <- MCEnvironments
    Known <- MCKnown
    MaxStarts = 1
    None = None
    Unset = Unset
PROPERTIES
    UnreachableIs503
