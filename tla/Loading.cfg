\* Two calls of two agents, over the life of a token and of a cached agent; and every
\* list of up to four items and every answer of up to four layers.
SPECIFICATION LoadSpec
CONSTANTS
    Agents = {a1, a2}
    Calls = {c1, c2}
    TTL = 1
    Retry = 1
    MaxTime = 2
    MaxVersion = 0
    Absent = Absent
    Unavailable = Unavailable
    None = None
    Lifetimes = {2}
    Leeway = 1
    MintDelay = 0
    Flight = 1
    Payloads <- MCPayloads
    Selections <- MCSelections
    Exclusions = {{}, {"shared.reasoning"}}
    NameOrder <- MCNameOrder
INVARIANTS
    PromptLosesNothing
    PromptKeepsRecordsApart
    PromptIgnoresSentOrder
    OneLoadAtService
PROPERTIES
    EveryCallEnds
