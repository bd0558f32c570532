\* One drag of a searched list; every call succeeds.
CONSTANTS
    Ids <- MCIds3
    IdOrder <- MCIdOrder3
    Prios <- MCPrios
    Terms <- MCTerms
    Matches <- MCMatches
    MayFail = {TRUE}
    MaxDrags = 1
    MaxDeletes = 0
    NaN = NaN
    Gone = Gone
    Undef = Undef
SPECIFICATION Spec
INVARIANTS
    HiddenProvidersKeepOrder
