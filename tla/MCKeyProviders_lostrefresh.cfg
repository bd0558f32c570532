\* A drag overlapping a delete; every call succeeds.
CONSTANTS
    Ids <- MCIds3
    IdOrder <- MCIdOrder3
    Prios <- MCPrios
    Terms <- MCTerms
    Matches <- MCMatches
    MayFail = {TRUE}
    MaxDrags = 1
    MaxDeletes = 1
    NaN = NaN
    Gone = Gone
    Undef = Undef
SPECIFICATION Spec
INVARIANTS
    RealmComponentsFresh
