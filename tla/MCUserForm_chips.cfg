\* A chip deleted before the new user is created.
CONSTANTS
    Groups <- MCGroups
    GroupName <- MCGroupName
    Actions <- MCActions
    Realms <- MCRealms
    FeatureEnabled = FALSE
    MayFail = {FALSE}
    MaxOps = 3
    Undef = Undef
SPECIFICATION Spec
CHECK_DEADLOCK FALSE
INVARIANTS
    GroupsSubmittedAreChips
