\* The key providers tab and the detail forms, one page per behaviour.
\* A user may stop on any page, so a state with nothing left to do is no deadlock.
CONSTANTS
    Undef = Undef
    Off = Off
    Gone = Gone
    NaN = NaN
    FormPages = {"keyProviders", "addMapper", "scopeDetails",
                 "detailProvider", "customProvider",
                 "attributeGeneral"}
    DeletedScopes = {"address"}
SPECIFICATION Spec
CHECK_DEADLOCK FALSE
INVARIANTS
    KeyProvidersTypeOK
    SortedByPriority
    DropShownAfterRefresh
    AddMapperTypeOK
    ScopeDetailsTypeOK
    
    DetailProviderTypeOK
    PolicySavedUnderRealm
    CustomProviderTypeOK
    CleanFormShowsServer
    AttributeTypeOK
    AlwaysMeansEveryScope
