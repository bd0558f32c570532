\* Recent realms, dedicated scopes, the user form, client details, the password
\* dialog, the client policy condition page and the client keys tab, one page per behaviour.
\* A user may stop on any page, so a state with nothing left to do is no deadlock.
CONSTANTS
    Undef = Undef
    Off = Off
    Gone = Gone
    None = None
    Absent = Absent
    Hole = Hole
SPECIFICATION Spec
CHECK_DEADLOCK FALSE
INVARIANTS
    RecentRealmsTypeOK
    DedicatedScopesTypeOK
    MappersShownExist
    MappersShownMatchServer
    UserFormTypeOK
    ClientDetailsTypeOK
    ShownClientWasHeld
    SequentialSavesKeepPageTrue
    ResetPasswordTypeOK
    SuccessMeansSaved
    ClientPolicyConditionTypeOK
    SequentialKeyOpsKeepInfoFresh
    SequentialOpsKeepRealmFresh
    SuccessMeansShared
    SequentialOpsKeepTreeFresh
PROPERTIES
    SwitchKeepsRecency
    ConfirmedSaveCloses
    SaveAsIntended
    SequentialOpsShowRealm
