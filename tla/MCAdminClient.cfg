\* Request construction, outcomes and getToken, one part per behaviour.
CONSTANTS
    Parts = {"shape", "outcome", "chain", "request", "token"}
    GlobalEmptyObject = TRUE
    Off = Off
    Undef = Undef
    NoKey = NoKey
    NoOpts = NoOpts
    NoHeader = NoHeader
    NoBody = NoBody
    TextPayload = TextPayload
    FormPayload = FormPayload
    ObjectString = ObjectString
    TransportFailure = TransportFailure
SPECIFICATION Spec
INVARIANTS
    AgentTypeOK
    UrlAndQueryFieldsLeavePayload
    ResourceIdFromLocation
    TokenTypeOK
    TokenOnlyFromOkJson
PROPERTIES
    ImplementsRequestContract
