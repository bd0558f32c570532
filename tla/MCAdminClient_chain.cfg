\* A query param renamed by a key transform whose target is itself renamed.
CONSTANTS
    Parts = {"chain"}
    GlobalEmptyObject = FALSE
    Off = Off
    Undef = Undef
    NoKey = NoKey
    NoOpts = NoOpts
    NoHeader = NoHeader
    NoBody = NoBody
    TextPayload = TextPayload
    FormPayload = FormPayload
    ObjectString = ObjectString
    TransportFailure = TransportFailure
SPECIFICATION Spec
INVARIANTS
    QueryParamRenamed
