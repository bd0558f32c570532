\* The spec's 404 suppression rule checked for updateRequest endpoints too.
CONSTANTS
    Parts = {"outcome"}
    GlobalEmptyObject = FALSE
    Off = Off
    Undef = Undef
    NoKey = NoKey
    NoOpts = NoOpts
    NoHeader = NoHeader
    NoBody = NoBody
    TextPayload = TextPayload
    FormPayload = FormPayload
    ObjectString = ObjectString
    TransportFailure = TransportFailure
SPECIFICATION Spec
INVARIANTS
    NotFoundSuppressionAllCalls
