\* payloadKey unwrapping under every content type.
CONSTANTS
    Parts = {"shape"}
    GlobalEmptyObject = FALSE
    Off = Off
    Undef = Undef
    NoKey = NoKey
    NoOpts = NoOpts
    NoHeader = NoHeader
    NoBody = NoBody
    TextPayload = TextPayload
    FormPayload = FormPayload
    ObjectString = ObjectString
    TransportFailure = TransportFailure
SPECIFICATION Spec
INVARIANTS
    PayloadKeyUnwrapped
