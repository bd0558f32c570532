\* getToken for a confidential client with a secret.
CONSTANTS
    Parts = {"token"}
    GlobalEmptyObject = FALSE
    Off = Off
    Undef = Undef
    NoKey = NoKey
    NoOpts = NoOpts
    NoHeader = NoHeader
    NoBody = NoBody
    TextPayload = TextPayload
    FormPayload = FormPayload
    ObjectString = ObjectString
    TransportFailure = TransportFailure
SPECIFICATION Spec
INVARIANTS
    ConfidentialClientAuthenticates
