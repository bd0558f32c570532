---------------------------- MODULE MCAdminClient ----------------------------
(***************************************************************************)
(* The admin client library (keycloak-admin-client): the request builder  *)
(* of resources/agent.ts and getToken of utils/auth.ts.  Each behaviour    *)
(* is one part's question, picked from Parts; the variables of the other   *)
(* parts stay Off.                                                         *)
(*   shape    request construction: url params, query params, ignored     *)
(*            keys, key transform, payload key and content type over every *)
(*            input object;                                                *)
(*   outcome  outcomes: resource id from the Location header, 404          *)
(*            suppression with global and call options, binary and JSON    *)
(*            responses, transport failures;                               *)
(*   chain    a query param renamed by a transform whose target is itself  *)
(*            renamed;                                                     *)
(*   request  calls of request() endpoints, checked against the builder's  *)
(*            contract (RequestContract) under a refinement mapping;       *)
(*   token    getToken for the three grant types against every answer.     *)
(*                                                                         *)
(* The input fields are a url param "id" and two other fields "a" and "b"  *)
(* that descriptors use as query params, key-transform sources and         *)
(* targets, payload keys and ignored keys; the base param is the realm, as *)
(* in the admin client's resources.  The credentials are a password login  *)
(* of the admin-cli client (optionally offline, with scopes), a refresh,   *)
(* and a confidential client with a secret; character classes are letters *)
(* and digits, "-" (as in "admin-cli") and ":".                            *)
(***************************************************************************)
EXTENDS Naturals

CONSTANTS
    Parts,
    GlobalEmptyObject,  \* whether the global options may be set to {}
    Off, Undef, NoKey, NoOpts, NoHeader, NoBody, TextPayload, FormPayload,
    ObjectString, TransportFailure

VARIABLES
    part,
    sh_globalOpts, sh_call, oc_globalOpts, oc_call, ch_globalOpts, ch_call,
    rq_globalOpts, rq_call,
    tk_phase, tk_creds, tk_sent, tk_response, tk_outcome

shVars == <<sh_globalOpts, sh_call>>
ocVars == <<oc_globalOpts, oc_call>>
chVars == <<ch_globalOpts, ch_call>>
rqVars == <<rq_globalOpts, rq_call>>
tkVars == <<tk_phase, tk_creds, tk_sent, tk_response, tk_outcome>>
vars == <<part, shVars, ocVars, chVars, rqVars, tkVars>>

\* The value constructors of Agent (Val, BaseVal), which use no constant.
V == INSTANCE Agent WITH
        Keys <- {}, BaseParams <- <<>>, Descriptors <- {}, Payloads <- {},
        Queries <- {}, CallOptions <- {}, GlobalOptions <- {}, Responses <- {},
        globalOpts <- sh_globalOpts, call <- sh_call

MCKeys == {"id", "a", "b"}

MCBaseParams == [realm |-> V!BaseVal("realm")]

\* /admin/realms/{realm}/clients/{id}
MCPath == <<[lit |-> "realms"], [param |-> "realm"],
            [lit |-> "clients"], [param |-> "id"]>>

\* Every object over the input fields whose fields hold their own value or
\* undefined.
MCObjects ==
    UNION {{[k \in D |-> IF k \in U THEN Undef ELSE V!Val(k)] : U \in SUBSET D} :
              D \in SUBSET MCKeys}

MCOptions == {NoOpts, [catchNotFound |-> TRUE], [catchNotFound |-> FALSE]}

\* Global options; {} is what setGlobalRequestArgOptions({}) leaves.
MCGlobalOptions == IF GlobalEmptyObject THEN MCOptions \cup {<<>>} ELSE MCOptions

Descriptor(kind, method, qk, kt, ign, pk, ct, rid, cnf, oct) ==
    [kind |-> kind, method |-> method, path |-> MCPath,
     urlParamKeys |-> {"id"}, queryParamKeys |-> qk, keyTransform |-> kt,
     ignoredKeys |-> ign, payloadKey |-> pk, contentType |-> ct,
     resourceIdField |-> rid, catchNotFound |-> cnf, acceptOctet |-> oct]

\* Request construction: which fields go to path, query string and body.
ShapeDescriptors ==
    {Descriptor("request", m, qk, kt, ign, pk, ct, NoKey, FALSE, FALSE) :
        m \in {"GET", "POST"}, qk \in {{}, {"a"}},
        kt \in {<<>>, <<<<"a", "b">>>>}, ign \in {{}, {"id"}, {"a"}},
        pk \in {NoKey, "b"}, ct \in {NoHeader, "text/plain"}}
    \cup
    {Descriptor("updateRequest", "PUT", {"a"}, <<>>, {}, pk, ct, NoKey, FALSE, FALSE) :
        pk \in {NoKey, "b"}, ct \in {NoHeader, "text/plain"}}

\* Request construction with a chained key transform {a: b, b: id}.
ChainDescriptors ==
    {Descriptor("request", m, {"a"}, <<<<"a", "b">>, <<"b", "id">>>>, {}, NoKey,
                NoHeader, NoKey, FALSE, FALSE) : m \in {"GET", "POST"}}

\* Outcomes: resource id extraction, 404 suppression, binary responses.
OutcomeDescriptors ==
    {Descriptor(kind, m, {}, <<>>, {}, NoKey, NoHeader, rid, cnf, oct) :
        kind \in {"request", "updateRequest"}, m \in {"GET", "POST"},
        rid \in {NoKey, "id"}, cnf \in BOOLEAN, oct \in BOOLEAN}

\* The outcome descriptors of request() endpoints.
RequestDescriptors == {d \in OutcomeDescriptors : d.kind = "request"}

ShapePayloads == MCObjects \cup {TextPayload, FormPayload}
OutcomePayloads == {<<>>, [id |-> V!Val("id")]}

MCNoOptions == {NoOpts}

MCQueries == {<<>>, [id |-> V!Val("id"), a |-> V!Val("a")]}

\* Location headers split at "/": a resource url, one with a trailing slash,
\* and the empty header.
MCLocations == {NoHeader, <<"", "admin", "clients", "abc">>,
                <<"", "admin", "clients", "">>, <<"">>}

OutcomeResponses ==
    [status : {200, 201, 404, 500, TransportFailure}, location : MCLocations,
     body : {"data"}]

ShapeResponses == {[status |-> 200, location |-> NoHeader, body |-> "data"]}

SH == INSTANCE Agent WITH
        Keys <- MCKeys, BaseParams <- MCBaseParams, Descriptors <- ShapeDescriptors,
        Payloads <- ShapePayloads, Queries <- MCQueries, CallOptions <- MCNoOptions,
        GlobalOptions <- MCNoOptions, Responses <- ShapeResponses,
        globalOpts <- sh_globalOpts, call <- sh_call

OC == INSTANCE Agent WITH
        Keys <- MCKeys, BaseParams <- MCBaseParams, Descriptors <- OutcomeDescriptors,
        Payloads <- OutcomePayloads, Queries <- MCQueries, CallOptions <- MCOptions,
        GlobalOptions <- MCGlobalOptions, Responses <- OutcomeResponses,
        globalOpts <- oc_globalOpts, call <- oc_call

RQ == INSTANCE Agent WITH
        Keys <- MCKeys, BaseParams <- MCBaseParams, Descriptors <- RequestDescriptors,
        Payloads <- OutcomePayloads, Queries <- MCQueries, CallOptions <- MCOptions,
        GlobalOptions <- MCGlobalOptions, Responses <- OutcomeResponses,
        globalOpts <- rq_globalOpts, call <- rq_call

CH == INSTANCE Agent WITH
        Keys <- MCKeys, BaseParams <- MCBaseParams, Descriptors <- ChainDescriptors,
        Payloads <- ShapePayloads, Queries <- MCQueries, CallOptions <- MCNoOptions,
        GlobalOptions <- MCNoOptions, Responses <- ShapeResponses,
        globalOpts <- ch_globalOpts, call <- ch_call

-----------------------------------------------------------------------------
MCBase64Alphabet == {"alnum", "+", "/", "="}

Cred(grant, user, pw, secret, refresh, offline, scopes) ==
    [grantType |-> grant, clientId |-> "admin-cli",
     clientIdChars |-> {"alnum", "-"},
     username |-> user, password |-> pw, totp |-> Undef,
     clientSecret |-> secret, clientSecretChars |-> {"alnum"},
     refreshToken |-> refresh, offlineToken |-> offline, scopes |-> scopes]

PasswordCredentials ==
    {Cred("password", "admin", pw, Undef, Undef, off, sc) :
        pw \in {"pw", ""}, off \in BOOLEAN, sc \in {Undef, "openid", ""}}

RefreshCredentials ==
    {Cred("refresh_token", Undef, Undef, Undef, rt, FALSE, Undef) : rt \in {"rt", ""}}

SecretCredentials ==
    {Cred("client_credentials", Undef, Undef, "secret", Undef, FALSE, Undef)}

PasswordRefresh == PasswordCredentials \cup RefreshCredentials
AllCredentials == PasswordRefresh \cup SecretCredentials

MCResponses == [status : {200, 401, 500}, json : BOOLEAN]

TK == INSTANCE TokenRequest WITH
        Credentials <- AllCredentials, Responses <- MCResponses,
        Base64Alphabet <- MCBase64Alphabet,
        phase <- tk_phase, creds <- tk_creds, sent <- tk_sent,
        response <- tk_response, outcome <- tk_outcome

-----------------------------------------------------------------------------
SHOff == sh_globalOpts = Off /\ sh_call = Off
OCOff == oc_globalOpts = Off /\ oc_call = Off
CHOff == ch_globalOpts = Off /\ ch_call = Off
RQOff == rq_globalOpts = Off /\ rq_call = Off
TKOff == /\ tk_phase = Off /\ tk_creds = Off /\ tk_sent = Off
         /\ tk_response = Off /\ tk_outcome = Off

Init ==
    /\ part \in Parts
    /\ IF part = "shape" THEN SH!Init ELSE SHOff
    /\ IF part = "outcome" THEN OC!Init ELSE OCOff
    /\ IF part = "chain" THEN CH!Init ELSE CHOff
    /\ IF part = "request" THEN RQ!Init ELSE RQOff
    /\ IF part = "token" THEN TK!Init ELSE TKOff

Next ==
    \/ part = "shape" /\ SH!Next /\ UNCHANGED <<part, ocVars, chVars, rqVars, tkVars>>
    \/ part = "outcome" /\ OC!Next /\ UNCHANGED <<part, shVars, chVars, rqVars, tkVars>>
    \/ part = "chain" /\ CH!Next /\ UNCHANGED <<part, shVars, ocVars, rqVars, tkVars>>
    \/ part = "request" /\ RQ!Next /\ UNCHANGED <<part, shVars, ocVars, chVars, tkVars>>
    \/ part = "token" /\ TK!Next /\ UNCHANGED <<part, shVars, ocVars, chVars, rqVars>>

(* A request() call in flight moves on: getAccessToken resolves, fetch     *)
(* settles (the builder sets no timeout, so this is the assumption that    *)
(* the server or the network answers) and the caller's await resumes on    *)
(* the event loop.                                                         *)
RequestProgress ==
    /\ part = "request"
    /\ RQ!Send \/ (\E r \in OutcomeResponses : RQ!Settle(r)) \/ RQ!Return
    /\ UNCHANGED <<part, shVars, ocVars, chVars, tkVars>>

Spec == Init /\ [][Next]_vars /\ WF_vars(RequestProgress)

-----------------------------------------------------------------------------
(* The refinement mapping of the request part onto RequestContract: the    *)
(* abstract call is issued at Request (the closure reads the global        *)
(* options and fixes catchNotFound), sent at Send, settled at Settle and   *)
(* delivered at Return.  Behaviours of the other parts map to an idle      *)
(* contract.                                                               *)
ContractPhase == [awaitToken |-> "issued", awaitFetch |-> "sent", settled |-> "settled"]

ContractReq ==
    IF part # "request" THEN [phase |-> "idle"]
    ELSE IF rq_call.phase = "idle" THEN [phase |-> "idle"]
    ELSE [phase |-> ContractPhase[rq_call.phase], d |-> rq_call.d,
          options |-> rq_call.args.options,
          catchNotFound |-> rq_call.args.catchNotFound,
          response |-> rq_call.response, outcome |-> rq_call.outcome]

ContractGlobal == IF part = "request" THEN rq_globalOpts ELSE NoOpts

Contract == INSTANCE RequestContract WITH
        Descriptors <- RequestDescriptors, CallOptions <- MCOptions,
        GlobalOptions <- MCGlobalOptions, Responses <- OutcomeResponses,
        globalOpts <- ContractGlobal, req <- ContractReq

-----------------------------------------------------------------------------
(* Each part's properties, asked of that part's behaviours; they are       *)
(* stated in Agent and TokenRequest, with a comment above each there.      *)

\* Agent!TypeOK: calls and their requests are well formed.
AgentTypeOK ==
    /\ part = "shape" => SH!TypeOK
    /\ part = "outcome" => OC!TypeOK
    /\ part = "chain" => CH!TypeOK
    /\ part = "request" => RQ!TypeOK

\* Agent!UrlAndQueryFieldsLeavePayload: url and query fields are not in the body.
UrlAndQueryFieldsLeavePayload == part = "shape" => SH!UrlAndQueryFieldsLeavePayload

\* Agent!PayloadKeyUnwrapped: the body is exactly the payload key's value.
PayloadKeyUnwrapped == part = "shape" => SH!PayloadKeyUnwrapped

\* Agent!ResourceIdFromLocation: the id is the Location header's last segment.
ResourceIdFromLocation == part = "outcome" => OC!ResourceIdFromLocation

\* Agent!NotFoundSuppression: request() turns a 404 into null exactly as asked.
NotFoundSuppression == part = "outcome" => OC!NotFoundSuppression

\* Agent!NotFoundSuppressionAllCalls: the same for updateRequest endpoints.
NotFoundSuppressionAllCalls == part = "outcome" => OC!NotFoundSuppressionAllCalls

\* Agent!QueryParamRenamed: a renamed query param is sent under its new name.
QueryParamRenamed == part = "chain" => CH!QueryParamRenamed

(* request() implements the builder's contract: each call fixes its 404   *)
(* rule from the global option in force at the call, then the call's and   *)
(* the descriptor's; it sends one fetch and no retry, returns exactly the  *)
(* outcome its response decides, keeps nothing afterwards, and returns     *)
(* once its token and response arrive (agent.ts lines 105-120, 180-285).   *)
ImplementsRequestContract == Contract!Spec

\* TokenRequest!TypeOK: the phases of a getToken call and their outcome.
TokenTypeOK == part = "token" => TK!TypeOK

\* TokenRequest!TokenOnlyFromOkJson: a token only from an ok JSON answer.
TokenOnlyFromOkJson == part = "token" => TK!TokenOnlyFromOkJson

\* TokenRequest!ConfidentialClientAuthenticates: a client secret is sent in
\* a Basic header that encodes it.
ConfidentialClientAuthenticates == part = "token" => TK!ConfidentialClientAuthenticates

=============================================================================
