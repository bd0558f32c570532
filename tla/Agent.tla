------------------------------- MODULE Agent -------------------------------
(***************************************************************************)
(* The request builder of the admin client                                 *)
(* (src/js/libs/keycloak-admin-client/src/resources/agent.ts).             *)
(*                                                                         *)
(* One call of an endpoint function built by Agent.request or              *)
(* Agent.updateRequest runs in three steps, cut where the code awaits:     *)
(*   Invoke    the closure's synchronous part and requestWithParams up to  *)
(*             `await this.client.getAccessToken()`;                       *)
(*   Send      the rest of requestWithParams up to `await fetchWithError`; *)
(*   Settle    the fetch settles and the outcome is returned or thrown.    *)
(* Between the steps the application may change the client's global       *)
(* request options.  Field values are tagged with the field they came from *)
(* so that a property can say where an input value ended up.               *)
(***************************************************************************)
EXTENDS Naturals, SequencesExt

CONSTANTS
    Keys,           \* field names of call inputs
    BaseParams,     \* getUrlParams(): the builder-level url params
    Descriptors,    \* endpoint descriptors (RequestArgs) of the model
    Payloads,       \* call inputs of request() and payloads of updateRequest()
    Queries,        \* query objects of updateRequest()
    CallOptions,    \* per-call options of request(): NoOpts or an options object
    GlobalOptions,  \* values of client.getGlobalRequestArgOptions()
    Responses,      \* what the server may answer
    Undef,          \* the JavaScript value undefined
    NoKey,          \* an absent optional descriptor field
    NoOpts,         \* an absent options object
    NoHeader,       \* an absent header
    NoBody,         \* a request sent without body
    TextPayload,    \* a string payload (e.g. a credential label)
    FormPayload,    \* a FormData payload (e.g. an uploaded certificate)
    ObjectString,   \* "[object Object]", what fetch makes of an object body
    TransportFailure \* a fetch rejected before any response arrived

VARIABLES
    globalOpts,     \* the client's global request arg options
    call            \* the current (or last) call of an endpoint function

vars == <<globalOpts, call>>

(***************************************************************************)
(* Values and objects.  An input value is tagged with its field; a base    *)
(* param value with the base param.  An object is a function from the      *)
(* fields it has to their values, Undef included.                          *)
(***************************************************************************)
Val(k) == [input |-> k]
BaseVal(k) == [base |-> k]

IsObject(p) == p \notin {TextPayload, FormPayload}

IsScalar(x) == x \in {Val(k) : k \in Keys} \cup {BaseVal(k) : k \in DOMAIN BaseParams}

\* lodash pick: the fields of o named in ks (a field holding undefined is
\* kept); a string or a FormData has none of them.
Pick(o, ks) == IF IsObject(o) THEN Restrict(o, DOMAIN o \cap ks) ELSE <<>>

\* Mutant: the url and query fields are left in the payload.
OmitNothing(o, ks) == IF IsObject(o) THEN o ELSE <<>>

\* lodash omit: o without the fields named in ks.  Of a FormData it keeps
\* only enumerable own and inherited properties, none of which is a field.
Omit(o, ks) == IF IsObject(o) THEN Restrict(o, DOMAIN o \ ks) ELSE <<>>

\* Object spread {...o1, ...o2}: o2's fields win.
Spread(o1, o2) ==
    [k \in DOMAIN o1 \cup DOMAIN o2 |-> IF k \in DOMAIN o2 THEN o2[k] ELSE o1[k]]

\* payload[key] of any payload.
Get(p, k) == IF IsObject(p) /\ k \in DOMAIN p THEN p[k] ELSE Undef

\* One iteration of transformKey's loop: skip an undefined field, else
\* payload[newKey] = payload[key]; delete payload[key].
TransformKeyStep(o, entry) ==
    LET key == entry[1]
        newKey == entry[2]
    IN  IF Get(o, key) = Undef THEN o
        ELSE [j \in (DOMAIN o \cup {newKey}) \ {key} |->
                 IF j = newKey THEN o[key] ELSE o[j]]

\* Agent.transformKey: the entries of keyMapping applied in key order, each
\* to the object the previous ones left.
transformKey(o, keyMapping) == FoldLeft(TransformKeyStep, o, keyMapping)

\* JSON.stringify drops fields holding undefined; JSON.stringify(undefined)
\* is undefined, which fetch sends as no body at all.
Json(x) ==
    IF x = Undef THEN NoBody
    ELSE [enc |-> "json",
          v |-> IF IsScalar(x) \/ ~IsObject(x) THEN x
                ELSE Restrict(x, {k \in DOMAIN x : x[k] # Undef})]

\* Mutant: undefined fields are sent as "undefined".
StringifyAll(o) == o

\* stringifyQueryParams: fields holding undefined are not sent.
StringifyQueryParams(o) == Restrict(o, {k \in DOMAIN o : o[k] # Undef})

\* url-template expansion of a path of literal and {param} segments; an
\* undefined or missing param expands to the empty string.
Expand(path, urlParams) ==
    [i \in DOMAIN path |->
        IF "param" \in DOMAIN path[i]
        THEN IF path[i].param \in DOMAIN urlParams
                /\ urlParams[path[i].param] # Undef
             THEN urlParams[path[i].param] ELSE ""
        ELSE path[i].lit]

IsOk(status) == status # TransportFailure /\ status \in 200..299

(***************************************************************************)
(* The state of a call.  args are requestWithParams' arguments; url, body, *)
(* search and contentType the resolved request; outcome what the call      *)
(* returns ("value", "id", "buffer", "null") or throws ("networkError",    *)
(* "error", "transportError").                                             *)
(***************************************************************************)
Phases == {"idle", "awaitToken", "awaitFetch", "settled"}

Init ==
    /\ globalOpts \in GlobalOptions
    /\ call = [phase |-> "idle"]

\* client.setGlobalRequestArgOptions, called by the application at any time
\* it runs (a call in flight is suspended at an await).
SetGlobalRequestArgOptions(g) ==
    /\ globalOpts' = g
    /\ UNCHANGED call

\* requestWithParams from its start to the await of the access token: the
\* url is fixed here, before the await.
StartRequestWithParams(d, args) ==
    call' = [phase |-> "awaitToken", d |-> d, args |-> args,
             url |-> Expand(d.path, args.urlParams),
             body |-> NoBody, search |-> <<>>, contentType |-> NoHeader,
             response |-> NoHeader, outcome |-> [kind |-> "pending"]]

\* Mutant: the call option is preferred to the global one.
OptionsBeforeGlobal(g, o) ==
    IF o # NoOpts THEN o ELSE IF g # NoOpts THEN g ELSE <<>>

\* The options spread over catchNotFound: global ?? options ?? {}.
RequestArgOverrides(g, o) ==
    IF g # NoOpts THEN g ELSE IF o # NoOpts THEN o ELSE <<>>

\* The function built by request(descriptor), called with (payload, options).
Request(d, p, o) ==
    /\ call.phase = "idle"
    /\ d.kind = "request"
    /\ LET queryParams == Pick(p, d.queryParamKeys)
           allUrlParamKeys == DOMAIN BaseParams \cup d.urlParamKeys
           urlParams == Spread(BaseParams, Pick(p, allUrlParamKeys))
           omittedKeys == (allUrlParamKeys \cup d.queryParamKeys) \ d.ignoredKeys
           payload == Omit(p, omittedKeys)
           overrides == RequestArgOverrides(globalOpts, o)
           catchNotFound == IF "catchNotFound" \in DOMAIN overrides
                            THEN overrides["catchNotFound"] ELSE d.catchNotFound
       IN  StartRequestWithParams(d,
             [payload |-> transformKey(payload, d.keyTransform),
              queryParams |-> transformKey(queryParams, d.keyTransform),
              urlParams |-> urlParams, catchNotFound |-> catchNotFound,
              input |-> p, options |-> o, global |-> globalOpts])
    /\ UNCHANGED globalOpts

\* The function built by updateRequest(descriptor), called with (query, payload).
UpdateRequest(d, q, p) ==
    /\ call.phase = "idle"
    /\ d.kind = "updateRequest"
    /\ LET allUrlParamKeys == DOMAIN BaseParams \cup d.urlParamKeys
       IN  StartRequestWithParams(d,
             [payload |-> p,
              queryParams |-> transformKey(Pick(q, d.queryParamKeys), d.keyTransform),
              urlParams |-> Spread(BaseParams, Pick(q, allUrlParamKeys)),
              catchNotFound |-> d.catchNotFound,
              input |-> p, options |-> NoOpts, global |-> globalOpts])
    /\ UNCHANGED globalOpts

\* The body requestWithParams puts on the request.
BodyOf(d, payload, contentType) ==
    CASE d.method = "GET"            -> NoBody
      [] contentType = "text/plain"  -> IF IsObject(payload) THEN ObjectString
                                        ELSE payload
      [] payload = FormPayload       -> FormPayload
      [] OTHER -> Json(IF d.payloadKey # NoKey THEN Get(payload, d.payloadKey)
                       ELSE payload)

\* Mutant: the global options are read again after the token await, so a
\* setGlobalRequestArgOptions made while the call waits changes its 404 rule.
SendRereadingGlobal ==
    /\ call.phase = "awaitToken"
    /\ LET d == call.d
           a == call.args
           overrides == RequestArgOverrides(globalOpts, a.options)
           searchParams == IF d.method = "GET" THEN Spread(a.payload, a.queryParams)
                           ELSE a.queryParams
       IN  call' = [call EXCEPT
                      !.phase = "awaitFetch",
                      !.args.catchNotFound =
                         IF d.kind = "request" /\ "catchNotFound" \in DOMAIN overrides
                         THEN overrides["catchNotFound"] ELSE a.catchNotFound,
                      !.body = BodyOf(d, a.payload, d.contentType),
                      !.search = StringifyQueryParams(searchParams),
                      !.contentType =
                         IF d.contentType = NoHeader /\ a.payload # FormPayload
                         THEN "application/json" ELSE d.contentType]
    /\ UNCHANGED globalOpts

\* The token arrives: headers, body and query string, then fetch is called.
Send ==
    /\ call.phase = "awaitToken"
    /\ LET d == call.d
           a == call.args
           searchParams == IF d.method = "GET" THEN Spread(a.payload, a.queryParams)
                           ELSE a.queryParams
       IN  call' = [call EXCEPT
                      !.phase = "awaitFetch",
                      !.body = BodyOf(d, a.payload, d.contentType),
                      !.search = StringifyQueryParams(searchParams),
                      !.contentType =
                         IF d.contentType = NoHeader /\ a.payload # FormPayload
                         THEN "application/json" ELSE d.contentType]
    /\ UNCHANGED globalOpts

\* Mutant: an empty last segment of the Location header is returned as id.
OutcomeWithoutIdCheck(d, a, r) ==
    CASE r.status = TransportFailure -> [kind |-> "transportError"]
      [] ~IsOk(r.status) ->
            IF r.status = 404 /\ a.catchNotFound THEN [kind |-> "null"]
            ELSE [kind |-> "networkError", status |-> r.status]
      [] d.resourceIdField # NoKey ->
            IF r.location = NoHeader THEN [kind |-> "error"]
            ELSE [kind |-> "id", field |-> d.resourceIdField, id |-> Last(r.location)]
      [] d.acceptOctet -> [kind |-> "buffer", body |-> r.body]
      [] OTHER -> [kind |-> "value", body |-> r.body]

\* What requestWithParams returns or throws for the response r.
OutcomeOf(d, a, r) ==
    CASE r.status = TransportFailure -> [kind |-> "transportError"]
      [] ~IsOk(r.status) ->
            IF r.status = 404 /\ a.catchNotFound THEN [kind |-> "null"]
            ELSE [kind |-> "networkError", status |-> r.status]
      [] d.resourceIdField # NoKey ->
            IF r.location = NoHeader THEN [kind |-> "error"]
            ELSE IF Last(r.location) = "" THEN [kind |-> "error"]
            ELSE [kind |-> "id", field |-> d.resourceIdField, id |-> Last(r.location)]
      [] d.acceptOctet -> [kind |-> "buffer", body |-> r.body]
      [] OTHER -> [kind |-> "value", body |-> r.body]

\* fetchWithError settles with the response r (or a transport failure).
Settle(r) ==
    /\ call.phase = "awaitFetch"
    /\ call' = [call EXCEPT !.phase = "settled", !.response = r,
                            !.outcome = OutcomeOf(call.d, call.args, r)]
    /\ UNCHANGED globalOpts

\* The caller's await of the endpoint function resumes with the outcome;
\* the agent keeps nothing of the call.
Return ==
    /\ call.phase = "settled"
    /\ call' = [phase |-> "idle"]
    /\ UNCHANGED globalOpts

Next ==
    \/ \E g \in GlobalOptions : SetGlobalRequestArgOptions(g)
    \/ \E d \in Descriptors, p \in Payloads, o \in CallOptions : Request(d, p, o)
    \/ \E d \in Descriptors, q \in Queries, p \in Payloads : UpdateRequest(d, q, p)
    \/ Send
    \/ \E r \in Responses : Settle(r)
    \/ Return

Spec == Init /\ [][Next]_vars

-----------------------------------------------------------------------------
(***************************************************************************)
(* Properties                                                              *)
(***************************************************************************)
Sent == call.phase \in {"awaitFetch", "settled"}

TypeOK ==
    /\ globalOpts \in GlobalOptions
    /\ call.phase \in Phases
    /\ call.phase # "idle" =>
          /\ call.d \in Descriptors
          /\ call.args.input \in Payloads
          /\ call.args.catchNotFound \in BOOLEAN
          /\ DOMAIN call.args.urlParams \subseteq Keys \cup DOMAIN BaseParams
    /\ Sent => call.search \in UNION {[D -> {Val(k) : k \in Keys}] : D \in SUBSET Keys}
    /\ call.phase = "settled" =>
          /\ call.response \in Responses
          /\ call.outcome.kind \in {"value", "id", "buffer", "null",
                                     "networkError", "error", "transportError"}

\* The input values a body carries.
BodyValues(b) ==
    IF b \in {NoBody, ObjectString, TextPayload, FormPayload} THEN {}
    ELSE IF IsScalar(b.v) THEN {b.v} ELSE Range(b.v)

(* Spec 8.1 and the data-model invariant of agent.ts request(): a field     *)
(* consumed as a url param (or builder base param) or as a query param is   *)
(* omitted from the payload (lines 93-100), so its value is carried by no   *)
(* body, whatever the payloadKey, key transform or content type, and a url  *)
(* param's value never reaches the query string of a GET, unless the field  *)
(* is listed in ignoredKeys.                                               *)
UrlAndQueryFieldsLeavePayload ==
    (Sent /\ call.d.kind = "request") =>
        \A k \in (call.d.urlParamKeys \cup call.d.queryParamKeys) \ call.d.ignoredKeys :
            /\ Val(k) \notin BodyValues(call.body)
            /\ k \notin call.d.queryParamKeys => Val(k) \notin Range(call.search)

(* Spec 8.4 on requestWithParams lines 242-262: a successful call that      *)
(* returns the resource id of the Location header returns exactly           *)
(* {[field]: last segment}, and only when that segment is non-empty; a      *)
(* missing header or an empty last segment is an error, never an id.        *)
ResourceIdFromLocation ==
    (call.phase = "settled" /\ call.d.resourceIdField # NoKey
        /\ call.response.status # TransportFailure /\ IsOk(call.response.status)) =>
        LET loc == call.response.location IN
        IF loc # NoHeader /\ Last(loc) # ""
        THEN call.outcome = [kind |-> "id", field |-> call.d.resourceIdField,
                             id |-> Last(loc)]
        ELSE call.outcome.kind = "error"

\* The catchNotFound in force for a call by the spec's rule "global > local >
\* default": a global option, else a call option, else the descriptor's.
SpecifiedCatchNotFound(d, a) ==
    IF a.global # NoOpts /\ "catchNotFound" \in DOMAIN a.global
    THEN a.global["catchNotFound"]
    ELSE IF a.options # NoOpts /\ "catchNotFound" \in DOMAIN a.options
    THEN a.options["catchNotFound"]
    ELSE d.catchNotFound

\* A settled call returned null exactly when the server said 404 and the
\* catchNotFound in force was set.
NotFoundAsSpecified ==
    (call.phase = "settled" /\ call.response.status # TransportFailure) =>
        ((call.outcome.kind = "null") <=>
            (call.response.status = 404 /\ SpecifiedCatchNotFound(call.d, call.args)))

(* Spec 8.5 on request() line 116 and requestWithParams lines 275-283: a    *)
(* call of a request() endpoint returns null exactly when the response is   *)
(* 404 and the catchNotFound in force, global option over call option over  *)
(* descriptor default, was true; every other failure is thrown.             *)
NotFoundSuppression ==
    (call.phase # "idle" /\ call.d.kind = "request") => NotFoundAsSpecified

(* Spec 8.5 and section 4.1 ("the descriptor (or a global, call-level       *)
(* override) requests 404 suppression"), for every call, update-style ones  *)
(* included: updateRequest (lines 124-167) also honours the global option.  *)
NotFoundSuppressionAllCalls == NotFoundAsSpecified

(* Spec 8.2 on transformKey (lines 287-301): a query param a with a defined *)
(* value, renamed by the key-transform entry {a: b}, is transmitted under   *)
(* b and not under a.                                                      *)
QueryParamRenamed ==
    (Sent /\ call.d.kind = "request") =>
        \A i \in DOMAIN call.d.keyTransform :
            LET a == call.d.keyTransform[i][1]
                b == call.d.keyTransform[i][2]
            IN  (a \in call.d.queryParamKeys /\ Get(call.args.input, a) # Undef) =>
                    /\ b \in DOMAIN call.search /\ call.search[b] = Val(a)
                    /\ a \notin DOMAIN call.search

(* Spec 8.3 and 4.1 on requestWithParams lines 207-219: with a payloadKey,  *)
(* only that field's value becomes the body of a POST or PUT (passed        *)
(* verbatim under text/plain, JSON-encoded otherwise).                      *)
PayloadKeyUnwrapped ==
    (Sent /\ call.d.method # "GET" /\ call.d.payloadKey # NoKey
        /\ IsObject(call.args.input)) =>
        LET v == Get(call.args.payload, call.d.payloadKey) IN
        IF call.d.contentType = "text/plain" THEN call.body = v
        ELSE call.body = Json(v)

=============================================================================
