---------------------------- MODULE TokenRequest ----------------------------
(***************************************************************************)
(* getToken of the admin client (src/js/libs/keycloak-admin-client/src/    *)
(* utils/auth.ts): the OpenID Connect token request the client sends when  *)
(* it authenticates.  A call builds the form payload and the headers       *)
(* synchronously, awaits fetchWithError, then awaits response.json().      *)
(* Strings are abstracted to the set of character classes they contain,   *)
(* which is all that atob's validity depends on.                           *)
(***************************************************************************)
EXTENDS Naturals, FiniteSets

CONSTANTS
    Credentials,    \* the Credentials objects callers pass
    Responses,      \* what the token endpoint may answer
    Base64Alphabet, \* the character classes atob accepts
    Undef           \* the JavaScript value undefined

VARIABLES
    phase,          \* "idle", "awaitFetch", "awaitJson" or "done"
    creds,          \* the credentials of the current call
    sent,           \* the request put on the wire: [body, authorization]
    response,       \* the response fetchWithError resolved with
    outcome         \* "token", or the kind of error the call rejected with

vars == <<phase, creds, sent, response, outcome>>

\* A field of the form payload: a value, or absent.
Defined(v) == v # Undef

\* The grant types of a Credentials object (line 6).
GrantTypes == {"client_credentials", "password", "refresh_token"}

\* The Credentials interface (lines 8-18): a grant type and a client id are
\* required, the flag is a boolean when set; the other fields are optional.
IsCredentials(c) ==
    /\ c.grantType \in GrantTypes
    /\ Defined(c.clientId)
    /\ c.offlineToken \in BOOLEAN \cup {Undef}

\* stringifyQueryParams drops fields that are undefined or "" (the empty
\* string is the value "" here).
FormField(v) == IF Defined(v) /\ v # "" THEN {v} ELSE {}

(***************************************************************************)
(* The payload of lines 60-74: later spreads win, so scopes replace        *)
(* offline_access, and the secret is sent only with a refresh token.       *)
(***************************************************************************)
TokenPayload(c) ==
    [username      |-> FormField(c.username),
     password      |-> FormField(c.password),
     grant_type    |-> FormField(c.grantType),
     client_id     |-> FormField(c.clientId),
     totp          |-> FormField(c.totp),
     scope         |-> IF c.scopes # Undef THEN FormField(c.scopes)
                       ELSE IF c.offlineToken THEN {"offline_access"} ELSE {},
     refresh_token |-> IF Defined(c.refreshToken) /\ c.refreshToken # ""
                       THEN FormField(c.refreshToken) ELSE {},
     client_secret |-> IF Defined(c.refreshToken) /\ c.refreshToken # ""
                       THEN FormField(c.clientSecret) ELSE {}]

\* atob(s) decodes base64 and throws an InvalidCharacterError when s holds a
\* character outside the base64 alphabet.
AtobThrows(chars) == ~(chars \subseteq Base64Alphabet)

\* The characters of clientId + ":" + clientSecret.
SecretHeaderChars(c) == c.clientIdChars \cup {":"} \cup c.clientSecretChars

Init ==
    /\ phase = "idle"
    /\ creds = Undef
    /\ sent = Undef
    /\ response = Undef
    /\ outcome = Undef

\* getToken(settings) up to `await fetchWithError`: the payload, then the
\* Authorization header when there is a client secret, which throws first.
GetToken(c) ==
    /\ phase = "idle"
    /\ creds' = c
    /\ IF Defined(c.clientSecret) /\ c.clientSecret # ""
       THEN IF AtobThrows(SecretHeaderChars(c))
            THEN /\ phase' = "done"
                 /\ outcome' = "invalidCharacterError"
                 /\ sent' = Undef
            ELSE /\ phase' = "awaitFetch"
                 /\ outcome' = Undef
                 /\ sent' = [body |-> TokenPayload(c),
                             authorization |-> "atob(clientId:clientSecret)"]
       ELSE /\ phase' = "awaitFetch"
            /\ outcome' = Undef
            /\ sent' = [body |-> TokenPayload(c), authorization |-> Undef]
    /\ response' = Undef

\* Mutant: the status is not checked (plain fetch instead of fetchWithError).
FetchSettlesUnchecked(r) ==
    /\ phase = "awaitFetch"
    /\ response' = r
    /\ phase' = "awaitJson" /\ outcome' = Undef
    /\ UNCHANGED <<creds, sent>>

\* fetchWithError settles: a non-2xx answer rejects with a NetworkError.
FetchSettles(r) ==
    /\ phase = "awaitFetch"
    /\ response' = r
    /\ IF r.status \in 200..299
       THEN phase' = "awaitJson" /\ outcome' = Undef
       ELSE phase' = "done" /\ outcome' = "networkError"
    /\ UNCHANGED <<creds, sent>>

\* Mutant: a body that does not parse is swallowed and undefined returned.
JsonSettlesRaw ==
    /\ phase = "awaitJson"
    /\ phase' = "done"
    /\ outcome' = IF response.json THEN "token" ELSE Undef
    /\ UNCHANGED <<creds, sent, response>>

\* response.json() settles; camelize(data) is returned.
JsonSettles ==
    /\ phase = "awaitJson"
    /\ phase' = "done"
    /\ outcome' = IF response.json THEN "token" ELSE "syntaxError"
    /\ UNCHANGED <<creds, sent, response>>

\* The caller takes the result; the next getToken starts afresh.
Return ==
    /\ phase = "done"
    /\ phase' = "idle"
    /\ UNCHANGED <<creds, sent, response, outcome>>

Next ==
    \/ \E c \in Credentials : GetToken(c)
    \/ \E r \in Responses : FetchSettles(r)
    \/ JsonSettles
    \/ Return

Spec == Init /\ [][Next]_vars

-----------------------------------------------------------------------------
Outcomes == {"token", "networkError", "syntaxError", "invalidCharacterError"}

TypeOK ==
    /\ phase \in {"idle", "awaitFetch", "awaitJson", "done"}
    /\ creds \in Credentials \cup {Undef}
    /\ creds # Undef => IsCredentials(creds)
    /\ response \in Responses \cup {Undef}
    /\ outcome \in Outcomes \cup {Undef}
    /\ phase \in {"awaitFetch", "awaitJson"} => sent # Undef /\ outcome = Undef
    \* every call that has settled settled with a token or an error
    /\ phase = "done" => outcome \in Outcomes

(* getToken (lines 88-96) resolves with a token only for a 2xx answer whose *)
(* body is JSON; an error status rejects with fetchWithError's NetworkError *)
(* before the body is read, and the caller never gets a token of a failed  *)
(* login.                                                                  *)
TokenOnlyFromOkJson ==
    outcome = "token" =>
        /\ response # Undef
        /\ response.status \in 200..299
        /\ response.json

(* A confidential client (Credentials.clientSecret set, the client          *)
(* credentials grant) authenticates at the token endpoint: lines 79-84 send *)
(* the client id and secret in the Authorization header, so the call        *)
(* reaches the server carrying them.                                       *)
ConfidentialClientAuthenticates ==
    (phase = "done" /\ Defined(creds.clientSecret) /\ creds.clientSecret # "") =>
        /\ sent # Undef
        /\ sent.authorization # Undef

=============================================================================
