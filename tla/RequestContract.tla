--------------------------- MODULE RequestContract ---------------------------
(***************************************************************************)
(* What the request builder promises a caller of an endpoint function     *)
(* built by Agent.request (spec sections 4.1, 5 and 7, and the comment     *)
(* "catchNotFound precedence: global > local > default" of agent.ts):      *)
(*   - the 404 rule of a call is fixed when the call is made, from the    *)
(*     global option in force then, the call's option and the descriptor, *)
(*     and a later setGlobalRequestArgOptions does not change it;          *)
(*   - a call performs exactly one network call: no retry, no batching;   *)
(*   - it ends with exactly one outcome, decided by the response alone;   *)
(*   - the builder keeps nothing of a finished call;                       *)
(*   - a call whose token and response arrive returns.                     *)
(* One call is in flight at a time, as in Agent: the caller awaits it.     *)
(***************************************************************************)
EXTENDS Naturals, Sequences

CONSTANTS
    Descriptors, CallOptions, GlobalOptions, Responses,
    NoKey, NoOpts, NoHeader, TransportFailure

VARIABLES
    globalOpts,   \* the client's global request arg options
    req           \* the call: [phase |-> "idle"] or the call in flight

vars == <<globalOpts, req>>

\* The option field f of an options object o, if o is one and has it.
Has(o, f) == o # NoOpts /\ f \in DOMAIN o

(* The 404 rules the contract allows a call of d made with options o while *)
(* the global options are g: "global > local > default".  A global object  *)
(* without the field leaves the spec's wording open (the call's option, or *)
(* the default when the object replaces the call's options): both are      *)
(* allowed, and MCAdminClient_globalempty.cfg shows which the code takes.  *)
NotFoundRules(d, g, o) ==
    LET local == IF Has(o, "catchNotFound") THEN o["catchNotFound"]
                 ELSE d.catchNotFound
    IN  IF Has(g, "catchNotFound") THEN {g["catchNotFound"]}
        ELSE IF g = NoOpts THEN {local}
        ELSE {local, d.catchNotFound}

IsOkStatus(s) == s \in 200..299

\* The id a Location header names: its last path segment, if not empty.
NamesId(loc) == loc # NoHeader /\ loc[Len(loc)] # ""

\* The outcomes a call could end with for the response r.
Candidates(d, r) ==
    {[kind |-> k] : k \in {"transportError", "null", "error"}}
    \cup {[kind |-> "networkError", status |-> r.status]}
    \cup {[kind |-> k, body |-> r.body] : k \in {"buffer", "value"}}
    \cup {[kind |-> "id", field |-> d.resourceIdField, id |-> r.location[i]] :
            i \in IF r.location = NoHeader THEN {} ELSE {Len(r.location)}}

(* Spec 4.1 and 7, rule by rule: the outcome out of a call of d with 404   *)
(* rule cnf is allowed for r when each rule holds.                          *)
Decides(d, cnf, r, out) ==
    /\ out.kind = "transportError" <=> r.status = TransportFailure
    /\ out.kind = "null" <=> (r.status = 404 /\ cnf)
    /\ out.kind = "networkError" => r.status # TransportFailure /\ ~IsOkStatus(r.status)
    /\ out.kind \in {"id", "error", "buffer", "value"} => IsOkStatus(r.status)
    /\ out.kind \in {"id", "error"} <=> (IsOkStatus(r.status) /\ d.resourceIdField # NoKey)
    /\ out.kind = "id" => NamesId(r.location)
    /\ out.kind = "error" => ~NamesId(r.location)
    /\ out.kind = "buffer" <=>
         (IsOkStatus(r.status) /\ d.resourceIdField = NoKey /\ d.acceptOctet)

Init ==
    /\ globalOpts \in GlobalOptions
    /\ req = [phase |-> "idle"]

SetGlobal(g) ==
    /\ globalOpts' = g
    /\ UNCHANGED req

\* The caller calls the endpoint function with options o.
Issue(d, o) ==
    /\ req.phase = "idle"
    /\ \E cnf \in NotFoundRules(d, globalOpts, o) :
          req' = [phase |-> "issued", d |-> d, options |-> o, catchNotFound |-> cnf,
                  response |-> NoHeader, outcome |-> [kind |-> "pending"]]
    /\ UNCHANGED globalOpts

\* The one network call goes out.
Transmit ==
    /\ req.phase = "issued"
    /\ req' = [req EXCEPT !.phase = "sent"]
    /\ UNCHANGED globalOpts

\* Its response (or transport failure) decides the outcome, under the 404
\* rule fixed at Issue.
Respond(r) ==
    /\ req.phase = "sent"
    /\ \E out \in Candidates(req.d, r) :
          /\ Decides(req.d, req.catchNotFound, r, out)
          /\ req' = [req EXCEPT !.phase = "settled", !.response = r, !.outcome = out]
    /\ UNCHANGED globalOpts

\* The caller receives the outcome; nothing of the call is kept.
Deliver ==
    /\ req.phase = "settled"
    /\ req' = [phase |-> "idle"]
    /\ UNCHANGED globalOpts

Next ==
    \/ \E g \in GlobalOptions : SetGlobal(g)
    \/ \E d \in Descriptors, o \in CallOptions : Issue(d, o)
    \/ Transmit
    \/ \E r \in Responses : Respond(r)
    \/ Deliver

\* Once issued, a call is carried through: the token provider and the
\* server answer, and the caller's await resumes.
Spec == Init /\ [][Next]_vars
        /\ WF_vars(Transmit \/ (\E r \in Responses : Respond(r)) \/ Deliver)

=============================================================================
