------------------------- MODULE AuthenticationFlows -------------------------
(***************************************************************************)
(* The authentication flows page of the admin console                      *)
(* (src/js/apps/admin-ui/src/authentication/AuthenticationSection.tsx).   *)
(* It fetches the realm with a useFetch keyed on a refresh counter and    *)
(* shows a spinner until the realm is there.  Three handlers end with     *)
(* refresh(), which clears the realm (back to the spinner) and sets key   *)
(* to the key of the render whose closure called it, plus one:            *)
(*   delete     the confirmation's onConfirm: deleteFlow, then refresh;   *)
(*   duplicate  DuplicateFlowModal's onComplete, after the copy is made;  *)
(*   bind       BindFlowDialog's onClose, after the binding is saved or   *)
(*              when the dialog is cancelled.                              *)
(* The dialogs are rendered only with the realm, but a handler awaiting   *)
(* keeps running while the spinner is shown.                              *)
(*                                                                         *)
(* useFetch, DuplicateFlowModal and BindFlowDialog are not under src/:    *)
(* a key change drops the request in flight and starts a new one; the    *)
(* modals call their callback once their request has succeeded.  The      *)
(* realm is the binding of its flow slots (browserFlow, ...).             *)
(***************************************************************************)
EXTENDS Naturals, FiniteSets

CONSTANTS
    Flows,        \* flow aliases
    Slots,        \* the realm's flow bindings (REALM_FLOWS, lines 53-60)
    MayFail,      \* {FALSE}, or {TRUE, FALSE} when a request may fail
    MaxOps,       \* bound on the user operations of a behaviour
    MaxPending,   \* bound on the handlers awaiting at once
    Undef

VARIABLES
    srvFlows,     \* the flows on the server
    srvBinding,   \* the realm's binding on the server: [Slots -> Flows]
    realm,        \* the realm state (line 99): a binding, or Undef (spinner)
    key,          \* the key state (line 88)
    fetch,        \* the findOne in flight: [served, snap], or Undef
    ops,          \* handlers awaiting: [kind, k (key of the closure), f, slot]
    nOps,
    overlapped,   \* history: a refresh was due while a handler was awaiting
    fetchFailed   \* history: a findOne of the realm failed

vars == <<srvFlows, srvBinding, realm, key, fetch, ops, nOps, overlapped,
          fetchFailed>>

\* useFetch(findOne, setRealm, [key]) (lines 101-103) started anew.
NewFetch == [served |-> FALSE, snap |-> Undef]

\* Mutant: refresh only clears the realm.
RefreshRealmOnly(k) ==
    /\ realm' = Undef
    /\ UNCHANGED <<key, fetch>>

(* refresh() of lines 89-92 from a closure of the render with key k:      *)
(* setRealm(undefined) and setKey(k + 1); a set to the current key is     *)
(* dropped and then no fetch starts.                                      *)
Refresh(k) ==
    /\ realm' = Undef
    /\ key' = k + 1
    /\ fetch' = IF k + 1 # key THEN NewFetch ELSE fetch

(* No modal is open over the page: the duplicate and bind modals stay    *)
(* open while their request awaits; the delete confirmation closes as it  *)
(* calls onConfirm.                                                       *)
NoModal == \A o \in ops : o.kind = "delete"

\* A user operation on the loaded page; it starts a handler.
StartOp(o) ==
    /\ realm # Undef /\ NoModal
    /\ nOps < MaxOps /\ Cardinality(ops) < MaxPending
    /\ ops' = ops \cup {o}
    /\ overlapped' = (overlapped \/ ops # {})
    /\ nOps' = nOps + 1
    /\ UNCHANGED <<srvFlows, srvBinding, realm, key, fetch, fetchFailed>>

Init ==
    /\ srvFlows \in (SUBSET Flows) \ {{}}
    /\ srvBinding \in [Slots -> srvFlows]
    /\ realm = Undef
    /\ key = 0
    /\ fetch = NewFetch
    /\ ops = {}
    /\ nOps = 0
    /\ overlapped = FALSE
    /\ fetchFailed = FALSE

\* The server answers findOne with the realm it holds.
FetchServed ==
    /\ fetch # Undef /\ ~fetch.served
    /\ fetch' = [served |-> TRUE, snap |-> srvBinding]
    /\ UNCHANGED <<srvFlows, srvBinding, realm, key, ops, nOps, overlapped,
                   fetchFailed>>

\* The answer lands: setRealm (line 101).
FetchLanded ==
    /\ fetch # Undef /\ fetch.served
    /\ realm' = fetch.snap
    /\ fetch' = Undef
    /\ UNCHANGED <<srvFlows, srvBinding, key, ops, nOps, overlapped, fetchFailed>>

(* findOne fails: useFetch shows an error and drops the fetch; the realm  *)
(* stays unset, so the spinner stays.                                      *)
FetchFailed ==
    /\ fetch # Undef /\ TRUE \in MayFail
    /\ fetch' = Undef
    /\ fetchFailed' = TRUE
    /\ UNCHANGED <<srvFlows, srvBinding, realm, key, ops, nOps, overlapped>>

(* Delete, offered for a flow in no binding (lines 236-245), confirmed:   *)
(* onConfirm awaits deleteFlow (lines 144-148).                           *)
DeleteFlow(f) ==
    /\ realm # Undef /\ f \in srvFlows /\ \A s \in Slots : realm[s] # f
    /\ StartOp([kind |-> "delete", k |-> key, f |-> f, slot |-> Undef])

\* Duplicate (lines 218-223): the modal's copy of f is awaiting.
DuplicateFlow(f, c) ==
    /\ f \in srvFlows /\ c \notin srvFlows
    /\ StartOp([kind |-> "duplicate", k |-> key, f |-> c, slot |-> Undef])

(* Bind flow (lines 225-235), offered unless the flow is used by the     *)
(* realm's bindings (usedBy type DEFAULT): the dialog saves f as the flow *)
(* of slot.                                                               *)
BindFlow(f, s) ==
    /\ realm # Undef /\ f \in srvFlows /\ \A t \in Slots : realm[t] # f
    /\ StartOp([kind |-> "bind", k |-> key, f |-> f, slot |-> s])

\* The bind dialog cancelled: onClose toggles it and refreshes (175-178).
CancelBind ==
    /\ realm # Undef /\ NoModal /\ nOps < MaxOps
    /\ Refresh(key)
    /\ overlapped' = (overlapped \/ ops # {})
    /\ nOps' = nOps + 1
    /\ UNCHANGED <<srvFlows, srvBinding, ops, fetchFailed>>

(* The server takes the request of o: it refuses to delete a flow in a   *)
(* binding and to bind a flow that is gone.                               *)
Accepted(o) ==
    CASE o.kind = "delete" -> \A s \in Slots : srvBinding[s] # o.f
      [] o.kind = "bind" -> o.f \in srvFlows
      [] OTHER -> TRUE

\* The server applies the request of o.
Apply(o) ==
    /\ srvFlows' = CASE o.kind = "delete" -> srvFlows \ {o.f}
                      [] o.kind = "duplicate" -> srvFlows \cup {o.f}
                      [] OTHER -> srvFlows
    /\ srvBinding' = IF o.kind = "bind" THEN [srvBinding EXCEPT ![o.slot] = o.f]
                     ELSE srvBinding

\* Mutant: the bind dialog's save does not call onClose.
OpDoneBindNoRefresh(o, ok) ==
    /\ o \in ops
    /\ ok => Accepted(o)
    /\ (~ok) \in MayFail \/ ~Accepted(o)
    /\ ops' = ops \ {o}
    /\ IF ok
       THEN Apply(o) /\ IF o.kind = "bind" THEN UNCHANGED <<realm, key, fetch>>
                       ELSE Refresh(o.k)
       ELSE UNCHANGED <<srvFlows, srvBinding, realm, key, fetch>>
    /\ UNCHANGED <<nOps, overlapped, fetchFailed>>

(* A handler's request settles.  On success the server holds the change   *)
(* and the handler's refresh() runs with the key of its closure (lines    *)
(* 149, 167-170, 175-178); on failure an error alert and no refresh.      *)
OpDone(o, ok) ==
    /\ o \in ops
    /\ ok => Accepted(o)
    /\ (~ok) \in MayFail \/ ~Accepted(o)
    /\ ops' = ops \ {o}
    /\ IF ok THEN Apply(o) /\ Refresh(o.k)
       ELSE UNCHANGED <<srvFlows, srvBinding, realm, key, fetch>>
    /\ UNCHANGED <<nOps, overlapped, fetchFailed>>

\* The server's steps: answering findOne and the handlers' requests.
ServerAnswers ==
    \/ FetchServed
    \/ FetchLanded
    \/ FetchFailed
    \/ \E o \in ops, ok \in BOOLEAN : OpDone(o, ok)

Next ==
    \/ ServerAnswers
    \/ \E f \in Flows : DeleteFlow(f)
    \/ \E f, c \in Flows : DuplicateFlow(f, c)
    \/ \E f \in Flows, s \in Slots : BindFlow(f, s)
    \/ CancelBind

Spec == Init /\ [][Next]_vars /\ WF_vars(ServerAnswers)

-----------------------------------------------------------------------------
TypeOK ==
    /\ srvFlows \subseteq Flows
    /\ srvBinding \in [Slots -> Flows]
    /\ realm = Undef \/ realm \in [Slots -> Flows]
    /\ key \in 0..MaxOps
    /\ \A o \in ops : o.kind \in {"delete", "duplicate", "bind"} /\ o.k \in 0..MaxOps
    /\ nOps \in 0..MaxOps
    /\ {overlapped, fetchFailed} \subseteq BOOLEAN

(* As long as no refresh was due while another handler was awaiting, the *)
(* idle page shows the realm binding the server holds: every change made  *)
(* from the page ends with a refresh() that refetches the realm.          *)
SequentialOpsKeepRealmFresh ==
    ~overlapped /\ ops = {} /\ fetch = Undef /\ realm # Undef => realm = srvBinding

(* Whenever the spinner is up, the realm comes back while the server       *)
(* answers, unless a refresh was due while another handler was awaiting   *)
(* or a findOne of the realm failed: after a failure nothing fetches the  *)
(* realm again, and the spinner stays for good.                           *)
SequentialOpsShowRealm ==
    realm = Undef ~> (realm # Undef \/ overlapped \/ fetchFailed)

(* The spinner always goes away while the server answers, overlapping     *)
(* handlers included.                                                     *)
RealmEventuallyShown ==
    realm = Undef ~> realm # Undef

=============================================================================
