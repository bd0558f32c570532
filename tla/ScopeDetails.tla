----------------------------- MODULE ScopeDetails -----------------------------
(***************************************************************************)
(* The authorization scope page of the admin console                       *)
(* (src/js/apps/admin-ui/src/clients/authorization/ScopeDetails.tsx), for *)
(* a new scope (no scopeId in the route) and an existing one.  A useFetch  *)
(* with no deps gets the scope, throws when it is not found, and otherwise *)
(* sets the scope state and resets the form to it.  onSubmit awaits the    *)
(* update, then setScope(the values sent), or the create, then navigates   *)
(* to the scopes tab.  Revert resets the form to the scope state, which    *)
(* is also the header's title.  Save is never disabled.                    *)
(*                                                                         *)
(* A scope is its value (name, display name and icon); Blank is one whose *)
(* required name is empty.  An update is applied by the server and        *)
(* answered as two steps, as two HTTP requests in flight may be applied   *)
(* in one order and answered in the other.  DeleteScopeDialog and         *)
(* useFetch are not under src/: the dialog's delete, once it succeeds,    *)
(* calls refresh, and a throw in useFetch shows an error.                 *)
(***************************************************************************)
EXTENDS Naturals, FiniteSets

CONSTANTS
    Vals,         \* scope values with a name
    Blank,        \* a value whose name is empty
    MayFail,      \* {FALSE}, or {TRUE, FALSE} when a request may fail
    MaxOps,       \* bound on the user operations of a behaviour
    Gone,         \* no such scope on the server
    Undef

VARIABLES
    isNew,        \* no scopeId in the route (line 52)
    srv,          \* the scope with the route's scopeId on the server, or Gone
    created,      \* the scopes createAuthorizationScope has made from this page
    fetching,     \* the useFetch of lines 50-68 has not settled
    scope,        \* the scope state (line 40), Undef while unset
    form,         \* the form values, Undef while empty
    saves,        \* requests awaiting: [n, v, applied], v the values sent
    deleting,     \* the delete dialog's delete awaiting
    mounted,      \* the page is shown (not navigated away)
    overlapped,   \* history: a save while another save was awaiting
    nOps

vars == <<isNew, srv, created, fetching, scope, form, saves, deleting, mounted,
          overlapped, nOps>>

\* A user operation on the shown page.
UserOp == mounted /\ nOps < MaxOps /\ nOps' = nOps + 1

Init ==
    /\ isNew \in BOOLEAN
    /\ srv \in IF isNew THEN {Gone} ELSE Vals \cup {Gone}
    /\ created = 0
    /\ fetching = TRUE
    /\ scope = Undef
    /\ form = Undef
    /\ saves = {}
    /\ deleting = FALSE
    /\ mounted = TRUE
    /\ overlapped = FALSE
    /\ nOps = 0

(* The fetch settles (lines 50-68): the callback sets the scope state and *)
(* resets the form to the scope found, or, for a new scope, to {}, which  *)
(* drops what the user typed before it landed; a scope that is not found  *)
(* throws, as does a failed request, and the form stays as it was.        *)
Fetched(ok) ==
    /\ mounted /\ fetching
    /\ (~ok) \in MayFail \/ (~isNew /\ srv = Gone)
    /\ ok => (isNew \/ srv # Gone)
    /\ fetching' = FALSE
    /\ IF ok
       THEN scope' = (IF isNew THEN Undef ELSE srv) /\ form' = scope'
       ELSE UNCHANGED <<scope, form>>
    /\ UNCHANGED <<isNew, srv, created, saves, deleting, mounted, overlapped,
                   nOps>>

\* The user types the value v into the form.
Edit(v) ==
    /\ UserOp /\ form # v
    /\ form' = v
    /\ UNCHANGED <<isNew, srv, created, fetching, scope, saves, deleting,
                   mounted, overlapped>>

(* Save (lines 131, 183-189): handleSubmit validates the required name    *)
(* and runs onSubmit with the form values, which sends the update or the  *)
(* create (lines 70-86).                                                   *)
Save ==
    /\ UserOp /\ form \in Vals
    /\ saves' = saves \cup {[n |-> nOps, v |-> form, applied |-> FALSE]}
    /\ overlapped' = (overlapped \/ saves # {})
    /\ UNCHANGED <<isNew, srv, created, fetching, scope, form, deleting,
                   mounted>>

(* The server applies the request sv: the update stores its values, the  *)
(* create makes a scope.  An update of a scope that is gone is not        *)
(* applied.                                                                *)
Apply(sv) ==
    /\ sv \in saves /\ ~sv.applied
    /\ isNew \/ srv # Gone
    /\ saves' = (saves \ {sv}) \cup {[sv EXCEPT !.applied = TRUE]}
    /\ srv' = IF isNew THEN srv ELSE sv.v
    /\ created' = IF isNew THEN created + 1 ELSE created
    /\ UNCHANGED <<isNew, fetching, scope, form, deleting, mounted, overlapped,
                   nOps>>

AnswerAlwaysSetScope(sv) ==
    /\ sv \in saves
    /\ sv.applied \/ TRUE \in MayFail \/ (~isNew /\ srv = Gone)
    /\ saves' = saves \ {sv}
    /\ scope' = IF sv.applied THEN sv.v ELSE scope
    /\ mounted' = (mounted /\ ~(sv.applied /\ isNew))
    /\ UNCHANGED <<isNew, srv, created, fetching, form, deleting, overlapped,
                   nOps>>

(* The answer to sv (lines 73-95): an applied update sets the scope state *)
(* to the values sent; an applied create navigates to the scopes tab;     *)
(* then the success alert.  A request not applied failed (a 404 for a     *)
(* scope that is gone) and shows the error alert.                         *)
Answer(sv) ==
    /\ sv \in saves
    /\ sv.applied \/ TRUE \in MayFail \/ (~isNew /\ srv = Gone)
    /\ saves' = saves \ {sv}
    /\ scope' = IF sv.applied /\ ~isNew /\ mounted THEN sv.v ELSE scope
    /\ mounted' = (mounted /\ ~(sv.applied /\ isNew))
    /\ UNCHANGED <<isNew, srv, created, fetching, form, deleting, overlapped,
                   nOps>>

\* Revert, shown once the scope state is set, resets the form (line 212).
Revert ==
    /\ UserOp /\ scope # Undef /\ form # scope
    /\ form' = scope
    /\ UNCHANGED <<isNew, srv, created, fetching, scope, saves, deleting,
                   mounted, overlapped>>

(* The header's Delete (lines 113-125) opens DeleteScopeDialog on the     *)
(* scope state (lines 100-108), which deletes it.                          *)
StartDelete ==
    /\ UserOp /\ ~isNew /\ scope # Undef /\ ~deleting
    /\ deleting' = TRUE
    /\ UNCHANGED <<isNew, srv, created, fetching, scope, form, saves, mounted,
                   overlapped>>

(* The delete settles: once it succeeds, refresh navigates to the scopes  *)
(* tab (lines 105-107); a failure leaves the page.                         *)
DeleteDone(ok) ==
    /\ deleting
    /\ (~ok) \in MayFail \/ srv = Gone
    /\ ok => srv # Gone
    /\ deleting' = FALSE
    /\ srv' = IF ok THEN Gone ELSE srv
    /\ mounted' = (mounted /\ ~ok)
    /\ UNCHANGED <<isNew, created, fetching, scope, form, saves, overlapped,
                   nOps>>

\* Cancel, shown while the scope state is unset, is a link (lines 191-207).
Leave ==
    /\ mounted /\ scope = Undef
    /\ mounted' = FALSE
    /\ UNCHANGED <<isNew, srv, created, fetching, scope, form, saves, deleting,
                   overlapped, nOps>>

Next ==
    \/ \E ok \in BOOLEAN : Fetched(ok)
    \/ \E v \in Vals \cup {Blank} : Edit(v)
    \/ Save
    \/ \E sv \in saves : Apply(sv) \/ Answer(sv)
    \/ Revert
    \/ StartDelete
    \/ \E ok \in BOOLEAN : DeleteDone(ok)
    \/ Leave

Spec == Init /\ [][Next]_vars

-----------------------------------------------------------------------------
(* Every request awaiting carries a named value, and a new-scope page     *)
(* never holds a scope state: it offers Cancel, not Revert.                *)
TypeOK ==
    /\ {isNew, fetching, deleting, mounted, overlapped} \subseteq BOOLEAN
    /\ srv \in Vals \cup {Gone}
    /\ created \in 0..MaxOps
    /\ scope \in Vals \cup {Undef}
    /\ isNew => scope = Undef
    /\ form \in Vals \cup {Blank, Undef}
    /\ \A sv \in saves : sv.n \in 0..MaxOps /\ sv.v \in Vals
    /\ nOps \in 0..MaxOps

\* The page is idle: nothing awaiting.
Idle == ~fetching /\ saves = {} /\ ~deleting

ScopeFresh == Idle /\ mounted /\ scope # Undef => scope = srv

=============================================================================
