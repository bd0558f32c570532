---------------------------- MODULE DetailProvider ----------------------------
(***************************************************************************)
(* The client registration policy page of the admin console                *)
(* (src/js/apps/admin-ui/src/clients/registration/DetailProvider.tsx), for *)
(* a new policy (no id in the route) and an existing one.  One useFetch    *)
(* with no deps awaits the Promise.all of the policy providers, the realm  *)
(* and, for an existing policy, the component; its callback sets the       *)
(* provider, the parentId (the realm's id) and resets the form.  The       *)
(* spinner shows until the provider is set.  onSubmit sends the form with  *)
(* subType, parentId, providerType and providerId, awaiting the update or *)
(* the create (then navigating to the new policy); the confirmed delete    *)
(* awaits del and navigates to the policy list.  Save is never disabled.  *)
(*                                                                         *)
(* A policy is its configuration value; a component on the server is      *)
(* [v, parent].  components.findOne answers null for a component that is  *)
(* gone, as the callback's reset(data || { providerId }) expects.         *)
(* useFetch is not under src/: a failed request shows an error.           *)
(***************************************************************************)
EXTENDS Naturals

CONSTANTS
    Vals,         \* policy configurations, the required name given
    RealmId,      \* the id of the realm, the parent of its components
    NoParent,     \* the parentId state before the fetch: ""
    MayFail,      \* {FALSE}, or {TRUE, FALSE} when a request may fail
    MaxOps,       \* bound on the user operations of a behaviour
    Gone,         \* no such component on the server
    Undef

Parents == {RealmId, NoParent}
Components == [v : Vals, parent : Parents]

VARIABLES
    isNew,        \* no id in the route (line 59)
    srv,          \* the component with the route's id on the server, or Gone
    created,      \* the parents of the components created from this page
    fetching,     \* the useFetch of lines 54-67 has not settled
    provider,     \* the provider state (line 51) is set
    parentId,     \* the parentId state (line 52)
    form,         \* the form values, Undef while the name is empty
    saves,        \* requests awaiting: [n, v, parent], what was sent
    deleting,     \* components.del awaiting
    mounted,      \* the page is shown (not navigated away)
    nOps

vars == <<isNew, srv, created, fetching, provider, parentId, form, saves,
          deleting, mounted, nOps>>

\* A user operation on the page past its spinner (lines 119-121).
UserOp == mounted /\ provider /\ nOps < MaxOps /\ nOps' = nOps + 1

Init ==
    /\ isNew \in BOOLEAN
    /\ srv \in IF isNew THEN {Gone}
               ELSE [v : Vals, parent : {RealmId}] \cup {Gone}
    /\ created = {}
    /\ fetching = TRUE
    /\ provider = FALSE
    /\ parentId = NoParent
    /\ form = Undef
    /\ saves = {}
    /\ deleting = FALSE
    /\ mounted = TRUE
    /\ nOps = 0

\* Mutant: the callback leaves the parentId unset.
FetchedNoParent(ok) ==
    /\ mounted /\ fetching
    /\ (~ok) \in MayFail
    /\ fetching' = FALSE
    /\ provider' = ok
    /\ form' = IF ok /\ ~isNew /\ srv # Gone THEN srv.v ELSE form
    /\ UNCHANGED <<isNew, srv, created, parentId, saves, deleting, mounted,
                   nOps>>

(* The Promise.all settles (lines 54-67): setProvider, setParentId of the *)
(* realm's id and reset to the component found, or to { providerId },    *)
(* whose name is empty.  A failure leaves the spinner.                    *)
Fetched(ok) ==
    /\ mounted /\ fetching
    /\ (~ok) \in MayFail
    /\ fetching' = FALSE
    /\ provider' = ok
    /\ parentId' = IF ok THEN RealmId ELSE parentId
    /\ form' = IF ok /\ ~isNew /\ srv # Gone THEN srv.v ELSE form
    /\ UNCHANGED <<isNew, srv, created, saves, deleting, mounted, nOps>>

\* The user sets the configuration to v.
Edit(v) ==
    /\ UserOp /\ form # v
    /\ form' = v
    /\ UNCHANGED <<isNew, srv, created, fetching, provider, parentId, saves,
                   deleting, mounted>>

\* Mutant: Save without the required-name check.
SaveUnchecked ==
    /\ UserOp
    /\ saves' = saves \cup {[n |-> nOps, v |-> form, parent |-> parentId]}
    /\ UNCHANGED <<isNew, srv, created, fetching, provider, parentId, form,
                   deleting, mounted>>

(* Save (lines 147, 185-187): handleSubmit checks the required name and   *)
(* runs onSubmit, which sends the form with the parentId of this render   *)
(* (lines 71-89).                                                          *)
Save ==
    /\ UserOp /\ form # Undef
    /\ saves' = saves \cup {[n |-> nOps, v |-> form, parent |-> parentId]}
    /\ UNCHANGED <<isNew, srv, created, fetching, provider, parentId, form,
                   deleting, mounted>>

(* The request sv settles (lines 86-95): an update stores what was sent,  *)
(* or is a 404 for a component that is gone; a create navigates to the    *)
(* new policy's route; then the alert, or the error alert.                 *)
SaveDone(sv, ok) ==
    /\ sv \in saves
    /\ (~ok) \in MayFail \/ (~isNew /\ srv = Gone)
    /\ ok => (isNew \/ srv # Gone)
    /\ saves' = saves \ {sv}
    /\ srv' = IF ok /\ ~isNew THEN [v |-> sv.v, parent |-> sv.parent] ELSE srv
    /\ created' = IF ok /\ isNew THEN created \cup {sv.parent} ELSE created
    /\ mounted' = (mounted /\ ~(ok /\ isNew))
    /\ UNCHANGED <<isNew, fetching, provider, parentId, form, deleting, nOps>>

(* The header's Delete (lines 128-140) and its confirmation (lines        *)
(* 98-105), which closes as it confirms: components.del is sent.           *)
StartDelete ==
    /\ UserOp /\ ~isNew /\ ~deleting
    /\ deleting' = TRUE
    /\ UNCHANGED <<isNew, srv, created, fetching, provider, parentId, form,
                   saves, mounted>>

(* del settles (lines 106-115): the alert and navigate to the policy list, *)
(* or the error alert.                                                     *)
DeleteDone(ok) ==
    /\ deleting
    /\ (~ok) \in MayFail \/ srv = Gone
    /\ ok => srv # Gone
    /\ deleting' = FALSE
    /\ srv' = IF ok THEN Gone ELSE srv
    /\ mounted' = (mounted /\ ~ok)
    /\ UNCHANGED <<isNew, created, fetching, provider, parentId, form, saves,
                   nOps>>

\* Cancel, a link to the policy list (lines 188-198).
Leave ==
    /\ mounted /\ provider
    /\ mounted' = FALSE
    /\ UNCHANGED <<isNew, srv, created, fetching, provider, parentId, form,
                   saves, deleting, nOps>>

Next ==
    \/ \E ok \in BOOLEAN : Fetched(ok)
    \/ \E v \in Vals : Edit(v)
    \/ Save
    \/ \E sv \in saves, ok \in BOOLEAN : SaveDone(sv, ok)
    \/ StartDelete
    \/ \E ok \in BOOLEAN : DeleteDone(ok)
    \/ Leave

Spec == Init /\ [][Next]_vars

-----------------------------------------------------------------------------
\* Every request awaiting carries a configuration with its name.
TypeOK ==
    /\ {isNew, fetching, provider, deleting, mounted} \subseteq BOOLEAN
    /\ srv \in Components \cup {Gone}
    /\ created \subseteq Parents
    /\ parentId \in Parents
    /\ form \in Vals \cup {Undef}
    /\ \A sv \in saves :
          sv.n \in 0..MaxOps /\ sv.v \in Vals /\ sv.parent \in Parents
    /\ nOps \in 0..MaxOps

(* Every policy this page creates or updates is stored under the realm:   *)
(* the form is only shown once the Promise.all that sets the parentId has *)
(* settled, so no save is sent with parentId "".                          *)
SavedUnderRealm ==
    /\ srv # Gone => srv.parent = RealmId
    /\ created \subseteq {RealmId}

=============================================================================
