----------------------- MODULE CustomProviderSettings -----------------------
(***************************************************************************)
(* The custom user federation provider page of the admin console          *)
(* (src/js/apps/admin-ui/src/user-federation/custom/                       *)
(* CustomProviderSettings.tsx), for a new provider (no id in the route)    *)
(* and an existing one.  Two independent useFetch calls with no deps: one  *)
(* gets the component (served by the server and landing on the page as    *)
(* two steps) and writes it into the form with setValue, which leaves the *)
(* form clean, or throws when it is not found; the other gets             *)
(* the realm and sets parentId to its id.  The form is shown at once.     *)
(* save, enabled once the form is dirty, sends the form with the parentId *)
(* of its render and awaits the create (then navigates to the federation  *)
(* list) or the update; then reset to the values it submitted.  A request *)
(* is applied by the server and answered as two steps, as two requests in *)
(* flight may be applied in one order and answered in the other.          *)
(*                                                                         *)
(* A provider is its configuration value; a component on the server is    *)
(* [v, parent].  components.findOne answers null for a component that is  *)
(* gone.  useFetch is not under src/: a throw or a failed request shows an *)
(* error.                                                                   *)
(***************************************************************************)
EXTENDS Naturals

CONSTANTS
    Vals,         \* provider configurations, the required name given
    RealmId,      \* the id of the realm, the parent of its components
    NoParent,     \* the parentId state before the realm is fetched: ""
    MayFail,      \* {FALSE}, or {TRUE, FALSE} when a request may fail
    MaxOps,       \* bound on the user operations of a behaviour
    Gone,         \* no such component on the server
    Undef

Parents == {RealmId, NoParent}
Components == [v : Vals, parent : Parents]

VARIABLES
    isNew,        \* no id in the route (line 60)
    srv,          \* the component with the route's id on the server, or Gone
    created,      \* the parents of the components created from this page
    compFetch,    \* the component's useFetch (lines 58-73): [st] with st pending,
                  \* served (c: the component read), ok or error
    realmFetch,   \* the realm's useFetch (lines 75-82) has not settled
    parentId,     \* the parentId state (line 50)
    form,         \* the form values, Undef while the name is empty
    dirty,        \* formState.isDirty
    saves,        \* requests awaiting: [n, v, parent] what was sent, applied
    mounted,      \* the page is shown (not navigated away)
    raced,        \* history: a save sent while another request or the
                  \* component's fetch was awaiting
    nOps

vars == <<isNew, srv, created, compFetch, realmFetch, parentId, form, dirty,
          saves, mounted, raced, nOps>>

\* A user operation on the page.
UserOp == mounted /\ nOps < MaxOps /\ nOps' = nOps + 1

Init ==
    /\ isNew \in BOOLEAN
    /\ srv \in IF isNew THEN {Gone}
               ELSE [v : Vals, parent : {RealmId}] \cup {Gone}
    /\ created = {}
    /\ compFetch = [st |-> "pending"]
    /\ realmFetch = TRUE
    /\ parentId = NoParent
    /\ form = Undef
    /\ dirty = FALSE
    /\ saves = {}
    /\ mounted = TRUE
    /\ raced = FALSE
    /\ nOps = 0

\* The server answers components.findOne with the component it holds.
ComponentServed ==
    /\ mounted /\ compFetch.st = "pending"
    /\ compFetch' = [st |-> "served", c |-> srv]
    /\ UNCHANGED <<isNew, srv, created, realmFetch, parentId, form, dirty, saves,
                   mounted, raced, nOps>>

(* The component's fetch lands: for a new provider it returns undefined   *)
(* and nothing happens; a component found is written into the form with   *)
(* convertToFormValues(setValue); one not found throws.                   *)
ComponentFetched(ok) ==
    /\ mounted /\ compFetch.st = "served"
    /\ (~ok) \in MayFail \/ (~isNew /\ compFetch.c = Gone)
    /\ ok => (isNew \/ compFetch.c # Gone)
    /\ compFetch' = [st |-> IF ok THEN "ok" ELSE "error"]
    /\ form' = IF ok /\ ~isNew THEN compFetch.c.v ELSE form
    /\ UNCHANGED <<isNew, srv, created, realmFetch, parentId, dirty, saves,
                   mounted, raced, nOps>>

\* The realm's fetch settles: setParentId(realm.id), or an error.
RealmFetched(ok) ==
    /\ mounted /\ realmFetch
    /\ (~ok) \in MayFail
    /\ realmFetch' = FALSE
    /\ parentId' = IF ok THEN RealmId ELSE parentId
    /\ UNCHANGED <<isNew, srv, created, compFetch, form, dirty, saves, mounted,
                   raced, nOps>>

\* The user sets the configuration to v.
Edit(v) ==
    /\ UserOp /\ form # v
    /\ form' = v
    /\ dirty' = TRUE
    /\ UNCHANGED <<isNew, srv, created, compFetch, realmFetch, parentId, saves,
                   mounted, raced>>

\* The request the save of this render sends.
Sent == [n |-> nOps, v |-> form, parent |-> parentId, applied |-> FALSE]

\* Whether a request or the component's fetch is awaiting as a save is sent.
Racing == saves # {} \/ compFetch.st \in {"pending", "served"}

\* Mutant: Save without the required-name check.
SaveUnchecked(viaHeader) ==
    /\ UserOp /\ (dirty \/ viaHeader)
    /\ saves' = saves \cup {Sent}
    /\ raced' = (raced \/ Racing)
    /\ UNCHANGED <<isNew, srv, created, compFetch, realmFetch, parentId, form,
                   dirty, mounted>>

(* Save (lines 151-158), enabled while the form is dirty, or the save    *)
(* the header is given (line 114), which ExtendedHeader, not under src/,  *)
(* may call with the form clean: handleSubmit checks the required name   *)
(* and runs save, which sends the form with the parentId of this render  *)
(* (lines 84-104).                                                         *)
Save(viaHeader) ==
    /\ UserOp /\ (dirty \/ viaHeader) /\ form # Undef
    /\ saves' = saves \cup {Sent}
    /\ raced' = (raced \/ Racing)
    /\ UNCHANGED <<isNew, srv, created, compFetch, realmFetch, parentId, form,
                   dirty, mounted>>

(* The server applies the request sv: a create adds a component, an      *)
(* update stores what was sent.  An update of a component that is gone is *)
(* a 404 and applies nothing.                                              *)
Apply(sv) ==
    /\ sv \in saves /\ ~sv.applied
    /\ isNew \/ srv # Gone
    /\ saves' = (saves \ {sv}) \cup {[sv EXCEPT !.applied = TRUE]}
    /\ srv' = IF isNew THEN srv ELSE [v |-> sv.v, parent |-> sv.parent]
    /\ created' = IF isNew THEN created \cup {sv.parent} ELSE created
    /\ UNCHANGED <<isNew, compFetch, realmFetch, parentId, form, dirty, mounted,
                   raced, nOps>>

\* Mutant: reset() to the default values after a save.
AnswerResetDefaults(sv) ==
    /\ sv \in saves
    /\ sv.applied \/ TRUE \in MayFail \/ (~isNew /\ srv = Gone)
    /\ saves' = saves \ {sv}
    /\ mounted' = (mounted /\ ~(sv.applied /\ isNew))
    /\ form' = IF sv.applied /\ mounted' THEN Undef ELSE form
    /\ dirty' = IF sv.applied /\ mounted' THEN FALSE ELSE dirty
    /\ UNCHANGED <<isNew, srv, created, compFetch, realmFetch, parentId, raced,
                   nOps>>

(* The answer to sv reaches save (lines 98-109): after an applied create  *)
(* it navigates to the federation list; then reset({ ...component }) to   *)
(* the submitted values and the alert.  A request not applied failed (a   *)
(* 404 for a component that is gone) and shows the error alert.           *)
Answer(sv) ==
    /\ sv \in saves
    /\ sv.applied \/ TRUE \in MayFail \/ (~isNew /\ srv = Gone)
    /\ saves' = saves \ {sv}
    /\ mounted' = (mounted /\ ~(sv.applied /\ isNew))
    /\ form' = IF sv.applied /\ mounted' THEN sv.v ELSE form
    /\ dirty' = IF sv.applied /\ mounted' THEN FALSE ELSE dirty
    /\ UNCHANGED <<isNew, srv, created, compFetch, realmFetch, parentId, raced,
                   nOps>>

\* Cancel, a link to the federation list (lines 159-167).
Leave ==
    /\ mounted
    /\ mounted' = FALSE
    /\ UNCHANGED <<isNew, srv, created, compFetch, realmFetch, parentId, form,
                   dirty, saves, raced, nOps>>

Next ==
    \/ ComponentServed
    \/ \E ok \in BOOLEAN : ComponentFetched(ok) \/ RealmFetched(ok)
    \/ \E v \in Vals : Edit(v)
    \/ \E viaHeader \in BOOLEAN : Save(viaHeader)
    \/ \E sv \in saves : Apply(sv) \/ Answer(sv)
    \/ Leave

Spec == Init /\ [][Next]_vars

-----------------------------------------------------------------------------
\* Every request awaiting carries a configuration with its name.
TypeOK ==
    /\ {isNew, realmFetch, dirty, mounted, raced} \subseteq BOOLEAN
    /\ srv \in Components \cup {Gone}
    /\ created \subseteq Parents
    /\ compFetch.st \in {"pending", "served", "ok", "error"}
    /\ compFetch.st = "served" => compFetch.c \in Components \cup {Gone}
    /\ parentId \in Parents
    /\ form \in Vals \cup {Undef}
    /\ \A sv \in saves :
          /\ sv.n \in 0..MaxOps /\ sv.v \in Vals /\ sv.parent \in Parents
          /\ sv.applied \in BOOLEAN
    /\ nOps \in 0..MaxOps

(* While every save was sent after the component loaded and with nothing   *)
(* else awaiting, an existing provider's clean, idle form shows what the   *)
(* server holds: the fetch fills the form without dirtying it, and each    *)
(* answered save resets the form to the values the server stored.  Two     *)
(* saves applied in one order and answered in the other, or a fetch served *)
(* before a save and landing after it, leave a clean form on older values. *)
CleanFormShowsServer ==
    (~raced /\ ~isNew /\ mounted /\ compFetch.st = "ok" /\ saves = {} /\ ~dirty)
        => srv # Gone /\ form = srv.v

(* Every provider this page creates or updates is stored under the realm. *)
SavedUnderRealm ==
    /\ srv # Gone => srv.parent = RealmId
    /\ created \subseteq {RealmId}

=============================================================================
