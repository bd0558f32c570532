----------------------------- MODULE LdapMapper -----------------------------
(***************************************************************************)
(* The LDAP mapper page of the admin console                               *)
(* (src/js/apps/admin-ui/src/user-federation/ldap/mappers/                 *)
(* LdapMapperDetails.tsx), for a new mapper (mapperId "new") and an       *)
(* existing one.  A useFetch with no deps lists the mapper types and, for *)
(* an existing mapper, finds it and fills the form.  save awaits create   *)
(* (then navigates to the mapper list) or update, then fills the form     *)
(* with what it sent; sync awaits mappersSync; delete awaits del and      *)
(* navigates away.  Save is enabled once the form is dirty, and nothing   *)
(* disables it while a save is awaiting.                                  *)
(*                                                                         *)
(* A mapper is its configuration value.  useFetch is not under src/: its  *)
(* callback's throw shows an error; navigation unmounts the page, after   *)
(* which the form of the page is gone.                                    *)
(***************************************************************************)
EXTENDS Naturals, FiniteSets

CONSTANTS
    Vals,         \* configuration values a mapper can have
    MayFail,      \* {FALSE}, or {TRUE, FALSE} when a request may fail
    MaxOps,       \* bound on the user operations of a behaviour
    Gone,         \* no such mapper on the server
    Undef

VARIABLES
    isNew,        \* mapperId === "new" (line 170)
    srv,          \* the mapper on the server, or Gone
    created,      \* the mappers create has made from this page
    components,   \* the components state (line 41): FALSE until fetched
    mapping,      \* the mapping state (line 40)
    form,         \* the form values, Undef while empty
    dirty,        \* formState.isDirty
    saves,        \* create or update calls awaiting: [n, v], v the values sent
    pending,      \* the mappersSync and del calls awaiting
    mounted,      \* the page is shown (not navigated away)
    lost,         \* history: a response overwrote values typed after its save
    nOps

vars == <<isNew, srv, created, components, mapping, form, dirty, saves, pending,
          mounted, lost, nOps>>

\* A user operation on the loaded page.
UserOp == mounted /\ components /\ nOps < MaxOps /\ nOps' = nOps + 1

Init ==
    /\ isNew \in BOOLEAN
    /\ srv \in IF isNew THEN {Gone} ELSE Vals \cup {Gone}
    /\ created = 0
    /\ components = FALSE
    /\ mapping = Undef
    /\ form = Undef
    /\ dirty = FALSE
    /\ saves = {}
    /\ pending = {}
    /\ mounted = TRUE
    /\ lost = FALSE
    /\ nOps = 0

(* The fetch settles (lines 54-77): setMapping and setComponents; an       *)
(* existing mapper not found throws after them, else setupForm fills the   *)
(* form.                                                                   *)
Fetched ==
    /\ mounted /\ ~components
    /\ components' = TRUE
    /\ mapping' = IF isNew THEN Undef ELSE srv
    /\ form' = IF ~isNew /\ srv # Gone THEN srv ELSE form
    /\ UNCHANGED <<isNew, srv, created, dirty, saves, pending, mounted, lost,
                   nOps>>

\* The user sets the configuration to v.
Edit(v) ==
    /\ UserOp
    /\ form # v
    /\ form' = v
    /\ dirty' = TRUE
    /\ UNCHANGED <<isNew, srv, created, components, mapping, saves, pending, mounted,
                   lost>>

(* Save, enabled while dirty (lines 331-340): handleSubmit runs save with *)
(* the form values, which awaits create or update (lines 83-105).          *)
Save ==
    /\ UserOp /\ dirty /\ form # Undef
    /\ saves' = saves \cup {[n |-> nOps, v |-> form]}
    /\ UNCHANGED <<isNew, srv, created, components, mapping, form, dirty, pending,
                   mounted, lost>>

\* setupForm(map) once the page is still shown.
SetupForm(v) ==
    /\ form' = IF mounted' THEN v ELSE form
    /\ lost' = (lost \/ (mounted' /\ form # v))

(* The save sv settles (lines 97-122): a create navigates to the list;  *)
(* then setupForm(map) and the success alert.  An update of a mapper that *)
(* is gone is a 404; a failure shows the error alert.                     *)
SaveDone(sv, ok) ==
    /\ sv \in saves
    /\ (~ok) \in MayFail \/ (~isNew /\ srv = Gone)
    /\ ok => (isNew \/ srv # Gone)
    /\ saves' = saves \ {sv}
    /\ IF ok
       THEN /\ srv' = IF isNew THEN srv ELSE sv.v
            /\ created' = IF isNew THEN created + 1 ELSE created
            /\ mounted' = (mounted /\ ~isNew)
            /\ SetupForm(sv.v)
       ELSE UNCHANGED <<srv, created, mounted, form, lost>>
    /\ UNCHANGED <<isNew, components, mapping, dirty, pending, nOps>>

(* Sync from the header's dropdown (lines 125-141, 185-202) or the        *)
(* confirmed delete (lines 143-159) of an existing mapper; the            *)
(* confirmation closes as it confirms.                                    *)
StartRequest(r) ==
    /\ UserOp /\ ~isNew /\ r \notin pending
    /\ pending' = pending \cup {r}
    /\ UNCHANGED <<isNew, srv, created, components, mapping, form, dirty, saves,
                   mounted, lost>>

(* mappersSync settles: an alert, then refresh(), which only re-keys the  *)
(* header.  del settles: the success alert and navigate to the list, or   *)
(* the error alert.                                                       *)
RequestDone(r, ok) ==
    /\ r \in pending
    /\ (~ok) \in MayFail \/ srv = Gone
    /\ ok => srv # Gone
    /\ pending' = pending \ {r}
    /\ IF r = "del" /\ ok
       THEN srv' = Gone /\ mounted' = FALSE
       ELSE UNCHANGED <<srv, mounted>>
    /\ UNCHANGED <<isNew, created, components, mapping, form, dirty, saves, lost,
                   nOps>>

(* Cancel (lines 341-355) leaves the page; for a mapper that was not      *)
(* found, mapping!.parentId throws and the page stays.                    *)
Leave ==
    /\ mounted /\ components /\ (isNew \/ mapping # Gone)
    /\ mounted' = FALSE
    /\ UNCHANGED <<isNew, srv, created, components, mapping, form, dirty, saves,
                   pending, lost, nOps>>

Next ==
    \/ Fetched
    \/ \E v \in Vals : Edit(v)
    \/ Save
    \/ \E sv \in saves, ok \in BOOLEAN : SaveDone(sv, ok)
    \/ \E r \in {"sync", "del"} : StartRequest(r)
    \/ \E r \in pending, ok \in BOOLEAN : RequestDone(r, ok)
    \/ Leave

Spec == Init /\ [][Next]_vars

-----------------------------------------------------------------------------
TypeOK ==
    /\ {isNew, components, dirty, mounted, lost} \subseteq BOOLEAN
    /\ srv \in Vals \cup {Gone}
    /\ created \in 0..MaxOps
    /\ form \in Vals \cup {Undef}
    /\ \A sv \in saves : sv.n \in 0..MaxOps /\ sv.v \in Vals
    /\ pending \subseteq {"sync", "del"}
    /\ nOps \in 0..MaxOps

(* Values typed while a save awaits are never overwritten by its answer.  *)
EditsKeptDuringSave == ~lost

(* A new-mapper page creates at most one mapper.                          *)
AtMostOneCreate == created <= 1

=============================================================================
