------------------------------- MODULE MCForms -------------------------------
(***************************************************************************)
(* The realm's key providers and the console's detail forms, each checked  *)
(* over its own behaviours, as MCConsole checks the other pages: a        *)
(* behaviour picks a page of FormPages and runs that page's               *)
(* specification, the variables of the other pages staying Off.           *)
(*                                                                         *)
(*   kp_  KeyProviders   (realm-settings/keys/KeysProvidersTab.tsx)        *)
(*   am_  AddMapper      (identity-providers/add/AddMapper.tsx)            *)
(*   sc_  ScopeDetails   (clients/authorization/ScopeDetails.tsx)         *)
(*   dp_  DetailProvider (clients/registration/DetailProvider.tsx)        *)
(*   cu_  CustomProviderSettings (user-federation/custom/...)             *)
(*   ag_  AttributeGeneralSettings (realm-settings/user-profile/...)      *)
(***************************************************************************)
EXTENDS Naturals

CONSTANTS Undef, Off, Gone, NaN,
          FormPages,     \* the pages a behaviour may pick
          DeletedScopes  \* scope names gone from the realm, held by attributes

VARIABLES
    page,
    kp_srv, kp_key, kp_fetching, kp_comps, kp_searchVal, kp_filtered,
    kp_drags, kp_net, kp_dels, kp_nDeletes,
    am_isNew, am_srv, am_created, am_fetching, am_mapperTypes,
    am_currentMapper, am_form, am_saves, am_deleting, am_mounted,
    am_nOps,
    sc_isNew, sc_srv, sc_created, sc_fetching, sc_scope, sc_form, sc_saves,
    sc_deleting, sc_mounted, sc_overlapped, sc_nOps,
    dp_isNew, dp_srv, dp_created, dp_fetching, dp_provider, dp_parentId,
    dp_form, dp_saves, dp_deleting, dp_mounted, dp_nOps,
    cu_isNew, cu_srv, cu_created, cu_compFetch, cu_realmFetch, cu_parentId,
    cu_form, cu_dirty, cu_saves, cu_mounted, cu_raced, cu_nOps,
    ag_fetched, ag_selected, ag_reqScopes, ag_isRequired, ag_roles,
    ag_isUsernameEmail, ag_nOps

kpVars == <<kp_srv, kp_key, kp_fetching, kp_comps, kp_searchVal, kp_filtered,
            kp_drags, kp_net, kp_dels, kp_nDeletes>>
amVars == <<am_isNew, am_srv, am_created, am_fetching, am_mapperTypes,
            am_currentMapper, am_form, am_saves, am_deleting, am_mounted,
            am_nOps>>
scVars == <<sc_isNew, sc_srv, sc_created, sc_fetching, sc_scope, sc_form,
            sc_saves, sc_deleting, sc_mounted, sc_overlapped, sc_nOps>>
dpVars == <<dp_isNew, dp_srv, dp_created, dp_fetching, dp_provider,
            dp_parentId, dp_form, dp_saves, dp_deleting, dp_mounted, dp_nOps>>
cuVars == <<cu_isNew, cu_srv, cu_created, cu_compFetch, cu_realmFetch,
            cu_parentId, cu_form, cu_dirty, cu_saves, cu_mounted, cu_raced,
            cu_nOps>>
agVars == <<ag_fetched, ag_selected, ag_reqScopes, ag_isRequired, ag_roles,
            ag_isUsernameEmail, ag_nOps>>
vars == <<page, kpVars, amVars, scVars, dpVars, cuVars, agVars>>

\* The variables of the pages not shown in the behaviour.
KPOff == /\ kp_srv = Off /\ kp_key = Off /\ kp_fetching = Off /\ kp_comps = Off
         /\ kp_searchVal = Off /\ kp_filtered = Off /\ kp_drags = Off
         /\ kp_net = Off /\ kp_dels = Off /\ kp_nDeletes = Off
AMOff == /\ am_isNew = Off /\ am_srv = Off /\ am_created = Off
         /\ am_fetching = Off /\ am_mapperTypes = Off /\ am_currentMapper = Off
         /\ am_form = Off /\ am_saves = Off /\ am_deleting = Off
         /\ am_mounted = Off /\ am_nOps = Off
SCOff == /\ sc_isNew = Off /\ sc_srv = Off /\ sc_created = Off
         /\ sc_fetching = Off /\ sc_scope = Off /\ sc_form = Off
         /\ sc_saves = Off /\ sc_deleting = Off /\ sc_mounted = Off
         /\ sc_overlapped = Off /\ sc_nOps = Off
DPOff == /\ dp_isNew = Off /\ dp_srv = Off /\ dp_created = Off
         /\ dp_fetching = Off /\ dp_provider = Off /\ dp_parentId = Off
         /\ dp_form = Off /\ dp_saves = Off /\ dp_deleting = Off
         /\ dp_mounted = Off /\ dp_nOps = Off
CUOff == /\ cu_isNew = Off /\ cu_srv = Off /\ cu_created = Off
         /\ cu_compFetch = Off /\ cu_realmFetch = Off /\ cu_parentId = Off
         /\ cu_form = Off /\ cu_dirty = Off /\ cu_saves = Off
         /\ cu_mounted = Off /\ cu_raced = Off /\ cu_nOps = Off
AGOff == /\ ag_fetched = Off /\ ag_selected = Off /\ ag_reqScopes = Off
         /\ ag_isRequired = Off /\ ag_roles = Off /\ ag_isUsernameEmail = Off
         /\ ag_nOps = Off

-----------------------------------------------------------------------------
(* Key providers c1, c2 listed by the server, starting at priority 100, 0 *)
(* or an unparsable value, a search term matching both and one matching   *)
(* neither; two drags and a delete, so a drag overlaps a drag or a delete; *)
(* failing calls.                                                          *)
KPTerms == {"", "rsa", "hmac"}
KP == INSTANCE KeyProviders WITH
        Ids <- {"c1", "c2"}, IdOrder <- <<"c1", "c2">>, Prios <- {100, 0, NaN},
        Terms <- KPTerms,
        Matches <- [t \in KPTerms |-> IF t = "hmac" THEN {} ELSE {"c1", "c2"}],
        MayFail <- {TRUE, FALSE}, MaxDrags <- 2, MaxDeletes <- 1,
        srv <- kp_srv, key <- kp_key, fetching <- kp_fetching,
        comps <- kp_comps,
        searchVal <- kp_searchVal, filtered <- kp_filtered, drags <- kp_drags,
        net <- kp_net, dels <- kp_dels, nDeletes <- kp_nDeletes

(* Identity provider mapper: two types, whose names sort them the other   *)
(* way round from their ids, and a name of the user's own, so a rename is *)
(* seen; new and existing mappers, the existing one possibly gone;        *)
(* failing calls and two saves in flight.                                  *)
AM == INSTANCE AddMapper WITH
        Types <- {"hardcoded-role", "attribute-importer"},
        TypeOrder <- <<"attribute-importer", "hardcoded-role">>,
        TypeNames <- <<"Attribute Importer", "Hardcoded Role">>,
        Names <- {"my-mapper"}, MayFail <- {TRUE, FALSE}, MaxOps <- 4,
        isNew <- am_isNew, srv <- am_srv, created <- am_created,
        fetching <- am_fetching, mapperTypes <- am_mapperTypes,
        currentMapper <- am_currentMapper, form <- am_form, saves <- am_saves,
        deleting <- am_deleting, mounted <- am_mounted,
        nOps <- am_nOps

(* Authorization scope: two named values and a blank one, new and      *)
(* existing scopes, the existing one possibly gone; two saves in flight,  *)
(* applied and answered in either order; failing calls.                   *)
SC == INSTANCE ScopeDetails WITH
        Vals <- {"s1", "s2"}, Blank <- "blank", MayFail <- {TRUE, FALSE},
        MaxOps <- 4,
        isNew <- sc_isNew, srv <- sc_srv, created <- sc_created,
        fetching <- sc_fetching, scope <- sc_scope, form <- sc_form,
        saves <- sc_saves, deleting <- sc_deleting, mounted <- sc_mounted,
        overlapped <- sc_overlapped, nOps <- sc_nOps

(* Client registration policy: two configurations, new and existing    *)
(* policies, the existing one possibly gone; saves in flight at once;     *)
(* failing calls.                                                          *)
DP == INSTANCE DetailProvider WITH
        Vals <- {"p1", "p2"}, RealmId <- "realm-id", NoParent <- "",
        MayFail <- {TRUE, FALSE}, MaxOps <- 4,
        isNew <- dp_isNew, srv <- dp_srv, created <- dp_created,
        fetching <- dp_fetching, provider <- dp_provider,
        parentId <- dp_parentId, form <- dp_form, saves <- dp_saves,
        deleting <- dp_deleting, mounted <- dp_mounted, nOps <- dp_nOps

(* Custom user federation provider: two configurations, new and     *)
(* existing providers, the existing one possibly gone; saves in flight    *)
(* at once, the two fetches settling in either order; failing calls.    *)
CU == INSTANCE CustomProviderSettings WITH
        Vals <- {"p1", "p2"}, RealmId <- "realm-id", NoParent <- "",
        MayFail <- {TRUE, FALSE}, MaxOps <- 4,
        isNew <- cu_isNew, srv <- cu_srv, created <- cu_created,
        compFetch <- cu_compFetch, realmFetch <- cu_realmFetch,
        parentId <- cu_parentId, form <- cu_form, dirty <- cu_dirty,
        saves <- cu_saves, mounted <- cu_mounted, raced <- cu_raced,
        nOps <- cu_nOps

(* User profile attribute: two client scopes, stored attributes holding  *)
(* any list of them without repeats, and the names of DeletedScopes.      *)
AG == INSTANCE AttributeGeneralSettings WITH
        ScopeOrder <- <<"profile", "email">>, Deleted <- DeletedScopes,
        RequiredFor <- <<{"admin", "user"}, {"user"}, {"admin"}>>,
        MaxOps <- 4,
        fetched <- ag_fetched, selected <- ag_selected,
        reqScopes <- ag_reqScopes, isRequired <- ag_isRequired,
        roles <- ag_roles, isUsernameEmail <- ag_isUsernameEmail, nOps <- ag_nOps

-----------------------------------------------------------------------------
Init ==
    /\ page \in FormPages
    /\ IF page = "keyProviders" THEN KP!Init ELSE KPOff
    /\ IF page = "addMapper" THEN AM!Init ELSE AMOff
    /\ IF page = "scopeDetails" THEN SC!Init ELSE SCOff
    /\ IF page = "detailProvider" THEN DP!Init ELSE DPOff
    /\ IF page = "customProvider" THEN CU!Init ELSE CUOff
    /\ IF page = "attributeGeneral" THEN AG!Init ELSE AGOff

Next ==
    \/ page = "keyProviders" /\ KP!Next
       /\ UNCHANGED <<page, amVars, scVars, dpVars, cuVars, agVars>>
    \/ page = "addMapper" /\ AM!Next
       /\ UNCHANGED <<page, kpVars, scVars, dpVars, cuVars, agVars>>
    \/ page = "scopeDetails" /\ SC!Next
       /\ UNCHANGED <<page, kpVars, amVars, dpVars, cuVars, agVars>>
    \/ page = "detailProvider" /\ DP!Next
       /\ UNCHANGED <<page, kpVars, amVars, scVars, cuVars, agVars>>
    \/ page = "customProvider" /\ CU!Next
       /\ UNCHANGED <<page, kpVars, amVars, scVars, dpVars, agVars>>
    \/ page = "attributeGeneral" /\ AG!Next
       /\ UNCHANGED <<page, kpVars, amVars, scVars, dpVars, cuVars>>

\* A user may stop on any page: a state with nothing left to do is no deadlock.
Spec == Init /\ [][Next]_vars

-----------------------------------------------------------------------------
(* Each page's properties, asked of that page's behaviours.  They are      *)
(* stated in the page modules; see the comment above each there.          *)

\* KeyProviders!TypeOK: a drag's pending Promise.all waits only on updates
\* still in flight.
KeyProvidersTypeOK == page = "keyProviders" => KP!TypeOK

\* KeyProviders!SortedByPriority: KeysTab lists providers by descending
\* priority, ties in the server's order.
SortedByPriority == page = "keyProviders" => KP!SortedByPriority

\* KeyProviders!DropShownAfterRefresh: once a lone drag has saved and its
\* refresh has refetched, the list shows the rows in the dropped order.
DropShownAfterRefresh == page = "keyProviders" => KP!DropShownAfterRefresh

\* AddMapper!TypeOK: the form carries the type the page shows.
AddMapperTypeOK == page = "addMapper" => AM!TypeOK

\* AddMapper!UpdateKeepsName: saving an existing mapper keeps its name.
UpdateKeepsName == [][page = "addMapper" => AM!UpdateKeepsNameStep]_vars

\* ScopeDetails!TypeOK: a new-scope page never holds a scope state.
ScopeDetailsTypeOK == page = "scopeDetails" => SC!TypeOK

ScopeFresh == page = "scopeDetails" => SC!ScopeFresh

\* DetailProvider!TypeOK: every request awaiting carries a named configuration.
DetailProviderTypeOK == page = "detailProvider" => DP!TypeOK

\* DetailProvider!SavedUnderRealm: every policy the page creates or
\* updates is stored under the realm.
PolicySavedUnderRealm == page = "detailProvider" => DP!SavedUnderRealm

\* CustomProviderSettings!TypeOK: every request awaiting carries a named
\* configuration.
CustomProviderTypeOK == page = "customProvider" => CU!TypeOK

\* CustomProviderSettings!CleanFormShowsServer: once loaded and idle, a
\* clean form shows the provider the server holds.
CleanFormShowsServer == page = "customProvider" => CU!CleanFormShowsServer

\* CustomProviderSettings!SavedUnderRealm: every provider the page creates
\* or updates is stored under the realm.
ProviderSavedUnderRealm == page = "customProvider" => CU!SavedUnderRealm

\* AttributeGeneralSettings!TypeOK: required-for is set while it shows.
AttributeTypeOK == page = "attributeGeneral" => AG!TypeOK

\* AttributeGeneralSettings!AlwaysMeansEveryScope: for a list of existing
\* scopes, the "always" radio is checked exactly when every client scope is
\* in the list.
AlwaysMeansEveryScope == page = "attributeGeneral" => AG!AlwaysMeansEveryScope

\* AttributeGeneralSettings!AlwaysHoldsEveryScope: for any list, a checked
\* "always" radio means every client scope is in it.
AlwaysHoldsEveryScope == page = "attributeGeneral" => AG!AlwaysHoldsEveryScope

=============================================================================
