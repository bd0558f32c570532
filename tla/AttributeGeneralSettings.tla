---------------------- MODULE AttributeGeneralSettings ----------------------
(***************************************************************************)
(* The general settings of a user profile attribute in the admin console   *)
(* (src/js/apps/admin-ui/src/realm-settings/user-profile/attribute/        *)
(* AttributeGeneralSettings.tsx): the "enabled when" and "required when"   *)
(* scope selectors.  A useFetch with no deps loads the realm's client      *)
(* scopes; the spinner shows until it lands.  Each selector is a pair of   *)
(* radios, "always" and "scopes as requested", and a multi-select of the   *)
(* client scopes.  "Always" is checked, and the select disabled, when the  *)
(* form's scope list is as long as the list of client scopes; choosing     *)
(* "always" fills the list with every client scope, choosing "as          *)
(* requested" empties it, and the select adds a scope that is not in the  *)
(* list or removes one that is.  The "required when" part shows while the  *)
(* required switch is on.  For the username and email attributes none of  *)
(* this is rendered (line 156): no Controller fills a default and no       *)
(* control is shown.                                                       *)
(*                                                                         *)
(* The form is the parent's (NewAttributeSettings, not under src/): for a  *)
(* new attribute selector.scopes is unset, and the Controller's default    *)
(* (line 205), every client scope, fills it once the page shows; for an   *)
(* existing one it holds the stored attribute's lists, which may name      *)
(* scopes deleted since (Deleted).  A scope is its name.  The attribute's *)
(* name, display name and group are plain fields and left out, as is the *)
(* user profile fetch, which only feeds the group options.  PatternFly's  *)
(* Radio calls onChange with checked = TRUE only, when an unchecked radio *)
(* is chosen, so the radios' else branches are never taken.  A chip of    *)
(* the multi-select, a deleted scope's included, is removed through        *)
(* onSelect with its value.                                                *)
(***************************************************************************)
EXTENDS Naturals, SequencesExt

CONSTANTS
    ScopeOrder,   \* the realm's client scope names, in the server's order
    Deleted,      \* scope names a stored attribute may hold, gone since
    RequiredFor,  \* the REQUIRED_FOR option values, in order (lines 28-32)
    MaxOps,       \* bound on the user operations of a behaviour
    Undef

ClientScopes == ToSet(ScopeOrder)
RolesOptions == ToSet(RequiredFor)

\* The scope lists a form can hold: no name twice.
ScopeLists == SetToAllKPermutations(ClientScopes \cup Deleted)

VARIABLES
    fetched,      \* clientScopes is set (lines 37-39, 66)
    selected,     \* selector.scopes, Undef while unset
    reqScopes,    \* required.scopes
    isRequired,   \* isRequired
    roles,        \* required.roles
    isUsernameEmail, \* the route's attribute is username or email (line 156)
    nOps

vars == <<fetched, selected, reqScopes, isRequired, roles, isUsernameEmail,
          nOps>>

\* selectedScopes of useWatch (lines 48-52): [] while the field is unset.
Watched(s) == IF s = Undef THEN <<>> ELSE s

\* The "always" radio is checked and the select disabled (lines 167, 237).
AlwaysChecked(s) == Len(Watched(s)) = Len(ScopeOrder)

\* A user operation on the scope controls of the page past its spinner
\* (lines 69-71, 156).
UserOp ==
    /\ fetched /\ ~isUsernameEmail /\ nOps < MaxOps /\ nOps' = nOps + 1
    /\ UNCHANGED isUsernameEmail

\* The options a select offers, and the chips it shows for the list s.
Choosable(s) == ClientScopes \cup (Deleted \cap ToSet(Watched(s)))

Init ==
    /\ fetched = FALSE
    /\ \/ selected = Undef /\ reqScopes = <<>> /\ isRequired = FALSE
          /\ roles = Undef /\ isUsernameEmail = FALSE
       \/ selected \in ScopeLists \cup {Undef} /\ reqScopes \in ScopeLists
          /\ isRequired \in BOOLEAN /\ roles \in RolesOptions \cup {Undef}
          /\ isUsernameEmail \in BOOLEAN
    /\ nOps = 0

(* clientScopes.find() lands (line 66): the page shows, and the Controller *)
(* of selector.scopes fills an unset field with every client scope (line  *)
(* 205), as the one of required.roles, shown while required, does with    *)
(* the first option (line 287); neither is rendered for username and     *)
(* email.                                                                  *)
ScopesFetched ==
    /\ ~fetched
    /\ fetched' = TRUE
    /\ selected' = IF selected = Undef /\ ~isUsernameEmail THEN ScopeOrder
                   ELSE selected
    /\ roles' = IF roles = Undef /\ isRequired /\ ~isUsernameEmail
                THEN RequiredFor[1] ELSE roles
    /\ UNCHANGED <<reqScopes, isRequired, isUsernameEmail, nOps>>

\* "Always" of enabled when (lines 164-181): every client scope.
EnabledAlways ==
    /\ UserOp /\ ~AlwaysChecked(selected)
    /\ selected' = ScopeOrder
    /\ UNCHANGED <<fetched, reqScopes, isRequired, roles>>

\* "Scopes as requested" of enabled when (lines 182-199): none.
EnabledAsRequested ==
    /\ UserOp /\ AlwaysChecked(selected)
    /\ selected' = <<>>
    /\ UNCHANGED <<fetched, reqScopes, isRequired, roles>>

\* Mutant: onSelect appends without the includes check.
ToggleAppend(s, o) == Append(s, o)

(* The list s after choosing option o (lines 219-230): removed if it is  *)
(* in the list, else appended.                                             *)
Toggle(s, o) == IF o \in ToSet(s) THEN Remove(s, o) ELSE Append(s, o)

(* The enabled-when select, enabled while "always" is not checked (lines   *)
(* 200-246): choosing a client scope toggles it; clear empties the list.  *)
SelectEnabled(o) ==
    /\ UserOp /\ ~AlwaysChecked(selected) /\ o \in Choosable(selected)
    /\ selected' = Toggle(selected, o)
    /\ UNCHANGED <<fetched, reqScopes, isRequired, roles>>

ClearEnabled ==
    /\ UserOp /\ ~AlwaysChecked(selected)
    /\ selected' = <<>>
    /\ UNCHANGED <<fetched, reqScopes, isRequired, roles>>

\* Mutant: the required-for Controller leaves the field unset.
RequiredSwitchNoDefault(v) ==
    /\ UserOp /\ isRequired # v
    /\ isRequired' = v
    /\ UNCHANGED <<fetched, selected, reqScopes, roles>>

(* The required switch (lines 260-275); turning it on shows required-for, *)
(* whose Controller fills an unset field with the first option.          *)
RequiredSwitch(v) ==
    /\ UserOp /\ isRequired # v
    /\ isRequired' = v
    /\ roles' = IF roles = Undef /\ v THEN RequiredFor[1] ELSE roles
    /\ UNCHANGED <<fetched, selected, reqScopes>>

\* A required-for radio (lines 283-306), shown while required.
ChooseRequiredFor(r) ==
    /\ UserOp /\ isRequired /\ roles # r
    /\ roles' = r
    /\ UNCHANGED <<fetched, selected, reqScopes, isRequired>>

\* "Always" and "scopes as requested" of required when (lines 314-349).
RequiredAlways ==
    /\ UserOp /\ isRequired /\ ~AlwaysChecked(reqScopes)
    /\ reqScopes' = ScopeOrder
    /\ UNCHANGED <<fetched, selected, isRequired, roles>>

RequiredAsRequested ==
    /\ UserOp /\ isRequired /\ AlwaysChecked(reqScopes)
    /\ reqScopes' = <<>>
    /\ UNCHANGED <<fetched, selected, isRequired, roles>>

\* The required-when select (lines 351-397), as the enabled-when one.
SelectRequired(o) ==
    /\ UserOp /\ isRequired /\ ~AlwaysChecked(reqScopes)
    /\ o \in Choosable(reqScopes)
    /\ reqScopes' = Toggle(reqScopes, o)
    /\ UNCHANGED <<fetched, selected, isRequired, roles>>

ClearRequired ==
    /\ UserOp /\ isRequired /\ ~AlwaysChecked(reqScopes)
    /\ reqScopes' = <<>>
    /\ UNCHANGED <<fetched, selected, isRequired, roles>>

Next ==
    \/ ScopesFetched
    \/ EnabledAlways \/ EnabledAsRequested \/ ClearEnabled
    \/ \E o \in ClientScopes \cup Deleted : SelectEnabled(o) \/ SelectRequired(o)
    \/ \E v \in BOOLEAN : RequiredSwitch(v)
    \/ \E r \in RolesOptions : ChooseRequiredFor(r)
    \/ RequiredAlways \/ RequiredAsRequested \/ ClearRequired

Spec == Init /\ [][Next]_vars

-----------------------------------------------------------------------------
\* Scope lists of names; required-for is set while it shows.
TypeOK ==
    /\ fetched \in BOOLEAN
    /\ selected \in Seq(ClientScopes \cup Deleted) \cup {Undef}
    /\ reqScopes \in Seq(ClientScopes \cup Deleted)
    /\ isRequired \in BOOLEAN
    /\ roles \in RolesOptions \cup {Undef}
    /\ isUsernameEmail \in BOOLEAN
    /\ fetched /\ isRequired /\ ~isUsernameEmail => roles \in RolesOptions
    /\ nOps \in 0..MaxOps

(* Once the page shows, each selector whose list names only existing      *)
(* client scopes has its "always" radio checked exactly when the list     *)
(* holds every client scope: the radio compares lengths, so this rests on *)
(* the select never adding a scope twice and "always" filling the list    *)
(* exactly.  A stored list that still names a deleted scope is left out:  *)
(* there the lengths mislead, as MCForms_deleted.cfg shows.                *)
AlwaysMeansEveryScope ==
    fetched /\ ~isUsernameEmail =>
        \A s \in {selected, reqScopes} :
            ToSet(Watched(s)) \subseteq ClientScopes =>
                (AlwaysChecked(s) <=> ToSet(Watched(s)) = ClientScopes)

(* Whatever the stored lists name, a checked "always" radio, which also    *)
(* disables the select, means every client scope is in the list.          *)
AlwaysHoldsEveryScope ==
    fetched /\ ~isUsernameEmail =>
        \A s \in {selected, reqScopes} :
            AlwaysChecked(s) => ClientScopes \subseteq ToSet(Watched(s))

=============================================================================
