------------------------------ MODULE UserForm ------------------------------
(***************************************************************************)
(* The user form of the admin console                                      *)
(* (src/js/apps/admin-ui/src/user/UserForm.tsx), for a new user (no id:    *)
(* group chips, Create, Cancel) and an existing one (id, lock switch,      *)
(* Save, Revert).  The form renders at once; the realm and the required    *)
(* actions arrive later from useFetch, and until then every condition on   *)
(* realm reads undefined.                                                  *)
(*                                                                         *)
(* The group picker is only opened by the "join groups" button, which is   *)
(* rendered for a new user only (lines 388-426), so onConfirm always takes *)
(* addChips; addGroups (lines 164-178) is not reachable from this form.    *)
(***************************************************************************)
EXTENDS Naturals, SequencesExt

CONSTANTS
    Groups,       \* groups, as model values
    GroupName,    \* the name of each group (names repeat under different parents)
    Actions,      \* required action aliases
    Realms,       \* the realm representations the server may hold
    FeatureEnabled, \* isFeatureEnabled(Feature.DeclarativeUserProfile)
    MayFail,      \* {FALSE}, or {TRUE, FALSE} when a request may fail
    MaxOps,       \* bound on the user operations of a behaviour
    Undef

VARIABLES
    srvRealm,     \* the realm on the server
    realm,        \* the realm state (line 120), Undef until the fetch lands
    fetch,        \* the useFetch of lines 125-139: "pending", "done" or "failed"
    isNew,        \* ~user?.id
    protected,    \* bruteForce.isBruteForceProtected
    locked,       \* the lock switch state (line 119)
    srvLocked,    \* the server's lock of the user
    unlocking,    \* an attackDetection.del is awaiting
    open,         \* the group picker is open (line 118)
    selected,     \* selectedGroups (line 115): the chips
    reported,     \* the groups last passed to onGroupsUpdate
    username,     \* the username field: "orig", "" or "edited"
    reqActions,   \* the requiredActions field value
    submitted,    \* what handleSubmit(save) passed on, Undef before a submit
    nOps

vars == <<srvRealm, realm, fetch, isNew, protected, locked, srvLocked, unlocking,
          open, selected, reported, username, reqActions, submitted, nOps>>

\* A realm as the form reads it; editUsernameAllowed may be absent (Undef).
Realm == [emailAsUsername : BOOLEAN, editUsernameAllowed : {TRUE, FALSE, Undef},
          userProfileEnabled : BOOLEAN]

\* realm?.field: undefined, which the form treats as falsy, before the fetch.
R(f) == IF realm = Undef THEN Undef ELSE realm[f]

\* isUserProfileEnabled (lines 184-186).
isUserProfileEnabled == FeatureEnabled /\ R("userProfileEnabled") = TRUE

\* The username field is rendered (lines 299-303).
UsernameShown == ~isUserProfileEnabled /\ R("emailAsUsername") # TRUE

\* isReadOnly of the username field (lines 313-317).
UsernameReadOnly ==
    ~isNew /\ R("editUsernameAllowed") # TRUE /\ R("editUsernameAllowed") # Undef

\* isDisabled of the Create/Save button (lines 431-435).
SubmitDisabled == isNew /\ username = "" /\ R("emailAsUsername") # TRUE

\* A chip, the picker or a field changed by the user.
UserOp == nOps < MaxOps /\ nOps' = nOps + 1

Init ==
    /\ srvRealm \in Realms
    /\ realm = Undef
    /\ fetch = "pending"
    /\ isNew \in BOOLEAN
    \* the bruteForce prop defaults to unprotected and unlocked (lines 84-87)
    /\ protected \in IF isNew THEN {FALSE} ELSE BOOLEAN
    /\ locked \in IF protected THEN BOOLEAN ELSE {FALSE}
    /\ srvLocked = locked
    /\ unlocking = FALSE
    /\ open = FALSE
    /\ selected = <<>>
    /\ reported = <<>>
    /\ username = IF isNew THEN "" ELSE "orig"
    /\ reqActions = <<>>
    /\ submitted = Undef
    /\ nOps = 0

(* The Promise.all of the realm and the required actions settles (lines    *)
(* 125-139); a realm not found throws in the callback, like a rejection.   *)
RealmFetched(ok) ==
    /\ fetch = "pending"
    /\ (~ok) \in MayFail
    /\ fetch' = IF ok THEN "done" ELSE "failed"
    /\ realm' = IF ok THEN srvRealm ELSE Undef
    /\ UNCHANGED <<srvRealm, isNew, protected, locked, srvLocked, unlocking, open,
                   selected, reported, username, reqActions, submitted, nOps>>

\* toggleModal from the join groups button (lines 180-182, 414-416).
ToggleModal ==
    /\ isNew /\ ~open
    /\ UserOp
    /\ open' = TRUE
    /\ UNCHANGED <<srvRealm, realm, fetch, isNew, protected, locked, srvLocked,
                   unlocking, selected, reported, username, reqActions, submitted>>

(* onConfirm of the picker (lines 204-207) with the groups picked, which   *)
(* filterGroups keeps apart from the chips: addChips (lines 159-162).      *)
AddChips(gs) ==
    /\ open /\ isNew
    /\ gs # <<>> /\ ToSet(gs) \cap ToSet(selected) = {}
    /\ selected' = selected \o gs
    /\ reported' = selected \o gs
    /\ open' = FALSE
    /\ UNCHANGED <<srvRealm, realm, fetch, isNew, protected, locked, srvLocked,
                   unlocking, username, reqActions, submitted, nOps>>

\* onClose of the picker (line 208).
ClosePicker ==
    /\ open
    /\ open' = FALSE
    /\ UNCHANGED <<srvRealm, realm, fetch, isNew, protected, locked, srvLocked,
                   unlocking, selected, reported, username, reqActions, submitted, nOps>>

(* A click on the chip of group g: deleteItem(g.name) (lines 154-157,      *)
(* 405-408) filters the chips by name and reports the list from before.    *)
DeleteItem(g) ==
    /\ isNew /\ g \in ToSet(selected)
    /\ UserOp
    /\ selected' = SelectSeq(selected, LAMBDA x : GroupName[x] # GroupName[g])
    /\ reported' = selected
    /\ UNCHANGED <<srvRealm, realm, fetch, isNew, protected, locked, srvLocked,
                   unlocking, open, username, reqActions, submitted>>

\* Mutant: onSelect appends without looking for the option.
SelectActionAppend(a) ==
    /\ fetch = "done"
    /\ UserOp
    /\ reqActions' = Append(reqActions, a)
    /\ UNCHANGED <<srvRealm, realm, fetch, isNew, protected, locked, srvLocked,
                   unlocking, open, selected, reported, username, submitted>>

\* onSelect of the required actions (lines 264-273), offered once fetched (277).
SelectAction(a) ==
    /\ fetch = "done"
    /\ UserOp
    /\ reqActions' = IF a \in ToSet(reqActions)
                     THEN SelectSeq(reqActions, LAMBDA x : x # a)
                     ELSE Append(reqActions, a)
    /\ UNCHANGED <<srvRealm, realm, fetch, isNew, protected, locked, srvLocked,
                   unlocking, open, selected, reported, username, submitted>>

\* Typing into the username field, when it is rendered and not read-only.
EditUsername(v) ==
    /\ UsernameShown /\ ~UsernameReadOnly
    /\ v # username
    /\ UserOp
    /\ username' = v
    /\ UNCHANGED <<srvRealm, realm, fetch, isNew, protected, locked, srvLocked,
                   unlocking, open, selected, reported, reqActions, submitted>>

(* The lock switch, enabled only while locked (lines 374-385): unLockUser  *)
(* is started, not awaited, and the switch shows the new value.            *)
SwitchUnlock ==
    /\ protected /\ locked
    /\ UserOp
    /\ unlocking' = TRUE
    /\ locked' = FALSE
    /\ UNCHANGED <<srvRealm, realm, fetch, isNew, protected, srvLocked, open,
                   selected, reported, username, reqActions, submitted>>

\* attackDetection.del settles; the alert of lines 144 or 146 is shown.
UnlockDone(ok) ==
    /\ unlocking
    /\ (~ok) \in MayFail
    /\ unlocking' = FALSE
    /\ srvLocked' = IF ok THEN FALSE ELSE srvLocked
    /\ UNCHANGED <<srvRealm, realm, fetch, isNew, protected, locked, open,
                   selected, reported, username, reqActions, submitted, nOps>>

\* Create or Save: handleSubmit(save) when the button is enabled (191, 429-440).
Submit ==
    /\ ~SubmitDisabled /\ submitted = Undef
    /\ submitted' = [username |-> username, groups |-> reported, chips |-> selected,
                     actions |-> reqActions]
    /\ UNCHANGED <<srvRealm, realm, fetch, isNew, protected, locked, srvLocked,
                   unlocking, open, selected, reported, username, reqActions, nOps>>

\* Revert of an existing user: reset(user) (lines 443-445).
Revert ==
    /\ ~isNew
    /\ UserOp
    /\ username' = "orig"
    /\ reqActions' = <<>>
    /\ UNCHANGED <<srvRealm, realm, fetch, isNew, protected, locked, srvLocked,
                   unlocking, open, selected, reported, submitted>>

Next ==
    \/ \E ok \in BOOLEAN : RealmFetched(ok)
    \/ ToggleModal
    \/ \E gs \in {s \in BoundedSeq(Groups, 2) : IsInjective(s)} : AddChips(gs)
    \/ ClosePicker
    \/ \E g \in Groups : DeleteItem(g)
    \/ \E a \in Actions : SelectAction(a)
    \/ \E v \in {"", "edited"} : EditUsername(v)
    \/ SwitchUnlock
    \/ \E ok \in BOOLEAN : UnlockDone(ok)
    \/ Submit
    \/ Revert

Spec == Init /\ [][Next]_vars

-----------------------------------------------------------------------------
(* Types; the chips and the required actions hold no group or action      *)
(* twice (the picker filters the chips, onSelect toggles).                 *)
TypeOK ==
    /\ srvRealm \in Realm /\ realm \in Realm \cup {Undef}
    /\ fetch \in {"pending", "done", "failed"}
    /\ {isNew, protected, locked, srvLocked, unlocking, open} \subseteq BOOLEAN
    /\ selected \in Seq(Groups) /\ IsInjective(selected)
    /\ reported \in Seq(Groups)
    /\ username \in {"orig", "", "edited"}
    /\ reqActions \in Seq(Actions) /\ IsInjective(reqActions)
    /\ nOps \in 0..MaxOps

(* Once no unlock is awaiting, the lock switch of an existing user shows   *)
(* the server's lock: SwitchUnlock flips it off as it starts unLockUser.   *)
UnlockedSwitchMatchesServer ==
    protected /\ ~unlocking => locked = srvLocked

(* A new user is created with the groups shown as chips: what the form    *)
(* last reported to onGroupsUpdate is the chip list at the submit.         *)
GroupsSubmittedAreChips ==
    submitted # Undef /\ isNew => submitted.groups = submitted.chips

(* Clicking a chip removes that group, and only that group.                *)
DeleteItemRemovesOnlyClicked ==
    [][\A g \in Groups : DeleteItem(g) => ToSet(selected') = ToSet(selected) \ {g}]_vars

(* An existing user's username is not submitted changed when the realm    *)
(* forbids editing usernames: the field is read-only (lines 313-317).      *)
UsernameKeptWhenNotAllowed ==
    submitted # Undef /\ ~isNew /\ srvRealm.editUsernameAllowed = FALSE
        => submitted.username = "orig"

=============================================================================
