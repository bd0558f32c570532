------------------------- MODULE ClientPolicyCondition -------------------------
(***************************************************************************)
(* The page that adds a condition to a client policy, or edits one         *)
(* (src/js/apps/admin-ui/src/realm-settings/NewClientPolicyCondition.tsx). *)
(* The URL names the policy and, when editing, the condition by its type.  *)
(* The page renders at once with an empty policy list; useFetch then loads *)
(* every client policy of the realm and, when editing, the condition's     *)
(* configuration into the form.  save maps the policy list it loaded,     *)
(* replacing the first condition of the edited type or appending the new  *)
(* one in the named policy, and writes the whole list back with           *)
(* clientPolicies.updatePolicy; on success it navigates to the policy.     *)
(*                                                                         *)
(* Another session can change the realm's policies while the page is open *)
(* (OtherSession).  A condition is [condition |-> type, configuration];   *)
(* writeConfig's projection on the type's properties is abstracted to the *)
(* form's configuration value.  A second submit while the write is        *)
(* awaiting sends the same list again and is not modelled.                 *)
(***************************************************************************)
EXTENDS Naturals, SequencesExt

CONSTANTS
    PolicyNames,  \* the realm's client policy names
    PolicyName,   \* policyName of the URL
    Types,        \* condition provider ids
    Configs,      \* configuration values; EmptyConfig is the form's default {}
    EmptyConfig,
    MaxConds,     \* bound on the conditions of a policy the server holds at first
    MayFail,      \* {FALSE}, or {TRUE, FALSE} when a request may fail
    MaxOps,       \* bound on the user's edits
    MaxOther,     \* bound on the other session's changes
    Absent,       \* no policy of that name
    Hole,         \* the undefined that save's map returns (line 130)
    Undef

VARIABLES
    conditionName,  \* conditionName of the URL, Undef when adding
    srv,            \* the server's policies: [PolicyNames -> Seq(Cond) or Absent]
    srv0,           \* history: the server's policies when the page opened
    policies,       \* the policies state (line 46)
    conditionData,  \* the condition loaded for editing (line 51), or Undef
    conditionType,  \* the type selected when adding (line 53), "" if none
    cfg,            \* the form's config
    fetch,          \* "pending", "done", "failed", or "threw" (the callback threw)
    put,            \* the updatePolicy awaiting, with what the page had loaded,
                    \* seen and submitted, or Undef
    mounted,
    alert,          \* Undef, "success" or "error"
    nOps,
    nOther

vars == <<conditionName, srv, srv0, policies, conditionData, conditionType, cfg,
          fetch, put, mounted, alert, nOps, nOther>>

Cond == [condition : Types, configuration : Configs]

\* The page's empty policy list: useState([]) (line 46).
NoPolicies == [p \in PolicyNames |-> Absent]

\* Mutant: the first condition of the policy, whatever its type.
FindConditionFirst(pols, t) ==
    IF pols[PolicyName] = Absent \/ pols[PolicyName] = <<>> THEN Undef
    ELSE pols[PolicyName][1]

\* The first condition of type t of policy pol, or Undef (lines 82-88).
FindCondition(pols, t) ==
    IF pols[PolicyName] = Absent THEN Undef
    ELSE LET i == SelectInSeq(pols[PolicyName], LAMBDA c : c.condition = t)
         IN IF i = 0 THEN Undef ELSE pols[PolicyName][i]

\* Mutant: the slice after the edited condition starts at the condition.
EditedConditionsOverlap(conds, created, index) ==
    SubSeq(conds, 1, index - 1) \o <<created>> \o SubSeq(conds, index, Len(conds))

\* newConditions: the edited condition replaced (lines 133-137).
EditedConditions(conds, created, index) ==
    SubSeq(conds, 1, index - 1) \o <<created>> \o SubSeq(conds, index + 1, Len(conds))

(* updatedPolicies (lines 112-154): the named policy gets the condition   *)
(* replaced or appended; an edited condition it lacks makes the map       *)
(* return undefined for that policy.                                        *)
UpdatedPolicies ==
    [p \in PolicyNames |->
        IF p # PolicyName \/ policies[p] = Absent THEN policies[p]
        ELSE IF conditionName # Undef
        THEN LET index == SelectInSeq(policies[p], LAMBDA c : c.condition = conditionName)
                 created == [condition |-> IF conditionData = Undef THEN Undef
                                           ELSE conditionData.condition,
                             configuration |-> cfg]
             IN IF index = 0 THEN Hole
                ELSE EditedConditions(policies[p], created, index)
        ELSE Append(policies[p], [condition |-> conditionType, configuration |-> cfg])]

\* The policy list as the server stores it from a body with a null in it.
Stored(body) == [p \in PolicyNames |-> IF body[p] = Hole THEN Absent ELSE body[p]]

Init ==
    /\ conditionName \in Types \cup {Undef}
    \* the page reads nothing of another policy: absent or empty is enough
    /\ srv \in {f \in [PolicyNames -> {Absent} \cup BoundedSeq(Cond, MaxConds)] :
                \A p \in PolicyNames \ {PolicyName} : f[p] \in {Absent, <<>>}}
    /\ srv0 = srv
    /\ policies = NoPolicies
    /\ conditionData = Undef
    /\ conditionType = ""
    /\ cfg = EmptyConfig
    /\ fetch = "pending"
    /\ put = Undef
    /\ mounted = TRUE
    /\ alert = Undef
    /\ nOps = 0
    /\ nOther = 0

(* listPolicies settles (lines 75-100): setPolicies, then, when editing,  *)
(* the condition found and setupForm; a condition not found makes          *)
(* setupForm read undefined.configuration and the callback throws, after *)
(* setPolicies took effect.                                                 *)
Fetched(ok) ==
    /\ fetch = "pending" /\ mounted
    /\ (~ok) \in MayFail
    /\ IF ~ok
       THEN /\ fetch' = "failed"
            /\ UNCHANGED <<policies, conditionData, cfg>>
       ELSE /\ policies' = srv
            /\ IF conditionName = Undef
               THEN /\ fetch' = "done"
                    /\ UNCHANGED <<conditionData, cfg>>
               ELSE LET c == FindCondition(srv, conditionName)
                    IN /\ conditionData' = c
                       /\ fetch' = IF c = Undef THEN "threw" ELSE "done"
                       /\ cfg' = IF c = Undef THEN cfg ELSE c.configuration
    /\ UNCHANGED <<conditionName, srv, srv0, conditionType, put, mounted, alert,
                   nOps, nOther>>

\* The condition type select of the conditions Controller, disabled when
\* editing, with an option per condition type (lines 201-245).
SelectType(t) ==
    /\ mounted /\ conditionName = Undef /\ nOps < MaxOps
    /\ conditionType # t
    /\ conditionType' = t
    /\ nOps' = nOps + 1
    /\ UNCHANGED <<conditionName, srv, srv0, policies, conditionData, cfg, fetch, put,
                   mounted, alert, nOther>>

\* The DynamicComponents fields of the condition's properties (line 251).
EditConfig(c) ==
    /\ mounted /\ nOps < MaxOps
    /\ cfg # c
    /\ cfg' = c
    /\ nOps' = nOps + 1
    /\ UNCHANGED <<conditionName, srv, srv0, policies, conditionData, conditionType,
                   fetch, put, mounted, alert, nOther>>

(* Add or Save, enabled once a type is selected or when editing (line     *)
(* 258): form.handleSubmit(save) sends updatePolicy (lines 156-159).      *)
Submit ==
    /\ mounted /\ put = Undef
    /\ conditionType # "" \/ conditionName # Undef
    /\ put' = [body |-> UpdatedPolicies, loaded |-> fetch = "done", other |-> nOther > 0,
               cfg |-> cfg, type |-> conditionType]
    /\ UNCHANGED <<conditionName, srv, srv0, policies, conditionData, conditionType, cfg,
                   fetch, mounted, alert, nOps, nOther>>

(* updatePolicy settles: on success setPolicies, navigate and the success *)
(* alert (lines 160-167), else the error alert (168-170).  The server     *)
(* replaces the realm's policies by the list; how it treats a null in it  *)
(* is not in this repository, so it may store the rest or reject it.      *)
PutDone(ok) ==
    /\ put # Undef
    /\ (~ok) \in MayFail \/ Hole \in Range(put.body)
    /\ put' = Undef
    /\ IF ok
       THEN /\ srv' = Stored(put.body)
            /\ policies' = IF mounted THEN put.body ELSE policies
            /\ mounted' = FALSE
            /\ alert' = "success"
       ELSE /\ alert' = "error"
            /\ UNCHANGED <<srv, policies, mounted>>
    /\ UNCHANGED <<conditionName, srv0, conditionData, conditionType, cfg, fetch,
                   nOps, nOther>>

\* Cancel navigates to the policy (lines 262-270).
Cancel ==
    /\ mounted
    /\ mounted' = FALSE
    /\ UNCHANGED <<conditionName, srv, srv0, policies, conditionData, conditionType, cfg,
                   fetch, put, alert, nOps, nOther>>

\* Another session deletes policy p, or the first condition of it.
OtherSession(p, deletePolicy) ==
    /\ nOther < MaxOther
    /\ srv[p] # Absent
    /\ ~deletePolicy => srv[p] # <<>>
    /\ srv' = [srv EXCEPT ![p] = IF deletePolicy THEN Absent ELSE Tail(srv[p])]
    /\ nOther' = nOther + 1
    /\ UNCHANGED <<conditionName, srv0, policies, conditionData, conditionType, cfg,
                   fetch, put, mounted, alert, nOps>>

Next ==
    \/ \E ok \in BOOLEAN : Fetched(ok)
    \/ \E t \in Types : SelectType(t)
    \/ \E c \in Configs : EditConfig(c)
    \/ Submit
    \/ \E ok \in BOOLEAN : PutDone(ok)
    \/ Cancel
    \/ \E p \in PolicyNames, d \in BOOLEAN : OtherSession(p, d)

Spec == Init /\ [][Next]_vars

-----------------------------------------------------------------------------
Policy == {Absent} \cup Seq(Cond)

(* Types, and the condition loaded for editing is of the URL's type.     *)
TypeOK ==
    /\ conditionName \in Types \cup {Undef}
    /\ srv \in [PolicyNames -> Policy]
    /\ policies \in [PolicyNames -> Policy \cup {Hole}]
    /\ conditionData \in Cond \cup {Undef}
    /\ conditionData # Undef => conditionData.condition = conditionName
    /\ conditionType \in Types \cup {""}
    /\ cfg \in Configs
    /\ fetch \in {"pending", "done", "failed", "threw"}
    /\ put = Undef \/ put.body \in [PolicyNames -> Policy \cup {Hole}]
    /\ nOps \in 0..MaxOps /\ nOther \in 0..MaxOther

(* The server's policies after this page's write, when the write was sent *)
(* after a successful load and no other session changed anything: the     *)
(* named policy gets the new condition appended, or its first condition   *)
(* of the edited type replaced by one with the form's configuration, its  *)
(* other conditions kept in place; every other policy is as it was.        *)
Intended(c, type) ==
    [p \in PolicyNames |->
        IF p # PolicyName \/ srv0[p] = Absent THEN srv0[p]
        ELSE IF conditionName = Undef
        THEN Append(srv0[p], [condition |-> type, configuration |-> c])
        ELSE [i \in 1..Len(srv0[p]) |->
                IF i = SelectInSeq(srv0[p], LAMBDA x : x.condition = conditionName)
                THEN [srv0[p][i] EXCEPT !.configuration = c]
                ELSE srv0[p][i]]]

(* A successful save after a complete load, with no other session's       *)
(* change, leaves the server with the intended policies: the condition    *)
(* list is spliced at the right place (lines 125-137) and the other        *)
(* policies are written back unchanged.                                    *)
SaveAsIntendedStep ==
    put # Undef /\ put.loaded /\ ~put.other /\ nOther = 0 /\ alert' = "success"
        => srv' = Intended(put.cfg, put.type)

SaveAsIntended == [][SaveAsIntendedStep]_vars

(* A write of this page never deletes a policy the server holds: save    *)
(* writes back the whole list it loaded.                                   *)
SaveNeverDropsPolicies ==
    [][put # Undef /\ srv' # srv /\ nOther' = nOther
         => \A p \in PolicyNames : srv[p] # Absent => srv'[p] # Absent]_vars

(* A write of this page keeps the other sessions' changes made since the  *)
(* page loaded: nothing they deleted comes back.                           *)
SaveKeepsOtherSessionsChanges ==
    [][put # Undef /\ srv' # srv /\ nOther' = nOther
         => \A p \in PolicyNames : p # PolicyName /\ srv[p] = Absent => srv'[p] = Absent]_vars

=============================================================================
