------------------------------ MODULE MCConsole ------------------------------
(***************************************************************************)
(* The admin console's pages, each checked over its own behaviours in one  *)
(* run.  The console shows one route at a time and these pages share no   *)
(* client state: a behaviour picks a page and runs that page's            *)
(* specification, the variables of the other pages staying Off.  Every    *)
(* property of a page is asked of the behaviours of that page.            *)
(*                                                                         *)
(*   rr_  RecentRealms     (context/RecentRealms.tsx)                      *)
(*   ds_  DedicatedScopes  (clients/scopes/DedicatedScopes.tsx)            *)
(*   uf_  UserForm         (user/UserForm.tsx)                             *)
(*   cd_  ClientDetails    (clients/ClientDetails.tsx)                     *)
(*   rp_  ResetPasswordDialog (user/user-credentials/ResetPasswordDialog.tsx)*)
(*   cp_  ClientPolicyCondition (realm-settings/NewClientPolicyCondition.tsx)*)
(*   ck_  ClientKeys       (clients/keys/Keys.tsx)                        *)
(*   af_  AuthenticationFlows (authentication/AuthenticationSection.tsx)   *)
(*   sh_  ShareResource (account-ui resources/ShareTheResource.tsx)       *)
(*   gt_  GroupTree       (groups/components/GroupTree.tsx)               *)
(*   lm_  LdapMapper      (user-federation/ldap/mappers/LdapMapperDetails.tsx)*)
(***************************************************************************)
EXTENDS Naturals

CONSTANTS Undef, Off, Gone, None, Absent, Hole

VARIABLES
    page,
    rr_exists, rr_realms, rr_realm, rr_stored,
    ds_srv, ds_mounted, ds_client, ds_pending, ds_reports, ds_nOps, ds_nLeaves,
    uf_srvRealm, uf_realm, uf_fetch, uf_isNew, uf_protected, uf_locked,
    uf_srvLocked, uf_unlocking, uf_open, uf_selected, uf_reported, uf_username,
    uf_reqActions, uf_submitted, uf_nOps,
    cd_srv, cd_held, cd_mounted, cd_client, cd_form, cd_dialog, cd_updates,
    cd_deleting, cd_reports, cd_nOps, cd_overlapped, cd_unconfirmed, cd_confirm,
    cd_refetch,
    rp_open, rp_confirming, rp_form, rp_step, rp_submitted, rp_cred, rp_cred0,
    rp_alert, rp_refreshed, rp_closed, rp_nOps,
    cp_conditionName, cp_srv, cp_srv0, cp_policies, cp_conditionData, cp_conditionType,
    cp_cfg, cp_fetch, cp_put, cp_mounted, cp_alert, cp_nOps, cp_nOther,
    ck_srv, ck_keyInfo, ck_key, ck_fetch, ck_useJwksUrl, ck_dialog, ck_ops, ck_alerts, ck_nOps,
    ck_overlapped,
    af_srvFlows, af_srvBinding, af_realm, af_key, af_fetch, af_ops, af_nOps,
    af_overlapped, af_fetchFailed,
    sh_srv, sh_permissions, sh_names, sh_open, sh_batches, sh_nOps,
    gt_srv, gt_data, gt_dataKey, gt_key, gt_first, gt_max, gt_search, gt_exact,
    gt_fetch, gt_ops,
    gt_nOps, gt_overlapped, gt_staleStart,
    lm_isNew, lm_srv, lm_created, lm_components, lm_mapping, lm_form, lm_dirty,
    lm_saves, lm_pending, lm_mounted, lm_lost, lm_nOps

rrVars == <<rr_exists, rr_realms, rr_realm, rr_stored>>
dsVars == <<ds_srv, ds_mounted, ds_client, ds_pending, ds_reports, ds_nOps, ds_nLeaves>>
ufVars == <<uf_srvRealm, uf_realm, uf_fetch, uf_isNew, uf_protected, uf_locked,
            uf_srvLocked, uf_unlocking, uf_open, uf_selected, uf_reported, uf_username,
            uf_reqActions, uf_submitted, uf_nOps>>
cdVars == <<cd_srv, cd_held, cd_mounted, cd_client, cd_form, cd_dialog, cd_updates,
            cd_deleting, cd_reports, cd_nOps, cd_overlapped, cd_unconfirmed,
            cd_confirm, cd_refetch>>
rpVars == <<rp_open, rp_confirming, rp_form, rp_step, rp_submitted, rp_cred, rp_cred0,
            rp_alert, rp_refreshed, rp_closed, rp_nOps>>
cpVars == <<cp_conditionName, cp_srv, cp_srv0, cp_policies, cp_conditionData,
            cp_conditionType, cp_cfg, cp_fetch, cp_put, cp_mounted, cp_alert, cp_nOps,
            cp_nOther>>
ckVars == <<ck_srv, ck_keyInfo, ck_key, ck_fetch, ck_useJwksUrl, ck_dialog, ck_ops, ck_alerts,
            ck_nOps, ck_overlapped>>
afVars == <<af_srvFlows, af_srvBinding, af_realm, af_key, af_fetch, af_ops,
            af_nOps, af_overlapped, af_fetchFailed>>
shVars == <<sh_srv, sh_permissions, sh_names, sh_open, sh_batches, sh_nOps>>
gtVars == <<gt_srv, gt_data, gt_dataKey, gt_key, gt_first, gt_max, gt_search,
            gt_exact, gt_fetch,
            gt_ops, gt_nOps, gt_overlapped, gt_staleStart>>
lmVars == <<lm_isNew, lm_srv, lm_created, lm_components, lm_mapping, lm_form,
            lm_dirty, lm_saves, lm_pending, lm_mounted, lm_lost,
            lm_nOps>>
vars == <<page, rrVars, dsVars, ufVars, cdVars, rpVars, cpVars, ckVars, afVars,
          shVars, gtVars, lmVars>>

\* The variables of the pages not shown in the behaviour.
RROff == rr_exists = Off /\ rr_realms = Off /\ rr_realm = Off /\ rr_stored = Off
DSOff == /\ ds_srv = Off /\ ds_mounted = Off /\ ds_client = Off /\ ds_pending = Off
         /\ ds_reports = Off /\ ds_nOps = Off /\ ds_nLeaves = Off
UFOff == /\ uf_srvRealm = Off /\ uf_realm = Off /\ uf_fetch = Off /\ uf_isNew = Off
         /\ uf_protected = Off /\ uf_locked = Off /\ uf_srvLocked = Off
         /\ uf_unlocking = Off /\ uf_open = Off /\ uf_selected = Off
         /\ uf_reported = Off /\ uf_username = Off /\ uf_reqActions = Off
         /\ uf_submitted = Off /\ uf_nOps = Off
CDOff == /\ cd_srv = Off /\ cd_held = Off /\ cd_mounted = Off /\ cd_client = Off
         /\ cd_form = Off /\ cd_dialog = Off /\ cd_updates = Off
         /\ cd_deleting = Off /\ cd_reports = Off /\ cd_nOps = Off
         /\ cd_overlapped = Off /\ cd_unconfirmed = Off /\ cd_confirm = Off
         /\ cd_refetch = Off
RPOff == /\ rp_open = Off /\ rp_confirming = Off /\ rp_form = Off /\ rp_step = Off
         /\ rp_submitted = Off /\ rp_cred = Off /\ rp_cred0 = Off /\ rp_alert = Off
         /\ rp_refreshed = Off /\ rp_closed = Off /\ rp_nOps = Off
CPOff == /\ cp_conditionName = Off /\ cp_srv = Off /\ cp_srv0 = Off /\ cp_policies = Off
         /\ cp_conditionData = Off /\ cp_conditionType = Off /\ cp_cfg = Off
         /\ cp_fetch = Off /\ cp_put = Off /\ cp_mounted = Off /\ cp_alert = Off
         /\ cp_nOps = Off /\ cp_nOther = Off
CKOff == /\ ck_srv = Off /\ ck_keyInfo = Off /\ ck_key = Off /\ ck_fetch = Off
         /\ ck_useJwksUrl = Off /\ ck_dialog = Off /\ ck_ops = Off /\ ck_alerts = Off /\ ck_nOps = Off
         /\ ck_overlapped = Off
AFOff == /\ af_srvFlows = Off /\ af_srvBinding = Off /\ af_realm = Off
         /\ af_key = Off /\ af_fetch = Off /\ af_ops = Off /\ af_nOps = Off
         /\ af_overlapped = Off /\ af_fetchFailed = Off
SHOff == /\ sh_srv = Off /\ sh_permissions = Off /\ sh_names = Off
         /\ sh_open = Off /\ sh_batches = Off /\ sh_nOps = Off
GTOff == /\ gt_srv = Off /\ gt_data = Off /\ gt_dataKey = Off /\ gt_key = Off
         /\ gt_first = Off /\ gt_max = Off /\ gt_search = Off /\ gt_exact = Off
         /\ gt_fetch = Off /\ gt_ops = Off
         /\ gt_nOps = Off /\ gt_overlapped = Off /\ gt_staleStart = Off
LMOff == /\ lm_isNew = Off /\ lm_srv = Off /\ lm_created = Off
         /\ lm_components = Off /\ lm_mapping = Off /\ lm_form = Off
         /\ lm_dirty = Off /\ lm_saves = Off /\ lm_pending = Off
         /\ lm_mounted = Off /\ lm_lost = Off
         /\ lm_nOps = Off

-----------------------------------------------------------------------------
(* Recent realms: five names, one more than MAX_REALMS, so the cut drops   *)
(* one.                                                                    *)
RR == INSTANCE RecentRealms WITH
        Names <- {"master", "a", "b", "c", "d"},
        NameOrder <- <<"a", "b", "c", "d", "master">>,
        MAX_REALMS <- 4,
        exists <- rr_exists, realms <- rr_realms, realm <- rr_realm, stored <- rr_stored

(* Dedicated scopes: three mapper ids, enough for a client holding two     *)
(* while a third is added; one handler at a time, requests that may fail,  *)
(* the page left once and re-entered.                                      *)
DS == INSTANCE DedicatedScopes WITH
        Mappers <- {"m1", "m2", "m3"}, MaxOps <- 4, MaxPending <- 1,
        MayFail <- {TRUE, FALSE}, MaxLeaves <- 1,
        srv <- ds_srv, mounted <- ds_mounted, client <- ds_client,
        pending <- ds_pending, reports <- ds_reports, nOps <- ds_nOps,
        nLeaves <- ds_nLeaves

(* User form: three groups, two named "x" under different parents, two    *)
(* required actions, realms that allow, forbid or leave out username      *)
(* editing, with and without email as username and the user profile.     *)
UFGroups == {"ax", "bx", "y"}
UF == INSTANCE UserForm WITH
        Groups <- UFGroups,
        GroupName <- [g \in UFGroups |-> IF g = "y" THEN "y" ELSE "x"],
        Actions <- {"VERIFY_EMAIL", "UPDATE_PASSWORD"},
        Realms <- [emailAsUsername : BOOLEAN, editUsernameAllowed : {TRUE, FALSE, Undef},
                   userProfileEnabled : BOOLEAN],
        FeatureEnabled <- TRUE, MayFail <- {TRUE, FALSE}, MaxOps <- 4,
        srvRealm <- uf_srvRealm, realm <- uf_realm, fetch <- uf_fetch,
        isNew <- uf_isNew, protected <- uf_protected, locked <- uf_locked,
        srvLocked <- uf_srvLocked, unlocking <- uf_unlocking, open <- uf_open,
        selected <- uf_selected, reported <- uf_reported, username <- uf_username,
        reqActions <- uf_reqActions, submitted <- uf_submitted, nOps <- uf_nOps

(* Client details: a clientId typed with a leading space, which save      *)
(* trims, two authenticator types, failing calls and two updates in        *)
(* flight at once.                                                         *)
CDClientIds == {"app", " app"}
CD == INSTANCE ClientDetails WITH
        ClientIds <- CDClientIds, Trim <- [v \in CDClientIds |-> "app"],
        AuthTypes <- {"client-secret", "client-jwt"},
        MayFail <- {TRUE, FALSE}, MaxOps <- 4, MaxPending <- 2,
        srv <- cd_srv, held <- cd_held, mounted <- cd_mounted, client <- cd_client,
        form <- cd_form, dialog <- cd_dialog, updates <- cd_updates,
        deleting <- cd_deleting, reports <- cd_reports, nOps <- cd_nOps,
        overlapped <- cd_overlapped, unconfirmed <- cd_unconfirmed,
        confirm <- cd_confirm, refetch <- cd_refetch

(* Password dialog: two passwords, so a wrong confirmation is typed; the   *)
(* old label kept, cleared or already the default; failing requests.       *)
RP == INSTANCE ResetPasswordDialog WITH
        Passwords <- {"p1", "p2"}, Labels <- {"none", "custom", "default"},
        MayFail <- {TRUE, FALSE}, MaxOps <- 3,
        open <- rp_open, confirming <- rp_confirming, form <- rp_form, step <- rp_step,
        submitted <- rp_submitted, cred <- rp_cred, cred0 <- rp_cred0,
        alert <- rp_alert, refreshed <- rp_refreshed, closed <- rp_closed,
        nOps <- rp_nOps

(* Client policy condition: the named policy and one other, two condition *)
(* types (a policy can hold two of one type), one configuration besides   *)
(* the empty one, and one change by another session.                       *)
CP == INSTANCE ClientPolicyCondition WITH
        PolicyNames <- {"P", "Q"}, PolicyName <- "P", Types <- {"t1", "t2"},
        Configs <- {"empty", "c1"}, EmptyConfig <- "empty", MaxConds <- 2,
        MayFail <- {TRUE, FALSE}, MaxOps <- 2, MaxOther <- 1,
        conditionName <- cp_conditionName, srv <- cp_srv, srv0 <- cp_srv0,
        policies <- cp_policies, conditionData <- cp_conditionData,
        conditionType <- cp_conditionType, cfg <- cp_cfg, fetch <- cp_fetch,
        put <- cp_put, mounted <- cp_mounted, alert <- cp_alert, nOps <- cp_nOps,
        nOther <- cp_nOther

(* Client keys: a certificate on the server and two new ones, so a      *)
(* generate and an import can both be awaiting; failing requests.        *)
CK == INSTANCE ClientKeys WITH
        Certs <- {"c0", "c1", "c2"}, MayFail <- {TRUE, FALSE}, MaxOps <- 3,
        srv <- ck_srv, keyInfo <- ck_keyInfo, key <- ck_key, fetch <- ck_fetch,
        useJwksUrl <- ck_useJwksUrl, dialog <- ck_dialog, ops <- ck_ops, alerts <- ck_alerts,
        nOps <- ck_nOps, overlapped <- ck_overlapped

(* Authentication flows: a built-in flow and a copy, two bindings, so a  *)
(* copy can be bound and an unbound flow deleted; two handlers awaiting   *)
(* at once; failing requests.                                              *)
AF == INSTANCE AuthenticationFlows WITH
        Flows <- {"browser", "copy"}, Slots <- {"browserFlow", "directGrantFlow"},
        MayFail <- {TRUE, FALSE}, MaxOps <- 3, MaxPending <- 2,
        srvFlows <- af_srvFlows,
        srvBinding <- af_srvBinding,
        realm <- af_realm,
        key <- af_key,
        fetch <- af_fetch,
        ops <- af_ops,
        nOps <- af_nOps,
        overlapped <- af_overlapped,
        fetchFailed <- af_fetchFailed

(* Share a resource: three users, so a batch of two is sent while the   *)
(* third already shares it; failing requests; Done twice.                  *)
SH == INSTANCE ShareResource WITH
        Users <- {"u1", "u2", "u3"}, MayFail <- {TRUE, FALSE}, MaxOps <- 4,
        srv <- sh_srv,
        permissions <- sh_permissions,
        names <- sh_names,
        open <- sh_open,
        batches <- sh_batches,
        nOps <- sh_nOps

(* Group tree: three groups and pages of one or two, so there is a next  *)
(* page; a delete confirmed and a second handler awaiting; failures; a    *)
(* search that finds group 1 exactly and groups 1 and 2 as a substring.   *)
GT == INSTANCE GroupTree WITH
        N <- 3, PerPage <- {1, 2}, Terms <- {"", "g"},
        Found <- [t \in {"", "g"} |-> [x \in BOOLEAN |-> IF x THEN {1} ELSE {1, 2}]],
        MayFail <- {TRUE, FALSE}, MaxOps <- 3,
        MaxPending <- 2,
        srv <- gt_srv,
        data <- gt_data,
        dataKey <- gt_dataKey,
        key <- gt_key,
        first <- gt_first,
        max <- gt_max,
        search <- gt_search,
        exact <- gt_exact,
        fetch <- gt_fetch,
        ops <- gt_ops,
        nOps <- gt_nOps,
        overlapped <- gt_overlapped,
        staleStart <- gt_staleStart

(* LDAP mapper: new and existing mappers, the existing one possibly gone; *)
(* two values, so an edit differs from what a save sent; failing calls.   *)
LM == INSTANCE LdapMapper WITH
        Vals <- {"v1", "v2"}, MayFail <- {TRUE, FALSE}, MaxOps <- 4,
        isNew <- lm_isNew,
        srv <- lm_srv,
        created <- lm_created,
        components <- lm_components,
        mapping <- lm_mapping,
        form <- lm_form,
        dirty <- lm_dirty,
        saves <- lm_saves,
        pending <- lm_pending,
        mounted <- lm_mounted,
        lost <- lm_lost,
        nOps <- lm_nOps

-----------------------------------------------------------------------------
Pages == {"recentRealms", "dedicatedScopes", "userForm", "clientDetails",
          "resetPassword", "clientPolicyCondition",
          "clientKeys",
          "authFlows",
          "shareResource",
          "groupTree",
          "ldapMapper"}

Init ==
    /\ page \in Pages
    /\ IF page = "recentRealms" THEN RR!Init ELSE RROff
    /\ IF page = "dedicatedScopes" THEN DS!Init ELSE DSOff
    /\ IF page = "userForm" THEN UF!Init ELSE UFOff
    /\ IF page = "clientDetails" THEN CD!Init ELSE CDOff
    /\ IF page = "resetPassword" THEN RP!Init ELSE RPOff
    /\ IF page = "clientPolicyCondition" THEN CP!Init ELSE CPOff
    /\ IF page = "clientKeys" THEN CK!Init ELSE CKOff
    /\ IF page = "authFlows" THEN AF!Init ELSE AFOff
    /\ IF page = "shareResource" THEN SH!Init ELSE SHOff
    /\ IF page = "groupTree" THEN GT!Init ELSE GTOff
    /\ IF page = "ldapMapper" THEN LM!Init ELSE LMOff

Next ==
    \/ page = "recentRealms" /\ RR!Next
       /\ UNCHANGED <<page, dsVars, ufVars, cdVars, rpVars, cpVars, ckVars,
                      afVars, shVars, gtVars, lmVars>>
    \/ page = "dedicatedScopes" /\ DS!Next
       /\ UNCHANGED <<page, rrVars, ufVars, cdVars, rpVars, cpVars, ckVars,
                      afVars, shVars, gtVars, lmVars>>
    \/ page = "userForm" /\ UF!Next
       /\ UNCHANGED <<page, rrVars, dsVars, cdVars, rpVars, cpVars, ckVars,
                      afVars, shVars, gtVars, lmVars>>
    \/ page = "clientDetails" /\ CD!Next
       /\ UNCHANGED <<page, rrVars, dsVars, ufVars, rpVars, cpVars, ckVars,
                      afVars, shVars, gtVars, lmVars>>
    \/ page = "resetPassword" /\ RP!Next
       /\ UNCHANGED <<page, rrVars, dsVars, ufVars, cdVars, cpVars, ckVars,
                      afVars, shVars, gtVars, lmVars>>
    \/ page = "clientPolicyCondition" /\ CP!Next
       /\ UNCHANGED <<page, rrVars, dsVars, ufVars, cdVars, rpVars, ckVars,
                      afVars, shVars, gtVars, lmVars>>
    \/ page = "clientKeys" /\ CK!Next
       /\ UNCHANGED <<page, rrVars, dsVars, ufVars, cdVars, rpVars, cpVars,
                      afVars, shVars, gtVars, lmVars>>
    \/ page = "authFlows" /\ AF!Next
       /\ UNCHANGED <<page, rrVars, dsVars, ufVars, cdVars, rpVars, cpVars,
                      ckVars, shVars, gtVars, lmVars>>
    \/ page = "shareResource" /\ SH!Next
       /\ UNCHANGED <<page, rrVars, dsVars, ufVars, cdVars, rpVars, cpVars,
                      ckVars, afVars, gtVars, lmVars>>
    \/ page = "groupTree" /\ GT!Next
       /\ UNCHANGED <<page, rrVars, dsVars, ufVars, cdVars, rpVars, cpVars,
                      ckVars, afVars, shVars, lmVars>>
    \/ page = "ldapMapper" /\ LM!Next
       /\ UNCHANGED <<page, rrVars, dsVars, ufVars, cdVars, rpVars, cpVars,
                      ckVars, afVars, shVars, gtVars>>

\* The server answers the password dialog's requests (ResetPasswordDialog!Spec).
RPServerAnswers ==
    /\ page = "resetPassword" /\ RP!ServerAnswers
    /\ UNCHANGED <<page, rrVars, dsVars, ufVars, cdVars, cpVars, ckVars, afVars,
                   shVars, gtVars, lmVars>>

\* The server answers the authentication flows page (AuthenticationFlows!Spec).
AFServerAnswers ==
    /\ page = "authFlows" /\ AF!ServerAnswers
    /\ UNCHANGED <<page, rrVars, dsVars, ufVars, cdVars, cpVars, ckVars, rpVars,
                   shVars, gtVars, lmVars>>

\* A user may stop on any page, so a state with nothing left to do is no deadlock.
Spec == Init /\ [][Next]_vars
        /\ WF_vars(RPServerAnswers) /\ WF_vars(AFServerAnswers)

-----------------------------------------------------------------------------
(* Each page's properties, asked of that page's behaviours.  They are      *)
(* stated in the page modules; see the comment above each there.          *)

\* RecentRealms!TypeOK: at most MAX_REALMS distinct names, the current realm first.
RecentRealmsTypeOK == page = "recentRealms" => RR!TypeOK

\* RecentRealms!SwitchKeepsRecency: a switch keeps the other realms in order of use.
SwitchKeepsRecency == [][page = "recentRealms" => RR!SwitchKeepsRecencyStep]_vars

\* DedicatedScopes!TypeOK: a delete names a mapper of the client it captured.
DedicatedScopesTypeOK == page = "dedicatedScopes" => DS!TypeOK

\* DedicatedScopes!MappersShownExist: the idle page shows no deleted mapper.
MappersShownExist == page = "dedicatedScopes" => DS!MappersShownExist

\* DedicatedScopes!MappersShownMatchServer: with no error shown, the idle
\* page shows exactly the server's mappers.
MappersShownMatchServer == page = "dedicatedScopes" => DS!MappersShownMatchServer

\* UserForm!TypeOK: no duplicate chip or required action.
UserFormTypeOK == page = "userForm" => UF!TypeOK

\* ClientDetails!TypeOK: every update sent carries a trimmed clientId.
ClientDetailsTypeOK == page = "clientDetails" => CD!TypeOK

\* ClientDetails!ShownClientWasHeld: the page shows only a client the server held.
ShownClientWasHeld == page = "clientDetails" => CD!ShownClientWasHeld

\* ClientDetails!SequentialSavesKeepPageTrue: with saves one at a time, the
\* idle page shows the server's client and no authenticator change goes
\* through unconfirmed.
SequentialSavesKeepPageTrue == page = "clientDetails" => CD!SequentialSavesKeepPageTrue

\* ResetPasswordDialog!TypeOK: only a confirmed, matching password is submitted.
ResetPasswordTypeOK == page = "resetPassword" => RP!TypeOK

\* ResetPasswordDialog!SuccessMeansSaved: the success alert means the server
\* holds the typed password, the chosen temporary flag and the default label.
SuccessMeansSaved == page = "resetPassword" => RP!SuccessMeansSaved

\* ResetPasswordDialog!ConfirmedSaveCloses: a confirmed save always ends in onClose().
ConfirmedSaveCloses == page = "resetPassword" => RP!ConfirmedSaveCloses

\* ClientPolicyCondition!TypeOK: the condition loaded for editing is of the URL's type.
ClientPolicyConditionTypeOK == page = "clientPolicyCondition" => CP!TypeOK

\* ClientPolicyCondition!SaveAsIntended: a save after a complete load, with no
\* other session's change, writes exactly the intended policies.
SaveAsIntended == [][page = "clientPolicyCondition" => CP!SaveAsIntendedStep]_vars

\* ClientKeys!SequentialKeyOpsKeepInfoFresh: with operations one at a time and
\* no error, the idle tab shows the server's certificate.
SequentialKeyOpsKeepInfoFresh == page = "clientKeys" => CK!SequentialKeyOpsKeepInfoFresh

\* AuthenticationFlows!SequentialOpsKeepRealmFresh: with refreshes one at a
\* time, the idle page shows the server's realm binding.
SequentialOpsKeepRealmFresh == page = "authFlows" => AF!SequentialOpsKeepRealmFresh

\* AuthenticationFlows!SequentialOpsShowRealm: the spinner a refresh put up
\* goes away, unless a refresh was due while another handler was awaiting.
SequentialOpsShowRealm == page = "authFlows" => AF!SequentialOpsShowRealm

\* ShareResource!SuccessMeansShared: the success alert means the resource
\* is shared with every user the batch named.
SuccessMeansShared == page = "shareResource" => SH!SuccessMeansShared

\* GroupTree!SequentialOpsKeepTreeFresh: with handlers one at a time, the
\* idle tree shows the server's page of groups.
SequentialOpsKeepTreeFresh == page = "groupTree" => GT!SequentialOpsKeepTreeFresh


=============================================================================
