------------------------- MODULE ResetPasswordDialog -------------------------
(***************************************************************************)
(* The dialog that sets or resets a user's password in the admin console   *)
(* (src/js/apps/admin-ui/src/user/user-credentials/ResetPasswordDialog.tsx)*)
(* The dialog opens with the form (password, its confirmation, the        *)
(* temporary switch); Save is enabled while the form is valid and opens a *)
(* second confirmation.  Its Continue runs saveUserPassword: three         *)
(* requests in sequence (resetPassword, getCredentials,                    *)
(* updateCredentialLabel on the password credential found), then the     *)
(* success alert and refresh(), or the error alert on any failure, and    *)
(* onClose() on both paths.                                                *)
(*                                                                         *)
(* ConfirmDialogModal and useConfirmDialog are not under src/: their       *)
(* Continue is taken to close the modal and call onConfirm, their Cancel  *)
(* to close it (calling onCancel when given).  The server's password      *)
(* credential is [value, temporary, label]; whether a reset keeps the old  *)
(* label is the server's business, so both outcomes are allowed.           *)
(***************************************************************************)
EXTENDS Naturals

CONSTANTS
    Passwords,    \* passwords the user can type
    Labels,       \* credential labels, "default" is t("defaultPasswordLabel")
    MayFail,      \* {FALSE}, or {TRUE, FALSE} when a request may fail
    MaxOps,       \* bound on the edits of a behaviour
    None,         \* the user has no password credential
    Undef

VARIABLES
    open,         \* confirm (line 60): the form dialog is open
    confirming,   \* the ConfirmSaveModal is open
    form,         \* [password, passwordConfirmation, temporaryPassword]
    step,         \* saveUserPassword: "idle", "reset", "getCreds", "label", "done"
    submitted,    \* the values handleSubmit passed to saveUserPassword
    cred,         \* the server's password credential, or None
    cred0,        \* history: the credential when the dialog opened
    alert,        \* Undef, "success" or "error"
    refreshed,    \* refresh() was called
    closed,       \* onClose() was called
    nOps

vars == <<open, confirming, form, step, submitted, cred, cred0, alert, refreshed,
          closed, nOps>>

Field == Passwords \cup {""}

Credential == [value : Passwords, temporary : BOOLEAN, label : Labels]

\* Mutant: the confirmation is only required, not compared.
IsValidRequiredOnly(f) == f.password # "" /\ f.passwordConfirmation # ""

(* isValid (mode "onChange"): both fields are required and the            *)
(* confirmation must equal the password (lines 161, 183-188).             *)
IsValid(f) ==
    f.password # "" /\ f.passwordConfirmation # ""
    /\ f.passwordConfirmation = f.password

Init ==
    /\ open = TRUE
    /\ confirming = FALSE
    /\ form = [password |-> "", passwordConfirmation |-> "", temporaryPassword |-> TRUE]
    /\ step = "idle"
    /\ submitted = Undef
    /\ cred \in Credential \cup {None}
    /\ cred0 = cred
    /\ alert = Undef
    /\ refreshed = FALSE
    /\ closed = FALSE
    /\ nOps = 0

\* Typing into a field or flipping the temporary switch.
Edit(fld, v) ==
    /\ open /\ nOps < MaxOps
    /\ form[fld] # v
    /\ form' = [form EXCEPT ![fld] = v]
    /\ nOps' = nOps + 1
    /\ UNCHANGED <<open, confirming, step, submitted, cred, cred0, alert, refreshed, closed>>

\* Save, enabled while the form is valid (line 138): onConfirm opens the
\* second confirmation (line 137) and the form dialog closes.
SaveClick ==
    /\ open /\ IsValid(form)
    /\ open' = FALSE
    /\ confirming' = TRUE
    /\ UNCHANGED <<form, step, submitted, cred, cred0, alert, refreshed, closed, nOps>>

\* Cancel of the form dialog: onCancel={onClose} (line 135).
CancelDialog ==
    /\ open
    /\ open' = FALSE
    /\ closed' = TRUE
    /\ UNCHANGED <<confirming, form, step, submitted, cred, cred0, alert, refreshed, nOps>>

\* Cancel of the second confirmation closes it; nothing else is called.
CancelSave ==
    /\ confirming
    /\ confirming' = FALSE
    /\ UNCHANGED <<open, form, step, submitted, cred, cred0, alert, refreshed, closed, nOps>>

(* Continue: handleSubmit(saveUserPassword)() (line 77) validates the      *)
(* form, which Save found valid and nobody could edit since, and starts   *)
(* resetPassword (lines 85-92).                                            *)
ConfirmSave ==
    /\ confirming /\ step = "idle"
    /\ IsValid(form)
    /\ confirming' = FALSE
    /\ submitted' = form
    /\ step' = "reset"
    /\ UNCHANGED <<open, form, cred, cred0, alert, refreshed, closed, nOps>>

\* The end of the try block: the success alert and refresh() (lines
\* 106-112), then onClose() (line 122).
Succeed ==
    /\ alert' = "success"
    /\ refreshed' = TRUE
    /\ closed' = TRUE
    /\ step' = "done"

\* Mutant: onClose() is called at the end of the try block only.
FailKeepOpen ==
    /\ alert' = "error"
    /\ step' = "done"
    /\ UNCHANGED closed

\* The catch: the error alert (lines 113-120), then onClose() (line 122).
Fail ==
    /\ alert' = "error"
    /\ closed' = TRUE
    /\ step' = "done"

\* resetPassword settles; the server stores the new credential.
ResetDone(ok) ==
    /\ step = "reset"
    /\ (~ok) \in MayFail
    /\ IF ok
       THEN /\ \E l \in IF cred = None THEN {"none"} ELSE {cred.label, "none"} :
                 cred' = [value |-> submitted.password,
                          temporary |-> submitted.temporaryPassword, label |-> l]
            /\ step' = "getCreds"
            /\ UNCHANGED <<alert, refreshed, closed>>
       ELSE /\ Fail
            /\ UNCHANGED <<cred, refreshed>>
    /\ UNCHANGED <<open, confirming, form, submitted, cred0, nOps>>

\* Mutant: the lookup of line 96 never finds the password credential.
GotCredentialsNone(ok) ==
    /\ step = "getCreds"
    /\ (~ok) \in MayFail
    /\ IF ok THEN Succeed ELSE Fail /\ UNCHANGED refreshed
    /\ UNCHANGED <<open, confirming, form, submitted, cred, cred0, nOps>>

(* getCredentials settles (lines 93-97): the password credential found    *)
(* gets its label updated; without one the save ends in success.           *)
GotCredentials(ok) ==
    /\ step = "getCreds"
    /\ (~ok) \in MayFail
    /\ IF ok
       THEN IF cred # None
            THEN /\ step' = "label"
                 /\ UNCHANGED <<alert, refreshed, closed>>
            ELSE Succeed
       ELSE Fail /\ UNCHANGED refreshed
    /\ UNCHANGED <<open, confirming, form, submitted, cred, cred0, nOps>>

\* updateCredentialLabel settles (lines 98-104).
LabelDone(ok) ==
    /\ step = "label"
    /\ (~ok) \in MayFail
    /\ IF ok
       THEN /\ cred' = [cred EXCEPT !.label = "default"]
            /\ Succeed
       ELSE /\ Fail
            /\ UNCHANGED <<cred, refreshed>>
    /\ UNCHANGED <<open, confirming, form, submitted, cred0, nOps>>

Next ==
    \/ \E v \in Field : Edit("password", v) \/ Edit("passwordConfirmation", v)
    \/ \E v \in BOOLEAN : Edit("temporaryPassword", v)
    \/ SaveClick
    \/ CancelDialog
    \/ CancelSave
    \/ ConfirmSave
    \/ \E ok \in BOOLEAN : ResetDone(ok) \/ GotCredentials(ok) \/ LabelDone(ok)

\* The server answers every request: the steps of saveUserPassword after
\* Continue happen.  The user's steps need no fairness.
ServerAnswers == \E ok \in BOOLEAN : ResetDone(ok) \/ GotCredentials(ok) \/ LabelDone(ok)

Spec == Init /\ [][Next]_vars /\ WF_vars(ServerAnswers)

-----------------------------------------------------------------------------
TypeOK ==
    /\ {open, confirming, refreshed, closed} \subseteq BOOLEAN
    /\ form \in [password : Field, passwordConfirmation : Field,
                 temporaryPassword : BOOLEAN]
    /\ step \in {"idle", "reset", "getCreds", "label", "done"}
    /\ \/ submitted = Undef
       \/ submitted.password # "" /\ submitted.passwordConfirmation = submitted.password
    /\ cred \in Credential \cup {None}
    /\ alert \in {Undef, "success", "error"}
    /\ nOps \in 0..MaxOps

(* The success alert means the server holds the password the user typed,  *)
(* with the temporary flag the user chose and the default label: all three *)
(* requests of saveUserPassword took effect, in order.                     *)
SuccessMeansSaved ==
    alert = "success" =>
        cred = [value |-> submitted.password,
                temporary |-> submitted.temporaryPassword, label |-> "default"]

(* Once the user has confirmed the save, onClose() is eventually called,  *)
(* whichever request fails: the call after the try/catch (line 122).       *)
ConfirmedSaveCloses == step = "reset" ~> closed = TRUE

(* The error alert means the password was not changed: the server holds   *)
(* the credential it held when the dialog opened.                          *)
ErrorMeansUnchanged == alert = "error" => cred = cred0

=============================================================================
