---------------------------- MODULE ClientDetails ----------------------------
(***************************************************************************)
(* The client page of the admin console                                    *)
(* (src/js/apps/admin-ui/src/clients/ClientDetails.tsx): it fetches the    *)
(* client, fills a form from it and saves the form with an async save()    *)
(* that the settings tab, the keys tab and the header's enabled switch     *)
(* all call.  save asks for a confirmation when a confidential client's    *)
(* authenticator is changed, then awaits clients.update and shows the      *)
(* client it sent.  The page can also delete the client and leave.         *)
(*                                                                         *)
(* save first awaits form.trigger(); the form's validators are             *)
(* synchronous, so the promise resolves in a microtask, before any user   *)
(* event or server answer: validation, the check and the send are one      *)
(* step.  Nothing stops a second save while an update is awaiting, so      *)
(* several updates can be in flight; the server serves them in any order. *)
(*                                                                         *)
(* A client is the record of the fields the page's logic reads: clientId  *)
(* (which save trims), enabled, publicClient and clientAuthenticatorType.  *)
(***************************************************************************)
EXTENDS Naturals, FiniteSets

CONSTANTS
    ClientIds,    \* clientId values, some with surrounding whitespace
    Trim,         \* [ClientIds -> ClientIds]: String.prototype.trim
    AuthTypes,    \* client authenticator types
    MayFail,      \* {FALSE}, or {TRUE, FALSE} when a request may fail
    MaxOps,       \* bound on the user operations of a behaviour
    MaxPending,   \* bound on the updates awaiting at once
    Gone,         \* the client after its deletion
    Undef         \* client before the fetch (the spinner, lines 367-369)

VARIABLES
    srv,          \* the client on the server, or Gone
    held,         \* history: every client the server has held
    mounted,      \* the page is mounted
    client,       \* the client state (line 218)
    form,         \* the form values
    dialog,       \* changeAuthenticatorOpen (line 206)
    updates,      \* clients.update calls in flight: [c, confirmed, served]
    deleting,     \* a clients.del is in flight
    reports,      \* the alerts shown: "saved", "saveError", "deleted", "deleteError"
    nOps,
    overlapped,   \* history: a save was sent while another update was awaiting
    unconfirmed,  \* history: the server took an unconfirmed authenticator change
    confirm,      \* the useConfirmDialog open: "none", "disable" (line 95) or
                  \* "delete" (line 274)
    refetch       \* the findOne of a key change in flight: [served, snap], or Undef

vars == <<srv, held, mounted, client, form, dialog, updates, deleting, reports,
          nOps, overlapped, unconfirmed, confirm, refetch>>

Client == [clientId : ClientIds, enabled : BOOLEAN, publicClient : BOOLEAN,
           clientAuthenticatorType : AuthTypes]

\* The user acts on the loaded page; the confirmation is modal.
UserOp ==
    /\ mounted /\ client # Undef /\ ~dialog /\ confirm = "none"
    /\ nOps < MaxOps /\ nOps' = nOps + 1

\* Mutant: the clientId is sent as typed.
NewClientUntrimmed(f) == f

\* The client save sends: {...client, ...submittedClient} with a trimmed
\* clientId (lines 350-356); the form holds every field of the record.
NewClient(f) == [f EXCEPT !.clientId = Trim[f.clientId]]

\* clients.update(newClient) is sent (line 358).
SendUpdate(f, confirmed) ==
    /\ Cardinality(updates) < MaxPending
    /\ updates' = updates \cup {[c |-> NewClient(f), confirmed |-> confirmed,
                                 served |-> FALSE]}
    /\ overlapped' = (overlapped \/ updates # {} \/ refetch # Undef)

\* Mutant: save sends without asking for the authenticator confirmation.
SaveUnchecked(f) ==
    /\ SendUpdate(f, FALSE)
    /\ UNCHANGED dialog

(* save() with the form values f (lines 316-358): a change of a           *)
(* confidential client's authenticator opens the dialog and returns;       *)
(* otherwise the update is sent.                                            *)
Save(f) ==
    IF ~client.publicClient /\ client.clientAuthenticatorType # f.clientAuthenticatorType
    THEN /\ dialog' = ~dialog
         /\ UNCHANGED <<updates, overlapped>>
    ELSE /\ SendUpdate(f, FALSE)
         /\ UNCHANGED dialog

\* setClient, setupForm from an async callback: dropped once the page is gone.
Show(c) ==
    /\ client' = IF mounted THEN c ELSE client
    /\ form' = IF mounted THEN c ELSE form

Init ==
    /\ srv \in {c \in Client : Trim[c.clientId] = c.clientId}
    /\ held = {srv}
    /\ mounted = TRUE
    /\ client = Undef
    /\ form = Undef
    /\ dialog = FALSE
    /\ updates = {}
    /\ deleting = FALSE
    /\ reports = {}
    /\ nOps = 0
    /\ overlapped = FALSE
    /\ unconfirmed = FALSE
    /\ confirm = "none"
    /\ refetch = Undef

(* useFetch of findOne (lines 304-314): setClient(cloneDeep(fetched)) and  *)
(* setupForm, which resets the form to the client.                         *)
Fetched ==
    /\ mounted /\ client = Undef /\ srv # Gone
    /\ client' = srv
    /\ form' = srv
    /\ UNCHANGED <<srv, held, mounted, dialog, updates, deleting, reports, nOps,
                   overlapped, unconfirmed, confirm, refetch>>

(* The Credentials tab, shown for a confidential client (lines 448-463), *)
(* calls refresh={() => setKey(key + 1)} (line 460) once it has           *)
(* regenerated a secret: the useFetch of lines 304-314 runs again on its  *)
(* new key, dropping a findOne of an earlier key.  The secret is not a    *)
(* field of the model, so the server's client is unchanged.               *)
RefreshCredentials ==
    /\ UserOp
    /\ ~client.publicClient
    /\ refetch' = [served |-> FALSE, snap |-> Undef]
    /\ overlapped' = (overlapped \/ updates # {})
    /\ UNCHANGED <<srv, held, mounted, client, form, dialog, updates, deleting,
                   reports, unconfirmed, confirm>>

\* The server answers the refetch with the client it holds then.
RefetchServed ==
    /\ refetch # Undef /\ ~refetch.served
    /\ refetch' = [served |-> TRUE, snap |-> srv]
    /\ UNCHANGED <<srv, held, mounted, client, form, dialog, updates, deleting,
                   reports, nOps, overlapped, unconfirmed, confirm>>

(* The refetch settles: its callback sets the client and resets the form *)
(* (lines 306-312), or the request fails and nothing changes.             *)
RefetchLanded ==
    /\ refetch # Undef
    /\ \/ refetch.served /\ Show(refetch.snap)
       \/ ~refetch.served /\ TRUE \in MayFail /\ UNCHANGED <<client, form>>
    /\ refetch' = Undef
    /\ UNCHANGED <<srv, held, mounted, dialog, updates, deleting, reports, nOps,
                   overlapped, unconfirmed, confirm>>

\* The user edits one field of the form.
Edit(fld, v) ==
    /\ UserOp
    /\ form[fld] # v
    /\ form' = [form EXCEPT ![fld] = v]
    /\ UNCHANGED <<srv, held, mounted, client, dialog, updates, deleting,
                   reports, overlapped, unconfirmed, confirm, refetch>>

\* save() from the Save button of a tab (lines 424, 439, 459, 637).
SaveClick ==
    /\ UserOp
    /\ Save(form)
    /\ UNCHANGED <<srv, held, mounted, client, form, deleting, reports,
                   unconfirmed, confirm, refetch>>

\* The settings tab's Revert: setupForm(client) (line 425).
ResetForm ==
    /\ UserOp
    /\ form' = client
    /\ UNCHANGED <<srv, held, mounted, client, dialog, updates, deleting,
                   reports, overlapped, unconfirmed, confirm, refetch>>

(* The header's enabled switch (lines 166-172): turning it on is         *)
(* onChange(value) then save(); turning it off opens the disable           *)
(* confirmation (toggleDisableDialog) and changes nothing yet.             *)
EnabledSwitch(v) ==
    /\ UserOp
    /\ form.enabled # v
    /\ IF v
       THEN /\ form' = [form EXCEPT !.enabled = v]
            /\ Save(form')
            /\ UNCHANGED confirm
       ELSE /\ confirm' = "disable"
            /\ UNCHANGED <<form, dialog, updates, overlapped>>
    /\ UNCHANGED <<srv, held, mounted, client, deleting, reports, unconfirmed,
                   refetch>>

(* "Disable" in the header's confirmation (lines 95-103): onChange(!value) *)
(* flips the switch's field and save() runs on the form; the dialog        *)
(* closes.                                                                  *)
ConfirmDisable ==
    /\ confirm = "disable" /\ mounted
    /\ confirm' = "none"
    /\ form' = [form EXCEPT !.enabled = ~form.enabled]
    /\ Save(form')
    /\ UNCHANGED <<srv, held, mounted, client, deleting, reports, nOps,
                   unconfirmed, refetch>>

\* "Cancel" closes the open confirmation; nothing changes.
CancelConfirm ==
    /\ confirm # "none" /\ mounted
    /\ confirm' = "none"
    /\ UNCHANGED <<srv, held, mounted, client, form, dialog, updates, deleting,
                   reports, nOps, overlapped, unconfirmed, refetch>>

(* "Yes" in the confirmation (lines 373-388): save({confirmed: true}) sends *)
(* the update; the dialog closes.                                           *)
ConfirmChange ==
    /\ dialog /\ mounted
    /\ SendUpdate(form, TRUE)
    /\ dialog' = FALSE
    /\ UNCHANGED <<srv, held, mounted, client, form, deleting, reports, nOps,
                   unconfirmed, confirm, refetch>>

\* "No" closes the confirmation; nothing is saved.
CancelChange ==
    /\ dialog /\ mounted
    /\ dialog' = FALSE
    /\ UNCHANGED <<srv, held, mounted, client, form, updates, deleting, reports,
                   nOps, overlapped, unconfirmed, confirm, refetch>>

\* c changes the authenticator of the confidential client old.
ChangesAuthenticator(old, c) ==
    ~old.publicClient /\ old.clientAuthenticatorType # c.clientAuthenticatorType

\* The server applies an update; an update of a deleted client is a 404.
UpdateServed(u) ==
    /\ u \in updates /\ ~u.served /\ srv # Gone
    /\ srv' = u.c
    /\ held' = held \cup {u.c}
    /\ unconfirmed' = (unconfirmed \/ (ChangesAuthenticator(srv, u.c) /\ ~u.confirmed))
    /\ updates' = (updates \ {u}) \cup {[u EXCEPT !.served = TRUE]}
    /\ UNCHANGED <<mounted, client, form, dialog, deleting, reports, nOps,
                   overlapped, confirm, refetch>>

\* Mutant: the client shown after the await is read from the form.
UpdateReturnedFromForm(u) ==
    /\ u \in updates /\ u.served
    /\ Show(form)
    /\ updates' = updates \ {u}
    /\ reports' = reports \cup {"saved"}
    /\ UNCHANGED <<srv, held, mounted, dialog, deleting, nOps, overlapped,
                   unconfirmed, confirm, refetch>>

(* clients.update resolves: setupForm(newClient), setClient(newClient) and *)
(* the success alert (lines 359-361).                                      *)
UpdateReturned(u) ==
    /\ u \in updates /\ u.served
    /\ Show(u.c)
    /\ updates' = updates \ {u}
    /\ reports' = reports \cup {"saved"}
    /\ UNCHANGED <<srv, held, mounted, dialog, deleting, nOps, overlapped,
                   unconfirmed, confirm, refetch>>

\* clients.update rejects: clientSaveError (lines 362-364).
UpdateFailed(u) ==
    /\ u \in updates /\ ~u.served
    /\ TRUE \in MayFail \/ srv = Gone
    /\ updates' = updates \ {u}
    /\ reports' = reports \cup {"saveError"}
    /\ UNCHANGED <<srv, held, mounted, client, form, dialog, deleting, nOps,
                   overlapped, unconfirmed, confirm, refetch>>

(* Delete in the header's dropdown (lines 133-152), offered to a manager *)
(* of a client that is not a realm client, opens the delete confirmation. *)
OpenDelete ==
    /\ UserOp
    /\ confirm' = "delete"
    /\ UNCHANGED <<srv, held, mounted, client, form, dialog, updates, deleting,
                   reports, overlapped, unconfirmed, refetch>>

(* "Delete" in the confirmation (lines 274-279): onConfirm awaits          *)
(* clients.del; one delete at a time is modelled.                          *)
DeleteConfirmed ==
    /\ confirm = "delete" /\ mounted /\ ~deleting
    /\ confirm' = "none"
    /\ deleting' = TRUE
    /\ UNCHANGED <<srv, held, mounted, client, form, dialog, updates, reports,
                   nOps, overlapped, unconfirmed, refetch>>

\* clients.del settles: the success alert and navigate to the client list,
\* or clientDeleteError (lines 280-286).
DeleteDone(ok) ==
    /\ deleting
    /\ (~ok) \in MayFail \/ srv = Gone
    /\ deleting' = FALSE
    /\ IF ok /\ srv # Gone
       THEN /\ srv' = Gone
            /\ mounted' = FALSE
            /\ reports' = reports \cup {"deleted"}
       ELSE /\ reports' = reports \cup {"deleteError"}
            /\ UNCHANGED <<srv, mounted>>
    /\ UNCHANGED <<held, client, form, dialog, updates, nOps, overlapped,
                   unconfirmed, confirm, refetch>>

Next ==
    \/ Fetched
    \/ RefreshCredentials
    \/ RefetchServed
    \/ RefetchLanded
    \/ \E v \in ClientIds : Edit("clientId", v)
    \/ \E v \in BOOLEAN : Edit("publicClient", v)
    \/ \E v \in AuthTypes : Edit("clientAuthenticatorType", v)
    \/ SaveClick
    \/ ResetForm
    \/ \E v \in BOOLEAN : EnabledSwitch(v)
    \/ ConfirmChange
    \/ CancelChange
    \/ ConfirmDisable
    \/ CancelConfirm
    \/ \E u \in updates : UpdateServed(u) \/ UpdateReturned(u) \/ UpdateFailed(u)
    \/ OpenDelete
    \/ DeleteConfirmed
    \/ \E ok \in BOOLEAN : DeleteDone(ok)

Spec == Init /\ [][Next]_vars

-----------------------------------------------------------------------------
TypeOK ==
    /\ srv \in Client \cup {Gone}
    /\ held \subseteq Client
    /\ {mounted, dialog, deleting, overlapped, unconfirmed} \subseteq BOOLEAN
    /\ confirm \in {"none", "disable", "delete"}
    /\ client \in Client \cup {Undef}
    /\ form \in Client \cup {Undef}
    /\ \A u \in updates : u.c \in Client /\ Trim[u.c.clientId] = u.c.clientId
    /\ nOps \in 0..MaxOps
    /\ refetch = Undef \/ refetch.snap \in Client \cup {Gone, Undef}

(* The page shows only a client the server accepted: save shows the       *)
(* client it sent, once clients.update has resolved, and the fetch shows   *)
(* the server's client.                                                    *)
ShownClientWasHeld ==
    client # Undef => client \in held

(* As long as no save was sent while another update was awaiting, the     *)
(* idle page shows the client the server holds, and the server has taken   *)
(* no change of a confidential client's authenticator that the user did   *)
(* not confirm: the check of lines 326-333 compares the form with a        *)
(* client that is the server's.                                            *)
SequentialSavesKeepPageTrue ==
    ~overlapped =>
        /\ mounted /\ client # Undef /\ updates = {} => client = srv
        /\ ~unconfirmed

(* The page shows the server's client whenever no update is awaiting,     *)
(* for every use of the page.                                               *)
ShownClientMatchesServer ==
    mounted /\ client # Undef /\ updates = {} => client = srv

(* The server never takes a change of a confidential client's             *)
(* authenticator that the user did not confirm (lines 326-333).            *)
AuthenticatorChangeConfirmed == ~unconfirmed

(* The disable confirmation stands over an enabled client: it opens only   *)
(* when the switch is turned off, and its onConfirm flips the field with   *)
(* onChange(!value) (line 100), so "Disable" disables only while the form  *)
(* still shows the client enabled.                                          *)
DisableConfirmOverEnabled ==
    confirm = "disable" => form.enabled

=============================================================================
