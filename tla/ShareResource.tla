---------------------------- MODULE ShareResource ----------------------------
(***************************************************************************)
(* The "share the resource" dialog of the account console                  *)
(* (src/js/apps/account-ui/src/resources/ShareTheResource.tsx).  The user *)
(* names users as chips, and Done runs addShare: one updateRequest per    *)
(* named user, all sent at once and awaited with Promise.all.  The        *)
(* success alert and onClose() follow when every request has resolved;    *)
(* the first rejection goes to the catch and its error alert.  Either way *)
(* the form is reset.  Done is enabled while the form is valid: at least  *)
(* one user, none of them among those the resource is already shared with *)
(* (validateUser, against the permissions the dialog was given).          *)
(*                                                                         *)
(* updateRequest is not under src/: one request per user, which the       *)
(* server applies or refuses on its own.  A batch is one call of          *)
(* addShare; nothing stops Done while an earlier batch is awaiting.       *)
(***************************************************************************)
EXTENDS Naturals, FiniteSets

CONSTANTS
    Users,        \* usernames
    MayFail,      \* {FALSE}, or {TRUE, FALSE} when a request may fail
    MaxOps        \* bound on the user operations of a behaviour

VARIABLES
    srv,          \* the users the resource is shared with on the server
    permissions,  \* the permissions prop: the users shown as sharing it
    names,        \* the usernames field array, the empty entries left out
    open,         \* the dialog is open
    batches,      \* addShare calls: [id, users, pending, result]
    nOps

vars == <<srv, permissions, names, open, batches, nOps>>

\* A user operation on the open dialog.
UserOp == open /\ nOps < MaxOps /\ nOps' = nOps + 1

\* validateUser (lines 93-112): hasUsers and not alreadyShared.
ValidateUser == names # {} /\ names \cap permissions = {}

Init ==
    /\ srv \in SUBSET Users
    /\ permissions = srv
    /\ names = {}
    /\ open = TRUE
    /\ batches = {}
    /\ nOps = 0

\* The user types a name into the last field, registered with validateUser,
\* and adds it with the Add button (lines 147-168).
AddUser(u) ==
    /\ UserOp
    /\ u \notin names
    /\ names' = names \cup {u}
    /\ UNCHANGED <<srv, permissions, open, batches>>

\* A click on a chip removes that entry (line 175).
RemoveChip(u) ==
    /\ UserOp
    /\ u \in names
    /\ names' = names \ {u}
    /\ UNCHANGED <<srv, permissions, open, batches>>

\* Mutant: addShare does not await the Promise.all.
SubmitNoAwait ==
    /\ UserOp /\ ValidateUser
    /\ batches' = batches \cup {[id |-> nOps, users |-> names, pending |-> names,
                                 result |-> "success"]}
    /\ open' = FALSE
    /\ names' = {}
    /\ UNCHANGED <<srv, permissions>>

(* Done, enabled while the form is valid (lines 121-130): handleSubmit     *)
(* runs addShare, which sends one updateRequest per user (lines 76-84).    *)
Submit ==
    /\ UserOp /\ ValidateUser
    /\ batches' = batches \cup {[id |-> nOps, users |-> names, pending |-> names,
                                 result |-> "pending"]}
    /\ UNCHANGED <<srv, permissions, names, open>>

(* The server answers the request of user u of batch b.  The first        *)
(* rejection settles the Promise.all: the error alert and reset({})       *)
(* (lines 87-90).  When the last request resolves and none was rejected,  *)
(* the success alert, onClose() and reset({}) (lines 85-86, 90).  A       *)
(* request of a settled batch still lands on the server.                  *)
Answer(b, u, ok) ==
    /\ b \in batches /\ u \in b.pending
    /\ (~ok) \in MayFail
    /\ srv' = IF ok THEN srv \cup {u} ELSE srv
    /\ LET rest == b.pending \ {u}
           result == CASE b.result # "pending" -> b.result
                       [] ~ok -> "error"
                       [] rest = {} -> "success"
                       [] OTHER -> "pending"
           settles == b.result = "pending" /\ result # "pending"
       IN /\ batches' = (batches \ {b}) \cup {[b EXCEPT !.pending = rest,
                                                         !.result = result]}
          /\ names' = IF settles THEN {} ELSE names
          /\ open' = IF settles /\ result = "success" THEN FALSE ELSE open
    /\ UNCHANGED <<permissions, nOps>>

\* Cancel or the modal's close (lines 118-119, 131).
Cancel ==
    /\ open
    /\ open' = FALSE
    /\ UNCHANGED <<srv, permissions, names, batches, nOps>>

Next ==
    \/ \E u \in Users : AddUser(u) \/ RemoveChip(u)
    \/ Submit
    \/ \E b \in batches, u \in Users, ok \in BOOLEAN : Answer(b, u, ok)
    \/ Cancel

Spec == Init /\ [][Next]_vars

-----------------------------------------------------------------------------
TypeOK ==
    /\ srv \subseteq Users /\ permissions \subseteq Users /\ names \subseteq Users
    /\ open \in BOOLEAN
    /\ \A b \in batches : /\ b.pending \subseteq b.users /\ b.users # {}
                          /\ b.result \in {"pending", "success", "error"}
    /\ nOps \in 0..MaxOps

(* The success alert of a share means that the resource is shared with    *)
(* every user it named: addShare awaits all of its requests first.        *)
SuccessMeansShared ==
    \A b \in batches : b.result = "success" => b.users \subseteq srv

(* The error alert of a share means that it shared the resource with none *)
(* of the users it named who did not have it before.                      *)
ErrorMeansNothingShared ==
    \A b \in batches : b.result = "error" => b.users \cap srv \subseteq permissions

=============================================================================
