------------------------------ MODULE ClientKeys ------------------------------
(***************************************************************************)
(* The keys tab of a client (src/js/apps/admin-ui/src/clients/keys/Keys.tsx)*)
(* It shows the client's certificate, loaded by a useFetch keyed on a      *)
(* refresh counter, and offers two async operations from their dialogs:   *)
(*   generate   generateAndDownloadKey, the success alert and refresh();  *)
(*   importKey  uploadCertificate, the success alert and refresh().        *)
(* Each dialog is a modal opened from its button, the import button      *)
(* disabled while the JWKS URL is on; confirming starts the operation and *)
(* closes the dialog, cancel closes it.                                    *)
(* refresh is setKey(key + 1) over the key of the render whose closure    *)
(* the dialog called.  Nothing stops a second operation while one is       *)
(* awaiting.                                                               *)
(*                                                                         *)
(* useFetch is not under src/: a change of its key aborts the request in  *)
(* flight (its answer is dropped) and starts a new one; a failure shows   *)
(* an error and leaves the state as it was.  A certificate is a model      *)
(* value; each generate or import yields a new one.                        *)
(***************************************************************************)
EXTENDS Naturals, FiniteSets

CONSTANTS
    Certs,        \* certificates a generate or an import can produce
    MayFail,      \* {FALSE}, or {TRUE, FALSE} when a request may fail
    MaxOps,       \* bound on the operations of a behaviour
    None,         \* no client certificate configured
    Undef

VARIABLES
    srv,          \* the client's certificate on the server
    keyInfo,      \* the keyInfo state (line 53)
    key,          \* the key state (line 57)
    fetch,        \* the getKeyInfo in flight: [served, snap], or Undef
    useJwksUrl,   \* the attributes.use.jwks.url form value (lines 60-64)
    dialog,       \* the modal open: "none", "generate" or "import"
    ops,          \* operations awaiting: [kind, cert, k (key of the closure)]
    alerts,       \* "success" and "error" alerts shown
    nOps,
    overlapped    \* history: an operation started while another was awaiting

vars == <<srv, keyInfo, key, fetch, useJwksUrl, dialog, ops, alerts, nOps,
          overlapped>>

\* useFetch(getKeyInfo, setKeyInfo, [key]) (lines 66-70) started anew.
NewFetch == [served |-> FALSE, snap |-> Undef]

\* The certificates already produced.
Used == {srv} \cup {o.cert : o \in ops}

Init ==
    /\ srv \in {None} \cup Certs
    /\ keyInfo = Undef
    /\ key = 0
    /\ fetch = NewFetch
    /\ useJwksUrl \in BOOLEAN
    /\ dialog = "none"
    /\ ops = {}
    /\ alerts = {}
    /\ nOps = 0
    /\ overlapped = FALSE

\* The server answers getKeyInfo with the certificate it holds.
FetchServed ==
    /\ fetch # Undef /\ ~fetch.served
    /\ fetch' = [served |-> TRUE, snap |-> srv]
    /\ UNCHANGED <<srv, keyInfo, key, useJwksUrl, dialog, ops, alerts, nOps,
                   overlapped>>

\* The answer lands: setKeyInfo(info) (line 68).
FetchLanded ==
    /\ fetch # Undef /\ fetch.served
    /\ keyInfo' = fetch.snap
    /\ fetch' = Undef
    /\ UNCHANGED <<srv, key, useJwksUrl, dialog, ops, alerts, nOps, overlapped>>

\* getKeyInfo fails: useFetch shows the error.
FetchFailed ==
    /\ fetch # Undef /\ ~fetch.served
    /\ TRUE \in MayFail
    /\ fetch' = Undef
    /\ alerts' = alerts \cup {"error"}
    /\ UNCHANGED <<srv, keyInfo, key, useJwksUrl, dialog, ops, nOps,
                   overlapped>>

\* The "use JWKS URL" switch (lines 152-166), behind an open modal's overlay.
ToggleJwksUrl ==
    /\ nOps < MaxOps /\ dialog = "none"
    /\ useJwksUrl' = ~useJwksUrl
    /\ nOps' = nOps + 1
    /\ UNCHANGED <<srv, keyInfo, key, fetch, dialog, ops, alerts, overlapped>>

(* "Generate new keys" and "Import" open their dialog (lines 114-125,   *)
(* 199-213); import is disabled while the JWKS URL is on.                  *)
OpenDialog(kind) ==
    /\ dialog = "none"
    /\ kind = "import" => ~useJwksUrl
    /\ dialog' = kind
    /\ UNCHANGED <<srv, keyInfo, key, fetch, useJwksUrl, ops, alerts, nOps,
                   overlapped>>

\* Cancel, or the modal's close button: toggleDialog().
CloseDialog ==
    /\ dialog # "none"
    /\ dialog' = "none"
    /\ UNCHANGED <<srv, keyInfo, key, fetch, useJwksUrl, ops, alerts, nOps,
                   overlapped>>

(* Confirming the open dialog runs save(config) and toggleDialog(): the    *)
(* generate dialog calls generate (lines 72-80), the import dialog         *)
(* importKey (lines 92-106).  Each yields a new certificate.               *)
StartOp(kind, c) ==
    /\ nOps < MaxOps
    /\ dialog = kind
    /\ dialog' = "none"
    /\ c \notin Used
    /\ ops' = ops \cup {[kind |-> kind, cert |-> c, k |-> key]}
    /\ overlapped' = (overlapped \/ ops # {})
    /\ nOps' = nOps + 1
    /\ UNCHANGED <<srv, keyInfo, key, fetch, useJwksUrl, alerts>>

\* Mutant: an import that succeeds does not refresh.
OpDoneNoRefresh(o, ok) ==
    /\ o \in ops
    /\ (~ok) \in MayFail
    /\ ops' = ops \ {o}
    /\ IF ok
       THEN /\ srv' = o.cert
            /\ alerts' = alerts \cup {"success"}
            /\ IF o.kind = "generate" /\ o.k + 1 # key
               THEN key' = o.k + 1 /\ fetch' = NewFetch
               ELSE UNCHANGED <<key, fetch>>
       ELSE /\ alerts' = alerts \cup {"error"}
            /\ UNCHANGED <<srv, key, fetch>>
    /\ UNCHANGED <<keyInfo, useJwksUrl, dialog, nOps, overlapped>>

(* The operation settles: on success the alert and refresh() (lines       *)
(* 85-86, 107-108), which sets key to the closure's key + 1: when that is  *)
(* the current key React keeps the state and no fetch starts.  On failure *)
(* the error alert (lines 87-89, 109-111).                                 *)
OpDone(o, ok) ==
    /\ o \in ops
    /\ (~ok) \in MayFail
    /\ ops' = ops \ {o}
    /\ IF ok
       THEN /\ srv' = o.cert
            /\ alerts' = alerts \cup {"success"}
            /\ IF o.k + 1 # key
               THEN key' = o.k + 1 /\ fetch' = NewFetch
               ELSE UNCHANGED <<key, fetch>>
       ELSE /\ alerts' = alerts \cup {"error"}
            /\ UNCHANGED <<srv, key, fetch>>
    /\ UNCHANGED <<keyInfo, useJwksUrl, dialog, nOps, overlapped>>

Next ==
    \/ FetchServed
    \/ FetchLanded
    \/ FetchFailed
    \/ ToggleJwksUrl
    \/ \E kind \in {"generate", "import"} : OpenDialog(kind)
    \/ CloseDialog
    \/ \E kind \in {"generate", "import"}, c \in Certs : StartOp(kind, c)
    \/ \E o \in ops, ok \in BOOLEAN : OpDone(o, ok)

Spec == Init /\ [][Next]_vars

-----------------------------------------------------------------------------
TypeOK ==
    /\ srv \in {None} \cup Certs
    /\ keyInfo \in {Undef, None} \cup Certs
    /\ key \in 0..MaxOps
    /\ fetch = Undef \/ fetch.snap \in {Undef, None} \cup Certs
    /\ useJwksUrl \in BOOLEAN
    /\ dialog \in {"none", "generate", "import"}
    /\ \A o \in ops : o.kind \in {"generate", "import"} /\ o.cert \in Certs
                      /\ o.k \in 0..MaxOps
    /\ alerts \subseteq {"success", "error"}
    /\ nOps \in 0..MaxOps

\* No request of the tab is awaiting.
Quiescent == ops = {} /\ fetch = Undef

(* As long as the operations went one at a time and no error was shown,  *)
(* the idle tab shows the certificate the server holds: each successful    *)
(* operation's refresh() refetches it.                                      *)
SequentialKeyOpsKeepInfoFresh ==
    ~overlapped /\ Quiescent /\ "error" \notin alerts => keyInfo = srv

(* The idle tab shows the server's certificate whenever no error was      *)
(* shown, overlapping operations included.                                 *)
KeyInfoFresh ==
    Quiescent /\ "error" \notin alerts => keyInfo = srv

=============================================================================
