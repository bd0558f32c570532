--------------------------- MODULE DedicatedScopes ---------------------------
(***************************************************************************)
(* The dedicated scope page of a client                                    *)
(* (src/js/apps/admin-ui/src/clients/scopes/DedicatedScopes.tsx).  The     *)
(* page fetches the client once, shows its protocol mappers in a           *)
(* MapperList and hands it two async handlers:                             *)
(*   addMappers      add an array of predefined mappers, then refetch the  *)
(*                   client and show it (a single mapper type navigates    *)
(*                   to the mapper form instead);                          *)
(*   onDeleteMapper  delete one mapper, then show the client read before   *)
(*                   the await without that mapper.                        *)
(* Nothing stops the user from starting a handler while another one is     *)
(* still awaiting, so several requests can be in flight; the server        *)
(* serves them in any order.                                               *)
(*                                                                         *)
(* A mapper is a model value; a client is its set of mappers.              *)
(***************************************************************************)
EXTENDS Naturals, FiniteSets

CONSTANTS
    Mappers,      \* the mapper ids the server can hold
    Undef,        \* client before the fetch (the spinner, lines 50-52)
    MaxOps,       \* bound on the user operations of a behaviour
    MaxPending,   \* bound on the handlers awaiting at the same time
    MayFail,      \* {FALSE}, or {TRUE, FALSE} when a request may fail
    MaxLeaves     \* bound on the times the page is left for the mapper form

VARIABLES
    srv,          \* the client's protocol mappers on the server
    mounted,      \* the page is mounted
    client,       \* the client state of the page (line 40): a set of mappers, or Undef
    pending,      \* the handler calls still awaiting
    reports,      \* the alerts the finished handler calls showed
    nOps,         \* user operations so far
    nLeaves       \* times the page was left so far

vars == <<srv, mounted, client, pending, reports, nOps, nLeaves>>

(* A handler call awaiting: kind "add" awaits addMultipleProtocolMappers,  *)
(* "find" awaits the findOne after it (snap is what it read once served),  *)
(* "del" awaits delProtocolMapper (served once the server removed it).     *)
(* snap of a "del" is the client its closure captured; live is FALSE once  *)
(* the page that started it has unmounted, so its setClient does nothing.  *)
Call == [kind : {"add", "find", "del"}, ms : SUBSET Mappers,
         snap : SUBSET Mappers, served : BOOLEAN, live : BOOLEAN]

Report == [kind : {"add", "del"}, ms : SUBSET Mappers, alert : {"success", "error"}]

\* setClient from a handler: dropped by React when the page is gone.
SetClient(c, v) == client' = IF c.live /\ mounted THEN v ELSE client

\* The user starts an operation on the loaded page.
UserOp == mounted /\ client # Undef /\ nOps < MaxOps /\ Cardinality(pending) < MaxPending

Init ==
    /\ srv \in SUBSET Mappers
    /\ mounted = TRUE
    /\ client = Undef
    /\ pending = {}
    /\ reports = {}
    /\ nOps = 0
    /\ nLeaves = 0

\* useFetch(findOne, setClient, []) on mount (line 42).
FetchClient ==
    /\ mounted /\ client = Undef
    /\ client' = srv
    /\ UNCHANGED <<srv, mounted, pending, reports, nOps, nLeaves>>

(* addMappers with one mapper type (lines 57-65): navigate to the mapper   *)
(* form, unmounting the page.                                              *)
AddMapperType ==
    /\ UserOp /\ nLeaves < MaxLeaves
    /\ mounted' = FALSE
    /\ pending' = {[c EXCEPT !.live = FALSE] : c \in pending}
    /\ nOps' = nOps + 1
    /\ nLeaves' = nLeaves + 1
    /\ UNCHANGED <<srv, client, reports>>

\* Coming back to the page mounts it again, with the spinner.
Mount ==
    /\ ~mounted
    /\ mounted' = TRUE
    /\ client' = Undef
    /\ UNCHANGED <<srv, pending, reports, nOps, nLeaves>>

(* addMappers with an array (lines 66-71): the server assigns new ids, so  *)
(* the mappers added are ones neither the server nor another call holds.   *)
AddMappers(ms) ==
    /\ UserOp
    /\ ms # {}
    /\ ms \cap (srv \cup UNION {c.ms : c \in pending}) = {}
    /\ pending' = pending \cup {[kind |-> "add", ms |-> ms, snap |-> {},
                                served |-> FALSE, live |-> TRUE]}
    /\ nOps' = nOps + 1
    /\ UNCHANGED <<srv, mounted, client, reports, nLeaves>>

(* addMultipleProtocolMappers answers: on success the findOne of line 72   *)
(* is sent; on failure the catch of lines 74-76 shows the error.           *)
AddDone(c, ok) ==
    /\ c \in pending /\ c.kind = "add"
    /\ (~ok) \in MayFail
    /\ IF ok
       THEN /\ srv' = srv \cup c.ms
            /\ pending' = (pending \ {c}) \cup {[c EXCEPT !.kind = "find"]}
            /\ UNCHANGED reports
       ELSE /\ pending' = pending \ {c}
            /\ reports' = reports \cup {[kind |-> "add", ms |-> c.ms, alert |-> "error"]}
            /\ UNCHANGED srv
    /\ UNCHANGED <<mounted, client, nOps, nLeaves>>

\* The server answers the findOne of line 72 with the client it holds now.
FindServed(c) ==
    /\ c \in pending /\ c.kind = "find" /\ ~c.served
    /\ pending' = (pending \ {c}) \cup {[c EXCEPT !.snap = srv, !.served = TRUE]}
    /\ UNCHANGED <<srv, mounted, client, reports, nOps, nLeaves>>

\* Mutant: the answer of the refetch is not shown.
FindReturnedNotShown(c) ==
    /\ c \in pending /\ c.kind = "find" /\ c.served
    /\ pending' = pending \ {c}
    /\ reports' = reports \cup {[kind |-> "add", ms |-> c.ms, alert |-> "success"]}
    /\ UNCHANGED <<srv, mounted, client, nOps, nLeaves>>

\* The answer lands: setClient and the success alert (lines 72-73).
FindReturned(c) ==
    /\ c \in pending /\ c.kind = "find" /\ c.served
    /\ SetClient(c, c.snap)
    /\ pending' = pending \ {c}
    /\ reports' = reports \cup {[kind |-> "add", ms |-> c.ms, alert |-> "success"]}
    /\ UNCHANGED <<srv, mounted, nOps, nLeaves>>

\* The findOne fails: the catch shows mappingCreatedError (lines 74-76).
FindFailed(c) ==
    /\ c \in pending /\ c.kind = "find" /\ ~c.served
    /\ TRUE \in MayFail
    /\ pending' = pending \ {c}
    /\ reports' = reports \cup {[kind |-> "add", ms |-> c.ms, alert |-> "error"]}
    /\ UNCHANGED <<srv, mounted, client, nOps, nLeaves>>

\* Mutant: a delete of a mapper the page does not list.
DeleteMapperAny(m) ==
    /\ UserOp
    /\ pending' = pending \cup {[kind |-> "del", ms |-> {m}, snap |-> client,
                                served |-> FALSE, live |-> TRUE]}
    /\ nOps' = nOps + 1
    /\ UNCHANGED <<srv, mounted, client, reports, nLeaves>>

(* onDeleteMapper(m) (lines 80-85): the closure holds the client of the    *)
(* render the user clicked in.                                             *)
DeleteMapper(m) ==
    /\ UserOp
    /\ m \in client
    /\ pending' = pending \cup {[kind |-> "del", ms |-> {m}, snap |-> client,
                                served |-> FALSE, live |-> TRUE]}
    /\ nOps' = nOps + 1
    /\ UNCHANGED <<srv, mounted, client, reports, nLeaves>>

\* The server removes the mapper; one deleted already is a 404.
DeleteServed(c) ==
    /\ c \in pending /\ c.kind = "del" /\ ~c.served
    /\ c.ms \subseteq srv
    /\ srv' = srv \ c.ms
    /\ pending' = (pending \ {c}) \cup {[c EXCEPT !.served = TRUE]}
    /\ UNCHANGED <<mounted, client, reports, nOps, nLeaves>>

\* Mutant: setClient({...client}) without the filter.
DeleteReturnedUnfiltered(c) ==
    /\ c \in pending /\ c.kind = "del" /\ c.served
    /\ SetClient(c, c.snap)
    /\ pending' = pending \ {c}
    /\ reports' = reports \cup {[kind |-> "del", ms |-> c.ms, alert |-> "success"]}
    /\ UNCHANGED <<srv, mounted, nOps, nLeaves>>

(* delProtocolMapper resolves: setClient from the captured client without *)
(* the mapper, and the success alert (lines 86-92).                        *)
DeleteReturned(c) ==
    /\ c \in pending /\ c.kind = "del" /\ c.served
    /\ SetClient(c, c.snap \ c.ms)
    /\ pending' = pending \ {c}
    /\ reports' = reports \cup {[kind |-> "del", ms |-> c.ms, alert |-> "success"]}
    /\ UNCHANGED <<srv, mounted, nOps, nLeaves>>

\* delProtocolMapper rejects (a 404, or any failure): the catch of lines 93-95.
DeleteFailed(c) ==
    /\ c \in pending /\ c.kind = "del" /\ ~c.served
    /\ TRUE \in MayFail \/ ~c.ms \subseteq srv
    /\ pending' = pending \ {c}
    /\ reports' = reports \cup {[kind |-> "del", ms |-> c.ms, alert |-> "error"]}
    /\ UNCHANGED <<srv, mounted, client, nOps, nLeaves>>

Next ==
    \/ FetchClient
    \/ AddMapperType
    \/ Mount
    \/ \E ms \in SUBSET Mappers : AddMappers(ms)
    \/ \E c \in pending : \E ok \in BOOLEAN : AddDone(c, ok)
    \/ \E c \in pending : FindServed(c) \/ FindReturned(c) \/ FindFailed(c)
    \/ \E m \in Mappers : DeleteMapper(m)
    \/ \E c \in pending : DeleteServed(c) \/ DeleteReturned(c) \/ DeleteFailed(c)

Spec == Init /\ [][Next]_vars

-----------------------------------------------------------------------------
(* Types, and a delete names a mapper of the client its closure captured  *)
(* (MapperList offers the delete on the rows of that client).              *)
TypeOK ==
    /\ srv \in SUBSET Mappers
    /\ mounted \in BOOLEAN
    /\ client \in SUBSET Mappers \cup {Undef}
    /\ pending \subseteq Call
    /\ reports \subseteq Report
    /\ nOps \in 0..MaxOps
    /\ nLeaves \in 0..MaxLeaves
    /\ \A c \in pending : c.kind = "del" => c.ms \subseteq c.snap

\* No handler call is awaiting.
Quiescent == pending = {}

(* Once no handler is awaiting, the loaded page shows no mapper the server *)
(* has deleted: onDeleteMapper removes the deleted mapper from the client  *)
(* it shows, and a refetch shows the server's mappers.                     *)
MappersShownExist ==
    mounted /\ client # Undef /\ Quiescent => client \subseteq srv

(* As long as no handler has shown an error, the idle loaded page shows   *)
(* exactly the mappers the server holds: the refetch of addMappers and the *)
(* filtered client of onDeleteMapper keep the view equal to the server.    *)
MappersShownMatchServer ==
    mounted /\ client # Undef /\ Quiescent /\ (\A r \in reports : r.alert = "success")
        => client = srv

(* The error alert mappingCreatedError of addMappers means the mappers     *)
(* were not created: none of them is on the server.                        *)
AddErrorMeansNotAdded ==
    \A r \in reports : r.kind = "add" /\ r.alert = "error" => r.ms \cap srv = {}

=============================================================================
