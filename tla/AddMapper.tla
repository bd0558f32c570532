------------------------------ MODULE AddMapper ------------------------------
(***************************************************************************)
(* The identity provider mapper page of the admin console                  *)
(* (src/js/apps/admin-ui/src/identity-providers/add/AddMapper.tsx), for a  *)
(* new mapper (no id in the route) and an existing one.  A useFetch with   *)
(* no deps loads the mapper types, sorted by name, and for an existing     *)
(* mapper the mapper itself; the spinner shows until both the types and    *)
(* currentMapper, the mapper's TYPE, are set.  save awaits createMapper    *)
(* (then navigates to the new mapper's route) or updateMapper; the         *)
(* confirmed delete awaits delMapper and navigates to the provider.        *)
(* Nothing disables Save while a save is awaiting.                        *)
(*                                                                         *)
(* A mapper is a record of its name and its type.  AddMapperForm and       *)
(* useFetch are not under src/: the form's type select calls               *)
(* updateMapperType (setCurrentMapper) on a new mapper and writes the type *)
(* into the form, the name field is required, and a throw or a failed      *)
(* fetch shows an error.  findOneMapper answers null for a mapper that is  *)
(* gone, as a "fetch or null" lookup of the request builder does.          *)
(***************************************************************************)
EXTENDS Naturals, Sequences

CONSTANTS
    Types,        \* mapper type ids offered for this provider
    TypeOrder,    \* Types in the order localeSort(mapByKey("name")) gives
    TypeNames,    \* TypeNames[i]: the display name of type TypeOrder[i]
    Names,        \* names a user can give a mapper
    MayFail,      \* {FALSE}, or {TRUE, FALSE} when a request may fail
    MaxOps,       \* bound on the user operations of a behaviour
    Gone,         \* no such mapper on the server
    Undef

\* The display name of type t.
TypeName(t) == TypeNames[CHOOSE i \in DOMAIN TypeOrder : TypeOrder[i] = t]

Mappers == [name : Names \cup {TypeName(t) : t \in Types}, type : Types]

VARIABLES
    isNew,          \* no id in the route (line 82)
    srv,            \* the mapper with the route's id on the server, or Gone
    created,        \* the mappers createMapper has made from this page
    fetching,       \* the useFetch of lines 140-160 has not settled
    mapperTypes,    \* the mapperTypes state: loaded or not (lines 65-66)
    currentMapper,  \* the currentMapper state (lines 68-69): a type, or Undef
    form,           \* the form's [name, type], a field Undef while empty
    saves,          \* create or update calls awaiting: [n, v], v the values
    deleting,       \* delMapper awaiting
    mounted,        \* the page is shown (not navigated away)
    nOps

vars == <<isNew, srv, created, fetching, mapperTypes, currentMapper, form,
          saves, deleting, mounted, nOps>>

\* The page is past its spinner (line 166).
Shown == mounted /\ mapperTypes /\ currentMapper # Undef

\* A user operation on the shown page.
UserOp == Shown /\ nOps < MaxOps /\ nOps' = nOps + 1

Init ==
    /\ isNew \in BOOLEAN
    /\ srv \in IF isNew THEN {Gone}
               ELSE [name : Names, type : Types] \cup {Gone}
    /\ created = 0
    /\ fetching = TRUE
    /\ mapperTypes = FALSE
    /\ currentMapper = Undef
    /\ form = [name |-> Undef, type |-> Undef]
    /\ saves = {}
    /\ deleting = FALSE
    /\ mounted = TRUE
    /\ nOps = 0

(* The Promise.all of findOneMapper and findMapperTypes settles (lines    *)
(* 140-160).  For a mapper found, currentMapper is its type and setupForm  *)
(* fills the form; else currentMapper is the first type by name.  A        *)
(* failure leaves the spinner.                                             *)
Fetched(ok) ==
    /\ mounted /\ fetching
    /\ (~ok) \in MayFail
    /\ fetching' = FALSE
    /\ IF ok
       THEN /\ mapperTypes' = TRUE
            /\ IF ~isNew /\ srv # Gone
               THEN currentMapper' = srv.type /\ form' = srv
               ELSE /\ currentMapper' = TypeOrder[1]
                    /\ form' = [form EXCEPT !.type = TypeOrder[1]]
       ELSE UNCHANGED <<mapperTypes, currentMapper, form>>
    /\ UNCHANGED <<isNew, srv, created, saves, deleting, mounted,
                   nOps>>

\* The user types the name n of a new mapper.
EditName(n) ==
    /\ UserOp /\ isNew
    /\ form' = [form EXCEPT !.name = n]
    /\ UNCHANGED <<isNew, srv, created, fetching, mapperTypes, currentMapper,
                   saves, deleting, mounted>>

\* Mutant: the type select sets currentMapper and not the form.
ChangeTypeOnly(t) ==
    /\ UserOp /\ isNew /\ t # currentMapper
    /\ currentMapper' = t
    /\ UNCHANGED <<isNew, srv, created, fetching, mapperTypes, form, saves,
                   deleting, mounted>>

(* The form's type select picks t for a new mapper: updateMapperType is   *)
(* setCurrentMapper (line 229).                                            *)
ChangeType(t) ==
    /\ UserOp /\ isNew /\ t # currentMapper
    /\ currentMapper' = t
    /\ form' = [form EXCEPT !.type = t]
    /\ UNCHANGED <<isNew, srv, created, fetching, mapperTypes, saves, deleting,
                   mounted>>

(* Save (lines 71-81, 200, 238-245): handleSubmit runs save with the form *)
(* values.  An update sends them with name: currentMapper?.name, the name *)
(* of the mapper's type (lines 84-90); a create sends them as they are     *)
(* (lines 97-100).                                                          *)
Save ==
    /\ UserOp /\ form.name # Undef
    /\ LET sent == IF isNew THEN form
                   ELSE [form EXCEPT !.name = TypeName(currentMapper)]
       IN  saves' = saves \cup {[n |-> nOps, v |-> sent]}
    /\ UNCHANGED <<isNew, srv, created, fetching, mapperTypes, currentMapper,
                   form, deleting, mounted>>

(* The save sv settles: an update stores the values sent and alerts       *)
(* (lines 91-94), or is a 404 for a mapper that is gone; a create alerts   *)
(* and navigates to the new mapper's route (lines 102-113).                *)
SaveDone(sv, ok) ==
    /\ sv \in saves
    /\ (~ok) \in MayFail \/ (~isNew /\ srv = Gone)
    /\ ok => (isNew \/ srv # Gone)
    /\ saves' = saves \ {sv}
    /\ srv' = IF ok /\ ~isNew THEN sv.v ELSE srv
    /\ created' = IF ok /\ isNew THEN created + 1 ELSE created
    /\ mounted' = (mounted /\ ~(ok /\ isNew))
    /\ UNCHANGED <<isNew, fetching, mapperTypes, currentMapper, form, deleting,
                   nOps>>

(* The header's Delete (lines 186-194) and its confirmation (lines        *)
(* 117-124), which closes as it confirms: delMapper is sent.               *)
StartDelete ==
    /\ UserOp /\ ~isNew /\ ~deleting
    /\ deleting' = TRUE
    /\ UNCHANGED <<isNew, srv, created, fetching, mapperTypes, currentMapper,
                   form, saves, mounted>>

(* delMapper settles (lines 125-136): the alert and navigate to the       *)
(* provider's mappers, or the error alert.                                 *)
DeleteDone(ok) ==
    /\ deleting
    /\ (~ok) \in MayFail \/ srv = Gone
    /\ ok => srv # Gone
    /\ deleting' = FALSE
    /\ srv' = IF ok THEN Gone ELSE srv
    /\ mounted' = (mounted /\ ~ok)
    /\ UNCHANGED <<isNew, created, fetching, mapperTypes, currentMapper, form,
                   saves, nOps>>

\* Cancel, a link to the provider's mappers (lines 246-262).
Leave ==
    /\ Shown
    /\ mounted' = FALSE
    /\ UNCHANGED <<isNew, srv, created, fetching, mapperTypes, currentMapper,
                   form, saves, deleting, nOps>>

Next ==
    \/ \E ok \in BOOLEAN : Fetched(ok)
    \/ \E n \in Names : EditName(n)
    \/ \E t \in Types : ChangeType(t)
    \/ Save
    \/ \E sv \in saves, ok \in BOOLEAN : SaveDone(sv, ok)
    \/ StartDelete
    \/ \E ok \in BOOLEAN : DeleteDone(ok)
    \/ Leave

Spec == Init /\ [][Next]_vars

-----------------------------------------------------------------------------
(* The page shows the type of the mapper it edits, and a new mapper is    *)
(* sent with the type the page shows.                                      *)
TypeOK ==
    /\ {isNew, fetching, mapperTypes, deleting, mounted}
           \subseteq BOOLEAN
    /\ srv \in Mappers \cup {Gone}
    /\ created \in 0..MaxOps
    /\ currentMapper \in Types \cup {Undef}
    /\ mapperTypes => form.type = currentMapper
    /\ \A sv \in saves : sv.n \in 0..MaxOps /\ sv.v \in Mappers
    /\ nOps \in 0..MaxOps

(* Saving an existing mapper keeps its name: the edit form shows the name *)
(* disabled, so an update never renames the mapper.                        *)
UpdateKeepsNameStep ==
    ~isNew /\ srv # Gone /\ srv' # Gone => srv'.name = srv.name
UpdateKeepsName == [][UpdateKeepsNameStep]_vars

=============================================================================
