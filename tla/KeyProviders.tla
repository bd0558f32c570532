---------------------------- MODULE KeyProviders ----------------------------
(***************************************************************************)
(* The key providers of a realm in the admin console: KeysTab              *)
(* (src/js/apps/admin-ui/src/realm-settings/keys/KeysTab.tsx) fetches the  *)
(* components of type KeyProvider, sorts them by priority and refetches    *)
(* when its refresh counter `key` changes; KeysProvidersTab (.../keys/     *)
(* KeysProvidersTab.tsx) shows them in a draggable table with a search, a  *)
(* drag that saves a new priority for every component, and a delete.       *)
(*                                                                         *)
(* The server is the map srv from component id to its priority, or Gone.   *)
(* Every HTTP call is a message in flight that the server answers in any   *)
(* order.  The callbacks run after an await with the refresh function of   *)
(* the render they were created in, so they carry the key of that render.  *)
(***************************************************************************)
EXTENDS Naturals, SequencesExt

CONSTANTS
    Ids,          \* component ids
    IdOrder,      \* the order the server lists components in
    Prios,        \* priorities the components may start with
    NaN,          \* a priority Number() does not parse
    Terms,        \* search terms, "" included
    Matches,      \* [Terms -> SUBSET Ids]: the ids whose name/providerId contain it
    MayFail,      \* the outcomes an HTTP call may have: TRUE for success
    MaxDrags,     \* bound on the drags of a behaviour
    MaxDeletes,   \* bound on the confirmed deletes of a behaviour
    Gone,         \* a deleted component
    Undef         \* realmComponents before the first fetch

VARIABLES
    srv,          \* the server: [Ids -> priority or Gone]
    key,          \* KeysTab's refresh counter
    fetching,     \* a components.find for the current key is in flight
    comps,        \* realmComponents: sequence of [id, prio] records, or Undef
    searchVal,    \* the text of the search box
    filtered,     \* filteredComponents: a sequence of [id, prio] records
    drags,        \* the drags: [k, order, prio, before, waiting, state, alone];
                  \* alone records that no other update was in flight at the drop
    net,          \* component updates in flight: [d, id, prio]
    dels,         \* deletes in flight: [id, k]
    nDeletes      \* deletes confirmed so far (bounded by MaxDeletes)

vars == <<srv, key, fetching, comps, searchVal, filtered, drags, net, dels, nDeletes>>

(***************************************************************************)
(* Number(a.config?.priority), with NaN read as 0 (KeysTab lines 20-24).   *)
(***************************************************************************)
PrioNum(p) == IF p = NaN THEN 0 ELSE p

\* Mutant: the comparator subtracts the other way round (ascending).
PrecedesAscending(b, a) == PrioNum(b.prio) < PrioNum(a.prio)

\* comparator(a, b) > 0 puts b first: b precedes a when it has the higher
\* priority.
Precedes(b, a) == PrioNum(b.prio) > PrioNum(a.prio)

\* Array.prototype.sort is stable: insert each element after every element
\* it does not precede.
InsertSorted(s, e) ==
    LET i == SelectInSeq(s, LAMBDA x : Precedes(e, x))
    IN IF i = 0 THEN Append(s, e) ELSE InsertAt(s, i, e)

\* sortByPriority(components), KeysTab lines 18-29.
sortByPriority(cs) == FoldLeft(InsertSorted, <<>>, cs)

\* adminClient.components.find: the live components in the server's order.
Find == [i \in 1..Len(SelectSeq(IdOrder, LAMBDA x : srv[x] # Gone)) |->
            LET id == SelectSeq(IdOrder, LAMBDA x : srv[x] # Gone)[i]
            IN [id |-> id, prio |-> srv[id]]]

IdsOf(s) == {s[i].id : i \in DOMAIN s}

\* The table's data: filteredComponents unless it is empty (line 200).
Displayed == IF filtered = <<>> THEN comps ELSE filtered

\* itemOrder.indexOf(id): 0-based, -1 when the id is not in the list.
IndexOf(s, id) == SelectInSeq(s, LAMBDA x : x = id) - 1

\* Mutant: the index is added instead of subtracted.
DragPriorityAdded(order, id) == Len(order) + IndexOf(order, id) + 100

\* The priority onDragFinish saves for a component (lines 212-218).
DragPriority(order, id) == Len(order) - IndexOf(order, id) + 100

\* refresh() of the render that captured key k: setKey(k + 1).  React bails
\* out when the value is the current one, and useFetch refetches only when
\* its dependency changed.
Refresh(k) ==
    /\ key' = k + 1
    /\ fetching' = (fetching \/ k + 1 # key)

Init ==
    /\ srv \in [Ids -> Prios]
    /\ key = 0
    /\ fetching = TRUE
    /\ comps = Undef
    /\ searchVal = ""
    /\ filtered = <<>>
    /\ drags = <<>>
    /\ net = {}
    /\ dels = {}
    /\ nDeletes = 0

\* useFetch's callback: setRealmComponents(sortByPriority(components)).
FetchDone ==
    /\ fetching
    /\ comps' = sortByPriority(Find)
    /\ fetching' = FALSE
    /\ UNCHANGED <<srv, key, searchVal, filtered, drags, net, dels, nDeletes>>

\* handleInputChange: the search box only records the text.
HandleInputChange(v) ==
    /\ comps # Undef
    /\ searchVal' = v
    /\ UNCHANGED <<srv, key, fetching, comps, filtered, drags, net, dels, nDeletes>>

\* onSearch, from Enter in the search field (handleKeyDown) or the search
\* button, lines 113-132.
OnSearch ==
    /\ comps # Undef
    /\ filtered' = IF searchVal # ""
                   THEN SelectSeq(comps, LAMBDA c : c.id \in Matches[searchVal])
                   ELSE comps
    /\ UNCHANGED <<srv, key, fetching, comps, searchVal, drags, net, dels, nDeletes>>

(***************************************************************************)
(* onDragFinish (lines 202-231): the table reports the new order of the    *)
(* rows it shows; an update of every component of realmComponents is sent  *)
(* at once, and Promise.all waits for them.                                *)
(***************************************************************************)
OnDragFinish(order) ==
    /\ comps # Undef
    /\ Len(drags) < MaxDrags
    /\ LET d == Len(drags) + 1
           p == [id \in IdsOf(comps) |-> DragPriority(order, id)]
       IN /\ net' = net \cup {[d |-> d, id |-> c, prio |-> p[c]] : c \in IdsOf(comps)}
          /\ IF comps = <<>>
             THEN /\ drags' = Append(drags, [k |-> key, order |-> order, prio |-> p,
                                             before |-> srv, waiting |-> {}, state |-> "saved",
                                             alone |-> net = {}])
                  /\ Refresh(key)
             ELSE /\ drags' = Append(drags, [k |-> key, order |-> order, prio |-> p,
                                             before |-> srv, waiting |-> IdsOf(comps), state |-> "pending",
                                             alone |-> net = {}])
                  /\ UNCHANGED <<key, fetching>>
    /\ UNCHANGED <<srv, comps, searchVal, filtered, dels, nDeletes>>

\* Mutant: a successful answer is not taken off the drag's waiting set.
UpdateDoneNoProgress(m, ok) ==
    LET applied == ok /\ srv[m.id] # Gone
        dr == drags[m.d]
    IN /\ net' = net \ {m}
       /\ srv' = IF applied THEN [srv EXCEPT ![m.id] = m.prio] ELSE srv
       /\ IF dr.state = "pending" /\ ~applied
          THEN drags' = [drags EXCEPT ![m.d].state = "error"]
          ELSE UNCHANGED drags
       /\ UNCHANGED <<key, fetching, comps, searchVal, filtered, dels, nDeletes>>

(***************************************************************************)
(* The server answers one update.  A failed call, or one for a component   *)
(* already deleted, rejects Promise.all at once (addError, no refresh);    *)
(* the last success resolves it and calls the captured refresh.            *)
(***************************************************************************)
UpdateDone(m, ok) ==
    LET applied == ok /\ srv[m.id] # Gone
        dr == drags[m.d]
    IN /\ net' = net \ {m}
       /\ srv' = IF applied THEN [srv EXCEPT ![m.id] = m.prio] ELSE srv
       /\ IF dr.state # "pending"
          THEN UNCHANGED <<drags, key, fetching>>
          ELSE IF ~applied
          THEN /\ drags' = [drags EXCEPT ![m.d].state = "error"]
               /\ UNCHANGED <<key, fetching>>
          ELSE IF dr.waiting = {m.id}
          THEN /\ drags' = [drags EXCEPT ![m.d].waiting = {}, ![m.d].state = "saved"]
               /\ Refresh(dr.k)
          ELSE /\ drags' = [drags EXCEPT ![m.d].waiting = @ \ {m.id}]
               /\ UNCHANGED <<key, fetching>>
       /\ UNCHANGED <<comps, searchVal, filtered, dels, nDeletes>>

\* The delete action of a row, confirmed in the dialog (lines 97-102, 262).
ConfirmDelete(id) ==
    /\ comps # Undef
    /\ id \in IdsOf(Displayed)
    /\ nDeletes < MaxDeletes
    /\ dels' = dels \cup {[id |-> id, k |-> key]}
    /\ nDeletes' = nDeletes + 1
    /\ UNCHANGED <<srv, key, fetching, comps, searchVal, filtered, drags, net>>

\* components.del settles: refresh() on success, addError otherwise.
DeleteDone(x, ok) ==
    /\ dels' = dels \ {x}
    /\ IF ok /\ srv[x.id] # Gone
       THEN /\ srv' = [srv EXCEPT ![x.id] = Gone]
            /\ Refresh(x.k)
       ELSE UNCHANGED <<srv, key, fetching>>
    /\ UNCHANGED <<comps, searchVal, filtered, drags, net, nDeletes>>

Next ==
    \/ FetchDone
    \/ \E v \in Terms : HandleInputChange(v)
    \/ OnSearch
    \/ \E o \in (IF comps = Undef THEN {} ELSE SetToSeqs(IdsOf(Displayed))) :
          OnDragFinish(o)
    \/ \E m \in net, ok \in MayFail : UpdateDone(m, ok)
    \/ \E id \in Ids : ConfirmDelete(id)
    \/ \E x \in dels, ok \in MayFail : DeleteDone(x, ok)

Spec == Init /\ [][Next]_vars

-----------------------------------------------------------------------------
Records == [id : Ids, prio : Prios \cup (100..(100 + Cardinality(Ids) + 1))]

TypeOK ==
    /\ srv \in [Ids -> Prios \cup (100..(100 + Cardinality(Ids) + 1)) \cup {Gone}]
    /\ key \in 0..(MaxDrags + MaxDeletes)
    /\ fetching \in BOOLEAN
    /\ comps = Undef \/ comps \in Seq(Records)
    /\ filtered \in Seq(Records)
    /\ \A m \in net : m.d \in DOMAIN drags /\ m.id \in Ids
    \* a pending Promise.all waits only on updates still in flight
    /\ \A d \in DOMAIN drags :
          drags[d].state = "pending" =>
              drags[d].waiting \subseteq {m.id : m \in {n \in net : n.d = d}}
    /\ \A x \in dels : x.id \in Ids /\ x.k <= key

\* Position of a component in the server's listing.
Pos(id) == SelectInSeq(IdOrder, LAMBDA x : x = id)

(* KeysTab shows the providers by descending priority, an unparsable       *)
(* priority counting as 0, and providers of equal priority in the order    *)
(* the server listed them (sortByPriority's comparator on a stable sort).  *)
SortedByPriority ==
    comps # Undef =>
        \A i, j \in DOMAIN comps : i < j =>
            \/ PrioNum(comps[i].prio) > PrioNum(comps[j].prio)
            \/ /\ PrioNum(comps[i].prio) = PrioNum(comps[j].prio)
               /\ Pos(comps[i].id) < Pos(comps[j].id)

\* Position of a component in the list KeysTab shows.
ShownAt(id) == SelectInSeq(comps, LAMBDA c : c.id = id)

(* A drop survives the round trip: after the last drag, made with no other *)
(* update in flight and no provider deleted, has saved and the refresh it  *)
(* calls has refetched, KeysTab lists the dropped rows in the order the    *)
(* user dropped them.  It takes onDragFinish's priorities, Promise.all     *)
(* calling the captured refresh, useFetch refetching on the new key and   *)
(* sortByPriority all to be right.                                         *)
DropShownAfterRefresh ==
    \A d \in DOMAIN drags :
        LET o == drags[d].order
        IN  (/\ d = Len(drags) /\ drags[d].alone /\ drags[d].state = "saved"
             /\ nDeletes = 0 /\ ~fetching)
            => \A i, j \in DOMAIN o : i < j => ShownAt(o[i]) < ShownAt(o[j])

\* Nothing is in flight.
Quiescent ==
    /\ ~fetching
    /\ net = {}
    /\ dels = {}
    /\ \A d \in DOMAIN drags : drags[d].state # "pending"

(* Every save and delete ends with refresh(), so once nothing is in flight *)
(* the providers KeysTab holds are those the server has, in its order.     *)
RealmComponentsFresh ==
    (Quiescent /\ comps # Undef) => comps = sortByPriority(Find)

(* A drag reorders the rows the table shows: providers the search hides    *)
(* keep their priority order relative to each other.                       *)
HiddenProvidersKeepOrder ==
    \A d \in DOMAIN drags :
        LET p == drags[d].prio
            hidden == DOMAIN p \ ToSet(drags[d].order)
        IN (\A id \in hidden : srv[id] = p[id]) =>
              \A a, b \in hidden :
                  PrioNum(drags[d].before[a]) > PrioNum(drags[d].before[b])
                      => PrioNum(srv[a]) > PrioNum(srv[b])

====
