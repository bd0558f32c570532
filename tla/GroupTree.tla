------------------------------ MODULE GroupTree ------------------------------
(***************************************************************************)
(* The group tree of the admin console                                     *)
(* (src/js/apps/admin-ui/src/groups/components/GroupTree.tsx).  It pages   *)
(* through the realm's top-level groups: a useFetch keyed on [key, first, *)
(* max, search, exact] asks ui-ext/groups for max + 1 groups from first   *)
(* and hands them all to the TreeView.  Each group's context menu opens   *)
(* rename, move, create-child or delete, each of which calls the refresh  *)
(* that mapGroup put into the tree when the fetch landed: setKey(k + 1)   *)
(* for the key k of the render that ran the fetch.                        *)
(*                                                                         *)
(* The modals and the toolbar are not under src/: rename, move and        *)
(* create-child stay open while their request awaits, the delete          *)
(* confirmation closes as it confirms, and each calls refresh once its    *)
(* request succeeded; the toolbar's next and previous buttons move first  *)
(* by max, next being enabled while more than max groups came back.       *)
(* Groups are 1..N in the server's order.  The toolbar's search field     *)
(* sets search on Enter and the exact checkbox sets exact; with a search   *)
(* the server lists the groups Found for it, exactly or not.               *)
(***************************************************************************)
EXTENDS Naturals, FiniteSets, SequencesExt

CONSTANTS
    N,            \* top-level groups 1..N
    PerPage,      \* page sizes the toolbar offers (max, line 119)
    Terms,        \* search texts, "" included
    Found,        \* [Terms -> [BOOLEAN -> SUBSET 1..N]]: matches by exact
    MayFail,      \* {FALSE}, or {TRUE, FALSE} when a request may fail
    MaxOps,       \* bound on the user operations of a behaviour
    MaxPending,   \* bound on the handlers awaiting at once
    Undef

VARIABLES
    srv,          \* the top-level groups on the server
    data,         \* the data state (line 115): the groups shown, or Undef
    dataKey,      \* the key of the refresh that mapGroup put into data
    key,          \* the key state (line 123)
    first, max,   \* the paging state (lines 119-120)
    search, exact, \* the search state (lines 118, 121)
    fetch,        \* the ui-ext/groups request in flight: [served, snap, k], or Undef
    ops,          \* menu handlers awaiting: [kind, g, k]
    nOps,
    overlapped,   \* history: a handler started while another was awaiting
    staleStart    \* history: a handler started on a tree fetched with an older key

vars == <<srv, data, dataKey, key, first, max, search, exact, fetch, ops, nOps,
          overlapped, staleStart>>

Groups == 1..N

\* What ui-ext/groups returns for first and max + 1 (lines 163-175).
Page(s, f, m) ==
    LET sorted == SetToSortSeq(s, <)
    IN  SubSeq(sorted, f + 1, IF f + m + 1 < Len(sorted) THEN f + m + 1 ELSE Len(sorted))

(* The groups ui-ext/groups lists: every top-level group, or with a       *)
(* search (sent only when it is not "", lines 168-173) those it finds.    *)
Listed(s) == IF search = "" THEN s ELSE s \cap Found[search][exact]

\* The useFetch starts anew with the page state.
NewFetch(k) == [served |-> FALSE, snap |-> Undef, k |-> k]

\* Mutant: the tree's refresh calls only the view's refresh.
RefreshViewOnly(k) == UNCHANGED <<key, fetch>>

(* refresh() of lines 124-127 from the closure with key k: setKey(k + 1);  *)
(* a set to the current key is dropped and no fetch starts.  The view's    *)
(* own refresh is outside this component.                                  *)
Refresh(k) ==
    /\ key' = k + 1
    /\ fetch' = IF k + 1 # key THEN NewFetch(k + 1) ELSE fetch

(* No modal is open over the tree: only the delete confirmation closes    *)
(* before its request settles.                                            *)
NoModal == \A o \in ops : o.kind = "delete"

\* A user operation on the shown tree.
UserOp == data # Undef /\ NoModal /\ nOps < MaxOps /\ nOps' = nOps + 1

Init ==
    /\ srv \in SUBSET Groups
    /\ data = Undef
    /\ dataKey = 0
    /\ key = 0
    /\ first = 0
    /\ max \in PerPage
    /\ search = ""
    /\ exact = FALSE
    /\ fetch = NewFetch(0)
    /\ ops = {}
    /\ nOps = 0
    /\ overlapped = FALSE
    /\ staleStart = FALSE

\* The server answers with the page asked for.
FetchServed ==
    /\ fetch # Undef /\ ~fetch.served
    /\ fetch' = [fetch EXCEPT !.served = TRUE, !.snap = Page(Listed(srv), first, max)]
    /\ UNCHANGED <<srv, data, dataKey, key, first, max, search, exact, ops, nOps,
                   overlapped, staleStart>>

\* setData(groups.map(g => mapGroup(g, [], refresh))) (line 176).
FetchLanded ==
    /\ fetch # Undef /\ fetch.served
    /\ data' = fetch.snap
    /\ dataKey' = fetch.k
    /\ fetch' = Undef
    /\ UNCHANGED <<srv, key, first, max, search, exact, ops, nOps, overlapped,
                   staleStart>>

(* The toolbar's next, previous and per-page (lines 185-190): the deps of *)
(* the useFetch change and it starts again.                               *)
SetPage(f, m) ==
    /\ UserOp
    /\ <<f, m>> # <<first, max>>
    /\ \/ f = first + max /\ m = max /\ Len(data) > max
       \/ f = first - max /\ m = max /\ first > 0
       \/ f = 0 /\ m \in PerPage
    /\ first' = f /\ max' = m
    /\ fetch' = NewFetch(key)
    /\ UNCHANGED <<srv, data, dataKey, key, search, exact, ops, overlapped,
                   staleStart>>

(* Enter in the search field (inputGroupOnEnter={setSearch}, line 194) or *)
(* the exact checkbox (lines 197-203): a new value of a dependency of the  *)
(* useFetch starts it again; the page state is left as it was.            *)
SetSearch(t, x) ==
    /\ UserOp
    /\ <<t, x>> # <<search, exact>>
    /\ t = search \/ x = exact
    /\ search' = t /\ exact' = x
    /\ fetch' = NewFetch(key)
    /\ UNCHANGED <<srv, data, dataKey, key, first, max, ops, overlapped,
                   staleStart>>

\* A menu item of a shown group g (lines 82-96) starts its handler.
StartOp(kind, g) ==
    /\ UserOp
    /\ g \in ToSet(data)
    /\ Cardinality(ops) < MaxPending
    /\ ops' = ops \cup {[kind |-> kind, g |-> g, k |-> dataKey]}
    /\ overlapped' = (overlapped \/ ops # {})
    /\ staleStart' = (staleStart \/ dataKey # key)
    /\ UNCHANGED <<srv, data, dataKey, key, first, max, search, exact, fetch>>

(* The handler's request settles: a delete or a move takes g out of the   *)
(* top level, a rename or a new child leaves it; on success the refresh    *)
(* it was given runs (lines 55-75).                                       *)
OpDone(o, ok) ==
    /\ o \in ops /\ (~ok) \in MayFail
    /\ ops' = ops \ {o}
    /\ IF ok
       THEN /\ srv' = IF o.kind \in {"delete", "move"} THEN srv \ {o.g} ELSE srv
            /\ Refresh(o.k)
       ELSE UNCHANGED <<srv, key, fetch>>
    /\ UNCHANGED <<data, dataKey, first, max, search, exact, nOps, overlapped,
                   staleStart>>

Next ==
    \/ FetchServed
    \/ FetchLanded
    \/ \E f \in 0..N, m \in PerPage : SetPage(f, m)
    \/ \E t \in Terms, x \in BOOLEAN : SetSearch(t, x)
    \/ \E kind \in {"rename", "move", "create", "delete"}, g \in Groups : StartOp(kind, g)
    \/ \E o \in ops, ok \in BOOLEAN : OpDone(o, ok)

Spec == Init /\ [][Next]_vars

-----------------------------------------------------------------------------
TypeOK ==
    /\ srv \subseteq Groups
    /\ data = Undef \/ (data \in Seq(Groups) /\ IsInjective(data))
    /\ {key, dataKey} \subseteq 0..MaxOps
    /\ first \in 0..N /\ max \in PerPage
    /\ search \in Terms /\ exact \in BOOLEAN
    /\ \A o \in ops : o.g \in Groups /\ o.k \in 0..MaxOps
    /\ nOps \in 0..MaxOps

(* As long as the menu handlers went one at a time, each started on a     *)
(* tree fetched with the current key, the idle tree shows the page of     *)
(* groups the server holds: each handler's refresh refetches.             *)
SequentialOpsKeepTreeFresh ==
    ~overlapped /\ ~staleStart /\ ops = {} /\ fetch = Undef /\ data # Undef
        => data = Page(Listed(srv), first, max)

(* With the menu handlers one at a time, the idle tree shows the server's *)
(* page, also when a handler was started while the previous handler's     *)
(* refetch was in flight.                                                 *)
OneAtATimeKeepsTreeFresh ==
    ~overlapped /\ ops = {} /\ fetch = Undef /\ data # Undef
        => data = Page(Listed(srv), first, max)

(* A page shows at most max groups: the next page starts at first + max,  *)
(* so a group shown beyond that is shown on the next page again.          *)
PageHoldsAtMostMax ==
    data # Undef => Len(data) <= max

=============================================================================
