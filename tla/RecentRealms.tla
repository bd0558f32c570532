---------------------------- MODULE RecentRealms ----------------------------
(***************************************************************************)
(* The recently used realms of the admin console                           *)
(* (src/js/apps/admin-ui/src/context/RecentRealms.tsx).  The names are     *)
(* kept in localStorage under "recentRealms", so they outlive a reload of  *)
(* the page; the list shown is the stored one without the realms that no   *)
(* longer exist, and each change of the current realm rewrites the store   *)
(* with that realm first, without duplicates, cut to MAX_REALMS.           *)
(*                                                                         *)
(* The realm list of RealmsContext is empty until it has been fetched, and *)
(* is refetched (after a realm is created or deleted) as a whole.          *)
(***************************************************************************)
EXTENDS Naturals, SequencesExt

CONSTANTS
    Names,        \* realm names
    NameOrder,    \* the order the server lists realms in
    MAX_REALMS,   \* RecentRealms.tsx line 12
    Undef         \* nothing stored under "recentRealms" yet

VARIABLES
    exists,       \* the realms the server has
    realms,       \* RealmsContext's realm names in server order, <<>> before the fetch
    realm,        \* the current realm (from the route), Undef before a page load
    stored        \* localStorage "recentRealms": a sequence of names, or Undef

vars == <<exists, realms, realm, stored>>

(***************************************************************************)
(* filterRealmNames (lines 47-56): with no realms fetched nothing can be    *)
(* filtered out; otherwise keep the names that still exist.                *)
(***************************************************************************)
\* Mutant: the filter walks the realm list instead of the stored names.
FilterInRealmsOrder(rs, realmNames) ==
    IF rs = <<>> THEN realmNames
    ELSE SelectSeq(rs, LAMBDA r : r \in ToSet(realmNames))

filterRealmNames(rs, realmNames) ==
    IF rs = <<>> THEN realmNames
    ELSE SelectSeq(realmNames, LAMBDA r : r \in ToSet(rs))

\* [...new Set(s)]: the first occurrence of each name, in order.
Dedup(s) == FoldLeft(LAMBDA acc, x : IF x \in ToSet(acc) THEN acc ELSE Append(acc, x),
                     <<>>, s)

\* Mutant: the slice keeps one name too many.
SliceOffByOne(s) == SubSeq(s, 1, IF Len(s) <= MAX_REALMS THEN Len(s) ELSE MAX_REALMS + 1)

\* newRealms.slice(0, MAX_REALMS).
Slice(s) == SubSeq(s, 1, IF Len(s) < MAX_REALMS THEN Len(s) ELSE MAX_REALMS)

\* useStoredState's value: the stored one, or the default [realm].
storedRealms == IF stored = Undef THEN <<realm>> ELSE stored

\* The memoised recentRealms of a render (lines 28-31).
recentRealms == filterRealmNames(realms, storedRealms)

(***************************************************************************)
(* The effect of lines 33-36, run after a render in which realm changed:   *)
(* the current realm first, then the recent ones, deduplicated and cut.    *)
(***************************************************************************)
Remember(r, recent) == stored' = Slice(Dedup(<<r>> \o recent))

Init ==
    /\ exists \in (SUBSET Names) \ {{}}
    /\ realms = <<>>
    /\ realm = Undef
    /\ stored \in {Undef} \cup
                  {s \in BoundedSeq(Names, MAX_REALMS) : IsInjective(s)}

(***************************************************************************)
(* A page load at realm r: RecentRealmsProvider mounts with the realms not *)
(* fetched yet, reads localStorage, and runs its effect.  A reload is the  *)
(* same step from any state: only the store survives it.                   *)
(***************************************************************************)
PageLoad(r) ==
    /\ realms' = <<>>
    /\ realm' = r
    /\ Remember(r, filterRealmNames(<<>>, IF stored = Undef THEN <<r>> ELSE stored))
    /\ UNCHANGED exists

\* RealmsContext's fetch of the realm list settles.
RealmsFetched ==
    /\ realm # Undef
    /\ realms' = SelectSeq(NameOrder, LAMBDA x : x \in exists)
    /\ UNCHANGED <<exists, realm, stored>>

\* The user switches to another realm (the realm selector, a link).
SwitchRealm(r) ==
    /\ realm # Undef
    /\ r \in ToSet(realms)
    /\ r # realm
    /\ realm' = r
    /\ Remember(r, recentRealms)
    /\ UNCHANGED <<exists, realms>>

\* A realm is created or deleted on the server (here or by another admin).
CreateRealm(r) ==
    /\ r \notin exists
    /\ exists' = exists \cup {r}
    /\ UNCHANGED <<realms, realm, stored>>

DeleteRealm(r) ==
    /\ r \in exists
    /\ r # realm
    /\ exists' = exists \ {r}
    /\ UNCHANGED <<realms, realm, stored>>

Next ==
    \/ \E r \in Names : PageLoad(r)
    \/ RealmsFetched
    \/ \E r \in Names : SwitchRealm(r)
    \/ \E r \in Names : CreateRealm(r)
    \/ \E r \in Names : DeleteRealm(r)

Spec == Init /\ [][Next]_vars

-----------------------------------------------------------------------------
(* The store is a list of at most MAX_REALMS distinct names; after a page   *)
(* load or a realm switch it begins with the current realm (the list the   *)
(* effect of lines 33-36 writes).                                          *)
TypeOK ==
    /\ exists \in SUBSET Names
    /\ realms \in Seq(Names)
    /\ realm \in Names \cup {Undef}
    /\ stored = Undef \/ (stored \in BoundedSeq(Names, MAX_REALMS) /\ IsInjective(stored))
    /\ realm # Undef => stored # Undef /\ stored[1] = realm

(* Switching realm keeps the other recent realms in their order of use:    *)
(* apart from the new current realm, the new store is a prefix of the old  *)
(* one without the realms the fetched list lacks (most recent first, the   *)
(* oldest dropped at the cut).                                             *)
SwitchKeepsRecencyStep ==
    \A r \in Names : SwitchRealm(r) =>
        IsPrefix(SelectSeq(stored', LAMBDA x : x # r),
                 SelectSeq(storedRealms, LAMBDA x : x # r /\ x \in ToSet(realms)))

SwitchKeepsRecency == [][SwitchKeepsRecencyStep]_vars

=============================================================================
