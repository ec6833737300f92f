----------------------------- MODULE CatalogBrowse -----------------------------
(***************************************************************************)
(* The menu that customers browse and its cache: CatalogService.browse,     *)
(* CatalogCacheAdapter with its generations and active keys per replica,    *)
(* and ResilientPerformanceStore, which answers from its own memory while   *)
(* Redis is unavailable and uses a namespace of its own afterwards.         *)
(*                                                                         *)
(* A menu is the number of catalog commits it shows.                        *)
(***************************************************************************)
EXTENDS Catalog

CONSTANTS
    Replicas,   \* API replicas
    Browsers,   \* browse requests that may overlap
    MaxBrowses, \* bound on browse requests
    MaxOutages  \* bound on Redis failures and on restarts of a replica

ASSUME BrowseAssumption ==
    /\ IsFiniteSet(Replicas) /\ IsFiniteSet(Browsers)
    /\ MaxBrowses \in Nat /\ MaxOutages \in Nat

VARIABLES
    edits,      \* catalog commits so far: the menu the database holds
    history,    \* every version the stores row had, with the menu of the time
    entries,    \* what the cache holds, in Redis and in the memories
    generation, \* invalidations each replica has seen
    activeKey,  \* the key each replica used last
    link,       \* how each replica uses Redis
    browsers,   \* what each browse request is doing
    browses, outages

cacheVars == <<entries, generation, activeKey, link>>
browseVars == <<catalogVars, edits, history, cacheVars, browsers, browses, outages>>

-------------------------------------------------------------------------------
NoKey == [version |-> 0, generation |-> 0, none |-> TRUE]
Keys == [version : Nat, generation : Nat, none : {FALSE}]
Places == {"shared", "own", "memory"} \X (Replicas \cup {"all"})
AtRest == [phase |-> "idle", replica |-> "none", version |-> 0, seen |-> 0, menu |-> 0]

BrowseTypeOK ==
    /\ CatalogTypeOK
    /\ edits \in Nat
    /\ history \subseteq Nat \X Nat /\ <<store.version, edits>> \in history
    /\ \A e \in entries : e.place \in Places /\ e.key \in Keys /\ e.menu \in 0..edits
    /\ generation \in [Replicas -> Nat]
    /\ activeKey \in [Replicas -> Keys \cup {NoKey}]
    /\ link \in [Replicas -> [up : BOOLEAN, renamed : BOOLEAN]]
    /\ \A b \in Browsers :
         /\ browsers[b].phase \in {"idle", "get", "list", "set", "served"}
         /\ browsers[b].phase = "idle" <=> browsers[b] = AtRest
    /\ browses \in 0..MaxBrowses /\ outages \in 0..MaxOutages

BrowseInit ==
    /\ CatalogInit
    /\ edits = 0 /\ history = {<<store.version, 0>>}
    /\ entries = {}
    /\ generation = [n \in Replicas |-> 0]
    /\ activeKey = [n \in Replicas |-> NoKey]
    /\ link = [n \in Replicas |-> [up |-> TRUE, renamed |-> FALSE]]
    /\ browsers = [b \in Browsers |-> AtRest]
    /\ browses = 0 /\ outages = 0

\* Slip: the key forgets the version.
CacheKeyOfGeneration(n, version) ==
    [version |-> 0, generation |-> generation[n], none |-> FALSE]

CacheKey(n, version) ==
    [version |-> version, generation |-> generation[n], none |-> FALSE]

Memory(n) == <<"memory", n>>
Redis(n) == IF link[n].renamed THEN <<"own", n>> ELSE <<"shared", "all">>
Holding(place, key, menu) == [place |-> place, key |-> key, menu |-> menu]

\* markUnavailable: the replica turns to its memory, and to a namespace nobody
\* has used when it comes back.
MarkUnavailable(n) ==
    /\ outages < MaxOutages
    /\ outages' = outages + 1
    /\ link' = [link EXCEPT ![n] = [up |-> FALSE, renamed |-> TRUE]]
Abandoned(n, es) == {e \in es : e.place # <<"own", n>>}

Done(es, place, gone, put) ==
    {e \in es : e.place # place \/ e.key \notin gone}
      \cup {Holding(place, p.key, p.menu) : p \in put}

\* An operation of a replica that place answers: Redis, or its memory because
\* Redis was unavailable or failed, after it had done the operation or not.
\* In its place it removes the keys gone and stores the menus put.
Answers(n, place, gone, put) ==
    \/ /\ place = IF link[n].up THEN Redis(n) ELSE Memory(n)
       /\ entries' = Done(entries, place, gone, put)
       /\ UNCHANGED <<link, outages>>
    \/ /\ link[n].up
       /\ place = Memory(n)
       /\ \E es \in {entries, Done(entries, Redis(n), gone, put)} :
            entries' = Done(Abandoned(n, es), place, gone, put)
       /\ MarkUnavailable(n)

\* health finds Redis unreachable.
ProbeFails(n) ==
    /\ link[n].up
    /\ entries' = Abandoned(n, entries)
    /\ MarkUnavailable(n)
    /\ UNCHANGED <<catalogVars, edits, history, generation, activeKey, browsers, browses>>

CooldownEnds(n) ==
    /\ ~link[n].up
    /\ link' = [link EXCEPT ![n].up = TRUE]
    /\ UNCHANGED <<catalogVars, edits, history, entries, generation, activeKey,
                   browsers, browses, outages>>

Expire(e) ==
    /\ entries' = entries \ {e}
    /\ UNCHANGED <<catalogVars, edits, history, generation, activeKey, link,
                   browsers, browses, outages>>

-------------------------------------------------------------------------------
\* A step of a request changes the menu when it commits to the catalog.
CatalogMoves(r) ==
    /\ CatalogStep(r)
    /\ edits' = IF requests'[r].phase = "committed" THEN edits + 1 ELSE edits
    /\ history' = history \cup {<<store'.version, edits'>>}
    /\ UNCHANGED <<cacheVars, browsers, browses, outages>>

\* CatalogCacheAdapter.invalidate, on the replica that serves the request: the
\* generation moves on and the key used last is deleted.
InvalidateOn(r, n) ==
    /\ Invalidate(r)
    /\ generation' = [generation EXCEPT ![n] = @ + 1]
    /\ activeKey' = [activeKey EXCEPT ![n] = NoKey]
    /\ IF activeKey[n] = NoKey THEN UNCHANGED <<entries, link, outages>>
       ELSE \E place \in {Redis(n), Memory(n)} :
              Answers(n, place, {activeKey[n]}, {})
    /\ UNCHANGED <<edits, history, browsers, browses>>

-------------------------------------------------------------------------------
(* browse.                                                                 *)

Browse(b, n) ==
    /\ browsers[b].phase = "idle"
    /\ browses < MaxBrowses
    /\ browses' = browses + 1
    /\ Orderable
    /\ browsers' = [browsers EXCEPT ![b] =
         [phase |-> "get", replica |-> n, version |-> store.version,
          seen |-> edits, menu |-> 0]]
    /\ UNCHANGED <<catalogVars, edits, history, cacheVars, outages>>

Get(b) ==
    LET n == browsers[b].replica
        key == CacheKey(n, browsers[b].version)
    IN
    /\ browsers[b].phase = "get"
    /\ \E place \in {Redis(n), Memory(n)} :
         /\ Answers(n, place, {}, {})
         /\ \/ \E e \in {x \in entries : x.place = place /\ x.key = key} :
                 /\ browsers' = [browsers EXCEPT ![b].phase = "served",
                                                 ![b].menu = e.menu]
                 /\ activeKey' = [activeKey EXCEPT ![n] = key]
            \/ /\ \A e \in entries : ~(e.place = place /\ e.key = key)
               /\ browsers' = [browsers EXCEPT ![b].phase = "list"]
               /\ UNCHANGED activeKey
    /\ UNCHANGED <<catalogVars, edits, history, generation, browses>>

\* listProductRows.
List(b) ==
    /\ browsers[b].phase = "list"
    /\ browsers' = [browsers EXCEPT ![b].phase = "set", ![b].menu = edits]
    /\ UNCHANGED <<catalogVars, edits, history, cacheVars, browses, outages>>

\* The key is built anew, for the generation of the moment.
Set(b) ==
    LET n == browsers[b].replica
        key == CacheKey(n, browsers[b].version)
        shown == [key |-> key, menu |-> browsers[b].menu]
    IN
    /\ browsers[b].phase = "set"
    /\ \E place \in {Redis(n), Memory(n)} : Answers(n, place, {key}, {shown})
    /\ activeKey' = [activeKey EXCEPT ![n] = key]
    /\ browsers' = [browsers EXCEPT ![b].phase = "served"]
    /\ UNCHANGED <<catalogVars, edits, history, generation, browses>>

Leave(b) ==
    /\ browsers[b].phase = "served"
    /\ browsers' = [browsers EXCEPT ![b] = AtRest]
    /\ UNCHANGED <<catalogVars, edits, history, cacheVars, browses, outages>>

\* The process of a replica starts afresh: generations begin again at 0, in the
\* shared namespace.
Restart(n) ==
    /\ outages < MaxOutages
    /\ outages' = outages + 1
    /\ entries' = {e \in Abandoned(n, entries) : e.place # Memory(n)}
    /\ generation' = [generation EXCEPT ![n] = 0]
    /\ activeKey' = [activeKey EXCEPT ![n] = NoKey]
    /\ link' = [link EXCEPT ![n] = [up |-> TRUE, renamed |-> FALSE]]
    /\ browsers' = [b \in Browsers |-> IF browsers[b].replica = n THEN AtRest
                                       ELSE browsers[b]]
    /\ UNCHANGED <<catalogVars, edits, history, browses>>

BrowseNext ==
    \/ Tick /\ UNCHANGED <<edits, history, cacheVars, browsers, browses, outages>>
    \/ \E r \in CatalogRequests :
         CatalogMoves(r) \/ \E n \in Replicas : InvalidateOn(r, n)
    \/ \E b \in Browsers :
         \/ \E n \in Replicas : Browse(b, n)
         \/ Get(b) \/ List(b) \/ Set(b) \/ Leave(b)
    \/ \E n \in Replicas : ProbeFails(n) \/ CooldownEnds(n) \/ Restart(n)
    \/ \E e \in entries : Expire(e)

BrowseSpec == BrowseInit /\ [][BrowseNext]_browseVars

-------------------------------------------------------------------------------
(* Properties.                                                             *)

\* Two menus had the same version: two writes of the stores row fell into one
\* millisecond, or one that had decided its version earlier came later.
Ambiguous(version) ==
    \E h, g \in history : h[1] = version /\ g[1] = version /\ h[2] # g[2]

\* A customer is never shown a menu older than the one of the stores row that
\* the request read, wherever the cache entry comes from: another replica, a
\* memory kept through an outage of Redis, a generation counted again from 0,
\* or a replica that never heard of the invalidation (the version in the key).
BrowseFresh ==
    \A b \in Browsers :
        browsers[b].phase = "served" /\ ~Ambiguous(browsers[b].version)
            => browsers[b].menu >= browsers[b].seen
=============================================================================
