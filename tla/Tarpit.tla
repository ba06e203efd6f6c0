------------------------------- MODULE Tarpit -------------------------------
(* The tarpit (internal/tarpit): a visit gets the invented application of  *)
(* its address, and an answer that is rendered once and then repeated from *)
(* a cache.  What a body says is left out: every rendering is a body of its*)
(* own.                                                                    *)
EXTENDS Naturals, FiniteSets

CONSTANTS
    Visitors,      \* the goroutines that serve visits
    Addresses,     \* the remote addresses of connections
    Paths,
    None,
    CacheTTL,      \* tarpit.response_cache_ttl_minutes
    MaxSize,       \* tarpit.response_cache_max_size
    MaxBodies,     \* bound: renderings
    MaxReloads,    \* bound: reloads of the fake data
    MaxTime        \* bound: the clock

VARIABLES
    clock, data,   \* the clock; the version of the fake data
    bodies,        \* renderings so far
    profiles,      \* ProfileStore: the version an identity was drawn from
    cache,         \* ResponseCache
    visit,         \* the visits
    settled,       \* history: the answer everybody should get now
    shown,         \* history: the identities shown to an address
    raced          \* history: addresses whose first visits overlapped

vars == <<clock, data, bodies, profiles, cache, visit, settled, shown, raced>>

Keys == Addresses \X Paths
Versions == 0..(MaxReloads + 1)
Entry == [body : 1..MaxBodies, until : 0..(MaxTime + CacheTTL)]
Visit == [at : {"idle", "create", "enter", "set", "serve"}, key : Keys,
          identity : Versions, body : 0..MaxBodies, want : 0..MaxBodies]
NoVisit == [at |-> "idle", key |-> CHOOSE k \in Keys : TRUE, identity |-> 0, body |-> 0, want |-> 0]

Init ==
    /\ clock = 1 /\ data = 1 /\ bodies = 0
    /\ profiles = [x \in Addresses |-> 0]
    /\ cache = [k \in Keys |-> None]
    /\ visit = [v \in Visitors |-> NoVisit]
    /\ settled = [k \in Keys |-> None]
    /\ shown = [x \in Addresses |-> {}] /\ raced = {}

-----------------------------------------------------------------------------

\* ProfileStore.Get: the identity of the address, or one that is drawn from the
\* fake data before the lock is taken.
Arrive(v) ==
    /\ visit[v].at = "idle"
    /\ \E k \in Keys :
          visit' = [visit EXCEPT ![v] =
              [NoVisit EXCEPT !.at = IF profiles[k[1]] = 0 THEN "create" ELSE "enter", !.key = k,
                              !.identity = IF profiles[k[1]] = 0 THEN data ELSE profiles[k[1]]]]
    /\ UNCHANGED <<clock, data, bodies, profiles, cache, settled, shown, raced>>

\* create stores what it drew, and does not look again.
Create(v) ==
    /\ visit[v].at = "create"
    /\ LET x == visit[v].key[1] IN
       /\ profiles' = [profiles EXCEPT ![x] = visit[v].identity]
       /\ raced' = IF profiles[x] # 0 THEN raced \cup {x} ELSE raced
    /\ visit' = [visit EXCEPT ![v].at = "enter"]
    /\ UNCHANGED <<clock, data, bodies, cache, settled, shown>>

Live(k) == cache[k] # None /\ clock <= cache[k].until
Used == {k \in Keys : cache[k] # None}

\* What is settled for a page now, 0 when nothing is.
Expected(k) == IF settled[k] # None /\ clock <= settled[k].until THEN settled[k].body ELSE 0

\* ServeHTTP after the delay: the cached answer, or one that is rendered from the
\* identity, injected into and cut.
Answer(v) ==
    LET k == visit[v].key IN
    /\ visit[v].at = "enter"
    /\ \/ /\ Live(k)
          /\ visit' = [visit EXCEPT ![v].at = "serve", ![v].body = cache[k].body, ![v].want = Expected(k)]
          /\ UNCHANGED bodies
       \/ /\ ~Live(k) /\ bodies < MaxBodies
          /\ bodies' = bodies + 1
          /\ visit' = [visit EXCEPT ![v].at = "set", ![v].body = bodies + 1, ![v].want = Expected(k)]
    /\ UNCHANGED <<clock, data, profiles, cache, settled, shown, raced>>

\* What an answer to store replaces, and what is settled by it: an answer that others
\* are about to replace settles nothing.
Stored(v, entry) ==
    LET k == visit[v].key
        others == {u \in Visitors \ {v} : visit[u].at = "set" /\ visit[u].key = k} IN
    /\ settled' = [settled EXCEPT ![k] = IF others # {} \/ cache'[k] # entry THEN None ELSE entry]
    /\ visit' = [visit EXCEPT ![v].at = "serve"]
    /\ UNCHANGED <<clock, data, bodies, profiles, shown, raced>>

\* Mutant: a full cache gives up an entry that is still live.
SetEvictsLive(v) ==
    LET k == visit[v].key
        entry == [body |-> visit[v].body, until |-> clock + CacheTTL]
        room == cache[k] # None \/ Cardinality(Used) < MaxSize IN
    /\ visit[v].at = "set"
    /\ \/ room /\ cache' = [cache EXCEPT ![k] = entry]
       \/ /\ ~room
          /\ \E old \in Used : cache' = [cache EXCEPT ![old] = None, ![k] = entry]
    /\ Stored(v, entry)

\* Mutant: what finds no room is stored all the same.
SetEvictsNothing(v) ==
    LET entry == [body |-> visit[v].body, until |-> clock + CacheTTL] IN
    /\ visit[v].at = "set"
    /\ cache' = [cache EXCEPT ![visit[v].key] = entry]
    /\ Stored(v, entry)

\* ResponseCache.Set: at capacity one expired entry makes room, or the answer is
\* not stored.  An answer that another visit stored meanwhile is overwritten.
Set(v) ==
    LET k == visit[v].key
        entry == [body |-> visit[v].body, until |-> clock + CacheTTL]
        room == cache[k] # None \/ Cardinality(Used) < MaxSize IN
    /\ visit[v].at = "set"
    /\ \/ room /\ cache' = [cache EXCEPT ![k] = entry]
       \/ /\ ~room
          /\ \E old \in Used : ~Live(old) /\ cache' = [cache EXCEPT ![old] = None, ![k] = entry]
       \/ ~room /\ (\A old \in Used : Live(old)) /\ UNCHANGED cache
    /\ Stored(v, entry)

\* The answer goes out.
Write(v) ==
    /\ visit[v].at = "serve"
    /\ visit' = [visit EXCEPT ![v] = NoVisit]
    /\ shown' = [shown EXCEPT ![visit[v].key[1]] = @ \cup {visit[v].identity}]
    /\ UNCHANGED <<clock, data, bodies, profiles, cache, settled, raced>>

\* The holder of the fake data gets another pool.
ReloadData ==
    /\ data <= MaxReloads /\ data' = data + 1
    /\ UNCHANGED <<clock, bodies, profiles, cache, visit, settled, shown, raced>>

Pass ==
    /\ clock < MaxTime /\ clock' = clock + 1
    /\ UNCHANGED <<data, bodies, profiles, cache, visit, settled, shown, raced>>

Next ==
    \/ \E v \in Visitors : Arrive(v) \/ Create(v) \/ Answer(v) \/ Set(v) \/ Write(v)
    \/ ReloadData \/ Pass

Spec == Init /\ [][Next]_vars

-----------------------------------------------------------------------------
(* Properties.                                                             *)

\* The type of the state; the cache holds no more than its size.
TypeOK ==
    /\ clock \in 1..MaxTime /\ data \in Versions /\ bodies \in 0..MaxBodies
    /\ profiles \in [Addresses -> Versions]
    /\ cache \in [Keys -> Entry \cup {None}] /\ Cardinality(Used) <= MaxSize
    /\ visit \in [Visitors -> Visit]
    /\ settled \in [Keys -> Entry \cup {None}] /\ shown \in [Addresses -> SUBSET Versions]
    /\ raced \subseteq Addresses

\* response_cache.go:9 "Every subsequent visit from that same IP sees identical
\* bytes": once an answer is stored and nobody else is rendering that page, a visit
\* gets this answer until it expires; and profile.go:14 "Every request from that
\* client sees a consistent fake reality": unless its first visits overlapped, an
\* address is shown one identity, whatever is reloaded.
SameAnswer ==
    /\ \A v \in Visitors : visit[v].at = "serve" /\ visit[v].want # 0 => visit[v].body = visit[v].want
    /\ \A x \in Addresses \ raced : Cardinality(shown[x]) <= 1
=============================================================================
