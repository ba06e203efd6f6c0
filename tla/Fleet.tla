-------------------------------- MODULE Fleet ---------------------------------
(***************************************************************************)
(* The fleet tracker of internal/detector/fleet.go with its callers in     *)
(* scorer.go and scorer_network.go: the client addresses that share a      *)
(* behavioural fingerprint inside a rolling window, observed by request    *)
(* goroutines, collected by the gc goroutine and replaced by a reload that *)
(* changes the window.  Text is known by the tokens it contains; no two    *)
(* fingerprints have the same hash.                                        *)
(***************************************************************************)
EXTENDS Integers, Sequences, FiniteSets

CONSTANTS
    None,
    Addresses,       \* client addresses
    Calls,           \* request goroutines
    Shapes,          \* what a request is told by: [agent, ja4, headers, method]
    Families,        \* uaFamilies: the recognised tokens, in their order
    Reloads,         \* ip_reputation.yaml, one reload after the other: [window, maxPrints,
                     \* tiers], no tiers when disabled
    DefaultWindow,   \* 600 seconds
    DefaultPrints,   \* 20000 fingerprints
    MaxIdle,         \* FleetGC's idle time: 30 minutes
    MaxNow, MaxObserved  \* bounds: the clock, requests

VARIABLES
    now,
    rep,       \* s.ipRep.FleetRotation, by its number
    fleet,     \* s.fleet: the tracker in use
    trackers,  \* the trackers ever made: [window, maxPrints, prints]
    call,      \* what each request goroutine is doing
    collect,   \* the gc goroutine: when it read the clock, or None
    used,      \* history: every observation, in the order of the lock
    found      \* history: the last count

vars == <<now, rep, fleet, trackers, call, collect, used, found>>
-----------------------------------------------------------------------------
Least(S) == CHOOSE x \in S : \A y \in S : x <= y

\* UAFamilyFromUA: the first recognised token, or else the first two words that are
\* no numbers, in any order.
Family(agent) ==
    LET hits == {i \in DOMAIN Families : Families[i] \in agent.tokens} IN
    IF agent.tokens = {} /\ agent.words = <<>> THEN {"<empty>"}
    ELSE IF hits # {} THEN {Families[Least(hits)]}
    ELSE IF agent.words = <<>> THEN {"<unknown>"}
    ELSE {agent.words[i] : i \in DOMAIN agent.words \cap {1, 2}}

\* fleetFingerprint of what scoreFleetRotation takes from the request.
Fingerprint(shape) == <<Family(shape.agent), shape.ja4, shape.headers, shape.method>>
Prints == {Fingerprint(s) : s \in Shapes}

\* No entry, or when it was last seen and when each address was.
NoEntry == [last |-> 0, ips |-> [a \in Addresses |-> 0]]
Held(t) == {p \in DOMAIN t.prints : t.prints[p] # NoEntry}

NewFleetTracker(window, maxPrints) ==
    [window |-> IF window <= 0 THEN DefaultWindow ELSE window,
     maxPrints |-> IF maxPrints <= 0 THEN DefaultPrints ELSE maxPrints,
     prints |-> [p \in Prints |-> NoEntry]]

\* The entries last seen before the cutoff go.
Drop(t, cutoff) ==
    [t EXCEPT !.prints = [p \in DOMAIN @ |-> IF @[p].last < cutoff THEN NoEntry ELSE @[p]]]

\* Mutant: at the limit every entry goes, stale or not.
PressedAll(t, at) ==
    IF Cardinality(Held(t)) >= t.maxPrints THEN Drop(t, at + 1) ELSE t

\* At the limit, stale entries go; if none is, the map outgrows its limit.
Pressed(t, at) ==
    IF Cardinality(Held(t)) >= t.maxPrints THEN Drop(t, at - t.window) ELSE t

\* The entry after the address was seen, without its stale addresses.
Seen(entry, address, at, window) ==
    [last |-> at,
     ips |-> [a \in Addresses |->
                 IF a = address THEN at
                 ELSE IF entry.ips[a] < at - window THEN 0 ELSE entry.ips[a]]]
Counted(entry) == {a \in Addresses : entry.ips[a] # 0}
-----------------------------------------------------------------------------
(* scoreFleetRotation *)

Tiers == Reloads[rep].tiers

\* The tiers, the tracker in use and the clock are read before its lock is taken.
Ask(w) ==
    /\ call[w] = None
    /\ Len(used) + Cardinality({v \in Calls : call[v] # None}) < MaxObserved
    /\ Tiers # <<>>
    /\ \E a \in Addresses, s \in Shapes :
          call' = [call EXCEPT ![w] = [fleet |-> fleet, tiers |-> Tiers, address |-> a, print |-> Fingerprint(s), at |-> now]]
    /\ UNCHANGED <<now, rep, fleet, trackers, collect, used, found>>

\* FleetTracker.Observe; the first tier that is reached counts.
Observe(w) ==
    LET c == call[w]
        t == Pressed(trackers[c.fleet], c.at)
        e == Seen(t.prints[c.print], c.address, c.at, t.window)
        reached == {i \in DOMAIN c.tiers : Cardinality(Counted(e)) >= c.tiers[i].distinct}
    IN
    /\ c # None
    /\ trackers' = [trackers EXCEPT ![c.fleet] = [t EXCEPT !.prints[c.print] = e]]
    /\ used' = Append(used, [fleet |-> c.fleet, address |-> c.address, print |-> c.print, at |-> c.at])
    /\ found' = [fleet |-> c.fleet, print |-> c.print, at |-> c.at, now |-> now, ips |-> Counted(e),
                 points |-> IF reached = {} THEN 0 ELSE c.tiers[Least(reached)].points]
    /\ call' = [call EXCEPT ![w] = None]
    /\ UNCHANGED <<now, rep, fleet, collect>>

\* SetIPReputation: only another window makes another tracker.
SetIPReputation ==
    LET r == Reloads[rep + 1] IN
    /\ rep < Len(Reloads)
    /\ rep' = rep + 1
    /\ IF r.window > 0 /\ r.window # trackers[fleet].window
       THEN /\ trackers' = Append(trackers, NewFleetTracker(r.window, r.maxPrints))
            /\ fleet' = Len(trackers) + 1
       ELSE UNCHANGED <<trackers, fleet>>
    /\ UNCHANGED <<now, call, collect, used, found>>

\* GC reads the clock, then takes the lock.
GCAsk ==
    /\ collect = None
    /\ collect' = [fleet |-> fleet, at |-> now]
    /\ UNCHANGED <<now, rep, fleet, trackers, call, used, found>>
GC ==
    /\ collect # None
    /\ trackers' = [trackers EXCEPT ![collect.fleet] = Drop(@, collect.at - MaxIdle)]
    /\ collect' = None
    /\ UNCHANGED <<now, rep, fleet, call, used, found>>

Pass ==
    /\ now < MaxNow
    /\ now' = now + 1
    /\ UNCHANGED <<rep, fleet, trackers, call, collect, used, found>>
-----------------------------------------------------------------------------
Init ==
    /\ now = 1
    /\ rep = 1
    /\ fleet = 1
    /\ trackers = <<NewFleetTracker(0, 0)>>
    /\ call = [w \in Calls |-> None]
    /\ collect = None
    /\ used = <<>>
    /\ found = None
Next ==
    \/ \E w \in Calls : Ask(w) \/ Observe(w)
    \/ SetIPReputation \/ GCAsk \/ GC \/ Pass
Spec == Init /\ [][Next]_vars
-----------------------------------------------------------------------------
Entries == [last : 0..MaxNow, ips : [Addresses -> 0..MaxNow]]
TypeOK ==
    /\ now \in 1..MaxNow
    /\ rep \in DOMAIN Reloads
    /\ fleet \in DOMAIN trackers
    /\ \A f \in DOMAIN trackers : trackers[f].prints \in [Prints -> Entries]
    /\ \A w \in Calls : call[w] # None => call[w].fleet \in DOMAIN trackers /\ call[w].at \in 1..now
    /\ collect # None => collect.fleet \in DOMAIN trackers /\ collect.at \in 1..now
    /\ Len(used) <= MaxObserved

(* What a request is told about its fingerprint: no address is counted     *)
(* that did not show it within the window; and as long as the observations *)
(* of a tracker got its lock in the order of their clock readings, every   *)
(* address that did is counted, if the window is no longer than the idle   *)
(* time of the collection - in spite of collections, of evictions at the   *)
(* limit, of reloads that change the tiers alone and of requests that hold *)
(* the tracker a reload has replaced.  (fleet.go: "the entry's len()       *)
(* reflects the *current* rotation population".)                           *)
Mine == {i \in DOMAIN used : used[i].fleet = found.fleet}
InOrder == \A i, j \in Mine : i <= j => used[i].at <= used[j].at
Since(cutoff) ==
    {used[i].address : i \in {k \in Mine : used[k].print = found.print /\ used[k].at >= cutoff}}
FleetCounts ==
    found # None =>
        LET window == trackers[found.fleet].window IN
        /\ found.ips \subseteq Since(found.at - window)
        /\ InOrder => Since(found.now - IF window < MaxIdle THEN window ELSE MaxIdle) \subseteq found.ips
=============================================================================
