------------------------------ MODULE EventBus ------------------------------
(* The metrics, reported twice (internal/telemetry): counted for the scrape *)
(* where things happen, and sent as events over a bounded channel, which    *)
(* drops them when it is full, to the sink that pushes to OpenTelemetry.    *)
(* Every half minute the gauges turn the counters that grew into an event.  *)
(* A metric is an element of Counters or "requests".                        *)
EXTENDS Integers, Sequences, FiniteSets, SequencesExt

CONSTANTS
    BufSize,           \* of the channel
    Counters,          \* bridged by the gauges: drops of the store, evictions, candidates
    Polled,            \* those that are scraped as the gauges see them: the drops
    MaxCount, MaxTicks, MaxRequests     \* bounds

VARIABLES
    ch,                \* the channel
    count,             \* the counters where they are counted
    last,              \* the gauges: what the last tick saw
    prometheus,        \* what is scraped
    pushed,            \* what the sink was given
    half,              \* counters of the scrape whose count for the gauges is a step behind
    open,              \* requests that were counted and have not ended
    ticks, requests,   \* counters of the bounds
    lost,              \* history: the counts of dropped events
    silent             \* history: requests that ended without an event

vars == <<ch, count, last, prometheus, pushed, half, open, ticks, requests, lost, silent>>

Kinds == Counters \cup {"requests"}
Zeros == [c \in Kinds |-> 0]
One(k) == [Zeros EXCEPT ![k] = 1]
Plus(a, b) == [c \in Kinds |-> a[c] + b[c]]

Init ==
    /\ ch = <<>> /\ count = Zeros /\ last = Zeros /\ prometheus = Zeros /\ pushed = Zeros
    /\ half = {} /\ open = 0 /\ ticks = 0 /\ requests = 0 /\ lost = Zeros /\ silent = 0

\* An eviction or a candidate is counted for the scrape first,
Scrape ==
    \E c \in Counters \ (Polled \cup half) :
        /\ count[c] < MaxCount /\ half' = half \cup {c} /\ prometheus' = Plus(prometheus, One(c))
        /\ UNCHANGED <<ch, count, last, pushed, open, ticks, requests, lost, silent>>

\* and then for the gauges; a drop of the store is counted for these alone.
Grow ==
    \E c \in Polled \cup half :
        /\ count[c] < MaxCount /\ count' = [count EXCEPT ![c] = @ + 1] /\ half' = half \ {c}
        /\ UNCHANGED <<ch, last, prometheus, pushed, open, ticks, requests, lost, silent>>

\* Emit: an event is what it adds to the counts.
Emit(e) ==
    \/ Len(ch) < BufSize /\ ch' = Append(ch, e) /\ UNCHANGED lost
    \/ Len(ch) >= BufSize /\ lost' = Plus(lost, e) /\ UNCHANGED ch

\* serve counts a request once it is scored and decided.
Request ==
    /\ requests < MaxRequests /\ requests' = requests + 1 /\ open' = open + 1
    /\ prometheus' = Plus(prometheus, One("requests"))
    /\ UNCHANGED <<ch, count, last, pushed, ticks, lost, silent, half>>

\* It ends with an event,
Served ==
    /\ open > 0 /\ open' = open - 1 /\ Emit(One("requests"))
    /\ UNCHANGED <<count, last, prometheus, pushed, ticks, requests, silent, half>>

\* or without one: upgrades, gRPC, and handlers that panic.
ServedSilently ==
    /\ open > 0 /\ open' = open - 1 /\ silent' = silent + 1
    /\ UNCHANGED <<ch, count, last, prometheus, pushed, ticks, requests, lost, half>>

Grown == [c \in Kinds |-> IF c \in Counters THEN count[c] - last[c] ELSE 0]
Seen == [c \in Kinds |-> IF c \in Polled THEN Grown[c] ELSE 0]
Ticking ==
    /\ ticks < MaxTicks /\ ticks' = ticks + 1
    /\ prometheus' = Plus(prometheus, Seen) /\ Emit(Grown)
    /\ UNCHANGED <<count, pushed, open, requests, silent, half>>

\* Mutant: the next tick sees the same growth again.
TickAgain == Ticking /\ UNCHANGED last

\* The gauges: what grew since the last tick, whether or not the event gets through.
Tick == Ticking /\ last' = Plus(last, Grown)

\* OnEvent: what the sink adds to its instruments.
OnEvent(e) == Plus(pushed, e)

\* drain: the oldest event goes to the sink.
Drain ==
    /\ ch # <<>> /\ ch' = Tail(ch) /\ pushed' = OnEvent(Head(ch))
    /\ UNCHANGED <<count, last, prometheus, open, ticks, requests, lost, silent, half>>

Next == Scrape \/ Grow \/ Request \/ Served \/ ServedSilently \/ Tick \/ Drain

Spec == Init /\ [][Next]_vars

-----------------------------------------------------------------------------
(* Properties.                                                             *)

\* The type of the state.
TypeOK ==
    /\ ch \in Seq([Kinds -> Nat]) /\ Len(ch) <= BufSize /\ open \in Nat /\ silent \in Nat
    /\ half \subseteq Counters \ Polled
    /\ \A v \in {count, last, prometheus, pushed, lost} : v \in [Kinds -> Nat]

Reported == Plus(Plus(FoldLeft(Plus, Zeros, ch), pushed), lost)

\* bus.go:78 "Bridged from package-level atomics so OTelSink gets parity with
\* Prometheus": the two reports of a counter differ by what the next tick will see, by
\* what is in the channel and by what was dropped with the events that found it full,
\* those of the requests by the open and the silent ones besides, and the scrape is at
\* most one count ahead of the gauges; no count is
\* reported that was not counted, and none twice.
ReportsAddUp ==
    /\ prometheus["requests"] = Reported["requests"] + open + silent
    /\ \A c \in Counters :
          /\ count[c] = Reported[c] + Grown[c]
          /\ prometheus[c] = IF c \in Polled THEN Reported[c] ELSE count[c] + IF c \in half THEN 1 ELSE 0
=============================================================================
