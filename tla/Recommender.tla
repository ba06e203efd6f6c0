---------------------------- MODULE Recommender ----------------------------
(* The signal recommender (internal/recommender): a cycle counts the events *)
(* of the lookback window, samples the newest of them, lets the analyzers   *)
(* group the samples by a key, keeps the groups that look like agents and   *)
(* stores them as suggested signals, in a table and in a file.  Requests    *)
(* arrive in between, every step may fail and the process may end.          *)
(*                                                                          *)
(* Nothing writes the table features_rollup (RollupUpdate has no caller),   *)
(* so the analyzer of user agent tokens finds nothing and is left out.      *)
EXTENDS Integers, Sequences, FiniteSets

CONSTANTS
    Requests,          \* [method, agent, segs, score, decision]
    Ext,               \* segment -> its extension, None
    Words, Plain,      \* sanitizeName of a word and of a prefix: the pieces between underscores
    None,
    TarpitThreshold,
    ConfNum, FalseNum, Den,    \* min_confidence and false_positive_threshold over Den
    MinSupport, MaxSuggestions, SampleLimit,
    MaxEvents, MaxCycles, MaxRefused     \* bounds

VARIABLES
    events,            \* the table events, oldest first
    first,             \* where the lookback window starts
    job,               \* the cycle of the recommender
    table,             \* signal_suggestions: name -> suggestion
    file,              \* signal_suggestions.yaml
    cycles, refused,    \* counters of the bounds
    apart              \* history: of the last batch, one of the two writes failed

vars == <<events, first, job, table, file, cycles, refused, apart>>

-----------------------------------------------------------------------------
(* The analyzers.                                                          *)

Tarpitted(e) == e.decision = "tarpit" \/ e.score >= TarpitThreshold
Clean(e) == e.score = 0

\* pathPrefixDepth: the first segments, a slash behind them.
Prefix(e, depth) == SubSeq(e.segs, 1, IF Len(e.segs) < depth THEN Len(e.segs) ELSE depth)

\* pathExt: of the last segment, also when a slash follows it.
PathExt(e) == IF e.segs = <<>> THEN None ELSE Ext[e.segs[Len(e.segs)]]

\* The analyzers: the word and the prefix they group a sample by, NoKey when they skip
\* it.
NoKey == <<None, <<>>>>
ExtensionKey(e) == <<PathExt(e), <<>>>>
PrefixKey(e) == IF e.segs = <<>> THEN NoKey ELSE <<"", Prefix(e, 2)>>
MethodKey(e) ==
    IF e.method \in {"GET", "HEAD", "OPTIONS"} \/ e.segs = <<>> THEN NoKey ELSE <<e.method, Prefix(e, 1)>>
AgentKey(e) == IF e.agent = None \/ e.segs = <<>> THEN NoKey ELSE <<e.agent, Prefix(e, 1)>>

Analyzers == {"ext", "prefix", "method", "agent"}
Key(az, e) ==
    CASE az = "ext" -> ExtensionKey(e)
      [] az = "prefix" -> PrefixKey(e)
      [] az = "method" -> MethodKey(e)
      [] az = "agent" -> AgentKey(e)

\* The name of a suggestion: what sanitizeName makes of the word and of the prefix, an
\* underscore between them.  Two keys of an analyzer may meet in one name.
Name(az, k) == <<az>> \o Words[k[1]] \o Plain[k[2]]

\* Analyze, on samples given by their rows: one candidate for each key with a count; the
\* samples that are neither tarpitted nor clean do not count.
Groups(s) == {g \in {<<p[1], Key(p[1], events[p[2]])>> : p \in Analyzers \X s} : g[2] # NoKey}
Candidate(g, s, clean) ==
    LET mine == {i \in s : Key(g[1], events[i]) = g[2]}
        bad == {i \in mine : Tarpitted(events[i])}
        good == {i \in mine : ~Tarpitted(events[i]) /\ Clean(events[i])} IN
    [az |-> g[1], key |-> g[2], support |-> Cardinality(bad), good |-> Cardinality(good),
     clean |-> IF clean > 0 THEN clean ELSE 1]

\* run: the filter of the candidates.
Accepted(c) ==
    /\ c.support + c.good > 0
    /\ c.support * Den >= ConfNum * (c.support + c.good)
    /\ c.support >= MinSupport
    /\ c.good * Den <= FalseNum * c.clean

\* run: the rank grows with confidence and support; how it weighs them is left open.
Outranks(a, b) ==
    LET ca == a.support * (b.support + b.good)
        cb == b.support * (a.support + a.good) IN
    ca >= cb /\ a.support >= b.support /\ (ca > cb \/ a.support > b.support)

\* run: the best of what passes the filter.
Best(all) ==
    LET n == IF Cardinality(all) < MaxSuggestions THEN Cardinality(all) ELSE MaxSuggestions IN
    {top \in SUBSET all : Cardinality(top) = n /\ \A a \in all \ top, b \in top : ~Outranks(a, b)}

NameOf(c) == Name(c.az, c.key)

\* A batch is written in the order of its rank: of one name the last stays.
Lasting(batch) ==
    {kept \in SUBSET batch :
        /\ \A a, b \in kept : NameOf(a) = NameOf(b) => a = b
        /\ \A a \in batch : \E b \in kept : NameOf(b) = NameOf(a)
        /\ \A a \in kept, b \in batch : NameOf(b) = NameOf(a) => ~Outranks(a, b)}

-----------------------------------------------------------------------------

Idle == [at |-> "idle", clean |-> 0, found |-> {}]

Init ==
    /\ events = <<>> /\ first = 1 /\ job = Idle
    /\ table = [n \in {} |-> None] /\ file = {}
    /\ cycles = 0 /\ refused = 0 /\ apart = FALSE

\* The lookback window: its rows.
Window == first..Len(events)

\* A request is scored and its event written.
Arrive ==
    \E e \in Requests :
        /\ Len(events) < MaxEvents /\ events' = Append(events, e)
        /\ UNCHANGED <<first, job, table, file, cycles, refused, apart>>

\* The oldest event leaves the lookback window, or the store deletes its row, which may
\* happen during a cycle too.
Age ==
    /\ first <= Len(events) /\ first' = first + 1
    /\ UNCHANGED <<events, job, table, file, cycles, refused, apart>>

\* CountEventsByDecision: events of score 0 that were tarpitted count as both.
CountClean(rows) == Cardinality({i \in rows : Clean(events[i])})
CountEventsByDecision == [clean |-> CountClean(Window),
                          bad |-> Cardinality({i \in Window : Tarpitted(events[i])})]

\* QueryPathSamples: the newest rows.
Newest(rows, hi) == {i \in rows : i > hi - SampleLimit}
QueryPathSamples == Newest(Window, Len(events))

\* run: with too few events, or when the query fails, the cycle has nothing to say.
Count ==
    /\ job.at = "idle" /\ cycles < MaxCycles /\ cycles' = cycles + 1
    /\ LET n == CountEventsByDecision IN
       \/ job' = job
       \/ n.bad + n.clean >= MinSupport /\ job' = [Idle EXCEPT !.at = "sample", !.clean = n.clean]
    /\ UNCHANGED <<events, first, table, file, refused, apart>>

\* run: the analyzers on the samples, deduplicate (no two keys have the same
\* conditions), the filter and the rank.
Analyze ==
    /\ job.at = "sample"
    /\ LET s == QueryPathSamples
           all == {c \in {Candidate(g, s, job.clean) : g \in Groups(s)} : Accepted(c)} IN
       \E top \in Best(all) :
           job' = IF top = {} THEN Idle ELSE [job EXCEPT !.at = "store", !.found = top]
    /\ UNCHANGED <<events, first, table, file, cycles, refused, apart>>

Storing(keeps) ==
    /\ job.at = "store" /\ job' = [job EXCEPT !.at = "write"] /\ apart' = FALSE
    /\ \E batch \in Lasting(job.found) :
          LET new == {NameOf(c) : c \in batch} \ keeps IN
          table' = [n \in DOMAIN table \cup new |->
                       IF n \in new THEN CHOOSE c \in batch : NameOf(c) = n ELSE table[n]]
    /\ UNCHANGED <<events, first, file, cycles, refused>>

\* Mutant: a name that is known keeps its row.
StoreNew == Storing(DOMAIN table)

\* UpsertSuggestions, one transaction; rows of other names stay.
Store == Storing({})

Fails == refused < MaxRefused /\ refused' = refused + 1

\* The transaction fails and is logged; the file is written all the same.
StoreFails ==
    /\ job.at = "store" /\ Fails /\ job' = [job EXCEPT !.at = "write"] /\ apart' = TRUE
    /\ UNCHANGED <<events, first, table, file, cycles>>

\* WriteSuggestions: a file of its own, renamed.
WriteSuggestions ==
    /\ job.at = "write" /\ file' = job.found /\ job' = Idle
    /\ UNCHANGED <<events, first, table, cycles, refused, apart>>

\* The query of the samples fails, the file cannot be made, written or renamed, or the
\* process ends and starts again: the cycle is over.
CycleEnds ==
    /\ job.at # "idle" /\ Fails /\ job' = Idle /\ apart' = (apart \/ job.at = "write")
    /\ UNCHANGED <<events, first, table, file, cycles>>

Next ==
    \/ Arrive \/ Age
    \/ Count \/ Analyze \/ Store \/ StoreFails \/ WriteSuggestions \/ CycleEnds

Spec == Init /\ [][Next]_vars

-----------------------------------------------------------------------------
(* Properties.                                                             *)

Suggestion ==
    [az : Analyzers, key : {Key(p[1], p[2]) : p \in Analyzers \X Requests},
     support : Nat, good : Nat, clean : Nat \ {0}]

\* The type of the state.
TypeOK ==
    /\ events \in Seq(Requests) /\ first \in 1..Len(events) + 1
    /\ job.at \in {"idle", "sample", "store", "write"} /\ job.found \subseteq Suggestion
    /\ \A n \in DOMAIN table : table[n] \in Suggestion
    /\ file \subseteq Suggestion /\ apart \in BOOLEAN

\* What is suggested is backed by rows of the table: its counts are those of its key among
\* the newest of lo..hi, the clean total that of from..mid, the window of a moment before.
Backed(c) ==
    \E lo \in 1..Len(events) + 1, hi \in 0..Len(events) :
        \E from \in 1..lo, mid \in 0..hi :
            c = Candidate(<<c.az, c.key>>, Newest(lo..hi, hi), CountClean(from..mid))

\* store.go:1158 "Each recommendation is keyed by name": whatever fails and whatever arrives
\* during a cycle, each row stands under the name of its finding, what the table and the
\* file suggest passed the filter with counts over a window of the rows,
\* and unless one of the two writes of the last batch failed each finding of the file is
\* served: by itself, or by one of the same name and batch that does not outrank it.
SuggestionsAreBacked ==
    /\ \A n \in DOMAIN table : NameOf(table[n]) = n /\ Accepted(table[n]) /\ Backed(table[n])
    /\ \A c \in file : Accepted(c) /\ Backed(c)
    /\ job.at # "write" /\ ~apart =>
          \A c \in file : /\ NameOf(c) \in DOMAIN table /\ table[NameOf(c)] \in file
                         /\ ~Outranks(table[NameOf(c)], c)
=============================================================================
