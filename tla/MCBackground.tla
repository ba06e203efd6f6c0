--------------------------- MODULE MCBackground ---------------------------
(* The scorer with its fleet tracker and its forest, and what the process  *)
(* does on its own clock: it learns and mines rules, recommends            *)
(* signals, keeps a capture, pushes metrics and trims its database.  These *)
(* parts share no state; a behaviour of this module is one of any of them, *)
(* so that the run explores the sum of their states and not the product.   *)
(* Module Retention is extended and the others are instances.              *)
EXTENDS Retention, Sequences, TLC

CONSTANTS
    None, Community, MaxBayesEntries, SampleSize, PostNum, PostDen, AutoNum, SeedAgents,
    MaxUpdates, MaxReloads, MaxEdits, MaxTicks, MaxRestarts, MaxErrors,
    TarpitThreshold, ConfNum, FalseNum, Den, MaxSuggestions, SampleLimit,
    MaxEvents, MaxCycles, MaxRefused,
    MaxBytes, MaxLine, Retention, MaxLines, MaxTime, MaxFailures,
    BufSize, Counters, Polled, MaxCount, MaxRequests,
    Clients, Trusted, Servers, FleetPoints, LearnedPoints, HoneypotPaths, ChallengeAt, TarpitAt,
    HistoryWindow, MaxHistory, RepeatWindow, ToolMin, HmmMin, GraphMin, CookieMin, FanoutMin,
    Moment, MaxClock, MaxScored,
    Addresses, Calls, DefaultWindow, DefaultPrints, MaxIdle, MaxNow, MaxObserved,
    Width, MinRows, MaxFits, MaxStarts, Numerics, Settings,
    Pairs, Vectors, MinMined, Requests, Ext, Words, Plain, MinSuggested, Shapes, Families, Reloads,
    Facts, Detectors, Lower, Registry, Reputation, CanaryOwner, Rotation, FanoutTiers, BundleTiers

VARIABLES
    part,
    model, yaml, rows, tick, bounds, kept, demoted, mined,
    events, first, job, table, file, cycles, refused, apart,
    live, liveAt, rotated, rotatedAt, f, written, sweep, now, offered, failures, restarts, uncounted, muted,
    ch, count, last, prometheus, pushed, half, open, ticks, requests, lost, silent,
    clock, detector, clients, serve, scored,
    hour, rep, fleet, trackers, call, collect, used, found,
    conf, cap, recent, observed, refitting, fits, forest, answer, fitted

MCPairs == {<<"ua", "x">>, <<"ua", "y">>, <<"path", "z">>}
MCVectors == {<<<<"ua", "x">>, <<"path", "z">>>>, <<<<"ua", "y">>, <<"ua", "y">>>>}

Req(m, segs, score, decision) ==
    [method |-> m, agent |-> "bot", segs |-> segs, score |-> score, decision |-> decision]
MCRequests ==
    {Req("POST", <<"a-b">>, 9, "pass"), Req("GET", <<"a", "b", "x.php">>, 0, "tarpit"),
     Req("GET", <<"a-b", "x.php">>, 0, "pass")}
MCExt == [s \in {"a", "a-b", "b", "x.php"} |-> IF s = "x.php" THEN "php" ELSE None]
MCWords == [w \in {"", "php", "POST", "bot"} |-> IF w = "" THEN <<>> ELSE <<w>>]
MCPlain == [p \in {<<>>, <<"a">>, <<"a-b">>, <<"a", "b">>, <<"a-b", "x.php">>} |->
             IF p \in {<<"a-b">>, <<"a", "b">>} THEN <<"a", "b">>
             ELSE IF p = <<"a-b", "x.php">> THEN <<"a", "b", "x", "php">> ELSE p]

MCClientOf == [r \in 1..MaxRows |-> r % 2]

Base == [url |-> "/", api |-> FALSE, path |-> {}, query |-> {}, body |-> {}, host |-> {}, method |-> "GET", agent |-> {"curl"},
         headers |-> {}, encodings |-> {}, values |-> [h \in {} |-> {}], h3mismatch |-> FALSE, tls |-> None, h2 |-> None,
         triple |-> FALSE, doubled |-> 0, conditions |-> {}, carried |-> <<>>, route |-> "known", dest |-> None, script |-> FALSE, status |-> 200, sets |-> TRUE]
MCFacts ==
  ("login" :> [Base EXCEPT !.url = "/admin/login", !.path = {"admin", "login"}, !.carried = <<"t">>, !.tls = [category |-> "bot", confidence |-> 90], !.route = "unknown", !.status = 404]) @@
  ("shell" :> [Base EXCEPT !.url = "/x", !.query = {"union"}, !.conditions = {"x"}, !.triple = TRUE]) @@
  ("page" :> [Base EXCEPT !.url = "/openapi", !.path = {"openapi", "robots"}, !.api = TRUE, !.agent = {"chrome/"}, !.dest = "document", !.script = TRUE,
         !.headers = {"Accept-Encoding", "If-None-Match", "Cookie", "Sec-Fetch-Site", "Referer"}, !.encodings = {"br"}])
OneTier(l, p) == <<[least |-> l, points |-> p]>>
Rules(probe, w) == [hints |-> {"Accept-Language"}, headerTiers |-> OneTier(1, 2), emptyPoints |-> 5, suspicious |-> [tokens |-> {"curl"}, points |-> 3],
  wordlist |-> [tokens |-> {"admin"}, points |-> 2], injection |-> [tokens |-> {"union"}, points |-> 4, headers |-> {}],
  oob |-> [tokens |-> {"oast"}, points |-> 4], encoding |-> [triple |-> 3, multi |-> 2, single |-> 1],
  timing |-> [min |-> 3, minMean |-> 1, maxMean |-> 8, strict |-> [cv |-> 20, points |-> 3], loose |-> [cv |-> 40, points |-> 2]],
  markers |-> [recon |-> {"robots"}, probe |-> {probe}, exploit |-> {"union"}], toolPoints |-> [full |-> 6, partial |-> 3],
  pathTiers |-> OneTier(3, 2), schema |-> [limit |-> 2, tokens |-> {"openapi"}, points |-> 4],
  cache |-> [min |-> 2, window |-> w, tiers |-> OneTier(2, 3)],
  auth |-> [min |-> 1, window |-> 0, tiers |-> OneTier(1, 4), patterns |-> <<[token |-> "login", exclude |-> "logout", label |-> "login"]>>],
  mutation |-> [min |-> 2, tiers |-> OneTier(1, 2)], cookie |-> [min |-> 2, points |-> 2]]
MCDetectors == <<Rules("admin", 0), Rules("Admin", 1)>>
MCLower == [robots |-> "robots", admin |-> "admin", Admin |-> "admin", union |-> "union"]
MCRegistry == [entries |-> [schema_first |-> [enabled |-> FALSE, points |-> 0], cache_miss_anomaly |-> [enabled |-> TRUE, points |-> 9]], custom |-> {[name |-> "mine", enabled |-> TRUE, points |-> 7, conditions |-> {"x"}]}]
MCReputation == [c \in Clients |-> 1]
MCCanaryOwner == [t |-> 9]
MCRotation == [least |-> 2, points |-> 2]
MCFanoutTiers == OneTier(2, 6)
MCBundleTiers == OneTier(2, 7)

OneShape(tokens, words) ==
    [agent |-> [tokens |-> tokens, words |-> words], ja4 |-> "", headers |-> {}, method |-> "GET"]
MCShapes == {OneShape({"bot"}, <<"bot", "x">>), OneShape({}, <<"a", "b">>), OneShape({}, <<"b", "a", "c">>)}
MCFamilies == <<"curl", "bot">>
FleetTiers(n) == <<[distinct |-> n, points |-> 9], [distinct |-> 1, points |-> 3]>>
MCReloads == <<[window |-> 0, maxPrints |-> 1, tiers |-> FleetTiers(2)],
             [window |-> 2, maxPrints |-> 1, tiers |-> FleetTiers(1)]>>

MLSettings(on, every, sample, depth) ==
    [enabled |-> on, every |-> every, burnIn |-> 1, most |-> 2, sample |-> sample, depth |-> depth]
MCNumerics == {<<1, 1>>, <<1, 2>>, <<2, 1>>}
MCSettings == <<MLSettings(TRUE, 2, 2, 1), MLSettings(FALSE, 3, 3, 2), MLSettings(TRUE, 3, 3, 2)>>

learning == <<model, yaml, rows, tick, bounds, kept, demoted, mined>>
recommending == <<events, first, job, table, file, cycles, refused, apart>>
capturing == <<live, liveAt, rotated, rotatedAt, f, written, sweep, now, offered, failures, restarts, uncounted, muted>>
pushing == <<ch, count, last, prometheus, pushed, half, open, ticks, requests, lost, silent>>
scoring == <<clock, detector, clients, serve, scored>>
rotating == <<hour, rep, fleet, trackers, call, collect, used, found>>

growing == <<conf, cap, recent, observed, refitting, fits, forest, answer, fitted>>

Learn == INSTANCE Learning WITH MinSupport <- MinMined
Recommend == INSTANCE Recommender WITH MinSupport <- MinSuggested
Keep == INSTANCE Capture
Push == INSTANCE EventBus
Rate == INSTANCE Scoring
Crowd == INSTANCE Fleet WITH now <- hour
Grow == INSTANCE Forest WITH count <- fitted, MaxTicks <- MaxFits, MaxRestarts <- MaxStarts

\* What the proofs assume of the constants.
ASSUME BusAssumption == Polled \subseteq Counters /\ "requests" \notin Counters /\ BufSize \in Nat
ASSUME CaptureAssumption ==
    {MaxBytes, MaxLine} \subseteq Nat \ {0} /\ Retention \in Nat /\ {MaxLines, MaxTime} \subseteq Nat /\ None \notin Nat
ASSUME RecommenderAssumption == SampleLimit \in Nat
ASSUME LearningAssumption ==
    /\ IsFiniteSet(Pairs) /\ Community \subseteq Pairs /\ Vectors \subseteq Seq(Pairs)
    /\ MaxBayesEntries \in Nat /\ SampleSize \in Nat \ {0} /\ SeedAgents \in Nat
\* Of the scorer's rules: no tier is empty or without points, schema_first has points (the
\* code has defaults for these), and no custom signal takes one of their names.
ASSUME ScoringAssumption ==
    /\ {HistoryWindow, MaxHistory} \subseteq Nat \ {0} /\ {ToolMin, HmmMin} \subseteq Nat /\ ToolMin <= HmmMin
    /\ None \notin {"recon", "probe", "exploit"}
    /\ DOMAIN Detectors = 1..Len(Detectors) /\ Len(Detectors) \in Nat \ {0}
    /\ \A i \in DOMAIN Detectors :
          LET d == Detectors[i] IN
          /\ DOMAIN d.markers = {"recon", "probe", "exploit"}
          /\ {d.cache.min, d.auth.min} \subseteq Nat
          /\ {d.toolPoints.full, d.toolPoints.partial} \subseteq Int /\ d.schema.points \in Nat \ {0}
          /\ {d.cache.tiers, d.auth.tiers, d.mutation.tiers} \subseteq
                 Seq([least : Nat, points : Nat \ {0}]) \ {<<>>}
    /\ \A c \in Registry.custom : c.name \notin
          {"toolchain_hmm", "toolchain_hmm_partial", "toolchain_full", "toolchain_partial",
           "cache_miss_anomaly", "auth_probe_sequence", "schema_first", "header_mutation"}
\* Points and bounds are numbers.
ASSUME PointsAssumption ==
    /\ MaxClock \in Nat \ {0} /\ MaxScored \in Nat
    /\ IsFiniteSet(Registry.custom) /\ \A c \in Registry.custom : c.points \in Int
    /\ \A n \in DOMAIN Registry.entries : Registry.entries[n].points \in Int
    /\ FleetPoints \cup LearnedPoints \cup {Rotation.points} \subseteq Int /\ \A c \in Clients : Reputation[c] \in Int
    /\ {FanoutTiers, BundleTiers} \subseteq Seq([least : Int, points : Int])
    /\ \A i \in DOMAIN Detectors :
          LET d == Detectors[i] IN
          /\ {d.emptyPoints, d.suspicious.points, d.wordlist.points, d.injection.points, d.oob.points,
              d.encoding.triple, d.encoding.multi, d.encoding.single,
              d.timing.strict.points, d.timing.loose.points, d.cookie.points} \subseteq Int
          /\ {d.headerTiers, d.pathTiers} \subseteq Seq([least : Int, points : Int])
ASSUME FleetAssumption ==
    /\ {MaxIdle, DefaultWindow, DefaultPrints} \subseteq Nat
    /\ Len(Reloads) \in Nat \ {0} /\ DOMAIN Reloads = 1..Len(Reloads)
    /\ \A i \in DOMAIN Reloads : {Reloads[i].window, Reloads[i].maxPrints} \subseteq Int
    /\ IsFiniteSet(Calls) /\ MaxNow \in Nat \ {0} /\ MaxObserved \in Nat

ASSUME ForestAssumption ==
    /\ MinRows \in Nat \ {0} /\ MaxObserved \in Nat /\ None \notin Int /\ Numerics \subseteq [1..Width -> Int]
    /\ Len(Settings) \in Nat \ {0} /\ DOMAIN Settings = 1..Len(Settings)
    /\ \A i \in DOMAIN Settings : Settings[i].every \in Nat \ {0} /\ Settings[i].depth \in Nat

ProcessInit ==
    /\ part \in {"learn", "recommend", "capture", "push", "trim", "rate", "crowd", "grow"}
    /\ Learn!Init /\ Recommend!Init /\ Keep!Init /\ Push!Init /\ Init
    /\ Rate!Init /\ Crowd!Init /\ Grow!Init
ProcessNext ==
    /\ UNCHANGED part
    /\ \/ /\ part = "learn" /\ Learn!Next
          /\ UNCHANGED <<recommending, capturing, pushing, vars, scoring, rotating, growing>>
       \/ /\ part = "recommend" /\ Recommend!Next
          /\ UNCHANGED <<learning, capturing, pushing, vars, scoring, rotating, growing>>
       \/ /\ part = "capture" /\ Keep!Next
          /\ UNCHANGED <<learning, recommending, pushing, vars, scoring, rotating, growing>>
       \/ /\ part = "push" /\ Push!Next
          /\ UNCHANGED <<learning, recommending, capturing, vars, scoring, rotating, growing>>
       \/ /\ part = "trim" /\ Next
          /\ UNCHANGED <<learning, recommending, capturing, pushing, scoring, rotating, growing>>
       \/ /\ part = "rate" /\ Rate!Next
          /\ UNCHANGED <<learning, recommending, capturing, pushing, vars, rotating, growing>>
       \/ /\ part = "crowd" /\ Crowd!Next
          /\ UNCHANGED <<learning, recommending, capturing, pushing, vars, scoring, growing>>
       \/ /\ part = "grow" /\ Grow!Next
          /\ UNCHANGED <<learning, recommending, capturing, pushing, vars, scoring, rotating>>
ProcessSpec ==
    ProcessInit /\ [][ProcessNext]_<<part, learning, recommending, capturing, pushing, vars, scoring, rotating, growing>>

\* The other parts stay in their initial state: of a part, only its own behaviours count.
In(p, property) == part = p => property

(* The types of the components.                                            *)
ProcessTypeOK ==
    /\ In("learn", Learn!TypeOK) /\ In("recommend", Recommend!TypeOK) /\ In("capture", Keep!TypeOK)
    /\ In("push", Push!TypeOK) /\ In("trim", TypeOK) /\ In("rate", Rate!TypeOK)
    /\ In("crowd", Crowd!TypeOK) /\ In("grow", Grow!TypeOK)
(* The totals of the classifier are those of its histogram.                *)
HistogramCounted == In("learn", Learn!HistogramCounted)
(* What the miner found active stays active in learned.yaml.               *)
PromotionSurvives == In("learn", Learn!PromotionSurvives)
(* What an operator demoted stays demoted.                                 *)
DemotedStaysDemoted == In("learn", Learn!DemotedStaysDemoted)
(* What the recommender suggests is backed by events and served.           *)
SuggestionsAreBacked == In("recommend", Recommend!SuggestionsAreBacked)
(* The capture knows its size and goes on after a failed rotation.         *)
CaptureGoesOn == In("capture", Keep!CaptureGoesOn)
(* Scraped metrics are those pushed, queued or dropped.                    *)
ReportsAddUp == In("push", Push!ReportsAddUp)
(* The parts of the scorer that look at the same evidence agree on it.     *)
SignalsAgree == In("rate", Rate!SignalsAgree)
(* What is learnt as an agent's is so by the rules alone.                  *)
LabelledByRules == In("rate", Rate!LabelledByRules)
(* A request is told of the addresses that share its fingerprint.          *)
FleetCounts == In("crowd", Crowd!FleetCounts)
(* The forest in use is the newest and isolates its rows.                  *)
ForestServes == Grow!ForestServes
=============================================================================
