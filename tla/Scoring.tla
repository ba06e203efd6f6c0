------------------------------- MODULE Scoring --------------------------------
(***************************************************************************)
(* The scorer of internal/detector: every request is recorded in the       *)
(* state of its client, judged by some forty signals over the request, a   *)
(* copy of the recent events and the live counters, then by the learned    *)
(* classifier, which finally learns from the total.  Request goroutines    *)
(* overlap and the rule files are reloaded under them.                     *)
(*                                                                         *)
(* A request is told by its facts: a text (lower-cased) is the set of the  *)
(* tokens it contains, so that strings.Contains is membership; no two      *)
(* paths differ in case alone.  The                                        *)
(* fleet's count and the classifier's answer are any; module Fleet and     *)
(* module Learning model them.  No custom signal has the name of another   *)
(* signal.                                                                 *)
(***************************************************************************)
EXTENDS Integers, Sequences, FiniteSets, FiniteSetsExt

CONSTANTS
    None,
    Clients, Trusted,  \* client identifiers; those of trusted_ips
    Servers,           \* request goroutines
    Facts,             \* what is known of each kind of request
    Detectors,         \* what detector.yaml becomes, one reload after the other
    Lower,             \* toolchain marker to its lower-case form
    Registry,          \* signals.yaml: [entries, custom]
    Reputation,        \* client to the points of its category
    Rotation,          \* ua_rotation of ip_reputation.yaml: [least, points], least 0 when off
    FleetPoints,       \* what the fleet signal may add
    LearnedPoints,     \* what the classifier may add, 0 when it does not fire
    HoneypotPaths,     \* detector.probe_paths
    CanaryOwner,       \* canary token to the client it was served to
    ChallengeAt, TarpitAt,  \* the thresholds of the configuration
    HistoryWindow, MaxHistory,  \* of the tracker
    RepeatWindow,      \* minutes maxRepeatFetchCount looks back: 3
    ToolMin, HmmMin,   \* events the toolchain signals ask for: 4 and 5
    GraphMin,          \* requests the request graph asks for: 8
    CookieMin,         \* requests cookie_stateless asks for: 10
    FanoutMin,         \* events fanout asks for: 30
    FanoutTiers,       \* its [least, points]: 200 and 60 paths
    BundleTiers,       \* those of bundle_mining: 12, 6 and 3 paths
    Moment,            \* the seconds or minute a fanout, a bundle looks back: 60
    MaxClock, MaxScored  \* bounds: the clock, requests

VARIABLES
    clock,
    detector,  \* s.rules, by its number
    clients,   \* the tracker's state of each client
    serve,     \* what each request goroutine is doing
    scored     \* requests begun

vars == <<clock, detector, clients, serve, scored>>
-----------------------------------------------------------------------------
NewState ==
    [events |-> <<>>, honeypots |-> 0, requests |-> 0, cookies |-> 0, documents |-> 0,
     subresources |-> 0, mutations |-> 0, bitmap |-> None, agents |-> [x \in {} |-> 0], script |-> 0,
     setCookie |-> FALSE, crossOrigin |-> FALSE, status |-> 0, bad |-> None]

Fired(signals, name) == \E s \in signals : s.name = name
Signal(name, points) == IF points > 0 THEN {[name |-> name, points |-> points]} ELSE {}
Total(signals) == MapThenSumSet(LAMBDA s : s.points, signals)

\* The points of the first tier that n reaches.
Tier(tiers, n) ==
    LET reached == {i \in DOMAIN tiers : n >= tiers[i].least} IN
    IF reached = {} THEN 0 ELSE tiers[Min(reached)].points

Meets(text, tokens) == text \cap tokens # {}
-----------------------------------------------------------------------------
(* Signals of one request q under the rules d *)

\* looksLikeBrowserUA
Browser(q) ==
    /\ "headlesschrome" \notin q.agent
    /\ Meets(q.agent, {"chrome/", "firefox/", "safari/", "edg/", "edge/", "opera/", "opr/"})

SparseHeaders(q, d) ==
    LET present == d.hints \cap q.headers IN
    IF present # {} /\ Browser(q) THEN 0
    ELSE Tier(d.headerTiers, Cardinality(d.hints \ present))

UserAgent(q, d) ==
    IF q.agent = {} THEN Signal("empty_ua", d.emptyPoints)
    ELSE IF Meets(q.agent, d.suspicious.tokens)
    THEN Signal("suspicious_ua", d.suspicious.points) ELSE {}

SecFetch(q) ==
    LET sent == q.headers \cap {"Sec-Fetch-Site", "Sec-Fetch-Mode", "Sec-Fetch-Dest"} IN
    IF Cardinality(sent) = 3 \/ ~Browser(q) THEN {}
    ELSE IF sent = {} THEN Signal("sec_fetch_absent", 12)
    ELSE IF q.method = "GET" /\ "Referer" \in q.headers THEN {}
    ELSE Signal("sec_fetch_partial", 6)

AcceptEncoding(q) ==
    IF ~Browser(q) THEN {}
    ELSE IF "Accept-Encoding" \notin q.headers THEN Signal("ae_browser_empty", 12)
    ELSE IF "br" \notin q.encodings THEN Signal("ae_browser_no_br", 8) ELSE {}

H3Mismatch(q) == IF q.h3mismatch /\ Browser(q) THEN Signal("h3_mismatch", 8) ELSE {}

\* What a connection's TLS hello, and its HTTP/2 SETTINGS, were classified as.
Wire(hello, names, points) ==
    IF hello = None THEN {}
    ELSE CASE hello.category \in {"agent", "scanner"} ->
                  Signal(names[1], IF hello.confidence < 80 THEN points[2] ELSE points[1])
           [] hello.category = "bot" -> Signal(names[2], points[3])
           [] hello.category = "unknown" -> Signal(names[3], points[4])
           [] OTHER -> {}
TLS(q) == Wire(q.tls, <<"tls_agent", "tls_bot", "tls_non_browser">>, <<45, 30, 25, 20>>)
H2(q)  == Wire(q.h2, <<"h2_agent", "h2_bot", "h2_non_browser">>, <<35, 22, 18, 15>>)

WordlistPath(q, d) == IF Meets(q.path, d.wordlist.tokens) THEN d.wordlist.points ELSE 0

\* The path, the query, a short body, and the headers listed or all of them.
InjectionMarker(q, d) ==
    LET headers == IF d.injection.headers = {} THEN DOMAIN q.values
                   ELSE d.injection.headers \cap DOMAIN q.values
        host == IF "Host" \in d.injection.headers THEN q.host ELSE {}
        text == q.path \cup q.query \cup q.body \cup host \cup UNION {q.values[h] : h \in headers}
    IN  IF Meets(text, d.injection.tokens) THEN d.injection.points ELSE 0

OOB(q, d) ==
    IF Meets(q.path \cup q.query \cup q.host \cup UNION {q.values[h] : h \in DOMAIN q.values}, d.oob.tokens)
    THEN d.oob.points ELSE 0

EncodingChain(q, d) ==
    IF q.triple THEN d.encoding.triple
    ELSE IF q.doubled >= 2 THEN d.encoding.multi
    ELSE IF q.doubled = 1 THEN d.encoding.single ELSE 0

\* Every condition of a custom signal must hold; the request tells which do.
CustomSignals(q) ==
    UNION {IF c.enabled /\ c.points # 0 /\ c.conditions # {} /\ c.conditions \subseteq q.conditions
           THEN {[name |-> c.name, points |-> c.points]} ELSE {} : c \in Registry.custom}

\* The first candidate (credential headers, cookies, last path segment, parameters,
\* body) that is a known canary.
CanaryReplay(c, q) ==
    LET hits == {i \in DOMAIN q.carried : q.carried[i] \in DOMAIN CanaryOwner} IN
    IF hits = {} THEN 0 ELSE IF CanaryOwner[q.carried[Min(hits)]] = c THEN 50 ELSE 60

RequestSignals(c, q, d) ==
    UNION {Signal("sparse_headers", SparseHeaders(q, d)), UserAgent(q, d),
           Signal("wordlist_path", WordlistPath(q, d)), Signal("injection_marker", InjectionMarker(q, d)),
           Signal("oob_interaction", OOB(q, d)), Signal("ip_reputation", Reputation[c]),
           TLS(q), H2(q), SecFetch(q), AcceptEncoding(q), H3Mismatch(q),
           Signal("encoding_chain", EncodingChain(q, d)), CustomSignals(q),
           Signal("api_blueprint_miss", IF q.route = "unknown" THEN 15 ELSE 0),
           Signal("canary_replay", CanaryReplay(c, q))}
-----------------------------------------------------------------------------
(* Signals of the copied events *)

Q(e) == Facts[e.kind]
Within(events, window) == {i \in DOMAIN events : events[i].at >= events[Len(events)].at - window}

\* Variation below a bound, cv < num / 100, without dividing: of n gaps with sum s and
\* sum of squares t, cv^2 = (n t - s^2) / s^2.
Steadier(n, s, t, num) == (n * t - s * s) * 10000 < num * num * s * s

RegularTiming(events, d) ==
    LET gaps == {i \in 2..Len(events) : events[i].at - events[i-1].at \in 1..59}
        gap(i) == events[i].at - events[i-1].at
        n == Cardinality(gaps)
        s == MapThenSumSet(gap, gaps)
        t == MapThenSumSet(LAMBDA i : gap(i) * gap(i), gaps)
        paced == n * d.timing.minMean <= s /\ s <= n * d.timing.maxMean
    IN  IF Len(events) < d.timing.min \/ n < d.timing.min - 1 \/ n = 0 \/ ~paced THEN 0
        ELSE IF Steadier(n, s, t, d.timing.strict.cv) THEN d.timing.strict.points
        ELSE IF Steadier(n, s, t, d.timing.loose.cv) THEN d.timing.loose.points ELSE 0

\* Which stages the events touch, in any order; the markers are looked up as written.
Toolchain(events, d) ==
    LET text   == UNION {Q(events[i]).path \cup Q(events[i]).query : i \in DOMAIN events}
        stages == Cardinality({k \in {"recon", "probe", "exploit"} : Meets(text, d.markers[k])})
    IN  IF Len(events) < ToolMin THEN {}
        ELSE IF stages = 3 THEN Signal("toolchain_full", d.toolPoints.full)
        ELSE IF stages = 2 THEN Signal("toolchain_partial", d.toolPoints.partial) ELSE {}

\* classifyToolStage, at the time of the request: the worst stage, in any case.
ToolStage(q, d) ==
    LET at(k) == Meets(q.path \cup q.query, {Lower[m] : m \in d.markers[k]}) IN
    IF at("exploit") THEN "exploit" ELSE IF at("probe") THEN "probe"
    ELSE IF at("recon") THEN "recon" ELSE None

\* The stages in the order of the events, repetitions counted once.
ToolchainHMM(events) ==
    LET tagged == {i \in DOMAIN events : events[i].stage # None}
        next(i) == Min({j \in tagged : j > i})
        step(i) == <<events[i].stage, events[next(i)].stage>>
        pairs  == {i \in tagged : /\ \E j \in tagged : j > i
                                  /\ step(i) \in {<<"recon", "probe">>, <<"probe", "exploit">>}}
    IN  IF Len(events) < HmmMin THEN {}
        ELSE IF \E i, j, k \in tagged :
                   /\ i < j /\ j < k
                   /\ <<events[i].stage, events[j].stage, events[k].stage>> = <<"recon", "probe", "exploit">>
        THEN Signal("toolchain_hmm", 20)
        ELSE IF pairs = {} THEN {}
        ELSE Signal("toolchain_hmm_partial", IF step(Min(pairs))[1] = "recon" THEN 8 ELSE 12)

PathBruteforce(events, d) ==
    IF Len(events) < 2 THEN 0
    ELSE Tier(d.pathTiers, Cardinality({Q(events[i]).url : i \in DOMAIN events}))

\* schemaFirstScore: a request among the first, not by a browser, for an API schema.
SchemaFirst(events, d) ==
    \E i \in 1..Min({d.schema.limit, Len(events)}) :
        ~Browser(Q(events[i])) /\ Meets(Q(events[i]).path, d.schema.tokens)

Conditional(q) == Meets(q.headers, {"If-None-Match", "If-Modified-Since"})

\* The most fetches of one path in the window, none of them conditional.
Repeats(events, window) ==
    LET of(u) == {i \in Within(events, window) : Q(events[i]).url = u}
        bare  == {u \in {Q(events[i]).url : i \in DOMAIN events} :
                     \A i \in of(u) : ~Conditional(Q(events[i]))}
    IN  Max({Cardinality(of(u)) : u \in bare} \cup {0})

CacheMiss(events, d) ==
    IF Len(events) < d.cache.min THEN 0 ELSE Tier(d.cache.tiers, Repeats(events, d.cache.window))

\* authLabel: the label of the first pattern that occurs without its exclusion.
AuthLabel(q, d) ==
    LET hits == {i \in DOMAIN d.auth.patterns :
                    d.auth.patterns[i].token \in q.path /\ d.auth.patterns[i].exclude \notin q.path}
    IN  IF hits = {} THEN None ELSE d.auth.patterns[Min(hits)].label

AuthKinds(events, d) ==
    Cardinality({AuthLabel(Q(events[i]), d) : i \in Within(events, d.auth.window)} \ {None})

AuthProbe(events, d) ==
    IF Len(events) < d.auth.min THEN 0 ELSE Tier(d.auth.tiers, AuthKinds(events, d))

EventSignals(events, d) ==
    UNION {Signal("regular_timing", RegularTiming(events, d)), Toolchain(events, d),
           Signal("path_bruteforce", PathBruteforce(events, d)), ToolchainHMM(events),
           Signal("schema_first", IF SchemaFirst(events, d) THEN d.schema.points ELSE 0),
           Signal("cache_miss_anomaly", CacheMiss(events, d)),
           Signal("auth_probe_sequence", AuthProbe(events, d))}
-----------------------------------------------------------------------------
(* Signals of the live state of the client *)

RequestGraph(st) ==
    IF st.requests < GraphMin \/ st.documents < 1 THEN {}
    ELSE IF st.subresources = 0 THEN Signal("graph_flat", 10)
    ELSE IF st.subresources * 4 < st.documents THEN Signal("graph_doc_heavy", 6) ELSE {}

CookieEcology(st) == IF st.requests >= CookieMin /\ st.cookies = 0 THEN 8 ELSE 0

\* Backwards from the newest event to the first one that is older than a minute.
Fanout(st) ==
    LET old == {i \in DOMAIN st.events : st.events[i].at < clock - Moment}
        new == {i \in DOMAIN st.events : \A j \in old : i > j}
    IN  IF Len(st.events) < FanoutMin THEN 0
        ELSE Tier(FanoutTiers, Cardinality({Q(st.events[i]).url : i \in new}))

FailureRecovery(st, q) ==
    IF st.status < 400 \/ st.bad = None \/ <<q.url, q.method>> = st.bad THEN 0 ELSE 6

\* Distinct API paths since the last script bundle, if that was a moment ago.
BundleMining(st) ==
    IF st.script = 0 \/ clock - st.script > Moment THEN 0
    ELSE Tier(BundleTiers, Cardinality({Q(st.events[i]).url : i \in
            {k \in DOMAIN st.events : st.events[k].at >= st.script /\ Q(st.events[k]).api}}))

HeaderMutation(st, d) ==
    IF st.requests < d.mutation.min THEN 0 ELSE Tier(d.mutation.tiers, st.mutations)

NoCookieReturn(st, d) ==
    IF st.setCookie /\ st.requests >= d.cookie.min /\ ~st.crossOrigin /\ st.cookies = 0
    THEN d.cookie.points ELSE 0

UARotation(st) ==
    IF Rotation.least >= 2 /\ Cardinality(DOMAIN st.agents) >= Rotation.least
    THEN Rotation.points ELSE 0

StateSignals(st, q, d) ==
    UNION {Signal("ua_rotation", UARotation(st)), RequestGraph(st),
           Signal("cookie_stateless", CookieEcology(st)),
           Signal(IF Fanout(st) >= 30 THEN "fanout_extreme" ELSE "fanout_high", Fanout(st)),
           Signal("recovery_pivot", FailureRecovery(st, q)),
           Signal("bundle_mining", BundleMining(st)),
           Signal("header_mutation", HeaderMutation(st, d)),
           Signal("no_cookie_return", NoCookieReturn(st, d))}
-----------------------------------------------------------------------------
(* Scorer.Score *)

Idle == [pc |-> "idle"]
Goto(w, job) == serve' = [serve EXCEPT ![w] = job]

\* An address of trusted_ips is not recorded and not judged.
Allow(w) ==
    /\ serve[w] = Idle
    /\ scored < MaxScored
    /\ Trusted # {}
    /\ scored' = scored + 1
    /\ UNCHANGED <<clock, detector, clients, serve>>

\* mutationBitmap: of the headers a browser sends always or never, those present.
Bitmap(q) ==
    q.headers \cap {"Accept-Language", "Accept-Encoding", "Sec-Ch-Ua", "Sec-Ch-Ua-Mobile", "Sec-Ch-Ua-Platform"}

\* Tracker.Record of an event of kind k: the counters grow, the window moves on.
Recorded(st, e, k) ==
    LET q    == Facts[k]
        cut  == e.at - HistoryWindow
        all  == Append(st.events, e)
        kept == {i \in DOMAIN all : all[i].at > cut}
        tail == SubSeq(all, Min(kept), Len(all))
        seen == [a \in DOMAIN st.agents \cup {q.agent} |-> IF a = q.agent THEN e.at ELSE st.agents[a]]
    IN  [st EXCEPT
            !.events = SubSeq(tail, Max({1, Len(tail) - MaxHistory + 1}), Len(tail)),
            !.requests = @ + 1,
            !.cookies = @ + (IF "Cookie" \in q.headers THEN 1 ELSE 0),
            !.documents = @ + (IF q.dest = "document" THEN 1 ELSE 0),
            !.subresources = @ + (IF q.dest \notin {"document", None} THEN 1 ELSE 0),
            !.mutations = @ + (IF st.bitmap \notin {None, Bitmap(q)} THEN 1 ELSE 0),
            !.bitmap = Bitmap(q),
            !.crossOrigin = @ \/ "Origin" \in q.headers,
            !.agents = [a \in {b \in DOMAIN seen : seen[b] >= cut} |-> seen[a]]]

\* The event is tagged by the rules in force, then recorded; a honeypot path counts.
Record(w) ==
    /\ serve[w] = Idle
    /\ scored < MaxScored
    /\ scored' = scored + 1
    /\ \E c \in Clients \ Trusted, k \in DOMAIN Facts :
          LET e  == [at |-> clock, kind |-> k, stage |-> ToolStage(Facts[k], Detectors[detector]), rules |-> detector]
              st == Recorded(clients[c], e, k)
              hit == Facts[k].url \in HoneypotPaths
          IN  /\ clients' = [clients EXCEPT ![c] = IF hit THEN [st EXCEPT !.honeypots = @ + 1] ELSE st]
              /\ Goto(w, [pc |-> "copy", client |-> c, kind |-> k,
                          trap |-> IF ~hit THEN 0 ELSE IF st.honeypots >= 1 THEN 80 ELSE 50])
    /\ UNCHANGED <<clock, detector>>

\* The events are copied under the client's lock; every later signal over events
\* reads this copy.
CopyEvents(w) ==
    /\ serve[w].pc = "copy"
    /\ LET j == serve[w] IN
       Goto(w, [pc |-> "judge", client |-> j.client, kind |-> j.kind, trap |-> j.trap,
                events |-> clients[j.client].events])
    /\ UNCHANGED <<clock, detector, clients, scored>>

\* Every signal but the classifier's.
Judge(w) ==
    LET j == serve[w]
        q == Facts[j.kind]
    IN
    /\ j.pc = "judge"
    /\ \E p \in FleetPoints :
          Goto(w, [pc |-> "infer", client |-> j.client, kind |-> j.kind, events |-> j.events,
                   rules |-> detector,
                   signals |-> UNION {Signal("honeypot_hit", j.trap), Signal("ip_rotation_fleet", p),
                                      RequestSignals(j.client, q, Detectors[detector]),
                                      EventSignals(j.events, Detectors[detector]),
                                      StateSignals(clients[j.client], q, Detectors[detector])}])
    /\ UNCHANGED <<clock, detector, clients, scored>>

\* Mutant: the pages of the whole history are counted.
SessionStatsOfAll(st, q, events, d) ==
    [mutations |-> st.mutations, repeats |-> Repeats(events, RepeatWindow),
     authKinds |-> AuthKinds(events, [d EXCEPT !.auth.window = HistoryWindow]),
     schemaFirst |-> SchemaFirst(events, d), doubled |-> q.doubled]

\* buildSessionStats: what the classifier is told of the client.
SessionStats(st, q, events, d) ==
    [mutations |-> st.mutations, repeats |-> Repeats(events, RepeatWindow),
     authKinds |-> AuthKinds(events, d), schemaFirst |-> SchemaFirst(events, d), doubled |-> q.doubled]

\* applySignalConfig
Applied(signals) ==
    {[s EXCEPT !.points = IF s.name \in DOMAIN Registry.entries /\ Registry.entries[s.name].points > 0
                          THEN Registry.entries[s.name].points ELSE @] :
        s \in {x \in signals : x.name \in DOMAIN Registry.entries => Registry.entries[x.name].enabled}}

\* Scorer.Observe of package ml: what the classifier learns from a total.
Label(total) == IF total >= ChallengeAt THEN "agent" ELSE IF total = 0 THEN "human" ELSE None

\* The classifier's points count like any other; it then learns from the total,
\* unless that total earned the tarpit.
Infer(w) ==
    LET j == serve[w] IN
    /\ j.pc = "infer"
    /\ \E p \in LearnedPoints :
          LET total  == Min({100, Total(Applied(j.signals \cup Signal("ml_agent_score", p)))})
              learns == TarpitAt <= 0 \/ total < TarpitAt
          IN  Goto(w, [pc |-> "answer", client |-> j.client, kind |-> j.kind, events |-> j.events,
                       signals |-> j.signals, total |-> total,
                       session |-> SessionStats(clients[j.client], Facts[j.kind], j.events, Detectors[detector]),
                       label |-> IF learns THEN Label(total) ELSE None,
                       rules |-> j.rules, later |-> detector])
    /\ UNCHANGED <<clock, detector, clients, scored>>
-----------------------------------------------------------------------------
(* After the answer: RecordStatus, RecordJSAsset and RecordSetCookie *)

Answer(w) ==
    LET j == serve[w]
        q == Facts[j.kind]
    IN
    /\ j.pc = "answer"
    /\ clients' = [clients EXCEPT
          ![j.client].status = q.status,
          ![j.client].bad = IF q.status >= 400 THEN <<q.url, q.method>> ELSE @,
          ![j.client].script =
              IF q.script /\ j.total < ChallengeAt /\ q.status = 200 THEN clock ELSE @,
          ![j.client].setCookie = @ \/ (j.total >= TarpitAt /\ q.sets)]
    /\ Goto(w, Idle)
    /\ UNCHANGED <<clock, detector, scored>>

\* SetRules
SetRules ==
    /\ detector < Len(Detectors)
    /\ detector' = detector + 1
    /\ UNCHANGED <<clock, clients, serve, scored>>

Pass ==
    /\ clock < MaxClock
    /\ clock' = clock + 1
    /\ UNCHANGED <<detector, clients, serve, scored>>
-----------------------------------------------------------------------------
Init ==
    /\ clock = 1
    /\ detector = 1
    /\ clients = [c \in Clients |-> NewState]
    /\ serve = [w \in Servers |-> Idle]
    /\ scored = 0
Next ==
    \/ \E w \in Servers : Allow(w) \/ Record(w) \/ CopyEvents(w) \/ Judge(w) \/ Infer(w) \/ Answer(w)
    \/ SetRules \/ Pass
Spec == Init /\ [][Next]_vars
-----------------------------------------------------------------------------
Events == [at : 1..MaxClock, kind : DOMAIN Facts, stage : {None, "recon", "probe", "exploit"},
           rules : DOMAIN Detectors]
TypeOK ==
    /\ clock \in 1..MaxClock /\ detector \in DOMAIN Detectors /\ scored \in 0..MaxScored
    /\ \A c \in Clients :
          /\ clients[c].events \in Seq(Events) /\ Len(clients[c].events) <= MaxHistory
          /\ clients[c].requests \in 0..MaxScored /\ clients[c].mutations \in 0..MaxScored
    /\ \A w \in Servers :
          /\ serve[w].pc \in {"idle", "copy", "judge", "infer", "answer"}
          /\ serve[w].pc = "answer" => serve[w].total <= 100 /\ serve[w].label \in {None, "agent", "human"}

(* Two parts of the scorer that look at the same evidence agree on it,     *)
(* though other requests of the client and reloads come in between.  The   *)
(* ordered toolchain signal fires only where the unordered one does, if    *)
(* the events were tagged by the rules of now, the markers are in lower    *)
(* case and the unordered one has points (tracker.go: ToolStage is "tagged *)
(* by the scorer using the same path patterns as the toolchain signal").   *)
(* What the classifier is told of the client's pages for logging in, API   *)
(* schemas and mutations is what the signals fired on: "so ML session      *)
(* stats and the scoring signal agree" (scorer_behavioral.go:79).  It says *)
(* nothing of the repeated fetches, of which the same is written at :52:   *)
(* the classifier is told those of three minutes, the signal looks at      *)
(* window_minutes.                                                         *)
Least(tiers) == Min({tiers[i].least : i \in DOMAIN tiers})
SignalsAgree ==
    \A w \in Servers : serve[w].pc = "answer" =>
        LET j == serve[w]
            d == Detectors[j.rules]
            n == Len(j.events)
        IN
        /\ /\ \A i \in 1..n : j.events[i].rules = j.rules
           /\ \A k \in DOMAIN d.markers : \A m \in d.markers[k] : Lower[m] = m
           /\ d.toolPoints.full > 0
           => /\ Fired(j.signals, "toolchain_hmm") => Fired(j.signals, "toolchain_full")
              /\ Fired(j.signals, "toolchain_hmm_partial") /\ d.toolPoints.partial > 0 =>
                    Fired(j.signals, "toolchain_full") \/ Fired(j.signals, "toolchain_partial")
        /\ j.later = j.rules =>
              /\ Fired(j.signals, "auth_probe_sequence") <=>
                    n >= d.auth.min /\ j.session.authKinds >= Least(d.auth.tiers)
              /\ Fired(j.signals, "schema_first") <=> j.session.schemaFirst
              /\ Fired(j.signals, "header_mutation") => j.session.mutations >= Least(d.mutation.tiers)

(* A request that the classifier learns as an agent's has a "rule-based    *)
(* score at or above" the threshold (scorer.go, SetML; Observe: "feeds one *)
(* request's features + rule-based score into the online learner").  It    *)
(* does not: the total holds the classifier's own points.                  *)
LabelledByRules ==
    \A w \in Servers : serve[w].pc = "answer" /\ serve[w].label = "agent" =>
        Total(Applied(serve[w].signals)) >= ChallengeAt
=============================================================================
