------------------------------ MODULE Pipeline -------------------------------
(***************************************************************************)
(* The request pipeline of internal/proxy/proxy.go with the client tracker *)
(* of internal/detector/tracker.go: request goroutines go through upload   *)
(* policy, scoring, decision and treatment, and feed the response status   *)
(* back into the client's state, while a goroutine collects idle clients.  *)
(*                                                                         *)
(* A client's state is an object: the tracker's map points to it, and so   *)
(* does a goroutine that has looked it up, even after the map forgot it.   *)
(* What the signals add up to is any of Scores; credentials are accepted   *)
(* or not.  Of an event the model keeps its request and its timestamp (its *)
(* Status is written and never read).                                      *)
(***************************************************************************)
EXTENDS Integers, Sequences, FiniteSets

CONSTANTS
    Workers,         \* request goroutines
    Clients,         \* client identifiers
    Trusted,         \* allowlisted clients: not scored, not tracked
    Kinds,           \* of requests: among "http", "grpc", "upgrade", "h2ws"
    Policies,        \* upload policies: among "none", "open", "auth"
    Scores,          \* totals the scorer may reach
    ChallengeAt,     \* score_challenge_threshold
    TarpitAt,        \* score_tarpit_threshold
    Modes,           \* among "observe", "challenge", "tarpit", "auto"
    HasChallenge,    \* whether a challenge handler is configured
    Window,          \* the tracker's rolling window
    MaxHist,         \* the most events it keeps of a client (200)
    MaxIdle,         \* clients idle for longer are collected (30 minutes)
    MaxTime,         \* bound: the clock
    MaxRequests      \* bound: requests served

ASSUME PipelineAssumption ==
    /\ Trusted \subseteq Clients
    /\ Kinds \subseteq {"http", "grpc", "upgrade", "h2ws"}
    /\ Policies \subseteq {"none", "open", "auth"}
    /\ Modes \subseteq {"observe", "challenge", "tarpit", "auto"}
    /\ Scores \subseteq Nat
    /\ ChallengeAt \in Nat /\ TarpitAt \in Nat
    /\ HasChallenge \in BOOLEAN
    /\ Window \in Nat \ {0} /\ MaxHist \in Nat \ {0}
    /\ MaxIdle \in Nat /\ MaxTime \in Nat \ {0} /\ MaxRequests \in Nat

VARIABLES
    mode,      \* cfg.Mode
    now,       \* the clock; it starts above 0, the zero time
    reqs,      \* requests begun; a request is its rank
    job,       \* what each worker is doing
    clients,   \* Tracker.clients: the state object of each client, 0 for none
    heap,      \* the state objects ever made
    gc,        \* the collecting goroutine
    history    \* history: every event recorded in each object

requests == <<mode, now, reqs>>
tracker  == <<clients, heap, history>>
vars     == <<requests, job, tracker, gc>>
-----------------------------------------------------------------------------
Event == [req : 1..MaxRequests, ts : 1..MaxTime]
Statuses == {0, 200, 404}  \* nothing written, a success, a failure

\* lastBad is the request whose path and method LastNon200Path and
\* LastNon200Method hold; lastFrom, a history variable, the one that set
\* LastStatus.
State == [lastSeen : 0..MaxTime, events : Seq(Event), lastStatus : Statuses,
          lastBad : 0..MaxRequests, lastFrom : 0..MaxRequests]
Fresh == [lastSeen |-> 0, events |-> <<>>, lastStatus |-> 0, lastBad |-> 0,
          lastFrom |-> 0]
Idle  == [pc |-> "idle"]

Decisions == {"observe", "real", "challenge", "tarpit"}

At(w, l) == job[w].pc = l

\* The tracker's write lock is the collector's while it scans.
Unlocked == gc.pc \in {"off", "ready"}

Goto(w, l) == job' = [job EXCEPT ![w].pc = l]
-----------------------------------------------------------------------------
(* Before the score *)

\* A request of client c, of which nothing but its kind is known yet.
Request(l, k, c) ==
    [pc |-> l, req |-> reqs + 1, client |-> c, passed |-> FALSE, ts |-> 0,
     st |-> 0, prev |-> 0, total |-> 0, kind |-> k, decision |-> "none",
     told |-> "none"]

Take(w, l, k) ==
    /\ At(w, "idle")
    /\ reqs < MaxRequests
    /\ reqs' = reqs + 1
    /\ \E c \in Clients : job' = [job EXCEPT ![w] = Request(l, k, c)]
    /\ UNCHANGED <<mode, now, tracker, gc>>

\* A well-framed request that is not for an endpoint of the proxy's own.  Its kind
\* and its upload policy are chosen where the code first looks at them.
Arrive(w) == Take(w, "gate", "none")

\* A CORS preflight goes to the upstream before anything else is looked at: it gets
\* no score and no decision, and neither the tracker nor the store hears of it.
\* (The proxy answers one for a path of its own, which leaves nothing behind.)
Preflight(w) == Take(w, "serve", "preflight")

\* enforceUploadPolicy, for a path with a policy: method, declared size and
\* content type, then, if the policy asks for it, a credential.
Gate(w) ==
    /\ At(w, "gate")
    /\ \E p \in Policies :
          \/ p # "none" /\ job' = [job EXCEPT ![w] = Idle]
          \/ job' = [job EXCEPT ![w].pc = "score", ![w].passed = (p = "auth")]
    /\ UNCHANGED <<requests, tracker, gc>>
-----------------------------------------------------------------------------
(* Scorer.Score and Tracker.Record *)

SkipTrusted(w) ==
    /\ At(w, "score")
    /\ job[w].client \in Trusted
    /\ Goto(w, "decide")
    /\ UNCHANGED <<requests, tracker, gc>>

\* The event gets its timestamp before any lock is taken.
Stamp(w) ==
    /\ At(w, "score")
    /\ job[w].client \notin Trusted
    /\ job' = [job EXCEPT ![w].pc = "lookup", ![w].ts = now]
    /\ UNCHANGED <<requests, tracker, gc>>

\* Under the map's lock: find the client's state or make one.
Lookup(w) ==
    LET c == job[w].client IN
    /\ At(w, "lookup")
    /\ Unlocked
    /\ IF clients[c] # 0
       THEN /\ job' = [job EXCEPT ![w].pc = "record", ![w].st = clients[c]]
            /\ UNCHANGED tracker
       ELSE /\ heap' = Append(heap, Fresh)
            /\ history' = Append(history, <<>>)
            /\ clients' = [clients EXCEPT ![c] = Len(heap) + 1]
            /\ job' = [job EXCEPT ![w].pc = "record", ![w].st = Len(heap) + 1]
    /\ UNCHANGED <<requests, gc>>

\* Mutant: the first event after the cutoff goes too.
EvictTooMany(events, cutoff) ==
    LET kept == {i \in DOMAIN events : events[i].ts > cutoff}
        first == CHOOSE i \in kept : \A j \in kept : i <= j
    IN  SubSeq(events, IF Len(events) > 1 THEN first + 1 ELSE first, Len(events))

\* From the first event after the cutoff on.
Evict(events, cutoff) ==
    LET kept == {i \in DOMAIN events : events[i].ts > cutoff}
        first == CHOOSE i \in kept : \A j \in kept : i <= j
    IN  SubSeq(events, first, Len(events))

\* The newest MaxHist events.
Newest(events) ==
    IF Len(events) > MaxHist
    THEN SubSeq(events, Len(events) - MaxHist + 1, Len(events))
    ELSE events

\* Under the state's lock: append the event, then evict.
Record(w) ==
    LET j == job[w]
        e == [req |-> j.req, ts |-> j.ts]
    IN
    /\ At(w, "record")
    /\ heap' = [heap EXCEPT ![j.st].lastSeen = j.ts,
                            ![j.st].events =
                               Newest(Evict(Append(@, e), j.ts - Window))]
    /\ history' = [history EXCEPT ![j.st] = Append(@, e)]
    /\ job' = [job EXCEPT ![w].pc = "assess", ![w].ts = 0]
    /\ UNCHANGED <<requests, clients, gc>>

\* The signals: scoreFailureRecovery reads the status of the last response.
Assess(w) ==
    /\ At(w, "assess")
    /\ \E t \in Scores :
          job' = [job EXCEPT ![w].pc = "decide", ![w].total = t,
                             ![w].prev = heap[job[w].st].lastFrom]
    /\ UNCHANGED <<requests, tracker, gc>>
-----------------------------------------------------------------------------
(* Decision and treatment *)

Decide(total) ==
    IF mode = "observe" THEN "observe"
    ELSE IF mode \in {"tarpit", "auto"} /\ total >= TarpitAt THEN "tarpit"
    ELSE IF total >= ChallengeAt THEN "challenge" ELSE "real"

\* A request, of some kind, goes on to be treated by decision d, after the store was
\* told decision t; what the score read is not used any more.
Judged(w, d, passed, t) ==
    \E k \in Kinds :
        job' = [job EXCEPT ![w] = [@ EXCEPT !.pc = "serve", !.kind = k,
                                            !.decision = d, !.passed = passed,
                                            !.told = t, !.st = 0, !.prev = 0]]

\* Mutant: an accepted credential overrides the tarpit too.
CredentialAlwaysWins(w) ==
    LET j == job[w] IN
    /\ At(w, "decide")
    /\ \E ok \in BOOLEAN :
          LET d == IF j.passed \/ ok THEN "real" ELSE Decide(j.total) IN
          Judged(w, d, j.passed \/ ok, d)
    /\ UNCHANGED <<requests, tracker, gc>>

\* Mutant: the event is written before the credential is looked at.
LogBeforeCredential(w) ==
    LET j == job[w] IN
    /\ At(w, "decide")
    /\ \E ok \in BOOLEAN :
          LET pass == Decide(j.total) # "tarpit" /\ (j.passed \/ ok)
              d    == IF pass THEN "real" ELSE Decide(j.total)
          IN  Judged(w, d, pass, Decide(j.total))
    /\ UNCHANGED <<requests, tracker, gc>>

\* A credential, or a solved challenge, opens every tier but the tarpit; the
\* event goes to the store.
Judge(w) ==
    LET j == job[w] IN
    /\ At(w, "decide")
    /\ \E ok \in BOOLEAN :
          LET pass == Decide(j.total) # "tarpit" /\ (j.passed \/ ok)
              d    == IF pass THEN "real" ELSE Decide(j.total)
          IN  Judged(w, d, pass, d)
    /\ UNCHANGED <<requests, tracker, gc>>

\* What becomes of a request of kind k under decision d.
Treatment(k, d) ==
    CASE k = "h2ws" -> "unsupported"
      [] k \in {"upgrade", "grpc"} /\ d \in {"tarpit", "challenge"} -> "blocked"
      [] k = "http" /\ d = "tarpit" -> "tarpit"
      [] k = "http" /\ d = "challenge" /\ HasChallenge -> "challenge"
      [] OTHER -> "upstream"

\* Only a proxied gRPC call and a plain request report their status to the
\* tracker, and only if one was written.
Reports(k, o) == k = "http" \/ (k = "grpc" /\ o = "upstream")

Serve(w) ==
    LET j == job[w]
        o == Treatment(j.kind, j.decision)
    IN
    /\ At(w, "serve")
    /\ \E s \in Statuses :
          job' = [job EXCEPT ![w] =
                     IF Reports(j.kind, o) /\ s # 0
                     THEN [pc |-> "answered", req |-> j.req, client |-> j.client,
                           status |-> s]
                     ELSE Idle]
    /\ UNCHANGED <<requests, tracker, gc>>

\* Mutant: no test for a client that was collected meanwhile.
FindStateUnchecked(w) ==
    /\ At(w, "answered")
    /\ Unlocked
    /\ LET j == job[w] IN
          job' = [job EXCEPT ![w] = [pc |-> "annotate", req |-> j.req,
                                     st |-> clients[j.client],
                                     status |-> j.status]]
    /\ UNCHANGED <<requests, tracker, gc>>

\* RecordStatus: find the state, if the client is still tracked ...
FindState(w) ==
    /\ At(w, "answered")
    /\ Unlocked
    /\ LET j == job[w]
           p == clients[j.client]
       IN  job' = [job EXCEPT ![w] =
                      IF p = 0 THEN Idle
                      ELSE [pc |-> "annotate", req |-> j.req, st |-> p,
                            status |-> j.status]]
    /\ UNCHANGED <<requests, tracker, gc>>

\* Mutant: the shape of the first failure is kept.
RecordStatusOnce(w) ==
    LET j == job[w] IN
    /\ At(w, "annotate")
    /\ heap' = [heap EXCEPT
                  ![j.st].lastStatus = j.status,
                  ![j.st].lastFrom = j.req,
                  ![j.st].lastBad = IF j.status >= 400 /\ @ = 0 THEN j.req ELSE @]
    /\ job' = [job EXCEPT ![w] = Idle]
    /\ UNCHANGED <<requests, clients, history, gc>>

\* ... and note the status, and for a failure the shape of the request.
RecordStatus(w) ==
    LET j == job[w] IN
    /\ At(w, "annotate")
    /\ heap' = [heap EXCEPT
                  ![j.st].lastStatus = j.status,
                  ![j.st].lastFrom = j.req,
                  ![j.st].lastBad = IF j.status >= 400 THEN j.req ELSE @]
    /\ job' = [job EXCEPT ![w] = Idle]
    /\ UNCHANGED <<requests, clients, history, gc>>
-----------------------------------------------------------------------------
(* The collecting goroutine: Tracker.GC every five minutes *)

\* The clock is read before the lock is taken.
GCStart ==
    /\ gc.pc = "off"
    /\ gc' = [gc EXCEPT !.pc = "ready", !.at = now]
    /\ UNCHANGED <<requests, job, tracker>>

GCLock ==
    /\ gc.pc = "ready"
    /\ gc' = [gc EXCEPT !.pc = "scan",
                        !.todo = {c \in Clients : clients[c] # 0}]
    /\ UNCHANGED <<requests, job, tracker>>

\* Under the state's lock: how long the client has been idle.  A state that has
\* no event yet was last seen at the zero time.
GCLook(c) ==
    LET seen == heap[clients[c]].lastSeen IN
    /\ gc.pc = "scan"
    /\ c \in gc.todo
    /\ IF seen = 0 \/ gc.at - seen > MaxIdle
       THEN gc' = [gc EXCEPT !.pc = "delete", !.todo = @ \ {c}, !.victim = {c}]
       ELSE gc' = [gc EXCEPT !.todo = @ \ {c}]
    /\ UNCHANGED <<requests, job, tracker>>

GCDelete ==
    /\ gc.pc = "delete"
    /\ clients' = [c \in Clients |-> IF c \in gc.victim THEN 0 ELSE clients[c]]
    /\ gc' = [gc EXCEPT !.pc = "scan", !.victim = {}]
    /\ UNCHANGED <<requests, job, heap, history>>

GCUnlock ==
    /\ gc.pc = "scan"
    /\ gc.todo = {}
    /\ gc' = [gc EXCEPT !.pc = "off", !.at = 0]
    /\ UNCHANGED <<requests, job, tracker>>

Tick ==
    /\ now < MaxTime
    /\ now' = now + 1
    /\ UNCHANGED <<mode, reqs, job, tracker, gc>>
-----------------------------------------------------------------------------
Init ==
    /\ mode \in Modes
    /\ now = 1
    /\ reqs = 0
    /\ job = [w \in Workers |-> Idle]
    /\ clients = [c \in Clients |-> 0]
    /\ heap = <<>> /\ history = <<>>
    /\ gc = [pc |-> "off", at |-> 0, todo |-> {}, victim |-> {}]

Handle(w) ==
    \/ Arrive(w) \/ Preflight(w) \/ Gate(w) \/ SkipTrusted(w) \/ Stamp(w)
    \/ Lookup(w) \/ Record(w) \/ Assess(w) \/ Judge(w) \/ Serve(w)
    \/ FindState(w) \/ RecordStatus(w)

Collect ==
    \/ GCStart \/ GCLock \/ (\E c \in Clients : GCLook(c))
    \/ GCDelete \/ GCUnlock

Next == (\E w \in Workers : Handle(w)) \/ Collect \/ Tick

Spec == Init /\ [][Next]_vars
-----------------------------------------------------------------------------
(* Properties *)

\* What a worker may be doing when n state objects exist.
Working(n) ==
   [pc : {"gate", "score", "lookup", "record", "assess", "decide", "serve"},
    req : 1..MaxRequests, client : Clients,
    kind : Kinds \cup {"none", "preflight"},
    passed : BOOLEAN, ts : 0..MaxTime, st : 0..n, prev : 0..MaxRequests,
    total : Scores \cup {0}, decision : Decisions \cup {"none"},
    told : Decisions \cup {"none"}]
Answered == [pc : {"answered"}, req : 1..MaxRequests, client : Clients,
             status : Statuses]
Annotating(n) == [pc : {"annotate"}, req : 1..MaxRequests, st : 1..n,
                  status : Statuses]
Jobs(n) == {Idle} \cup Working(n) \cup Answered \cup Annotating(n)

TypeOK ==
    /\ mode \in Modes /\ now \in 1..MaxTime /\ reqs \in 0..MaxRequests
    /\ job \in [Workers -> Jobs(Len(heap))]
    /\ clients \in [Clients -> 0..Len(heap)]
    /\ heap \in Seq(State)
    /\ history \in Seq(Seq(Event)) /\ Len(history) = Len(heap)
    /\ gc \in [pc : {"off", "ready", "scan", "delete"}, at : 0..MaxTime,
               todo : SUBSET Clients, victim : SUBSET Clients]

\* Events are the latest stretch of h, and an event of h they lack fell out of the
\* window of a later one, or MaxHist later ones replaced it.
Remembers(events, h) ==
    \E n \in 0..Len(h) :
        /\ events = SubSeq(h, n + 1, Len(h))
        /\ h # <<>> => n < Len(h)
        /\ Len(h) - n <= MaxHist
        /\ \A i \in 1..n :
              \/ \E j \in (i + 1)..Len(h) : h[j].ts - Window >= h[i].ts
              \/ Len(h) - i >= MaxHist

\* Tracker.Record, over requests that overlap and arrive with their timestamps
\* out of order: a client's state forgets no event without a cause, and none from the
\* middle.
HistoryFaithful ==
    \A p \in DOMAIN heap : Remembers(heap[p].events, history[p])

\* What scoreFailureRecovery compares belongs together: when the last status was a
\* failure, the remembered shape is that of the request that failed with it.
FailurePair ==
    \A p \in DOMAIN heap :
        heap[p].lastStatus >= 400 => heap[p].lastBad = heap[p].lastFrom

\* proxy.go:462 "Tarpit is intentionally NOT bypassed": what reaches the upstream
\* scored below the tarpit tier whatever credential it carried, and if it was
\* in the challenge tier it carried one.  A preflight, and nothing else, goes there
\* past the scorer ("without scoring or challenging", proxy.go:337).
TarpitTier(total) == mode \in {"tarpit", "auto"} /\ total >= TarpitAt
TreatedAsScored ==
    \A w \in Workers : At(w, "serve") =>
        LET j == job[w] IN
        Treatment(j.kind, j.decision) = "upstream" /\ j.kind # "preflight" =>
            /\ ~TarpitTier(j.total)
            /\ \/ mode = "observe" \/ j.total < ChallengeAt
               \/ j.passed \/ ~HasChallenge

\* The store, and with it the miner and the admin console, is told of a request
\* the decision by which it is then treated; of a preflight it is told nothing.
LoggedAsTreated ==
    \A w \in Workers : At(w, "serve") =>
        IF job[w].kind = "preflight" THEN job[w].told = "none" ELSE
        LET o == Treatment(job[w].kind, job[w].decision)
            t == job[w].told
        IN
        /\ o \in {"tarpit", "challenge"} => t = o
        /\ o = "blocked" => t \in {"tarpit", "challenge"}
        /\ o = "upstream" => t \in {"observe", "real"}
                             \/ (t = "challenge" /\ ~HasChallenge)
=============================================================================
