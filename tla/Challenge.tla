------------------------------ MODULE Challenge ------------------------------
(***************************************************************************)
(* The proof-of-work challenge of internal/challenge/challenge.go.         *)
(*                                                                         *)
(* A challenge is issued with a signed timestamp; a client searches a      *)
(* nonce and posts the proof to the verify path; an accepted proof is      *)
(* entered in the seenNonces map and a token is minted; later requests     *)
(* present the token.  Any number of handler goroutines (Workers) run      *)
(* verifyPOW at once.  verifyPOW reads the clock ONCE and uses that        *)
(* reading for the age checks, for the eviction and for the expiry of the  *)
(* entry it stores, so a worker may act on a reading that is long past.    *)
(* The rules (TTL and difficulty) are read once per request and may be     *)
(* replaced by a hot reload at any moment.                                 *)
(*                                                                         *)
(* Time is counted in ticks; Second ticks make the second to which a       *)
(* token's timestamp is truncated (RFC3339 without a fraction).            *)
(***************************************************************************)
EXTENDS Integers

CONSTANTS
    Challenges,   \* the random challenge strings
    Nonces,       \* the candidate nonces a client may post
    Workers,      \* handler goroutines
    Work,         \* Work[k] = leading zero digits of the digest of proof k
    RuleSets,     \* the challenge.yaml contents a reload may install
    DefaultTTL,   \* 30 minutes: used when the configured TTL is not positive
    DefaultCap,   \* 60 minutes: used when no ceiling is configured
    MaxTTL,       \* the operator's ceiling (challenge.max_ttl_minutes), may be 0
    Tolerance,    \* 2 minutes: how far in the future a timestamp may lie
    MaxSkew,      \* how far ahead the clock of a replica sharing the secret runs
    Second,       \* ticks in a second
    MaxTime,      \* bound: the last tick of the model
    MaxRestarts   \* bound: process restarts

\* What is sent to the verify path: a proof is a challenge and a nonce.
Proofs == Challenges \X Nonces

ASSUME ChallengeAssumption ==
    /\ Proofs # {}
    /\ Work \in [Proofs -> Nat]
    /\ RuleSets \subseteq [ttl : Int, difficulty : Int]
    /\ RuleSets # {}
    /\ DefaultTTL \in Nat \ {0}
    /\ DefaultCap \in Nat \ {0}
    /\ MaxTTL \in Int
    /\ Tolerance \in Nat
    /\ MaxSkew \in Nat
    /\ Second \in Nat \ {0}
    /\ MaxTime \in Nat
    /\ MaxRestarts \in Nat

VARIABLES
    clock,     \* wall clock
    rules,     \* what the rules holder points to
    issued,    \* issued[c]: the timestamp signed together with challenge c
    seen,      \* the seenNonces map: expiry of each proof's entry, or Absent
    pc,        \* where each worker is, or the answer it has just given
    key,       \* the proof a worker verifies
    conf,      \* the rules a worker loaded when its request began
    now,       \* the clock reading a worker acts on
    todo,      \* entries the eviction sweep has still to visit
    victim,    \* the entry a worker found expired and is about to delete
    tokens,    \* tokens minted so far
    shown,     \* the token timestamp a worker checks
    restarts,  \* process restarts so far
    accepts,   \* history: how often a proof was accepted since the last start
    first      \* history: expiry given to the entry at its first acceptance

serving == <<pc, key, conf, now, todo, victim, shown>>
history == <<accepts, first>>
vars == <<clock, rules, issued, seen, tokens, restarts, serving, history>>
-----------------------------------------------------------------------------
(* Helpers *)

Absent == -1

EffectiveTTL(raw) == IF raw <= 0 THEN DefaultTTL ELSE raw

TTLCap == IF MaxTTL <= 0 THEN DefaultCap ELSE MaxTTL

\* challengeTTL: the configured TTL, defaulted and capped.
ChallengeTTL(cr) ==
    IF EffectiveTTL(cr.ttl) > TTLCap THEN TTLCap ELSE EffectiveTTL(cr.ttl)

\* normalizedDifficulty: 4 unless the configured value is 1, 2, 3 or 4.
NormalizedDifficulty(cr) == IF cr.difficulty \in 1..4 THEN cr.difficulty ELSE 4

\* The instant a token timestamp denotes: its second.
TruncatedTwice(t) == t - (t % Second) - Second      \* mutant: one second too far
TruncatedCoarse(t) == t - (t % (2 * Second))        \* mutant: a coarser layout

Truncated(t) == t - (t % Second)

\* The entry's expiry lies before t.
ExpiredAfter(k, t) == seen[k] # Absent /\ seen[k] > t    \* mutant: After for Before

Expired(k, t) == seen[k] # Absent /\ seen[k] < t
Stored == {k \in Proofs : seen[k] # Absent}
Minted == {t.ts : t \in tokens}

Steps   == {"idle", "check", "sweep", "evict", "mint", "advertise", "admit"}
Answers == {"granted", "replayed", "rejected", "admitted", "refused"}

\* What the locals of a worker without a request hold.
NoProof == CHOOSE k \in Proofs : TRUE
NoRules == [ttl |-> 0, difficulty |-> 0]

Goto(w, p) == pc' = [pc EXCEPT ![w] = p]
-----------------------------------------------------------------------------
(* Issuing a challenge *)

\* serveChallenge, serveSPAChallenge and ServeStart: a fresh random challenge
\* is signed with the current time.  MaxSkew covers a replica with the same
\* secret whose clock is ahead.
Issue(c) ==
    /\ issued[c] = Absent
    /\ \E skew \in 0..MaxSkew :
          issued' = [issued EXCEPT ![c] = clock + skew]
    /\ UNCHANGED <<clock, rules, seen, tokens, restarts, serving, history>>
-----------------------------------------------------------------------------
(* Verifying a proof *)

\* ServeHTTP and the first part of verifyPOW: load the rules, decode the body
\* and compare the signature.  A body that does not decode, a nonce that does
\* not parse and a signature that was not made for this challenge and its
\* timestamp are answered 400 or 401, and nothing else happens.
SubmitProof(w, k) ==
    /\ pc[w] = "idle"
    /\ \/ /\ issued[k[1]] # Absent
          /\ conf' = [conf EXCEPT ![w] = rules]
          /\ key' = [key EXCEPT ![w] = k]
          /\ Goto(w, "check")
       \/ /\ Goto(w, "rejected")
          /\ UNCHANGED <<conf, key>>
    /\ UNCHANGED <<clock, rules, issued, seen, tokens, restarts, now, todo,
                   victim, shown, history>>

\* The timestamp is neither too far ahead nor older than the TTL.
TimelyProof(w, k, t) ==
    /\ ~(issued[k[1]] > t + Tolerance)
    /\ ~(t - issued[k[1]] > ChallengeTTL(conf[w]))

\* The digest starts with the number of zeros the loaded rules ask for.
EnoughWork(w, k) == Work[k] >= NormalizedDifficulty(conf[w])

\* Mutant: the entry is stored before the digest is compared.
CheckProofAfterStore(w) ==
    /\ pc[w] = "check"
    /\ now' = [now EXCEPT ![w] = clock]
    /\ \/ /\ TimelyProof(w, key[w], clock)
          /\ EnoughWork(w, key[w])
          /\ todo' = [todo EXCEPT ![w] = Stored]
          /\ Goto(w, "sweep")
          /\ UNCHANGED seen
       \/ /\ ~(TimelyProof(w, key[w], clock) /\ EnoughWork(w, key[w]))
          /\ seen' = [seen EXCEPT ![key[w]] = clock + ChallengeTTL(conf[w])]
          /\ Goto(w, "rejected")
          /\ UNCHANGED todo
    /\ UNCHANGED <<clock, rules, issued, tokens, restarts, key, conf, victim,
                   shown, history>>

\* verifyPOW reads the clock and applies the timestamp and work checks.  A
\* proof that passes goes on to the eviction sweep: Range visits every entry
\* that stays in the map and any choice of those stored meanwhile.
CheckProof(w) ==
    /\ pc[w] = "check"
    /\ now' = [now EXCEPT ![w] = clock]
    /\ \/ /\ TimelyProof(w, key[w], clock)
          /\ EnoughWork(w, key[w])
          /\ \E met \in SUBSET Proofs :
                /\ Stored \subseteq met
                /\ todo' = [todo EXCEPT ![w] = met]
          /\ Goto(w, "sweep")
       \/ /\ ~(TimelyProof(w, key[w], clock) /\ EnoughWork(w, key[w]))
          /\ Goto(w, "rejected")
          /\ UNCHANGED todo
    /\ UNCHANGED <<clock, rules, issued, seen, tokens, restarts, key, conf,
                   victim, shown, history>>

\* The Range callback for one entry: an entry that is live for this worker's
\* reading is left alone, one that is expired will be deleted.  Looking and
\* deleting are two steps: the map is not locked in between.
VisitEntry(w, k) ==
    /\ pc[w] = "sweep"
    /\ k \in todo[w]
    /\ todo' = [todo EXCEPT ![w] = @ \ {k}]
    /\ \/ /\ Expired(k, now[w])
          /\ victim' = [victim EXCEPT ![w] = k]
          /\ Goto(w, "evict")
       \/ /\ ~Expired(k, now[w])
          /\ UNCHANGED <<victim, pc>>
    /\ UNCHANGED <<clock, rules, issued, seen, tokens, restarts, key, conf, now,
                   shown, history>>

\* seenNonces.Delete: whatever the map holds for the key by now is removed.
EvictEntry(w) ==
    /\ pc[w] = "evict"
    /\ seen' = [seen EXCEPT ![victim[w]] = Absent]
    /\ Goto(w, "sweep")
    /\ UNCHANGED <<clock, rules, issued, tokens, restarts, key, conf, now, todo,
                   victim, shown, history>>

\* seenNonces.LoadOrStore, atomic: the worker that finds no entry enters one
\* that expires a TTL after its clock reading and accepts the proof; a worker
\* that finds an entry, expired or not, rejects it as a repeat.
LoadOrStore(w) ==
    /\ pc[w] = "sweep"
    /\ todo[w] = {}
    /\ LET k == key[w]
           expiry == now[w] + ChallengeTTL(conf[w])
       IN  \/ /\ seen[k] = Absent
              /\ seen' = [seen EXCEPT ![k] = expiry]
              /\ accepts' = [accepts EXCEPT ![k] = @ + 1]
              /\ first' = [first EXCEPT ![k] = IF accepts[k] = 0 THEN expiry
                                               ELSE @]
              /\ Goto(w, "mint")
           \/ /\ seen[k] # Absent
              /\ Goto(w, "replayed")
              /\ UNCHANGED <<seen, history>>
    /\ UNCHANGED <<clock, rules, issued, tokens, restarts, key, conf, now, todo,
                   victim, shown>>

\* The rest of verify: a fresh clock reading, cut to its second, is signed and becomes
\* the token.
Mint(w) ==
    /\ pc[w] = "mint"
    /\ now' = [now EXCEPT ![w] = clock]
    /\ Goto(w, "advertise")
    /\ UNCHANGED <<clock, rules, issued, seen, tokens, restarts, key, conf, todo,
                   victim, shown, history>>

\* The clock is read once more for the end of life that the answer gives the token
\* (cookie Expires; expires_in is counted from the answer too).
Advertise(w) ==
    /\ pc[w] = "advertise"
    /\ tokens' = tokens \cup {[ts |-> Truncated(now[w]), at |-> now[w], sent |-> clock,
                              until |-> clock + ChallengeTTL(conf[w])]}
    /\ Goto(w, "granted")
    /\ UNCHANGED <<clock, rules, issued, seen, restarts, key, conf, now, todo,
                   victim, shown, history>>
-----------------------------------------------------------------------------
(* Presenting a token *)

\* Passed: load the rules, take the token from the cookie or the header.  A
\* value without the signature of its timestamp is refused whatever its age.
PresentToken(w, ts) ==
    /\ pc[w] = "idle"
    /\ \/ /\ ts \in Minted
          /\ conf' = [conf EXCEPT ![w] = rules]
          /\ shown' = [shown EXCEPT ![w] = ts]
          /\ Goto(w, "admit")
       \/ /\ Goto(w, "rejected")
          /\ UNCHANGED <<conf, shown>>
    /\ UNCHANGED <<clock, rules, issued, seen, tokens, restarts, key, now, todo,
                   victim, history>>

\* validToken: the age against the configured TTL, which is not capped here.
ValidToken(w, t) == ~(t - shown[w] > EffectiveTTL(conf[w].ttl))

CheckToken(w) ==
    /\ pc[w] = "admit"
    /\ now' = [now EXCEPT ![w] = clock]
    /\ \/ ValidToken(w, clock) /\ Goto(w, "admitted")
       \/ ~ValidToken(w, clock) /\ Goto(w, "refused")
    /\ UNCHANGED <<clock, rules, issued, seen, tokens, restarts, key, conf, todo,
                   victim, shown, history>>

\* The answer is sent; the locals of the request are gone.
Finish(w) ==
    /\ pc[w] \in Answers
    /\ Goto(w, "idle")
    /\ key' = [key EXCEPT ![w] = NoProof]
    /\ conf' = [conf EXCEPT ![w] = NoRules]
    /\ now' = [now EXCEPT ![w] = 0]
    /\ todo' = [todo EXCEPT ![w] = {}]
    /\ victim' = [victim EXCEPT ![w] = NoProof]
    /\ shown' = [shown EXCEPT ![w] = 0]
    /\ UNCHANGED <<clock, rules, issued, seen, tokens, restarts, history>>
-----------------------------------------------------------------------------
(* The environment *)

Tick ==
    /\ clock < MaxTime
    /\ clock' = clock + 1
    /\ UNCHANGED <<rules, issued, seen, tokens, restarts, serving, history>>

\* The rules watcher stores a freshly parsed challenge.yaml in the holder.
Reload(cr) ==
    /\ rules # cr
    /\ rules' = cr
    /\ UNCHANGED <<clock, issued, seen, tokens, restarts, serving, history>>

\* The map and the goroutines die with the process; the secret, and with it
\* every signature handed out, does not.
Restart ==
    /\ restarts < MaxRestarts
    /\ restarts' = restarts + 1
    /\ seen' = [k \in Proofs |-> Absent]
    /\ accepts' = [k \in Proofs |-> 0]
    /\ first' = [k \in Proofs |-> 0]
    /\ pc' = [w \in Workers |-> "idle"]
    /\ key' = [w \in Workers |-> NoProof]
    /\ conf' = [w \in Workers |-> NoRules]
    /\ now' = [w \in Workers |-> 0]
    /\ todo' = [w \in Workers |-> {}]
    /\ victim' = [w \in Workers |-> NoProof]
    /\ shown' = [w \in Workers |-> 0]
    /\ UNCHANGED <<clock, rules, issued, tokens>>
-----------------------------------------------------------------------------
Init ==
    /\ clock = 0
    /\ rules \in RuleSets
    /\ issued = [c \in Challenges |-> Absent]
    /\ seen = [k \in Proofs |-> Absent]
    /\ pc = [w \in Workers |-> "idle"]
    /\ key = [w \in Workers |-> NoProof]
    /\ conf = [w \in Workers |-> NoRules]
    /\ now = [w \in Workers |-> 0]
    /\ todo = [w \in Workers |-> {}]
    /\ victim = [w \in Workers |-> NoProof]
    /\ shown = [w \in Workers |-> 0]
    /\ tokens = {}
    /\ restarts = 0
    /\ accepts = [k \in Proofs |-> 0]
    /\ first = [k \in Proofs |-> 0]

Verify(w) ==
    \/ CheckProof(w)
    \/ \E k \in Proofs : VisitEntry(w, k)
    \/ EvictEntry(w)
    \/ LoadOrStore(w)
    \/ Mint(w)
    \/ Advertise(w)

Next ==
    \/ \E c \in Challenges : Issue(c)
    \/ \E w \in Workers, k \in Proofs : SubmitProof(w, k)
    \/ \E w \in Workers : Verify(w)
    \/ \E w \in Workers, ts \in Minted : PresentToken(w, ts)
    \/ \E w \in Workers : CheckToken(w)
    \/ \E w \in Workers : Finish(w)
    \/ Tick
    \/ \E cr \in RuleSets : Reload(cr)
    \/ Restart

Spec == Init /\ [][Next]_vars
-----------------------------------------------------------------------------
(* Properties *)

TypeOK ==
    /\ clock \in Nat
    /\ rules \in RuleSets
    /\ issued \in [Challenges -> Nat \cup {Absent}]
    /\ seen \in [Proofs -> Nat \cup {Absent}]
    /\ pc \in [Workers -> Steps \cup Answers]
    /\ key \in [Workers -> Proofs]
    /\ conf \in [Workers -> [ttl : Int, difficulty : Int]]
    /\ now \in [Workers -> Nat]
    /\ todo \in [Workers -> SUBSET Proofs]
    /\ victim \in [Workers -> Proofs]
    /\ tokens \in SUBSET [ts : Nat, at : Nat, sent : Nat, until : Nat]
    /\ shown \in [Workers -> Nat]
    /\ restarts \in Nat
    /\ accepts \in [Proofs -> Nat]
    /\ first \in [Proofs -> Nat]

\* Repeat detection of verifyPOW, per process: while the entry made at the first acceptance
\* of a proof has not expired, the proof is accepted no second time, however
\* the eviction sweeps and LoadOrStore calls of other workers, acting on old
\* clock readings and on rules replaced meanwhile, fall between its steps.
AcceptedOnceInWindow ==
    \A k \in Proofs : accepts[k] > 1 => clock > first[k]

\* Of the workers racing on one proof some worker wins: a proof is rejected as
\* a repeat only when it has been accepted, never because an entry was left
\* behind by a request that did not succeed.
RepeatOnlyIfAccepted ==
    \A w \in Workers : pc[w] = "replayed" => accepts[key[w]] > 0

\* Passed honours what verify advertised: unless a reload has shortened the TTL,
\* a token that is refused before the end of life its answer gave is refused in the
\* last part of it, which is no longer than the second its timestamp was cut to and the
\* time that verify took from signing the token to answering.
TokenHonoured ==
    \A w \in Workers, t \in tokens :
        /\ pc[w] = "refused"
        /\ shown[w] = t.ts
        /\ EffectiveTTL(conf[w].ttl) >= t.until - t.sent
        => now[w] > t.until - Second - (t.sent - t.at)
=============================================================================
