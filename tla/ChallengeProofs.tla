--------------------------- MODULE ChallengeProofs ---------------------------
(***************************************************************************)
(* Proofs about Challenge for every number of workers, proofs and rule     *)
(* sets, every TTL and ceiling and every interleaving.                     *)
(***************************************************************************)
EXTENDS Challenge, TLAPS

USE DEF Absent

(***************************************************************************)
(* The inductive invariant.  While the first entry of a proof is live it   *)
(* is in the map and the proof was accepted once: a worker deletes only an *)
(* entry it has seen expired for its own reading of the clock, no reading  *)
(* is ahead of the clock, so a pending deletion of a first entry means     *)
(* that the clock has passed its expiry.                                   *)
(***************************************************************************)
EntriesAccepted == \A k \in Proofs : seen[k] # Absent => accepts[k] > 0

FirstEntryKept ==
    \A k \in Proofs :
        accepts[k] > 0 /\ clock <= first[k] =>
            accepts[k] = 1 /\ seen[k] = first[k]

ReadingsPast == \A w \in Workers : now[w] <= clock

VictimsExpired ==
    \A w \in Workers :
        pc[w] = "evict" => /\ accepts[victim[w]] > 0
                           /\ first[victim[w]] < clock

WindowInv ==
    /\ TypeOK
    /\ EntriesAccepted
    /\ FirstEntryKept
    /\ ReadingsPast
    /\ VictimsExpired
    /\ RepeatOnlyIfAccepted
-----------------------------------------------------------------------------
\* What challengeTTL returns is a positive number of ticks.
LEMMA TTLPositive ==
    ASSUME NEW cr \in [ttl : Int, difficulty : Int]
    PROVE  /\ EffectiveTTL(cr.ttl) \in Nat \ {0}
           /\ ChallengeTTL(cr) \in Nat \ {0}
  BY ChallengeAssumption DEF EffectiveTTL, ChallengeTTL, TTLCap

\* Truncating to the second moves an instant back by less than a second.
LEMMA TruncatedBounds ==
    ASSUME NEW t \in Nat
    PROVE  /\ Truncated(t) \in Nat
           /\ Truncated(t) <= t
           /\ t - Second < Truncated(t)
  <1>1. t % Second \in 0..(Second - 1)
    BY ChallengeAssumption
  <1>2. t % Second <= t
    BY ChallengeAssumption
  <1>. QED
    BY <1>1, <1>2, ChallengeAssumption DEF Truncated

LEMMA NoProofIsProof == NoProof \in Proofs
  BY ChallengeAssumption DEF NoProof

-----------------------------------------------------------------------------
\* Type correctness.
LEMMA TypeInit == Init => TypeOK
  BY ChallengeAssumption, NoProofIsProof
  DEF Init, TypeOK, Steps, Answers, NoRules

LEMMA TypeNext == TypeOK /\ [Next]_vars => TypeOK'
  <1>. SUFFICES ASSUME TypeOK, [Next]_vars
                PROVE  TypeOK'
    OBVIOUS
  <1>. USE DEF TypeOK, Goto, Steps, Answers, serving, history
  <1>1. ASSUME NEW c \in Challenges, Issue(c)
        PROVE  TypeOK'
    <2>1. PICK skew \in 0..MaxSkew :
             issued' = [issued EXCEPT ![c] = clock + skew]
      BY <1>1 DEF Issue
    <2>2. clock + skew \in Nat
      BY ChallengeAssumption
    <2>. QED
      BY <1>1, <2>1, <2>2 DEF Issue
  <1>2. ASSUME NEW w \in Workers, NEW k \in Proofs, SubmitProof(w, k)
        PROVE  TypeOK'
    <2>1. conf' \in [Workers -> [ttl : Int, difficulty : Int]]
      <3>1. rules \in [ttl : Int, difficulty : Int]
        BY ChallengeAssumption
      <3>. QED
        BY <1>2, <3>1 DEF SubmitProof
    <2>2. key' \in [Workers -> Proofs]
      BY <1>2, Zenon DEF SubmitProof
    <2>3. pc' \in [Workers -> Steps \cup Answers]
      BY <1>2 DEF SubmitProof
    <2>4. UNCHANGED <<clock, rules, issued, seen, tokens, restarts, now, todo,
                      victim, shown, accepts, first>>
      BY <1>2, Zenon DEF SubmitProof
    <2>. QED
      BY <2>1, <2>2, <2>3, <2>4
  <1>3. ASSUME NEW w \in Workers, CheckProof(w)
        PROVE  TypeOK'
    <2>1. PICK p \in {"sweep", "rejected"} : pc' = [pc EXCEPT ![w] = p]
      BY <1>3, Zenon DEF CheckProof
    <2>2. pc' \in [Workers -> Steps \cup Answers]
      BY <2>1
    <2>3. todo' \in [Workers -> SUBSET Proofs]
      BY <1>3 DEF CheckProof
    <2>4. now' \in [Workers -> Nat]
      BY <1>3 DEF CheckProof
    <2>5. UNCHANGED <<clock, rules, issued, seen, tokens, restarts, key, conf,
                      victim, shown, accepts, first>>
      BY <1>3, Zenon DEF CheckProof
    <2>. QED
      BY <2>2, <2>3, <2>4, <2>5
  <1>4. ASSUME NEW w \in Workers, NEW k \in Proofs, VisitEntry(w, k)
        PROVE  TypeOK'
    BY <1>4 DEF VisitEntry
  <1>5. ASSUME NEW w \in Workers, EvictEntry(w)
        PROVE  TypeOK'
    BY <1>5 DEF EvictEntry
  <1>6. ASSUME NEW w \in Workers, LoadOrStore(w)
        PROVE  TypeOK'
    <2>1. now[w] + ChallengeTTL(conf[w]) \in Nat
      BY TTLPositive
    <2>2. /\ seen' \in [Proofs -> Nat \cup {Absent}]
          /\ first' \in [Proofs -> Nat]
      <3>1. CASE seen[key[w]] = Absent
        <4>. DEFINE expiry == now[w] + ChallengeTTL(conf[w])
        <4>1. /\ seen' = [seen EXCEPT ![key[w]] = expiry]
              /\ first' = [first EXCEPT ![key[w]] =
                             IF accepts[key[w]] = 0 THEN expiry ELSE @]
          BY <1>6, <3>1, Zenon DEF LoadOrStore
        <4>2. expiry \in Nat
          BY <2>1
        <4>. HIDE DEF expiry
        <4>. QED
          BY <4>1, <4>2
      <3>2. CASE seen[key[w]] # Absent
        <4>1. seen' = seen /\ first' = first
          BY <1>6, <3>2, Zenon DEF LoadOrStore
        <4>. QED
          BY <4>1
      <3>. QED
        BY <3>1, <3>2
    <2>3. accepts' \in [Proofs -> Nat]
      BY <1>6 DEF LoadOrStore
    <2>4. pc' \in [Workers -> Steps \cup Answers]
      BY <1>6 DEF LoadOrStore
    <2>. QED
      BY <1>6, <2>2, <2>3, <2>4 DEF LoadOrStore
  <1>7. ASSUME NEW w \in Workers, Mint(w)
        PROVE  TypeOK'
    BY <1>7 DEF Mint
  <1>15. ASSUME NEW w \in Workers, Advertise(w)
         PROVE  TypeOK'
    <2>1. clock + ChallengeTTL(conf[w]) \in Nat
      BY TTLPositive
    <2>2. Truncated(now[w]) \in Nat
      BY TruncatedBounds
    <2>. QED
      BY <1>15, <2>1, <2>2 DEF Advertise
  <1>8. ASSUME NEW w \in Workers, NEW ts \in Minted, PresentToken(w, ts)
        PROVE  TypeOK'
    <2>1. conf' \in [Workers -> [ttl : Int, difficulty : Int]]
      <3>1. rules \in [ttl : Int, difficulty : Int]
        BY ChallengeAssumption
      <3>. QED
        BY <1>8, <3>1 DEF PresentToken
    <2>2. shown' \in [Workers -> Nat]
      <3>1. ts \in Nat
        BY DEF Minted
      <3>. QED
        BY <1>8, <3>1 DEF PresentToken
    <2>3. pc' \in [Workers -> Steps \cup Answers]
      BY <1>8 DEF PresentToken
    <2>. QED
      BY <1>8, <2>1, <2>2, <2>3 DEF PresentToken
  <1>9. ASSUME NEW w \in Workers, CheckToken(w)
        PROVE  TypeOK'
    BY <1>9 DEF CheckToken
  <1>10. ASSUME NEW w \in Workers, Finish(w)
         PROVE  TypeOK'
    BY <1>10, NoProofIsProof DEF Finish, NoRules
  <1>11. CASE Tick
    BY <1>11 DEF Tick
  <1>12. ASSUME NEW cr \in RuleSets, Reload(cr)
         PROVE  TypeOK'
    BY <1>12 DEF Reload
  <1>13. CASE Restart
    BY <1>13, NoProofIsProof DEF Restart, NoRules
  <1>14. CASE UNCHANGED vars
    BY <1>14 DEF vars
  <1>. QED
    BY <1>1, <1>2, <1>3, <1>4, <1>5, <1>6, <1>7, <1>8, <1>9, <1>10, <1>11,
       <1>12, <1>13, <1>14, <1>15
    DEF Next, Verify

\* Every variable keeps its type.
THEOREM TypeCorrect == Spec => []TypeOK
  BY TypeInit, TypeNext, PTL DEF Spec
-----------------------------------------------------------------------------
\* The window invariant.
LEMMA WindowInit == Init => WindowInv
  <1>. SUFFICES ASSUME Init
                PROVE  WindowInv
    OBVIOUS
  <1>1. TypeOK
    BY TypeInit
  <1>2. /\ EntriesAccepted /\ FirstEntryKept /\ ReadingsPast
        /\ VictimsExpired /\ RepeatOnlyIfAccepted
    BY DEF Init, EntriesAccepted, FirstEntryKept, ReadingsPast, VictimsExpired,
           RepeatOnlyIfAccepted
  <1>. QED
    BY <1>1, <1>2 DEF WindowInv

\* A step that changes neither the map nor the history nor a worker's place.
LEMMA WindowFrame ==
    ASSUME WindowInv, TypeOK',
           UNCHANGED <<clock, seen, pc, key, now, victim, accepts, first>>
    PROVE  WindowInv'
  BY DEF WindowInv, EntriesAccepted, FirstEntryKept, ReadingsPast,
         VictimsExpired, RepeatOnlyIfAccepted

\* A step of one worker that leaves clock, map and history alone, takes the
\* worker neither to a deletion nor to a repeat answer and reads, if anything,
\* the present clock.
LEMMA WindowWorker ==
    ASSUME NEW w \in Workers, NEW p, WindowInv, TypeOK',
           UNCHANGED <<clock, seen, accepts, first, victim>>,
           pc' = [pc EXCEPT ![w] = p],
           p \notin {"evict", "replayed"},
           \/ UNCHANGED now
           \/ now' = [now EXCEPT ![w] = clock]
           \/ now' = [now EXCEPT ![w] = 0],
           \A v \in Workers : v # w => key'[v] = key[v]
    PROVE  WindowInv'
  <1>. USE DEF WindowInv, TypeOK
  <1>1. EntriesAccepted' /\ FirstEntryKept'
    BY DEF EntriesAccepted, FirstEntryKept
  <1>2. ReadingsPast'
    <2>1. ASSUME NEW v \in Workers
          PROVE  now'[v] <= clock
      <3>1. now[v] <= clock
        BY DEF ReadingsPast
      <3>2. now'[v] \in {now[v], clock, 0}
        BY Zenon
      <3>. QED
        BY <3>1, <3>2
    <2>. QED
      BY <2>1 DEF ReadingsPast
  <1>3. VictimsExpired'
    BY DEF VictimsExpired
  <1>4. RepeatOnlyIfAccepted'
    BY DEF RepeatOnlyIfAccepted
  <1>. QED
    BY <1>1, <1>2, <1>3, <1>4

LEMMA WindowNext == WindowInv /\ [Next]_vars => WindowInv'
  <1>. SUFFICES ASSUME WindowInv, [Next]_vars
                PROVE  WindowInv'
    OBVIOUS
  <1>0. TypeOK /\ TypeOK'
    BY TypeNext DEF WindowInv
  <1>. USE DEF serving, history, Goto
  <1>1. ASSUME NEW c \in Challenges, Issue(c)
        PROVE  WindowInv'
    BY <1>0, <1>1, WindowFrame DEF Issue
  <1>2. ASSUME NEW w \in Workers, NEW k \in Proofs, SubmitProof(w, k)
        PROVE  WindowInv'
    <2>1. \A v \in Workers : v # w => key'[v] = key[v]
      BY <1>0, <1>2, Zenon DEF SubmitProof, TypeOK
    <2>2. PICK p \in {"check", "rejected"} : pc' = [pc EXCEPT ![w] = p]
      BY <1>2, Zenon DEF SubmitProof
    <2>3. UNCHANGED <<clock, seen, accepts, first, victim, now>>
      BY <1>2, Zenon DEF SubmitProof
    <2>. QED
      BY <1>0, <2>1, <2>2, <2>3, WindowWorker
  <1>3. ASSUME NEW w \in Workers, CheckProof(w)
        PROVE  WindowInv'
    <2>1. PICK p \in {"sweep", "rejected"} : pc' = [pc EXCEPT ![w] = p]
      BY <1>3, Zenon DEF CheckProof
    <2>. QED
      BY <1>0, <1>3, <2>1, WindowWorker DEF CheckProof
  <1>4. ASSUME NEW w \in Workers, NEW k \in Proofs, VisitEntry(w, k)
        PROVE  WindowInv'
    <2>1. CASE ~Expired(k, now[w])
      BY <1>0, <1>4, <2>1, WindowFrame DEF VisitEntry
    <2>2. CASE Expired(k, now[w])
      <3>1. now[w] <= clock
        BY DEF WindowInv, ReadingsPast
      <3>2. accepts[k] > 0 /\ first[k] < clock
        <4>1. seen[k] # Absent /\ seen[k] < now[w]
          BY <2>2 DEF Expired
        <4>2. accepts[k] > 0
          BY <4>1 DEF WindowInv, EntriesAccepted
        <4>3. clock <= first[k] => seen[k] = first[k]
          BY <4>2 DEF WindowInv, FirstEntryKept
        <4>4. /\ clock \in Int /\ first[k] \in Int /\ now[w] \in Int
              /\ seen[k] \in Int
          BY <1>0 DEF TypeOK
        <4>. QED
          BY <3>1, <4>1, <4>2, <4>3, <4>4
      <3>3. VictimsExpired'
        BY <1>0, <1>4, <2>2, <3>2
        DEF VisitEntry, VictimsExpired, WindowInv, TypeOK
      <3>4. /\ EntriesAccepted' /\ FirstEntryKept' /\ ReadingsPast'
            /\ RepeatOnlyIfAccepted'
        BY <1>0, <1>4, <2>2
        DEF VisitEntry, WindowInv, TypeOK, EntriesAccepted, FirstEntryKept,
            ReadingsPast, RepeatOnlyIfAccepted
      <3>. QED
        BY <1>0, <3>3, <3>4 DEF WindowInv
    <2>. QED
      BY <2>1, <2>2
  <1>5. ASSUME NEW w \in Workers, EvictEntry(w)
        PROVE  WindowInv'
    <2>1. first[victim[w]] < clock
      BY <1>5 DEF EvictEntry, WindowInv, VictimsExpired
    <2>2. FirstEntryKept' /\ EntriesAccepted'
      BY <1>0, <1>5, <2>1
      DEF EvictEntry, WindowInv, TypeOK, FirstEntryKept, EntriesAccepted
    <2>3. ReadingsPast' /\ VictimsExpired' /\ RepeatOnlyIfAccepted'
      BY <1>0, <1>5
      DEF EvictEntry, WindowInv, TypeOK, ReadingsPast, VictimsExpired,
          RepeatOnlyIfAccepted
    <2>. QED
      BY <1>0, <2>2, <2>3 DEF WindowInv
  <1>6. ASSUME NEW w \in Workers, LoadOrStore(w)
        PROVE  WindowInv'
    <2>1. CASE seen[key[w]] # Absent
      <3>1. accepts[key[w]] > 0
        BY <1>0, <2>1 DEF WindowInv, EntriesAccepted, TypeOK
      <3>2. RepeatOnlyIfAccepted'
        BY <1>0, <1>6, <2>1, <3>1
        DEF LoadOrStore, RepeatOnlyIfAccepted, WindowInv, TypeOK
      <3>3. /\ EntriesAccepted' /\ FirstEntryKept' /\ ReadingsPast'
            /\ VictimsExpired'
        BY <1>0, <1>6, <2>1
        DEF LoadOrStore, WindowInv, TypeOK, EntriesAccepted, FirstEntryKept,
            ReadingsPast, VictimsExpired
      <3>. QED
        BY <1>0, <3>2, <3>3 DEF WindowInv
    <2>2. CASE seen[key[w]] = Absent
      <3>. DEFINE k == key[w]
                  expiry == now[w] + ChallengeTTL(conf[w])
      <3>1. /\ seen' = [seen EXCEPT ![k] = expiry]
            /\ accepts' = [accepts EXCEPT ![k] = @ + 1]
            /\ first' = [first EXCEPT ![k] = IF accepts[k] = 0 THEN expiry
                                             ELSE @]
            /\ pc' = [pc EXCEPT ![w] = "mint"]
            /\ UNCHANGED <<clock, key, now, victim>>
        BY <1>6, <2>2 DEF LoadOrStore
      <3>2. k \in Proofs /\ expiry \in Nat
        BY <1>0, TTLPositive DEF TypeOK
      <3>. HIDE DEF k, expiry
      <3>3. accepts[k] > 0 => first[k] < clock
        <4>1. seen[k] = Absent
          BY <2>2 DEF k
        <4>2. accepts[k] > 0 /\ clock <= first[k] => seen[k] = first[k]
          BY <3>2 DEF WindowInv, FirstEntryKept
        <4>3. clock \in Nat /\ first[k] \in Nat
          BY <1>0, <3>2 DEF TypeOK
        <4>. QED
          BY <4>1, <4>2, <4>3
      <3>4. EntriesAccepted' /\ FirstEntryKept'
        BY <1>0, <3>1, <3>2, <3>3
        DEF WindowInv, TypeOK, EntriesAccepted, FirstEntryKept
      <3>5. VictimsExpired'
        <4>. SUFFICES ASSUME NEW v \in Workers, pc'[v] = "evict"
                      PROVE  /\ accepts'[victim'[v]] > 0
                             /\ first'[victim'[v]] < clock'
          BY DEF VictimsExpired
        <4>1. /\ pc[v] = "evict"
              /\ accepts[victim[v]] > 0
              /\ first[victim[v]] < clock
          BY <1>0, <3>1 DEF WindowInv, VictimsExpired, TypeOK
        <4>. QED
          BY <1>0, <3>1, <3>2, <4>1 DEF TypeOK
      <3>6. ReadingsPast' /\ RepeatOnlyIfAccepted'
        BY <1>0, <3>1, <3>2
        DEF WindowInv, TypeOK, ReadingsPast, RepeatOnlyIfAccepted
      <3>. QED
        BY <1>0, <3>4, <3>5, <3>6 DEF WindowInv
    <2>. QED
      BY <2>1, <2>2
  <1>7. ASSUME NEW w \in Workers, Mint(w)
        PROVE  WindowInv'
    BY <1>0, <1>7, WindowWorker DEF Mint
  <1>15. ASSUME NEW w \in Workers, Advertise(w)
         PROVE  WindowInv'
    BY <1>0, <1>15, WindowWorker DEF Advertise
  <1>8. ASSUME NEW w \in Workers, NEW ts \in Minted, PresentToken(w, ts)
        PROVE  WindowInv'
    <2>1. PICK p \in {"admit", "rejected"} : pc' = [pc EXCEPT ![w] = p]
      BY <1>8, Zenon DEF PresentToken
    <2>. QED
      BY <1>0, <1>8, <2>1, WindowWorker DEF PresentToken
  <1>9. ASSUME NEW w \in Workers, CheckToken(w)
        PROVE  WindowInv'
    <2>1. PICK p \in {"admitted", "refused"} : pc' = [pc EXCEPT ![w] = p]
      BY <1>9, Zenon DEF CheckToken
    <2>. QED
      BY <1>0, <1>9, <2>1, WindowWorker DEF CheckToken
  <1>10. ASSUME NEW w \in Workers, Finish(w)
         PROVE  WindowInv'
    BY <1>0, <1>10
    DEF Finish, WindowInv, TypeOK, EntriesAccepted, FirstEntryKept,
        ReadingsPast, VictimsExpired, RepeatOnlyIfAccepted
  <1>11. CASE Tick
    BY <1>0, <1>11
    DEF Tick, WindowInv, TypeOK, EntriesAccepted, FirstEntryKept, ReadingsPast,
        VictimsExpired, RepeatOnlyIfAccepted
  <1>12. ASSUME NEW cr \in RuleSets, Reload(cr)
         PROVE  WindowInv'
    BY <1>0, <1>12, WindowFrame DEF Reload
  <1>13. CASE Restart
    BY <1>0, <1>13
    DEF Restart, WindowInv, TypeOK, EntriesAccepted, FirstEntryKept,
        ReadingsPast, VictimsExpired, RepeatOnlyIfAccepted
  <1>14. CASE UNCHANGED vars
    BY <1>0, <1>14, WindowFrame DEF vars
  <1>. QED
    BY <1>1, <1>2, <1>3, <1>4, <1>5, <1>6, <1>7, <1>8, <1>9, <1>10, <1>11,
       <1>12, <1>13, <1>14, <1>15
    DEF Next, Verify

LEMMA WindowInvariant == Spec => []WindowInv
  BY WindowInit, WindowNext, PTL DEF Spec

\* verifyPOW accepts a proof once while its first entry lives, however many
\* workers race, whatever TTLs reloads install, however stale a reading is.
THEOREM OnceInWindow == Spec => []AcceptedOnceInWindow
  <1>1. WindowInv => AcceptedOnceInWindow
    <2>. SUFFICES ASSUME WindowInv, NEW k \in Proofs, accepts[k] > 1
                  PROVE  clock > first[k]
      BY DEF AcceptedOnceInWindow
    <2>1. accepts[k] \in Nat /\ clock \in Nat /\ first[k] \in Nat
      BY DEF WindowInv, TypeOK
    <2>2. accepts[k] > 0 /\ clock <= first[k] => accepts[k] = 1
      BY DEF WindowInv, FirstEntryKept
    <2>. QED
      BY <2>1, <2>2
  <1>. QED
    BY <1>1, WindowInvariant, PTL

\* A proof is called a repeat only after it was accepted: racing workers never
\* reject one another without one of them succeeding.
THEOREM RepeatsWereAccepted == Spec => []RepeatOnlyIfAccepted
  <1>1. WindowInv => RepeatOnlyIfAccepted
    BY DEF WindowInv
  <1>. QED
    BY <1>1, WindowInvariant, PTL
-----------------------------------------------------------------------------
(***************************************************************************)
(* Tokens.  A minted token carries the second in which it was minted, and  *)
(* a worker that refuses one has found it older than the configured TTL of *)
(* the rules it loaded, whatever was reloaded since.                       *)
(***************************************************************************)
TokensTruncated == \A t \in tokens : t.ts = Truncated(t.at)

RefusalsAged ==
    \A w \in Workers :
        pc[w] = "refused" => now[w] - shown[w] > EffectiveTTL(conf[w].ttl)

TokenInv == TypeOK /\ TokensTruncated /\ RefusalsAged

LEMMA TokenInit == Init => TokenInv
  BY TypeInit DEF Init, TokenInv, TokensTruncated, RefusalsAged

\* A step of one worker that mints nothing and refuses nothing.
LEMMA TokenWorker ==
    ASSUME NEW w \in Workers, NEW p, TokenInv, TypeOK',
           UNCHANGED tokens, pc' = [pc EXCEPT ![w] = p], p # "refused",
           \A v \in Workers \ {w} : /\ now'[v] = now[v]
                                    /\ shown'[v] = shown[v]
                                    /\ conf'[v] = conf[v]
    PROVE  TokenInv'
  BY DEF TokenInv, TypeOK, TokensTruncated, RefusalsAged

\* A step that changes no place, reading, shown timestamp or loaded rules.
LEMMA TokenFrame ==
    ASSUME TokenInv, TypeOK', UNCHANGED <<tokens, pc, now, shown, conf>>
    PROVE  TokenInv'
  BY DEF TokenInv, TokensTruncated, RefusalsAged

LEMMA TokenNext == TokenInv /\ [Next]_vars => TokenInv'
  <1>. SUFFICES ASSUME TokenInv, [Next]_vars
                PROVE  TokenInv'
    OBVIOUS
  <1>0. TypeOK /\ TypeOK'
    BY TypeNext DEF TokenInv
  <1>. USE DEF serving, history, Goto
  <1>1. ASSUME NEW c \in Challenges, Issue(c)
        PROVE  TokenInv'
    BY <1>0, <1>1, TokenFrame DEF Issue
  <1>2. ASSUME NEW w \in Workers, NEW k \in Proofs, SubmitProof(w, k)
        PROVE  TokenInv'
    <2>1. PICK p \in {"check", "rejected"} : pc' = [pc EXCEPT ![w] = p]
      BY <1>2, Zenon DEF SubmitProof
    <2>2. \A v \in Workers \ {w} : conf'[v] = conf[v]
      BY <1>0, <1>2, Zenon DEF SubmitProof, TypeOK
    <2>3. UNCHANGED <<tokens, now, shown>>
      BY <1>2, Zenon DEF SubmitProof
    <2>. QED
      BY <1>0, <2>1, <2>2, <2>3, TokenWorker
  <1>3. ASSUME NEW w \in Workers, CheckProof(w)
        PROVE  TokenInv'
    <2>1. PICK p \in {"sweep", "rejected"} : pc' = [pc EXCEPT ![w] = p]
      BY <1>3, Zenon DEF CheckProof
    <2>2. \A v \in Workers \ {w} : now'[v] = now[v]
      BY <1>0, <1>3, Zenon DEF CheckProof, TypeOK
    <2>3. UNCHANGED <<tokens, conf, shown>>
      BY <1>3, Zenon DEF CheckProof
    <2>. QED
      BY <1>0, <2>1, <2>2, <2>3, TokenWorker
  <1>4. ASSUME NEW w \in Workers, NEW k \in Proofs, VisitEntry(w, k)
        PROVE  TokenInv'
    <2>1. CASE ~Expired(k, now[w])
      BY <1>0, <1>4, <2>1, TokenFrame DEF VisitEntry
    <2>2. CASE Expired(k, now[w])
      BY <1>0, <1>4, <2>2, TokenWorker DEF VisitEntry
    <2>. QED
      BY <2>1, <2>2
  <1>5. ASSUME NEW w \in Workers, EvictEntry(w)
        PROVE  TokenInv'
    BY <1>0, <1>5, TokenWorker DEF EvictEntry
  <1>6. ASSUME NEW w \in Workers, LoadOrStore(w)
        PROVE  TokenInv'
    <2>1. PICK p \in {"mint", "replayed"} : pc' = [pc EXCEPT ![w] = p]
      BY <1>6, Zenon DEF LoadOrStore
    <2>2. UNCHANGED <<tokens, now, conf, shown>>
      BY <1>6, Zenon DEF LoadOrStore
    <2>. QED
      BY <1>0, <2>1, <2>2, TokenWorker
  <1>7. ASSUME NEW w \in Workers, Mint(w)
        PROVE  TokenInv'
    BY <1>0, <1>7, TokenWorker DEF Mint, TypeOK
  <1>15. ASSUME NEW w \in Workers, Advertise(w)
         PROVE  TokenInv'
    <2>1. TokensTruncated'
      BY <1>15 DEF Advertise, TokenInv, TokensTruncated
    <2>2. RefusalsAged'
      BY <1>0, <1>15 DEF Advertise, TokenInv, RefusalsAged, TypeOK
    <2>. QED
      BY <1>0, <2>1, <2>2 DEF TokenInv
  <1>8. ASSUME NEW w \in Workers, NEW ts \in Minted, PresentToken(w, ts)
        PROVE  TokenInv'
    <2>1. PICK p \in {"admit", "rejected"} : pc' = [pc EXCEPT ![w] = p]
      BY <1>8, Zenon DEF PresentToken
    <2>2. \A v \in Workers \ {w} : conf'[v] = conf[v] /\ shown'[v] = shown[v]
      BY <1>0, <1>8, Zenon DEF PresentToken, TypeOK
    <2>3. UNCHANGED <<tokens, now>>
      BY <1>8, Zenon DEF PresentToken
    <2>. QED
      BY <1>0, <2>1, <2>2, <2>3, TokenWorker
  <1>9. ASSUME NEW w \in Workers, CheckToken(w)
        PROVE  TokenInv'
    <2>1. CASE ValidToken(w, clock)
      BY <1>0, <1>9, <2>1, TokenWorker DEF CheckToken, TypeOK
    <2>2. CASE ~ValidToken(w, clock)
      <3>1. /\ pc' = [pc EXCEPT ![w] = "refused"]
            /\ now' = [now EXCEPT ![w] = clock]
            /\ UNCHANGED <<tokens, shown, conf>>
        BY <1>9, <2>2 DEF CheckToken
      <3>2. RefusalsAged'
        BY <1>0, <2>2, <3>1 DEF ValidToken, TokenInv, RefusalsAged, TypeOK
      <3>. QED
        BY <1>0, <3>1, <3>2 DEF TokenInv, TokensTruncated
    <2>. QED
      BY <2>1, <2>2
  <1>10. ASSUME NEW w \in Workers, Finish(w)
         PROVE  TokenInv'
    BY <1>0, <1>10, TokenWorker DEF Finish, TypeOK
  <1>11. CASE Tick
    BY <1>0, <1>11, TokenFrame DEF Tick
  <1>12. ASSUME NEW cr \in RuleSets, Reload(cr)
         PROVE  TokenInv'
    BY <1>0, <1>12, TokenFrame DEF Reload
  <1>13. CASE Restart
    BY <1>0, <1>13 DEF Restart, TokenInv, TokensTruncated, RefusalsAged
  <1>14. CASE UNCHANGED vars
    BY <1>0, <1>14, TokenFrame DEF vars
  <1>. QED
    BY <1>1, <1>2, <1>3, <1>4, <1>5, <1>6, <1>7, <1>8, <1>9, <1>10, <1>11,
       <1>12, <1>13, <1>14, <1>15
    DEF Next, Verify

\* Passed honours the expiry that verify advertised up to the truncation of the
\* token's timestamp and the time from signing to answering, for every TTL, ceiling and sequence of reloads.
THEOREM TokensHonoured == Spec => []TokenHonoured
  <1>1. TokenInv => TokenHonoured
    <2>. SUFFICES ASSUME TokenInv, NEW w \in Workers, NEW t \in tokens,
                         pc[w] = "refused", shown[w] = t.ts,
                         EffectiveTTL(conf[w].ttl) >= t.until - t.sent
                  PROVE  now[w] > t.until - Second - (t.sent - t.at)
      BY DEF TokenHonoured
    <2>1. t.at \in Nat /\ t.sent \in Nat /\ t.until \in Nat /\ now[w] \in Nat
      BY DEF TokenInv, TypeOK
    <2>2. EffectiveTTL(conf[w].ttl) \in Nat
      BY TTLPositive DEF TokenInv, TypeOK
    <2>3. now[w] - shown[w] > EffectiveTTL(conf[w].ttl)
      BY DEF TokenInv, RefusalsAged
    <2>4. t.at - Second < shown[w] /\ shown[w] \in Nat
      BY <2>1, TruncatedBounds DEF TokenInv, TokensTruncated
    <2>. QED
      BY <2>1, <2>2, <2>3, <2>4, ChallengeAssumption
  <1>2. Spec => []TokenInv
    BY TokenInit, TokenNext, PTL DEF Spec
  <1>. QED
    BY <1>1, <1>2, PTL
=============================================================================
