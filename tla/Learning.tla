------------------------------ MODULE Learning ------------------------------
(* Online learning (internal/ml): the Bayes classifier counts the features *)
(* of labelled requests; the miner proposes those that stand for agents in *)
(* the table rule_candidates and in learned.yaml; what is active there is  *)
(* seeded into the classifier at the start and whenever the watcher sees   *)
(* the file change; operators flip the flag in either place at any time.    *)
(* The database and the file may refuse any call of the miner.             *)
EXTENDS Integers, Sequences, FiniteSets, SequencesExt

CONSTANTS
    Pairs,             \* <<feature, bucket>>
    Vectors,           \* the features of a request: sequences of pairs
    Community,         \* active entries of the learned/ directory, without counts
    None,
    MaxBayesEntries,
    SampleSize,        \* how many entries evictLowest looks at
    MinSupport, PostNum, PostDen,   \* thresholds of the miner
    AutoNum,           \* auto_promote_confidence over PostDen; 0: never
    SeedAgents,        \* what an entry without counts is worth
    MaxUpdates, MaxReloads, MaxEdits, MaxTicks, MaxRestarts, MaxErrors   \* bounds

VARIABLES
    model,             \* the classifier
    yaml,              \* learned.yaml
    rows,              \* rule_candidates: the active flags
    tick,              \* the pass of the miner
    bounds,            \* how often each bounded action happened
    kept,              \* history: pairs a completed pass found active
    demoted,           \* history: pairs an operator demoted between two passes
    mined              \* history: learned.yaml is as the miner wrote it, with the table at hand

vars == <<model, yaml, rows, tick, bounds, kept, demoted, mined>>

Labels == {"agent", "human"}
Features == {p[1] : p \in Pairs}
Pair == [agent : Nat, human : Nat]
Zero == [agent |-> 0, human |-> 0]
Partial(D, R) == UNION {[S -> R] : S \in SUBSET D}
Empty == [p \in {} |-> None]
Support(n) == n.agent + n.human

-----------------------------------------------------------------------------
(* The classifier.                                                         *)

Fresh == [counts |-> Empty, vocab |-> [f \in Features |-> 0], entries |-> 0, agent |-> 0, human |-> 0,
          total |-> 0]

Known(m) == DOMAIN m.counts
Count(m, p) == IF p \in Known(m) THEN m.counts[p] ELSE Zero
Put(m, p, n) == [m EXCEPT !.counts = [q \in Known(m) \cup {p} |-> IF q = p THEN n ELSE m.counts[q]]]
NewEntry(m, p) == [m EXCEPT !.vocab[p[1]] = @ + 1, !.entries = @ + 1]
Drop(m, p) == [m EXCEPT !.counts = [q \in Known(m) \ {p} |-> m.counts[q]]]

\* The entries that are the lowest of some sample.
Lowest(m) ==
    LET size == IF Cardinality(Known(m)) < SampleSize THEN Cardinality(Known(m)) ELSE SampleSize IN
    {p \in Known(m) :
        Cardinality({q \in Known(m) : Support(m.counts[q]) >= Support(m.counts[p])}) >= size}

\* Mutant: the entry that makes room stays in the size of the vocabulary.
EvictKeepsVocab(m) ==
    IF Known(m) = {} THEN {m} ELSE {[Drop(m, p) EXCEPT !.entries = @ - 1] : p \in Lowest(m)}

\* evictLowest.
EvictLowest(m) ==
    IF Known(m) = {} THEN {m}
    ELSE {[Drop(m, p) EXCEPT !.vocab[p[1]] = @ - 1, !.entries = @ - 1] : p \in Lowest(m)}

\* Update, one feature: a new entry counts before another makes room for it.
Noted(m, p, label) ==
    LET fresh == NewEntry(m, p)
        rooms == IF p \in Known(m) THEN {m}
                 ELSE IF fresh.entries > MaxBayesEntries THEN EvictLowest(fresh) ELSE {fresh} IN
    {Put(r, p, [Count(m, p) EXCEPT ![label] = @ + 1]) : r \in rooms}

\* Update: the classes, and every feature of the request in its order.
Update(m, v, label) ==
    LET counted == [m EXCEPT ![label] = @ + 1, !.total = @ + 1] IN
    FoldLeft(LAMBDA ms, p : UNION {Noted(x, p, label) : x \in ms}, {counted}, v)

\* Seed adds to what is there, whatever the number of entries.
Seed(m, p, n) ==
    IF Support(n) = 0 THEN m
    ELSE LET r == IF Count(m, p) = Zero THEN NewEntry(m, p) ELSE m
             c == Count(m, p) IN
         [Put(r, p, [agent |-> c.agent + n.agent, human |-> c.human + n.human]) EXCEPT
             !.agent = @ + n.agent, !.human = @ + n.human, !.total = @ + Support(n)]

\* SeedFromLearned of the active entries: their posterior times their support,
\* rounded; an entry without counts is worth a few agents.
Synthetic == [agent |-> SeedAgents, human |-> 0]
Worth(e) ==
    LET s == e.support
        a == ((e.agent + 1) * s * 2 + s + 2) \div (2 * (s + 2)) IN
    [agent |-> a, human |-> s - a]
SeedFromLearned(m, file) ==
    LET active == SetToSeq({p \in DOMAIN file : file[p].active})
        once == FoldLeft(LAMBDA x, p : Seed(x, p, Worth(file[p])), m, active) IN
    FoldLeft(LAMBDA x, p : Seed(x, p, Synthetic), once, SetToSeq(Community))

-----------------------------------------------------------------------------

Bounds == [updates |-> MaxUpdates, reloads |-> MaxReloads, edits |-> MaxEdits,
           ticks |-> MaxTicks, restarts |-> MaxRestarts, errors |-> MaxErrors]
Again(what) == bounds[what] < Bounds[what] /\ bounds' = [bounds EXCEPT ![what] = @ + 1]
\* A call of the miner fails or not.
May(fails) == IF fails THEN Again("errors") ELSE UNCHANGED bounds
NoTick == [at |-> "idle", listed |-> FALSE, found |-> Empty]

Init ==
    /\ yaml = Empty /\ rows = Empty /\ tick = NoTick
    /\ model = SeedFromLearned(Fresh, yaml)
    /\ bounds = [b \in DOMAIN Bounds |-> 0]
     /\ kept = {} /\ demoted = {} /\ mined = FALSE

\* Observe: a request that got a label.
Observe ==
    \E v \in Vectors, label \in Labels :
        /\ Again("updates")
        /\ model' \in Update(model, v, label)
        /\ UNCHANGED <<yaml, rows, tick, kept, demoted, mined>>

\* The watcher saw a write of learned.yaml, the miner's own included.
Reload ==
    /\ Again("reloads") /\ model' = SeedFromLearned(model, yaml)
    /\ UNCHANGED <<yaml, rows, tick, kept, demoted, mined>>

\* A new process: the counts start again from the files.
Restart ==
    /\ Again("restarts") /\ model' = SeedFromLearned(Fresh, yaml) /\ tick' = NoTick
    /\ UNCHANGED <<yaml, rows, kept, demoted, mined>>

-----------------------------------------------------------------------------
(* The miner.                                                              *)

Proposed(n) ==
    /\ Support(n) >= MinSupport
    /\ (n.agent + 1) * PostDen >= PostNum * (Support(n) + 2)
Certain(n) == AutoNum > 0 /\ (n.agent + 1) * PostDen >= AutoNum * (Support(n) + 2)

\* Tick: the candidates of a snapshot.
Snapshot ==
    /\ tick.at = "idle" /\ model.total > 0 /\ Again("ticks")
    /\ LET cands == {p \in Known(model) : Proposed(model.counts[p])} IN
       tick' = [at |-> "upsert", listed |-> FALSE,
                found |-> [p \in cands |-> [active |-> Certain(model.counts[p]),
                                            agent |-> model.counts[p].agent,
                                            support |-> Support(model.counts[p])]]]
    /\ UNCHANGED <<model, yaml, rows, kept, demoted, mined>>

Found == DOMAIN tick.found
Active(p) == p \in DOMAIN rows /\ rows[p]

\* UpsertCandidate: a new row is not active, an old one keeps its flag; errors are
\* dropped.
Upsert ==
    /\ tick.at = "upsert" /\ tick' = [tick EXCEPT !.at = "merge"]
    /\ \E done \in SUBSET Found :
          /\ May(done # Found)
          /\ rows' = [p \in DOMAIN rows \cup done |-> Active(p)]
    /\ UNCHANGED <<model, yaml, kept, demoted, mined>>

\* writeYAML: active is what either place says is active, of those that can be read.
Merge ==
    /\ tick.at = "merge"
    /\ \E lists, reads \in BOOLEAN :
          /\ May(~(lists /\ reads))
          /\ tick' = [at |-> "write", listed |-> lists,
                      found |-> [p \in Found |-> [tick.found[p] EXCEPT
                          !.active = @ \/ (lists /\ Active(p)) \/ (reads /\ p \in DOMAIN yaml /\ yaml[p].active)]]]
    /\ UNCHANGED <<model, yaml, rows, kept, demoted, mined>>

\* Mutant: an entry that was in the file before is written as it was found there.
WriteOld ==
    /\ tick.at = "write" /\ mined' = tick.listed
    /\ yaml' = [p \in Found |-> IF p \in DOMAIN yaml THEN [tick.found[p] EXCEPT !.active = yaml[p].active]
                              ELSE tick.found[p]]
    /\ tick' = [tick EXCEPT !.at = "push"]
    /\ UNCHANGED <<model, rows, bounds, kept, demoted>>

\* The temporary file takes the place of learned.yaml.
Write ==
    /\ tick.at = "write" /\ yaml' = tick.found /\ mined' = tick.listed
    /\ tick' = [tick EXCEPT !.at = "push"]
    /\ UNCHANGED <<model, rows, bounds, kept, demoted>>

\* A directory or file that cannot be made ends the pass.
WriteFails ==
    /\ tick.at = "write" /\ May(TRUE) /\ tick' = NoTick
    /\ UNCHANGED <<model, yaml, rows, kept, demoted, mined>>

\* SetCandidateActive for what was found active, an update of its row; errors are
\* dropped.
Push ==
    /\ tick.at = "push" /\ tick' = NoTick
    /\ LET found == {p \in Found : tick.found[p].active} IN
       \E done \in SUBSET found :
          /\ May(done # found)
          /\ rows' = [p \in DOMAIN rows |-> p \in done \/ rows[p]]
          /\ kept' = kept \cup (done \cap DOMAIN rows)
    /\ UNCHANGED <<model, yaml, demoted, mined>>

-----------------------------------------------------------------------------
(* The operator, at any time.                                              *)

\* Demotes or promotes; what is done during a pass is not expected to last.
Flip(p, active) ==
    demoted' = IF active /\ tick.at = "idle" THEN demoted \cup {p} ELSE demoted \ {p}

\* The flag of an entry of learned.yaml is flipped, or the file removed.
EditFile ==
    /\ Again("edits") /\ mined' = FALSE
    /\ \/ \E p \in DOMAIN yaml :
             yaml' = [yaml EXCEPT ![p].active = ~@] /\ Flip(p, yaml[p].active)
       \/ yaml # Empty /\ yaml' = Empty /\ UNCHANGED demoted
    /\ UNCHANGED <<model, rows, tick, kept>>

\* The flag of a row is flipped with SQL.
EditTable ==
    /\ Again("edits")
    /\ \E p \in DOMAIN rows :
          rows' = [rows EXCEPT ![p] = ~@] /\ Flip(p, rows[p]) /\ kept' = kept \ {p}
    /\ mined' = FALSE
    /\ UNCHANGED <<model, yaml, tick>>

Next ==
    \/ Observe \/ Reload \/ Restart
    \/ Snapshot \/ Upsert \/ Merge \/ Write \/ WriteFails \/ Push
    \/ EditFile \/ EditTable

Spec == Init /\ [][Next]_vars

-----------------------------------------------------------------------------
(* Properties.                                                             *)

\* The type of the state.
TypeOK ==
    /\ Known(model) \subseteq Pairs /\ \A p \in Known(model) : model.counts[p] \in Pair
    /\ model.vocab \in [Features -> Nat] /\ model.entries \in Nat
    /\ DOMAIN yaml \subseteq Pairs
    /\ \A p \in DOMAIN yaml : yaml[p] \in [active : BOOLEAN, agent : Nat, support : Nat]
    /\ rows \in Partial(Pairs, BOOLEAN)
    /\ tick.at \in {"idle", "upsert", "merge", "write", "push"} /\ tick.listed \in BOOLEAN /\ Found \subseteq Pairs
    /\ kept \subseteq Pairs /\ demoted \subseteq Pairs /\ mined \in BOOLEAN

\* Posterior divides by the size of the vocabulary, and the gauge shows the number of
\* entries: both are counted along with insertions, evictions and seeds, and stay
\* what the histogram holds.
HistogramCounted ==
    /\ model.entries = Cardinality(Known(model))
    /\ \A f \in Features : model.vocab[f] = Cardinality({p \in Known(model) : p[1] = f})
    /\ model.total = model.agent + model.human

\* store.go:388 "Preserves the active flag ... so operator promotions survive
\* subsequent miner ticks": what a pass found active and wrote to the table is active in
\* every later learned.yaml of the miner that lists it, over restarts, failing calls,
\* lost files and traffic that hides it for a while, unless its row is demoted or the
\* pass that wrote the file could not read the table.
PromotionSurvives ==
    mined /\ tick.at = "idle" => \A p \in kept \cap DOMAIN yaml : yaml[p].active

\* promote-learned-rules.md:148 "Set active: false in learned.yaml ... Or: UPDATE
\* rule_candidates SET active = 0": after the next pass of the miner the candidate is
\* still demoted.
DemotedStaysDemoted ==
    mined /\ tick.at = "idle" /\ AutoNum = 0 =>
        \A p \in demoted \cap DOMAIN yaml : ~yaml[p].active
=============================================================================
