-------------------------------- MODULE Forest --------------------------------
(***************************************************************************)
(* The isolation forest of internal/ml: requests leave their numeric       *)
(* vectors in a ring, a ticker in main() refits the forest from it on a    *)
(* goroutine of its own, and requests are scored by the forest in use.     *)
(* The trees of a forest are grown in the same way, and one stands for     *)
(* all; path lengths are told by the leaf a row ends in.                   *)
(***************************************************************************)
EXTENDS Integers, Sequences, FiniteSets, SequencesExt

CONSTANTS
    None,
    Width,      \* numeric features of a request
    Numerics,   \* their vectors
    Settings,   \* ml.yaml, one reload after the other: [enabled, every, burnIn, most, sample, depth]
    MinRows,    \* rows a fit asks for: 32
    MaxObserved, MaxTicks, MaxRestarts  \* bounds

VARIABLES
    conf,       \* the settings in force
    cap,        \* bufCap
    recent,     \* the ring: rows with their number
    observed,   \* labelled requests
    refitting,
    fits,       \* goroutines of RefitIsoForestAsync
    forest,     \* [newest, rows, depth, tree]: what it was fitted to, or None
    answer,     \* what the last request was told by the forest, or None
    count       \* how often each bounded action happened

vars == <<conf, cap, recent, observed, refitting, fits, forest, answer, count>>

Now == Settings[conf]
Bounds == [rows |-> MaxObserved, ticks |-> MaxTicks, restarts |-> MaxRestarts]
Again(what) == count[what] < Bounds[what] /\ count' = [count EXCEPT ![what] = @ + 1]
-----------------------------------------------------------------------------
(* A tree is a leaf, or a feature with a split and the trees of both sides. *)

Leaf(S, depth) == [feat |-> None, depth |-> depth, size |-> Cardinality(S)]
Column(S, f) == {r.x[f] : r \in S}

\* The trees that may grow from the rows S when those below may be any of lower: a feature
\* that differs is split anywhere between its least and its greatest value (for a split
\* between two integers the greater stands), but the draw may meet constant features only.
Splits(S, f) == {s \in Column(S, f) : Cardinality(Column(S, f)) > 1}
Divided(lower, S, f, s) ==
    {[feat |-> f, split |-> s, left |-> sides[1], right |-> sides[2]] :
        sides \in lower[{q \in S : q.x[f] < s}] \X lower[{q \in S : q.x[f] >= s}]}
Branched(lower, S, depth) ==
    (IF \E f \in 1..Width : Splits(S, f) = {} THEN {Leaf(S, depth)} ELSE {}) \cup
    UNION {UNION {Divided(lower, S, f, s) : s \in Splits(S, f)} : f \in 1..Width}

\* growTree, from the number of levels that are left.
Grown(all, max) ==
    LET grown[left \in 0..max] ==
            [S \in SUBSET all |-> IF left = 0 \/ Cardinality(S) <= 1 THEN {Leaf(S, max - left)}
                                  ELSE Branched(grown[left - 1], S, max - left)]
    IN  grown[max][all]

\* pathLength: the leaf of a row, no further down than the depth of the forest.
Side(tree, x) == IF x[tree.feat] < tree.split THEN tree.left ELSE tree.right
Ends(f, x) ==
    LET node[d \in 0..f.depth] ==
            IF d = 0 THEN f.tree
            ELSE IF node[d - 1].feat = None THEN node[d - 1] ELSE Side(node[d - 1], x)
    IN  node[f.depth]

\* reservoirSample, sample: any n of the rows.
Samples(S, n) ==
    IF n <= 0 \/ n >= Cardinality(S) THEN {S} ELSE {T \in SUBSET S : Cardinality(T) = n}
-----------------------------------------------------------------------------
\* Observe: a request with or without a label leaves its row, the oldest one goes.
Observe ==
    /\ Again("rows")
    /\ \E x \in Numerics, labelled \in BOOLEAN :
          /\ observed' = observed + (IF labelled THEN 1 ELSE 0)
          /\ LET row == [n |-> count.rows + 1, x |-> x] IN
             recent' = Append(IF Len(recent) >= cap THEN Tail(recent) ELSE recent, row)
    /\ answer' = None
    /\ UNCHANGED <<conf, cap, refitting, fits, forest>>

Start(busy) ==
    /\ Now.enabled /\ Len(recent) >= Now.every /\ ~busy
    /\ Again("ticks")
    /\ refitting' = TRUE
    /\ fits' = Append(fits, None)
    /\ answer' = None
    /\ UNCHANGED <<conf, cap, recent, observed, forest>>

\* Mutant: the flag is not looked at.
TickAnyway == Start(FALSE)

\* The ticker: with enough rows, and unless a fit is running, another one starts.
Tick == Start(refitting)

End(i) == fits' = RemoveAt(fits, i) /\ refitting' = FALSE

\* RefitIsoForest: the rows are copied and the forest grows beside the one in use.
Copy ==
    /\ \E i \in DOMAIN fits :
          /\ fits[i] = None
          /\ IF ~Now.enabled \/ Len(recent) < MinRows THEN End(i)
             ELSE /\ \E all \in Samples(ToSet(recent), Now.most) :
                        \E rows \in Samples(all, Now.sample) :
                           \E tree \in Grown(rows, Now.depth) :
                              fits' = [fits EXCEPT ![i] = [newest |-> Last(recent).n, rows |-> rows, depth |-> Now.depth, tree |-> tree]]
                  /\ UNCHANGED refitting
    /\ answer' = None
    /\ UNCHANGED <<conf, cap, recent, observed, forest, count>>

\* Fit: the pointers are swapped, the goroutine ends.
Swap ==
    /\ \E i \in DOMAIN fits :
          /\ fits[i] # None
          /\ forest' = fits[i]
          /\ End(i)
    /\ answer' = None
    /\ UNCHANGED <<conf, cap, recent, observed, count>>

\* Score: silent during the burn-in and without a forest.
Score ==
    /\ answer = None
    /\ Now.enabled /\ observed >= Now.burnIn /\ forest # None
    /\ \E x \in Numerics :
          answer' = [leaf |-> Ends(forest, x), learnt |-> \E r \in forest.rows : r.x = x]
    /\ UNCHANGED <<conf, cap, recent, observed, refitting, fits, forest, count>>

\* ml.yaml is reloaded; the ring keeps its size.
Reload ==
    /\ conf < Len(Settings) /\ conf' = conf + 1
    /\ answer' = None
    /\ UNCHANGED <<cap, recent, observed, refitting, fits, forest, count>>

\* A new process has forgotten everything; NewScorer takes the size of the ring.
Restart ==
    /\ Again("restarts")
    /\ cap' = Now.every
    /\ recent' = <<>> /\ observed' = 0 /\ refitting' = FALSE /\ fits' = <<>>
    /\ forest' = None /\ answer' = None
    /\ UNCHANGED conf
-----------------------------------------------------------------------------
Init ==
    /\ conf = 1 /\ cap = Settings[1].every
    /\ recent = <<>> /\ observed = 0 /\ refitting = FALSE /\ fits = <<>>
    /\ forest = None /\ answer = None
    /\ count = [b \in DOMAIN Bounds |-> 0]
Next == Observe \/ Tick \/ Copy \/ Swap \/ Score \/ Reload \/ Restart
Spec == Init /\ [][Next]_vars
-----------------------------------------------------------------------------
Row == [n : 1..MaxObserved, x : Numerics]
Fitted(f) == f.newest \in 1..MaxObserved /\ f.rows \subseteq Row
TypeOK ==
    /\ conf \in DOMAIN Settings /\ recent \in Seq(Row) /\ Len(recent) <= cap
    /\ observed \in 0..MaxObserved /\ refitting \in BOOLEAN
    /\ \A i \in DOMAIN fits : fits[i] # None => Fitted(fits[i])
    /\ forest # None => Fitted(forest)

(* The forest in use is replaced by one that was fitted to rows at least   *)
(* as new, over overlapping ticks, slow fits and reloads (ml/scorer.go: a  *)
(* tick is skipped "if a previous fit is still running"); and it isolates  *)
(* the rows it was fitted to: each of them ends in a leaf that counted it, *)
(* no deeper than the limit (isoforest.go: growTree and pathLength take the*)
(* same side of a split).                                                  *)
ForestServes ==
    [][/\ forest # None /\ forest' # None => forest'.newest >= forest.newest
       /\ answer' # None /\ answer'.learnt =>
             answer'.leaf.size > 0 /\ answer'.leaf.depth <= forest.depth]_vars
=============================================================================
