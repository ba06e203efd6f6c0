----------------------------- MODULE MCChallenge -----------------------------
(* Instances of Challenge for TLC.  Two ticks make a second. *)
EXTENDS Challenge, TLC

CONSTANTS c1, n1, w1, w2

\* Every proof has the four leading zeros that are the most ever asked for.
MCWork == [k \in Proofs |-> 4]

\* Live tuning: a short TTL, and a file that leaves TTL and difficulty to their
\* defaults (the default TTL lies above the ceiling).
MCRuleSets == {[ttl |-> 2, difficulty |-> 1], [ttl |-> 0, difficulty |-> 0]}

Symmetry == Permutations(Workers)
=============================================================================
