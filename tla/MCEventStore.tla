---------------------------- MODULE MCEventStore ----------------------------
(* Instances of EventStore for TLC. *)
EXTENDS EventStore, TLC

CONSTANTS h1, h2, a, b

Symmetry == Permutations(Handlers) \cup Permutations(Clients)
=============================================================================
