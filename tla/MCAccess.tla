----------------------------- MODULE MCAccess -----------------------------
(* What a request meets beside the pipeline: the credential verifiers, the *)
(* tarpit and the canary table.  They share no state; a behaviour of this  *)
(* module is one of one of them, so that the run explores the sum of their *)
(* states and not the product.                                             *)
EXTENDS Verifiers, TLC

CONSTANTS Clients, LoadBalancer, Paths, Ticks, AnswerTTL, CanaryTTL, MaxSize, MaxBodies,
          MaxReloads, MaxFailures

VARIABLES part,
          clock, data, bodies, profiles, answers, visit, settled, shown, raced,
          via, time, rendered, pending, canaries, probe, promised, lost, failures, given

MCChains == {<<"hmac">>, <<"hmac", "bearer">>, <<"opaque">>, <<"jwt">>, <<"callout">>}
Addresses == Clients \cup {LoadBalancer}
Routings == {[c \in Clients |-> c], [c \in Clients |-> LoadBalancer]}
CheckSymmetry == Permutations(Requests) \cup Permutations(Creds)

tarpitVars == <<clock, data, bodies, profiles, answers, visit, settled, shown, raced>>
canaryVars == <<via, time, rendered, pending, canaries, probe, promised, lost, failures, given>>

Trap == INSTANCE Tarpit WITH
    cache <- answers, Visitors <- Requests, Addresses <- Clients, CacheTTL <- AnswerTTL, MaxTime <- Ticks
Plant == INSTANCE Canaries WITH now <- time, CacheTTL <- AnswerTTL, MaxTime <- Ticks + 1

ASSUME AccessAssumption ==
    /\ Clients # {} /\ Paths # {} /\ Ticks \in Nat \ {0}
    /\ {AnswerTTL, CanaryTTL, MaxSize, MaxBodies, MaxReloads, MaxFailures} \subseteq Nat
    /\ None \notin Trap!Entry /\ None \notin Plant!Row

\* The parts that do not move stay in one of their initial states.
AccessInit ==
    /\ part \in {"check", "trap", "plant"}
    /\ Init /\ Trap!Init /\ Plant!Init
    /\ part = "plant" \/ via = [c \in Clients |-> c]
    /\ \/ part = "check"
       \/ chain = <<"hmac">> /\ world.secret = CHOOSE c \in Creds : TRUE
AccessNext ==
    /\ UNCHANGED part
    /\ \/ part = "check" /\ Next /\ UNCHANGED <<tarpitVars, canaryVars>>
       \/ part = "trap" /\ Trap!Next /\ UNCHANGED <<vars, canaryVars>>
       \/ part = "plant" /\ Plant!Next /\ UNCHANGED <<vars, tarpitVars>>
AccessSpec == AccessInit /\ [][AccessNext]_<<part, vars, tarpitVars, canaryVars>>

(* The types of the components.                                            *)
AccessTypeOK == TypeOK /\ Trap!TypeOK /\ Plant!TypeOK
(* A client gets the same answer and the same identity again.              *)
SameAnswer == Trap!SameAnswer
(* A token that was planted is recognised for a day.                       *)
ReplayIsKnown == Plant!ReplayIsKnown
=============================================================================
