------------------------------ MODULE EventLog -------------------------------
(***************************************************************************)
(* What the event store promises its callers: a lossy first-in first-out   *)
(* log.  An accepted event gets the next ticket and is pending; from time  *)
(* to time the oldest pending events are settled together, each of them    *)
(* becoming durable or being lost; durable events may be purged.  Nothing  *)
(* becomes durable twice, out of order, or without having been accepted.   *)
(***************************************************************************)
EXTENDS Naturals, Sequences

VARIABLES
    accepted,   \* number of events accepted; an event's ticket is its rank
    pending,    \* tickets of the accepted events not settled yet, oldest first
    durable     \* tickets of the events in the log

evars == <<accepted, pending, durable>>

Init ==
    /\ accepted = 0
    /\ pending = <<>>
    /\ durable = {}

Accept ==
    /\ accepted' = accepted + 1
    /\ pending' = Append(pending, accepted + 1)
    /\ UNCHANGED durable

Settle ==
    \E n \in 1..Len(pending) :
        /\ pending' = SubSeq(pending, n + 1, Len(pending))
        /\ \E kept \in SUBSET {pending[i] : i \in 1..n} :
              durable' = durable \cup kept
        /\ UNCHANGED accepted

Purge ==
    /\ durable' \in SUBSET durable
    /\ UNCHANGED <<accepted, pending>>

Next == Accept \/ Settle \/ Purge

Spec == Init /\ [][Next]_evars
=============================================================================
