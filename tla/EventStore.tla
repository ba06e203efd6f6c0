----------------------------- MODULE EventStore ------------------------------
(***************************************************************************)
(* The SQLite event store of internal/persist/store.go with its callers:   *)
(* request handlers call RollupUpdate and Record, which never block (no    *)
(* code in cmd/ calls RollupUpdate yet: it is here as the store's API); one*)
(* flusher goroutine drains both channels into a transaction on every      *)
(* tick; main() shuts the server down and closes the store.                *)
(*                                                                         *)
(* An event is the ticket it got when the channel accepted it.  All rollup *)
(* deltas are taken to hit one (feature, bucket, label) counter.           *)
(***************************************************************************)
EXTENDS Integers, Sequences, FiniteSets

CONSTANTS
    Handlers,      \* request goroutines of the proxy
    Clients,       \* client identifiers
    QueueSize,     \* capacity of each channel (persist.queue_size)
    MaxEventRows,  \* hard ceiling on the events table (10_000_000)
    TrimDivisor,   \* one TrimDivisor-th of the rows goes at the ceiling (10)
    MaxRequests,   \* bound: requests served
    MaxDeltas,     \* bound: rollup deltas accepted, and drops when one is not
    MaxFaults      \* bound: database calls that fail

ASSUME StoreAssumption ==
    /\ QueueSize \in Nat \ {0}
    /\ MaxEventRows \in Nat
    /\ TrimDivisor \in Nat \ {0}
    /\ MaxRequests \in Nat
    /\ MaxDeltas \in Nat
    /\ MaxFaults \in Nat

VARIABLES
    phase,        \* main(): running, draining, closing, closed
    requests,     \* requests begun
    hpc,          \* each handler: idle, serving, or counting the drop of an
                  \* event or of a delta
    detached,     \* the handler's connection was hijacked (h2c): the server's
                  \* Shutdown neither waits for it nor closes it
    copy,         \* the value of dropped a handler is about to increment
    dropped,      \* Store.dropped
    accepted,     \* events accepted by the channel
    queue,        \* Store.queue
    rollupQueue,  \* number of deltas in Store.rollupQueue
    fpc,          \* the flusher
    final,        \* the flusher has seen stop: this drain is the last
    batch,        \* evs of drain()
    deltas,       \* deltas of drain(), as a number
    pos,          \* events of the batch handled so far
    txRows,       \* rows inserted by the open transaction
    txDeltas,     \* deltas applied by the open transaction
    txId,         \* last row id given out, inside the transaction
    table,        \* the events table
    lastId,       \* last row id given out (AUTOINCREMENT)
    rollups,      \* the counter in features_rollup
    oldest,       \* number of oldest rows enforceRowCap has decided to delete
    faults,       \* failed database calls so far
    drops,        \* history: events and deltas refused by a full channel
    sent,         \* history: deltas accepted by the channel
    lost,         \* history: accepted events that a failed call discarded
    purged,       \* history: events deleted from the table
    late          \* history: a request was in flight when Close was called

main    == <<phase, late>>
callers == <<requests, hpc, detached, copy, dropped, drops>>
queues  == <<accepted, queue, rollupQueue, sent>>
tx      == <<pos, txRows, txDeltas, txId>>
flusher == <<fpc, final, batch, deltas, oldest, faults, lost>>
db      == <<table, lastId, rollups, purged>>
vars    == <<main, callers, queues, tx, flusher, db>>
-----------------------------------------------------------------------------
Row   == [id : Nat, ev : Nat, client : Clients]
Event == [ev : Nat, client : Clients]

Tickets(s) == {s[i].ev : i \in DOMAIN s}
Durable    == {r.ev : r \in table}

\* The n rows with the lowest ids.
OldestRows(n) == {r \in table : Cardinality({q \in table : q.id <= r.id}) <= n}

\* The single connection is inside a transaction.
InTx == fpc \in {"insert", "rollups", "commit"}

Step(from, to) == fpc = from /\ fpc' = to
-----------------------------------------------------------------------------
(* Request handlers *)

\* A request is served while the server runs; on a hijacked connection also
\* after Shutdown has been called, as long as the process lives.
BeginRequest(h) ==
    /\ hpc[h] = "idle"
    /\ requests < MaxRequests
    /\ requests' = requests + 1
    /\ hpc' = [hpc EXCEPT ![h] = "serving"]
    /\ \E d \in BOOLEAN :
          /\ phase = "running" \/ (d /\ phase \in {"draining", "closing"})
          /\ detached' = [detached EXCEPT ![h] = d]
    /\ late' = (late \/ phase = "closing")
    /\ UNCHANGED <<phase, copy, dropped, drops, queues, tx, flusher, db>>

\* RollupUpdate with room in its channel; its doc has the scorer call it.
RollupUpdate(h) ==
    /\ hpc[h] = "serving"
    /\ sent < MaxDeltas
    /\ rollupQueue < QueueSize
    /\ rollupQueue' = rollupQueue + 1
    /\ sent' = sent + 1
    /\ UNCHANGED <<main, callers, accepted, queue, tx, flusher, db>>

\* Record with room in the channel.
Record(h, c) ==
    /\ hpc[h] = "serving"
    /\ Len(queue) < QueueSize
    /\ accepted' = accepted + 1
    /\ queue' = Append(queue, [ev |-> accepted + 1, client |-> c])
    /\ hpc' = [hpc EXCEPT ![h] = "idle"]
    /\ UNCHANGED <<main, requests, detached, copy, dropped, drops, rollupQueue,
                   sent, tx, flusher, db>>

\* Record or RollupUpdate with the channel full: s.dropped++ is a plain load
\* and a plain store.
DropLoad(h) ==
    /\ hpc[h] = "serving"
    /\ \/ /\ Len(queue) = QueueSize
          /\ hpc' = [hpc EXCEPT ![h] = "dropEvent"]
       \/ /\ rollupQueue = QueueSize
          /\ drops < MaxDeltas
          /\ hpc' = [hpc EXCEPT ![h] = "dropDelta"]
    /\ copy' = [copy EXCEPT ![h] = dropped]
    /\ drops' = drops + 1
    /\ UNCHANGED <<main, requests, detached, dropped, queues, tx, flusher, db>>

DropStore(h) ==
    /\ \/ /\ hpc[h] = "dropEvent"
          /\ hpc' = [hpc EXCEPT ![h] = "idle"]
       \/ /\ hpc[h] = "dropDelta"
          /\ hpc' = [hpc EXCEPT ![h] = "serving"]
    /\ dropped' = copy[h] + 1
    /\ copy' = [copy EXCEPT ![h] = 0]
    /\ UNCHANGED <<main, requests, detached, drops, queues, tx, flusher, db>>
-----------------------------------------------------------------------------
(* The flusher: drain() *)

\* The ticker fires.
Wake ==
    /\ Step("waiting", "events")
    /\ UNCHANGED <<main, callers, queues, tx, final, batch, deltas, oldest,
                   faults, lost, db>>

\* Mutant: the stop case returns without the last drain.
SeeStopNoDrain ==
    /\ Step("waiting", "exited")
    /\ phase = "closing"
    /\ final' = TRUE
    /\ UNCHANGED <<main, callers, queues, tx, batch, deltas, oldest, faults,
                   lost, db>>

\* The stop channel is closed; select may still have preferred the ticker.
SeeStop ==
    /\ Step("waiting", "events")
    /\ phase = "closing"
    /\ final' = TRUE
    /\ UNCHANGED <<main, callers, queues, tx, batch, deltas, oldest, faults,
                   lost, db>>

\* Where a drain ends.
EndDrain == fpc' = IF final THEN "exited" ELSE "waiting"

TakeEvent ==
    /\ fpc = "events"
    /\ queue # <<>>
    /\ batch' = Append(batch, Head(queue))
    /\ queue' = Tail(queue)
    /\ UNCHANGED <<main, callers, accepted, rollupQueue, sent, tx, fpc, final,
                   deltas, oldest, faults, lost, db>>

NoMoreEvents ==
    /\ Step("events", "deltas")
    /\ queue = <<>>
    /\ UNCHANGED <<main, callers, queues, tx, final, batch, deltas, oldest,
                   faults, lost, db>>

\* Mutant: the receive is not guarded by the channel being nonempty.
TakeDeltaUnguarded ==
    /\ fpc = "deltas"
    /\ deltas < MaxDeltas
    /\ deltas' = deltas + 1
    /\ rollupQueue' = rollupQueue - 1
    /\ UNCHANGED <<main, callers, accepted, queue, sent, tx, fpc, final, batch,
                   oldest, faults, lost, db>>

TakeDelta ==
    /\ fpc = "deltas"
    /\ rollupQueue > 0
    /\ deltas' = deltas + 1
    /\ rollupQueue' = rollupQueue - 1
    /\ UNCHANGED <<main, callers, accepted, queue, sent, tx, fpc, final, batch,
                   oldest, faults, lost, db>>

\* Both channels are empty: nothing to do, or a transaction is needed.
NoMoreDeltas ==
    /\ fpc = "deltas"
    /\ rollupQueue = 0
    /\ IF batch = <<>> /\ deltas = 0 THEN EndDrain ELSE fpc' = "begin"
    /\ UNCHANGED <<main, callers, queues, tx, final, batch, deltas, oldest,
                   faults, lost, db>>

Fault == faults < MaxFaults /\ faults' = faults + 1

Begin ==
    /\ Step("begin", "insert")
    /\ pos' = 0
    /\ txRows' = {}
    /\ txDeltas' = 0
    /\ txId' = lastId
    /\ UNCHANGED <<main, callers, queues, final, batch, deltas, oldest, faults,
                   lost, db>>

\* Mutant: the error ends the flusher, not just the drain.
BeginFailsForGood ==
    /\ Step("begin", "exited")
    /\ Fault
    /\ lost' = lost \cup Tickets(batch)
    /\ batch' = <<>>
    /\ deltas' = 0
    /\ UNCHANGED <<main, callers, queues, tx, final, oldest, db>>

\* Begin or Prepare fails: drain returns and what it took from the channels is
\* gone, without being counted anywhere.
BeginFails ==
    /\ fpc = "begin"
    /\ Fault
    /\ lost' = lost \cup Tickets(batch)
    /\ batch' = <<>>
    /\ deltas' = 0
    /\ EndDrain
    /\ UNCHANGED <<main, callers, queues, tx, final, oldest, db>>

\* Mutant: the batch is walked from its end.
InsertRowBackwards ==
    /\ fpc = "insert"
    /\ pos < Len(batch)
    /\ pos' = pos + 1
    /\ txId' = txId + 1
    /\ txRows' = txRows \cup {[id |-> txId + 1, ev |-> batch[Len(batch) - pos].ev,
                              client |-> batch[Len(batch) - pos].client]}
    /\ UNCHANGED <<main, callers, queues, txDeltas, flusher, db>>

InsertRow ==
    /\ fpc = "insert"
    /\ pos < Len(batch)
    /\ pos' = pos + 1
    /\ txId' = txId + 1
    /\ txRows' = txRows \cup {[id |-> txId + 1, ev |-> batch[pos + 1].ev,
                              client |-> batch[pos + 1].client]}
    /\ UNCHANGED <<main, callers, queues, txDeltas, flusher, db>>

\* Mutant: a bad row ends the loop over the batch.
SkipRowBreaks ==
    /\ fpc = "insert"
    /\ pos < Len(batch)
    /\ Fault
    /\ pos' = Len(batch)
    /\ lost' = lost \cup {batch[pos + 1].ev}
    /\ UNCHANGED <<main, callers, queues, txRows, txDeltas, txId, fpc, final,
                   batch, deltas, oldest, db>>

\* "one bad row shouldn't abort the batch"
SkipRow ==
    /\ fpc = "insert"
    /\ pos < Len(batch)
    /\ Fault
    /\ pos' = pos + 1
    /\ lost' = lost \cup {batch[pos + 1].ev}
    /\ UNCHANGED <<main, callers, queues, txRows, txDeltas, txId, fpc, final,
                   batch, deltas, oldest, db>>

RowsDone ==
    /\ Step("insert", "rollups")
    /\ pos = Len(batch)
    /\ UNCHANGED <<main, callers, queues, tx, final, batch, deltas, oldest,
                   faults, lost, db>>

\* Every delta is applied, save those whose upsert fails.
ApplyDeltas ==
    /\ Step("rollups", "commit")
    /\ \/ txDeltas' = deltas /\ UNCHANGED faults
       \/ Fault /\ \E n \in 0..deltas : txDeltas' = n
    /\ UNCHANGED <<main, callers, queues, pos, txRows, txId, final, batch,
                   deltas, oldest, lost, db>>

\* Mutant: the batch outlives the drain that committed it.
CommitKeepsBatch ==
    /\ Step("commit", "count")
    /\ table' = table \cup txRows
    /\ lastId' = txId
    /\ rollups' = rollups + txDeltas
    /\ deltas' = 0
    /\ UNCHANGED <<main, callers, queues, tx, final, batch, oldest, faults,
                   lost, purged>>

Commit ==
    /\ Step("commit", "count")
    /\ table' = table \cup txRows
    /\ lastId' = txId
    /\ rollups' = rollups + txDeltas
    /\ batch' = <<>>
    /\ deltas' = 0
    /\ UNCHANGED <<main, callers, queues, tx, final, oldest, faults, lost,
                   purged>>

\* The error of Commit is ignored.
CommitFails ==
    /\ Step("commit", "count")
    /\ Fault
    /\ lost' = lost \cup Tickets(batch)
    /\ batch' = <<>>
    /\ deltas' = 0
    /\ UNCHANGED <<main, callers, queues, tx, final, oldest, db>>

\* enforceRowCap counts the rows and, above the ceiling, deletes a share of
\* them, the oldest, by a second statement.
CountRows ==
    /\ fpc = "count"
    /\ IF Cardinality(table) > MaxEventRows
       THEN /\ fpc' = "trim"
            /\ oldest' = Cardinality(table) \div TrimDivisor
       ELSE /\ EndDrain
            /\ UNCHANGED oldest
    /\ UNCHANGED <<main, callers, queues, tx, final, batch, deltas, faults,
                   lost, db>>

TrimOldest ==
    /\ fpc = "trim"
    /\ table' = table \ OldestRows(oldest)
    /\ purged' = purged \cup {r.ev : r \in OldestRows(oldest)}
    /\ oldest' = 0
    /\ EndDrain
    /\ UNCHANGED <<main, callers, queues, tx, final, batch, deltas, faults, lost,
                   lastId, rollups>>

\* Either statement of enforceRowCap may fail; the drain is over.
RowCapFails ==
    /\ fpc \in {"count", "trim"}
    /\ Fault
    /\ oldest' = 0
    /\ EndDrain
    /\ UNCHANGED <<main, callers, queues, tx, final, batch, deltas, lost, db>>
-----------------------------------------------------------------------------
(* Other writers, and main() *)

\* `veilgate forget`: another process deletes the rows of one client; it waits
\* for a transaction under way.  What is still queued stays queued.
ForgetClient(c) ==
    /\ ~InTx
    /\ table' = {r \in table : r.client # c}
    /\ purged' = purged \cup {r.ev : r \in {q \in table : q.client = c}}
    /\ UNCHANGED <<main, callers, queues, tx, flusher, lastId, rollups>>

\* SIGTERM: background goroutines stop, then the listener does.
Shutdown ==
    /\ phase = "running"
    /\ phase' = "draining"
    /\ UNCHANGED <<late, callers, queues, tx, flusher, db>>

\* mainSrv.Shutdown returns when the connections it knows are idle, or after
\* ten seconds whatever they do; Close closes the stop channel and waits.
Close ==
    /\ phase = "draining"
    /\ phase' = "closing"
    /\ late' = \E h \in Handlers : hpc[h] # "idle"
    /\ UNCHANGED <<callers, queues, tx, flusher, db>>

\* The flusher is gone: db.Close, and the process exits.
Exit ==
    /\ phase = "closing"
    /\ fpc = "exited"
    /\ phase' = "closed"
    /\ UNCHANGED <<late, callers, queues, tx, flusher, db>>
-----------------------------------------------------------------------------
Init ==
    /\ phase = "running" /\ late = FALSE
    /\ requests = 0
    /\ hpc = [h \in Handlers |-> "idle"]
    /\ detached = [h \in Handlers |-> FALSE]
    /\ copy = [h \in Handlers |-> 0]
    /\ dropped = 0 /\ drops = 0
    /\ accepted = 0 /\ queue = <<>>
    /\ rollupQueue = 0 /\ sent = 0
    /\ fpc = "waiting" /\ final = FALSE
    /\ batch = <<>> /\ deltas = 0
    /\ pos = 0 /\ txRows = {} /\ txDeltas = 0 /\ txId = 0
    /\ table = {} /\ lastId = 0 /\ rollups = 0
    /\ oldest = 0
    /\ faults = 0 /\ lost = {} /\ purged = {}

\* The process is gone once the store is closed.
Alive == phase # "closed"

Handle(h) ==
    /\ Alive
    /\ \/ BeginRequest(h) \/ RollupUpdate(h)
       \/ \E c \in Clients : Record(h, c)
       \/ DropLoad(h) \/ DropStore(h)

Drain ==
    \/ TakeEvent \/ NoMoreEvents \/ TakeDelta \/ NoMoreDeltas
    \/ Begin \/ BeginFails \/ InsertRow \/ SkipRow \/ RowsDone
    \/ ApplyDeltas \/ Commit \/ CommitFails \/ CountRows \/ TrimOldest
    \/ RowCapFails

Next ==
    \/ \E h \in Handlers : Handle(h)
    \/ Wake \/ SeeStop \/ Drain
    \/ \E c \in Clients : ForgetClient(c)
    \/ Shutdown \/ Close \/ Exit

\* The ticker fires for ever, a drain runs to its end, select does not for ever
\* prefer the ticker to the closed stop channel, and main() goes on.
Fairness ==
    /\ WF_vars(Wake)
    /\ WF_vars(Drain)
    /\ SF_vars(SeeStop)
    /\ WF_vars(Exit)

SafeSpec == Init /\ [][Next]_vars

Spec == SafeSpec /\ Fairness
-----------------------------------------------------------------------------
(* Properties *)

MainTypes ==
    /\ phase \in {"running", "draining", "closing", "closed"}
    /\ late \in BOOLEAN

CallerTypes ==
    /\ requests \in Nat
    /\ hpc \in [Handlers -> {"idle", "serving", "dropEvent",
                             "dropDelta"}]
    /\ detached \in [Handlers -> BOOLEAN]
    /\ copy \in [Handlers -> Nat]
    /\ dropped \in Nat
    /\ drops \in Nat

QueueTypes ==
    /\ accepted \in Nat
    /\ queue \in Seq(Event) /\ Len(queue) <= QueueSize
    /\ rollupQueue \in 0..QueueSize
    /\ sent \in Nat

TxTypes ==
    /\ pos \in Nat
    /\ txRows \in SUBSET Row
    /\ txDeltas \in Nat
    /\ txId \in Nat

FlusherTypes ==
    /\ fpc \in {"waiting", "events", "deltas", "begin", "insert", "rollups",
                "commit", "count", "trim", "exited"}
    /\ final \in BOOLEAN
    /\ batch \in Seq(Event)
    /\ deltas \in Nat
    /\ oldest \in Nat
    /\ faults \in Nat
    /\ lost \in SUBSET Nat

DbTypes ==
    /\ table \in SUBSET Row
    /\ lastId \in Nat
    /\ rollups \in Nat
    /\ purged \in SUBSET Nat

TypeOK ==
    /\ MainTypes /\ CallerTypes /\ QueueTypes
    /\ TxTypes /\ FlusherTypes /\ DbTypes

\* Record to events table: every event the channel accepted is still queued, in
\* the flusher's batch, in the table, or was deleted from the table; or a
\* database call failed and drain discarded it.  Nothing vanishes otherwise.
NothingVanishes ==
    /\ 1..accepted = Tickets(queue) \cup Tickets(batch) \cup Durable
                         \cup lost \cup purged
    /\ lost # {} => faults > 0

\* Row order is acceptance order, over all drains and deletions: the miner and
\* the exports read the table ORDER BY id.
RowsInOrder ==
    \A r, q \in table : r.id < q.id <=> r.ev < q.ev

\* main.go:1052: when no request is in flight at Close, the store is closed with
\* every queued event and delta taken by a drain.
CloseFlushesQuiet ==
    phase = "closed" /\ ~late =>
        queue = <<>> /\ batch = <<>> /\ rollupQueue = 0 /\ deltas = 0

\* A delta is added to features_rollup at most once.
RollupsNotOvercounted == rollups <= sent

\* The store implements the lossy log: what the flusher holds, and what is still
\* in the channel, is pending.
Pending == [i \in 1..Len(batch \o queue) |-> (batch \o queue)[i].ev]
Log == INSTANCE EventLog WITH pending <- Pending, durable <- Durable
ImplementsLog == Log!Spec

\* A queued event leaves the channel as long as Close has not been called, and
\* Close returns.
QueueDrains ==
    /\ \A e \in 1..MaxRequests :
          (e \in Tickets(queue) /\ phase \in {"running", "draining"})
              ~> (e \notin Tickets(queue))
    /\ (phase = "closing") ~> (phase = "closed")
=============================================================================
