-------------------------- MODULE EventStoreProofs ---------------------------
(***************************************************************************)
(* Proofs about EventStore: types, the accounting of events, the order of  *)
(* rows, and that the store implements EventLog.                           *)
(***************************************************************************)
EXTENDS EventStore, FiniteSetTheorems, SequenceTheorems, TLAPS

\* The tables are finite, so that the rows can be counted.
Finite == IsFiniteSet(table) /\ IsFiniteSet(txRows)

TypeInv == TypeOK /\ Finite
-----------------------------------------------------------------------------
\* A part of the state that does not change keeps its types.
LEMMA Frames ==
    /\ MainTypes /\ UNCHANGED main => MainTypes'
    /\ CallerTypes /\ UNCHANGED callers => CallerTypes'
    /\ QueueTypes /\ UNCHANGED queues => QueueTypes'
    /\ TxTypes /\ IsFiniteSet(txRows) /\ UNCHANGED tx
          => TxTypes' /\ IsFiniteSet(txRows')
    /\ FlusherTypes /\ UNCHANGED flusher => FlusherTypes'
    /\ DbTypes /\ IsFiniteSet(table) /\ UNCHANGED db
          => DbTypes' /\ IsFiniteSet(table')
  BY DEF MainTypes, main, CallerTypes, callers, QueueTypes, queues, TxTypes, tx,
         FlusherTypes, flusher, DbTypes, db

\* The elements of a sequence of events carry tickets and clients.
LEMMA ElementType ==
    ASSUME NEW s \in Seq(Event), NEW i \in 1..Len(s)
    PROVE  s[i] \in Event /\ s[i].ev \in Nat /\ s[i].client \in Clients
  <1>1. s[i] \in Event
    BY ElementOfSeq
  <1>. QED
    BY <1>1 DEF Event

LEMMA TicketsNat ==
    ASSUME NEW s \in Seq(Event)
    PROVE  Tickets(s) \in SUBSET Nat
  BY ElementType, LenProperties DEF Tickets
-----------------------------------------------------------------------------
\* Type correctness, together with the finiteness of the tables.
LEMMA TypeInit == Init => TypeInv
  <1>. SUFFICES ASSUME Init
                PROVE  TypeInv
    OBVIOUS
  <1>1. MainTypes /\ CallerTypes
    BY DEF Init, MainTypes, CallerTypes
  <1>2. QueueTypes
    BY EmptySeq, StoreAssumption DEF Init, QueueTypes
  <1>3. TxTypes /\ DbTypes /\ Finite
    BY FS_EmptySet DEF Init, TxTypes, DbTypes, Finite
  <1>4. FlusherTypes
    BY EmptySeq DEF Init, FlusherTypes
  <1>. QED
    BY <1>1, <1>2, <1>3, <1>4 DEF TypeInv, TypeOK

\* A step of a request handler.
LEMMA TypeHandle ==
    ASSUME TypeInv, NEW h \in Handlers, Handle(h)
    PROVE  TypeInv'
  <1>. USE DEF TypeInv, TypeOK, Finite
  <1>1. CASE BeginRequest(h)
    <2>1. MainTypes'
      BY <1>1 DEF BeginRequest, MainTypes
    <2>2. hpc' = [hpc EXCEPT ![h] = "serving"] /\ requests' = requests + 1
      BY <1>1, Zenon DEF BeginRequest
    <2>3. PICK d \in BOOLEAN : detached' = [detached EXCEPT ![h] = d]
      BY <1>1, Zenon DEF BeginRequest
    <2>4. UNCHANGED <<copy, dropped, drops>>
      BY <1>1, Zenon DEF BeginRequest
    <2>5. CallerTypes'
      BY <2>2, <2>3, <2>4 DEF CallerTypes
    <2>. QED
      BY <1>1, <2>1, <2>5, Frames DEF BeginRequest
  <1>2. CASE RollupUpdate(h)
    <2>1. QueueTypes'
      BY <1>2, StoreAssumption DEF RollupUpdate, QueueTypes
    <2>. QED
      BY <1>2, <2>1, Frames DEF RollupUpdate
  <1>3. ASSUME NEW c \in Clients, Record(h, c)
        PROVE  TypeInv'
    <2>1. QueueTypes'
      <3>. DEFINE e == [ev |-> accepted + 1, client |-> c]
      <3>1. e \in Event
        BY DEF Event, QueueTypes
      <3>2. queue' = Append(queue, e) /\ Len(queue) < QueueSize
        BY <1>3 DEF Record
      <3>. HIDE DEF e
      <3>3. queue' \in Seq(Event) /\ Len(queue') <= QueueSize
        BY <3>1, <3>2, AppendProperties, StoreAssumption DEF QueueTypes
      <3>. QED
        BY <1>3, <3>3 DEF Record, QueueTypes
    <2>2. CallerTypes'
      BY <1>3 DEF Record, CallerTypes
    <2>. QED
      BY <1>3, <2>1, <2>2, Frames DEF Record
  <1>4. CASE DropLoad(h)
    <2>1. PICK p \in {"dropEvent", "dropDelta"} :
             hpc' = [hpc EXCEPT ![h] = p]
      BY <1>4, Zenon DEF DropLoad
    <2>2. copy' = [copy EXCEPT ![h] = dropped] /\ drops' = drops + 1
      BY <1>4, Zenon DEF DropLoad
    <2>3. UNCHANGED <<requests, detached, dropped>>
      BY <1>4, Zenon DEF DropLoad
    <2>4. CallerTypes'
      BY <2>1, <2>2, <2>3 DEF CallerTypes
    <2>. QED
      BY <1>4, <2>4, Frames DEF DropLoad
  <1>5. CASE DropStore(h)
    <2>1. PICK p \in {"idle", "serving"} : hpc' = [hpc EXCEPT ![h] = p]
      BY <1>5, Zenon DEF DropStore
    <2>2. dropped' = copy[h] + 1 /\ copy' = [copy EXCEPT ![h] = 0]
      BY <1>5, Zenon DEF DropStore
    <2>3. UNCHANGED <<requests, detached, drops>>
      BY <1>5, Zenon DEF DropStore
    <2>4. CallerTypes'
      BY <2>1, <2>2, <2>3 DEF CallerTypes
    <2>. QED
      BY <1>5, <2>4, Frames DEF DropStore
  <1>. QED
    BY <1>1, <1>2, <1>3, <1>4, <1>5 DEF Handle

\* A step of a drain.
LEMMA TypeDrain ==
    ASSUME TypeInv, Drain
    PROVE  TypeInv'
  <1>. USE DEF TypeInv, TypeOK, Finite, Step, EndDrain, Fault
  <1>1. CASE TakeEvent
    <2>1. /\ Head(queue) \in Event
          /\ Tail(queue) \in Seq(Event)
          /\ Len(Tail(queue)) <= QueueSize
      BY <1>1, HeadTailProperties, StoreAssumption DEF TakeEvent, QueueTypes
    <2>2. QueueTypes'
      BY <1>1, <2>1 DEF TakeEvent, QueueTypes
    <2>3. FlusherTypes'
      BY <1>1, <2>1, AppendProperties DEF TakeEvent, FlusherTypes
    <2>. QED
      BY <1>1, <2>2, <2>3, Frames DEF TakeEvent
  <1>2. CASE NoMoreEvents
    <2>1. FlusherTypes'
      BY <1>2 DEF NoMoreEvents, FlusherTypes
    <2>. QED
      BY <1>2, <2>1, Frames DEF NoMoreEvents
  <1>3. CASE TakeDelta
    <2>1. QueueTypes'
      BY <1>3, StoreAssumption DEF TakeDelta, QueueTypes
    <2>2. FlusherTypes'
      BY <1>3 DEF TakeDelta, FlusherTypes
    <2>. QED
      BY <1>3, <2>1, <2>2, Frames DEF TakeDelta
  <1>4. CASE NoMoreDeltas
    <2>1. FlusherTypes'
      BY <1>4 DEF NoMoreDeltas, FlusherTypes
    <2>. QED
      BY <1>4, <2>1, Frames DEF NoMoreDeltas
  <1>5. CASE Begin
    <2>1. FlusherTypes'
      BY <1>5 DEF Begin, FlusherTypes
    <2>2. TxTypes' /\ IsFiniteSet(txRows')
      BY <1>5, FS_EmptySet DEF Begin, TxTypes, DbTypes
    <2>. QED
      BY <1>5, <2>1, <2>2, Frames DEF Begin
  <1>6. CASE BeginFails
    <2>1. lost' \in SUBSET Nat
      BY <1>6, TicketsNat DEF BeginFails, FlusherTypes
    <2>2. batch' \in Seq(Event)
      BY <1>6, EmptySeq DEF BeginFails
    <2>3. FlusherTypes'
      BY <1>6, <2>1, <2>2 DEF BeginFails, FlusherTypes
    <2>. QED
      BY <1>6, <2>3, Frames DEF BeginFails
  <1>7. CASE InsertRow
    <2>. DEFINE row == [id |-> txId + 1, ev |-> batch[pos + 1].ev,
                        client |-> batch[pos + 1].client]
    <2>1. pos + 1 \in 1..Len(batch)
      BY <1>7, LenProperties DEF InsertRow, TxTypes, FlusherTypes
    <2>2. row \in Row
      BY <2>1, ElementType DEF Row, FlusherTypes, TxTypes
    <2>3. txRows' = txRows \cup {row}
      BY <1>7 DEF InsertRow
    <2>. HIDE DEF row
    <2>4. TxTypes' /\ IsFiniteSet(txRows')
      BY <1>7, <2>2, <2>3, FS_AddElement DEF InsertRow, TxTypes
    <2>. QED
      BY <1>7, <2>4, Frames DEF InsertRow
  <1>8. CASE SkipRow
    <2>1. pos + 1 \in 1..Len(batch)
      BY <1>8, LenProperties DEF SkipRow, TxTypes, FlusherTypes
    <2>2. batch[pos + 1].ev \in Nat
      BY <2>1, ElementType DEF FlusherTypes
    <2>3. FlusherTypes'
      <3>1. lost' \in SUBSET Nat
        BY <1>8, <2>2 DEF SkipRow, FlusherTypes
      <3>2. faults' \in Nat
        BY <1>8 DEF SkipRow, FlusherTypes
      <3>3. UNCHANGED <<fpc, final, batch, deltas, oldest>>
        BY <1>8 DEF SkipRow
      <3>. QED
        BY <3>1, <3>2, <3>3 DEF FlusherTypes
    <2>4. TxTypes' /\ IsFiniteSet(txRows')
      BY <1>8 DEF SkipRow, TxTypes
    <2>. QED
      BY <1>8, <2>3, <2>4, Frames DEF SkipRow
  <1>9. CASE RowsDone
    <2>1. FlusherTypes'
      BY <1>9 DEF RowsDone, FlusherTypes
    <2>. QED
      BY <1>9, <2>1, Frames DEF RowsDone
  <1>10. CASE ApplyDeltas
    <2>1. FlusherTypes'
      BY <1>10 DEF ApplyDeltas, FlusherTypes
    <2>2. TxTypes' /\ IsFiniteSet(txRows')
      BY <1>10 DEF ApplyDeltas, TxTypes, FlusherTypes
    <2>. QED
      BY <1>10, <2>1, <2>2, Frames DEF ApplyDeltas
  <1>11. CASE Commit
    <2>1. table' = table \cup txRows /\ lastId' = txId
          /\ rollups' = rollups + txDeltas /\ purged' = purged
      BY <1>11 DEF Commit
    <2>2. IsFiniteSet(table')
      BY <2>1, FS_Union
    <2>3. DbTypes'
      BY <2>1 DEF DbTypes, TxTypes
    <2>4. FlusherTypes'
      BY <1>11, EmptySeq DEF Commit, FlusherTypes
    <2>. QED
      BY <1>11, <2>2, <2>3, <2>4, Frames DEF Commit
  <1>12. CASE CommitFails
    <2>1. lost' \in SUBSET Nat
      BY <1>12, TicketsNat DEF CommitFails, FlusherTypes
    <2>2. batch' \in Seq(Event)
      BY <1>12, EmptySeq DEF CommitFails
    <2>3. FlusherTypes'
      BY <1>12, <2>1, <2>2 DEF CommitFails, FlusherTypes
    <2>. QED
      BY <1>12, <2>3, Frames DEF CommitFails
  <1>13. CASE CountRows
    <2>1. Cardinality(table) \in Nat
      BY FS_CardinalityType
    <2>2. oldest' \in Nat
      BY <1>13, <2>1, StoreAssumption DEF CountRows, FlusherTypes
    <2>3. FlusherTypes'
      BY <1>13, <2>2 DEF CountRows, FlusherTypes
    <2>. QED
      BY <1>13, <2>3, Frames DEF CountRows
  <1>14. CASE TrimOldest
    <2>1. DbTypes' /\ IsFiniteSet(table')
      BY <1>14, FS_Subset DEF TrimOldest, DbTypes, OldestRows, Row
    <2>2. FlusherTypes'
      BY <1>14 DEF TrimOldest, FlusherTypes
    <2>. QED
      BY <1>14, <2>1, <2>2, Frames DEF TrimOldest
  <1>15. CASE RowCapFails
    <2>1. FlusherTypes'
      BY <1>15 DEF RowCapFails, FlusherTypes
    <2>. QED
      BY <1>15, <2>1, Frames DEF RowCapFails
  <1>. QED
    BY <1>1, <1>2, <1>3, <1>4, <1>5, <1>6, <1>7, <1>8, <1>9, <1>10, <1>11,
       <1>12, <1>13, <1>14, <1>15
    DEF Drain

LEMMA TypeNext == TypeInv /\ [Next]_vars => TypeInv'
  <1>. SUFFICES ASSUME TypeInv, [Next]_vars
                PROVE  TypeInv'
    OBVIOUS
  <1>. USE DEF TypeInv, TypeOK, Finite, Step
  <1>1. CASE Wake
    <2>1. FlusherTypes'
      BY <1>1 DEF Wake, FlusherTypes
    <2>. QED
      BY <1>1, <2>1, Frames DEF Wake
  <1>2. CASE SeeStop
    <2>1. FlusherTypes'
      BY <1>2 DEF SeeStop, FlusherTypes
    <2>. QED
      BY <1>2, <2>1, Frames DEF SeeStop
  <1>3. ASSUME NEW c \in Clients, ForgetClient(c)
        PROVE  TypeInv'
    <2>1. DbTypes' /\ IsFiniteSet(table')
      BY <1>3, FS_Subset DEF ForgetClient, DbTypes, Row
    <2>. QED
      BY <1>3, <2>1, Frames DEF ForgetClient
  <1>4. CASE Shutdown
    <2>1. MainTypes'
      BY <1>4 DEF Shutdown, MainTypes
    <2>. QED
      BY <1>4, <2>1, Frames DEF Shutdown
  <1>5. CASE Close
    <2>1. MainTypes'
      BY <1>5 DEF Close, MainTypes
    <2>. QED
      BY <1>5, <2>1, Frames DEF Close
  <1>6. CASE Exit
    <2>1. MainTypes'
      BY <1>6 DEF Exit, MainTypes
    <2>. QED
      BY <1>6, <2>1, Frames DEF Exit
  <1>7. CASE UNCHANGED vars
    BY <1>7, Frames DEF vars
  <1>. QED
    BY <1>1, <1>2, <1>3, <1>4, <1>5, <1>6, <1>7, TypeHandle, TypeDrain DEF Next

\* Every variable keeps its type, in every behaviour of the store.
THEOREM TypeCorrect == SafeSpec => []TypeOK
  <1>1. TypeInv => TypeOK
    BY DEF TypeInv
  <1>. QED
    BY <1>1, TypeInit, TypeNext, PTL DEF SafeSpec
-----------------------------------------------------------------------------
(* The log invariant.  Tickets are handed out in sequence, so the channel   *)
(* holds the latest, the batch those just before them, and every ticket up  *)
(* to Base has been settled.                                                *)

Base == accepted - Len(queue) - Len(batch)

Contiguous ==
    /\ Base >= 0
    /\ \A i \in 1..Len(batch) : batch[i].ev = Base + i
    /\ \A i \in 1..Len(queue) : queue[i].ev = Base + Len(batch) + i

\* The rows of the open transaction: those of the first pos events, in order,
\* with ids above all committed ones.
TxRowsFit ==
    \A r \in txRows : /\ Base < r.ev /\ r.ev <= Base + pos
                      /\ lastId < r.id /\ r.id <= txId

TxRowsInOrder == \A r, q \in txRows : r.id < q.id <=> r.ev < q.ev

TxCovers ==
    \A e \in Nat : Base < e /\ e <= Base + pos =>
        e \in lost \/ \E r \in txRows : r.ev = e

TxPart ==
    /\ InTx => /\ pos <= Len(batch)
               /\ lastId <= txId
               /\ TxRowsFit /\ TxRowsInOrder /\ TxCovers
    /\ fpc \in {"rollups", "commit"} => pos = Len(batch)

TablePart ==
    /\ \A r \in table : 1 <= r.ev /\ r.ev <= Base /\ r.id <= lastId
    /\ RowsInOrder

Settled ==
    /\ \A e \in 1..Base : e \in Durable \cup lost \cup purged
    /\ lost \cup purged \subseteq 1..accepted
    /\ lost # {} => faults > 0

LogInv == TypeInv /\ Contiguous /\ TxPart /\ TablePart /\ Settled

\* Lengths and tickets are numbers: what the arithmetic below needs.
LEMMA Numbers ==
    ASSUME TypeInv
    PROVE  /\ accepted \in Nat /\ Len(queue) \in Nat /\ Len(batch) \in Nat
           /\ Base \in Int /\ pos \in Nat /\ txId \in Nat /\ lastId \in Nat
           /\ \A r \in table \cup txRows : r.id \in Nat /\ r.ev \in Nat
           /\ faults \in Nat
  BY LenProperties
  DEF TypeInv, TypeOK, QueueTypes, FlusherTypes, TxTypes, DbTypes, Base, Row

\* The invariant gives the two properties.
LEMMA LogInvVanish == LogInv => NothingVanishes
  <1>. SUFFICES ASSUME LogInv
                PROVE  NothingVanishes
    OBVIOUS
  <1>. USE DEF LogInv
  <1>1. /\ accepted \in Nat /\ Len(queue) \in Nat /\ Len(batch) \in Nat
        /\ Base \in Int /\ Base >= 0
        /\ accepted = Base + Len(batch) + Len(queue)
    BY Numbers DEF Contiguous, Base
  <1>2. DOMAIN queue = 1..Len(queue) /\ DOMAIN batch = 1..Len(batch)
    BY LenProperties DEF TypeInv, TypeOK, QueueTypes, FlusherTypes
  <1>3. ASSUME NEW e \in 1..accepted
        PROVE  e \in Tickets(queue) \cup Tickets(batch) \cup Durable
                        \cup lost \cup purged
    <2>1. CASE e <= Base
      BY <1>1, <2>1 DEF Settled
    <2>2. CASE Base < e /\ e <= Base + Len(batch)
      <3>1. e - Base \in 1..Len(batch)
        BY <1>1, <2>2
      <3>2. batch[e - Base].ev = Base + (e - Base)
        BY <3>1 DEF Contiguous
      <3>3. Base + (e - Base) = e
        BY <1>1
      <3>. QED
        BY <1>2, <3>1, <3>2, <3>3 DEF Tickets
    <2>3. CASE Base + Len(batch) < e
      <3>. DEFINE i == e - Base - Len(batch)
      <3>1. i \in 1..Len(queue)
        BY <1>1, <2>3
      <3>2. queue[i].ev = Base + Len(batch) + i
        BY <3>1 DEF Contiguous
      <3>3. Base + Len(batch) + i = e
        BY <1>1
      <3>. HIDE DEF i
      <3>. QED
        BY <1>2, <3>1, <3>2, <3>3 DEF Tickets
    <2>. QED
      BY <1>1, <2>1, <2>2, <2>3
  <1>4. Tickets(queue) \subseteq 1..accepted
    <2>1. ASSUME NEW i \in 1..Len(queue)
          PROVE  queue[i].ev \in 1..accepted
      BY <1>1 DEF Contiguous
    <2>. QED
      BY <1>2, <2>1 DEF Tickets
  <1>5. Tickets(batch) \subseteq 1..accepted
    <2>1. ASSUME NEW i \in 1..Len(batch)
          PROVE  batch[i].ev \in 1..accepted
      BY <1>1 DEF Contiguous
    <2>. QED
      BY <1>2, <2>1 DEF Tickets
  <1>6. Durable \subseteq 1..accepted
    <2>1. ASSUME NEW r \in table
          PROVE  r.ev \in 1..accepted
      BY <1>1, Numbers DEF TablePart
    <2>. QED
      BY <2>1 DEF Durable
  <1>7. lost \cup purged \subseteq 1..accepted /\ (lost # {} => faults > 0)
    BY DEF Settled
  <1>. QED
    BY <1>3, <1>4, <1>5, <1>6, <1>7 DEF NothingVanishes

LEMMA LogInit == Init => LogInv
  <1>. SUFFICES ASSUME Init
                PROVE  LogInv
    OBVIOUS
  <1>1. TypeInv
    BY TypeInit
  <1>2. Len(queue) = 0 /\ Len(batch) = 0 /\ Base = 0
    <2>1. queue = <<>> /\ batch = <<>> /\ accepted = 0
      BY DEF Init
    <2>2. Len(queue) = 0 /\ Len(batch) = 0
      BY <2>1
    <2>3. accepted = 0
      BY <2>1
    <2>4. Base = 0
      BY <2>2, <2>3 DEF Base
    <2>. QED
      BY <2>2, <2>4
  <1>3. Contiguous
    BY <1>2 DEF Contiguous
  <1>4. TxPart
    BY DEF Init, TxPart, InTx
  <1>5. TablePart
    BY DEF Init, TablePart, RowsInOrder
  <1>6. Settled
    BY <1>2 DEF Init, Settled
  <1>. QED
    BY <1>1, <1>3, <1>4, <1>5, <1>6 DEF LogInv

\* Most steps touch neither the tickets nor the tables.
LEMMA LogFrame ==
    ASSUME LogInv, TypeInv',
           UNCHANGED <<accepted, queue, batch, table, lastId, lost, purged,
                       pos, txRows, txId>>,
           faults' >= faults,
           InTx' => InTx,
           fpc' \in {"rollups", "commit"} => pos = Len(batch)
    PROVE  LogInv'
  <1>. USE DEF LogInv
  <1>1. Base' = Base
    BY DEF Base
  <1>2. Contiguous' /\ TablePart'
    BY <1>1 DEF Contiguous, TablePart, RowsInOrder
  <1>3. TxPart'
    BY <1>1 DEF TxPart, TxRowsFit, TxRowsInOrder, TxCovers
  <1>4. Settled'
    <2>1. Durable' = Durable
      BY DEF Durable
    <2>2. faults \in Nat /\ faults' \in Nat
      BY DEF TypeInv, TypeOK, FlusherTypes
    <2>. QED
      BY <1>1, <2>1, <2>2 DEF Settled
  <1>. QED
    BY <1>2, <1>3, <1>4

\* Accepting an event gives it the next ticket.
LEMMA LogRecord ==
    ASSUME LogInv, TypeInv', NEW h \in Handlers, NEW c \in Clients, Record(h, c)
    PROVE  LogInv'
  <1>. USE DEF LogInv
  <1>. DEFINE e == [ev |-> accepted + 1, client |-> c]
  <1>1. queue \in Seq(Event) /\ e \in Event
    BY Numbers DEF TypeInv, TypeOK, QueueTypes, Event
  <1>2. queue' = Append(queue, e) /\ accepted' = accepted + 1
    BY DEF Record
  <1>3. UNCHANGED <<batch, table, lastId, lost, purged, pos, txRows, txId, faults,
                    fpc>>
    BY DEF Record, flusher, tx, db
  <1>4. e.ev = accepted + 1
    OBVIOUS
  <1>. HIDE DEF e
  <1>5. /\ Len(queue') = Len(queue) + 1
        /\ \A i \in 1..Len(queue) : queue'[i] = queue[i]
        /\ queue'[Len(queue) + 1] = e
    BY <1>1, <1>2, AppendProperties
  <1>6. Base' = Base
    BY <1>2, <1>3, <1>5, Numbers DEF Base
  <1>7. Contiguous'
    <2>1. ASSUME NEW i \in 1..(Len(queue) + 1)
          PROVE  queue'[i].ev = Base + Len(batch) + i
      <3>1. CASE i \in 1..Len(queue)
        BY <1>5, <3>1 DEF Contiguous
      <3>2. CASE i = Len(queue) + 1
        <4>1. queue'[i].ev = accepted + 1
          BY <1>4, <1>5, <3>2
        <4>2. accepted + 1 = Base + Len(batch) + (Len(queue) + 1)
          BY Numbers DEF Base
        <4>. QED
          BY <3>2, <4>1, <4>2
      <3>. QED
        BY <3>1, <3>2, Numbers
    <2>. QED
      BY <1>3, <1>5, <1>6, <2>1 DEF Contiguous
  <1>8. TxPart' /\ TablePart'
    BY <1>3, <1>6 DEF TxPart, TxRowsFit, TxRowsInOrder, TxCovers, TablePart,
                      RowsInOrder, InTx
  <1>9. Settled'
    <2>1. Durable' = Durable
      BY <1>3 DEF Durable
    <2>. QED
      BY <1>2, <1>3, <1>6, <2>1, Numbers DEF Settled
  <1>. QED
    BY <1>7, <1>8, <1>9

\* Moving an event from the channel to the batch keeps its ticket in sequence.
LEMMA LogTakeEvent ==
    ASSUME LogInv, TypeInv', TakeEvent
    PROVE  LogInv'
  <1>. USE DEF LogInv
  <1>1. queue \in Seq(Event) /\ batch \in Seq(Event) /\ queue # <<>>
    BY DEF TypeInv, TypeOK, QueueTypes, FlusherTypes, TakeEvent
  <1>2. batch' = Append(batch, Head(queue)) /\ queue' = Tail(queue)
    BY DEF TakeEvent
  <1>3. UNCHANGED <<accepted, table, lastId, lost, purged, pos, txRows, txId,
                    faults, fpc>>
    BY DEF TakeEvent, tx, db
  <1>4. /\ Head(queue) \in Event
        /\ Len(queue') = Len(queue) - 1
        /\ \A i \in 1..Len(queue') : queue'[i] = queue[i + 1]
    BY <1>1, <1>2, HeadTailProperties
  <1>5. /\ Len(batch') = Len(batch) + 1
        /\ \A i \in 1..Len(batch) : batch'[i] = batch[i]
        /\ batch'[Len(batch) + 1] = Head(queue)
    BY <1>1, <1>2, <1>4, AppendProperties
  <1>6. Head(queue) = queue[1] /\ Len(queue) > 0
    BY <1>1, EmptySeq
  <1>7. Base' = Base
    <2>1. accepted - (Len(queue) - 1) - (Len(batch) + 1)
             = accepted - Len(queue) - Len(batch)
      BY Numbers
    <2>. QED
      BY <1>3, <1>4, <1>5, <2>1 DEF Base
  <1>8. Contiguous'
    <2>1. ASSUME NEW i \in 1..Len(batch')
          PROVE  batch'[i].ev = Base + i
      <3>1. CASE i \in 1..Len(batch)
        BY <1>5, <3>1 DEF Contiguous
      <3>2. CASE i = Len(batch) + 1
        <4>1. queue[1].ev = Base + Len(batch) + 1
          BY <1>6, Numbers DEF Contiguous
        <4>. QED
          BY <1>5, <1>6, <3>2, <4>1, Numbers
      <3>. QED
        BY <1>5, <3>1, <3>2, Numbers
    <2>2. ASSUME NEW i \in 1..Len(queue')
          PROVE  queue'[i].ev = Base + Len(batch') + i
      <3>1. i + 1 \in 1..Len(queue)
        BY <1>4, Numbers
      <3>2. queue[i + 1].ev = Base + Len(batch) + (i + 1)
        BY <3>1 DEF Contiguous
      <3>. QED
        BY <1>4, <1>5, <3>2, Numbers
    <2>. QED
      BY <1>7, <2>1, <2>2 DEF Contiguous
  <1>9. ~InTx /\ ~InTx' /\ fpc' \notin {"rollups", "commit"}
    BY DEF TakeEvent, InTx
  <1>10. TxPart'
    BY <1>9 DEF TxPart
  <1>11. TablePart'
    BY <1>3, <1>7 DEF TablePart, RowsInOrder
  <1>12. Settled'
    <2>1. Durable' = Durable
      BY <1>3 DEF Durable
    <2>. QED
      BY <1>3, <1>7, <2>1 DEF Settled
  <1>. QED
    BY <1>8, <1>10, <1>11, <1>12

\* A transaction begins with nothing inserted.
LEMMA LogBegin ==
    ASSUME LogInv, TypeInv', Begin
    PROVE  LogInv'
  <1>. USE DEF LogInv
  <1>1. UNCHANGED <<accepted, queue, batch, table, lastId, lost, purged, faults>>
    BY DEF Begin, queues, db
  <1>2. pos' = 0 /\ txRows' = {} /\ txId' = lastId /\ fpc' = "insert"
    BY DEF Begin, Step
  <1>3. Base' = Base
    BY <1>1 DEF Base
  <1>4. Contiguous' /\ TablePart'
    BY <1>1, <1>3 DEF Contiguous, TablePart, RowsInOrder
  <1>5. TxPart'
    BY <1>1, <1>2, <1>3, Numbers
    DEF TxPart, TxRowsFit, TxRowsInOrder, TxCovers
  <1>6. Settled'
    <2>1. Durable' = Durable
      BY <1>1 DEF Durable
    <2>. QED
      BY <1>1, <1>3, <2>1 DEF Settled
  <1>. QED
    BY <1>4, <1>5, <1>6

\* The next row gets the next id and the next ticket.
LEMMA LogInsertRow ==
    ASSUME LogInv, TypeInv', InsertRow
    PROVE  LogInv'
  <1>. USE DEF LogInv
  <1>. DEFINE row == [id |-> txId + 1, ev |-> batch[pos + 1].ev,
                      client |-> batch[pos + 1].client]
  <1>1. UNCHANGED <<accepted, queue, batch, table, lastId, lost, purged, faults,
                    fpc>>
    BY DEF InsertRow, queues, db, flusher
  <1>2. /\ pos' = pos + 1 /\ txId' = txId + 1 /\ txRows' = txRows \cup {row}
        /\ pos < Len(batch) /\ fpc = "insert"
    BY DEF InsertRow
  <1>3. row.id = txId + 1 /\ row.ev = batch[pos + 1].ev
    OBVIOUS
  <1>. HIDE DEF row
  <1>4. pos + 1 \in 1..Len(batch)
    BY <1>2, Numbers
  <1>5. row.ev = Base + pos + 1
    BY <1>3, <1>4, Numbers DEF Contiguous
  <1>6. Base' = Base
    BY <1>1 DEF Base
  <1>7. Contiguous' /\ TablePart'
    BY <1>1, <1>6 DEF Contiguous, TablePart, RowsInOrder
  <1>8. InTx /\ lastId <= txId /\ TxRowsFit /\ TxRowsInOrder /\ TxCovers
    BY <1>2 DEF TxPart, InTx
  <1>9. TxRowsFit'
    <2>1. ASSUME NEW r \in txRows
          PROVE  /\ Base < r.ev /\ r.ev <= Base + (pos + 1)
                 /\ lastId < r.id /\ r.id <= txId + 1
      BY <1>8, Numbers DEF TxRowsFit
    <2>2. /\ Base < row.ev /\ row.ev <= Base + (pos + 1)
          /\ lastId < row.id /\ row.id <= txId + 1
      BY <1>3, <1>5, <1>8, Numbers
    <2>. QED
      BY <1>1, <1>2, <1>6, <2>1, <2>2 DEF TxRowsFit
  <1>10. TxRowsInOrder'
    <2>1. ASSUME NEW r \in txRows
          PROVE  r.id < row.id /\ r.ev < row.ev
      BY <1>3, <1>5, <1>8, Numbers DEF TxRowsFit
    <2>2. row.id \in Nat /\ row.ev \in Int
      BY <1>3, <1>5, Numbers
    <2>3. ASSUME NEW r \in txRows', NEW q \in txRows'
          PROVE  r.id < q.id <=> r.ev < q.ev
      <3>1. CASE r \in txRows /\ q \in txRows
        BY <1>8, <3>1 DEF TxRowsInOrder
      <3>2. CASE r \in txRows /\ q = row
        BY <2>1, <3>2
      <3>3. CASE r = row /\ q \in txRows
        <4>1. q.id < row.id /\ q.ev < row.ev /\ q.id \in Nat /\ q.ev \in Nat
          BY <2>1, <3>3, Numbers
        <4>. QED
          BY <2>2, <3>3, <4>1
      <3>4. CASE r = row /\ q = row
        BY <2>2, <3>4
      <3>. QED
        BY <1>2, <3>1, <3>2, <3>3, <3>4
    <2>. QED
      BY <2>3 DEF TxRowsInOrder
  <1>11. TxCovers'
    <2>1. ASSUME NEW e \in Nat, Base < e, e <= Base + (pos + 1)
          PROVE  e \in lost \/ \E r \in txRows' : r.ev = e
      <3>1. CASE e <= Base + pos
        BY <1>2, <1>8, <2>1, <3>1 DEF TxCovers
      <3>2. CASE e = Base + pos + 1
        BY <1>2, <1>5, <3>2
      <3>. QED
        BY <2>1, <3>1, <3>2, Numbers
    <2>. QED
      BY <1>1, <1>2, <1>6, <2>1 DEF TxCovers
  <1>12. TxPart'
    <2>1. pos' <= Len(batch') /\ lastId' <= txId'
      BY <1>1, <1>2, <1>8, Numbers
    <2>. QED
      BY <1>1, <1>2, <1>9, <1>10, <1>11, <2>1 DEF TxPart
  <1>13. Settled'
    <2>1. Durable' = Durable
      BY <1>1 DEF Durable
    <2>. QED
      BY <1>1, <1>6, <2>1 DEF Settled
  <1>. QED
    BY <1>7, <1>12, <1>13

\* A row that is not inserted is lost, and the call that failed is counted.
LEMMA LogSkipRow ==
    ASSUME LogInv, TypeInv', SkipRow
    PROVE  LogInv'
  <1>. USE DEF LogInv
  <1>1. UNCHANGED <<accepted, queue, batch, table, lastId, purged, txRows, txId,
                    fpc>>
    BY DEF SkipRow, queues, db
  <1>2. /\ pos' = pos + 1 /\ lost' = lost \cup {batch[pos + 1].ev}
        /\ pos < Len(batch) /\ fpc = "insert" /\ faults' = faults + 1
    BY DEF SkipRow, Fault
  <1>3. pos + 1 \in 1..Len(batch)
    BY <1>2, Numbers
  <1>4. batch[pos + 1].ev = Base + pos + 1
    BY <1>3, Numbers DEF Contiguous
  <1>5. Base' = Base
    BY <1>1 DEF Base
  <1>6. Contiguous' /\ TablePart'
    BY <1>1, <1>5 DEF Contiguous, TablePart, RowsInOrder
  <1>7. InTx /\ lastId <= txId /\ TxRowsFit /\ TxRowsInOrder /\ TxCovers
    BY <1>2 DEF TxPart, InTx
  <1>8. TxRowsFit'
    <2>1. ASSUME NEW r \in txRows
          PROVE  /\ Base < r.ev /\ r.ev <= Base + (pos + 1)
                 /\ lastId < r.id /\ r.id <= txId
      BY <1>7, Numbers DEF TxRowsFit
    <2>. QED
      BY <1>1, <1>2, <1>5, <2>1 DEF TxRowsFit
  <1>9. TxRowsInOrder'
    BY <1>1, <1>7 DEF TxRowsInOrder
  <1>10. TxCovers'
    <2>1. ASSUME NEW e \in Nat, Base < e, e <= Base + (pos + 1)
          PROVE  e \in lost' \/ \E r \in txRows : r.ev = e
      <3>1. CASE e <= Base + pos
        BY <1>2, <1>7, <2>1, <3>1 DEF TxCovers
      <3>2. CASE e = Base + pos + 1
        BY <1>2, <1>4, <3>2
      <3>. QED
        BY <2>1, <3>1, <3>2, Numbers
    <2>. QED
      BY <1>1, <1>2, <1>5, <2>1 DEF TxCovers
  <1>11. TxPart'
    <2>1. pos' <= Len(batch')
      BY <1>1, <1>2, Numbers
    <2>. QED
      BY <1>1, <1>2, <1>7, <1>8, <1>9, <1>10, <2>1 DEF TxPart
  <1>12. Settled'
    <2>1. Durable' = Durable
      BY <1>1 DEF Durable
    <2>2. batch[pos + 1].ev \in 1..accepted
      <3>1. accepted = Base + Len(batch) + Len(queue) /\ Base >= 0
        BY Numbers DEF Base, Contiguous
      <3>. QED
        BY <1>2, <1>4, <3>1, Numbers
    <2>3. faults' > 0
      BY <1>2, Numbers
    <2>. QED
      BY <1>1, <1>2, <1>5, <2>1, <2>2, <2>3 DEF Settled
  <1>. QED
    BY <1>6, <1>11, <1>12

\* Emptying the batch advances Base by its length.
LEMMA EmptyBatch ==
    ASSUME LogInv, UNCHANGED <<accepted, queue>>, batch' = <<>>
    PROVE  /\ Base' = Base + Len(batch) /\ Len(batch') = 0
           /\ Base <= Base' /\ Base' <= accepted
           /\ Contiguous'
  <1>. USE DEF LogInv
  <1>1. Len(batch') = 0
    OBVIOUS
  <1>2. Base' = Base + Len(batch) /\ Base' <= accepted /\ Base <= Base'
    BY <1>1, Numbers DEF Base
  <1>3. ASSUME NEW i \in 1..Len(queue)
        PROVE  queue[i].ev = Base + Len(batch) + i
    BY DEF Contiguous
  <1>4. Base' >= 0
    BY <1>2, Numbers DEF Contiguous
  <1>5. ASSUME NEW i \in 1..Len(queue)
        PROVE  queue[i].ev = Base' + Len(batch') + i
    BY <1>1, <1>2, <1>3, Numbers
  <1>6. Contiguous'
    BY <1>1, <1>4, <1>5 DEF Contiguous
  <1>. QED
    BY <1>1, <1>2, <1>6

\* A commit makes the rows of the transaction part of the table.
LEMMA LogCommit ==
    ASSUME LogInv, TypeInv', Commit
    PROVE  LogInv'
  <1>. USE DEF LogInv
  <1>1. /\ UNCHANGED <<accepted, queue, lost, purged, faults, pos, txRows, txId>>
        /\ table' = table \cup txRows /\ lastId' = txId
        /\ batch' = <<>> /\ fpc = "commit" /\ fpc' = "count"
    BY DEF Commit, queues, tx, Step
  <1>2. /\ Base' = Base + Len(batch) /\ Base <= Base' /\ Base' <= accepted
        /\ Contiguous'
    BY <1>1, EmptyBatch
  <1>3. /\ pos = Len(batch) /\ lastId <= txId
        /\ TxRowsFit /\ TxRowsInOrder /\ TxCovers
    BY <1>1 DEF TxPart, InTx
  <1>4. TxPart'
    BY <1>1 DEF TxPart, InTx
  <1>5. ASSUME NEW r \in table
        PROVE  1 <= r.ev /\ r.ev <= Base /\ r.ev <= Base' /\ r.id <= lastId
               /\ r.id <= txId
    <2>1. 1 <= r.ev /\ r.ev <= Base /\ r.id <= lastId
      BY DEF TablePart
    <2>. QED
      BY <1>2, <1>3, <2>1, Numbers
  <1>6. ASSUME NEW r \in txRows
        PROVE  1 <= r.ev /\ Base < r.ev /\ r.ev <= Base' /\ lastId < r.id
               /\ r.id <= txId
    <2>1. Base < r.ev /\ r.ev <= Base + pos /\ lastId < r.id /\ r.id <= txId
      BY <1>3 DEF TxRowsFit
    <2>2. 0 <= Base
      BY DEF Contiguous
    <2>. QED
      BY <1>2, <1>3, <2>1, <2>2, Numbers
  <1>7. RowsInOrder'
    <2>1. ASSUME NEW r \in table, NEW q \in txRows
          PROVE  r.id < q.id /\ r.ev < q.ev /\ ~(q.id < r.id) /\ ~(q.ev < r.ev)
      BY <1>5, <1>6, Numbers
    <2>2. ASSUME NEW r \in table \cup txRows, NEW q \in table \cup txRows
          PROVE  r.id < q.id <=> r.ev < q.ev
      <3>1. CASE r \in table /\ q \in table
        BY <3>1 DEF TablePart, RowsInOrder
      <3>2. CASE r \in txRows /\ q \in txRows
        BY <1>3, <3>2 DEF TxRowsInOrder
      <3>3. CASE r \in table /\ q \in txRows
        BY <2>1, <3>3
      <3>4. CASE r \in txRows /\ q \in table
        BY <2>1, <3>4
      <3>. QED
        BY <3>1, <3>2, <3>3, <3>4
    <2>. QED
      BY <1>1, <2>2 DEF RowsInOrder
  <1>8. TablePart'
    BY <1>1, <1>5, <1>6, <1>7 DEF TablePart
  <1>9. Settled'
    <2>1. ASSUME NEW e \in 1..Base'
          PROVE  e \in Durable' \cup lost \cup purged
      <3>1. CASE e <= Base
        <4>1. e \in Durable \cup lost \cup purged
          BY <3>1, Numbers DEF Settled
        <4>2. Durable \subseteq Durable'
          BY <1>1 DEF Durable
        <4>. QED
          BY <4>1, <4>2
      <3>2. CASE Base < e
        <4>1. e \in Nat /\ e <= Base + pos
          BY <1>2, <1>3
        <4>2. e \in lost \/ \E r \in txRows : r.ev = e
          BY <1>3, <3>2, <4>1 DEF TxCovers
        <4>. QED
          BY <1>1, <4>2 DEF Durable
      <3>. QED
        BY <3>1, <3>2, <1>2, Numbers
    <2>. QED
      BY <1>1, <2>1 DEF Settled
  <1>. QED
    BY <1>2, <1>4, <1>8, <1>9

\* A failed Begin or Commit loses the batch, and is counted as a fault.
LEMMA LogDiscard ==
    ASSUME LogInv, TypeInv', BeginFails \/ CommitFails
    PROVE  LogInv'
  <1>. USE DEF LogInv
  <1>1. /\ UNCHANGED <<accepted, queue, purged, table, lastId>>
        /\ batch' = <<>> /\ lost' = lost \cup Tickets(batch)
        /\ faults' = faults + 1
        /\ fpc' \in {"waiting", "exited", "count"}
    BY DEF BeginFails, CommitFails, queues, db, Step, Fault, EndDrain
  <1>2. /\ Base' = Base + Len(batch) /\ Base <= Base' /\ Base' <= accepted
        /\ Contiguous'
    BY <1>1, EmptyBatch
  <1>3. TxPart'
    BY <1>1 DEF TxPart, InTx
  <1>4. TablePart'
    <2>1. ASSUME NEW r \in table
          PROVE  1 <= r.ev /\ r.ev <= Base' /\ r.id <= lastId
      <3>1. 1 <= r.ev /\ r.ev <= Base /\ r.id <= lastId
        BY DEF TablePart
      <3>. QED
        BY <1>2, <3>1, Numbers
    <2>. QED
      BY <1>1, <2>1 DEF TablePart, RowsInOrder
  <1>5. DOMAIN batch = 1..Len(batch)
    BY LenProperties DEF TypeInv, TypeOK, FlusherTypes
  <1>6. Settled'
    <2>1. Durable' = Durable
      BY <1>1 DEF Durable
    <2>2. ASSUME NEW e \in 1..Base'
          PROVE  e \in Durable \cup lost' \cup purged
      <3>1. CASE e <= Base
        BY <1>1, <3>1, Numbers DEF Settled
      <3>2. CASE Base < e
        <4>1. e - Base \in 1..Len(batch)
          BY <1>2, <3>2, Numbers
        <4>2. batch[e - Base].ev = Base + (e - Base)
          BY <4>1 DEF Contiguous
        <4>3. Base + (e - Base) = e
          BY Numbers
        <4>4. e \in Tickets(batch)
          BY <1>5, <4>1, <4>2, <4>3 DEF Tickets
        <4>. QED
          BY <1>1, <4>4
      <3>. QED
        BY <3>1, <3>2, <1>2, Numbers
    <2>3. Tickets(batch) \subseteq 1..accepted
      <3>1. ASSUME NEW i \in 1..Len(batch)
            PROVE  batch[i].ev \in 1..accepted
        <4>1. batch[i].ev = Base + i /\ Base >= 0
          BY DEF Contiguous
        <4>. QED
          BY <1>2, <4>1, Numbers
      <3>. QED
        BY <1>5, <3>1 DEF Tickets
    <2>4. faults' > 0
      BY <1>1, Numbers
    <2>. QED
      BY <1>1, <2>1, <2>2, <2>3, <2>4 DEF Settled
  <1>. QED
    BY <1>2, <1>3, <1>4, <1>6

\* Rows that leave the table are recorded as purged.
LEMMA LogPurge ==
    ASSUME LogInv, TypeInv',
           UNCHANGED <<accepted, queue, batch, lastId, lost, faults>>,
           ~InTx', fpc' \notin {"rollups", "commit"},
           NEW gone \in SUBSET table,
           table' = table \ gone,
           purged' = purged \cup {r.ev : r \in gone}
    PROVE  LogInv'
  <1>. USE DEF LogInv
  <1>1. Base' = Base
    BY DEF Base
  <1>2. Contiguous' /\ TablePart'
    BY <1>1 DEF Contiguous, TablePart, RowsInOrder
  <1>3. TxPart'
    BY DEF TxPart
  <1>4. Settled'
    <2>1. Durable \subseteq Durable' \cup {r.ev : r \in gone}
      BY DEF Durable
    <2>2. {r.ev : r \in gone} \subseteq 1..accepted
      <3>1. ASSUME NEW r \in gone
            PROVE  r.ev \in 1..accepted
        <4>1. 1 <= r.ev /\ r.ev <= Base
          BY DEF TablePart
        <4>2. Base <= accepted
          BY Numbers DEF Base
        <4>. QED
          BY <4>1, <4>2, Numbers
      <3>. QED
        BY <3>1
    <2>. QED
      BY <1>1, <2>1, <2>2 DEF Settled
  <1>. QED
    BY <1>2, <1>3, <1>4

LEMMA LogNext == LogInv /\ [Next]_vars => LogInv'
  <1>. SUFFICES ASSUME LogInv, [Next]_vars
                PROVE  LogInv'
    OBVIOUS
  <1>. USE DEF LogInv
  <1>1. TypeInv'
    BY TypeNext
  <1>2. faults \in Nat
    BY Numbers
  <1>3. ASSUME NEW h \in Handlers, Handle(h)
        PROVE  LogInv'
    <2>1. CASE \E c \in Clients : Record(h, c)
      BY <1>1, <2>1, LogRecord
    <2>2. CASE BeginRequest(h)
      BY <1>1, <1>2, <2>2, LogFrame
      DEF BeginRequest, queues, tx, flusher, db, InTx, TxPart
    <2>3. CASE RollupUpdate(h)
      BY <1>1, <1>2, <2>3, LogFrame
      DEF RollupUpdate, tx, flusher, db, InTx, TxPart
    <2>4. CASE DropLoad(h)
      BY <1>1, <1>2, <2>4, LogFrame
      DEF DropLoad, queues, tx, flusher, db, InTx, TxPart
    <2>5. CASE DropStore(h)
      BY <1>1, <1>2, <2>5, LogFrame
      DEF DropStore, queues, tx, flusher, db, InTx, TxPart
    <2>. QED
      BY <1>3, <2>1, <2>2, <2>3, <2>4, <2>5 DEF Handle
  <1>4. ASSUME Drain
        PROVE  LogInv'
    <2>. USE DEF queues, tx, db, Step, InTx, EndDrain, Fault
    <2>1. CASE TakeEvent
      BY <1>1, <2>1, LogTakeEvent
    <2>2. CASE NoMoreEvents
      BY <1>1, <1>2, <2>2, LogFrame DEF NoMoreEvents
    <2>3. CASE TakeDelta
      BY <1>1, <1>2, <2>3, LogFrame DEF TakeDelta
    <2>4. CASE NoMoreDeltas
      BY <1>1, <1>2, <2>4, LogFrame DEF NoMoreDeltas
    <2>5. CASE Begin
      BY <1>1, <2>5, LogBegin
    <2>6. CASE BeginFails \/ CommitFails
      BY <1>1, <2>6, LogDiscard
    <2>7. CASE InsertRow
      BY <1>1, <2>7, LogInsertRow
    <2>8. CASE SkipRow
      BY <1>1, <2>8, LogSkipRow
    <2>9. CASE RowsDone
      BY <1>1, <1>2, <2>9, LogFrame DEF RowsDone
    <2>10. CASE ApplyDeltas
      <3>1. pos = Len(batch)
        BY <2>10 DEF ApplyDeltas, TxPart
      <3>2. faults' >= faults
        BY <1>2, <2>10 DEF ApplyDeltas
      <3>. QED
        BY <1>1, <2>10, <3>1, <3>2, LogFrame DEF ApplyDeltas
    <2>11. CASE Commit
      BY <1>1, <2>11, LogCommit
    <2>12. CASE CountRows
      BY <1>1, <1>2, <2>12, LogFrame DEF CountRows
    <2>13. CASE TrimOldest
      <3>1. OldestRows(oldest) \in SUBSET table
        BY DEF OldestRows
      <3>. QED
        BY <1>1, <2>13, <3>1, LogPurge DEF TrimOldest
    <2>14. CASE RowCapFails
      <3>1. faults' >= faults
        BY <1>2, <2>14 DEF RowCapFails
      <3>. QED
        BY <1>1, <2>14, <3>1, LogFrame DEF RowCapFails
    <2>. QED
      BY <1>4, <2>1, <2>2, <2>3, <2>4, <2>5, <2>6, <2>7, <2>8, <2>9, <2>10,
         <2>11, <2>12, <2>13, <2>14
      DEF Drain
  <1>5. ASSUME NEW c \in Clients, ForgetClient(c)
        PROVE  LogInv'
    <2>. DEFINE gone == {q \in table : q.client = c}
    <2>1. table' = table \ gone
      BY <1>5 DEF ForgetClient
    <2>2. /\ UNCHANGED <<accepted, queue, batch, lastId, lost, faults, fpc>>
          /\ ~InTx /\ purged' = purged \cup {r.ev : r \in gone}
      BY <1>5 DEF ForgetClient, queues, flusher
    <2>3. gone \in SUBSET table /\ ~InTx' /\ fpc' \notin {"rollups", "commit"}
      BY <2>2 DEF InTx
    <2>. HIDE DEF gone
    <2>. QED
      BY <1>1, <2>1, <2>2, <2>3, LogPurge
  <1>6. CASE Wake \/ SeeStop
    BY <1>1, <1>2, <1>6, LogFrame DEF Wake, SeeStop, queues, tx, db, Step, InTx
  <1>7. CASE Shutdown \/ Close \/ Exit
    <2>1. UNCHANGED <<queues, tx, flusher, db>>
      BY <1>7 DEF Shutdown, Close, Exit
    <2>. QED
      BY <1>1, <1>2, <2>1, LogFrame DEF queues, tx, db, flusher, InTx, TxPart
  <1>8. CASE UNCHANGED vars
    BY <1>1, <1>2, <1>8, LogFrame DEF vars, queues, tx, db, flusher, InTx, TxPart
  <1>. QED
    BY <1>3, <1>4, <1>5, <1>6, <1>7, <1>8 DEF Next

\* Every event the channel accepted is accounted for, whatever the handlers, the
\* flusher, `veilgate forget` and the failures of the database do.
THEOREM Accounted == SafeSpec => []NothingVanishes
  BY LogInit, LogNext, LogInvVanish, PTL DEF SafeSpec

\* Row ids follow the order in which the channel accepted the events.
THEOREM Ordered == SafeSpec => []RowsInOrder
  <1>1. LogInv => RowsInOrder
    BY DEF LogInv, TablePart
  <1>. QED
    BY <1>1, LogInit, LogNext, PTL DEF SafeSpec
-----------------------------------------------------------------------------
(* The store implements EventLog: what is pending is the run of tickets     *)
(* after Base.                                                              *)

Run(b, n) == [i \in 1..n |-> b + i]

\* Runs are extended at the end and cut at the front.
LEMMA RunAppend ==
    ASSUME NEW b \in Nat, NEW n \in Nat
    PROVE  Append(Run(b, n), b + n + 1) = Run(b, n + 1)
  <1>. DEFINE r == Run(b, n)
  <1>1. r \in Seq(Int) /\ Len(r) = n /\ \A i \in 1..n : r[i] = b + i
    BY DEF Run
  <1>2. b + n + 1 \in Int
    OBVIOUS
  <1>. HIDE DEF r
  <1>3. Append(r, b + n + 1) =
           [i \in 1..(n + 1) |-> IF i <= n THEN r[i] ELSE b + n + 1]
    BY <1>1, <1>2
  <1>4. ASSUME NEW i \in 1..(n + 1)
        PROVE  (IF i <= n THEN r[i] ELSE b + n + 1) = b + i
    BY <1>1
  <1>5. Append(r, b + n + 1) = [i \in 1..(n + 1) |-> b + i]
    BY <1>3, <1>4
  <1>. QED
    BY <1>5 DEF Run, r

LEMMA RunCut ==
    ASSUME NEW b \in Nat, NEW n \in Nat, NEW k \in 0..n
    PROVE  SubSeq(Run(b, n), k + 1, n) = Run(b + k, n - k)
  BY DEF Run

\* What is pending, as a run.
LEMMA PendingRun ==
    LogInv => /\ Base \in Nat
              /\ Pending = Run(Base, Len(batch) + Len(queue))
  <1>. SUFFICES ASSUME LogInv
                PROVE  /\ Base \in Nat
                       /\ Pending = Run(Base, Len(batch) + Len(queue))
    OBVIOUS
  <1>. USE DEF LogInv
  <1>1. batch \in Seq(Event) /\ queue \in Seq(Event)
    BY DEF TypeInv, TypeOK, QueueTypes, FlusherTypes
  <1>2. /\ Len(batch \o queue) = Len(batch) + Len(queue)
        /\ \A i \in 1..(Len(batch) + Len(queue)) :
              (batch \o queue)[i] = IF i <= Len(batch) THEN batch[i]
                                    ELSE queue[i - Len(batch)]
    BY <1>1, ConcatProperties
  <1>3. ASSUME NEW i \in 1..(Len(batch) + Len(queue))
        PROVE  (batch \o queue)[i].ev = Base + i
    <2>1. CASE i <= Len(batch)
      <3>1. i \in 1..Len(batch)
        BY <2>1, Numbers
      <3>2. batch[i].ev = Base + i
        BY <3>1 DEF Contiguous
      <3>. QED
        BY <1>2, <2>1, <3>2
    <2>2. CASE ~(i <= Len(batch))
      <3>1. i - Len(batch) \in 1..Len(queue)
        BY <2>2, Numbers
      <3>2. queue[i - Len(batch)].ev = Base + Len(batch) + (i - Len(batch))
        BY <3>1 DEF Contiguous
      <3>3. Base + Len(batch) + (i - Len(batch)) = Base + i
        BY Numbers
      <3>. QED
        BY <1>2, <2>2, <3>2, <3>3
    <2>. QED
      BY <2>1, <2>2
  <1>4. Base \in Nat
    BY Numbers DEF Contiguous
  <1>. QED
    BY <1>2, <1>3, <1>4 DEF Pending, Run

LEMMA LogStarts == Init => Log!Init
  <1>. SUFFICES ASSUME Init
                PROVE  Log!Init
    OBVIOUS
  <1>1. queue = <<>> /\ batch = <<>> /\ accepted = 0 /\ table = {}
    BY DEF Init
  <1>2. batch \o queue = <<>>
    BY <1>1
  <1>3. Pending = <<>>
    BY <1>2 DEF Pending
  <1>4. Durable = {}
    BY <1>1 DEF Durable
  <1>. QED
    BY <1>1, <1>3, <1>4 DEF Log!Init

LEMMA PendingRunNext ==
    LogInv' => Pending' = Run(Base', Len(batch') + Len(queue'))
  <1>1. (LogInv => Pending = Run(Base, Len(batch) + Len(queue)))'
    BY PendingRun, PTL
  <1>. QED
    BY <1>1

\* Accepting an event is a step of the log.
LEMMA RecordAccepts ==
    ASSUME LogInv, LogInv', NEW h \in Handlers, NEW c \in Clients, Record(h, c)
    PROVE  Log!Accept
  <1>. DEFINE n == Len(batch) + Len(queue)
  <1>1. /\ accepted' = accepted + 1 /\ batch' = batch /\ table' = table
        /\ queue' = Append(queue, [ev |-> accepted + 1, client |-> c])
    BY DEF Record, db, flusher
  <1>2. queue \in Seq(Event) /\ [ev |-> accepted + 1, client |-> c] \in Event
    BY Numbers DEF LogInv, TypeInv, TypeOK, QueueTypes, Event
  <1>3. Len(queue') = Len(queue) + 1
    BY <1>1, <1>2, AppendProperties
  <1>4. Base' = Base /\ Base + n + 1 = accepted + 1 /\ n \in Nat
    BY <1>1, <1>3, Numbers, SMTT(30) DEF Base, LogInv
  <1>5. Len(batch') + Len(queue') = n + 1
    BY <1>1, <1>3, Numbers DEF LogInv
  <1>. HIDE DEF n
  <1>6. Pending = Run(Base, n) /\ Base \in Nat
    BY PendingRun DEF n
  <1>7. Pending' = Run(Base, n + 1)
    <2>1. Pending' = Run(Base', Len(batch') + Len(queue'))
      BY PendingRunNext
    <2>. QED
      BY <1>4, <1>5, <2>1
  <1>8. Pending' = Append(Pending, accepted + 1)
    BY <1>4, <1>6, <1>7, RunAppend
  <1>9. Durable' = Durable
    BY <1>1 DEF Durable
  <1>. QED
    BY <1>1, <1>8, <1>9 DEF Log!Accept

\* Whatever becomes of the batch settles its events and no others.
LEMMA BatchSettles ==
    ASSUME LogInv, LogInv', UNCHANGED <<accepted, queue>>, batch' = <<>>,
           NEW kept \in SUBSET Tickets(batch), Durable' = Durable \cup kept
    PROVE  Log!Settle \/ UNCHANGED Log!evars
  <1>1. /\ Len(batch) \in Nat /\ Len(queue) \in Nat
        /\ DOMAIN batch = 1..Len(batch)
    BY Numbers, LenProperties DEF LogInv, TypeInv, TypeOK, FlusherTypes
  <1>2. Base' = Base + Len(batch) /\ Len(batch') = 0
    BY EmptyBatch
  <1>3. Pending = Run(Base, Len(batch) + Len(queue)) /\ Base \in Nat
    BY PendingRun
  <1>4. Pending' = Run(Base + Len(batch), Len(queue))
    <2>1. Pending' = Run(Base', Len(batch') + Len(queue'))
      BY PendingRunNext
    <2>2. Len(batch') + Len(queue') = Len(queue)
      BY <1>1, <1>2
    <2>. QED
      BY <1>2, <2>1, <2>2
  <1>5. CASE Len(batch) = 0
    <2>1. Base + Len(batch) = Base /\ Len(batch) + Len(queue) = Len(queue)
      BY <1>1, <1>3, <1>5
    <2>2. Pending' = Pending
      BY <1>3, <1>4, <2>1
    <2>3. Tickets(batch) = {}
      BY <1>1, <1>5 DEF Tickets
    <2>. QED
      BY <2>2, <2>3 DEF Log!evars
  <1>6. CASE Len(batch) # 0
    <2>. DEFINE n == Len(batch)
                m == Len(batch) + Len(queue)
    <2>1. n \in 1..m /\ n \in 0..m /\ m \in Nat /\ m - n = Len(queue)
      BY <1>1, <1>6
    <2>2. Len(Pending) = m
      BY <1>3, <2>1 DEF Run
    <2>3. SubSeq(Pending, n + 1, m) = Run(Base + n, m - n)
      BY <1>3, <2>1, RunCut
    <2>4. Pending' = SubSeq(Pending, n + 1, Len(Pending))
      BY <1>4, <2>1, <2>2, <2>3
    <2>5. ASSUME NEW i \in 1..n
          PROVE  batch[i].ev = Pending[i]
      <3>1. batch[i].ev = Base + i
        BY DEF LogInv, Contiguous
      <3>2. Pending[i] = Base + i
        BY <1>1, <1>3 DEF Run
      <3>. QED
        BY <3>1, <3>2
    <2>6. kept \in SUBSET {Pending[i] : i \in 1..n}
      BY <1>1, <2>5 DEF Tickets
    <2>7. n \in 1..Len(Pending)
      BY <2>1, <2>2
    <2>. HIDE DEF n, m
    <2>. QED
      BY <2>4, <2>6, <2>7 DEF Log!Settle
  <1>. QED
    BY <1>5, <1>6

\* All other steps leave what is pending alone.
LEMMA Stutters ==
    ASSUME LogInv, LogInv', accepted' = accepted, table' = table,
           Len(batch') + Len(queue') = Len(batch) + Len(queue)
    PROVE  UNCHANGED Log!evars
  <1>1. Base' = Base
    BY Numbers, SMTT(30) DEF Base, LogInv
  <1>2. Pending' = Pending
    <2>1. Pending' = Run(Base', Len(batch') + Len(queue'))
      BY PendingRunNext
    <2>2. Pending = Run(Base, Len(batch) + Len(queue))
      BY PendingRun
    <2>. QED
      BY <1>1, <2>1, <2>2
  <1>3. Durable' = Durable
    BY DEF Durable
  <1>. QED
    BY <1>2, <1>3 DEF Log!evars

LEMMA LogSteps == LogInv /\ LogInv' /\ [Next]_vars => [Log!Next]_(Log!evars)
  <1>. SUFFICES ASSUME LogInv, LogInv', [Next]_vars
                PROVE  Log!Next \/ UNCHANGED Log!evars
    BY DEF Log!Next
  <1>. USE DEF LogInv
  <1>1. ASSUME NEW h \in Handlers, NEW c \in Clients, Record(h, c)
        PROVE  Log!Next
    BY <1>1, RecordAccepts DEF Log!Next
  <1>2. CASE Commit
    <2>1. /\ UNCHANGED <<accepted, queue>> /\ batch' = <<>>
          /\ table' = table \cup txRows
          /\ fpc = "commit"
      BY <1>2 DEF Commit, queues, Step
    <2>. DEFINE kept == {r.ev : r \in txRows}
    <2>2. kept \in SUBSET Tickets(batch)
      <3>1. DOMAIN batch = 1..Len(batch)
        BY LenProperties DEF TypeInv, TypeOK, FlusherTypes
      <3>2. TxRowsFit /\ pos = Len(batch)
        BY <2>1 DEF TxPart, InTx
      <3>3. ASSUME NEW r \in txRows
            PROVE  r.ev \in Tickets(batch)
        <4>1. Base < r.ev /\ r.ev <= Base + Len(batch)
          BY <3>2 DEF TxRowsFit
        <4>2. r.ev - Base \in 1..Len(batch)
          BY <4>1, Numbers
        <4>3. batch[r.ev - Base].ev = Base + (r.ev - Base)
          BY <4>2 DEF Contiguous
        <4>4. Base + (r.ev - Base) = r.ev
          BY Numbers
        <4>. QED
          BY <3>1, <4>2, <4>3, <4>4 DEF Tickets
      <3>. QED
        BY <3>3
    <2>3. Durable' = Durable \cup kept
      BY <2>1 DEF Durable
    <2>. HIDE DEF kept
    <2>. QED
      BY <2>1, <2>2, <2>3, BatchSettles DEF Log!Next
  <1>3. CASE BeginFails \/ CommitFails
    <2>1. UNCHANGED <<accepted, queue, table>> /\ batch' = <<>>
      BY <1>3 DEF BeginFails, CommitFails, queues, db
    <2>2. Durable' = Durable \cup {}
      BY <2>1 DEF Durable
    <2>. QED
      BY <2>1, <2>2, BatchSettles DEF Log!Next
  <1>4. CASE TrimOldest \/ \E c \in Clients : ForgetClient(c)
    <2>1. UNCHANGED <<accepted, queue, batch>> /\ table' \subseteq table
      BY <1>4 DEF TrimOldest, ForgetClient, queues, flusher
    <2>2. Durable' \in SUBSET Durable
      BY <2>1 DEF Durable
    <2>3. Pending' = Pending
      BY <2>1 DEF Pending
    <2>. QED
      BY <2>1, <2>2, <2>3 DEF Log!Next, Log!Purge
  <1>5. CASE TakeEvent
    <2>1. queue \in Seq(Event) /\ batch \in Seq(Event) /\ queue # <<>>
      BY <1>5 DEF TakeEvent, TypeInv, TypeOK, QueueTypes, FlusherTypes
    <2>2. /\ batch' = Append(batch, Head(queue)) /\ queue' = Tail(queue)
          /\ accepted' = accepted /\ table' = table
      BY <1>5 DEF TakeEvent, db
    <2>3. Len(queue') = Len(queue) - 1 /\ Head(queue) \in Event
      BY <2>1, <2>2, HeadTailProperties
    <2>4. Len(batch') = Len(batch) + 1
      BY <2>1, <2>2, <2>3, AppendProperties
    <2>5. Len(batch') + Len(queue') = Len(batch) + Len(queue)
      BY <2>3, <2>4, Numbers
    <2>. QED
      BY <2>2, <2>5, Stutters
  <1>6. ASSUME UNCHANGED <<accepted, queue, batch, table>>
        PROVE  UNCHANGED Log!evars
    BY <1>6, Stutters
  <1>7. ASSUME NEW h \in Handlers,
               \/ BeginRequest(h) \/ RollupUpdate(h)
               \/ DropLoad(h) \/ DropStore(h)
        PROVE  UNCHANGED <<accepted, queue, batch, table>>
    BY <1>7
    DEF BeginRequest, RollupUpdate, DropLoad, DropStore, queues, flusher, db
  <1>8. ASSUME \/ NoMoreEvents \/ TakeDelta \/ NoMoreDeltas \/ Begin
               \/ RowsDone \/ ApplyDeltas \/ CountRows \/ RowCapFails
               \/ Wake \/ SeeStop
        PROVE  UNCHANGED <<accepted, queue, batch, table>>
    BY <1>8
    DEF NoMoreEvents, TakeDelta, NoMoreDeltas, Begin, RowsDone, ApplyDeltas,
        CountRows, RowCapFails, Wake, SeeStop, queues, db
  <1>9. ASSUME InsertRow \/ SkipRow
        PROVE  UNCHANGED <<accepted, queue, batch, table>>
    BY <1>9 DEF InsertRow, SkipRow, queues, flusher, db
  <1>10. ASSUME Shutdown \/ Close \/ Exit \/ UNCHANGED vars
         PROVE  UNCHANGED <<accepted, queue, batch, table>>
    BY <1>10 DEF Shutdown, Close, Exit, vars, queues, flusher, db
  <1>. QED
    BY <1>1, <1>2, <1>3, <1>4, <1>5, <1>6, <1>7, <1>8, <1>9, <1>10
    DEF Next, Handle, Drain

\* The store implements the lossy log: acceptance appends, a drain settles its
\* batch as a whole, deletions only remove, and nothing else shows.
THEOREM Implements == SafeSpec => ImplementsLog
  <1>1. SafeSpec => []LogInv
    BY LogInit, LogNext, PTL DEF SafeSpec
  <1>2. SafeSpec => Log!Init /\ [][Log!Next]_(Log!evars)
    BY <1>1, LogStarts, LogSteps, PTL DEF SafeSpec
  <1>. QED
    BY <1>2 DEF ImplementsLog, Log!Spec
-----------------------------------------------------------------------------
(* Deltas: every accepted one is in the channel, with the flusher, in the   *)
(* counter, or discarded, and a transaction applies no more than it took.   *)

DeltasBounded ==
    /\ rollups + deltas + rollupQueue <= sent
    /\ fpc = "commit" => txDeltas <= deltas

RollupInv == TypeInv /\ DeltasBounded

LEMMA DeltaNumbers ==
    ASSUME TypeInv
    PROVE  /\ rollups \in Nat /\ deltas \in Nat /\ rollupQueue \in Nat
           /\ sent \in Nat /\ txDeltas \in Nat
  BY StoreAssumption
  DEF TypeInv, TypeOK, DbTypes, FlusherTypes, QueueTypes, TxTypes

LEMMA RollupNext == RollupInv /\ [Next]_vars => RollupInv'
  <1>. SUFFICES ASSUME RollupInv, [Next]_vars
                PROVE  DeltasBounded'
    BY TypeNext DEF RollupInv
  <1>. USE DEF RollupInv, DeltasBounded
  <1>1. ASSUME UNCHANGED <<rollups, deltas, rollupQueue, sent, txDeltas>>,
               fpc' = "commit" => fpc = "commit"
        PROVE  DeltasBounded'
    BY <1>1
  <1>2. ASSUME NEW h \in Handlers, RollupUpdate(h)
        PROVE  DeltasBounded'
    BY <1>2, DeltaNumbers DEF RollupUpdate, tx, flusher, db
  <1>3. ASSUME NEW h \in Handlers,
               \/ BeginRequest(h) \/ DropLoad(h) \/ DropStore(h)
               \/ \E c \in Clients : Record(h, c)
        PROVE  DeltasBounded'
    <2>1. UNCHANGED <<rollupQueue, sent, tx, flusher, db>>
      BY <1>3 DEF BeginRequest, DropLoad, DropStore, Record, queues
    <2>. QED
      BY <1>1, <2>1 DEF tx, flusher, db
  <1>4. CASE TakeDelta
    BY <1>4, DeltaNumbers DEF TakeDelta, tx, db
  <1>5. CASE Commit
    BY <1>5, DeltaNumbers DEF Commit, queues, tx, Step
  <1>6. CASE BeginFails \/ CommitFails
    BY <1>6, DeltaNumbers
    DEF BeginFails, CommitFails, queues, tx, db, Step, EndDrain
  <1>7. CASE ApplyDeltas
    BY <1>7, DeltaNumbers DEF ApplyDeltas, queues, db, Step
  <1>8. CASE Begin
    BY <1>8 DEF Begin, queues, db, Step
  <1>9. CASE TakeEvent \/ InsertRow \/ SkipRow
    BY <1>1, <1>9 DEF TakeEvent, InsertRow, SkipRow, queues, tx, flusher, db
  <1>10. CASE \/ NoMoreEvents \/ NoMoreDeltas \/ RowsDone \/ CountRows
              \/ RowCapFails \/ Wake \/ SeeStop
    BY <1>1, <1>10
    DEF NoMoreEvents, NoMoreDeltas, RowsDone, CountRows, RowCapFails, Wake, SeeStop,
        queues, tx, db, Step, EndDrain
  <1>11. CASE TrimOldest
    BY <1>1, <1>11 DEF TrimOldest, queues, tx, EndDrain
  <1>12. CASE \E c \in Clients : ForgetClient(c)
    BY <1>1, <1>12 DEF ForgetClient, queues, tx, flusher
  <1>13. CASE Shutdown \/ Close \/ Exit \/ UNCHANGED vars
    <2>1. UNCHANGED <<queues, tx, flusher, db>>
      BY <1>13 DEF Shutdown, Close, Exit, vars
    <2>. QED
      BY <1>1, <2>1 DEF queues, tx, flusher, db
  <1>. QED
    BY <1>2, <1>3, <1>4, <1>5, <1>6, <1>7, <1>8, <1>9, <1>10, <1>11, <1>12,
       <1>13
    DEF Next, Handle, Drain

\* No delta is counted twice.
THEOREM NotOvercounted == SafeSpec => []RollupsNotOvercounted
  <1>1. Init => RollupInv
    BY TypeInit DEF Init, RollupInv, DeltasBounded
  <1>2. RollupInv => RollupsNotOvercounted
    BY DeltaNumbers DEF RollupInv, DeltasBounded, RollupsNotOvercounted
  <1>. QED
    BY <1>1, <1>2, RollupNext, PTL DEF SafeSpec
-----------------------------------------------------------------------------
(* Shutdown: the last drain begins after stop is closed, and unless a       *)
(* request is late nobody puts anything into the channels any more.         *)

Stopping == phase \in {"closing", "closed"}

LastDrain ==
    /\ fpc = "waiting" => ~final
    /\ fpc = "exited" => final
    /\ final => Stopping
    /\ phase = "closed" => fpc = "exited"

Quiet == Stopping /\ ~late => \A h \in Handlers : hpc[h] = "idle"

Emptied ==
    /\ final /\ ~late /\ fpc \notin {"waiting", "events"} => queue = <<>>
    /\ final /\ ~late /\ fpc \notin {"waiting", "events", "deltas"} =>
          rollupQueue = 0
    /\ fpc \in {"waiting", "exited", "count", "trim"} => batch = <<>> /\ deltas = 0

CloseInv == LastDrain /\ Quiet /\ Emptied

LEMMA CloseNext == TypeOK /\ CloseInv /\ [Next]_vars => CloseInv'
  <1>. SUFFICES ASSUME TypeOK, CloseInv, [Next]_vars
                PROVE  CloseInv'
    OBVIOUS
  <1>. USE DEF CloseInv, LastDrain, Quiet, Emptied, Stopping
  <1>1. CASE UNCHANGED vars
    BY <1>1 DEF vars, main, callers, queues, flusher
  <1>2. ASSUME NEW h \in Handlers, Handle(h)
        PROVE  CloseInv'
    <2>. USE DEF callers, queues, flusher, main
    <2>1. hpc \in [Handlers -> {"idle", "serving", "dropEvent", "dropDelta"}]
      BY DEF TypeOK, CallerTypes
    <2>2. CASE BeginRequest(h)
      <3>1. late' = (late \/ phase = "closing") /\ phase # "closed"
        BY <1>2, <2>2 DEF BeginRequest, Handle, Alive
      <3>. QED
        BY <2>2, <3>1 DEF BeginRequest
    <2>3. CASE hpc[h] # "idle"
      <3>1. phase # "closed" /\ (phase = "closing" => late)
        BY <1>2, <2>3 DEF Handle, Alive
      <3>2. UNCHANGED <<phase, late, fpc, final, batch, deltas>>
        BY <1>2, <2>3
        DEF Handle, BeginRequest, RollupUpdate, Record, DropLoad, DropStore
      <3>. QED
        BY <3>1, <3>2
    <2>. QED
      BY <1>2, <2>2, <2>3
      DEF Handle, RollupUpdate, Record, DropLoad, DropStore
  <1>3. CASE Wake \/ SeeStop
    BY <1>3 DEF Wake, SeeStop, Step, main, callers, queues
  <1>4. CASE TakeEvent \/ TakeDelta
    BY <1>4 DEF TakeEvent, TakeDelta, main, callers
  <1>5. CASE NoMoreEvents
    BY <1>5 DEF NoMoreEvents, Step, main, callers, queues
  <1>6. CASE NoMoreDeltas
    BY <1>6 DEF NoMoreDeltas, EndDrain, main, callers, queues
  <1>7. CASE Begin \/ RowsDone \/ ApplyDeltas
    BY <1>7 DEF Begin, RowsDone, ApplyDeltas, Step, main, callers, queues
  <1>8. CASE BeginFails \/ Commit \/ CommitFails
    BY <1>8 DEF BeginFails, Commit, CommitFails, Step, EndDrain, main, callers,
                queues
  <1>9. CASE InsertRow \/ SkipRow
    BY <1>9 DEF InsertRow, SkipRow, main, callers, queues, flusher
  <1>10. CASE CountRows \/ TrimOldest \/ RowCapFails
    BY <1>10 DEF CountRows, TrimOldest, RowCapFails, EndDrain, main, callers, queues
  <1>11. CASE \E c \in Clients : ForgetClient(c)
    BY <1>11 DEF ForgetClient, main, callers, queues, flusher
  <1>12. CASE Shutdown \/ Exit
    BY <1>12 DEF Shutdown, Exit, callers, queues, flusher
  <1>13. CASE Close
    <2>1. /\ phase' = "closing" /\ ~final
          /\ UNCHANGED <<hpc, fpc, final, batch, deltas>>
      BY <1>13 DEF Close, callers, flusher
    <2>2. ~late' => \A h \in Handlers : hpc[h] = "idle"
      BY <1>13, Zenon DEF Close
    <2>. QED
      BY <2>1, <2>2
  <1>. QED
    BY <1>1, <1>2, <1>3, <1>4, <1>5, <1>6, <1>7, <1>8, <1>9, <1>10, <1>11,
       <1>12, <1>13
    DEF Next, Drain

\* When no request is in flight at Close, the store is closed with empty channels
\* and nothing in the flusher's hands.
THEOREM ClosesFlushed == SafeSpec => []CloseFlushesQuiet
  <1>1. Init => CloseInv
    BY DEF Init, CloseInv, LastDrain, Quiet, Emptied, Stopping
  <1>2. CloseInv => CloseFlushesQuiet
    BY DEF CloseInv, LastDrain, Emptied, CloseFlushesQuiet
  <1>. QED
    BY <1>1, <1>2, CloseNext, TypeCorrect, PTL DEF SafeSpec
=============================================================================
