----------------------------- MODULE Retention -----------------------------
(* Rows of the event store that leave it: every six hours main dumps the    *)
(* rows older than the retention to a compressed file and trims them; the   *)
(* flusher drops the oldest tenth of a table over its cap; `veilgate forget`*)
(* deletes those of a client.  Rows are numbered in the order of their time.*)
EXTENDS Integers, FiniteSets

CONSTANTS
    MaxEventRows,      \* the cap of the table
    Share,             \* one of so many rows goes over the cap
    ClientOf,          \* the client of a row
    MaxRows, MaxDumps, MaxFaults    \* bounds

VARIABLES
    stored, inserted,    \* the table, and how many rows it ever got
    aged,              \* the rows up to this one are older than the retention
    trim,              \* the pass: [at, cutoff]
    dumps,             \* the rows in each file that was written to its end
    passes, faults,    \* counters of the bounds
    trimmed, unflushed \* history: what Trim deleted, what a dump only seemed to write

vars == <<stored, inserted, aged, trim, dumps, passes, faults, trimmed, unflushed>>

Idle == [at |-> "idle", cutoff |-> 0]
Fault == faults < MaxFaults /\ faults' = faults + 1

Init ==
    /\ stored = {} /\ inserted = 0 /\ aged = 0 /\ trim = Idle /\ dumps = {}
    /\ passes = 0 /\ faults = 0 /\ trimmed = {} /\ unflushed = {}

\* enforceRowCap: the oldest of a table over its cap.
OverCap(t) ==
    IF Cardinality(t) <= MaxEventRows THEN {}
    ELSE {r \in t : Cardinality({q \in t : q <= r}) <= Cardinality(t) \div Share}

\* The flusher commits a row.
Insert ==
    /\ inserted < MaxRows /\ inserted' = inserted + 1
    /\ stored' = (stored \cup {inserted + 1}) \ OverCap(stored \cup {inserted + 1})
    /\ UNCHANGED <<aged, trim, dumps, passes, faults, trimmed, unflushed>>

\* Time passes.
Age ==
    /\ aged < inserted /\ aged' = aged + 1
    /\ UNCHANGED <<stored, inserted, trim, dumps, passes, faults, trimmed, unflushed>>

TickAt(cutoff) ==
    /\ trim.at = "idle" /\ passes < MaxDumps /\ passes' = passes + 1
    /\ trim' = [at |-> "dump", cutoff |-> cutoff]
    /\ UNCHANGED <<stored, inserted, aged, dumps, faults, trimmed, unflushed>>

\* Mutant: rows that are not old enough go as well.
TickAhead == TickAt(aged + 1)

\* The ticker: the cutoff is the same for the dump and for the trim.
Tick == TickAt(aged)

Older == {r \in stored : r <= trim.cutoff}
DumpTo(next, files, unseen) ==
    /\ trim.at = "dump" /\ trim' = next /\ dumps' = files /\ unflushed' = unseen
    /\ UNCHANGED <<stored, inserted, aged, passes, trimmed>>

\* DumpCSVGz.
Dump == DumpTo([trim EXCEPT !.at = "trim"], dumps \cup {Older}, unflushed) /\ UNCHANGED faults

\* The deferred Flush and Close fail, which DumpCSVGz does not see.
DumpUnflushed == Fault /\ DumpTo([trim EXCEPT !.at = "trim"], dumps, unflushed \cup Older)

\* Mutant: a dump that failed is logged and the rows are trimmed.
DumpFailsOn == Fault /\ DumpTo([trim EXCEPT !.at = "trim"], dumps, unflushed)

\* DumpCSVGz returns an error: the pass ends.
DumpFails == Fault /\ DumpTo(Idle, dumps, unflushed)

\* Trim.
Trim ==
    /\ trim.at = "trim" /\ trim' = Idle
    /\ stored' = stored \ Older /\ trimmed' = trimmed \cup Older
    /\ UNCHANGED <<inserted, aged, dumps, passes, faults, unflushed>>

\* Trim returns an error, or the process ends during the pass.
Interrupted ==
    /\ trim.at # "idle" /\ Fault /\ trim' = Idle
    /\ UNCHANGED <<stored, inserted, aged, dumps, passes, trimmed, unflushed>>

\* ForgetClient.
Forget ==
    /\ \E r \in stored : stored' = {q \in stored : ClientOf[q] # ClientOf[r]}
    /\ UNCHANGED <<inserted, aged, trim, dumps, passes, faults, trimmed, unflushed>>

Next ==
    \/ Insert \/ Age \/ Forget
    \/ Tick \/ Dump \/ DumpUnflushed \/ DumpFails \/ Trim \/ Interrupted

Spec == Init /\ [][Next]_vars

-----------------------------------------------------------------------------
(* Properties.                                                             *)

\* The type of the state.
TypeOK ==
    /\ stored \subseteq 1..inserted /\ aged \in 0..inserted /\ trim.cutoff \in 0..aged
    /\ trim.at \in {"idle", "dump", "trim"} /\ dumps \subseteq SUBSET (1..inserted)

\* veilgate_persistence.md:196 "preserve trimmed events before deletion": every row that
\* Trim deleted is in a file, rows committed and rows forgotten between the dump and the
\* trim included, unless the end of the file was lost without an error.
TrimmedIsDumped == trimmed \subseteq (UNION dumps) \cup unflushed
=============================================================================
