----------------------------- MODULE AuditChain -----------------------------
(***************************************************************************)
(* The hash-chained audit log (internal/audit/audit.go) as main() and      *)
(* `veilgate forget` use it: one Logger in front of a JSONL file and a     *)
(* table of the event store, either of which may fail; restarts that seed  *)
(* the chain from what is on disk; a second process that extends the table.*)
(*                                                                         *)
(* A hash is the number of the entry in the history `journal`: an entry    *)
(* holds its time and the previous hash, so no two entries share one.      *)
(***************************************************************************)
EXTENDS Naturals, Sequences, SequencesExt

CONSTANTS
    MaxEntries,   \* bound: entries ever logged
    MaxFaults,    \* bound: failing writes, opens and queries, and crashes
    MaxRuns       \* bound: starts of the proxy

NoHash == 0       \* the empty string
Command == 0      \* `by` of an entry of `veilgate forget`; proxies count from 1

VARIABLES
    file,         \* lines of audit.log
    table,        \* rows of audit_log, in the order of their ids
    head,         \* Logger.prevHash of the running proxy
    proc,         \* "down", "up", "stopping", "closed": how far main() is
    backends,     \* subset of {"file", "table"}: writers of the Logger
    run,          \* number of the current or last run of the proxy
    forget,       \* <<>>, or <<h, answered>>: `forget` has read h, or failed to,
                  \* and not yet logged
    faults,
    journal,      \* history: every entry, by whom and whether it was stored
    disturbed,    \* history: a row was lost, or two processes wrote at once
    blind         \* history: first entries of processes whose query failed

vars == <<file, table, head, proc, backends, run, forget, faults, journal, disturbed,
          blind>>

(* A line is an entry that was written whole, one that lacks only its      *)
(* newline, one cut short, or two writes run together on one line.         *)
Entry == [id: 1..MaxEntries, prev: 0..MaxEntries, by: 0..MaxRuns]
Line == [id: 1..MaxEntries, prev: 0..MaxEntries, by: 0..MaxRuns,
         state: {"whole", "unended", "cut", "garbled"}]

TypeOK ==
    /\ file \in Seq(Line) /\ table \in Seq(Entry) /\ journal \in Seq(Entry)
    /\ head \in 0..MaxEntries
    /\ proc \in {"down", "up", "stopping", "closed"}
    /\ backends \subseteq {"file", "table"}
    /\ run \in 0..MaxRuns /\ faults \in 0..MaxFaults
    /\ forget \in {<<>>} \cup ((0..MaxEntries) \X BOOLEAN)
    /\ disturbed \in BOOLEAN /\ blind \subseteq 1..MaxEntries

Init ==
    /\ file = <<>> /\ table = <<>> /\ journal = <<>>
    /\ head = NoHash /\ proc = "down" /\ backends = {} /\ run = 0
    /\ forget = <<>> /\ faults = 0 /\ disturbed = FALSE /\ blind = {}

(* readLastHash: the last line, terminated or not, if it parses.           *)
ReadLastHash(lines) ==
    IF lines # <<>> /\ Last(lines).state \in {"whole", "unended"}
    THEN Last(lines).id ELSE NoHash

(* The query of the last row: no row and no answer give the same hash.      *)
LastAuditHash(answers) == IF answers /\ table # <<>> THEN Last(table).id ELSE NoHash

(* The entry logged now, the first of a process, has a seed read like this. *)
Blindly(answers) == blind' = IF answers THEN blind ELSE blind \cup {Len(journal) + 1}

(* FileWriter.Append: one write of a line with its newline. A short write  *)
(* leaves a line open and the next write lands on the same line.           *)
AsLine(e, state) == [id |-> e.id, prev |-> e.prev, by |-> e.by, state |-> state]
Written(lines, e, out) ==
    CASE out = "none" -> lines
      [] out # "none" /\ lines # <<>> /\ Last(lines).state \in {"unended", "cut"} ->
            Append(Front(lines),
                   [Last(lines) EXCEPT !.state = IF out = "whole" THEN "garbled" ELSE "cut"])
      [] OTHER -> Append(lines, AsLine(e, out))

Fault(happens) ==
    /\ happens => faults < MaxFaults
    /\ faults' = IF happens THEN faults + 1 ELSE faults

(* Logger.Log: chain the entry to prevHash, advance prevHash, then hand it *)
(* to every backend whatever the others answered.                          *)
LogChained(prevHash, writers, out, row, newHead) ==
    LET e == [id |-> Len(journal) + 1, prev |-> prevHash, by |-> run'] IN
    /\ Len(journal) < MaxEntries
    /\ out \in {"whole", "unended", "cut", "none"} /\ row \in BOOLEAN
    /\ "file" \notin writers => out = "whole"
    /\ "table" \notin writers => row
    /\ journal' = Append(journal, e)
    /\ head' = newHead
    /\ file' = IF "file" \in writers THEN Written(file, e, out) ELSE file
    /\ table' = IF "table" \in writers /\ row THEN Append(table, e) ELSE table
    /\ disturbed' = (disturbed \/ ~row \/ ("table" \in writers /\ forget # <<>>))

(* Variant: the head stays where it is when a backend fails.               *)
LogHeadStays(prevHash, writers, out, row) ==
    LogChained(prevHash, writers, out, row,
               IF row /\ out = "whole" THEN Len(journal) + 1 ELSE prevHash)

Log(prevHash, writers, out, row) ==
    LogChained(prevHash, writers, out, row, Len(journal) + 1)

(* main(): open the backends, seed the chain, log "process.start".         *)
SeedFromFile(writers, answers) == IF "file" \in writers THEN ReadLastHash(file) ELSE NoHash

Seed(writers, answers) ==
    IF "table" \in writers /\ LastAuditHash(answers) # NoHash THEN LastAuditHash(answers)
    ELSE IF "file" \in writers THEN ReadLastHash(file) ELSE NoHash

Start ==
    \E writers \in SUBSET {"file", "table"}, out \in {"whole", "unended", "cut", "none"},
       row \in BOOLEAN, answers \in BOOLEAN :
        /\ proc = "down" /\ run < MaxRuns
        /\ "table" \notin writers => answers
        /\ run' = run + 1 /\ proc' = "up" /\ backends' = writers
        /\ Log(Seed(writers, answers), writers, out, row) /\ Blindly(answers)
        /\ Fault("file" \notin writers \/ out # "whole" \/ ~row \/ ~answers)
        /\ UNCHANGED forget

(* Any later record of the proxy: a reload handler logs "config.reload".   *)
(* Handlers run on timers main() does not wait for, so one may still log   *)
(* after "process.stop", and after the store is closed.                    *)
Record ==
    \E out \in {"whole", "unended", "cut", "none"}, row \in BOOLEAN :
        /\ proc # "down"
        /\ UNCHANGED <<proc, backends, run, forget, blind>>
        /\ Log(head, backends, out, row)
        /\ proc = "closed" /\ "table" \in backends => ~row
        /\ Fault(out # "whole" \/ (~row /\ proc # "closed"))

Stop ==
    \E out \in {"whole", "unended", "cut", "none"}, row \in BOOLEAN :
        /\ proc = "up" /\ proc' = "stopping"
        /\ UNCHANGED <<backends, run, forget, blind>>
        /\ Log(head, backends, out, row)
        /\ Fault(out # "whole" \/ ~row)

CloseStore ==
    /\ proc = "stopping" /\ proc' = "closed"
    /\ UNCHANGED <<file, table, head, backends, run, forget, faults, journal, disturbed, blind>>

Exit ==
    /\ proc = "closed" /\ proc' = "down" /\ backends' = {}
    /\ UNCHANGED <<file, table, head, run, forget, faults, journal, disturbed, blind>>

Crash ==
    /\ proc # "down" /\ proc' = "down" /\ backends' = {}
    /\ Fault(TRUE)
    /\ UNCHANGED <<file, table, head, run, forget, journal, disturbed, blind>>

(* `veilgate forget`: its own Logger over the table only, seeded from the  *)
(* last row; the proxy may be running.                                     *)
ForgetSeed ==
    \E answers \in BOOLEAN :
        /\ forget = <<>> /\ forget' = <<LastAuditHash(answers), answers>>
        /\ Fault(~answers)
        /\ UNCHANGED <<file, table, head, proc, backends, run, journal, disturbed, blind>>

ForgetLog ==
    \E row \in BOOLEAN :
        /\ forget # <<>> /\ forget' = <<>>
        /\ Len(journal) < MaxEntries
        /\ LET e == [id |-> Len(journal) + 1, prev |-> forget[1], by |-> Command] IN
            /\ journal' = Append(journal, e)
            /\ table' = IF row THEN Append(table, e) ELSE table
        /\ Blindly(forget[2])
        /\ disturbed' = (disturbed \/ ~row \/ (proc # "down" /\ "table" \in backends))
        /\ Fault(~row)
        /\ UNCHANGED <<file, head, proc, backends, run>>

Next == Start \/ Record \/ Stop \/ CloseStore \/ Exit \/ Crash \/ ForgetSeed \/ ForgetLog

Spec == Init /\ [][Next]_vars

-----------------------------------------------------------------------------
Readable(lines) == {i \in DOMAIN lines : lines[i].state \in {"whole", "unended"}}

(* Two entries of one run, among those that can be read of a backend, are  *)
(* chained exactly when the run logged nothing between them.               *)
GapsShow(log, readable) ==
    \A i, j \in readable :
        i < j /\ log[i].by = log[j].by /\ log[i].by # Command
        => (log[j].prev = log[i].id
            <=> ~ \E k \in DOMAIN journal :
                    log[i].id < k /\ k < log[j].id /\ journal[k].by = log[i].by)

(* What a backend lost while a run went on shows in what it kept: the      *)
(* record after a lost one names a hash the backend does not hold, and a   *)
(* chained pair proves that nothing is missing between its members         *)
(* (audit.go: "the chain head still advances so downstream readers can     *)
(* detect the gap").                                                       *)
LostEntriesShow == GapsShow(table, DOMAIN table) /\ GapsShow(file, Readable(file))

(* Unless a row failed to be stored or `forget` and the proxy had the table*)
(* open at once, the table is one chain over restarts, crashes, runs       *)
(* without persistence and torn lines of the file (store.go: "so the caller*)
(* can seed an audit.Logger to keep the chain contiguous across process    *)
(* restarts"). Excepted is the first record of a process whose query for   *)
(* the last row failed, which the code takes for an empty table: the chain *)
(* breaks there and nowhere else.                                          *)
TableIsOneChain ==
    ~disturbed => \A i \in 1..(Len(table) - 1) :
                     table[i + 1].id \in blind \/ table[i + 1].prev = table[i].id
=============================================================================
