-------------------------- MODULE OperationsProofs --------------------------
(***************************************************************************)
(* What TLAPS proves of the audit chain, for any number of entries, runs   *)
(* and failures: the undisturbed audit table is one chain, and what either *)
(* backend lost shows in what it kept.  And of the console, for any number *)
(* of requests, sections, signals, paths and saves: saves that are alone   *)
(* leave what was asked for, and the console follows the file it edits.    *)
(***************************************************************************)
EXTENDS MCOperations, TLAPS

Hash == Nat \ {0}
Entries == [id : Hash, prev : Nat, by : Nat]
Lines == [id : Hash, prev : Nat, by : Nat, state : {"whole", "unended", "cut", "garbled"}]

(* The hash of the last row, which a query that does not fail returns.      *)
LastHash == LastAuditHash(TRUE)

(* The types, without the bounds of the runs.                              *)
Typed ==
    /\ file \in Seq(Lines) /\ table \in Seq(Entries) /\ journal \in Seq(Entries)
    /\ head \in Nat /\ run \in Nat
    /\ backends \subseteq {"file", "table"} /\ (proc = "down" => backends = {})
    /\ forget \in {<<>>} \cup (Nat \X BOOLEAN)
    /\ disturbed \in BOOLEAN

(* A process that will write the table knows its last row: the proxy by    *)
(* the head of its chain, `forget` by what it has read.                    *)
HeadIsLast == "table" \in backends /\ table # <<>> => head = LastHash
ForgetIsLast == forget # <<>> /\ forget[2] => forget[1] = LastHash

ChainInv == Typed /\ (~disturbed => TableIsOneChain /\ HeadIsLast /\ ForgetIsLast)

\* What the proxy or the command reads as the last hash is a hash or none.
LEMMA SeedsAreNat ==
    ASSUME Typed, NEW w, NEW answers
    PROVE  Seed(w, answers) \in Nat /\ LastAuditHash(answers) \in Nat
<1>1. table # <<>> => Last(table) \in Entries
    BY DEF Typed, Last
<1>2. file # <<>> => Last(file) \in Lines
    BY DEF Typed, Last
<1>3. LastAuditHash(answers) \in Nat
    BY <1>1 DEF LastAuditHash, NoHash, Entries, Hash
<1>4. ReadLastHash(file) \in Nat
    BY <1>2 DEF ReadLastHash, NoHash, Lines, Hash
<1> QED
    BY <1>3, <1>4 DEF Seed, NoHash

\* FileWriter.Append leaves lines of a kind that a torn or garbled line does not leave.
LEMMA WrittenIn ==
    ASSUME NEW L, file \in Seq(L), NEW e, NEW out, out # "none" => AsLine(e, out) \in L,
           \A x \in L, s \in {"garbled", "cut"} : [x EXCEPT !.state = s] \in L
    PROVE  Written(file, e, out) \in Seq(L)
<1>1. CASE out = "none"
    BY <1>1 DEF Written
<1>2. CASE out # "none" /\ file # <<>> /\ Last(file).state \in {"unended", "cut"}
    <2> DEFINE s == IF out = "whole" THEN "garbled" ELSE "cut"
    <2>1. Last(file) \in L /\ Len(file) \in Nat \ {0} /\ s \in {"garbled", "cut"}
        BY <1>2 DEF Last
    <2> HIDE DEF s
    <2>2. Front(file) \in Seq(L)
        BY <2>1 DEF Front
    <2>3. [Last(file) EXCEPT !.state = s] \in L
        BY <2>1
    <2>4. Written(file, e, out) = Append(Front(file), [Last(file) EXCEPT !.state = s])
        BY <1>2 DEF Written, s
    <2> QED
        BY <2>2, <2>3, <2>4
<1>3. CASE out # "none" /\ ~ (file # <<>> /\ Last(file).state \in {"unended", "cut"})
    BY <1>3 DEF Written
<1> QED
    BY <1>1, <1>2, <1>3

\* FileWriter.Append leaves lines.
LEMMA WrittenIsLines ==
    ASSUME Typed, NEW e \in Entries, NEW out \in {"whole", "unended", "cut", "none"}
    PROVE  Written(file, e, out) \in Seq(Lines)
<1>1. out # "none" => AsLine(e, out) \in Lines
    BY DEF AsLine, Lines, Entries
<1>2. \A x \in Lines, s \in {"garbled", "cut"} : [x EXCEPT !.state = s] \in Lines
    BY DEF Lines
<1> QED
    BY <1>1, <1>2, WrittenIn DEF Typed

\* A row that names the last one extends the chain and becomes its last.
LEMMA ChainGrows ==
    ASSUME Typed, TableIsOneChain, ~disturbed, NEW e \in Entries,
           table # <<>> /\ e.id \notin blind' => e.prev = LastHash, blind \subseteq blind',
           table' = Append(table, e)
    PROVE  TableIsOneChain' /\ LastHash' = e.id
<1>1. table \in Seq(Entries) /\ table' \in Seq(Entries)
    BY DEF Typed
<1>2. Len(table') = Len(table) + 1 /\ table'[Len(table) + 1] = e /\ Len(table) \in Nat
      /\ \A i \in 1..Len(table) : table'[i] = table[i]
    BY <1>1
<1>3. table # <<>> => LastHash = table[Len(table)].id
    BY DEF LastHash, LastAuditHash, Last
<1>4. \A i \in 1..(Len(table') - 1) :
         table'[i + 1].id \in blind' \/ table'[i + 1].prev = table'[i].id
    <2>0. 1..(Len(table') - 1) = 1..Len(table)
        BY <1>2
    <2> SUFFICES ASSUME NEW i \in 1..Len(table), table'[i + 1].id \notin blind'
                 PROVE  table'[i + 1].prev = table'[i].id
        BY <2>0
    <2>1. CASE i = Len(table)
        BY <2>1, <1>1, <1>2, <1>3
    <2>2. CASE i < Len(table)
        <3>1. i \in 1..(Len(table) - 1) /\ i + 1 \in 1..Len(table)
            BY <2>2, <1>2
        <3> QED
            BY <3>1, <1>2 DEF TableIsOneChain
    <2> QED
        BY <2>1, <2>2, <1>2
<1>5. LastHash' = e.id
    BY <1>1, <1>2 DEF LastHash, LastAuditHash, Last
<1> QED
    BY <1>4, <1>5 DEF TableIsOneChain

\* Log of a process that holds the last hash of the table, if it writes there.
LEMMA LogKeeps ==
    ASSUME ChainInv, NEW p \in Nat, NEW w \in SUBSET {"file", "table"}, NEW out, NEW row,
           Log(p, w, out, row), backends' = w, proc' # "down", forget' = forget, run' \in Nat,
           blind \subseteq blind',
           ~disturbed /\ "table" \in w /\ table # <<>> /\ Len(journal) + 1 \notin blind' => p = LastHash
    PROVE  ChainInv'
<1> DEFINE e == [id |-> Len(journal) + 1, prev |-> p, by |-> run']
<1>1. /\ out \in {"whole", "unended", "cut", "none"} /\ row \in BOOLEAN
      /\ "table" \notin w => row
      /\ journal' = Append(journal, e) /\ head' = Len(journal) + 1
      /\ file' = IF "file" \in w THEN Written(file, e, out) ELSE file
      /\ table' = IF "table" \in w /\ row THEN Append(table, e) ELSE table
      /\ disturbed' = (disturbed \/ ~row \/ ("table" \in w /\ forget # <<>>))
    BY DEF Log, LogChained
<1>2. Typed
    BY DEF ChainInv
<1>3. e \in Entries /\ Len(journal) + 1 \in Nat
    BY <1>2 DEF Typed, Entries, Hash
<1>4. Written(file, e, out) \in Seq(Lines)
    BY <1>1, <1>2, <1>3, WrittenIsLines
<1>5. Typed'
    <2>1. file' \in Seq(Lines)
        BY <1>1, <1>2, <1>4 DEF Typed
    <2>2. table' \in Seq(Entries) /\ journal' \in Seq(Entries)
        BY <1>1, <1>2, <1>3 DEF Typed
    <2>3. disturbed' \in BOOLEAN
        BY <1>1
    <2> QED
        BY <1>1, <1>2, <1>3, <2>1, <2>2, <2>3 DEF Typed
<1>6. ASSUME ~disturbed' PROVE TableIsOneChain' /\ HeadIsLast' /\ ForgetIsLast'
    <2>1. ~disturbed /\ row /\ ("table" \in w => forget = <<>>)
        BY <1>1, <1>6
    <2>2. TableIsOneChain /\ HeadIsLast /\ ForgetIsLast
        BY <2>1 DEF ChainInv
    <2>3. CASE "table" \in w
        <3>1. /\ table' = Append(table, e)
              /\ (table # <<>> /\ e.id \notin blind' => e.prev = LastHash)
            BY <1>1, <2>1, <2>3
        <3>2. TableIsOneChain' /\ LastHash' = e.id
            BY <1>2, <1>3, <2>1, <2>2, <3>1, ChainGrows
        <3> QED
            BY <1>1, <2>1, <2>3, <3>2 DEF HeadIsLast, ForgetIsLast
    <2>4. CASE "table" \notin w
        <3>1. table' = table
            BY <1>1, <2>4
        <3> QED
            BY <2>1, <2>2, <2>4, <3>1, <1>6 DEF TableIsOneChain, HeadIsLast, ForgetIsLast, LastHash, LastAuditHash
    <2> QED
        BY <2>3, <2>4
<1> QED
    BY <1>5, <1>6 DEF ChainInv

\* The invariant holds at the start.
LEMMA InitKeeps == Init => ChainInv
<1> SUFFICES ASSUME Init PROVE ChainInv
    OBVIOUS
<1>1. Typed
    <2>1. file \in Seq(Lines) /\ table \in Seq(Entries) /\ journal \in Seq(Entries)
        BY DEF Init
    <2>2. forget \in {<<>>} \cup (Nat \X BOOLEAN)
        BY DEF Init
    <2>3. head \in Nat /\ run \in Nat /\ disturbed \in BOOLEAN
          /\ backends \subseteq {"file", "table"} /\ backends = {}
        BY DEF Init, NoHash
    <2> QED
        BY <2>1, <2>2, <2>3 DEF Typed
<1>2. TableIsOneChain
    BY DEF Init, TableIsOneChain
<1>3. HeadIsLast /\ ForgetIsLast
    BY DEF Init, HeadIsLast, ForgetIsLast
<1> QED
    BY <1>1, <1>2, <1>3 DEF ChainInv

\* Every step keeps the invariant.
LEMMA StepKeeps == ChainInv /\ [Next]_vars => ChainInv'
<1> SUFFICES ASSUME ChainInv, [Next]_vars PROVE ChainInv'
    OBVIOUS
<1>0. Typed
    BY DEF ChainInv
<1>1. CASE Start
    <2>1. PICK w \in SUBSET {"file", "table"}, out \in {"whole", "unended", "cut", "none"}, row \in BOOLEAN,
               answers \in BOOLEAN :
             /\ run' = run + 1 /\ backends' = w /\ proc' = "up"
             /\ Log(Seed(w, answers), w, out, row) /\ forget' = forget /\ Blindly(answers)
        BY <1>1 DEF Start
    <2>2. Seed(w, answers) \in Nat /\ run' \in Nat
        BY <1>0, <2>1, SeedsAreNat DEF Typed
    <2>3. "table" \in w /\ table # <<>> /\ answers => Seed(w, answers) = LastHash
        <3> SUFFICES ASSUME table # <<>>, answers PROVE LastAuditHash(answers) # NoHash /\ answers = TRUE
            BY DEF Seed, LastHash
        <3>1. Last(table) \in Entries
            BY <1>0 DEF Typed, Last
        <3> QED
            BY <3>1 DEF LastAuditHash, NoHash, Entries, Hash
    <2>4. blind \subseteq blind' /\ (Len(journal) + 1 \notin blind' => answers)
        BY <2>1 DEF Blindly
    <2> QED
        BY <2>1, <2>2, <2>3, <2>4, LogKeeps
<1>2. CASE Record \/ Stop
    <2>1. PICK out \in {"whole", "unended", "cut", "none"}, row \in BOOLEAN :
             /\ UNCHANGED <<backends, run, forget, blind>> /\ proc' # "down"
             /\ Log(head, backends, out, row)
        BY <1>2 DEF Record, Stop
    <2>2. head \in Nat /\ backends \in SUBSET {"file", "table"} /\ run' \in Nat
        BY <1>0, <2>1 DEF Typed
    <2>3. ~disturbed /\ "table" \in backends /\ table # <<>> => head = LastHash
        BY DEF ChainInv, HeadIsLast
    <2> QED
        BY <2>1, <2>2, <2>3, LogKeeps
<1>3. CASE CloseStore
    BY <1>3 DEF CloseStore, ChainInv, Typed, TableIsOneChain, HeadIsLast, ForgetIsLast, LastHash, LastAuditHash
<1>4. CASE Exit
    BY <1>4 DEF Exit, ChainInv, Typed, TableIsOneChain, HeadIsLast, ForgetIsLast, LastHash, LastAuditHash
<1>5. CASE Crash
    BY <1>5 DEF Crash, ChainInv, Typed, TableIsOneChain, HeadIsLast, ForgetIsLast, LastHash, LastAuditHash
<1>6. CASE ForgetSeed
    <2>1. PICK answers \in BOOLEAN :
             /\ forget' = <<LastAuditHash(answers), answers>>
             /\ UNCHANGED <<file, table, head, proc, backends, run, journal, disturbed, blind>>
        BY <1>6 DEF ForgetSeed
    <2>2. forget' \in Nat \X BOOLEAN /\ (forget'[2] => forget'[1] = LastHash)
        BY <1>0, <2>1, SeedsAreNat DEF LastHash
    <2>3. Typed'
        BY <1>0, <2>1, <2>2 DEF Typed
    <2>4. LastHash' = LastHash
        BY <2>1 DEF LastHash, LastAuditHash
    <2> QED
        BY <2>1, <2>2, <2>3, <2>4 DEF ChainInv, TableIsOneChain, HeadIsLast, ForgetIsLast
<1>7. CASE ForgetLog
    <2> DEFINE e == [id |-> Len(journal) + 1, prev |-> forget[1], by |-> Command]
    <2>1. PICK row \in BOOLEAN :
             /\ forget # <<>> /\ forget' = <<>>
             /\ journal' = Append(journal, e)
             /\ table' = IF row THEN Append(table, e) ELSE table
             /\ disturbed' = (disturbed \/ ~row \/ (proc # "down" /\ "table" \in backends))
             /\ blind' = IF forget[2] THEN blind ELSE blind \cup {Len(journal) + 1}
             /\ UNCHANGED <<file, head, proc, backends, run>>
        BY <1>7 DEF ForgetLog, Blindly
    <2>2. e \in Entries
        BY <1>0, <2>1 DEF Typed, Entries, Hash, Command
    <2>3. Typed'
        BY <1>0, <2>1, <2>2 DEF Typed
    <2>4. ASSUME ~disturbed' PROVE TableIsOneChain' /\ HeadIsLast' /\ ForgetIsLast'
        <3>1. ~disturbed /\ row /\ (proc = "down" \/ "table" \notin backends)
            BY <2>1, <2>4
        <3>2. TableIsOneChain /\ (forget[2] => forget[1] = LastHash) /\ blind \subseteq blind'
              /\ (e.id \notin blind' => forget[2])
            BY <2>1, <3>1 DEF ChainInv, ForgetIsLast
        <3>3. TableIsOneChain'
            BY <1>0, <2>1, <2>2, <3>1, <3>2, ChainGrows
        <3> QED
            BY <1>0, <2>1, <3>1, <3>3 DEF Typed, HeadIsLast, ForgetIsLast
    <2> QED
        BY <2>3, <2>4 DEF ChainInv
<1>8. CASE UNCHANGED vars
    BY <1>8 DEF vars, ChainInv, Typed, TableIsOneChain, HeadIsLast, ForgetIsLast, LastHash, LastAuditHash
<1> QED
    BY <1>1, <1>2, <1>3, <1>4, <1>5, <1>6, <1>7, <1>8 DEF Next

\* As long as no row was lost and the command and the proxy did not write the table at
\* once, each row of the audit table names the row before it (audit.go: prevHash,
\* main.go: the chain is seeded from the table's last hash).
THEOREM OneChain == Spec => []TableIsOneChain
<1>1. ChainInv => TableIsOneChain
    BY DEF ChainInv, TableIsOneChain
<1> QED
    BY InitKeeps, StepKeeps, <1>1, PTL DEF Spec

-----------------------------------------------------------------------------
(***************************************************************************)
(* What a backend holds is of the journal, in its order, and in the journal*)
(* an entry of a run of the proxy names the one this run logged before.    *)
(***************************************************************************)
Journaled(log) ==
    /\ \A i \in DOMAIN log : /\ log[i].id \in DOMAIN journal
                             /\ log[i].prev = journal[log[i].id].prev
                             /\ log[i].by = journal[log[i].id].by
    /\ \A i, j \in DOMAIN log : i < j => log[i].id < log[j].id

(* The entry an entry names is between it and any earlier one of its run.  *)
RunsChained ==
    \A k, b \in DOMAIN journal :
        k < b /\ journal[k].by = journal[b].by /\ journal[b].by # Command
        => /\ journal[b].prev \in k..(b - 1)
           /\ journal[journal[b].prev].by = journal[b].by

(* The head is the last entry of the run, and a run has a number of its own.*)
HeadIsLatest ==
    proc # "down" =>
        /\ run # Command /\ head \in DOMAIN journal /\ journal[head].by = run
        /\ \A k \in DOMAIN journal : journal[k].by = run => k <= head
RunsCounted == \A k \in DOMAIN journal : journal[k].by <= run

JournalInv ==
    Typed /\ Journaled(table) /\ Journaled(file) /\ RunsChained /\ HeadIsLatest /\ RunsCounted

\* A journal that gets another entry.
LEMMA JournalGrows ==
    ASSUME NEW j \in Seq(Entries), NEW e \in Entries
    PROVE  /\ Len(j) \in Nat /\ DOMAIN j = 1..Len(j)
           /\ DOMAIN Append(j, e) = 1..(Len(j) + 1) /\ Append(j, e)[Len(j) + 1] = e
           /\ \A k \in 1..Len(j) : Append(j, e)[k] = j[k]
OBVIOUS

\* What a backend holds stays in the journal; the entry that is logged may be added.
LEMMA StillJournaled ==
    ASSUME Typed, NEW S, NEW log \in Seq(S), Journaled(log), NEW e \in Entries,
           e.id = Len(journal) + 1, journal' = Append(journal, e),
           NEW new \in Seq(S), NEW last \in S, last.id = e.id, last.prev = e.prev, last.by = e.by,
           new = log \/ new = Append(log, last)
    PROVE  /\ \A i \in DOMAIN new : /\ new[i].id \in DOMAIN journal'
                                    /\ new[i].prev = journal'[new[i].id].prev
                                    /\ new[i].by = journal'[new[i].id].by
           /\ \A i, j \in DOMAIN new : i < j => new[i].id < new[j].id
<1> DEFINE n == Len(journal)
           l == Len(log)
<1>1. /\ n \in Nat /\ DOMAIN journal = 1..n /\ DOMAIN journal' = 1..(n + 1)
      /\ journal'[n + 1] = e /\ \A k \in 1..n : journal'[k] = journal[k]
    BY JournalGrows DEF Typed
<1>2. l \in Nat /\ DOMAIN log = 1..l
    OBVIOUS
<1>3. CASE new = log
    BY <1>1, <1>3 DEF Journaled
<1>4. CASE new = Append(log, last)
    <2>1. DOMAIN new = 1..(l + 1) /\ new[l + 1] = last /\ \A i \in 1..l : new[i] = log[i]
        BY <1>4
    <2> HIDE DEF n, l
    <2>2. last.id = n + 1
        BY DEF n
    <2>3. \A i \in 1..l : /\ new[i].id \in 1..n /\ new[i].prev = journal'[new[i].id].prev
                          /\ new[i].by = journal'[new[i].id].by
        <3> SUFFICES ASSUME NEW i \in 1..l
                     PROVE  /\ new[i].id \in 1..n /\ new[i].prev = journal'[new[i].id].prev
                            /\ new[i].by = journal'[new[i].id].by
            OBVIOUS
        <3>1. /\ log[i].id \in 1..n /\ log[i].prev = journal[log[i].id].prev
              /\ log[i].by = journal[log[i].id].by
            BY <1>1, <1>2 DEF Journaled
        <3>2. new[i] = log[i]
            BY <2>1
        <3>3. journal'[log[i].id] = journal[log[i].id]
            BY <1>1, <3>1
        <3> QED
            BY <3>1, <3>2, <3>3
    <2>4. /\ new[l + 1].id \in DOMAIN journal' /\ new[l + 1].prev = journal'[new[l + 1].id].prev
          /\ new[l + 1].by = journal'[new[l + 1].id].by
        BY <1>1, <2>1, <2>2
    <2>5. \A i \in DOMAIN new : i \in 1..l \/ i = l + 1
        BY <1>2, <2>1
    <2>6. \A i, j \in DOMAIN new : i < j => new[i].id < new[j].id
        <3> SUFFICES ASSUME NEW i \in DOMAIN new, NEW j \in DOMAIN new, i < j
                     PROVE  new[i].id < new[j].id
            OBVIOUS
        <3>1. i \in 1..l
            BY <1>2, <2>1
        <3>2. CASE j = l + 1
            BY <1>1, <2>1, <2>2, <2>3, <3>1, <3>2
        <3>3. CASE j \in 1..l
            BY <1>2, <2>1, <3>1, <3>3 DEF Journaled
        <3> QED
            BY <2>5, <3>2, <3>3
    <2>7. ASSUME NEW i \in DOMAIN new
          PROVE  /\ new[i].id \in DOMAIN journal' /\ new[i].prev = journal'[new[i].id].prev
                 /\ new[i].by = journal'[new[i].id].by
        <3>1. CASE i \in 1..l
            BY <1>1, <2>3, <3>1
        <3>2. CASE i = l + 1
            BY <2>4, <3>2
        <3> QED
            BY <2>5, <3>1, <3>2
    <2> QED
        BY <2>6, <2>7
<1> QED
    BY <1>3, <1>4

\* An entry of a run that continues where the run stopped keeps the runs chained.
LEMMA StillChained ==
    ASSUME Typed, RunsChained, NEW e \in Entries, e.id = Len(journal) + 1,
           journal' = Append(journal, e),
           e.by # Command =>
              \A k \in DOMAIN journal : journal[k].by = e.by =>
                 /\ k <= e.prev /\ e.prev \in DOMAIN journal /\ journal[e.prev].by = e.by
    PROVE  RunsChained'
<1> DEFINE n == Len(journal)
<1>1. /\ n \in Nat /\ DOMAIN journal = 1..n /\ DOMAIN journal' = 1..(n + 1)
      /\ journal'[n + 1] = e /\ \A k \in 1..n : journal'[k] = journal[k]
    BY JournalGrows DEF Typed
<1> HIDE DEF n
<1> SUFFICES ASSUME NEW k \in DOMAIN journal', NEW b \in DOMAIN journal', k < b,
                    journal'[k].by = journal'[b].by, journal'[b].by # Command
             PROVE  /\ journal'[b].prev \in k..(b - 1)
                    /\ journal'[journal'[b].prev].by = journal'[b].by
    BY DEF RunsChained
<1>2. k \in 1..n /\ journal'[k] = journal[k]
    BY <1>1
<1>3. CASE b = n + 1
    <2>1. e.prev \in 1..n /\ k <= e.prev /\ journal[e.prev].by = e.by
        BY <1>1, <1>2, <1>3
    <2> QED
        BY <1>1, <1>2, <1>3, <2>1
<1>4. CASE b # n + 1
    <2>1. b \in 1..n /\ journal'[b] = journal[b]
        BY <1>1, <1>4
    <2>2. journal[b].prev \in k..(b - 1) /\ journal[journal[b].prev].by = journal[b].by
        BY <1>1, <1>2, <2>1 DEF RunsChained
    <2>3. journal[b].prev \in 1..n
        BY <1>1, <1>2, <2>1, <2>2
    <2> QED
        BY <1>1, <2>1, <2>2, <2>3
<1> QED
    BY <1>3, <1>4

\* FileWriter.Append: the entry is a line, or it is lost and the lines are as they were but
\* for the state of the last.
LEMMA WrittenJournals ==
    ASSUME Typed, Journaled(file), NEW e \in Entries, e.id = Len(journal) + 1,
           journal' = Append(journal, e), NEW out \in {"whole", "unended", "cut", "none"},
           file' = Written(file, e, out)
    PROVE  Journaled(file)'
<1>1. CASE out # "none" /\ file # <<>> /\ Last(file).state \in {"unended", "cut"}
    <2> DEFINE l == Len(file)
               s == IF out = "whole" THEN "garbled" ELSE "cut"
               x == [Last(file) EXCEPT !.state = s]
    <2>1. l \in Nat \ {0} /\ DOMAIN file = 1..l /\ Last(file) = file[l] /\ file[l] \in Lines
        BY <1>1 DEF Typed, Last
    <2>2. x \in Lines /\ x.id = file[l].id /\ x.prev = file[l].prev /\ x.by = file[l].by
        BY <2>1 DEF Lines
    <2> HIDE DEF x
    <2>3. file' = Append(Front(file), x)
        BY <1>1 DEF Written, x
    <2>4. /\ Front(file) \in Seq(Lines) /\ Len(Front(file)) = l - 1
          /\ \A i \in 1..(l - 1) : Front(file)[i] = file[i]
        BY <2>1 DEF Front, Typed
    <2> DEFINE f == Front(file)
    <2>5. /\ DOMAIN Append(f, x) = 1..l /\ Append(f, x)[l] = x
          /\ \A i \in 1..(l - 1) : Append(f, x)[i] = file[i]
        <3>1. f \in Seq(Lines) /\ Len(f) = l - 1 /\ \A i \in 1..(l - 1) : f[i] = file[i]
            BY <2>4
        <3> HIDE DEF f, l
        <3>2. /\ DOMAIN Append(f, x) = 1..(Len(f) + 1) /\ Append(f, x)[Len(f) + 1] = x
              /\ \A i \in 1..Len(f) : Append(f, x)[i] = f[i]
            BY <3>1
        <3> QED
            BY <2>1, <3>1, <3>2
    <2> HIDE DEF f, l
    <2>6. /\ DOMAIN file' = DOMAIN file
          /\ \A i \in DOMAIN file : /\ file'[i].id = file[i].id /\ file'[i].prev = file[i].prev
                                    /\ file'[i].by = file[i].by
        BY <2>1, <2>2, <2>3, <2>5 DEF f
    <2>7. /\ \A i \in DOMAIN file : /\ file[i].id \in DOMAIN journal'
                                    /\ file[i].prev = journal'[file[i].id].prev
                                    /\ file[i].by = journal'[file[i].id].by
          /\ \A i, j \in DOMAIN file : i < j => file[i].id < file[j].id
        <3>1. file \in Seq(Lines)
            BY DEF Typed
        <3>2. PICK z : z = [id |-> e.id, prev |-> e.prev, by |-> e.by, state |-> "whole"]
            OBVIOUS
        <3>3. z \in Lines /\ z.id = e.id /\ z.prev = e.prev /\ z.by = e.by
            BY <3>2 DEF Lines, Entries
        <3> QED
            BY <3>1, <3>3, StillJournaled
    <2> QED
        BY <2>6, <2>7 DEF Journaled
<1>2. CASE ~ (out # "none" /\ file # <<>> /\ Last(file).state \in {"unended", "cut"})
    <2> DEFINE z == AsLine(e, IF out = "none" THEN "whole" ELSE out)
    <2>1. z \in Lines /\ z.id = e.id /\ z.prev = e.prev /\ z.by = e.by
        BY DEF AsLine, Lines, Entries
    <2>2. file' = file \/ file' = Append(file, z)
        BY <1>2 DEF Written
    <2> HIDE DEF z
    <2>3. file \in Seq(Lines) /\ file' \in Seq(Lines)
        BY <2>1, <2>2 DEF Typed
    <2>4. /\ \A i \in DOMAIN file' : /\ file'[i].id \in DOMAIN journal'
                                     /\ file'[i].prev = journal'[file'[i].id].prev
                                     /\ file'[i].by = journal'[file'[i].id].by
          /\ \A i, j \in DOMAIN file' : i < j => file'[i].id < file'[j].id
        <3>0. PICK new : new = file'
            OBVIOUS
        <3>1. new \in Seq(Lines) /\ (new = file \/ new = Append(file, z))
            BY <2>2, <2>3, <3>0
        <3>2. Journaled(file) /\ journal' = Append(journal, e) /\ Typed
            OBVIOUS
        <3>3. /\ \A i \in DOMAIN new : /\ new[i].id \in DOMAIN journal'
                                        /\ new[i].prev = journal'[new[i].id].prev
                                        /\ new[i].by = journal'[new[i].id].by
              /\ \A i, j \in DOMAIN new : i < j => new[i].id < new[j].id
            BY ONLY <2>1, <2>3, <3>1, <3>2, e \in Entries, e.id = Len(journal) + 1, StillJournaled, SMTT(60)
        <3> QED
            BY <3>0, <3>3
    <2> QED
        BY <2>4 DEF Journaled
<1> QED
    BY <1>1, <1>2

\* Log of the proxy, which continues its run from the last entry of that run, if any.
LEMMA LogJournals ==
    ASSUME JournalInv, NEW p \in Nat, NEW w \in SUBSET {"file", "table"}, NEW out, NEW row,
           Log(p, w, out, row), Typed', proc' # "down", run' # Command, run <= run',
           \A k \in DOMAIN journal : journal[k].by = run' =>
              k <= p /\ p \in DOMAIN journal /\ journal[p].by = run'
    PROVE  JournalInv'
<1> DEFINE e == [id |-> Len(journal) + 1, prev |-> p, by |-> run']
<1>1. /\ out \in {"whole", "unended", "cut", "none"} /\ row \in BOOLEAN
      /\ journal' = Append(journal, e) /\ head' = Len(journal) + 1
      /\ file' = IF "file" \in w THEN Written(file, e, out) ELSE file
      /\ table' = IF "table" \in w /\ row THEN Append(table, e) ELSE table
    BY DEF Log, LogChained
<1>2. Typed /\ Journaled(table) /\ Journaled(file) /\ RunsChained /\ RunsCounted
    BY DEF JournalInv
<1>3. /\ e \in Entries /\ e.id = Len(journal) + 1 /\ e.prev = p /\ e.by = run'
    BY <1>2 DEF Typed, Entries, Hash
<1>4. /\ Len(journal) \in Nat /\ DOMAIN journal = 1..Len(journal)
      /\ DOMAIN journal' = 1..(Len(journal) + 1) /\ journal'[Len(journal) + 1] = e
      /\ \A k \in 1..Len(journal) : journal'[k] = journal[k]
    BY <1>1, <1>2, <1>3, JournalGrows DEF Typed
<1> HIDE DEF e
<1>5. Journaled(table)'
    <2>1. table \in Seq(Entries) /\ table' \in Seq(Entries) /\ (table' = table \/ table' = Append(table, e))
        BY <1>1, <1>2 DEF Typed
    <2> QED
        BY <1>1, <1>2, <1>3, <2>1, StillJournaled DEF Journaled
<1>6. Journaled(file)'
    <2>1. CASE "file" \in w
        BY <1>1, <1>2, <1>3, <2>1, WrittenJournals
    <2>2. CASE "file" \notin w
        <3>1. file' = Written(file, e, "none")
            BY <1>1, <2>2 DEF Written
        <3> QED
            BY <1>1, <1>2, <1>3, <3>1, WrittenJournals
    <2> QED
        BY <2>1, <2>2
<1>7. RunsChained'
    BY <1>1, <1>2, <1>3, StillChained
<1>8. run \in Nat /\ run' \in Nat /\ \A k \in 1..Len(journal) : journal[k].by \in Nat
    <2>1. \A k \in 1..Len(journal) : journal[k] \in Entries
        BY <1>2 DEF Typed
    <2>2. run \in Nat /\ run' \in Nat
        BY <1>2 DEF Typed
    <2> QED
        BY <2>1, <2>2 DEF Entries
<1>9. HeadIsLatest'
    BY <1>1, <1>3, <1>4 DEF HeadIsLatest
<1>10. RunsCounted'
    <2> SUFFICES ASSUME NEW k \in DOMAIN journal' PROVE journal'[k].by <= run'
        BY DEF RunsCounted
    <2>1. CASE k = Len(journal) + 1
        BY <1>3, <1>4, <1>8, <2>1
    <2>2. CASE k \in 1..Len(journal)
        <3>1. journal[k].by <= run /\ journal'[k] = journal[k] /\ journal[k].by \in Nat
            BY <1>2, <1>4, <1>8, <2>2 DEF RunsCounted
        <3> QED
            BY <1>8, <3>1
    <2> QED
        BY <1>4, <2>1, <2>2
<1> QED
    BY <1>5, <1>6, <1>7, <1>9, <1>10 DEF JournalInv

\* Initially nothing is logged.
LEMMA InitJournals == Init => JournalInv
<1> SUFFICES ASSUME Init PROVE JournalInv
    OBVIOUS
<1>1. Typed
    BY InitKeeps DEF ChainInv
<1>2. table = <<>> /\ file = <<>> /\ journal = <<>> /\ proc = "down"
    BY DEF Init
<1> QED
    BY <1>1, <1>2 DEF JournalInv, Journaled, RunsChained, HeadIsLatest, RunsCounted

\* Every step keeps what the journal says.
LEMMA StepJournals == JournalInv /\ Typed' /\ [Next]_vars => JournalInv'
<1> SUFFICES ASSUME JournalInv, Typed', [Next]_vars PROVE JournalInv'
    OBVIOUS
<1>0. Typed /\ Journaled(table) /\ Journaled(file) /\ RunsChained /\ HeadIsLatest /\ RunsCounted
    BY DEF JournalInv
<1>1. CASE Start
    <2>1. PICK w \in SUBSET {"file", "table"}, out \in {"whole", "unended", "cut", "none"}, row \in BOOLEAN,
               answers \in BOOLEAN :
             run' = run + 1 /\ proc' = "up" /\ Log(Seed(w, answers), w, out, row)
        BY <1>1 DEF Start
    <2>2. Seed(w, answers) \in Nat /\ run \in Nat
        BY <1>0, SeedsAreNat DEF Typed
    <2>3. run' # Command /\ run <= run' /\ ~ (run' <= run)
        BY <2>1, <2>2 DEF Command
    <2>4. \A k \in DOMAIN journal : journal[k].by # run'
        BY <1>0, <2>3 DEF RunsCounted
    <2> QED
        BY <2>1, <2>2, <2>3, <2>4, LogJournals
<1>2. CASE Record \/ Stop
    <2>1. PICK out \in {"whole", "unended", "cut", "none"}, row \in BOOLEAN :
             run' = run /\ proc' # "down" /\ proc # "down" /\ Log(head, backends, out, row)
        BY <1>2 DEF Record, Stop
    <2>2. head \in Nat /\ backends \in SUBSET {"file", "table"} /\ run \in Nat
        BY <1>0 DEF Typed
    <2>3. /\ run' # Command /\ run <= run'
          /\ \A k \in DOMAIN journal : journal[k].by = run' =>
                k <= head /\ head \in DOMAIN journal /\ journal[head].by = run'
        BY <1>0, <2>1, <2>2 DEF HeadIsLatest
    <2> QED
        BY <2>1, <2>2, <2>3, LogJournals
<1>3. CASE CloseStore \/ Exit \/ Crash \/ ForgetSeed \/ UNCHANGED vars
    <2>1. UNCHANGED <<file, table, head, run, journal>> /\ (proc' # "down" => proc # "down")
        BY <1>3 DEF CloseStore, Exit, Crash, ForgetSeed, vars
    <2> QED
        BY <1>0, <2>1 DEF JournalInv, Journaled, RunsChained, HeadIsLatest, RunsCounted
<1>4. CASE ForgetLog
    <2> DEFINE e == [id |-> Len(journal) + 1, prev |-> forget[1], by |-> Command]
    <2>1. PICK row \in BOOLEAN :
             /\ forget # <<>> /\ journal' = Append(journal, e)
             /\ table' = IF row THEN Append(table, e) ELSE table
             /\ UNCHANGED <<file, head, proc, run>>
        BY <1>4 DEF ForgetLog
    <2>2. e \in Entries /\ e.id = Len(journal) + 1 /\ e.by = Command
        BY <1>0, <2>1 DEF Typed, Entries, Hash, Command
    <2>3. /\ Len(journal) \in Nat /\ DOMAIN journal = 1..Len(journal)
          /\ DOMAIN journal' = 1..(Len(journal) + 1) /\ journal'[Len(journal) + 1] = e
          /\ \A k \in 1..Len(journal) : journal'[k] = journal[k]
        BY <1>0, <2>1, <2>2, JournalGrows DEF Typed
    <2> HIDE DEF e
    <2>4. Journaled(table)'
        <3>1. table \in Seq(Entries) /\ table' \in Seq(Entries) /\ (table' = table \/ table' = Append(table, e))
            BY <1>0, <2>1 DEF Typed
        <3> QED
            BY <1>0, <2>1, <2>2, <3>1, StillJournaled DEF Journaled
    <2>5. Journaled(file)'
        <3>1. file' = Written(file, e, "none")
            BY <2>1 DEF Written
        <3> QED
            BY <1>0, <2>1, <2>2, <3>1, WrittenJournals
    <2>6. RunsChained'
        BY <1>0, <2>1, <2>2, StillChained
    <2>7. run \in Nat /\ run' = run
        BY <1>0, <2>1 DEF Typed
    <2>8. HeadIsLatest'
        <3> SUFFICES ASSUME proc # "down" PROVE /\ run # Command /\ head \in DOMAIN journal'
                                               /\ journal'[head].by = run
                                               /\ \A k \in DOMAIN journal' : journal'[k].by = run => k <= head
            BY <2>1 DEF HeadIsLatest
        <3>1. /\ run # Command /\ head \in DOMAIN journal /\ journal[head].by = run
              /\ \A k \in DOMAIN journal : journal[k].by = run => k <= head
            BY <1>0 DEF HeadIsLatest
        <3>2. ASSUME NEW k \in DOMAIN journal', journal'[k].by = run PROVE k <= head
            <4>1. k # Len(journal) + 1
                BY <2>2, <2>3, <3>1, <3>2
            <4> QED
                BY <2>3, <3>1, <3>2, <4>1
        <3> QED
            BY <2>3, <3>1, <3>2
    <2>9. RunsCounted'
        <3> SUFFICES ASSUME NEW k \in DOMAIN journal' PROVE journal'[k].by <= run
            BY <2>7 DEF RunsCounted
        <3>1. CASE k = Len(journal) + 1
            BY <2>2, <2>3, <2>7, <3>1 DEF Command
        <3>2. CASE k \in 1..Len(journal)
            BY <1>0, <2>3, <3>2 DEF RunsCounted
        <3> QED
            BY <2>3, <3>1, <3>2
    <2> QED
        BY <2>4, <2>5, <2>6, <2>8, <2>9 DEF JournalInv
<1> QED
    BY <1>1, <1>2, <1>3, <1>4 DEF Next

\* Of two entries of a run that a backend holds, the later names the earlier exactly when
\* the run logged nothing between them.
LEMMA JournaledShows ==
    ASSUME RunsChained, Typed, NEW log, Journaled(log), NEW readable \in SUBSET (DOMAIN log),
           DOMAIN log \subseteq Nat
    PROVE  GapsShow(log, readable)
<1> SUFFICES ASSUME NEW i \in readable, NEW j \in readable, i < j,
                    log[i].by = log[j].by, log[i].by # Command
             PROVE  log[j].prev = log[i].id
                    <=> ~ \E k \in DOMAIN journal :
                            log[i].id < k /\ k < log[j].id /\ journal[k].by = log[i].by
    BY DEF GapsShow
<1> DEFINE a == log[i].id
           b == log[j].id
           c == journal[b].prev
<1>1. /\ a \in DOMAIN journal /\ b \in DOMAIN journal /\ a < b
      /\ log[j].prev = c /\ journal[a].by = log[i].by /\ journal[b].by = log[i].by
    BY DEF Journaled
<1>2. DOMAIN journal = 1..Len(journal) /\ Len(journal) \in Nat
    BY DEF Typed
<1> HIDE DEF a, b, c
<1>3. c \in a..(b - 1) /\ journal[c].by = log[i].by
    BY <1>1 DEF RunsChained, c
<1>4. ASSUME c = a, NEW k \in DOMAIN journal, a < k, k < b, journal[k].by = log[i].by PROVE FALSE
    <2>1. c \in k..(b - 1)
        BY <1>1, <1>4 DEF RunsChained, c
    <2> QED
        BY <1>1, <1>2, <1>4, <2>1
<1>5. ASSUME c # a PROVE c \in DOMAIN journal /\ a < c /\ c < b
    BY <1>1, <1>2, <1>3, <1>5
<1> QED
    BY <1>1, <1>3, <1>4, <1>5 DEF a, b

\* What a backend lost shows in what it kept (audit.go: "the chain head still advances so
\* downstream readers can detect the gap"), for the table and for the file, whatever fails
\* and whatever lines are torn.
THEOREM GapsAreSeen == Spec => []LostEntriesShow
<1>1. JournalInv => LostEntriesShow
    <2> SUFFICES ASSUME JournalInv PROVE LostEntriesShow
        OBVIOUS
    <2>1. DOMAIN table \subseteq Nat /\ DOMAIN file \subseteq Nat
        BY DEF JournalInv, Typed
    <2>2. GapsShow(table, DOMAIN table)
        BY <2>1, JournaledShows DEF JournalInv
    <2>3. GapsShow(file, Readable(file))
        BY <2>1, JournaledShows DEF JournalInv, Readable
    <2> QED
        BY <2>2, <2>3 DEF LostEntriesShow
<1>2. ChainInv => Typed
    BY DEF ChainInv
<1> QED
    BY InitKeeps, StepKeeps, InitJournals, StepJournals, <1>1, <1>2, PTL DEF Spec

-----------------------------------------------------------------------------
(***************************************************************************)
(* The console.                                                            *)
(***************************************************************************)
(* What a request does to the file, or will do.                            *)
Opened(c) == job[c].at \in {"open", "fill"}
NoneListing == \A c \in Clients : job[c].at # "list"

ConsoleTyped ==
    /\ Admin!TypeOK /\ job \in [Clients -> Admin!Job]
    /\ \A c \in Clients :
          /\ job[c].at = "idle" => job[c] = Admin!Idle
          /\ job[c].at \in {"open", "fill", "assign"} => job[c].put \in Admin!Content(target)
          /\ job[c].at = "list" => target = "decoys"
          /\ job[c].at \in {"load", "assign"} => target = "config"

(* A save that is alone carries what was asked for, from memory to file.   *)
AloneAsAsked ==
    failed = 0 /\ ~overlapped =>
        /\ \A c, d \in Clients : job[c] # Admin!Idle /\ job[d] # Admin!Idle => c = d
        /\ Admin!AtRest => disk = wanted
        /\ \A c \in Clients :
              /\ job[c].at = "list" => mem = wanted
              /\ Opened(c) => job[c].put = wanted
              /\ job[c].at = "fill" => disk = Admin!Empty(target)
              /\ job[c].at \in {"load", "assign"} => disk = wanted

(* A writer that is alone finds the file as it left it.                    *)
OneWriter ==
    failed = 0 /\ ~clashed =>
        /\ \A c, d \in Clients : Admin!Writing(c) /\ Admin!Writing(d) => c = d
        /\ \A c \in Clients : /\ job[c].at = "fill" => disk = Admin!Empty(target)
                              /\ job[c].at = "assign" => job[c].put = disk
        /\ target = "config" /\ (\A c \in Clients : ~Admin!Writing(c)) /\ Admin!Loads(disk)
              => mem = Admin!Load(disk)
        /\ target = "decoys" =>
              /\ \A c, d \in Clients : Opened(c) /\ Opened(d) => c = d
              /\ NoneListing =>
                    /\ \A c \in Clients : Opened(c) => job[c].put = mem
                    /\ (\A c \in Clients : ~Opened(c)) => mem = disk

(* Who writes ends by setting the mark.                                    *)
UnmarkedRuns ==
    target = "config" /\ failed = 0 /\ ~pending /\ (\A c \in Clients : ~Admin!Writing(c))
    => Admin!Loads(disk) /\ proxy = Admin!Load(disk)

ConsoleInv == ConsoleTyped /\ AloneAsAsked /\ OneWriter /\ UnmarkedRuns

\* What the types say.
LEMMA ConsoleTypes ==
    ASSUME ConsoleTyped
    PROVE  /\ target \in {"config", "signals", "decoys"}
           /\ disk \in Admin!Content(target) /\ wanted \in Admin!Content(target)
           /\ mem \in (IF target = "decoys" THEN Admin!Decoys ELSE Admin!Doc)
           /\ proxy \in Admin!Doc \cup {None}
           /\ pending \in BOOLEAN /\ overlapped \in BOOLEAN /\ clashed \in BOOLEAN
           /\ saves \in 0..MaxSaves[target] /\ failed \in 0..MaxFailed /\ MaxSaves[target] \in Nat
           /\ job \in [Clients -> Admin!Job]
           /\ \A c \in Clients :
                 /\ job[c].at = "idle" => job[c] = Admin!Idle
                 /\ job[c].at \in {"idle", "list", "open", "fill", "load", "assign"}
                 /\ job[c].at \in {"open", "fill", "assign"} => job[c].put \in Admin!Content(target)
                 /\ job[c].at = "list" => target = "decoys"
                 /\ job[c].at \in {"load", "assign"} => target = "config"
BY OperationsAssumption DEF ConsoleTyped, Admin!TypeOK, Admin!Job

\* An idle request, and one that is not.
LEMMA IdleJob == Admin!Idle.at = "idle" /\ Admin!Idle \in Admin!Job
BY DEF Admin!Idle, Admin!Job

\* The documents a file may start with.
LEMMA EmptyTyped ==
    ASSUME target \in {"config", "signals", "decoys"}
    PROVE  /\ Admin!Empty(target) \in Admin!Content(target)
           /\ Admin!EmptyDoc \in Admin!Doc /\ Admin!Loads(Admin!EmptyDoc)
           /\ \A doc \in Admin!Doc : Admin!Loads(doc) => Admin!Load(doc) \in Admin!Doc
<1> USE OperationsAssumption
<1>1. Admin!EmptyDoc \in Admin!Doc
    BY DEF Admin!EmptyDoc, Admin!Doc, Admin!Section
<1>2. Admin!Loads(Admin!EmptyDoc)
    <2>1. \A s \in Sections : Admin!EmptyDoc[s] \in Admin!Section
        BY DEF Admin!EmptyDoc, Admin!Section
    <2> QED
        BY <1>1, <2>1 DEF Admin!Loads
<1>3. ASSUME NEW doc \in Admin!Doc, Admin!Loads(doc) PROVE Admin!Load(doc) \in Admin!Doc
    <2>1. \A s \in Sections : doc[s] \in Admin!Section
        BY <1>3 DEF Admin!Loads, Admin!Doc
    <2>2. \A s \in Sections :
             [k \in {"form", "raw"} |-> IF doc[s][k] = None THEN 0 ELSE doc[s][k]] \in Admin!Section
        BY <2>1 DEF Admin!Section
    <2> QED
        BY <2>2 DEF Admin!Load, Admin!Doc
<1>4. Admin!NoSignals \in Admin!SignalsDoc
    BY DEF Admin!NoSignals, Admin!SignalsDoc, Admin!NoOverride, Admin!Override
<1>5. Admin!Empty(target) \in Admin!Content(target)
    BY <1>1, <1>4 DEF Admin!Empty, Admin!Content, Admin!Decoys
<1> QED
    BY <1>1, <1>2, <1>3, <1>5

\* A patch is applied as it is asked for, and to a document.
LEMMA PatchedAsAsked ==
    ASSUME NEW doc \in Admin!Doc, NEW patch, NEW S \in SUBSET Sections, patch \in [S -> FormValues]
    PROVE  /\ Admin!ApplyYAMLPatches(doc, patch) \in Admin!Doc
           /\ Admin!ApplyYAMLPatches(doc, patch) = Admin!AsAsked(doc, patch)
<1> USE OperationsAssumption
<1> DEFINE Old(s) == IF doc[s] = Bad THEN Admin!EmptyDoc[s] ELSE doc[s]
           New(s) == [Old(s) EXCEPT !["form"] = patch[s]]
           Asked(s) == [form |-> patch[s], raw |-> IF doc[s] = Bad THEN None ELSE doc[s]["raw"]]
<1>1. DOMAIN patch = S /\ \A s \in S : patch[s] \in 0..1
    OBVIOUS
<1>2. ASSUME NEW s \in S PROVE New(s) \in Admin!Section /\ New(s) = Asked(s)
    <2>1. Old(s) \in Admin!Section /\ (doc[s] = Bad => Old(s)["raw"] = None)
        BY DEF Admin!EmptyDoc, Admin!Doc, Admin!Section
    <2>2. doc[s] # Bad => Old(s) = doc[s]
        OBVIOUS
    <2> HIDE DEF Old
    <2>3. Asked(s)["form"] = patch[s] /\ Asked(s)["raw"] = Old(s)["raw"]
        BY <2>1, <2>2
    <2>4. /\ New(s) \in [{"form", "raw"} -> 0..1 \cup {None}]
          /\ New(s)["form"] = patch[s] /\ New(s)["raw"] = Old(s)["raw"]
        BY <1>1, <2>1 DEF Admin!Section
    <2>5. Asked(s) = [k \in {"form", "raw"} |-> Asked(s)[k]]
        OBVIOUS
    <2>6. New(s) = [k \in {"form", "raw"} |-> New(s)[k]]
        BY <2>4
    <2>7. \A k \in {"form", "raw"} : New(s)[k] = Asked(s)[k]
        BY <2>3, <2>4
    <2> HIDE DEF New, Asked
    <2> QED
        BY <2>4, <2>5, <2>6, <2>7 DEF Admin!Section
<1>3. Admin!ApplyYAMLPatches(doc, patch) = [s \in Sections |-> IF s \notin S THEN doc[s] ELSE New(s)]
    BY <1>1 DEF Admin!ApplyYAMLPatches
<1>4. Admin!AsAsked(doc, patch) = [s \in Sections |-> IF s \notin S THEN doc[s] ELSE Asked(s)]
    BY <1>1 DEF Admin!AsAsked
<1> HIDE DEF New, Asked
<1> QED
    BY <1>2, <1>3, <1>4 DEF Admin!Doc

\* A request becomes what r says, and the others stay as they are.
Becomes(c, r) ==
    /\ job' \in [Clients -> Admin!Job]' /\ job'[c] = r
    /\ \A d \in Clients : d # c => job'[d] = job[d]

\* A request is moved on.
LEMMA JobBecomes ==
    ASSUME ConsoleTyped, NEW c \in Clients, NEW r \in Admin!Job, job' = [job EXCEPT ![c] = r],
           UNCHANGED target
    PROVE  Becomes(c, r)
<1>1. Admin!Job' = Admin!Job
    BY DEF Admin!Job, Admin!Content
<1> QED
    BY <1>1, ConsoleTypes DEF Becomes

\* A request of an operator: what it will write, if its save is alone, is what was asked for.
LEMMA ConsoleBegin ==
    ASSUME ConsoleInv, NEW c \in Clients, NEW put \in Admin!Content(target),
           NEW want \in Admin!Content(target), Admin!Begin(c, target, "open", put, want),
           target # "decoys", disk = wanted => put = want,
           UNCHANGED <<target, disk, mem, pending, proxy, failed, clashed>>
    PROVE  ConsoleInv'
<1> USE OperationsAssumption
<1> DEFINE r == [at |-> "open", put |-> put]
<1>1. /\ job[c] = Admin!Idle /\ job' = [job EXCEPT ![c] = r] /\ saves' = saves + 1
      /\ saves < MaxSaves[target] /\ wanted' = want /\ overlapped' = (overlapped \/ ~Admin!AtRest)
    BY DEF Admin!Begin
<1>2. ConsoleTyped /\ AloneAsAsked /\ OneWriter /\ UnmarkedRuns
    BY DEF ConsoleInv
<1>3. r \in Admin!Job /\ r.at = "open" /\ r.put = put
    BY DEF Admin!Job
<1> HIDE DEF r
<1>4. Becomes(c, r)
    BY <1>1, <1>2, <1>3, JobBecomes
<1>5. saves' \in 0..MaxSaves[target]
    BY <1>1, <1>2, ConsoleTypes
<1>6. overlapped' \in BOOLEAN
    BY <1>1, <1>2, ConsoleTypes DEF Admin!AtRest
<1>7. ConsoleTyped'
    BY <1>1, <1>2, <1>3, <1>4, <1>5, <1>6, ConsoleTypes
    DEF ConsoleTyped, Becomes, Admin!TypeOK, Admin!Content
<1>8. AloneAsAsked'
    <2> SUFFICES ASSUME failed = 0, ~overlapped, Admin!AtRest
                 PROVE  AloneAsAsked'
        BY <1>1 DEF AloneAsAsked
    <2>1. disk = wanted /\ put = want
        BY <1>2 DEF AloneAsAsked
    <2>2. \A d \in Clients : d # c => job'[d] = Admin!Idle
        BY <1>4 DEF Becomes, Admin!AtRest
    <2>3. job'[c].at = "open" /\ job'[c].put = wanted'
        BY <1>1, <1>3, <1>4, <2>1 DEF Becomes
    <2>4. job'[c] # Admin!Idle
        BY <2>3, IdleJob
    <2> QED
        BY <2>2, <2>3, <2>4, IdleJob DEF AloneAsAsked, Opened, Admin!AtRest
<1>9. \A d \in Clients : Admin!Writing(d)' <=> Admin!Writing(d)
    BY <1>1, <1>3, <1>4, IdleJob DEF Becomes, Admin!Writing
<1>10. OneWriter'
    BY <1>1, <1>2, <1>3, <1>4, <1>9, IdleJob DEF OneWriter, Becomes
<1>11. UnmarkedRuns'
    BY <1>2, <1>9 DEF UnmarkedRuns
<1> QED
    BY <1>7, <1>8, <1>10, <1>11 DEF ConsoleInv

\* Forms, bodies and raw texts for veilgate.yaml and signals.yaml.
LEMMA ConsoleSaves ==
    ASSUME ConsoleInv, NEW c \in Clients,
           \/ Admin!SaveForm(c) \/ Admin!PutConfig(c) \/ Admin!SaveRaw(c) \/ Admin!PutRaw(c)
           \/ Admin!SaveSignals(c) \/ Admin!PutSignals(c) \/ Admin!SaveRuleFile(c)
    PROVE  ConsoleInv'
<1> USE OperationsAssumption
<1>0. /\ disk \in Admin!Content(target) /\ wanted \in Admin!Content(target)
    BY ConsoleTypes DEF ConsoleInv
<1>1. CASE Admin!SaveForm(c) \/ Admin!PutConfig(c)
    <2>0. PICK S \in SUBSET Sections : \E patch \in [S -> FormValues] : Admin!SavePatched(c, patch)
        BY <1>1 DEF Admin!SaveForm, Admin!PutConfig, Admin!FormPatches, Admin!BodyPatches
    <2>1. PICK patch \in [S -> FormValues] : Admin!SavePatched(c, patch)
        BY <2>0
    <2> DEFINE put == Admin!ApplyYAMLPatches(disk, patch)
               want == Admin!AsAsked(wanted, patch)
    <2>2. /\ target = "config" /\ disk # Broken /\ Admin!Begin(c, "config", "open", put, want)
          /\ UNCHANGED <<target, disk, mem, pending, proxy, failed, clashed>>
        BY <2>1 DEF Admin!SavePatched, Admin!Begin
    <2>3. disk \in Admin!Doc /\ wanted \in Admin!Doc \cup {Broken}
        BY <1>0, <2>2 DEF Admin!Content
    <2>4. put \in Admin!Doc /\ put = Admin!AsAsked(disk, patch)
        BY <2>3, PatchedAsAsked
    <2>5. want \in Admin!Doc \cup {Broken}
        <3>1. CASE wanted = Broken
            BY <3>1 DEF Admin!AsAsked
        <3>2. CASE wanted \in Admin!Doc
            <4>1. want = Admin!ApplyYAMLPatches(wanted, patch) /\ Admin!ApplyYAMLPatches(wanted, patch) \in Admin!Doc
                BY <3>2, PatchedAsAsked
            <4> QED
                BY <4>1
        <3> QED
            BY <2>3, <3>1, <3>2
    <2>6. disk = wanted => put = want
        BY <2>4
    <2> HIDE DEF put, want
    <2>7. put \in Admin!Content(target) /\ want \in Admin!Content(target)
        BY <2>2, <2>4, <2>5 DEF Admin!Content
    <2> QED
        BY <2>2, <2>6, <2>7, ConsoleBegin
<1>2. CASE Admin!SaveRaw(c) \/ Admin!PutRaw(c)
    <2>1. PICK text \in RawDocs :
             /\ Admin!Begin(c, "config", "open", text, text)
             /\ UNCHANGED <<target, disk, mem, pending, proxy, failed, clashed>>
        BY <1>2 DEF Admin!SaveRaw, Admin!PutRaw
    <2>2. target = "config"
        BY <2>1 DEF Admin!Begin
    <2> QED
        BY <2>1, <2>2, ConsoleBegin
<1>3. CASE Admin!SaveSignals(c) \/ Admin!PutSignals(c)
    <2>1. PICK over \in [Signals -> Admin!Override], new \in SUBSET (SUBSET Custom) :
             LET Kept(doc) == IF new = {} THEN Admin!LoadSignalsFile(doc).custom ELSE UNION new IN
             /\ Admin!Begin(c, "signals", "open", [over |-> over, custom |-> Kept(disk)],
                                                  [over |-> over, custom |-> Kept(wanted)])
             /\ UNCHANGED <<target, disk, mem, pending, proxy, failed, clashed>>
        <3>1. CASE Admin!PutSignals(c)
            BY <3>1 DEF Admin!PutSignals
        <3>2. CASE Admin!SaveSignals(c)
            <4>1. PICK over \in [Signals -> Admin!FormOverride] :
                     /\ Admin!Begin(c, "signals", "open", Admin!SignalsPost(over),
                              [over |-> over, custom |-> Admin!LoadSignalsFile(wanted).custom])
                     /\ UNCHANGED <<target, disk, mem, pending, proxy, failed, clashed>>
                BY <3>2 DEF Admin!SaveSignals
            <4>2. over \in [Signals -> Admin!Override] /\ {} \in SUBSET (SUBSET Custom)
                BY DEF Admin!FormOverride
            <4> QED
                BY <4>1, <4>2 DEF Admin!SignalsPost
        <3> QED
            BY <1>3, <3>1, <3>2
    <2> DEFINE Kept(doc) == IF new = {} THEN Admin!LoadSignalsFile(doc).custom ELSE UNION new
               put == [over |-> over, custom |-> Kept(disk)]
               want == [over |-> over, custom |-> Kept(wanted)]
    <2>2. /\ target = "signals" /\ Admin!Begin(c, "signals", "open", put, want)
          /\ UNCHANGED <<target, disk, mem, pending, proxy, failed, clashed>>
        BY <2>1 DEF Admin!Begin
    <2>3. \A doc \in Admin!Content("signals") : Kept(doc) \in SUBSET Custom
        BY DEF Admin!LoadSignalsFile, Admin!NoSignals, Admin!Content, Admin!SignalsDoc
    <2>4. Kept(disk) \in SUBSET Custom /\ Kept(wanted) \in SUBSET Custom
        BY <1>0, <2>2, <2>3
    <2>5. disk = wanted => put = want
        OBVIOUS
    <2> HIDE DEF Kept
    <2>6. put \in Admin!Content(target) /\ want \in Admin!Content(target)
        BY <2>2, <2>4 DEF Admin!Content, Admin!SignalsDoc
    <2> HIDE DEF put, want
    <2> QED
        BY <2>2, <2>5, <2>6, ConsoleBegin
<1>4. CASE Admin!SaveRuleFile(c)
    <2>1. PICK text \in {Broken, Admin!NoSignals} :
             /\ Admin!Begin(c, "signals", "open", text, text)
             /\ UNCHANGED <<target, disk, mem, pending, proxy, failed, clashed>>
        BY <1>4 DEF Admin!SaveRuleFile
    <2>2. target = "signals" /\ Admin!NoSignals \in Admin!SignalsDoc
        BY <2>1 DEF Admin!Begin, Admin!NoSignals, Admin!SignalsDoc, Admin!NoOverride, Admin!Override
    <2>3. text \in Admin!Content(target)
        BY <2>1, <2>2 DEF Admin!Content
    <2> QED
        BY <2>1, <2>2, <2>3, ConsoleBegin
<1> QED
    BY <1>1, <1>2, <1>3, <1>4

\* The list of decoys is edited: the list is what was asked for.
LEMMA ConsoleEdit == ASSUME ConsoleInv, NEW c \in Clients, Admin!EditDecoys(c) PROVE ConsoleInv'
<1> USE OperationsAssumption
<1> DEFINE r == [at |-> "list", put |-> None]
<1>0. ConsoleTyped /\ AloneAsAsked /\ OneWriter /\ UnmarkedRuns
    BY DEF ConsoleInv
<1>1. PICK list :
         /\ list \in {mem \cup {p} : p \in Paths} \cup {mem \ {p} : p \in Paths} \cup {DefaultDecoys}
         /\ target = "decoys" /\ Admin!Begin(c, "decoys", "list", None, list) /\ mem' = list
         /\ UNCHANGED <<target, disk, pending, proxy, failed, clashed>>
    BY DEF Admin!EditDecoys
<1>2. /\ job[c] = Admin!Idle /\ job' = [job EXCEPT ![c] = r] /\ saves' = saves + 1
      /\ saves < MaxSaves[target] /\ wanted' = list /\ overlapped' = (overlapped \/ ~Admin!AtRest)
    BY <1>1 DEF Admin!Begin
<1>3. r \in Admin!Job /\ r.at = "list"
    BY DEF Admin!Job
<1> HIDE DEF r
<1>4. Becomes(c, r)
    BY <1>0, <1>1, <1>2, <1>3, JobBecomes
<1>5. list \in SUBSET Paths
    BY <1>0, <1>1, ConsoleTypes DEF Admin!Decoys
<1>6. saves' \in 0..MaxSaves[target] /\ overlapped' \in BOOLEAN
    BY <1>0, <1>2, ConsoleTypes DEF Admin!AtRest
<1>7. ConsoleTyped'
    BY <1>0, <1>1, <1>2, <1>3, <1>4, <1>5, <1>6, ConsoleTypes
    DEF ConsoleTyped, Becomes, Admin!TypeOK, Admin!Content, Admin!Decoys
<1>8. AloneAsAsked'
    <2> SUFFICES ASSUME Admin!AtRest PROVE AloneAsAsked'
        BY <1>2 DEF AloneAsAsked
    <2>1. \A d \in Clients : d # c => job'[d] = Admin!Idle
        BY <1>4 DEF Becomes, Admin!AtRest
    <2>2. job'[c].at = "list" /\ mem' = wanted'
        BY <1>1, <1>2, <1>3, <1>4 DEF Becomes
    <2>3. job'[c] # Admin!Idle
        BY <2>2, IdleJob
    <2> QED
        BY <2>1, <2>2, <2>3, IdleJob DEF AloneAsAsked, Opened, Admin!AtRest
<1>9. \A d \in Clients : (Admin!Writing(d)' <=> Admin!Writing(d)) /\ (Opened(d)' <=> Opened(d))
    BY <1>2, <1>3, <1>4, IdleJob DEF Becomes, Admin!Writing, Opened
<1>10. ~NoneListing'
    BY <1>3, <1>4 DEF NoneListing, Becomes
<1>11. OneWriter'
    BY <1>0, <1>1, <1>2, <1>3, <1>4, <1>9, <1>10, IdleJob DEF OneWriter, Becomes
<1>12. UnmarkedRuns'
    BY <1>1 DEF UnmarkedRuns
<1> QED
    BY <1>7, <1>8, <1>11, <1>12 DEF ConsoleInv

\* decoyStore.save takes the copy that it writes.
LEMMA ConsoleCopy == ASSUME ConsoleInv, NEW c \in Clients, Admin!CopyDecoys(c) PROVE ConsoleInv'
<1> USE OperationsAssumption
<1> DEFINE r == [at |-> "open", put |-> mem]
<1>0. ConsoleTyped /\ AloneAsAsked /\ OneWriter /\ UnmarkedRuns
    BY DEF ConsoleInv
<1>1. /\ job[c].at = "list" /\ job' = [job EXCEPT ![c] = r]
      /\ clashed' = (clashed \/ \E d \in Clients \ {c} : job[d].at \in {"open", "fill"})
      /\ UNCHANGED <<target, disk, mem, pending, proxy, saves, failed, wanted, overlapped>>
    BY DEF Admin!CopyDecoys, Admin!Copy
<1>2. target = "decoys" /\ mem \in Admin!Content(target) /\ job[c] # Admin!Idle
    BY <1>0, <1>1, ConsoleTypes, IdleJob DEF Admin!Content
<1>3. r \in Admin!Job /\ r.at = "open" /\ r.put = mem
    BY <1>2 DEF Admin!Job
<1> HIDE DEF r
<1>4. Becomes(c, r)
    BY <1>0, <1>1, <1>3, JobBecomes
<1>5. clashed' \in BOOLEAN
    BY <1>0, <1>1, ConsoleTypes
<1>6. ConsoleTyped'
    BY <1>0, <1>1, <1>2, <1>3, <1>4, <1>5, ConsoleTypes
    DEF ConsoleTyped, Becomes, Admin!TypeOK, Admin!Content
<1>7. AloneAsAsked'
    <2> SUFFICES ASSUME failed = 0, ~overlapped PROVE AloneAsAsked'
        BY <1>1 DEF AloneAsAsked
    <2>1. mem = wanted /\ \A d \in Clients : d # c => job[d] = Admin!Idle
        BY <1>0, <1>1, <1>2 DEF AloneAsAsked
    <2>2. job'[c].at = "open" /\ job'[c].put = wanted /\ \A d \in Clients : d # c => job'[d] = Admin!Idle
        BY <1>3, <1>4, <2>1 DEF Becomes
    <2>3. job'[c] # Admin!Idle
        BY <2>2, IdleJob
    <2> QED
        BY <1>1, <2>2, <2>3, IdleJob DEF AloneAsAsked, Opened, Admin!AtRest
<1>8. OneWriter'
    <2> SUFFICES ASSUME failed = 0, ~clashed' PROVE OneWriter'
        BY <1>1 DEF OneWriter
    <2>1. ~clashed /\ \A d \in Clients : d # c => ~Opened(d)
        BY <1>1 DEF Opened
    <2>2. job'[c].at = "open" /\ job'[c].put = mem /\ \A d \in Clients : d # c => job'[d] = job[d]
        BY <1>3, <1>4 DEF Becomes
    <2>3. \A d \in Clients : d # c => ~Opened(d)'
        BY <2>1, <2>2 DEF Opened
    <2>4. \A d \in Clients : Admin!Writing(d)' <=> Admin!Writing(d)
        BY <1>1, <2>2 DEF Admin!Writing
    <2> QED
        BY <1>0, <1>1, <1>2, <2>1, <2>2, <2>3, <2>4 DEF OneWriter, Opened
<1>9. UnmarkedRuns'
    BY <1>1, <1>2 DEF UnmarkedRuns
<1> QED
    BY <1>6, <1>7, <1>8, <1>9 DEF ConsoleInv

\* A write begins: the file is empty.
LEMMA ConsoleTruncate == ASSUME ConsoleInv, NEW c \in Clients, Admin!Truncate(c) PROVE ConsoleInv'
<1> USE OperationsAssumption
<1> DEFINE r == [job[c] EXCEPT !.at = "fill"]
<1>0. ConsoleTyped /\ AloneAsAsked /\ OneWriter /\ UnmarkedRuns
    BY DEF ConsoleInv
<1>1. /\ job[c].at = "open" /\ disk' = Admin!Empty(target) /\ job' = [job EXCEPT ![c] = r]
      /\ clashed' = (clashed \/ \E d \in Clients \ {c} : Admin!Writing(d))
      /\ UNCHANGED <<target, mem, pending, proxy, saves, failed, wanted, overlapped>>
    BY DEF Admin!Truncate
<1>2. /\ disk' \in Admin!Content(target) /\ job[c] \in Admin!Job /\ job[c] # Admin!Idle
      /\ job[c].put \in Admin!Content(target)
    BY <1>0, <1>1, ConsoleTypes, EmptyTyped, IdleJob
<1>3. r \in Admin!Job /\ r.at = "fill" /\ r.put = job[c].put
    BY <1>2 DEF Admin!Job
<1> HIDE DEF r
<1>4. Becomes(c, r)
    BY <1>0, <1>1, <1>3, JobBecomes
<1>5. clashed' \in BOOLEAN
    BY <1>0, <1>1, ConsoleTypes
<1>6. ConsoleTyped'
    BY <1>0, <1>1, <1>2, <1>3, <1>4, <1>5, ConsoleTypes
    DEF ConsoleTyped, Becomes, Admin!TypeOK, Admin!Content
<1>7. AloneAsAsked'
    <2> SUFFICES ASSUME failed = 0, ~overlapped PROVE AloneAsAsked'
        BY <1>1 DEF AloneAsAsked
    <2>1. job[c].put = wanted /\ \A d \in Clients : d # c => job[d] = Admin!Idle
        BY <1>0, <1>1, <1>2 DEF AloneAsAsked, Opened
    <2>2. job'[c].at = "fill" /\ job'[c].put = wanted /\ \A d \in Clients : d # c => job'[d] = Admin!Idle
        BY <1>3, <1>4, <2>1 DEF Becomes
    <2>3. job'[c] # Admin!Idle
        BY <2>2, IdleJob
    <2>4. disk' = Admin!Empty(target)' /\ wanted' = wanted
        BY <1>1 DEF Admin!Empty
    <2> QED
        BY <1>1, <2>2, <2>3, <2>4, IdleJob DEF AloneAsAsked, Opened, Admin!AtRest
<1>8. job'[c].at = "fill" /\ job'[c].put = job[c].put /\ \A d \in Clients : d # c => job'[d] = job[d]
    BY <1>3, <1>4 DEF Becomes
<1>9. Admin!Writing(c)' /\ \A d \in Clients : d # c => (Admin!Writing(d)' <=> Admin!Writing(d))
    BY <1>8 DEF Admin!Writing
<1>10. OneWriter'
    <2> SUFFICES ASSUME failed = 0, ~clashed' PROVE OneWriter'
        BY <1>1 DEF OneWriter
    <2>1. ~clashed /\ \A d \in Clients : d # c => ~Admin!Writing(d)
        BY <1>1
    <2>2. \A d \in Clients : d # c => job[d].at \notin {"fill", "load", "assign"}
        BY <2>1 DEF Admin!Writing
    <2>3. disk' = Admin!Empty(target)'
        BY <1>1 DEF Admin!Empty
    <2>4. \A d \in Clients : Opened(d)' <=> Opened(d)
        BY <1>1, <1>8 DEF Opened
    <2>5. \A d, e \in Clients : Admin!Writing(d)' /\ Admin!Writing(e)' => d = e
        BY <1>9, <2>1
    <2>6. ASSUME NEW d \in Clients
          PROVE  /\ job'[d].at = "fill" => disk' = Admin!Empty(target)'
                 /\ job'[d].at = "assign" => job'[d].put = disk'
        BY <1>8, <2>2, <2>3
    <2>7. target = "decoys" =>
              /\ \A d, e \in Clients : Opened(d)' /\ Opened(e)' => d = e
              /\ NoneListing' =>
                    /\ \A d \in Clients : Opened(d)' => job'[d].put = mem
                    /\ ~ \A d \in Clients : ~Opened(d)'
        <3> SUFFICES ASSUME target = "decoys"
                     PROVE  /\ \A d, e \in Clients : Opened(d)' /\ Opened(e)' => d = e
                            /\ NoneListing' =>
                                  /\ \A d \in Clients : Opened(d)' => job'[d].put = mem
                                  /\ ~ \A d \in Clients : ~Opened(d)'
            OBVIOUS
        <3>1. Opened(c)' /\ (NoneListing' => NoneListing)
            BY <1>1, <1>8 DEF Opened, NoneListing
        <3> QED
            BY <1>0, <1>8, <2>1, <2>4, <3>1 DEF OneWriter
    <2> QED
        BY <1>1, <1>9, <2>5, <2>6, <2>7 DEF OneWriter
<1>11. UnmarkedRuns'
    BY <1>9 DEF UnmarkedRuns
<1> QED
    BY <1>6, <1>7, <1>10, <1>11 DEF ConsoleInv

\* A write ends; one that found the file as it left it puts what it has there.
LEMMA ConsoleFill == ASSUME ConsoleInv, NEW c \in Clients, Admin!Fill(c) PROVE ConsoleInv'
<1> USE OperationsAssumption
<1> DEFINE r == IF target = "config" THEN [job[c] EXCEPT !.at = "load"] ELSE Admin!Idle
<1>0. ConsoleTyped /\ AloneAsAsked /\ OneWriter /\ UnmarkedRuns
    BY DEF ConsoleInv
<1>1. /\ job[c].at = "fill" /\ (disk' = job[c].put \/ (disk # Admin!Empty(target) /\ disk' = Broken))
      /\ job' = [job EXCEPT ![c] = r]
      /\ UNCHANGED <<target, mem, pending, proxy, saves, failed, wanted, overlapped, clashed>>
    BY DEF Admin!Fill
<1>2. /\ disk' \in Admin!Content(target) /\ job[c] \in Admin!Job /\ job[c] # Admin!Idle
      /\ job[c].put \in Admin!Content(target) /\ target \in {"config", "signals", "decoys"}
    BY <1>0, <1>1, ConsoleTypes, IdleJob DEF Admin!Content
<1>3. /\ r \in Admin!Job
      /\ target = "config" => r.at = "load"
      /\ target # "config" => r = Admin!Idle
    BY <1>2, IdleJob DEF Admin!Job
<1> HIDE DEF r
<1>4. Becomes(c, r)
    BY <1>0, <1>1, <1>3, JobBecomes
<1>5. ConsoleTyped'
    <2>1. ASSUME NEW d \in Clients
          PROVE  /\ job'[d].at = "idle" => job'[d] = Admin!Idle
                 /\ job'[d].at \in {"open", "fill", "assign"} => job'[d].put \in Admin!Content(target)'
                 /\ job'[d].at = "list" => target' = "decoys"
                 /\ job'[d].at \in {"load", "assign"} => target' = "config"
        BY <1>0, <1>1, <1>3, <1>4, ConsoleTypes, IdleJob DEF Becomes, Admin!Content
    <2>2. Admin!TypeOK' /\ job' \in [Clients -> Admin!Job]'
        BY <1>0, <1>1, <1>2, <1>4, ConsoleTypes DEF ConsoleTyped, Becomes, Admin!TypeOK, Admin!Content
    <2> QED
        BY <2>1, <2>2 DEF ConsoleTyped
<1>6. AloneAsAsked'
    <2> SUFFICES ASSUME failed = 0, ~overlapped PROVE AloneAsAsked'
        BY <1>1 DEF AloneAsAsked
    <2>1. /\ job[c].put = wanted /\ disk = Admin!Empty(target)
          /\ \A d \in Clients : d # c => job[d] = Admin!Idle
        BY <1>0, <1>1, <1>2 DEF AloneAsAsked, Opened
    <2>2. disk' = wanted' /\ \A d \in Clients : d # c => job'[d] = Admin!Idle
        BY <1>1, <1>4, <2>1 DEF Becomes
    <2>3. job'[c] = Admin!Idle \/ job'[c].at = "load"
        BY <1>3, <1>4 DEF Becomes
    <2> QED
        BY <1>1, <2>2, <2>3, IdleJob DEF AloneAsAsked, Opened, Admin!AtRest
<1>7. /\ \A d \in Clients : d # c => job'[d] = job[d]
      /\ (target = "config" /\ job'[c].at = "load") \/ (target # "config" /\ job'[c].at = "idle")
    BY <1>3, <1>4, IdleJob DEF Becomes
<1>8. Admin!Writing(c) /\ \A d \in Clients : Admin!Writing(d)' => Admin!Writing(d)
    BY <1>1, <1>7 DEF Admin!Writing
<1>9. Opened(c) /\ ~Opened(c)' /\ \A d \in Clients : d # c => (Opened(d)' <=> Opened(d))
    BY <1>1, <1>7 DEF Opened
<1>10. OneWriter'
    <2> SUFFICES ASSUME failed = 0, ~clashed PROVE OneWriter'
        BY <1>1 DEF OneWriter
    <2>1. /\ \A d, e \in Clients : Admin!Writing(d) /\ Admin!Writing(e) => d = e
          /\ disk = Admin!Empty(target)
        BY <1>0, <1>1 DEF OneWriter
    <2>2. disk' = job[c].put
        BY <1>1, <2>1
    <2>3. \A d \in Clients : d # c => ~Admin!Writing(d)
        BY <1>8, <2>1
    <2>4. \A d \in Clients : job'[d].at \notin {"fill", "assign"}
        BY <1>7, <2>3 DEF Admin!Writing
    <2>5. target = "config" => Admin!Writing(c)'
        BY <1>7 DEF Admin!Writing
    <2>6. target = "decoys" =>
              /\ \A d, e \in Clients : Opened(d)' /\ Opened(e)' => d = e
              /\ NoneListing' =>
                    /\ \A d \in Clients : Opened(d)' => job'[d].put = mem
                    /\ (\A d \in Clients : ~Opened(d)') => mem = disk'
        <3> SUFFICES ASSUME target = "decoys"
                     PROVE  /\ \A d \in Clients : ~Opened(d)'
                            /\ NoneListing' => mem = disk'
            BY <1>1
        <3>1. \A d \in Clients : d # c => ~Opened(d)
            BY <1>0, <1>9 DEF OneWriter
        <3>2. NoneListing' => NoneListing
            BY <1>1, <1>7 DEF NoneListing
        <3> QED
            BY <1>0, <1>9, <2>2, <3>1, <3>2 DEF OneWriter
    <2> QED
        BY <1>1, <1>8, <2>1, <2>4, <2>5, <2>6 DEF OneWriter
<1>11. UnmarkedRuns'
    <2>1. target = "config" => Admin!Writing(c)'
        BY <1>7 DEF Admin!Writing
    <2> QED
        BY <1>1, <2>1 DEF UnmarkedRuns
<1> QED
    BY <1>5, <1>6, <1>10, <1>11 DEF ConsoleInv

\* reloadConfig reads the file.
LEMMA ConsoleReload == ASSUME ConsoleInv, NEW c \in Clients, Admin!ReloadConfig(c) PROVE ConsoleInv'
<1> USE OperationsAssumption
<1> DEFINE r == [at |-> "assign", put |-> disk]
<1>0. ConsoleTyped /\ AloneAsAsked /\ OneWriter /\ UnmarkedRuns
    BY DEF ConsoleInv
<1>1. /\ job[c].at = "load" /\ job' = [job EXCEPT ![c] = r]
      /\ UNCHANGED <<target, disk, mem, pending, proxy, saves, failed, wanted, overlapped, clashed>>
    BY DEF Admin!ReloadConfig
<1>2. target = "config" /\ disk \in Admin!Content(target) /\ job[c] # Admin!Idle
    BY <1>0, <1>1, ConsoleTypes, IdleJob
<1>3. r \in Admin!Job /\ r.at = "assign" /\ r.put = disk
    BY <1>2 DEF Admin!Job
<1> HIDE DEF r
<1>4. Becomes(c, r)
    BY <1>0, <1>1, <1>3, JobBecomes
<1>5. job'[c].at = "assign" /\ job'[c].put = disk /\ \A d \in Clients : d # c => job'[d] = job[d]
    BY <1>3, <1>4 DEF Becomes
<1>6. ConsoleTyped'
    BY <1>0, <1>1, <1>2, <1>4, <1>5, ConsoleTypes DEF ConsoleTyped, Becomes, Admin!TypeOK, Admin!Content
<1>7. job'[c] # Admin!Idle
    BY <1>5, IdleJob
<1>8. AloneAsAsked'
    BY <1>0, <1>1, <1>2, <1>5, <1>7, IdleJob DEF AloneAsAsked, Opened, Admin!AtRest
<1>9. \A d \in Clients : Admin!Writing(d)' <=> Admin!Writing(d)
    BY <1>1, <1>5 DEF Admin!Writing
<1>10. OneWriter'
    BY <1>0, <1>1, <1>2, <1>5, <1>9 DEF OneWriter
<1>11. UnmarkedRuns'
    BY <1>0, <1>1, <1>9 DEF UnmarkedRuns
<1> QED
    BY <1>6, <1>8, <1>10, <1>11 DEF ConsoleInv

\* ... and replaces Server.cfg; the mark is set either way.
LEMMA ConsoleAssign == ASSUME ConsoleInv, NEW c \in Clients, Admin!Assign(c) PROVE ConsoleInv'
<1> USE OperationsAssumption
<1>0. ConsoleTyped /\ AloneAsAsked /\ OneWriter /\ UnmarkedRuns
    BY DEF ConsoleInv
<1>1. /\ job[c].at = "assign" /\ job' = [job EXCEPT ![c] = Admin!Idle] /\ pending' = TRUE
      /\ mem' = IF Admin!Loads(job[c].put) THEN Admin!Load(job[c].put) ELSE mem
      /\ UNCHANGED <<target, disk, proxy, saves, failed, wanted, overlapped, clashed>>
    BY DEF Admin!Assign, Admin!AssignWith
<1>2. target = "config" /\ job[c].put \in Admin!Content(target) /\ job[c] # Admin!Idle
    BY <1>0, <1>1, ConsoleTypes, IdleJob
<1>3. mem' \in Admin!Doc
    <2>1. Admin!Loads(job[c].put) => job[c].put \in Admin!Doc
        BY <1>2 DEF Admin!Content, Admin!Loads
    <2>2. mem \in Admin!Doc
        BY <1>0, <1>2, ConsoleTypes
    <2> QED
        BY <1>1, <1>2, <2>1, <2>2, EmptyTyped
<1>4. Becomes(c, Admin!Idle)
    BY <1>0, <1>1, IdleJob, JobBecomes
<1>5. job'[c] = Admin!Idle /\ \A d \in Clients : d # c => job'[d] = job[d]
    BY <1>4 DEF Becomes
<1>6. ConsoleTyped'
    BY <1>0, <1>1, <1>2, <1>3, <1>4, <1>5, IdleJob, ConsoleTypes
    DEF ConsoleTyped, Becomes, Admin!TypeOK, Admin!Content
<1>7. AloneAsAsked'
    BY <1>0, <1>1, <1>2, <1>5, IdleJob DEF AloneAsAsked, Opened, Admin!AtRest
<1>8. \A d \in Clients : Admin!Writing(d)' <=> Admin!Writing(d) /\ d # c
    BY <1>5, IdleJob DEF Admin!Writing
<1>9. OneWriter'
    BY <1>0, <1>1, <1>2, <1>5, <1>8, IdleJob DEF OneWriter
<1>10. UnmarkedRuns'
    BY <1>1 DEF UnmarkedRuns
<1> QED
    BY <1>6, <1>7, <1>9, <1>10 DEF ConsoleInv

\* A write fails, or the console is restarted: of what a save promises nothing is left.
LEMMA ConsoleFails ==
    ASSUME ConsoleInv, (\E c \in Clients : Admin!FailWrite(c)) \/ Admin!RestartConsole
    PROVE  ConsoleInv'
<1> USE OperationsAssumption
<1>0. ConsoleTyped
    BY DEF ConsoleInv
<1>1. failed' = failed + 1 /\ failed' \in 0..MaxFailed /\ failed' # 0 /\ UNCHANGED target
    BY <1>0, ConsoleTypes DEF Admin!FailWrite, Admin!RestartConsole
<1>2. ConsoleTyped'
    <2>1. ASSUME NEW c \in Clients, Admin!FailWrite(c) PROVE ConsoleTyped'
        <3>1. /\ job' = [job EXCEPT ![c] = Admin!Idle]
              /\ UNCHANGED <<target, disk, mem, pending, proxy, saves, wanted, overlapped, clashed>>
            BY <2>1 DEF Admin!FailWrite
        <3>2. Becomes(c, Admin!Idle)
            BY <1>0, <3>1, IdleJob, JobBecomes
        <3> QED
            BY <1>0, <1>1, <3>1, <3>2, IdleJob, ConsoleTypes
            DEF ConsoleTyped, Becomes, Admin!TypeOK, Admin!Content
    <2>2. ASSUME Admin!RestartConsole PROVE ConsoleTyped'
        <3>1. /\ job' = [c \in Clients |-> Admin!Idle] /\ pending' = FALSE
              /\ UNCHANGED <<target, proxy, saves, wanted, overlapped, clashed>>
            BY <2>2 DEF Admin!RestartConsole
        <3>2. /\ disk' \in Admin!Content(target)
              /\ mem' \in (IF target = "decoys" THEN Admin!Decoys ELSE Admin!Doc)
            <4>1. CASE target = "decoys"
                <5>1. /\ mem' = IF disk = Broken THEN DefaultDecoys ELSE disk
                      /\ disk' = mem'
                    BY <2>2, <4>1 DEF Admin!RestartConsole
                <5>2. disk \in Admin!Decoys \cup {Broken}
                    BY <1>0, <4>1, ConsoleTypes DEF Admin!Content
                <5> QED
                    BY <4>1, <5>1, <5>2 DEF Admin!Content, Admin!Decoys
            <4>2. CASE target # "decoys"
                <5>1. /\ mem' = IF target # "config" THEN mem ELSE Admin!Start(disk)
                      /\ disk' = disk
                    BY <2>2, <4>2 DEF Admin!RestartConsole
                <5>2. mem \in Admin!Doc /\ disk \in Admin!Content(target)
                    BY <1>0, <4>2, ConsoleTypes
                <5>3. target = "config" => Admin!Start(disk) \in Admin!Doc
                    <6> SUFFICES ASSUME target = "config" PROVE Admin!Start(disk) \in Admin!Doc
                        OBVIOUS
                    <6>1. Admin!Loads(disk) => disk \in Admin!Doc
                        BY <5>2 DEF Admin!Content, Admin!Loads
                    <6> QED
                        BY <6>1, EmptyTyped DEF Admin!Start, Admin!ZeroConfig
                <5> QED
                    BY <4>2, <5>1, <5>2, <5>3
            <4> QED
                BY <4>1, <4>2
        <3>3. job' \in [Clients -> Admin!Job]' /\ \A c \in Clients : job'[c] = Admin!Idle
            BY <3>1, IdleJob DEF Admin!Job, Admin!Content
        <3> QED
            BY <1>0, <1>1, <3>1, <3>2, <3>3, IdleJob, ConsoleTypes
            DEF ConsoleTyped, Admin!TypeOK, Admin!Content
    <2> QED
        BY <2>1, <2>2
<1> QED
    BY <1>1, <1>2 DEF ConsoleInv, AloneAsAsked, OneWriter, UnmarkedRuns

\* The proxy is restarted with what the file holds.
LEMMA ConsoleProxy == ASSUME ConsoleInv, Admin!RestartProxy PROVE ConsoleInv'
<1> USE OperationsAssumption
<1>0. ConsoleTyped /\ AloneAsAsked /\ OneWriter /\ UnmarkedRuns
    BY DEF ConsoleInv
<1>1. /\ target = "config" /\ proxy' = IF Admin!Loads(disk) THEN Admin!Load(disk) ELSE None
      /\ UNCHANGED <<target, disk, mem, pending, job, saves, failed, wanted, overlapped, clashed>>
    BY DEF Admin!RestartProxy
<1>2. proxy' \in Admin!Doc \cup {None}
    <2>1. Admin!Loads(disk) => disk \in Admin!Doc
        BY <1>0, <1>1, ConsoleTypes DEF Admin!Content, Admin!Loads
    <2> QED
        BY <1>1, <2>1, EmptyTyped
<1>3. ConsoleTyped'
    BY <1>0, <1>1, <1>2, ConsoleTypes DEF ConsoleTyped, Admin!TypeOK, Admin!Content, Admin!Job
<1>4. AloneAsAsked' /\ OneWriter'
    BY <1>0, <1>1 DEF AloneAsAsked, OneWriter, Opened, NoneListing, Admin!AtRest, Admin!Writing, Admin!Empty
<1>5. UnmarkedRuns'
    BY <1>0, <1>1 DEF UnmarkedRuns, Admin!Writing
<1> QED
    BY <1>3, <1>4, <1>5 DEF ConsoleInv

\* Every step of the console keeps the invariant.
LEMMA ConsoleStep == ConsoleInv /\ (Admin!Next \/ UNCHANGED consoleVars) => ConsoleInv'
<1>1. ConsoleInv /\ Admin!Next => ConsoleInv'
    BY ConsoleSaves, ConsoleEdit, ConsoleCopy, ConsoleTruncate, ConsoleFill, ConsoleReload,
       ConsoleAssign, ConsoleFails, ConsoleProxy DEF Admin!Next
<1>2. ConsoleInv /\ UNCHANGED consoleVars => ConsoleInv'
    BY DEF consoleVars, ConsoleInv, ConsoleTyped, AloneAsAsked, OneWriter, UnmarkedRuns, Opened, NoneListing,
           Admin!TypeOK, Admin!Job, Admin!Content, Admin!AtRest, Admin!Writing, Admin!Empty
<1> QED
    BY <1>1, <1>2

\* Initially the file, the memory and the proxy agree.
LEMMA ConsoleInit == Admin!Init => ConsoleInv
<1> SUFFICES ASSUME Admin!Init PROVE ConsoleInv
    OBVIOUS
<1> USE OperationsAssumption
<1>1. /\ target \in {"config", "signals", "decoys"}
      /\ disk = (IF target = "decoys" THEN DefaultDecoys ELSE Admin!Empty(target))
      /\ mem = (IF target = "decoys" THEN DefaultDecoys ELSE Admin!Load(Admin!EmptyDoc))
      /\ proxy = Admin!Load(Admin!EmptyDoc) /\ pending = FALSE
      /\ job = [c \in Clients |-> Admin!Idle] /\ saves = 0 /\ failed = 0
      /\ wanted = disk /\ overlapped = FALSE /\ clashed = FALSE
    BY DEF Admin!Init
<1>2. \A c \in Clients : job[c] = Admin!Idle
    BY <1>1
<1>3. Admin!Load(Admin!EmptyDoc) \in Admin!Doc /\ Admin!Loads(Admin!EmptyDoc)
    BY <1>1, EmptyTyped
<1>4. disk \in Admin!Content(target) /\ mem \in (IF target = "decoys" THEN Admin!Decoys ELSE Admin!Doc)
    BY <1>1, <1>3, EmptyTyped DEF Admin!Content, Admin!Decoys
<1>5. 0 \in 0..MaxSaves[target] /\ 0 \in 0..MaxFailed
    BY <1>1
<1>6. ConsoleTyped
    BY <1>1, <1>2, <1>3, <1>4, <1>5, IdleJob DEF ConsoleTyped, Admin!TypeOK
<1>7. AloneAsAsked
    BY <1>1, <1>2, IdleJob DEF AloneAsAsked, Opened
<1>8. target = "config" => disk = Admin!EmptyDoc
    BY <1>1 DEF Admin!Empty
<1>9. OneWriter
    BY <1>1, <1>2, <1>8, IdleJob DEF OneWriter, Opened, Admin!Writing
<1>10. UnmarkedRuns
    BY <1>1, <1>3, <1>8 DEF UnmarkedRuns
<1> QED
    BY <1>6, <1>7, <1>9, <1>10 DEF ConsoleInv

\* The invariant holds of every behaviour of the console.
LEMMA ConsoleInvariance == Admin!Spec => []ConsoleInv
<1>1. ConsoleInv /\ [Admin!Next]_(Admin!vars) => ConsoleInv'
    BY ConsoleStep DEF Admin!vars, consoleVars
<1> QED
    BY ConsoleInit, <1>1, PTL DEF Admin!Spec

\* A save that no other overlaps leaves in the file what was asked for, whatever the
\* file held (api.go:169 "Any field omitted from the body is left untouched in the file").
THEOREM SavesAreWhole == Admin!Spec => []SavedAsAsked
<1>1. ConsoleInv => SavedAsAsked
    BY DEF ConsoleInv, AloneAsAsked, SavedAsAsked, Admin!SavedAsAsked, Admin!Quiet
<1> QED
    BY ConsoleInvariance, <1>1, PTL

\* At rest the console shows what the file holds, however its saves interleaved unless two
\* wrote at once (reloadConfig, decoyStore.save), and an unset mark means that the proxy
\* runs with the file (admin.go: configPending).
THEOREM ConsoleFollows == Admin!Spec => []ConsoleIsCurrent
<1>1. ConsoleInv => ConsoleIsCurrent
    <2> SUFFICES ASSUME ConsoleInv, Admin!Quiet PROVE Admin!MemoryIsFile /\ Admin!PendingTells
        BY DEF ConsoleIsCurrent, Admin!MemoryIsFile, Admin!PendingTells
    <2>1. failed = 0 /\ \A c \in Clients : job[c] = Admin!Idle
        BY DEF Admin!Quiet, Admin!AtRest
    <2>2. NoneListing /\ \A c \in Clients : ~Opened(c) /\ ~Admin!Writing(c)
        BY <2>1, IdleJob DEF NoneListing, Opened, Admin!Writing
    <2> QED
        BY <2>1, <2>2 DEF ConsoleInv, OneWriter, UnmarkedRuns, Admin!MemoryIsFile, Admin!PendingTells
<1> QED
    BY ConsoleInvariance, <1>1, PTL

-----------------------------------------------------------------------------
(***************************************************************************)
(* The types, within the bounds of the runs.                               *)
(***************************************************************************)
\* The bounds of the runs are numbers.
LEMMA Bounds == MaxEntries \in Nat /\ MaxFaults \in Nat /\ MaxRuns \in Nat
BY OperationsAssumption

\* Log within the bounds.
LEMMA BoundedLog ==
    ASSUME TypeOK, NEW p \in 0..MaxEntries, NEW w \in SUBSET {"file", "table"}, NEW out, NEW row,
           Log(p, w, out, row), run' \in 0..MaxRuns
    PROVE  /\ file' \in Seq(Line) /\ table' \in Seq(Entry) /\ journal' \in Seq(Entry)
           /\ head' \in 0..MaxEntries /\ disturbed' \in BOOLEAN
<1> USE Bounds
<1> DEFINE e == [id |-> Len(journal) + 1, prev |-> p, by |-> run']
<1>1. /\ Len(journal) < MaxEntries
      /\ out \in {"whole", "unended", "cut", "none"} /\ row \in BOOLEAN
      /\ journal' = Append(journal, e) /\ head' = Len(journal) + 1
      /\ file' = IF "file" \in w THEN Written(file, e, out) ELSE file
      /\ table' = IF "table" \in w /\ row THEN Append(table, e) ELSE table
      /\ disturbed' = (disturbed \/ ~row \/ ("table" \in w /\ forget # <<>>))
    BY DEF Log, LogChained
<1>2. Len(journal) \in Nat
    BY DEF TypeOK
<1>3. e \in Entry /\ Len(journal) + 1 \in 1..MaxEntries
    BY <1>1, <1>2 DEF Entry
<1> HIDE DEF e
<1>4. Written(file, e, out) \in Seq(Line)
    <2>1. out # "none" => AsLine(e, out) \in Line
        BY <1>1, <1>3 DEF AsLine, Line, Entry
    <2>2. \A x \in Line, s \in {"garbled", "cut"} : [x EXCEPT !.state = s] \in Line
        BY DEF Line
    <2> QED
        BY <2>1, <2>2, WrittenIn DEF TypeOK
<1> QED
    BY <1>1, <1>3, <1>4 DEF TypeOK

\* The hash a chain is seeded with is of an entry, or none.
LEMMA BoundedSeeds ==
    ASSUME TypeOK, NEW w, NEW answers
    PROVE  Seed(w, answers) \in 0..MaxEntries /\ LastAuditHash(answers) \in 0..MaxEntries
<1> USE Bounds
<1>1. table # <<>> => Last(table) \in Entry
    BY DEF TypeOK, Last
<1>2. file # <<>> => Last(file) \in Line
    BY DEF TypeOK, Last
<1>3. LastAuditHash(answers) \in 0..MaxEntries
    BY <1>1 DEF LastAuditHash, NoHash, Entry
<1>4. ReadLastHash(file) \in 0..MaxEntries
    BY <1>2 DEF ReadLastHash, NoHash, Line
<1> QED
    BY <1>3, <1>4 DEF Seed, NoHash

\* Every step of the audit chain stays within the bounds.
LEMMA StepBounded == TypeOK /\ (Next \/ UNCHANGED vars) => TypeOK'
<1> SUFFICES ASSUME TypeOK, Next \/ UNCHANGED vars PROVE TypeOK'
    OBVIOUS
<1> USE Bounds
<1>1. CASE Start
    <2>1. PICK w \in SUBSET {"file", "table"}, out \in {"whole", "unended", "cut", "none"}, row \in BOOLEAN,
               answers \in BOOLEAN :
             /\ run < MaxRuns /\ run' = run + 1 /\ proc' = "up" /\ backends' = w
             /\ Log(Seed(w, answers), w, out, row) /\ Blindly(answers)
             /\ Fault("file" \notin w \/ out # "whole" \/ ~row \/ ~answers) /\ UNCHANGED forget
        BY <1>1 DEF Start
    <2>2. run' \in 0..MaxRuns /\ faults' \in 0..MaxFaults
        BY <2>1 DEF TypeOK, Fault
    <2>3. Seed(w, answers) \in 0..MaxEntries
        BY BoundedSeeds
    <2>4. /\ file' \in Seq(Line) /\ table' \in Seq(Entry) /\ journal' \in Seq(Entry)
          /\ head' \in 0..MaxEntries /\ disturbed' \in BOOLEAN
        BY <2>1, <2>2, <2>3, BoundedLog
    <2>5. blind' \subseteq 1..MaxEntries
        <3>1. Len(journal) < MaxEntries /\ Len(journal) \in Nat /\ blind \subseteq 1..MaxEntries
            BY <2>1 DEF Log, LogChained, TypeOK
        <3>2. Len(journal) + 1 \in 1..MaxEntries
            BY <3>1
        <3> QED
            BY <2>1, <3>1, <3>2 DEF Blindly
    <2> QED
        BY <2>1, <2>2, <2>4, <2>5 DEF TypeOK
<1>2. CASE Record \/ Stop
    <2>1. PICK out \in {"whole", "unended", "cut", "none"}, row \in BOOLEAN, f \in BOOLEAN :
             /\ Log(head, backends, out, row) /\ Fault(f) /\ UNCHANGED <<backends, run, forget, blind>>
             /\ proc' \in {proc, "stopping"}
        BY <1>2 DEF Record, Stop
    <2>2. run' \in 0..MaxRuns /\ faults' \in 0..MaxFaults /\ head \in 0..MaxEntries
          /\ backends \in SUBSET {"file", "table"}
        BY <2>1 DEF TypeOK, Fault
    <2>3. /\ file' \in Seq(Line) /\ table' \in Seq(Entry) /\ journal' \in Seq(Entry)
          /\ head' \in 0..MaxEntries /\ disturbed' \in BOOLEAN
        BY <2>1, <2>2, BoundedLog
    <2> QED
        BY <2>1, <2>2, <2>3 DEF TypeOK
<1>3. CASE CloseStore \/ Exit \/ Crash \/ UNCHANGED vars
    <2>1. UNCHANGED <<file, table, journal, head, run, forget, disturbed, blind>>
        BY <1>3 DEF CloseStore, Exit, Crash, vars
    <2>2. proc' \in {proc, "closed", "down"} /\ backends' \in {backends, {}}
        BY <1>3 DEF CloseStore, Exit, Crash, vars
    <2>3. faults' \in 0..MaxFaults
        BY <1>3 DEF CloseStore, Exit, Crash, Fault, vars, TypeOK
    <2> QED
        BY <2>1, <2>2, <2>3 DEF TypeOK
<1>4. CASE ForgetSeed
    <2>1. PICK answers \in BOOLEAN :
             /\ forget' = <<LastAuditHash(answers), answers>> /\ Fault(~answers)
             /\ UNCHANGED <<file, table, head, proc, backends, run, journal, disturbed, blind>>
        BY <1>4 DEF ForgetSeed
    <2>2. forget' \in (0..MaxEntries) \X BOOLEAN
        BY <2>1, BoundedSeeds
    <2>3. faults' \in 0..MaxFaults
        BY <2>1 DEF Fault, TypeOK
    <2> QED
        BY <2>1, <2>2, <2>3 DEF TypeOK
<1>5. CASE ForgetLog
    <2> DEFINE e == [id |-> Len(journal) + 1, prev |-> forget[1], by |-> Command]
    <2>1. PICK row \in BOOLEAN :
             /\ forget # <<>> /\ forget' = <<>> /\ Len(journal) < MaxEntries
             /\ journal' = Append(journal, e) /\ table' = IF row THEN Append(table, e) ELSE table
             /\ disturbed' = (disturbed \/ ~row \/ (proc # "down" /\ "table" \in backends))
             /\ blind' = IF forget[2] THEN blind ELSE blind \cup {Len(journal) + 1}
             /\ Fault(~row) /\ UNCHANGED <<file, head, proc, backends, run>>
        BY <1>5 DEF ForgetLog, Blindly
    <2>2. Len(journal) \in Nat /\ forget[1] \in 0..MaxEntries
        BY <2>1 DEF TypeOK
    <2>3. e \in Entry
        BY <2>1, <2>2 DEF Entry, Command
    <2> HIDE DEF e
    <2>4. faults' \in 0..MaxFaults /\ disturbed' \in BOOLEAN
        BY <2>1 DEF TypeOK, Fault
    <2>5. table' \in Seq(Entry) /\ journal' \in Seq(Entry)
        BY <2>1, <2>3 DEF TypeOK
    <2>6. blind' \subseteq 1..MaxEntries
        <3>1. Len(journal) + 1 \in 1..MaxEntries
            BY <2>1, <2>2
        <3>2. blind \subseteq 1..MaxEntries
            BY DEF TypeOK
        <3> QED
            BY <2>1, <3>1, <3>2
    <2> QED
        BY <2>1, <2>4, <2>5, <2>6 DEF TypeOK
<1> QED
    BY <1>1, <1>2, <1>3, <1>4, <1>5 DEF Next

\* So does its start.
LEMMA InitBounded == Init => TypeOK
<1> SUFFICES ASSUME Init PROVE TypeOK
    OBVIOUS
<1> USE Bounds
<1>1. file \in Seq(Line) /\ table \in Seq(Entry) /\ journal \in Seq(Entry)
    BY DEF Init
<1>2. head \in 0..MaxEntries /\ run \in 0..MaxRuns /\ faults \in 0..MaxFaults
    BY DEF Init, NoHash
<1>3. proc = "down" /\ backends = {} /\ forget = <<>> /\ disturbed \in BOOLEAN /\ blind = {}
    BY DEF Init
<1> QED
    BY <1>1, <1>2, <1>3 DEF TypeOK

\* Whatever runs, the state of the audit chain and of the console keeps its type: a file
\* the console edits holds a document of its kind or text that is no YAML, and nothing else.
THEOREM OpsTyped == OpsSpec => []OpsTypeOK
<1> DEFINE Inv == TypeOK /\ ConsoleInv
<1>1. OpsInit => Inv
    BY InitBounded, ConsoleInit DEF OpsInit
<1>2. Inv /\ [OpsNext]_<<part, vars, consoleVars>> => Inv'
    <2> SUFFICES ASSUME TypeOK, ConsoleInv, OpsNext \/ UNCHANGED <<part, vars, consoleVars>>
                 PROVE  TypeOK' /\ ConsoleInv'
        OBVIOUS
    <2>1. (Next \/ UNCHANGED vars) /\ (Admin!Next \/ UNCHANGED consoleVars)
        BY DEF OpsNext
    <2> QED
        BY <2>1, StepBounded, ConsoleStep
<1>3. Inv => OpsTypeOK
    BY DEF OpsTypeOK, ConsoleInv, ConsoleTyped
<1> QED
    BY <1>1, <1>2, <1>3, PTL DEF OpsSpec

=============================================================================
