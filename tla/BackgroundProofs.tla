--------------------------- MODULE BackgroundProofs ---------------------------
(***************************************************************************)
(* What TLAPS proves of the parts that run on the clock of the process,    *)
(* for every value of the constants that satisfies the assumptions of      *)
(* MCBackground: the retention, the capture file, the reports of the       *)
(* metrics, the recommender, the classifier with its miner, the fleet      *)
(* tracker, the scorer and the forest; and that each keeps to its types.   *)
(***************************************************************************)
EXTENDS MCBackground, FoldLemmas

-----------------------------------------------------------------------------
(* The retention. *)

(* The counters are numbers, and the table and the cutoff of a pass stay   *)
(* among the rows that came in before.                                     *)
Numbered ==
    /\ inserted \in Nat /\ aged \in 0..inserted /\ stored \subseteq 1..inserted
    /\ trim \in [at : {"idle", "dump", "trim"}, cutoff : 0..aged]
    /\ dumps \subseteq SUBSET (1..inserted)

(* Between the dump and the trim, what the trim will delete is in a file:  *)
(* a row that comes in meanwhile is younger than the cutoff, and rows that *)
(* leave meanwhile are not looked for.                                     *)
DumpCovers == trim.at = "trim" => Older \subseteq (UNION dumps) \cup unflushed

RetentionInv == Numbered /\ DumpCovers /\ TrimmedIsDumped

\* The invariant holds at the start.
LEMMA TrimStarts == Init => RetentionInv
BY DEF Init, RetentionInv, Numbered, DumpCovers, TrimmedIsDumped, Idle

\* Every step keeps the numbering.
LEMMA TrimNumbers == Numbered /\ [Next]_vars => Numbered'
<1> SUFFICES ASSUME Numbered, [Next]_vars PROVE Numbered'
    OBVIOUS
<1> USE DEF Numbered
<1>1. CASE Insert
    <2>1. inserted' = inserted + 1 /\ stored' \subseteq stored \cup {inserted + 1}
        BY <1>1 DEF Insert
    <2>2. UNCHANGED <<aged, trim, dumps>>
        BY <1>1 DEF Insert
    <2>3. 1..inserted \subseteq 1..(inserted + 1) /\ inserted + 1 \in 1..(inserted + 1)
        OBVIOUS
    <2>4. stored' \subseteq 1..inserted' /\ inserted' \in Nat /\ aged' \in 0..inserted'
        BY <2>1, <2>2, <2>3
    <2>5. dumps' \subseteq SUBSET (1..inserted')
        BY <2>1, <2>2, <2>3
    <2> QED
        BY <2>2, <2>4, <2>5
<1>2. CASE Age
    BY <1>2 DEF Age
<1>3. CASE Forget
    BY <1>3 DEF Forget
<1>4. CASE Tick
    BY <1>4 DEF Tick, TickAt
<1>5. CASE Dump
    <2>1. Older \in SUBSET (1..inserted)
        BY DEF Older
    <2> QED
        BY <2>1, <1>5 DEF Dump, DumpTo
<1>6. CASE DumpUnflushed
    BY <1>6 DEF DumpUnflushed, DumpTo
<1>7. CASE DumpFails
    BY <1>7 DEF DumpFails, DumpTo, Idle
<1>8. CASE Trim
    <2>1. stored' \subseteq stored /\ trim' = Idle /\ UNCHANGED <<inserted, aged, dumps>>
        BY <1>8 DEF Trim
    <2> QED
        BY <2>1 DEF Idle
<1>9. CASE Interrupted
    BY <1>9 DEF Interrupted, Idle
<1>10. CASE UNCHANGED vars
    BY <1>10 DEF vars
<1> QED
    BY <1>1, <1>2, <1>3, <1>4, <1>5, <1>6, <1>7, <1>8, <1>9, <1>10 DEF Next

\* Every step keeps what a pass relies on.
LEMMA TrimCovers == Numbered /\ DumpCovers /\ [Next]_vars => DumpCovers'
<1> SUFFICES ASSUME Numbered, DumpCovers, [Next]_vars, trim'.at = "trim"
             PROVE  Older' \subseteq (UNION dumps') \cup unflushed'
    BY DEF DumpCovers
<1> USE DEF Older
<1>1. CASE Insert
    <2>1. trim' = trim /\ dumps' = dumps /\ unflushed' = unflushed
          /\ stored' \subseteq stored \cup {inserted + 1}
        BY <1>1 DEF Insert
    <2>2. ~ (inserted + 1 <= trim.cutoff)
        BY DEF Numbered
    <2> QED
        BY <2>1, <2>2 DEF DumpCovers
<1>2. CASE Age
    BY <1>2 DEF Age, DumpCovers
<1>3. CASE Forget
    <2>1. stored' \subseteq stored /\ UNCHANGED <<trim, dumps, unflushed>>
        BY <1>3 DEF Forget
    <2> QED
        BY <2>1 DEF DumpCovers
<1>4. CASE Tick
    BY <1>4 DEF Tick, TickAt
<1>5. CASE Dump
    <2>1. trim'.cutoff = trim.cutoff /\ stored' = stored
        BY <1>5 DEF Dump, DumpTo, Numbered
    <2>2. dumps' = dumps \cup {Older}
        BY <1>5 DEF Dump, DumpTo
    <2>3. Older' = Older
        BY <2>1
    <2> QED
        BY <2>2, <2>3
<1>6. CASE DumpUnflushed
    <2>1. trim'.cutoff = trim.cutoff /\ stored' = stored
        BY <1>6 DEF DumpUnflushed, DumpTo, Numbered
    <2> QED
        BY <2>1, <1>6 DEF DumpUnflushed, DumpTo
<1>7. CASE DumpFails
    BY <1>7 DEF DumpFails, DumpTo, Idle
<1>8. CASE Trim
    BY <1>8 DEF Trim, Idle
<1>9. CASE Interrupted
    BY <1>9 DEF Interrupted, Idle
<1>10. CASE UNCHANGED vars
    BY <1>10 DEF vars, DumpCovers
<1> QED
    BY <1>1, <1>2, <1>3, <1>4, <1>5, <1>6, <1>7, <1>8, <1>9, <1>10 DEF Next

\* Only Trim deletes into the history, and what it deletes is covered.
LEMMA TrimCounts == DumpCovers /\ TrimmedIsDumped /\ [Next]_vars => TrimmedIsDumped'
<1> SUFFICES ASSUME DumpCovers, TrimmedIsDumped, [Next]_vars PROVE TrimmedIsDumped'
    OBVIOUS
<1> USE DEF TrimmedIsDumped
<1>1. CASE Trim
    BY <1>1 DEF Trim, DumpCovers
<1>2. CASE Dump
    BY <1>2 DEF Dump, DumpTo
<1>3. CASE DumpUnflushed
    BY <1>3 DEF DumpUnflushed, DumpTo
<1>4. CASE DumpFails
    BY <1>4 DEF DumpFails, DumpTo
<1>5. CASE Insert \/ Age \/ Forget \/ Tick \/ Interrupted \/ UNCHANGED vars
    BY <1>5 DEF Insert, Age, Forget, Tick, TickAt, Interrupted, vars
<1> QED
    BY <1>1, <1>2, <1>3, <1>4, <1>5 DEF Next

\* A row that the retention deleted is in a dump file, or in one whose end was lost
\* without an error (cmd/veilgate/main.go: the dump comes before the trim, and one that
\* fails ends the pass).
THEOREM Preserved == Spec => []TrimmedIsDumped
<1>1. RetentionInv /\ [Next]_vars => RetentionInv'
    BY TrimNumbers, TrimCovers, TrimCounts DEF RetentionInv
<1>2. RetentionInv => TrimmedIsDumped
    BY DEF RetentionInv
<1> QED
    BY TrimStarts, <1>1, <1>2, PTL DEF Spec

-----------------------------------------------------------------------------
(* The capture file. *)

(* The size of the open file is within what is counted and left uncounted, *)
(* and the clock and the number of lines stay within their bounds.         *)
CaptureInv ==
    /\ Keep!TypeOK
    /\ sweep \in [at : {"idle", "live", "truncate", "next", "remove"}, cutoff : Int,
                  listed : SUBSET {"live", "rotated"}]
    /\ now \in 0..MaxTime /\ offered \in 0..MaxLines
    /\ Keep!CaptureGoesOn

\* The invariant of the capture holds at the start.
LEMMA CaptureStarts == Keep!Init => CaptureInv
<1> SUFFICES ASSUME Keep!Init PROVE CaptureInv
    OBVIOUS
<1>1. /\ live = 0 /\ liveAt = 0 /\ rotated = None /\ rotatedAt = 0 /\ f = "live" /\ written = 0
      /\ sweep = Keep!Idle /\ now = 0 /\ offered = 0 /\ uncounted = 0 /\ muted = FALSE
    BY DEF Keep!Init
<1>2. 0 \in 0..MaxTime /\ 0 \in 0..MaxLines /\ 0 < MaxBytes + MaxLine + 0 /\ None # 0
    BY CaptureAssumption
<1>3. /\ sweep.at = "idle" /\ sweep.listed = {}
      /\ sweep \in [at : {"idle", "live", "truncate", "next", "remove"}, cutoff : Int, listed : SUBSET {"live", "rotated"}]
    BY <1>1 DEF Keep!Idle
<1>4. Keep!TypeOK
  <2>1. {live, rotated} \subseteq Nat \cup {None} /\ liveAt \in 0..MaxTime /\ rotatedAt \in 0..MaxTime
        /\ written \in Nat /\ uncounted \in Nat
      BY <1>1, <1>2
  <2>2. f \in {"live", "closed"} /\ muted \in BOOLEAN
      BY <1>1
  <2> QED
      BY <1>3, <2>1, <2>2 DEF Keep!TypeOK
<1>5. Keep!CaptureGoesOn
    BY <1>1, <1>2 DEF Keep!CaptureGoesOn
<1> QED
    BY <1>1, <1>2, <1>3, <1>4, <1>5 DEF CaptureInv

\* A writer whose file may take a line.
MayWrite(w, g) ==
    /\ w.live \in Nat \cup {None} /\ w.written \in Nat /\ w.uncounted \in Nat
    /\ IF g = "live" THEN w.live # None /\ w.live \in w.written..w.written + w.uncounted /\ w.written < MaxBytes
       ELSE /\ w.written >= MaxBytes \/ muted
            /\ w.live # None => w.live < MaxBytes + MaxLine + w.uncounted

\* A line, whole or in part, is written to the file that is open.
LEMMA LineKeeps ==
    ASSUME NEW w, NEW fails, MayWrite(w, f'), Keep!WriteLine(w, fails), f' \in {"live", "closed"},
           now \in 0..MaxTime, liveAt \in 0..MaxTime, muted' = muted
    PROVE  /\ live' \in Nat \cup {None} /\ written' \in Nat /\ uncounted' \in Nat
           /\ liveAt' \in 0..MaxTime /\ Keep!CaptureGoesOn'
<1>0. MaxBytes \in Nat /\ MaxLine \in Nat \ {0} /\ None \notin Nat
    BY CaptureAssumption
<1>1. CASE f' = "closed"
  <2>1. live' = w.live /\ written' = w.written /\ uncounted' = w.uncounted /\ liveAt' = liveAt
      BY <1>1 DEF Keep!WriteLine
  <2> QED
      BY <1>1, <2>1 DEF MayWrite, Keep!CaptureGoesOn
<1>2. CASE f' = "live"
  <2>1. PICK n \in 0..MaxLine, k \in 0..MaxLine - 1 :
            /\ live' = w.live + n + k /\ written' = w.written + n /\ uncounted' = w.uncounted + k
            /\ n + k <= MaxLine
    <3>1. CASE \E n \in 1..MaxLine : Keep!Put(w, n)
      <4>1. PICK n \in 1..MaxLine : Keep!Put(w, n)
          BY <3>1
      <4>2. live' = w.live + n + 0 /\ written' = w.written + n /\ uncounted' = w.uncounted + 0 /\ n + 0 <= MaxLine
          BY <1>0, <1>2, <4>1 DEF Keep!Put, MayWrite
      <4> QED
          BY <1>0, <4>2
    <3>2. CASE \E k \in 0..MaxLine - 1 : Keep!PutPart(w, k)
      <4>1. PICK k \in 0..MaxLine - 1 : Keep!PutPart(w, k)
          BY <3>2
      <4>2. live' = w.live + 0 + k /\ written' = w.written + 0 /\ uncounted' = w.uncounted + k /\ 0 + k <= MaxLine
          BY <1>0, <1>2, <4>1 DEF Keep!PutPart, MayWrite
      <4> QED
          BY <1>0, <4>2
    <3> QED
        BY <1>2, <3>1, <3>2 DEF Keep!WriteLine
  <2>2. liveAt' \in 0..MaxTime
      BY <1>2 DEF Keep!WriteLine
  <2>3. /\ w.live \in Nat /\ w.written \in Nat /\ w.uncounted \in Nat
        /\ w.live \in w.written..w.written + w.uncounted /\ w.written < MaxBytes
      BY <1>2 DEF MayWrite
  <2>4. live' \in Nat /\ live' # None /\ live' < MaxBytes + MaxLine + uncounted' /\ live' \in written'..written' + uncounted'
        /\ written' \in Nat /\ uncounted' \in Nat
      BY <1>0, <2>1, <2>3
  <2> QED
      BY <1>2, <2>2, <2>4 DEF Keep!CaptureGoesOn
<1> QED
    BY <1>1, <1>2

\* A request writes its line, and rotates a full file before it.
LEMMA CaptureWrites ==
    ASSUME CaptureInv, Keep!Write
    PROVE  CaptureInv'
<1>0. MaxBytes \in Nat \ {0} /\ MaxLine \in Nat \ {0} /\ None \notin Nat /\ MaxLines \in Nat
    BY CaptureAssumption
<1>1. /\ live \in Nat \cup {None} /\ rotated \in Nat \cup {None} /\ written \in Nat /\ uncounted \in Nat
      /\ liveAt \in 0..MaxTime /\ rotatedAt \in 0..MaxTime /\ f \in {"live", "closed"} /\ muted \in BOOLEAN
      /\ now \in 0..MaxTime /\ offered \in 0..MaxLines
    BY DEF CaptureInv, Keep!TypeOK
<1>2. UNCHANGED <<sweep, now, muted>> /\ offered' = offered + 1 /\ offered < MaxLines
    BY DEF Keep!Write, Keep!Writing
<1>3. /\ rotated' \in Nat \cup {None} /\ rotatedAt' \in 0..MaxTime /\ f' \in {"live", "closed"}
      /\ \E w, fails : MayWrite(w, f') /\ Keep!WriteLine(w, fails)
  <2>1. CASE written < MaxBytes
    <3>1. UNCHANGED <<rotated, rotatedAt, f>> /\ \E fails : Keep!WriteLine(Keep!Writer, fails)
        BY <1>0, <1>1, <2>1 DEF Keep!Write, Keep!Writing
    <3>2. MayWrite(Keep!Writer, f')
        BY <1>1, <2>1, <3>1 DEF MayWrite, Keep!Writer, CaptureInv, Keep!CaptureGoesOn
    <3> QED
        BY <1>1, <3>1, <3>2
  <2>2. CASE written >= MaxBytes
    <3>1. PICK renames \in BOOLEAN, opens \in BOOLEAN, fails \in BOOLEAN :
              Keep!Rotate(renames, opens) /\ Keep!WriteLine(Keep!Opened(renames, opens, written), fails)
        BY <1>0, <1>1, <2>2 DEF Keep!Write, Keep!Writing
    <3>2. /\ renames => live # None
          /\ rotated' \in {live, rotated} /\ rotatedAt' \in {liveAt, rotatedAt}
          /\ f' = IF opens THEN "live" ELSE "closed"
        BY <3>1 DEF Keep!Rotate
    <3> DEFINE w == Keep!Opened(renames, opens, written)
               left == IF renames THEN None ELSE live
    <3>3. CASE opens
      <4>1. w = IF left = None THEN [live |-> 0, written |-> 0, uncounted |-> 0]
                ELSE [live |-> left, written |-> 0, uncounted |-> left]
          BY <3>3 DEF Keep!Opened
      <4>2. left \in Nat \cup {None}
          BY <1>1
      <4> HIDE DEF w, left
      <4>3. MayWrite(w, "live")
          BY <1>0, <4>1, <4>2 DEF MayWrite
      <4> QED
          BY <1>1, <3>1, <3>2, <3>3, <4>3 DEF w
    <3>4. CASE ~opens
      <4>1. w = [live |-> left, written |-> written, uncounted |-> uncounted]
          BY <3>4 DEF Keep!Opened
      <4>2. left \in {live, None} /\ (live # None => live < MaxBytes + MaxLine + uncounted)
          BY DEF CaptureInv, Keep!CaptureGoesOn
      <4> HIDE DEF w, left
      <4>3. MayWrite(w, "closed")
          BY <1>0, <1>1, <2>2, <4>1, <4>2 DEF MayWrite
      <4> QED
          BY <1>1, <3>1, <3>2, <3>4, <4>3 DEF w
    <3> QED
        BY <3>3, <3>4
  <2> QED
      BY <1>0, <1>1, <2>1, <2>2
<1>4. /\ live' \in Nat \cup {None} /\ written' \in Nat /\ uncounted' \in Nat
      /\ liveAt' \in 0..MaxTime /\ Keep!CaptureGoesOn'
    BY <1>1, <1>2, <1>3, LineKeeps
<1> QED
    BY <1>0, <1>1, <1>2, <1>3, <1>4 DEF CaptureInv, Keep!TypeOK

\* Every other step keeps the invariant.
LEMMA CaptureSteps ==
    ASSUME CaptureInv, [Keep!Next]_(Keep!vars)
    PROVE  CaptureInv'
<1>0. /\ MaxBytes \in Nat \ {0} /\ MaxLine \in Nat \ {0} /\ None \notin Nat /\ Retention \in Nat /\ MaxTime \in Nat
    BY CaptureAssumption
<1>1. CASE Keep!Write
    BY <1>1, CaptureWrites
<1>2. CASE Keep!Restart
  <2>1. /\ live' = (IF live = None THEN 0 ELSE live) /\ liveAt' = (IF live = None THEN now ELSE liveAt)
        /\ f' = "live" /\ sweep' = Keep!Idle /\ muted' = FALSE
        /\ UNCHANGED <<rotated, rotatedAt, now, offered>>
        /\ \/ written' = 0 /\ uncounted' = live'
           \/ written' = live' /\ uncounted' = (IF live = None THEN 0 ELSE uncounted)
      BY <1>2 DEF Keep!Restart
  <2>2. /\ live \in Nat \cup {None} /\ uncounted \in Nat
        /\ live # None => live < MaxBytes + MaxLine + uncounted
      BY DEF CaptureInv, Keep!TypeOK, Keep!CaptureGoesOn
  <2>3. /\ live' \in Nat /\ written' \in Nat /\ uncounted' \in Nat
        /\ live' < MaxBytes + MaxLine + uncounted' /\ live' \in written'..written' + uncounted'
    <3>1. CASE live = None
      <4>1. live' = 0 /\ written' = 0 /\ uncounted' = 0
          BY <2>1, <3>1
      <4> QED
          BY <1>0, <4>1
    <3>2. CASE live # None
      <4>1. live' = live /\ live \in Nat /\ live < MaxBytes + MaxLine + uncounted
          BY <2>1, <2>2, <3>2
      <4>2. live' < MaxBytes + MaxLine + live'
          BY <1>0, <4>1
      <4>3. CASE written' = 0 /\ uncounted' = live'
          BY <4>1, <4>2, <4>3
      <4>4. CASE written' = live' /\ uncounted' = uncounted
          BY <2>2, <4>1, <4>4
      <4> QED
          BY <2>1, <3>2, <4>3, <4>4
    <3> QED
        BY <3>1, <3>2
  <2>4. Keep!CaptureGoesOn'
      BY <1>0, <2>1, <2>3 DEF Keep!CaptureGoesOn
  <2>5. /\ sweep'.at = "idle" /\ sweep'.listed = {}
        /\ sweep' \in [at : {"idle", "live", "truncate", "next", "remove"}, cutoff : Int, listed : SUBSET {"live", "rotated"}]
      BY <2>1 DEF Keep!Idle
  <2>6. Keep!TypeOK'
      BY <2>1, <2>3, <2>5 DEF CaptureInv, Keep!TypeOK
  <2> QED
      BY <2>1, <2>4, <2>5, <2>6 DEF CaptureInv
<1>3. CASE Keep!Tick
    BY <1>0, <1>3 DEF Keep!Tick, Keep!files, CaptureInv, Keep!TypeOK, Keep!CaptureGoesOn
<1>4. CASE Keep!List
  <2>1. sweep' \in [at : {"idle", "live", "truncate", "next", "remove"}, cutoff : Int,
                    listed : SUBSET {"live", "rotated"}]
      BY <1>0, <1>4 DEF Keep!List, CaptureInv
  <2>2. UNCHANGED <<live, liveAt, rotated, rotatedAt, f, written, now, offered, uncounted, muted>>
      BY <1>4 DEF Keep!List, Keep!files
  <2> QED
      BY <2>1, <2>2 DEF CaptureInv, Keep!TypeOK, Keep!CaptureGoesOn
<1>5. CASE Keep!LookLive
  <2>1. \/ sweep' = [sweep EXCEPT !.at = "truncate"]
        \/ sweep' = [sweep EXCEPT !.at = "next"]
      BY <1>5 DEF Keep!LookLive, Keep!Step
  <2>2. UNCHANGED <<live, liveAt, rotated, rotatedAt, f, written, now, offered, uncounted, muted>>
      BY <1>5 DEF Keep!LookLive, Keep!files
  <2> QED
      BY <2>1, <2>2 DEF CaptureInv, Keep!TypeOK, Keep!CaptureGoesOn
<1>6. CASE Keep!Truncate
  <2>1. /\ sweep' = [sweep EXCEPT !.at = "next"] /\ written' = 0
        /\ UNCHANGED <<rotated, rotatedAt, f, now, offered>>
        /\ \/ f = "live" /\ live' = 0 /\ liveAt' = now /\ uncounted' = 0 /\ muted' = muted
           \/ f = "live" /\ uncounted' = live /\ UNCHANGED <<live, liveAt, muted>>
           \/ f = "closed" /\ muted' = TRUE /\ UNCHANGED <<live, liveAt, uncounted>>
      BY <1>6 DEF Keep!Truncate, Keep!Step
  <2>2. Keep!TypeOK /\ (f = "live" => live # None)
      BY DEF CaptureInv, Keep!CaptureGoesOn
  <2>3. Keep!TypeOK' /\ Keep!CaptureGoesOn'
    <3>1. live' \in Nat \cup {None} /\ uncounted' \in Nat /\ liveAt' \in 0..MaxTime /\ muted' \in BOOLEAN
      <4>1. CASE f = "live"
        <5>1. live \in Nat /\ now \in 0..MaxTime
            BY <2>2, <4>1 DEF Keep!TypeOK, CaptureInv
        <5> QED
            BY <2>1, <2>2, <4>1, <5>1 DEF Keep!TypeOK
      <4>2. CASE f # "live"
          BY <2>1, <2>2, <4>2 DEF Keep!TypeOK
      <4> QED
          BY <4>1, <4>2
    <3>2. Keep!CaptureGoesOn'
        BY <1>0, <2>1, <2>2 DEF CaptureInv, Keep!CaptureGoesOn, Keep!TypeOK
    <3>3. sweep'.at \in {"idle", "live", "truncate", "next", "remove"} /\ sweep'.listed \subseteq {"live", "rotated"}
        BY <2>1 DEF CaptureInv
    <3> QED
        BY <2>1, <2>2, <3>1, <3>2, <3>3 DEF Keep!TypeOK
  <2> QED
      BY <2>1, <2>3 DEF CaptureInv
<1>7. CASE Keep!LookRotated
  <2>1. UNCHANGED <<live, liveAt, rotated, rotatedAt, f, written, now, offered, uncounted, muted>>
      BY <1>7 DEF Keep!LookRotated, Keep!files
  <2>2. sweep' = Keep!Idle \/ sweep' = [sweep EXCEPT !.at = "remove"]
      BY <1>7 DEF Keep!LookRotated, Keep!Step
  <2> QED
      BY <2>1, <2>2 DEF CaptureInv, Keep!TypeOK, Keep!CaptureGoesOn, Keep!Idle
<1>8. CASE Keep!RemoveRotated
    BY <1>8 DEF Keep!RemoveRotated, CaptureInv, Keep!TypeOK, Keep!CaptureGoesOn, Keep!Idle
<1>9. CASE UNCHANGED Keep!vars
    BY <1>9 DEF Keep!vars, CaptureInv, Keep!TypeOK, Keep!CaptureGoesOn
<1> QED
    BY <1>1, <1>2, <1>3, <1>4, <1>5, <1>6, <1>7, <1>8, <1>9 DEF Keep!Next

\* The capture's file outgrows the cap by less than a line and what failing calls left
\* uncounted, and a writer that has lost its file tries to open one (telemetry/capture.go:
\* Write, rotateLocked and the sweep of the janitor).
THEOREM CaptureKeeps == Keep!Spec => []CaptureGoesOn
<1>1. Keep!Init => CaptureInv
    BY CaptureStarts
<1>2. CaptureInv /\ [Keep!Next]_(Keep!vars) => CaptureInv'
    BY CaptureSteps
<1>3. CaptureInv => CaptureGoesOn
    BY DEF CaptureInv, CaptureGoesOn, In
<1> QED
    BY <1>1, <1>2, <1>3, PTL DEF Keep!Spec

-----------------------------------------------------------------------------
(* The reports of the metrics. *)

Counts == [Push!Kinds -> Nat]

(* What the events of a queue add to the counts, and its values after each *)
(* of them.                                                                *)
Queued(s) == Push!FoldLeft(Push!Plus, Push!Zeros, s)
QueuedSteps(r, n, s) ==
    /\ r[0] = Push!Zeros /\ Queued(s) = r[n]
    /\ \A k \in 1..n : r[k] = Push!Plus(r[k - 1], s[k])
    /\ \A k \in 0..n : r[k] \in Counts

\* Counts are added one by one.
LEMMA PlusIs ==
    ASSUME NEW a \in Counts, NEW b \in Counts
    PROVE  Push!Plus(a, b) \in Counts /\ \A k \in Push!Kinds : Push!Plus(a, b)[k] = a[k] + b[k]
BY DEF Counts, Push!Plus

\* Nothing, and one of a kind, are counts.
LEMMA CountsAre ==
    /\ Push!Zeros \in Counts /\ \A k \in Push!Kinds : Push!Zeros[k] = 0
    /\ \A c \in Push!Kinds : Push!One(c) \in Counts
    /\ \A c, k \in Push!Kinds : Push!One(c)[k] = IF k = c THEN 1 ELSE 0
BY DEF Counts, Push!Zeros, Push!One

\* Queued is computed in as many steps as there are events.
LEMMA QueuedTrace ==
    ASSUME NEW n \in Nat, NEW s \in [1..n -> Counts]
    PROVE  \E r : QueuedSteps(r, n, s)
<1> DEFINE O == [p \in Counts \X Counts |-> Push!Plus(p[1], p[2])]
           It(g) == g = [t \in SUBSET (1..n) |->
                     IF t = {} THEN Push!Zeros ELSE Push!Plus(g[t \ {Max(t)}], s[Max(t)])]
           F == CHOOSE g : It(g)
<1>0. \A t : Push!Max(t) = Max(t)
    BY Zenon DEF Push!Max, Max
<1>1. O \in [Counts \X Counts -> Counts]
    BY PlusIs
<1>2. Push!Zeros \in Counts /\ s \in [1..n -> Counts]
    BY CountsAre
<1>3. PICK g : IsFold(g, Counts, O, Push!Zeros, n, s)
  <2> HIDE DEF O
  <2> QED
    BY <1>1, <1>2, FoldExists
<1>4. It(g)
  <2>1. ASSUME NEW t \in SUBSET (1..n), t # {}
        PROVE  g[t] = Push!Plus(g[t \ {Max(t)}], s[Max(t)])
    <3>1. g[t \ {Max(t)}] \in Counts /\ s[Max(t)] \in Counts
      <4>1. t \ {Max(t)} \in SUBSET (1..n)
        OBVIOUS
      <4>2. Max(t) \in 1..n
        BY <2>1, MaxIn
      <4> QED
        BY <1>3, <4>1, <4>2 DEF IsFold
    <3>2. O[<<g[t \ {Max(t)}], s[Max(t)]>>] = Push!Plus(g[t \ {Max(t)}], s[Max(t)])
      BY <3>1
    <3>3. g[t] = O[<<g[t \ {Max(t)}], s[Max(t)]>>]
      <4> HIDE DEF O
      <4> QED
        BY <1>3, <2>1 DEF IsFold
    <3> QED
      BY <3>2, <3>3
  <2>2. g[{}] = Push!Zeros /\ DOMAIN g = SUBSET (1..n)
    BY <1>3 DEF IsFold
  <2>3. g = [t \in SUBSET (1..n) |-> g[t]]
    BY <1>3 DEF IsFold
  <2> QED
    BY <2>1, <2>2, <2>3
<1>5. It(F)
  <2> HIDE DEF It
  <2> QED
    BY <1>4
<1>6. Queued(s) = F[1..n]
  <2>1. DOMAIN s = 1..n
    OBVIOUS
  <2> QED
    BY <1>0, <2>1 DEF Queued, Push!FoldLeft, Push!MapThenFoldSet
<1> DEFINE r == [k \in 0..n |-> F[1..k]]
<1> HIDE DEF F
<1>7. r[0] = Push!Zeros
    BY <1>5, 1..0 = {}
<1>8. ASSUME NEW k \in 1..n PROVE r[k] = Push!Plus(r[k - 1], s[k])
  <2>1. 1..k # {} /\ Max(1..k) = k /\ (1..k) \ {k} = 1..(k - 1)
    <3>1. k \in Nat \ {0}
      OBVIOUS
    <3> QED
      BY <3>1, UpTo
  <2>2. 1..k \in SUBSET (1..n)
    OBVIOUS
  <2>3. F[1..k] = Push!Plus(F[1..(k - 1)], s[k])
    BY <1>5, <2>1, <2>2
  <2>4. k \in 0..n /\ k - 1 \in 0..n
    OBVIOUS
  <2>5. r[k] = F[1..k] /\ r[k - 1] = F[1..(k - 1)]
    BY <2>4
  <2> HIDE DEF r
  <2> QED
    BY <2>3, <2>5
<1>9. r[n] = F[1..n]
    OBVIOUS
<1> HIDE DEF r
<1>10. \A k \in 0..n : r[k] \in Counts
  <2>1. r[0] \in Counts
    BY <1>2, <1>7
  <2>2. \A k \in 1..n : r[k - 1] \in Counts => r[k] \in Counts
    BY <1>2, <1>8, PlusIs
  <2> QED
    BY <2>1, <2>2, TraceTyped
<1> QED
    BY <1>6, <1>7, <1>8, <1>9, <1>10 DEF QueuedSteps

\* An event at the end of the queue adds what it counts.
LEMMA QueuedAppend ==
    ASSUME NEW s \in Seq(Counts), NEW e \in Counts
    PROVE  /\ Queued(s) \in Counts
           /\ Queued(Append(s, e)) = Push!Plus(Queued(s), e)
<1> DEFINE n == Len(s)
           t == Append(s, e)
<1>1. n \in Nat /\ s \in [1..n -> Counts] /\ t \in [1..(n + 1) -> Counts] /\ n + 1 \in Nat
  <2>1. t \in Seq(Counts) /\ Len(t) = Len(s) + 1 /\ Len(s) \in Nat
    OBVIOUS
  <2> HIDE DEF t
  <2> QED
    BY <2>1
<1>2. t[n + 1] = e /\ \A k \in 1..n : t[k] = s[k]
    OBVIOUS
<1> HIDE DEF n, t
<1>3. PICK q : QueuedSteps(q, n, s)
    BY <1>1, QueuedTrace
<1>4. PICK r : QueuedSteps(r, n + 1, t)
    BY <1>1, QueuedTrace
<1> DEFINE G == {k \in Nat : k <= n => q[k] = r[k]}
<1>5. 0 \in G
    BY <1>3, <1>4 DEF QueuedSteps
<1>6. ASSUME NEW k \in G PROVE k + 1 \in G
  <2>1. SUFFICES ASSUME k + 1 <= n PROVE q[k + 1] = r[k + 1]
    BY <1>6
  <2>2. k + 1 \in 1..n /\ k + 1 \in 1..(n + 1) /\ (k + 1) - 1 = k /\ q[k] = r[k]
    BY <1>1, <1>6, <2>1
  <2>3. q[k + 1] = Push!Plus(q[k], s[k + 1]) /\ r[k + 1] = Push!Plus(r[k], t[k + 1])
    BY <1>3, <1>4, <2>2 DEF QueuedSteps
  <2> QED
    BY <1>2, <2>2, <2>3
<1>7. n \in G
  <2>1. G \in SUBSET Nat
    OBVIOUS
  <2> HIDE DEF G
  <2> QED
    BY <1>1, <1>5, <1>6, <2>1, Induct
<1>8. q[n] = r[n]
    BY <1>1, <1>7
<1>9. r[n + 1] = Push!Plus(r[n], e)
  <2>1. n + 1 \in 1..(n + 1) /\ (n + 1) - 1 = n
    BY <1>1
  <2> QED
    BY <1>2, <1>4, <2>1 DEF QueuedSteps
<1>10. Queued(s) = q[n] /\ Queued(t) = r[n + 1] /\ q[n] \in Counts
  <2>1. n \in 0..n
    BY <1>1
  <2> QED
    BY <1>3, <1>4, <2>1 DEF QueuedSteps
<1> QED
    BY <1>8, <1>9, <1>10 DEF t

\* The oldest event takes away what it counts.
LEMMA QueuedTail ==
    ASSUME NEW s \in Seq(Counts), s # <<>>
    PROVE  /\ Queued(Tail(s)) \in Counts /\ Head(s) \in Counts
           /\ \A c \in Push!Kinds : Queued(s)[c] = Head(s)[c] + Queued(Tail(s))[c]
<1> DEFINE n == Len(s) - 1
           t == Tail(s)
<1>1. n \in Nat /\ s \in [1..(n + 1) -> Counts] /\ t \in [1..n -> Counts] /\ n + 1 \in Nat
  <2>1. t \in Seq(Counts) /\ Len(t) = Len(s) - 1 /\ Len(s) \in Nat \ {0}
    OBVIOUS
  <2>2. n \in Nat /\ n + 1 = Len(s) /\ Len(t) = n
    BY <2>1
  <2> HIDE DEF t, n
  <2> QED
    BY <2>1, <2>2
<1>2. s[1] = Head(s) /\ Head(s) \in Counts /\ \A k \in 1..n : t[k] = s[k + 1]
    OBVIOUS
<1> HIDE DEF n, t
<1>3. PICK q : QueuedSteps(q, n, t)
    BY <1>1, QueuedTrace
<1>4. PICK r : QueuedSteps(r, n + 1, s)
    BY <1>1, QueuedTrace
<1> DEFINE G == {k \in Nat : k <= n => \A c \in Push!Kinds : r[k + 1][c] = Head(s)[c] + q[k][c]}
<1>5. 0 \in G
  <2>1. r[1] = Push!Plus(r[0], s[1]) /\ r[0] = Push!Zeros /\ q[0] = Push!Zeros
    <3>1. 1 \in 1..(n + 1) /\ 1 - 1 = 0
      BY <1>1
    <3> QED
      BY <1>3, <1>4, <3>1 DEF QueuedSteps
  <2>2. \A c \in Push!Kinds : r[1][c] = 0 + Head(s)[c] /\ q[0][c] = 0
    BY <1>2, <2>1, PlusIs, CountsAre
  <2>3. \A c \in Push!Kinds : r[0 + 1][c] = Head(s)[c] + q[0][c]
    <3>1. \A c \in Push!Kinds : Head(s)[c] \in Nat
      BY <1>2 DEF Counts
    <3> QED
      BY <2>2, <3>1
  <2> QED
    BY <2>3
<1>6. ASSUME NEW k \in G PROVE k + 1 \in G
  <2>1. SUFFICES ASSUME k + 1 <= n, NEW c \in Push!Kinds
                 PROVE  r[(k + 1) + 1][c] = Head(s)[c] + q[k + 1][c]
    BY <1>6
  <2>2. /\ k + 1 \in 1..n /\ (k + 1) + 1 \in 1..(n + 1) /\ (k + 1) - 1 = k /\ ((k + 1) + 1) - 1 = k + 1
        /\ k \in 0..n /\ k + 1 \in 0..(n + 1) /\ k <= n
    BY <1>1, <1>6, <2>1
  <2>3. q[k + 1] = Push!Plus(q[k], t[k + 1]) /\ r[(k + 1) + 1] = Push!Plus(r[k + 1], s[(k + 1) + 1])
    BY <1>3, <1>4, <2>2 DEF QueuedSteps
  <2>4. q[k] \in Counts /\ r[k + 1] \in Counts /\ s[(k + 1) + 1] \in Counts /\ t[k + 1] = s[(k + 1) + 1]
    BY <1>1, <1>2, <1>3, <1>4, <2>2 DEF QueuedSteps
  <2>5. /\ q[k + 1][c] = q[k][c] + s[(k + 1) + 1][c]
        /\ r[(k + 1) + 1][c] = r[k + 1][c] + s[(k + 1) + 1][c]
    BY <2>3, <2>4, PlusIs
  <2>6. r[k + 1][c] = Head(s)[c] + q[k][c]
    BY <1>6, <2>2
  <2>7. {Head(s)[c], q[k][c], s[(k + 1) + 1][c]} \subseteq Nat
    BY <1>2, <2>4 DEF Counts
  <2> QED
    BY <2>5, <2>6, <2>7
<1>7. n \in G
  <2>1. G \in SUBSET Nat
    OBVIOUS
  <2> HIDE DEF G
  <2> QED
    BY <1>1, <1>5, <1>6, <2>1, Induct
<1>8. \A c \in Push!Kinds : r[n + 1][c] = Head(s)[c] + q[n][c]
    BY <1>1, <1>7
<1>9. Queued(t) = q[n] /\ Queued(s) = r[n + 1] /\ q[n] \in Counts
  <2>1. n \in 0..n
    BY <1>1
  <2> QED
    BY <1>3, <1>4, <2>1 DEF QueuedSteps
<1> QED
    BY <1>2, <1>8, <1>9 DEF t

(* What the gauges saw is no more than what was counted, so that the next  *)
(* tick reports a number.                                                  *)
BusInv ==
    /\ Push!TypeOK
    /\ \A k \in Push!Kinds : last[k] <= count[k]
    /\ Push!ReportsAddUp

\* What is reported of a kind, by its parts.
Sent(k) == Queued(ch)[k] + pushed[k] + lost[k]

\* The types of BusInv, and the parts of a report.
LEMMA BusTyped ==
    ASSUME Push!TypeOK
    PROVE  /\ ch \in Seq(Counts) /\ {count, last, prometheus, pushed, lost} \subseteq Counts
           /\ Queued(ch) \in Counts
           /\ \A k \in Push!Kinds : Push!Reported[k] = Sent(k) /\ Sent(k) \in Nat
<1>1. ch \in Seq(Counts) /\ {count, last, prometheus, pushed, lost} \subseteq Counts
    BY DEF Push!TypeOK, Counts
<1>2. Queued(ch) \in Counts
    BY <1>1, CountsAre, QueuedAppend
<1>3. Push!Reported = Push!Plus(Push!Plus(Queued(ch), pushed), lost)
    BY DEF Push!Reported, Queued
<1>4. \A k \in Push!Kinds : Push!Reported[k] = Sent(k)
    BY <1>1, <1>2, <1>3, PlusIs DEF Sent
<1>5. \A k \in Push!Kinds : Sent(k) \in Nat
    BY <1>1, <1>2 DEF Sent, Counts
<1> QED
    BY <1>1, <1>2, <1>4, <1>5

\* An event is in the channel or it is lost: either way it counts as sent.
LEMMA EmitSends ==
    ASSUME Push!TypeOK, NEW e \in Counts, Push!Emit(e), pushed' = pushed
    PROVE  /\ ch' \in Seq(Counts) /\ Len(ch') <= BufSize /\ lost' \in Counts
           /\ \A k \in Push!Kinds : Sent(k)' = Sent(k) + e[k]
<1>0. /\ ch \in Seq(Counts) /\ {pushed, lost, Queued(ch)} \subseteq Counts
      /\ Len(ch) <= BufSize /\ BufSize \in Nat
    BY BusTyped, BusAssumption DEF Push!TypeOK
<1>1. CASE Len(ch) < BufSize /\ ch' = Append(ch, e) /\ UNCHANGED lost
    <2>1. ch' \in Seq(Counts) /\ Len(ch') = Len(ch) + 1 /\ Len(ch) \in Nat
        BY <1>0, <1>1
    <2>2. Queued(ch') = Push!Plus(Queued(ch), e)
        BY <1>0, <1>1, QueuedAppend
    <2>3. \A k \in Push!Kinds : Queued(ch')[k] = Queued(ch)[k] + e[k]
        BY <1>0, <2>2, PlusIs
    <2>4. \A k \in Push!Kinds : {Queued(ch)[k], pushed[k], lost[k], e[k]} \subseteq Nat
        BY <1>0 DEF Counts
    <2> QED
        BY <1>0, <1>1, <2>1, <2>3, <2>4 DEF Sent
<1>2. CASE Len(ch) >= BufSize /\ lost' = Push!Plus(lost, e) /\ UNCHANGED ch
    <2>1. lost' \in Counts /\ \A k \in Push!Kinds : lost'[k] = lost[k] + e[k]
        BY <1>0, <1>2, PlusIs
    <2>2. \A k \in Push!Kinds : {Queued(ch)[k], pushed[k], lost[k], e[k]} \subseteq Nat
        BY <1>0 DEF Counts
    <2> QED
        BY <1>0, <1>2, <2>1, <2>2 DEF Sent
<1> QED
    BY <1>1, <1>2 DEF Push!Emit

\* The report of every kind, in one equation.
AddsUp(k) ==
    /\ k = "requests" => prometheus[k] = Sent(k) + open + silent
    /\ k \in Counters => /\ count[k] = Sent(k) + (count[k] - last[k])
                         /\ prometheus[k] = IF k \in Polled THEN Sent(k) ELSE count[k] + IF k \in half THEN 1 ELSE 0

AllAddUp == \A k \in Push!Kinds : AddsUp(k)

\* ReportsAddUp, kind by kind.
LEMMA ByKind == Push!TypeOK => (Push!ReportsAddUp <=> AllAddUp)
<1> SUFFICES ASSUME Push!TypeOK PROVE Push!ReportsAddUp <=> AllAddUp
    OBVIOUS
<1>1. \A k \in Push!Kinds : Push!Reported[k] = Sent(k)
    BY BusTyped
<1>2. "requests" \in Push!Kinds /\ Counters \subseteq Push!Kinds
      /\ \A k \in Push!Kinds : k = "requests" \/ k \in Counters
    BY DEF Push!Kinds
<1>3. \A c \in Counters : Push!Grown[c] = count[c] - last[c]
    BY <1>2 DEF Push!Grown
<1> QED
    BY <1>1, <1>2, <1>3 DEF Push!ReportsAddUp, AllAddUp, AddsUp

\* The invariant of the bus holds at the start.
LEMMA BusStarts == Push!Init => BusInv
<1> SUFFICES ASSUME Push!Init PROVE BusInv
    OBVIOUS
<1>1. Push!Zeros \in Counts /\ \A k \in Push!Kinds : Push!Zeros[k] = 0
    BY CountsAre
<1>2. Push!TypeOK
    BY <1>1, BusAssumption DEF Push!Init, Push!TypeOK, Counts
<1>3. Queued(<<>>) = Push!Zeros
    <2>1. PICK s : s = <<>>
        OBVIOUS
    <2>2. s \in [1..0 -> Counts] /\ 0 \in Nat
        BY <2>1
    <2>3. PICK r : QueuedSteps(r, 0, s)
        BY <2>2, QueuedTrace
    <2> QED
        BY <2>1, <2>3 DEF QueuedSteps
<1>4. \A k \in Push!Kinds : Sent(k) = 0
    BY <1>1, <1>3 DEF Sent, Push!Init
<1>5. AllAddUp
    BY <1>1, <1>4 DEF AllAddUp, AddsUp, Push!Init
<1>6. \A k \in Push!Kinds : last[k] <= count[k]
    BY <1>1 DEF Push!Init
<1> QED
    BY <1>2, <1>5, <1>6, ByKind DEF BusInv

\* Every step keeps the types of the bus and what the gauges saw.
BusShape == Push!TypeOK /\ \A k \in Push!Kinds : last[k] <= count[k]

\* What the steps of the bus read is a number.
LEMMA BusNumbers ==
    ASSUME BusShape
    PROVE  /\ \A k \in Push!Kinds : {count[k], last[k], prometheus[k], pushed[k], lost[k], Sent(k)} \subseteq Nat
           /\ open \in Nat /\ silent \in Nat /\ "requests" \in Push!Kinds /\ Counters \subseteq Push!Kinds
           /\ "requests" \notin Counters /\ Polled \subseteq Counters
           /\ Push!Grown \in Counts /\ Push!Seen \in Counts
           /\ \A k \in Push!Kinds : /\ Push!Grown[k] = IF k \in Counters THEN count[k] - last[k] ELSE 0
                                    /\ Push!Seen[k] = IF k \in Polled THEN count[k] - last[k] ELSE 0
<1>1. {count, last, prometheus, pushed, lost} \subseteq Counts /\ \A k \in Push!Kinds : Sent(k) \in Nat
    BY BusTyped DEF BusShape
<1>2. \A k \in Push!Kinds : {count[k], last[k], prometheus[k], pushed[k], lost[k], Sent(k)} \subseteq Nat
    BY <1>1 DEF Counts
<1>3. \A k \in Push!Kinds : count[k] - last[k] \in Nat
    BY <1>2 DEF BusShape
<1>4. Counters \subseteq Push!Kinds /\ "requests" \in Push!Kinds
    BY DEF Push!Kinds
<1>5. "requests" \notin Counters /\ Polled \subseteq Counters
    BY BusAssumption
<1>6. \A k \in Push!Kinds : /\ Push!Grown[k] = IF k \in Counters THEN count[k] - last[k] ELSE 0
                            /\ Push!Seen[k] = IF k \in Polled THEN count[k] - last[k] ELSE 0
    BY <1>4, <1>5 DEF Push!Grown, Push!Seen
<1>7. Push!Grown \in Counts /\ Push!Seen \in Counts
    BY <1>3, <1>4, <1>5, <1>6 DEF Push!Grown, Push!Seen, Counts
<1> QED
    BY <1>2, <1>4, <1>5, <1>6, <1>7 DEF BusShape, Push!TypeOK

\* The types after a step, from those of what it changes.
LEMMA BusShaped ==
    ASSUME ch' \in Seq(Counts), Len(ch') <= BufSize, open' \in Nat, silent' \in Nat, half' \subseteq Counters \ Polled,
           {count', last', prometheus', pushed', lost'} \subseteq Counts
    PROVE  Push!TypeOK'
BY DEF Push!TypeOK, Counts

\* Every step of the bus keeps the types and the equations.
LEMMA BusAdds ==
    ASSUME BusShape, AllAddUp, [Push!Next]_(Push!vars)
    PROVE  BusShape' /\ AllAddUp'
<1>0. /\ \A k \in Push!Kinds : {count[k], last[k], prometheus[k], pushed[k], lost[k], Sent(k)} \subseteq Nat
      /\ open \in Nat /\ silent \in Nat /\ "requests" \in Push!Kinds /\ Counters \subseteq Push!Kinds
      /\ "requests" \notin Counters /\ Polled \subseteq Counters
    BY BusNumbers
<1>00. /\ ch \in Seq(Counts) /\ Len(ch) <= BufSize /\ {count, last, prometheus, pushed, lost} \subseteq Counts
       /\ Queued(ch) \in Counts /\ half \subseteq Counters \ Polled
       /\ \A k \in Push!Kinds : last[k] <= count[k]
    BY BusTyped DEF BusShape, Push!TypeOK
<1>1. ASSUME NEW c \in Polled \cup half, count' = [count EXCEPT ![c] = @ + 1], half' = half \ {c},
             UNCHANGED <<ch, last, prometheus, pushed, open, ticks, requests, lost, silent>>
      PROVE  BusShape' /\ AllAddUp'
    <2>1. /\ count' \in Counts
          /\ \A k \in Push!Kinds : count'[k] = count[k] + IF k = c THEN 1 ELSE 0
        <3>1. c \in Push!Kinds /\ count \in [Push!Kinds -> Nat]
            BY <1>0, <1>00, <1>1 DEF Counts
        <3>2. count' \in [Push!Kinds -> Nat]
            BY <1>1, <3>1
        <3>3. \A k \in Push!Kinds : count'[k] = IF k = c THEN count[k] + 1 ELSE count[k]
            BY <1>1, <3>1
        <3> QED
            BY <1>0, <3>2, <3>3 DEF Counts
    <2>4. \A k \in Push!Kinds : Sent(k)' = Sent(k)
        BY <1>1 DEF Sent
    <2>5. BusShape'
        <3>1. \A k \in Push!Kinds : last'[k] <= count'[k]
            BY <1>0, <1>00, <1>1, <2>1
        <3>2. Push!TypeOK'
            BY <1>0, <1>00, <1>1, <2>1, BusShaped
        <3> QED
            BY <3>1, <3>2 DEF BusShape
    <2>6. ASSUME NEW k \in Push!Kinds PROVE AddsUp(k)'
        <3>1. /\ count'[k] = count[k] + (IF k = c THEN 1 ELSE 0) /\ Sent(k)' = Sent(k)
              /\ prometheus'[k] = prometheus[k] /\ last'[k] = last[k]
            BY <1>1, <2>1, <2>4
        <3>2. /\ k \in half' <=> k \in half /\ k # c
              /\ k = c => k \in Polled \/ k \in half
              /\ k \in half => k \notin Polled
            BY <1>00, <1>1
        <3> QED
            BY <1>0, <1>1, <3>1, <3>2 DEF AllAddUp, AddsUp
    <2> QED
        BY <2>5, <2>6 DEF AllAddUp
<1>8. CASE Push!Scrape
    <2>1. PICK c \in Counters \ (Polled \cup half) :
              /\ half' = half \cup {c} /\ prometheus' = Push!Plus(prometheus, Push!One(c))
              /\ UNCHANGED <<ch, count, last, pushed, open, lost, silent>>
        BY <1>8 DEF Push!Scrape
    <2>2. Push!One(c) \in Counts /\ \A k \in Push!Kinds : Push!One(c)[k] = IF k = c THEN 1 ELSE 0
        BY <1>0, CountsAre
    <2>3. /\ prometheus' \in Counts
          /\ \A k \in Push!Kinds : prometheus'[k] = prometheus[k] + IF k = c THEN 1 ELSE 0
        BY <1>00, <2>1, <2>2, PlusIs
    <2>4. \A k \in Push!Kinds : Sent(k)' = Sent(k)
        BY <2>1 DEF Sent
    <2>5. BusShape'
        <3>1. half' \subseteq Counters \ Polled
            BY <1>00, <2>1
        <3>2. Push!TypeOK'
            BY <1>0, <1>00, <2>1, <2>3, <3>1, BusShaped
        <3> QED
            BY <1>00, <2>1, <3>2 DEF BusShape
    <2>6. ASSUME NEW k \in Push!Kinds PROVE AddsUp(k)'
        <3>1. /\ count'[k] = count[k] /\ last'[k] = last[k] /\ Sent(k)' = Sent(k)
              /\ prometheus'[k] = prometheus[k] + (IF k = c THEN 1 ELSE 0)
            BY <2>1, <2>3, <2>4
        <3>2. /\ k \in half' <=> k \in half \/ k = c
              /\ k = c => k \notin Polled /\ k \notin half /\ k # "requests"
            BY <1>0, <2>1
        <3> QED
            BY <1>0, <2>1, <3>1, <3>2 DEF AllAddUp, AddsUp
    <2> QED
        BY <2>5, <2>6 DEF AllAddUp
<1>2. CASE Push!Request
    <2>1. /\ open' = open + 1 /\ prometheus' = Push!Plus(prometheus, Push!One("requests"))
          /\ UNCHANGED <<ch, count, last, pushed, lost, silent, half>>
        BY <1>2 DEF Push!Request
    <2>2. /\ prometheus' \in Counts
          /\ \A k \in Push!Kinds : prometheus'[k] = prometheus[k] + IF k = "requests" THEN 1 ELSE 0
        BY <1>0, <1>00, <2>1, CountsAre, PlusIs
    <2>3. \A k \in Push!Kinds : Sent(k)' = Sent(k)
        BY <2>1 DEF Sent
    <2>4. BusShape'
        <3>1. Push!TypeOK'
            BY <1>0, <1>00, <2>1, <2>2, BusShaped
        <3> QED
            BY <1>00, <2>1, <3>1 DEF BusShape
    <2>5. ASSUME NEW k \in Push!Kinds PROVE AddsUp(k)'
        BY <1>0, <2>1, <2>2, <2>3, <2>5 DEF AllAddUp, AddsUp
    <2> QED
        BY <2>4, <2>5 DEF AllAddUp
<1>3. CASE Push!Served
    <2>1. open > 0 /\ open' = open - 1 /\ UNCHANGED <<count, last, prometheus, pushed, silent, half>>
          /\ Push!Emit(Push!One("requests"))
        BY <1>3 DEF Push!Served
    <2>2. /\ Push!One("requests") \in Counts
          /\ \A k \in Push!Kinds : Push!One("requests")[k] = IF k = "requests" THEN 1 ELSE 0
        BY <1>0, CountsAre
    <2>3. /\ ch' \in Seq(Counts) /\ Len(ch') <= BufSize /\ lost' \in Counts
          /\ \A k \in Push!Kinds : Sent(k)' = Sent(k) + Push!One("requests")[k]
        BY <2>1, <2>2, EmitSends DEF BusShape
    <2>4. BusShape'
        <3>1. open' \in Nat
            BY <1>0, <2>1
        <3>2. Push!TypeOK'
            BY <1>0, <1>00, <2>1, <2>3, <3>1, BusShaped
        <3> QED
            BY <1>00, <2>1, <3>2 DEF BusShape
    <2>5. ASSUME NEW k \in Push!Kinds PROVE AddsUp(k)'
        <3>1. Sent(k)' = Sent(k) + IF k = "requests" THEN 1 ELSE 0
            BY <2>2, <2>3
        <3> QED
            BY <1>0, <2>1, <3>1 DEF AllAddUp, AddsUp
    <2> QED
        BY <2>4, <2>5 DEF AllAddUp
<1>4. CASE Push!ServedSilently
    <2>1. /\ open > 0 /\ open' = open - 1 /\ silent' = silent + 1
          /\ UNCHANGED <<ch, count, last, prometheus, pushed, lost, half>>
        BY <1>4 DEF Push!ServedSilently
    <2>2. \A k \in Push!Kinds : Sent(k)' = Sent(k)
        BY <2>1 DEF Sent
    <2>3. BusShape'
        <3>1. Push!TypeOK'
            BY <1>0, <1>00, <2>1, BusShaped
        <3> QED
            BY <1>00, <2>1, <3>1 DEF BusShape
    <2>4. ASSUME NEW k \in Push!Kinds PROVE AddsUp(k)'
        BY <1>0, <2>1, <2>2, <2>4 DEF AllAddUp, AddsUp
    <2> QED
        BY <2>3, <2>4 DEF AllAddUp
<1>5. CASE Push!Tick
    <2>1. /\ prometheus' = Push!Plus(prometheus, Push!Seen) /\ Push!Emit(Push!Grown)
          /\ last' = Push!Plus(last, Push!Grown) /\ UNCHANGED <<count, pushed, open, silent, half>>
        BY <1>5 DEF Push!Tick, Push!Ticking
    <2>2. /\ Push!Grown \in Counts /\ Push!Seen \in Counts
          /\ \A k \in Push!Kinds : /\ Push!Grown[k] = IF k \in Counters THEN count[k] - last[k] ELSE 0
                                   /\ Push!Seen[k] = IF k \in Polled THEN count[k] - last[k] ELSE 0
        BY BusNumbers
    <2>3. /\ prometheus' \in Counts /\ last' \in Counts
          /\ \A k \in Push!Kinds : /\ prometheus'[k] = prometheus[k] + Push!Seen[k]
                                   /\ last'[k] = last[k] + Push!Grown[k]
        BY <1>00, <2>1, <2>2, PlusIs
    <2>4. /\ ch' \in Seq(Counts) /\ Len(ch') <= BufSize /\ lost' \in Counts
          /\ \A k \in Push!Kinds : Sent(k)' = Sent(k) + Push!Grown[k]
        BY <2>1, <2>2, EmitSends DEF BusShape
    <2>5. BusShape'
        <3>1. \A k \in Push!Kinds : last'[k] <= count'[k]
            BY <1>0, <1>00, <2>1, <2>2, <2>3
        <3>2. Push!TypeOK'
            BY <1>0, <1>00, <2>1, <2>3, <2>4, BusShaped
        <3> QED
            BY <3>1, <3>2 DEF BusShape
    <2>6. ASSUME NEW k \in Push!Kinds PROVE AddsUp(k)'
        <3>1. /\ Sent(k)' = Sent(k) + IF k \in Counters THEN count[k] - last[k] ELSE 0
              /\ prometheus'[k] = prometheus[k] + IF k \in Polled THEN count[k] - last[k] ELSE 0
              /\ last'[k] = last[k] + IF k \in Counters THEN count[k] - last[k] ELSE 0
            BY <2>2, <2>3, <2>4
        <3> QED
            BY <1>0, <2>1, <3>1 DEF AllAddUp, AddsUp
    <2> QED
        BY <2>5, <2>6 DEF AllAddUp
<1>6. CASE Push!Drain
    <2>1. /\ ch # <<>> /\ ch' = Tail(ch) /\ pushed' = Push!Plus(pushed, Head(ch))
          /\ UNCHANGED <<count, last, prometheus, open, lost, silent, half>>
        BY <1>6 DEF Push!Drain, Push!OnEvent
    <2>2. /\ Queued(ch') \in Counts /\ Head(ch) \in Counts
          /\ \A k \in Push!Kinds : Queued(ch)[k] = Head(ch)[k] + Queued(ch')[k]
        BY <1>00, <2>1, QueuedTail
    <2>3. pushed' \in Counts /\ \A k \in Push!Kinds : pushed'[k] = pushed[k] + Head(ch)[k]
        BY <1>00, <2>1, <2>2, PlusIs
    <2>4. \A k \in Push!Kinds : Sent(k)' = Sent(k)
        <3>1. \A k \in Push!Kinds : {Queued(ch')[k], Head(ch)[k], pushed[k], lost[k]} \subseteq Nat
            BY <1>00, <2>2 DEF Counts
        <3> QED
            BY <2>1, <2>2, <2>3, <3>1 DEF Sent
    <2>5. BusShape'
        <3>1. ch' \in Seq(Counts) /\ Len(ch') <= BufSize
            BY <1>00, <2>1, BusAssumption
        <3>2. Push!TypeOK'
            BY <1>0, <1>00, <2>1, <2>3, <3>1, BusShaped
        <3> QED
            BY <1>00, <2>1, <3>2 DEF BusShape
    <2>6. ASSUME NEW k \in Push!Kinds PROVE AddsUp(k)'
        BY <1>0, <2>1, <2>4, <2>6 DEF AllAddUp, AddsUp
    <2> QED
        BY <2>5, <2>6 DEF AllAddUp
<1>7. CASE UNCHANGED Push!vars
    BY <1>7 DEF Push!vars, BusShape, Push!TypeOK, AllAddUp, AddsUp, Sent
<1> QED
    BY <1>1, <1>2, <1>3, <1>4, <1>5, <1>6, <1>7, <1>8 DEF Push!Next, Push!Grow

\* The bus keeps its shape and its numbers.
LEMMA BusKeeps == BusInv /\ [Push!Next]_(Push!vars) => BusInv'
<1>1. BusInv => BusShape /\ AllAddUp
    BY ByKind DEF BusInv, BusShape
<1>2. BusShape /\ AllAddUp /\ [Push!Next]_(Push!vars) => BusShape' /\ AllAddUp'
    BY BusAdds
<1>3. BusShape /\ AllAddUp => BusInv
    BY ByKind DEF BusInv, BusShape
<1> QED
    BY <1>1, <1>2, <1>3, PTL

\* Both reports of a metric add up: what is scraped is what the sink was given, what is
\* in the channel, what was dropped at a full channel and what the next tick will see,
\* and the requests that are open or ended without an event besides (telemetry/bus.go:
\* Emit and drain, main.go: the gauges).
THEOREM MetricsAddUp == Push!Spec => []ReportsAddUp
<1>1. Push!Init => BusInv
    BY BusStarts
<1>2. BusInv /\ [Push!Next]_(Push!vars) => BusInv'
    BY BusKeeps
<1>3. BusInv => ReportsAddUp
    BY DEF BusInv, ReportsAddUp, In
<1> QED
    BY <1>1, <1>2, <1>3, PTL DEF Push!Spec

-----------------------------------------------------------------------------
(* The recommender. *)

\* The cardinalities of the recommender are those of finite sets.
LEMMA RecommendCounts == \A S : Recommend!Cardinality(S) = Cardinality(S)
BY DEF Recommend!Cardinality, Cardinality

\* The batch that stays of what a cycle found has one finding of each name, which outranks
\* none of that name.
LEMMA BatchHolds ==
    ASSUME NEW all, NEW batch \in Recommend!Lasting(all)
    PROVE  /\ batch \subseteq all
           /\ \A c \in all : \E b \in batch : Recommend!NameOf(b) = Recommend!NameOf(c)
           /\ \A n \in {Recommend!NameOf(c) : c \in batch} :
                 LET c == CHOOSE b \in batch : Recommend!NameOf(b) = n IN
                 /\ c \in batch /\ Recommend!NameOf(c) = n
                 /\ \A a \in all : Recommend!NameOf(a) = n => ~Recommend!Outranks(c, a)
BY DEF Recommend!Lasting

\* Rows of the table are counted by numbers.
LEMMA RowsCount ==
    ASSUME NEW s \in Seq(Requests), NEW S \in SUBSET (1..Len(s))
    PROVE  Cardinality(S) \in Nat
<1>1. IsFiniteSet(1..Len(s))
    BY FS_Interval
<1> QED
    BY <1>1, FS_Subset, FS_CardinalityType

\* A group of samples makes a suggestion.
LEMMA CandidateIs ==
    ASSUME events \in Seq(Requests), NEW s \in SUBSET (1..Len(events)), NEW g \in Recommend!Groups(s), NEW clean \in Nat
    PROVE  /\ Recommend!Candidate(g, s, clean) \in Recommend!Suggestion
           /\ g = <<g[1], g[2]>>
<1>1. PICK p \in Recommend!Analyzers \X s : g = <<p[1], Recommend!Key(p[1], events[p[2]])>>
    BY DEF Recommend!Groups
<1>2. p[1] \in Recommend!Analyzers /\ events[p[2]] \in Requests
  <2>1. p[1] \in Recommend!Analyzers /\ p[2] \in 1..Len(events)
      BY <1>1
  <2>2. \A i \in 1..Len(events) : events[i] \in Requests
      OBVIOUS
  <2> QED
      BY <2>1, <2>2
<1>3. g[1] \in Recommend!Analyzers
      /\ g[2] \in {Recommend!Key(x[1], x[2]) : x \in Recommend!Analyzers \X Requests}
  <2> DEFINE x == <<p[1], events[p[2]]>>
  <2>1. x \in Recommend!Analyzers \X Requests /\ x[1] = p[1] /\ x[2] = events[p[2]]
      BY <1>2
  <2>2. g[1] = p[1] /\ g[2] = Recommend!Key(x[1], x[2])
      BY <1>1, <2>1
  <2> HIDE DEF x
  <2> QED
      BY <1>2, <2>1, <2>2
<1> DEFINE mine == {i \in s : Recommend!Key(g[1], events[i]) = g[2]}
           bad == {i \in mine : Recommend!Tarpitted(events[i])}
           good == {i \in mine : ~Recommend!Tarpitted(events[i]) /\ Recommend!Clean(events[i])}
<1>4. bad \subseteq s /\ good \subseteq s
    OBVIOUS
<1>5. Cardinality(bad) \in Nat /\ Cardinality(good) \in Nat
    BY <1>4, RowsCount
<1>6. Recommend!Candidate(g, s, clean) =
        [az |-> g[1], key |-> g[2], support |-> Cardinality(bad), good |-> Cardinality(good),
         clean |-> IF clean > 0 THEN clean ELSE 1]
    BY RecommendCounts DEF Recommend!Candidate
<1> HIDE DEF bad, good
<1>7. Recommend!Candidate(g, s, clean) \in Recommend!Suggestion
    BY <1>3, <1>5, <1>6 DEF Recommend!Suggestion
<1> QED
    BY <1>1, <1>7

(* A finding that passed the filter and is backed by rows; a batch whose   *)
(* findings are served; the clean events that a cycle counted.             *)
Sound(c) == Recommend!Accepted(c) /\ Recommend!Backed(c)
Served(batch) ==
    \A c \in batch : /\ Recommend!NameOf(c) \in DOMAIN table /\ table[Recommend!NameOf(c)] \in batch
                     /\ ~Recommend!Outranks(table[Recommend!NameOf(c)], c)
CleanTotal(clean) == \E from \in 1..first, mid \in 0..Len(events) : clean = Recommend!CountClean(from..mid)

(* A cycle is told by where it is, the clean events it counted and what it *)
(* found, which is sound before it is stored and served once it was.       *)
CycleInv ==
    /\ Recommend!TypeOK
    /\ job \in [at : {"idle", "sample", "store", "write"}, clean : Nat, found : SUBSET Recommend!Suggestion]
Findings ==
    /\ job.at = "sample" => CleanTotal(job.clean)
    /\ job.at \in {"store", "write"} => \A c \in job.found : Sound(c)
    /\ job.at = "write" /\ ~apart => Served(job.found)
SuggestInv == CycleInv /\ Findings /\ Recommend!SuggestionsAreBacked

\* No cycle has begun at the start.
LEMMA CycleStarts == Recommend!Init => SuggestInv
<1> SUFFICES ASSUME Recommend!Init PROVE SuggestInv
    OBVIOUS
<1>1. CycleInv
  <2>1. events = <<>> /\ first = 1 /\ job = Recommend!Idle /\ DOMAIN table = {} /\ file = {} /\ apart = FALSE
      BY DEF Recommend!Init
  <2>2. job \in [at : {"idle", "sample", "store", "write"}, clean : Nat, found : SUBSET Recommend!Suggestion]
      BY <2>1 DEF Recommend!Idle
  <2>3. events \in Seq(Requests) /\ first \in 1..Len(events) + 1
      BY <2>1
  <2>4. apart \in BOOLEAN
      BY <2>1
  <2>5. job.at \in {"idle", "sample", "store", "write"} /\ job.found \subseteq Recommend!Suggestion
      BY <2>2
  <2> HIDE DEF Recommend!Suggestion
  <2> QED
      BY <2>1, <2>2, <2>3, <2>4, <2>5 DEF CycleInv, Recommend!TypeOK
<1>2. Findings
    BY DEF Recommend!Init, Recommend!Idle, Findings
<1>3. Recommend!SuggestionsAreBacked
    BY DEF Recommend!Init, Recommend!SuggestionsAreBacked
<1> QED
    BY <1>1, <1>2, <1>3 DEF SuggestInv

\* The window and the samples are rows of the table.
LEMMA SamplesOf ==
    ASSUME CycleInv
    PROVE  /\ Recommend!Window \in SUBSET (1..Len(events))
           /\ Recommend!QueryPathSamples \in SUBSET (1..Len(events))
BY RecommenderAssumption
   DEF CycleInv, Recommend!TypeOK, Recommend!Window, Recommend!QueryPathSamples, Recommend!Newest

\* What a cycle finds are suggestions.
LEMMA FoundIs ==
    ASSUME CycleInv, Recommend!Analyze
    PROVE  /\ job' \in [at : {"idle", "sample", "store", "write"}, clean : Nat, found : SUBSET Recommend!Suggestion]
           /\ \/ job' = Recommend!Idle
              \/ /\ job'.at = "store"
                 /\ \A c \in job'.found :
                       /\ Recommend!Accepted(c)
                       /\ c = Recommend!Candidate(<<c.az, c.key>>, Recommend!QueryPathSamples, job.clean)
<1> DEFINE s == Recommend!QueryPathSamples
           all == {c \in {Recommend!Candidate(g, s, job.clean) : g \in Recommend!Groups(s)} : Recommend!Accepted(c)}
<1>1. job \in [at : {"idle", "sample", "store", "write"}, clean : Nat, found : SUBSET Recommend!Suggestion]
      /\ events \in Seq(Requests)
    BY DEF CycleInv, Recommend!TypeOK
<1>2. all \subseteq Recommend!Suggestion
    BY <1>1, SamplesOf, CandidateIs
<1>3. \A c \in all : Recommend!Accepted(c) /\ c = Recommend!Candidate(<<c.az, c.key>>, s, job.clean)
  <2> SUFFICES ASSUME NEW c \in all PROVE c = Recommend!Candidate(<<c.az, c.key>>, s, job.clean)
      OBVIOUS
  <2>1. PICK g \in Recommend!Groups(s) : c = Recommend!Candidate(g, s, job.clean)
      OBVIOUS
  <2>2. g = <<g[1], g[2]>>
      BY <1>1, SamplesOf, CandidateIs
  <2>3. c.az = g[1] /\ c.key = g[2]
      BY <2>1 DEF Recommend!Candidate
  <2> QED
      BY <2>1, <2>2, <2>3
<1> HIDE DEF all
<1>4. PICK top \in Recommend!Best(all) :
          job' = IF top = {} THEN Recommend!Idle ELSE [job EXCEPT !.at = "store", !.found = top]
    BY DEF Recommend!Analyze, all
<1>5. top \subseteq all
    BY <1>4 DEF Recommend!Best
<1>6. job' \in [at : {"idle", "sample", "store", "write"}, clean : Nat, found : SUBSET Recommend!Suggestion]
    BY <1>1, <1>2, <1>4, <1>5 DEF Recommend!Idle
<1>7. job' = Recommend!Idle \/ (job'.at = "store" /\ job'.found = top)
    BY <1>1, <1>4
<1> QED
    BY <1>3, <1>5, <1>6, <1>7

\* What a cycle stores are the findings that stay of its batch.
LEMMA StoreServes ==
    ASSUME Recommend!Store
    PROVE  /\ \A n \in DOMAIN table' :
                 \/ table'[n] \in job.found /\ Recommend!NameOf(table'[n]) = n
                 \/ n \in DOMAIN table /\ table'[n] = table[n]
           /\ \A c \in job.found : /\ Recommend!NameOf(c) \in DOMAIN table'
                                   /\ table'[Recommend!NameOf(c)] \in job.found
                                   /\ ~Recommend!Outranks(table'[Recommend!NameOf(c)], c)
<1>1. PICK batch \in Recommend!Lasting(job.found) :
          table' = [n \in DOMAIN table \cup ({Recommend!NameOf(c) : c \in batch} \ {}) |->
                       IF n \in {Recommend!NameOf(c) : c \in batch} \ {}
                       THEN CHOOSE c \in batch : Recommend!NameOf(c) = n ELSE table[n]]
    BY DEF Recommend!Store, Recommend!Storing
<1> DEFINE new == {Recommend!NameOf(c) : c \in batch}
<1>2. /\ DOMAIN table' = DOMAIN table \cup new
      /\ \A n \in new : table'[n] = CHOOSE c \in batch : Recommend!NameOf(c) = n
      /\ \A n \in DOMAIN table \ new : table'[n] = table[n]
    BY <1>1
<1>3. /\ batch \subseteq job.found
      /\ \A n \in new : /\ table'[n] \in batch /\ Recommend!NameOf(table'[n]) = n
                        /\ \A a \in job.found : Recommend!NameOf(a) = n => ~Recommend!Outranks(table'[n], a)
      /\ \A c \in job.found : Recommend!NameOf(c) \in new
    BY <1>2, BatchHolds
<1> HIDE DEF new
<1> QED
    BY <1>2, <1>3

(* A suggestion from a table of events, and what backs it.                 *)
MineOf(evs, g, s) == {i \in s : Recommend!Key(g[1], evs[i]) = g[2]}
CandidateOf(evs, g, s, clean) ==
    [az |-> g[1], key |-> g[2],
     support |-> Recommend!Cardinality({i \in MineOf(evs, g, s) : Recommend!Tarpitted(evs[i])}),
     good |-> Recommend!Cardinality({i \in MineOf(evs, g, s) : ~Recommend!Tarpitted(evs[i]) /\ Recommend!Clean(evs[i])}),
     clean |-> IF clean > 0 THEN clean ELSE 1]
CleanOf(evs, s) == Recommend!Cardinality({i \in s : Recommend!Clean(evs[i])})
BackedBy(evs, c) ==
    \E lo \in 1..Len(evs) + 1, hi \in 0..Len(evs) :
        \E from \in 1..lo, mid \in 0..hi :
            c = CandidateOf(evs, <<c.az, c.key>>, Recommend!Newest(lo..hi, hi), CleanOf(evs, from..mid))

\* Rows that are there say the same when others come in.
LEMMA RowsStay ==
    ASSUME NEW evs \in Seq(Requests), NEW e \in Requests
    PROVE  /\ \A g, clean : \A s \in SUBSET (1..Len(evs)) :
                 CandidateOf(Append(evs, e), g, s, clean) = CandidateOf(evs, g, s, clean)
           /\ \A s \in SUBSET (1..Len(evs)) : CleanOf(Append(evs, e), s) = CleanOf(evs, s)
<1> DEFINE more == Append(evs, e)
<1>1. \A i \in 1..Len(evs) : more[i] = evs[i]
    OBVIOUS
<1> HIDE DEF more
<1>2. ASSUME NEW g, NEW clean, NEW s \in SUBSET (1..Len(evs))
      PROVE  CandidateOf(more, g, s, clean) = CandidateOf(evs, g, s, clean)
  <2>1. MineOf(more, g, s) = MineOf(evs, g, s) /\ MineOf(evs, g, s) \subseteq 1..Len(evs)
      BY <1>1 DEF MineOf
  <2> DEFINE m == MineOf(evs, g, s)
  <2> HIDE DEF m
  <2>2. {i \in m : Recommend!Tarpitted(more[i])} = {i \in m : Recommend!Tarpitted(evs[i])}
      BY <1>1, <2>1 DEF m
  <2>3. {i \in m : ~Recommend!Tarpitted(more[i]) /\ Recommend!Clean(more[i])} =
        {i \in m : ~Recommend!Tarpitted(evs[i]) /\ Recommend!Clean(evs[i])}
      BY <1>1, <2>1 DEF m
  <2> QED
      BY <2>1, <2>2, <2>3 DEF CandidateOf, m
<1>3. ASSUME NEW s \in SUBSET (1..Len(evs)) PROVE CleanOf(more, s) = CleanOf(evs, s)
  <2>1. {i \in s : Recommend!Clean(more[i])} = {i \in s : Recommend!Clean(evs[i])}
      BY <1>1
  <2> QED
      BY <2>1 DEF CleanOf
<1> QED
    BY <1>2, <1>3 DEF more

\* What is backed stays so.
LEMMA BackedStays ==
    ASSUME NEW evs \in Seq(Requests), NEW e \in Requests, NEW c, BackedBy(evs, c)
    PROVE  BackedBy(Append(evs, e), c)
<1> DEFINE more == Append(evs, e)
<1>1. PICK lo \in 1..Len(evs) + 1, hi \in 0..Len(evs) :
          \E from \in 1..lo, mid \in 0..hi :
              c = CandidateOf(evs, <<c.az, c.key>>, Recommend!Newest(lo..hi, hi), CleanOf(evs, from..mid))
    BY DEF BackedBy
<1>2. PICK from \in 1..lo, mid \in 0..hi :
          c = CandidateOf(evs, <<c.az, c.key>>, Recommend!Newest(lo..hi, hi), CleanOf(evs, from..mid))
    BY <1>1
<1>3. /\ Recommend!Newest(lo..hi, hi) \in SUBSET (1..Len(evs)) /\ from..mid \in SUBSET (1..Len(evs))
      /\ Len(more) = Len(evs) + 1
    BY <1>1, <1>2 DEF Recommend!Newest
<1>4. /\ CandidateOf(more, <<c.az, c.key>>, Recommend!Newest(lo..hi, hi), CleanOf(more, from..mid)) = c
    BY <1>2, <1>3, RowsStay
<1>5. lo \in 1..Len(more) + 1 /\ hi \in 0..Len(more)
    BY <1>3
<1> HIDE DEF more
<1> QED
    BY <1>4, <1>5 DEF BackedBy, more

\* What is backed by rows, and counted in them, stays so at every step.
LEMMA EventsStay ==
    ASSUME CycleInv, \/ \E e \in Requests : events' = Append(events, e)
                     \/ events' = events
    PROVE  /\ \A c : Recommend!Backed(c) => Recommend!Backed(c)'
           /\ first' \in {first, first + 1} => \A n : CleanTotal(n) => CleanTotal(n)'
<1>1. events \in Seq(Requests) /\ first \in Nat \ {0}
    BY DEF CycleInv, Recommend!TypeOK
<1>2. ASSUME NEW c, Recommend!Backed(c) PROVE Recommend!Backed(c)'
  <2>1. BackedBy(events, c)
      BY <1>2 DEF BackedBy, CandidateOf, MineOf, CleanOf, Recommend!Backed, Recommend!Candidate, Recommend!CountClean
  <2>2. BackedBy(events', c)
      BY <1>1, <2>1, BackedStays
  <2> QED
      BY <2>2 DEF BackedBy, CandidateOf, MineOf, CleanOf, Recommend!Backed, Recommend!Candidate, Recommend!CountClean,
                  Recommend!Newest
<1>3. ASSUME first' \in {first, first + 1}, NEW n, CleanTotal(n) PROVE CleanTotal(n)'
  <2>1. PICK from \in 1..first, mid \in 0..Len(events) : n = CleanOf(events, from..mid)
      BY <1>3 DEF CleanTotal, CleanOf, Recommend!CountClean
  <2>2. from \in 1..first' /\ mid \in 0..Len(events') /\ from..mid \in SUBSET (1..Len(events))
      BY <1>1, <1>3, <2>1
  <2>3. n = CleanOf(events', from..mid)
      BY <1>1, <2>1, <2>2, RowsStay
  <2> QED
      BY <2>2, <2>3 DEF CleanTotal, CleanOf, Recommend!CountClean
<1> QED
    BY <1>2, <1>3

\* Every step keeps the types of the recommender.
LEMMA CycleKeeps == SuggestInv /\ [Recommend!Next]_(Recommend!vars) => CycleInv'
<1> SUFFICES ASSUME CycleInv, [Recommend!Next]_(Recommend!vars) PROVE CycleInv'
    BY DEF SuggestInv
<1> USE DEF CycleInv, Recommend!TypeOK
<1>1. CASE Recommend!Arrive
    BY <1>1 DEF Recommend!Arrive
<1>2. CASE Recommend!Age
    BY <1>2 DEF Recommend!Age
<1>3. CASE Recommend!Count
  <2>1. {i \in Recommend!Window : Recommend!Clean(events[i])} \in SUBSET (1..Len(events))
      BY SamplesOf
  <2>2. Recommend!CountEventsByDecision.clean \in Nat
      BY <2>1, RowsCount, RecommendCounts DEF Recommend!CountEventsByDecision, Recommend!CountClean
  <2>3. UNCHANGED <<events, first, table, file, apart>>
        /\ (job' = job \/ job' = [Recommend!Idle EXCEPT !.at = "sample", !.clean = Recommend!CountEventsByDecision.clean])
      BY <1>3 DEF Recommend!Count
  <2>4. job' \in [at : {"idle", "sample", "store", "write"}, clean : Nat, found : SUBSET Recommend!Suggestion]
      BY <2>2, <2>3 DEF Recommend!Idle
  <2> QED
      BY <2>3, <2>4
<1>4. CASE Recommend!Analyze
    BY <1>4, FoundIs DEF Recommend!Analyze
<1>5. CASE Recommend!Store
  <2>1. \A n \in DOMAIN table' : table'[n] \in Recommend!Suggestion
      BY <1>5, StoreServes
  <2> QED
      BY <1>5, <2>1 DEF Recommend!Store, Recommend!Storing
<1>6. CASE Recommend!StoreFails
    BY <1>6 DEF Recommend!StoreFails
<1>7. CASE Recommend!WriteSuggestions
    BY <1>7 DEF Recommend!WriteSuggestions, Recommend!Idle
<1>8. CASE Recommend!CycleEnds
    BY <1>8 DEF Recommend!CycleEnds, Recommend!Idle
<1>9. CASE UNCHANGED Recommend!vars
    BY <1>9 DEF Recommend!vars
<1> QED
    BY <1>1, <1>2, <1>3, <1>4, <1>5, <1>6, <1>7, <1>8, <1>9 DEF Recommend!Next

\* What a step leaves of the tables, the cycle and the file leaves the findings as they are.
LEMMA FindingsStay ==
    ASSUME SuggestInv, UNCHANGED <<table, file>>,
           \/ \E e \in Requests : events' = Append(events, e)
           \/ events' = events,
           first' \in {first, first + 1}
    PROVE  /\ UNCHANGED <<job, apart>> => Findings' /\ Recommend!SuggestionsAreBacked'
           /\ \A n \in DOMAIN table' : Recommend!NameOf(table'[n]) = n /\ Recommend!Accepted(table'[n]) /\ Recommend!Backed(table[n])'
           /\ \A c \in file' : Recommend!Accepted(c) /\ Recommend!Backed(c)'
           /\ job.at # "write" /\ ~apart =>
                 \A c \in file : /\ Recommend!NameOf(c) \in DOMAIN table /\ table[Recommend!NameOf(c)] \in file
                                 /\ ~Recommend!Outranks(table[Recommend!NameOf(c)], c)
<1>1. /\ \A c : Recommend!Backed(c) => Recommend!Backed(c)'
      /\ \A n : CleanTotal(n) => CleanTotal(n)'
    BY EventsStay DEF SuggestInv
<1>2. Recommend!SuggestionsAreBacked /\ Findings
    BY DEF SuggestInv
<1>3. \A n \in DOMAIN table' : Recommend!NameOf(table'[n]) = n /\ Recommend!Accepted(table'[n]) /\ Recommend!Backed(table[n])'
    BY <1>1, <1>2 DEF Recommend!SuggestionsAreBacked
<1>4. \A c \in file' : Recommend!Accepted(c) /\ Recommend!Backed(c)'
    BY <1>1, <1>2 DEF Recommend!SuggestionsAreBacked
<1>5. job.at # "write" /\ ~apart =>
          \A c \in file : /\ Recommend!NameOf(c) \in DOMAIN table /\ table[Recommend!NameOf(c)] \in file
                          /\ ~Recommend!Outranks(table[Recommend!NameOf(c)], c)
    BY <1>2 DEF Recommend!SuggestionsAreBacked
<1>6. ASSUME UNCHANGED <<job, apart>> PROVE Findings' /\ Recommend!SuggestionsAreBacked'
  <2>1. Findings'
      BY <1>1, <1>2, <1>6 DEF Findings, Served, Sound, Recommend!Accepted, Recommend!NameOf, Recommend!Name, Recommend!Outranks
  <2>2. Recommend!SuggestionsAreBacked'
      BY <1>3, <1>4, <1>5, <1>6
         DEF Recommend!SuggestionsAreBacked, Recommend!Accepted, Recommend!NameOf, Recommend!Name, Recommend!Outranks
  <2> QED
      BY <2>1, <2>2
<1> QED
    BY <1>3, <1>4, <1>5, <1>6

\* Every step keeps what is suggested backed and served.
LEMMA SuggestKeeps == SuggestInv /\ [Recommend!Next]_(Recommend!vars) => SuggestInv'
<1> SUFFICES ASSUME SuggestInv, [Recommend!Next]_(Recommend!vars) PROVE SuggestInv'
    OBVIOUS
<1>0. CycleInv' /\ CycleInv /\ Findings /\ Recommend!SuggestionsAreBacked
    BY CycleKeeps DEF SuggestInv
<1>1. SUFFICES Findings' /\ Recommend!SuggestionsAreBacked'
    BY <1>0 DEF SuggestInv
<1> USE DEF Recommend!Accepted, Recommend!NameOf, Recommend!Name, Recommend!Outranks
<1>2. CASE \/ Recommend!Arrive \/ Recommend!Age \/ UNCHANGED Recommend!vars
  <2>1. /\ UNCHANGED <<table, file, job, apart>> /\ first' \in {first, first + 1}
        /\ (\E e \in Requests : events' = Append(events, e)) \/ events' = events
      BY <1>2 DEF Recommend!Arrive, Recommend!Age, Recommend!vars
  <2> QED
      BY <2>1, FindingsStay
<1>3. CASE Recommend!Count
  <2>1. UNCHANGED <<table, file, events, first, apart>> /\ job.at = "idle"
        /\ \/ job' = job
           \/ job'.at = "sample" /\ job'.clean = Recommend!CountEventsByDecision.clean
      BY <1>3 DEF Recommend!Count, Recommend!Idle
  <2>2. /\ \A n \in DOMAIN table' : Recommend!NameOf(table'[n]) = n /\ Recommend!Accepted(table'[n]) /\ Recommend!Backed(table[n])'
        /\ \A c \in file' : Recommend!Accepted(c) /\ Recommend!Backed(c)'
        /\ ~apart => \A c \in file : /\ Recommend!NameOf(c) \in DOMAIN table /\ table[Recommend!NameOf(c)] \in file
                                     /\ ~Recommend!Outranks(table[Recommend!NameOf(c)], c)
      BY <2>1, FindingsStay
  <2>3. Recommend!SuggestionsAreBacked'
      BY <2>1, <2>2 DEF Recommend!SuggestionsAreBacked
  <2>4. job' # job => CleanTotal(job.clean)'
    <3>1. Recommend!CountEventsByDecision.clean = Recommend!CountClean(first..Len(events))
        BY DEF Recommend!CountEventsByDecision, Recommend!Window
    <3>2. first \in 1..first /\ Len(events) \in 0..Len(events)
        BY <1>0 DEF CycleInv, Recommend!TypeOK
    <3> QED
        BY <2>1, <3>1, <3>2 DEF CleanTotal, Recommend!CountClean
  <2> QED
      BY <2>1, <2>3, <2>4 DEF Findings
<1>4. CASE Recommend!Analyze
  <2>1. UNCHANGED <<table, file, events, first, apart>> /\ job.at = "sample"
      BY <1>4 DEF Recommend!Analyze
  <2>2. /\ \A n \in DOMAIN table' : Recommend!NameOf(table'[n]) = n /\ Recommend!Accepted(table'[n]) /\ Recommend!Backed(table[n])'
        /\ \A c \in file' : Recommend!Accepted(c) /\ Recommend!Backed(c)'
        /\ ~apart => \A c \in file : /\ Recommend!NameOf(c) \in DOMAIN table /\ table[Recommend!NameOf(c)] \in file
                                     /\ ~Recommend!Outranks(table[Recommend!NameOf(c)], c)
      BY <2>1, FindingsStay
  <2>3. Recommend!SuggestionsAreBacked'
      BY <2>1, <2>2 DEF Recommend!SuggestionsAreBacked
  <2>4. \/ job' = Recommend!Idle
        \/ /\ job'.at = "store"
           /\ \A c \in job'.found :
                 /\ Recommend!Accepted(c)
                 /\ c = Recommend!Candidate(<<c.az, c.key>>, Recommend!QueryPathSamples, job.clean)
      BY <1>0, <1>4, FoundIs
  <2>5. ASSUME NEW c, c = Recommend!Candidate(<<c.az, c.key>>, Recommend!QueryPathSamples, job.clean)
        PROVE  Recommend!Backed(c)'
    <3>1. PICK from \in 1..first, mid \in 0..Len(events) : job.clean = Recommend!CountClean(from..mid)
        BY <1>0, <2>1 DEF Findings, CleanTotal
    <3>2. Recommend!QueryPathSamples = Recommend!Newest(first..Len(events), Len(events))
        BY DEF Recommend!QueryPathSamples, Recommend!Window
    <3>3. first \in 1..Len(events) + 1 /\ Len(events) \in 0..Len(events)
        BY <1>0 DEF CycleInv, Recommend!TypeOK
    <3>4. Recommend!Backed(c)
        BY <2>5, <3>1, <3>2, <3>3 DEF Recommend!Backed
    <3> QED
        BY <1>0, <2>1, <3>4, EventsStay
  <2>6. Findings'
    <3>1. CASE job' = Recommend!Idle
        BY <3>1 DEF Findings, Recommend!Idle
    <3>2. CASE job'.at = "store" /\ \A c \in job'.found : Recommend!Accepted(c) /\ Recommend!Backed(c)'
      <4>1. \A c \in job'.found : Sound(c)'
          BY <3>2 DEF Sound
      <4> QED
          BY <3>2, <4>1 DEF Findings
    <3> QED
        BY <2>4, <2>5, <3>1, <3>2
  <2> QED
      BY <2>3, <2>6
<1>5. CASE Recommend!Store
  <2>1. UNCHANGED <<file, events, first>> /\ job.at = "store" /\ job' = [job EXCEPT !.at = "write"] /\ apart' = FALSE
      BY <1>5 DEF Recommend!Store, Recommend!Storing
  <2>2. job'.at = "write" /\ job'.found = job.found
      BY <1>0, <2>1 DEF CycleInv
  <2>3. /\ \A n \in DOMAIN table' :
              \/ table'[n] \in job.found /\ Recommend!NameOf(table'[n]) = n
              \/ n \in DOMAIN table /\ table'[n] = table[n]
        /\ \A c \in job.found : /\ Recommend!NameOf(c) \in DOMAIN table'
                                /\ table'[Recommend!NameOf(c)] \in job.found
                                /\ ~Recommend!Outranks(table'[Recommend!NameOf(c)], c)
      BY <1>5, StoreServes
  <2>4. \A c : Recommend!Backed(c) => Recommend!Backed(c)'
      BY <1>0, <2>1, EventsStay
  <2>5. \A c \in job.found : Recommend!Accepted(c) /\ Recommend!Backed(c)'
      BY <1>0, <2>1, <2>4 DEF Findings, Sound
  <2>6. Findings'
      BY <2>2, <2>3, <2>5 DEF Findings, Sound, Served
  <2>7. \A n \in DOMAIN table' : Recommend!NameOf(table'[n]) = n /\ Recommend!Accepted(table'[n]) /\ Recommend!Backed(table[n])'
      BY <1>0, <2>3, <2>4, <2>5 DEF Recommend!SuggestionsAreBacked
  <2>8. \A c \in file' : Recommend!Accepted(c) /\ Recommend!Backed(c)'
      BY <1>0, <2>1, <2>4 DEF Recommend!SuggestionsAreBacked
  <2>9. Recommend!SuggestionsAreBacked'
      BY <2>2, <2>7, <2>8 DEF Recommend!SuggestionsAreBacked
  <2> QED
      BY <2>6, <2>9
<1>6. CASE Recommend!StoreFails
  <2>1. UNCHANGED <<table, file, events, first>> /\ job.at = "store" /\ job' = [job EXCEPT !.at = "write"] /\ apart' = TRUE
      BY <1>6 DEF Recommend!StoreFails
  <2>2. job'.at = "write" /\ job'.found = job.found
      BY <1>0, <2>1 DEF CycleInv
  <2>3. /\ \A n \in DOMAIN table' : Recommend!NameOf(table'[n]) = n /\ Recommend!Accepted(table'[n]) /\ Recommend!Backed(table[n])'
        /\ \A c \in file' : Recommend!Accepted(c) /\ Recommend!Backed(c)'
      BY <2>1, FindingsStay
  <2>4. \A c \in job.found : Recommend!Accepted(c) /\ Recommend!Backed(c)'
    <3>1. \A c : Recommend!Backed(c) => Recommend!Backed(c)'
        BY <1>0, <2>1, EventsStay
    <3> QED
        BY <1>0, <2>1, <3>1 DEF Findings, Sound
  <2>5. Findings'
      BY <2>1, <2>2, <2>4 DEF Findings, Sound
  <2>6. Recommend!SuggestionsAreBacked'
      BY <2>2, <2>3 DEF Recommend!SuggestionsAreBacked
  <2> QED
      BY <2>5, <2>6
<1>7. CASE Recommend!WriteSuggestions
  <2>1. UNCHANGED <<table, events, first, apart>> /\ job.at = "write" /\ file' = job.found /\ job' = Recommend!Idle
      BY <1>7 DEF Recommend!WriteSuggestions
  <2>2. \A c : Recommend!Backed(c) => Recommend!Backed(c)'
      BY <1>0, <2>1, EventsStay
  <2>3. \A c \in job.found : Recommend!Accepted(c) /\ Recommend!Backed(c)'
      BY <1>0, <2>1, <2>2 DEF Findings, Sound
  <2>4. \A n \in DOMAIN table' : Recommend!NameOf(table'[n]) = n /\ Recommend!Accepted(table'[n]) /\ Recommend!Backed(table[n])'
      BY <1>0, <2>1, <2>2 DEF Recommend!SuggestionsAreBacked
  <2>5. ~apart' =>
            \A c \in file' : /\ Recommend!NameOf(c) \in DOMAIN table' /\ table'[Recommend!NameOf(c)] \in file'
                             /\ ~Recommend!Outranks(table'[Recommend!NameOf(c)], c)
      BY <1>0, <2>1 DEF Findings, Served
  <2>6. Recommend!SuggestionsAreBacked'
      BY <2>1, <2>3, <2>4, <2>5 DEF Recommend!SuggestionsAreBacked
  <2>7. Findings'
      BY <2>1 DEF Findings, Recommend!Idle
  <2> QED
      BY <2>6, <2>7
<1>8. CASE Recommend!CycleEnds
  <2>1. UNCHANGED <<table, file, events, first>> /\ job' = Recommend!Idle /\ apart' = (apart \/ job.at = "write")
      BY <1>8 DEF Recommend!CycleEnds
  <2>2. /\ \A n \in DOMAIN table' : Recommend!NameOf(table'[n]) = n /\ Recommend!Accepted(table'[n]) /\ Recommend!Backed(table[n])'
        /\ \A c \in file' : Recommend!Accepted(c) /\ Recommend!Backed(c)'
        /\ job.at # "write" /\ ~apart =>
              \A c \in file : /\ Recommend!NameOf(c) \in DOMAIN table /\ table[Recommend!NameOf(c)] \in file
                              /\ ~Recommend!Outranks(table[Recommend!NameOf(c)], c)
      BY <2>1, FindingsStay
  <2>3. Recommend!SuggestionsAreBacked'
      BY <2>1, <2>2 DEF Recommend!SuggestionsAreBacked
  <2>4. Findings'
      BY <2>1 DEF Findings, Recommend!Idle
  <2> QED
      BY <2>3, <2>4
<1> QED
    BY <1>2, <1>3, <1>4, <1>5, <1>6, <1>7, <1>8 DEF Recommend!Next

\* What the recommender suggests passed the filter with counts over rows of the table, and
\* the file and the table agree on the last batch unless one of its two writes failed
\* (recommender.go: run and Run, persist/store.go: UpsertSuggestions).
THEOREM SuggestionsHold == Recommend!Spec => []SuggestionsAreBacked
<1>1. SuggestInv => SuggestionsAreBacked
    BY DEF SuggestInv, SuggestionsAreBacked, In
<1> QED
    BY <1>1, CycleStarts, SuggestKeeps, PTL DEF Recommend!Spec

-----------------------------------------------------------------------------
(* The classifier. *)

\* The module that is instantiated and the proofs count in the same way.
LEMMA LearnCounts == \A S : Learn!Cardinality(S) = Cardinality(S)
BY Zenon DEF Learn!Cardinality, Cardinality

\* An element that comes or goes counts for one.
LEMMA OneMore ==
    ASSUME NEW S, IsFiniteSet(S), NEW x
    PROVE  /\ Cardinality(S) \in Nat
           /\ IsFiniteSet(S \cup {x}) /\ IsFiniteSet(S \ {x})
           /\ Cardinality(S \cup {x}) = IF x \in S THEN Cardinality(S) ELSE Cardinality(S) + 1
           /\ Cardinality(S \ {x}) = IF x \in S THEN Cardinality(S) - 1 ELSE Cardinality(S)
BY FS_CardinalityType, FS_AddElement, FS_RemoveElement

Histograms == UNION {[S -> Learn!Pair] : S \in SUBSET Pairs}
Models ==
    [counts : Histograms, vocab : [Learn!Features -> Nat],
     entries : Nat, agent : Nat, human : Nat, total : Nat]

(* The size of the vocabulary and the number of entries are those of a set *)
(* of pairs; while an entry makes room for another, of the pairs that will *)
(* be left.                                                                *)
OfFeature(K, ft) == {p \in K : p[1] = ft}
Sizes(m, K) ==
    /\ m.entries = Cardinality(K)
    /\ \A ft \in Learn!Features : m.vocab[ft] = Cardinality(OfFeature(K, ft))

(* A classifier that has counted right.  No entry is empty, so that a seed *)
(* which finds an empty count knows the entry is new.                      *)
Counted ==
    {m \in Models : /\ Sizes(m, DOMAIN m.counts) /\ m.total = m.agent + m.human
                    /\ \A p \in DOMAIN m.counts : m.counts[p] # Learn!Zero}

\* A new pair counts in the sizes.
LEMMA NewEntrySizes ==
    ASSUME NEW m \in Models, NEW K \in SUBSET Pairs, Sizes(m, K), NEW p \in Pairs \ K
    PROVE  LET r == Learn!NewEntry(m, p) IN
           /\ r \in Models /\ Sizes(r, K \cup {p}) /\ r.counts = m.counts
           /\ r.agent = m.agent /\ r.human = m.human /\ r.total = m.total
<1> DEFINE V == m.vocab
           W == [V EXCEPT ![p[1]] = @ + 1]
           r == [m EXCEPT !.vocab = W, !.entries = @ + 1]
<1>1. Learn!NewEntry(m, p) = r
    BY DEF Learn!NewEntry, Models
<1>2. V \in [Learn!Features -> Nat] /\ p[1] \in Learn!Features /\ m.entries \in Nat
    BY DEF Models, Learn!Features
<1>3. W \in [Learn!Features -> Nat] /\ \A ft \in Learn!Features : W[ft] = IF ft = p[1] THEN V[ft] + 1 ELSE V[ft]
    BY <1>2
<1>4. IsFiniteSet(K)
    BY LearningAssumption, FS_Subset
<1>5. Cardinality(K \cup {p}) = Cardinality(K) + 1
    BY <1>4, OneMore
<1>6. ASSUME NEW ft \in Learn!Features
      PROVE  W[ft] = Cardinality(OfFeature(K \cup {p}, ft))
  <2>1. V[ft] = Cardinality(OfFeature(K, ft))
      BY DEF Sizes
  <2>2. CASE ft = p[1]
    <3>1. OfFeature(K \cup {p}, ft) = OfFeature(K, ft) \cup {p} /\ p \notin OfFeature(K, ft)
        BY <2>2 DEF OfFeature
    <3>2. IsFiniteSet(OfFeature(K, ft))
        BY <1>4, FS_Subset DEF OfFeature
    <3>3. Cardinality(OfFeature(K \cup {p}, ft)) = Cardinality(OfFeature(K, ft)) + 1
        BY <3>1, <3>2, OneMore
    <3> QED
        BY <1>3, <2>1, <2>2, <3>3
  <2>3. CASE ft # p[1]
    <3>1. OfFeature(K \cup {p}, ft) = OfFeature(K, ft)
        BY <2>3 DEF OfFeature
    <3> QED
        BY <1>3, <2>1, <2>3, <3>1
  <2> QED
      BY <2>2, <2>3
<1>61. m.entries + 1 \in Nat
    BY <1>2
<1> HIDE DEF W, V
<1>7. /\ r \in Models /\ r.vocab = W /\ r.entries = m.entries + 1 /\ r.counts = m.counts
      /\ r.agent = m.agent /\ r.human = m.human /\ r.total = m.total
    BY <1>2, <1>3, <1>61 DEF Models
<1>8. Sizes(r, K \cup {p})
    BY <1>5, <1>6, <1>7 DEF Sizes
<1> QED
    BY <1>1, <1>7, <1>8

Evicted(m, q) == [Learn!Drop(m, q) EXCEPT !.vocab[q[1]] = @ - 1, !.entries = @ - 1]

\* An entry that makes room no longer counts.
LEMMA EvictionSizes ==
    ASSUME NEW m \in Models, NEW K \in SUBSET Pairs, Sizes(m, K), NEW q \in DOMAIN m.counts, q \in K
    PROVE  LET r == Evicted(m, q) IN
           /\ r \in Models /\ Sizes(r, K \ {q}) /\ DOMAIN r.counts = DOMAIN m.counts \ {q}
           /\ \A p \in DOMAIN r.counts : r.counts[p] = m.counts[p]
           /\ r.agent = m.agent /\ r.human = m.human /\ r.total = m.total
<1> DEFINE V == m.vocab
           W == [V EXCEPT ![q[1]] = @ - 1]
           C == [p \in DOMAIN m.counts \ {q} |-> m.counts[p]]
           r == [m EXCEPT !.counts = C, !.vocab = W, !.entries = @ - 1]
<1>1. Evicted(m, q) = r
    BY DEF Evicted, Learn!Drop, Learn!Known, Models
<1>2. V \in [Learn!Features -> Nat] /\ q[1] \in Learn!Features /\ m.entries \in Nat
    BY DEF Models, Learn!Features
<1>3. \A ft \in Learn!Features : W[ft] = IF ft = q[1] THEN V[ft] - 1 ELSE V[ft]
    BY <1>2
<1>4. IsFiniteSet(K)
    BY LearningAssumption, FS_Subset
<1>5. Cardinality(K \ {q}) = Cardinality(K) - 1 /\ Cardinality(K \ {q}) \in Nat
    BY <1>4, OneMore, FS_CardinalityType
<1>6. ASSUME NEW ft \in Learn!Features
      PROVE  W[ft] = Cardinality(OfFeature(K \ {q}, ft)) /\ W[ft] \in Nat
  <2>1. V[ft] = Cardinality(OfFeature(K, ft))
      BY DEF Sizes
  <2>2. IsFiniteSet(OfFeature(K, ft)) /\ IsFiniteSet(OfFeature(K \ {q}, ft))
      BY <1>4, FS_Subset DEF OfFeature
  <2>3. CASE ft = q[1]
    <3>1. OfFeature(K \ {q}, ft) = OfFeature(K, ft) \ {q} /\ q \in OfFeature(K, ft)
        BY <2>3 DEF OfFeature
    <3>2. IsFiniteSet(OfFeature(K, ft))
        BY <2>2
    <3>3. Cardinality(OfFeature(K, ft) \ {q}) = Cardinality(OfFeature(K, ft)) - 1
        BY <3>1, <3>2, OneMore
    <3>4. Cardinality(OfFeature(K \ {q}, ft)) \in Nat
        BY <2>2, FS_CardinalityType
    <3>5. W[ft] = V[ft] - 1
        BY <1>3, <2>3
    <3> HIDE DEF W, V
    <3> QED
        BY <2>1, <3>1, <3>3, <3>4, <3>5
  <2>4. CASE ft # q[1]
    <3>1. OfFeature(K \ {q}, ft) = OfFeature(K, ft)
        BY <2>4 DEF OfFeature
    <3> QED
        BY <1>3, <2>1, <2>2, <2>4, <3>1, FS_CardinalityType
  <2> QED
      BY <2>3, <2>4
<1>7. W \in [Learn!Features -> Nat]
  <2>1. DOMAIN W = Learn!Features
      BY <1>2
  <2> QED
      BY <1>2, <1>6, <2>1
<1>8. C \in Histograms /\ DOMAIN C = DOMAIN m.counts \ {q}
      /\ \A p \in DOMAIN C : C[p] = m.counts[p]
  <2>1. PICK S \in SUBSET Pairs : m.counts \in [S -> Learn!Pair]
      BY DEF Models, Histograms
  <2>2. C \in [S \ {q} -> Learn!Pair] /\ S \ {q} \in SUBSET Pairs
      BY <2>1
  <2> HIDE DEF C
  <2>3. C \in Histograms
      BY <2>2 DEF Histograms
  <2> QED
      BY <2>3 DEF C
<1>9. m.entries - 1 \in Nat
    BY <1>4, <1>5, FS_CardinalityType DEF Sizes
<1> HIDE DEF W, V, C
<1>10. /\ r \in Models /\ r.vocab = W /\ r.entries = m.entries - 1 /\ r.counts = C
       /\ r.agent = m.agent /\ r.human = m.human /\ r.total = m.total
    BY <1>7, <1>8, <1>9 DEF Models
<1>11. Sizes(r, K \ {q})
    BY <1>5, <1>6, <1>10 DEF Sizes
<1> QED
    BY <1>1, <1>8, <1>10, <1>11

\* A count is put into the histogram; the sizes stay what they were.
LEMMA PutIs ==
    ASSUME NEW m \in Models, NEW p \in Pairs, NEW n \in Learn!Pair
    PROVE  LET r == Learn!Put(m, p, n) IN
           /\ r \in Models /\ DOMAIN r.counts = DOMAIN m.counts \cup {p}
           /\ \A q \in DOMAIN r.counts : r.counts[q] = IF q = p THEN n ELSE m.counts[q]
           /\ r.vocab = m.vocab /\ r.entries = m.entries
           /\ r.agent = m.agent /\ r.human = m.human /\ r.total = m.total
<1> DEFINE C == [q \in DOMAIN m.counts \cup {p} |-> IF q = p THEN n ELSE m.counts[q]]
<1>1. Learn!Put(m, p, n) = [m EXCEPT !.counts = C]
    BY DEF Learn!Put, Learn!Known
<1>2. C \in Histograms
  <2>1. PICK S \in SUBSET Pairs : m.counts \in [S -> Learn!Pair]
      BY DEF Models, Histograms
  <2>2. C \in [S \cup {p} -> Learn!Pair] /\ S \cup {p} \in SUBSET Pairs
      BY <2>1
  <2> HIDE DEF C
  <2> QED
      BY <2>2 DEF Histograms
<1>3. /\ DOMAIN C = DOMAIN m.counts \cup {p}
      /\ \A q \in DOMAIN C : C[q] = IF q = p THEN n ELSE m.counts[q]
    OBVIOUS
<1> HIDE DEF C
<1> QED
    BY <1>1, <1>2, <1>3 DEF Models

\* The count of a pair, with a label more.
LEMMA CountIs ==
    ASSUME NEW m \in Models, NEW p \in Pairs, NEW label \in Learn!Labels
    PROVE  /\ Learn!Count(m, p) \in Learn!Pair
           /\ [Learn!Count(m, p) EXCEPT ![label] = @ + 1] \in Learn!Pair
           /\ [Learn!Count(m, p) EXCEPT ![label] = @ + 1] # Learn!Zero
<1>1. Learn!Count(m, p) \in Learn!Pair
  <2>1. PICK S \in SUBSET Pairs : m.counts \in [S -> Learn!Pair]
      BY DEF Models, Histograms
  <2> QED
      BY <2>1 DEF Learn!Count, Learn!Known, Learn!Zero, Learn!Pair
<1>2. PICK n \in Learn!Pair : n = Learn!Count(m, p)
    BY <1>1
<1>3. n.agent \in Nat /\ n.human \in Nat /\ n \in [agent : Nat, human : Nat]
    BY DEF Learn!Pair
<1> DEFINE x == [n EXCEPT ![label] = @ + 1]
<1>30. /\ x \in [agent : Nat, human : Nat]
       /\ x.agent = n.agent + IF label = "agent" THEN 1 ELSE 0
       /\ x.human = n.human + IF label = "human" THEN 1 ELSE 0
    BY <1>3 DEF Learn!Labels
<1> HIDE DEF x
<1>4. x.agent # Learn!Zero.agent \/ x.human # Learn!Zero.human
    BY <1>3, <1>30 DEF Learn!Zero, Learn!Labels
<1>5. x # Learn!Zero
    BY <1>4
<1> QED
    BY <1>1, <1>2, <1>30, <1>5 DEF Learn!Pair, x

\* An entry with a count that is not empty keeps the classifier counted, when the sizes
\* are those of the entries with it.
LEMMA PutCounts ==
    ASSUME NEW m \in Models, NEW p \in Pairs, NEW n \in Learn!Pair, n # Learn!Zero,
           Sizes(m, DOMAIN m.counts \cup {p}), m.total = m.agent + m.human,
           \A q \in DOMAIN m.counts : m.counts[q] # Learn!Zero
    PROVE  Learn!Put(m, p, n) \in Counted
<1> DEFINE r == Learn!Put(m, p, n)
<1>1. /\ r \in Models /\ DOMAIN r.counts = DOMAIN m.counts \cup {p}
      /\ \A q \in DOMAIN r.counts : r.counts[q] = IF q = p THEN n ELSE m.counts[q]
      /\ r.vocab = m.vocab /\ r.entries = m.entries
      /\ r.agent = m.agent /\ r.human = m.human /\ r.total = m.total
    BY PutIs
<1> HIDE DEF r
<1>2. Sizes(r, DOMAIN r.counts)
    BY <1>1 DEF Sizes
<1>3. \A q \in DOMAIN r.counts : r.counts[q] # Learn!Zero
    BY <1>1
<1>4. r \in Counted
    BY <1>1, <1>2, <1>3 DEF Counted
<1> QED
    BY <1>4 DEF r

\* A feature of a labelled request is counted right, whether it is known, new, or makes
\* another one go.
LEMMA NotedCounts ==
    ASSUME NEW m \in Counted, NEW p \in Pairs, NEW label \in Learn!Labels, NEW r \in Learn!Noted(m, p, label)
    PROVE  r \in Counted
<1> DEFINE n == [Learn!Count(m, p) EXCEPT ![label] = @ + 1]
           K == DOMAIN m.counts
           fresh == Learn!NewEntry(m, p)
<1>1. /\ m \in Models /\ Sizes(m, K) /\ m.total = m.agent + m.human
      /\ \A q \in K : m.counts[q] # Learn!Zero
    BY DEF Counted
<1>2. K \in SUBSET Pairs
    BY <1>1 DEF Models, Histograms
<1>3. n \in Learn!Pair /\ n # Learn!Zero
    BY <1>1, CountIs
<1> HIDE DEF n, fresh
<1>4. CASE p \in K
  <2>1. r = Learn!Put(m, p, n)
      BY <1>4 DEF Learn!Noted, Learn!Known, n
  <2>2. K \cup {p} = K
      BY <1>4
  <2> QED
      BY <1>1, <1>3, <2>1, <2>2, PutCounts
<1>5. CASE p \notin K
  <2>1. /\ fresh \in Models /\ Sizes(fresh, K \cup {p}) /\ fresh.counts = m.counts
        /\ fresh.agent = m.agent /\ fresh.human = m.human /\ fresh.total = m.total
      BY <1>1, <1>2, <1>5, NewEntrySizes DEF fresh
  <2>2. PICK x \in (IF fresh.entries > MaxBayesEntries THEN Learn!EvictLowest(fresh) ELSE {fresh}) :
            r = Learn!Put(x, p, n)
      BY <1>5 DEF Learn!Noted, Learn!Known, n, fresh
  <2>3. CASE x = fresh
      BY <1>1, <1>3, <2>1, <2>2, <2>3, PutCounts
  <2>4. CASE x # fresh
    <3>1. PICK q \in K : x = Evicted(fresh, q)
        BY <2>1, <2>2, <2>4 DEF Evicted, Learn!EvictLowest, Learn!Lowest, Learn!Known
    <3>2. /\ x \in Models /\ Sizes(x, (K \cup {p}) \ {q}) /\ DOMAIN x.counts = K \ {q}
          /\ \A o \in DOMAIN x.counts : x.counts[o] = m.counts[o]
          /\ x.agent = m.agent /\ x.human = m.human /\ x.total = m.total
      <4> DEFINE J == K \cup {p}
      <4>1. J \in SUBSET Pairs /\ Sizes(fresh, J) /\ q \in J /\ q \in DOMAIN fresh.counts
          BY <1>2, <2>1
      <4> HIDE DEF J
      <4>2. /\ x \in Models /\ Sizes(x, J \ {q}) /\ DOMAIN x.counts = DOMAIN fresh.counts \ {q}
            /\ \A o \in DOMAIN x.counts : x.counts[o] = fresh.counts[o]
            /\ x.agent = fresh.agent /\ x.human = fresh.human /\ x.total = fresh.total
          BY <2>1, <3>1, <4>1, EvictionSizes
      <4> QED
          BY <2>1, <4>2 DEF J
    <3>3. (K \cup {p}) \ {q} = DOMAIN x.counts \cup {p}
        BY <1>5, <3>2
    <3>4. \A o \in DOMAIN x.counts : x.counts[o] # Learn!Zero
        BY <1>1, <3>2
    <3> QED
        BY <1>1, <1>3, <2>2, <3>2, <3>3, <3>4, PutCounts
  <2> QED
      BY <2>3, <2>4
<1> QED
    BY <1>4, <1>5

\* A seed counts an entry as new when it has no count, and adds to it otherwise.
LEMMA SeedCounts ==
    ASSUME NEW m \in Counted, NEW p \in Pairs, NEW n \in Learn!Pair
    PROVE  Learn!Seed(m, p, n) \in Counted
<1> DEFINE K == DOMAIN m.counts
           c == Learn!Count(m, p)
           r == IF c = Learn!Zero THEN Learn!NewEntry(m, p) ELSE m
           s == [agent |-> c.agent + n.agent, human |-> c.human + n.human]
           u == Learn!Put(r, p, s)
           w == [u EXCEPT !.agent = @ + n.agent, !.human = @ + n.human, !.total = @ + (n.agent + n.human)]
<1>1. /\ m \in Models /\ Sizes(m, K) /\ m.total = m.agent + m.human
      /\ \A q \in K : m.counts[q] # Learn!Zero
    BY DEF Counted
<1>2. K \in SUBSET Pairs
    BY <1>1 DEF Models, Histograms
<1>3. SUFFICES ASSUME Learn!Support(n) # 0 PROVE w \in Counted
    BY DEF Learn!Seed, Learn!Support
<1>4. n.agent \in Nat /\ n.human \in Nat /\ n.agent + n.human # 0
    BY <1>3 DEF Learn!Pair, Learn!Support
<1>5. c \in Learn!Pair /\ c.agent \in Nat /\ c.human \in Nat
  <2>1. c \in Learn!Pair
      BY <1>1, CountIs DEF Learn!Labels
  <2> QED
      BY <2>1 DEF Learn!Pair
<1>6. s \in Learn!Pair /\ s # Learn!Zero
  <2> HIDE DEF c
  <2>1. s \in Learn!Pair
      BY <1>4, <1>5 DEF Learn!Pair
  <2>2. s.agent # 0 \/ s.human # 0
      BY <1>4, <1>5
  <2>3. Learn!Zero.agent = 0 /\ Learn!Zero.human = 0
      BY DEF Learn!Zero
  <2> HIDE DEF s
  <2> QED
      BY <2>1, <2>2, <2>3
<1> HIDE DEF s
<1>7. /\ r \in Models /\ Sizes(r, K \cup {p}) /\ r.counts = m.counts
      /\ r.agent = m.agent /\ r.human = m.human /\ r.total = m.total
  <2>1. CASE c = Learn!Zero
    <3>1. p \in Pairs \ K
        BY <1>1, <2>1 DEF Learn!Count, Learn!Known
    <3> HIDE DEF c
    <3> QED
        BY <1>1, <1>2, <2>1, <3>1, NewEntrySizes
  <2>2. CASE c # Learn!Zero
    <3>1. K \cup {p} = K
        BY <2>2 DEF Learn!Count, Learn!Known
    <3> HIDE DEF c
    <3> QED
        BY <1>1, <2>2, <3>1
  <2> QED
      BY <2>1, <2>2
<1> HIDE DEF r
<1>8. u \in Counted
    BY <1>1, <1>6, <1>7, PutCounts
<1>9. u \in Models /\ u.total = u.agent + u.human /\ {u.agent, u.human, u.total} \subseteq Nat
    BY <1>8 DEF Counted, Models
<1> HIDE DEF u
<1>10. /\ w \in Models /\ w.counts = u.counts /\ w.vocab = u.vocab /\ w.entries = u.entries
       /\ w.agent = u.agent + n.agent /\ w.human = u.human + n.human /\ w.total = u.total + (n.agent + n.human)
  <2>1. u.agent + n.agent \in Nat /\ u.human + n.human \in Nat /\ u.total + (n.agent + n.human) \in Nat
      BY <1>4, <1>9
  <2> QED
      BY <1>9, <2>1 DEF Models
<1> HIDE DEF w
<1>11. w.total = w.agent + w.human
    BY <1>4, <1>9, <1>10
<1>12. Sizes(w, DOMAIN w.counts) /\ \A q \in DOMAIN w.counts : w.counts[q] # Learn!Zero
    BY <1>8, <1>10 DEF Counted, Sizes
<1> QED
    BY <1>10, <1>11, <1>12 DEF Counted

\* The greatest number is that of the library.
LEMMA LearnGreatest == \A s : Learn!Max(s) = Max(s)
BY Zenon DEF Learn!Max, Max

\* A labelled request leaves the classifier counted, whichever entries it evicts.
LEMMA UpdateCounts ==
    ASSUME NEW m \in Counted, NEW v \in Seq(Pairs), NEW label \in Learn!Labels
    PROVE  Learn!Update(m, v, label) \subseteq Counted
<1> DEFINE counted == [m EXCEPT ![label] = @ + 1, !.total = @ + 1]
           Step(ms, p) == UNION {Learn!Noted(x, p, label) : x \in ms}
           n == Len(v)
           S == SUBSET Counted
           O == [z \in S \X Pairs |-> Step(z[1], z[2])]
           It(g) == g = [t \in SUBSET (1..n) |->
                     IF t = {} THEN {counted} ELSE Step(g[t \ {Learn!Max(t)}], v[Learn!Max(t)])]
           F == CHOOSE g : It(g)
<1>1. counted \in Counted
  <2>1. /\ m \in Models /\ Sizes(m, DOMAIN m.counts) /\ m.total = m.agent + m.human
        /\ \A q \in DOMAIN m.counts : m.counts[q] # Learn!Zero
      BY DEF Counted
  <2>2. {m.agent, m.human, m.total} \subseteq Nat
      BY <2>1 DEF Models
  <2>3. /\ counted \in Models /\ counted.counts = m.counts /\ counted.vocab = m.vocab
        /\ counted.entries = m.entries /\ counted.total = m.total + 1
        /\ counted.agent = m.agent + IF label = "agent" THEN 1 ELSE 0
        /\ counted.human = m.human + IF label = "human" THEN 1 ELSE 0
    <3>0. m.agent + 1 \in Nat /\ m.human + 1 \in Nat /\ m.total + 1 \in Nat
        BY <2>2
    <3>1. CASE label = "agent"
      <4>1. counted = [m EXCEPT !.agent = @ + 1, !.total = @ + 1]
          BY <3>1
      <4> HIDE DEF counted
      <4>2. /\ counted \in Models /\ counted.counts = m.counts /\ counted.vocab = m.vocab
            /\ counted.entries = m.entries /\ counted.total = m.total + 1
            /\ counted.agent = m.agent + 1 /\ counted.human = m.human
          BY <2>1, <3>0, <4>1 DEF Models
      <4> QED
          BY <2>2, <3>1, <4>2
    <3>2. CASE label = "human"
      <4>1. counted = [m EXCEPT !.human = @ + 1, !.total = @ + 1]
          BY <3>2
      <4> HIDE DEF counted
      <4>2. /\ counted \in Models /\ counted.counts = m.counts /\ counted.vocab = m.vocab
            /\ counted.entries = m.entries /\ counted.total = m.total + 1
            /\ counted.human = m.human + 1 /\ counted.agent = m.agent
          BY <2>1, <3>0, <4>1 DEF Models
      <4> QED
          BY <2>2, <3>2, <4>2
    <3> QED
        BY <3>1, <3>2 DEF Learn!Labels
  <2> HIDE DEF counted
  <2>4. counted.total = counted.agent + counted.human
      BY <2>1, <2>2, <2>3 DEF Learn!Labels
  <2> QED
      BY <2>1, <2>3, <2>4 DEF Counted, Sizes
<1> HIDE DEF counted
<1>2. ASSUME NEW ms \in S, NEW p \in Pairs PROVE Step(ms, p) \in S
    BY NotedCounts
<1>3. O \in [S \X Pairs -> S] /\ {counted} \in S /\ n \in Nat /\ v \in [1..n -> Pairs]
    BY <1>1, <1>2
<1> DEFINE base == {counted}
<1>31. base \in S
    BY <1>3
<1>4. PICK g : Folding(g, S, Pairs, O, base, n, v)
  <2> HIDE DEF O, S, n, base
  <2> QED
      BY <1>3, <1>31, FoldSteps
<1>5. It(g)
  <2>1. ASSUME NEW t \in SUBSET (1..n), t # {}
        PROVE  g[t] = Step(g[t \ {Learn!Max(t)}], v[Learn!Max(t)])
    <3> HIDE DEF Step
    <3>1. <<g[t \ {Max(t)}], v[Max(t)]>> \in S \X Pairs
        BY <1>4, <2>1 DEF Folding
    <3>2. O[<<g[t \ {Max(t)}], v[Max(t)]>>] = Step(g[t \ {Max(t)}], v[Max(t)])
      <4> HIDE DEF S
      <4> QED
          BY <3>1
    <3> HIDE DEF O
    <3> QED
        BY <1>4, <2>1, <3>2, LearnGreatest DEF Folding
  <2> HIDE DEF Step
  <2>2. g = [t \in SUBSET (1..n) |-> g[t]] /\ g[{}] = {counted}
      BY <1>4 DEF Folding
  <2> QED
      BY <2>1, <2>2
<1>6. It(F)
  <2> HIDE DEF It
  <2> QED
      BY <1>5
<1>7. Learn!Update(m, v, label) = F[1..n]
  <2>1. DOMAIN v = 1..n
      OBVIOUS
  <2> QED
      BY <2>1 DEF Learn!Update, Learn!FoldLeft, Learn!MapThenFoldSet, counted
<1>8. F[{}] \in S
    BY <1>3, <1>6
<1>9. ASSUME NEW t \in SUBSET (1..n), t # {}, F[t \ {Max(t)}] \in S PROVE F[t] \in S
  <2>1. v[Max(t)] \in Pairs
      BY <1>4, <1>9 DEF Folding
  <2>2. F[t] = Step(F[t \ {Max(t)}], v[Max(t)])
    <3> HIDE DEF Step, F
    <3> QED
      BY <1>6, <1>9, LearnGreatest
  <2> HIDE DEF F, Step, S
  <2> QED
      BY <1>2, <1>9, <2>1, <2>2
<1>10. F[1..n] \in S
  <2> HIDE DEF F, S, n
  <2> QED
      BY <1>3, <1>8, <1>9, FoldStays
<1> QED
    BY <1>7, <1>10

(* An entry of learned.yaml: of its support no more than all are agents.   *)
Entry == {e \in [active : BOOLEAN, agent : Nat, support : Nat] : e.agent <= e.support}
Files == UNION {[S -> Entry] : S \in SUBSET Pairs}

\* The members of a finite set stand in the sequence of it.
LEMMA InSequence ==
    ASSUME NEW S, IsFiniteSet(S)
    PROVE  Learn!SetToSeq(S) \in [1..Cardinality(S) -> S] /\ Cardinality(S) \in Nat
<1> DEFINE n == Cardinality(S)
<1>1. n \in Nat
    BY FS_CardinalityType
<1>2. IsFiniteSet(1..n) /\ Cardinality(1..n) = n
    BY <1>1, FS_Interval
<1>3. ExistsBijection(1..n, S)
    BY <1>2, FS_SameCardinalityBij
<1>4. \E g \in [1..n -> S] : Learn!IsInjective(g)
    BY <1>3 DEF ExistsBijection, Bijection, Injection, IsInjective, Learn!IsInjective
<1>5. Learn!SetToSeq(S) = CHOOSE g \in [1..n -> S] : Learn!IsInjective(g)
    BY LearnCounts DEF Learn!SetToSeq
<1> HIDE DEF n
<1>6. Learn!SetToSeq(S) \in [1..n -> S]
    BY <1>4, <1>5
<1> QED
    BY <1>1, <1>6 DEF n

\* What an entry is worth is a count.
LEMMA WorthCounts ==
    ASSUME NEW e \in Entry
    PROVE  Learn!Worth(e) \in Learn!Pair
<1> DEFINE s == e.support
           x == (e.agent + 1) * s * 2 + s + 2
           y == 2 * (s + 2)
           a == x \div y
<1>1. s \in Nat /\ e.agent \in Nat /\ e.agent <= s
    BY DEF Entry
<1>2. x \in Nat /\ y \in Nat \ {0}
  <2>1. (e.agent + 1) * s \in Nat
      BY <1>1
  <2> QED
      BY <1>1, <2>1
<1>3. x < (s + 1) * y
  <2>1. (e.agent + 1) * s <= (s + 1) * s
      BY <1>1
  <2>2. (e.agent + 1) * s \in Nat /\ (s + 1) * s \in Nat /\ (s + 1) * y = 2 * ((s + 1) * s) + 4 * s + 4
      BY <1>1
  <2> HIDE DEF y
  <2> QED
      BY <1>1, <2>1, <2>2
<1>4. a \in Nat /\ a <= s
  <2> HIDE DEF x, y
  <2>1. a \in Nat /\ a * y <= x
      BY <1>2
  <2>2. SUFFICES ASSUME s + 1 <= a PROVE FALSE
      BY <1>1, <2>1
  <2> HIDE DEF a, s
  <2>3. (s + 1) * y <= a * y
      BY <1>1, <1>2, <2>1, <2>2
  <2>4. {(s + 1) * y, a * y, x} \subseteq Int
      BY <1>1, <1>2, <2>1
  <2> QED
      BY <1>3, <2>1, <2>3, <2>4
<1>5. Learn!Worth(e) = [agent |-> a, human |-> s - a]
    BY DEF Learn!Worth
<1> HIDE DEF a, s
<1>6. s - a \in Nat
    BY <1>1, <1>4
<1> QED
    BY <1>4, <1>5, <1>6 DEF Learn!Pair

(* The two passes of SeedFromLearned. *)
Once(m, saved) ==
    Learn!FoldLeft(LAMBDA x, p : Learn!Seed(x, p, Learn!Worth(saved[p])), m,
                   Learn!SetToSeq({p \in DOMAIN saved : saved[p].active}))
Shared(m) == Learn!FoldLeft(LAMBDA x, p : Learn!Seed(x, p, Learn!Synthetic), m, Learn!SetToSeq(Community))

\* The active entries of the file seed a classifier that has counted right.
LEMMA FileSeeds ==
    ASSUME NEW m \in Counted, NEW saved \in Files
    PROVE  Once(m, saved) \in Counted
<1> DEFINE X == {p \in DOMAIN saved : saved[p].active}
           v == Learn!SetToSeq(X)
           n == Cardinality(X)
           Step(x, p) == Learn!Seed(x, p, Learn!Worth(saved[p]))
           O == [z \in Counted \X X |-> Step(z[1], z[2])]
           It(g) == g = [t \in SUBSET (1..n) |->
                     IF t = {} THEN m ELSE Step(g[t \ {Learn!Max(t)}], v[Learn!Max(t)])]
           F == CHOOSE g : It(g)
<1>1. X \subseteq Pairs /\ IsFiniteSet(X)
    BY LearningAssumption, FS_Subset DEF Files
<1>2. v \in [1..n -> X] /\ n \in Nat
  <2> HIDE DEF X
  <2> QED
      BY <1>1, InSequence
<1>3. ASSUME NEW x \in Counted, NEW p \in X PROVE Step(x, p) \in Counted
  <2>1. Learn!Worth(saved[p]) \in Learn!Pair
      BY <1>3, WorthCounts DEF Files
  <2>2. p \in Pairs
      BY <1>1
  <2> HIDE DEF X
  <2> QED
      BY <2>1, <2>2, SeedCounts
<1> HIDE DEF X
<1>4. O \in [Counted \X X -> Counted]
    BY <1>3
<1>5. PICK g : Folding(g, Counted, X, O, m, n, v)
  <2> HIDE DEF O, n, v
  <2> QED
      BY <1>2, <1>4, FoldSteps
<1>6. It(g)
  <2>1. ASSUME NEW t \in SUBSET (1..n), t # {}
        PROVE  g[t] = Step(g[t \ {Learn!Max(t)}], v[Learn!Max(t)])
    <3> HIDE DEF Step, v, n
    <3>1. <<g[t \ {Max(t)}], v[Max(t)]>> \in Counted \X X
        BY <1>5, <2>1 DEF Folding
    <3>2. O[<<g[t \ {Max(t)}], v[Max(t)]>>] = Step(g[t \ {Max(t)}], v[Max(t)])
        BY <3>1
    <3> HIDE DEF O
    <3> QED
        BY <1>5, <2>1, <3>2, LearnGreatest DEF Folding
  <2> HIDE DEF Step, v, n, O
  <2>2. g = [t \in SUBSET (1..n) |-> g[t]] /\ g[{}] = m
      BY <1>5 DEF Folding
  <2> QED
      BY <2>1, <2>2
<1>7. It(F)
  <2> HIDE DEF It
  <2> QED
      BY <1>6
<1>8. Once(m, saved) = F[1..n]
  <2>1. DOMAIN v = 1..n
    <3> HIDE DEF v, n
    <3> QED
      BY <1>2
  <2> QED
      BY <2>1 DEF Once, X, Learn!FoldLeft, Learn!MapThenFoldSet
<1>9. F[{}] \in Counted
    BY <1>7
<1>10. ASSUME NEW t \in SUBSET (1..n), t # {}, F[t \ {Max(t)}] \in Counted PROVE F[t] \in Counted
  <2> HIDE DEF O, v, n, F, Step
  <2>1. v[Max(t)] \in X
      BY <1>5, <1>10 DEF Folding
  <2>2. F[t] = Step(F[t \ {Max(t)}], v[Max(t)])
      BY <1>7, <1>10, LearnGreatest
  <2> QED
      BY <1>3, <1>10, <2>1, <2>2
<1>11. F[1..n] \in Counted
  <2> HIDE DEF F, n
  <2> QED
      BY <1>2, <1>9, <1>10, FoldStays
<1> QED
    BY <1>8, <1>11

\* So do the entries of the learned/ directory.
LEMMA CommunitySeeds ==
    ASSUME NEW m \in Counted
    PROVE  Shared(m) \in Counted
<1> DEFINE X == Community
           v == Learn!SetToSeq(X)
           n == Cardinality(X)
           Step(x, p) == Learn!Seed(x, p, Learn!Synthetic)
           O == [z \in Counted \X X |-> Step(z[1], z[2])]
           It(g) == g = [t \in SUBSET (1..n) |->
                     IF t = {} THEN m ELSE Step(g[t \ {Learn!Max(t)}], v[Learn!Max(t)])]
           F == CHOOSE g : It(g)
<1>1. X \subseteq Pairs /\ IsFiniteSet(X)
    BY LearningAssumption, FS_Subset DEF Files
<1>2. v \in [1..n -> X] /\ n \in Nat
  <2> HIDE DEF X
  <2> QED
      BY <1>1, InSequence
<1>3. ASSUME NEW x \in Counted, NEW p \in X PROVE Step(x, p) \in Counted
  <2>1. Learn!Synthetic \in Learn!Pair
      BY LearningAssumption DEF Learn!Synthetic, Learn!Pair
  <2>2. p \in Pairs
      BY <1>1
  <2> HIDE DEF X
  <2> QED
      BY <2>1, <2>2, SeedCounts
<1> HIDE DEF X
<1>4. O \in [Counted \X X -> Counted]
    BY <1>3
<1>5. PICK g : Folding(g, Counted, X, O, m, n, v)
  <2> HIDE DEF O, n, v
  <2> QED
      BY <1>2, <1>4, FoldSteps
<1>6. It(g)
  <2>1. ASSUME NEW t \in SUBSET (1..n), t # {}
        PROVE  g[t] = Step(g[t \ {Learn!Max(t)}], v[Learn!Max(t)])
    <3> HIDE DEF Step, v, n
    <3>1. <<g[t \ {Max(t)}], v[Max(t)]>> \in Counted \X X
        BY <1>5, <2>1 DEF Folding
    <3>2. O[<<g[t \ {Max(t)}], v[Max(t)]>>] = Step(g[t \ {Max(t)}], v[Max(t)])
        BY <3>1
    <3> HIDE DEF O
    <3> QED
        BY <1>5, <2>1, <3>2, LearnGreatest DEF Folding
  <2> HIDE DEF Step, v, n, O
  <2>2. g = [t \in SUBSET (1..n) |-> g[t]] /\ g[{}] = m
      BY <1>5 DEF Folding
  <2> QED
      BY <2>1, <2>2
<1>7. It(F)
  <2> HIDE DEF It
  <2> QED
      BY <1>6
<1>8. Shared(m) = F[1..n]
  <2>1. DOMAIN v = 1..n
    <3> HIDE DEF v, n
    <3> QED
      BY <1>2
  <2> QED
      BY <2>1 DEF Shared, X, Learn!FoldLeft, Learn!MapThenFoldSet
<1>9. F[{}] \in Counted
    BY <1>7
<1>10. ASSUME NEW t \in SUBSET (1..n), t # {}, F[t \ {Max(t)}] \in Counted PROVE F[t] \in Counted
  <2> HIDE DEF O, v, n, F, Step
  <2>1. v[Max(t)] \in X
      BY <1>5, <1>10 DEF Folding
  <2>2. F[t] = Step(F[t \ {Max(t)}], v[Max(t)])
      BY <1>7, <1>10, LearnGreatest
  <2> QED
      BY <1>3, <1>10, <2>1, <2>2
<1>11. F[1..n] \in Counted
  <2> HIDE DEF F, n
  <2> QED
      BY <1>2, <1>9, <1>10, FoldStays
<1> QED
    BY <1>8, <1>11

\* A start or a reload seeds the classifier from what is active.
LEMMA LearnedSeeds ==
    ASSUME NEW m \in Counted, NEW saved \in Files
    PROVE  Learn!SeedFromLearned(m, saved) \in Counted
<1>1. Learn!SeedFromLearned(m, saved) = Shared(Once(m, saved))
    BY Zenon DEF Learn!SeedFromLearned, Once, Shared, Learn!FoldLeft, Learn!MapThenFoldSet
<1> QED
    BY <1>1, FileSeeds, CommunitySeeds

\* A new process has counted nothing.
LEMMA FreshCounts == Learn!Fresh \in Counted
<1> DEFINE m == Learn!Fresh
<1>1. /\ m.counts = Learn!Empty /\ m.vocab = [ft \in Learn!Features |-> 0] /\ m.entries = 0
      /\ m.agent = 0 /\ m.human = 0 /\ m.total = 0
    BY DEF Learn!Fresh
<1>2. DOMAIN Learn!Empty = {} /\ Learn!Empty \in [{} -> Learn!Pair]
    BY DEF Learn!Empty
<1>3. Learn!Empty \in Histograms
    BY <1>2 DEF Histograms
<1>4. m \in Models
    BY <1>3 DEF Learn!Fresh, Models
<1>5. Cardinality({}) = 0 /\ \A ft \in Learn!Features : OfFeature({}, ft) = {}
    BY FS_EmptySet DEF OfFeature
<1> HIDE DEF m
<1>6. Sizes(m, DOMAIN m.counts)
    BY <1>1, <1>2, <1>5 DEF Sizes
<1>7. m \in Counted
    BY <1>1, <1>2, <1>4, <1>6 DEF Counted
<1> QED
    BY <1>7 DEF m

-----------------------------------------------------------------------------
(* The miner. *)

(* The places of a rule's flag: the pass of the miner, the file, the table.*)
Flags == UNION {[S -> BOOLEAN] : S \in SUBSET Pairs}
MinerTyped ==
    /\ tick \in [at : {"idle", "upsert", "merge", "write", "push"}, listed : BOOLEAN, found : Files]
    /\ yaml \in Files
    /\ rows \in Flags
    /\ mined \in BOOLEAN

(* What a pass found active and wrote to the table is active there from    *)
(* then on, unless its row is demoted; so the next pass that can read the  *)
(* table takes it over, and the file that this pass wrote has it active as *)
(* long as nobody edits a place.                                           *)
RowsKeep == \A p \in kept : p \in DOMAIN rows /\ rows[p] = TRUE
FileKeeps == mined => \A p \in kept \cap DOMAIN yaml : yaml[p].active = TRUE
PassKeeps == (tick.at = "write" /\ tick.listed) =>
                 \A p \in kept \cap DOMAIN tick.found : tick.found[p].active = TRUE
PassWritten == (tick.at = "push" /\ mined) => yaml = tick.found

MinerInv == MinerTyped /\ RowsKeep /\ FileKeeps /\ PassKeeps /\ PassWritten

\* The invariant of the miner holds at the start.
LEMMA MinerStarts == Learn!Init => MinerInv
<1> SUFFICES ASSUME Learn!Init PROVE MinerInv
    OBVIOUS
<1>1. DOMAIN Learn!Empty = {} /\ Learn!Empty \in [{} -> Entry] /\ Learn!Empty \in [{} -> BOOLEAN]
    BY DEF Learn!Empty
<1>2. /\ Learn!Empty \in Files
      /\ Learn!Empty \in Flags
    BY <1>1 DEF Files, Flags
<1>3. yaml = Learn!Empty /\ rows = Learn!Empty /\ tick = [at |-> "idle", listed |-> FALSE, found |-> Learn!Empty]
      /\ kept = {} /\ mined = FALSE
    BY DEF Learn!Init, Learn!NoTick
<1> QED
    BY <1>1, <1>2, <1>3 DEF MinerInv, MinerTyped, RowsKeep, FileKeeps, PassKeeps, PassWritten

\* A pass proposes pairs of the histogram.
LEMMA SnapshotFinds ==
    ASSUME Learn!Known(model) \subseteq Pairs, \A p \in Learn!Known(model) : model.counts[p] \in Learn!Pair,
           Learn!Snapshot
    PROVE  /\ tick'.at = "upsert" /\ tick' \in [at : {"upsert"}, listed : BOOLEAN, found : Files]
           /\ UNCHANGED <<yaml, rows, kept, mined>>
<1> DEFINE C == {p \in Learn!Known(model) : Learn!Proposed(model.counts[p])}
           F == [p \in C |-> [active |-> Learn!Certain(model.counts[p]),
                              agent |-> model.counts[p].agent, support |-> Learn!Support(model.counts[p])]]
<1>1. tick' = [at |-> "upsert", listed |-> FALSE, found |-> F] /\ UNCHANGED <<yaml, rows, kept, mined>>
    BY DEF Learn!Snapshot
<1>2. ASSUME NEW p \in C PROVE F[p] \in Entry
  <2>1. model.counts[p] \in [agent : Nat, human : Nat]
      BY DEF Learn!Pair
  <2>2. PICK n \in [agent : Nat, human : Nat] : n = model.counts[p]
      BY <2>1
  <2>3. n.agent \in Nat /\ n.agent + n.human \in Nat /\ n.agent <= n.agent + n.human
      BY <2>2
  <2>4. Learn!Certain(n) \in BOOLEAN
      BY DEF Learn!Certain
  <2>5. F[p] = [active |-> Learn!Certain(n), agent |-> n.agent, support |-> n.agent + n.human]
      BY <2>2 DEF Learn!Support
  <2>6. F[p] \in [active : BOOLEAN, agent : Nat, support : Nat]
      BY <2>3, <2>4, <2>5
  <2> HIDE DEF F
  <2>7. F[p].agent = n.agent /\ F[p].support = n.agent + n.human
      BY <2>5
  <2> QED
      BY <2>3, <2>6, <2>7 DEF Entry
<1>3. F \in [C -> Entry] /\ C \in SUBSET Pairs
    BY <1>2
<1> HIDE DEF F, C
<1>4. F \in Files
    BY <1>3 DEF Files
<1> QED
    BY <1>1, <1>4

\* Merging keeps what the table says is active.
LEMMA MergeKeeps ==
    ASSUME MinerInv, Learn!Merge
    PROVE  MinerInv'
<1>1. tick.at = "merge" /\ UNCHANGED <<yaml, rows, kept, mined>>
    BY DEF Learn!Merge
<1>13. PICK lists \in BOOLEAN, reads \in BOOLEAN :
          tick' = [at |-> "write", listed |-> lists,
                   found |-> [p \in Learn!Found |-> [tick.found[p] EXCEPT
                       !.active = @ \/ (lists /\ Learn!Active(p)) \/ (reads /\ p \in DOMAIN yaml /\ yaml[p].active)]]]
    BY DEF Learn!Merge
<1> DEFINE up(p) == (lists /\ Learn!Active(p)) \/ (reads /\ p \in DOMAIN yaml /\ yaml[p].active)
           F == [p \in DOMAIN tick.found |-> [tick.found[p] EXCEPT !.active = @ \/ up(p)]]
<1>2. tick' = [at |-> "write", listed |-> lists, found |-> F]
    BY <1>13 DEF Learn!Found
<1>3. PICK S \in SUBSET Pairs : tick.found \in [S -> Entry]
    BY DEF MinerInv, MinerTyped, Files
<1>4. ASSUME NEW p \in S
      PROVE  F[p] \in Entry /\ ((lists /\ p \in kept) => F[p].active = TRUE)
  <2>1. PICK e \in Entry : e = tick.found[p]
      BY <1>3
  <2>2. F[p] = [e EXCEPT !.active = e.active \/ up(p)]
      BY <1>3, <2>1
  <2>3. (e.active \/ up(p)) \in BOOLEAN
      OBVIOUS
  <2>4. F[p] \in Entry /\ F[p].active = (e.active \/ up(p))
      BY <2>2, <2>3 DEF Entry
  <2>5. (lists /\ p \in kept) => up(p)
      BY DEF MinerInv, RowsKeep, Learn!Active
  <2> HIDE DEF F, up
  <2> QED
      BY <2>4, <2>5
<1>5. F \in Files /\ DOMAIN F = S /\ DOMAIN tick.found = S
  <2>1. DOMAIN F = S /\ DOMAIN tick.found = S
      BY <1>3
  <2>2. \A p \in S : F[p] \in Entry
      BY <1>4
  <2>3. F = [p \in S |-> F[p]]
      BY <1>3
  <2> HIDE DEF F
  <2>4. F \in [S -> Entry]
      BY <2>2, <2>3
  <2> QED
      BY <2>1, <2>4 DEF Files
<1> HIDE DEF F
<1>6. MinerTyped'
    BY <1>1, <1>2, <1>5 DEF MinerInv, MinerTyped
<1>7. tick'.at = "write" /\ tick'.listed = lists /\ tick'.found = F
    BY <1>2
<1>8. PassKeeps'
    BY <1>1, <1>4, <1>5, <1>7 DEF PassKeeps
<1> QED
    BY <1>1, <1>6, <1>7, <1>8 DEF MinerInv, RowsKeep, FileKeeps, PassWritten

\* The end of a pass: what it found active is kept.
LEMMA PushKeeps ==
    ASSUME MinerInv, Learn!Push
    PROVE  MinerInv'
<1> DEFINE act == {p \in Learn!Found : tick.found[p].active}
<1>1. tick.at = "push" /\ tick' = Learn!NoTick /\ UNCHANGED <<yaml, mined>>
    BY DEF Learn!Push
<1>12. PICK done \in SUBSET act :
          /\ rows' = [p \in DOMAIN rows |-> p \in done \/ rows[p]]
          /\ kept' = kept \cup (done \cap DOMAIN rows)
    BY DEF Learn!Push
<1>2. tick'.at = "idle" /\ tick' \in [at : {"idle"}, listed : BOOLEAN, found : Files]
  <2>1. Learn!Empty \in [{} -> Entry]
      BY DEF Learn!Empty
  <2>2. Learn!Empty \in Files
      BY <2>1 DEF Files
  <2> QED
      BY <1>1, <2>2 DEF Learn!NoTick
<1>3. PICK R \in SUBSET Pairs : rows \in [R -> BOOLEAN]
    BY DEF MinerInv, MinerTyped, Flags
<1>4. PICK S \in SUBSET Pairs : tick.found \in [S -> Entry]
    BY DEF MinerInv, MinerTyped, Files
<1>5. DOMAIN rows = R /\ DOMAIN tick.found = S /\ (mined => yaml = tick.found)
    BY <1>1, <1>3, <1>4 DEF MinerInv, PassWritten
<1>6. \A p \in done : tick.found[p].active = TRUE
    BY <1>4, <1>5 DEF Entry, Learn!Found
<1> HIDE DEF act
<1>7. /\ rows' \in Flags /\ DOMAIN rows' = R
      /\ \A p \in R : (rows[p] = TRUE \/ p \in done) => rows'[p] = TRUE
    BY <1>12, <1>3, <1>5 DEF Flags
<1>9. RowsKeep'
    BY <1>12, <1>5, <1>7 DEF MinerInv, RowsKeep
<1>10. FileKeeps'
    BY <1>1, <1>12, <1>5, <1>6 DEF MinerInv, FileKeeps
<1>11. MinerTyped'
    BY <1>1, <1>2, <1>7 DEF MinerInv, MinerTyped
<1> QED
    BY <1>2, <1>9, <1>10, <1>11 DEF MinerInv, PassKeeps, PassWritten

\* The rows of a pass are in the table, with the flags they had.
LEMMA UpsertKeeps ==
    ASSUME MinerInv, Learn!Upsert
    PROVE  MinerInv'
<1>1. tick.at = "upsert" /\ tick' = [tick EXCEPT !.at = "merge"] /\ UNCHANGED <<yaml, kept, mined>>
    BY DEF Learn!Upsert
<1>10. PICK done \in SUBSET DOMAIN tick.found : rows' = [p \in DOMAIN rows \cup done |-> Learn!Active(p)]
    BY DEF Learn!Upsert, Learn!Found
<1>2. tick'.at = "merge" /\ tick'.found = tick.found /\ tick' \in [at : {"merge"}, listed : BOOLEAN, found : Files]
    BY <1>1 DEF MinerInv, MinerTyped
<1>3. PICK R \in SUBSET Pairs : rows \in [R -> BOOLEAN]
    BY DEF MinerInv, MinerTyped, Flags
<1>4. PICK S \in SUBSET Pairs : tick.found \in [S -> Entry]
    BY DEF MinerInv, MinerTyped, Files
<1>5. rows' \in [R \cup done -> BOOLEAN] /\ \A p \in R : rows[p] = TRUE => rows'[p] = TRUE
    BY <1>10, <1>3, <1>4 DEF Learn!Active
<1>6. R \cup done \in SUBSET Pairs /\ DOMAIN rows' = R \cup done /\ DOMAIN rows = R
    BY <1>3, <1>4, <1>5
<1>7. MinerTyped'
    BY <1>1, <1>2, <1>5, <1>6 DEF MinerInv, MinerTyped, Flags
<1>8. RowsKeep'
    BY <1>1, <1>5, <1>6 DEF MinerInv, RowsKeep
<1> QED
    BY <1>1, <1>2, <1>7, <1>8 DEF MinerInv, FileKeeps, PassKeeps, PassWritten

\* The file takes over what the pass has.
LEMMA WriteKeeps ==
    ASSUME MinerInv, Learn!Write
    PROVE  MinerInv'
<1>1. /\ tick.at = "write" /\ tick' = [tick EXCEPT !.at = "push"] /\ UNCHANGED <<rows, kept>>
      /\ yaml' = tick.found /\ mined' = tick.listed
    BY DEF Learn!Write
<1>2. tick'.at = "push" /\ tick'.found = tick.found /\ tick.listed \in BOOLEAN /\ tick' \in [at : {"push"}, listed : BOOLEAN, found : Files]
    BY <1>1 DEF MinerInv, MinerTyped
<1>3. MinerTyped'
    BY <1>1, <1>2 DEF MinerInv, MinerTyped
<1>4. PassKeeps' /\ PassWritten'
    BY <1>1, <1>2 DEF PassKeeps, PassWritten
<1>5. RowsKeep'
    BY <1>1 DEF MinerInv, RowsKeep
<1>6. FileKeeps'
    BY <1>1 DEF MinerInv, PassKeeps, FileKeeps
<1> QED
    BY <1>3, <1>4, <1>5, <1>6 DEF MinerInv

\* A pass that fails leaves both places as they are.
LEMMA WriteFailsKeeps ==
    ASSUME MinerInv, Learn!WriteFails
    PROVE  MinerInv'
<1>1. tick' = Learn!NoTick /\ UNCHANGED <<yaml, rows, kept, mined>>
    BY DEF Learn!WriteFails
<1>2. tick'.at = "idle" /\ tick' \in [at : {"idle"}, listed : BOOLEAN, found : Files]
  <2>1. Learn!Empty \in [{} -> Entry]
      BY DEF Learn!Empty
  <2>2. Learn!Empty \in Files
      BY <2>1 DEF Files
  <2> QED
      BY <1>1, <2>2 DEF Learn!NoTick
<1>3. MinerTyped'
    BY <1>1, <1>2 DEF MinerInv, MinerTyped
<1>4. RowsKeep' /\ FileKeeps'
    BY <1>1 DEF MinerInv, RowsKeep, FileKeeps
<1>5. PassKeeps' /\ PassWritten'
    BY <1>2 DEF PassKeeps, PassWritten
<1> QED
    BY <1>3, <1>4, <1>5 DEF MinerInv

\* What an operator does to the file, the miner has not written.
LEMMA EditFileKeeps ==
    ASSUME MinerInv, Learn!EditFile
    PROVE  MinerInv'
<1>1. mined' = FALSE /\ UNCHANGED <<rows, tick, kept>>
    BY DEF Learn!EditFile
<1>2. yaml' \in Files
  <2>1. CASE yaml' = Learn!Empty
    <3>1. Learn!Empty \in [{} -> Entry]
        BY DEF Learn!Empty
    <3> QED
        BY <2>1, <3>1 DEF Files
  <2>2. ASSUME NEW p \in DOMAIN yaml, yaml' = [yaml EXCEPT ![p].active = ~@]
        PROVE  yaml' \in Files
    <3>1. PICK S \in SUBSET Pairs : yaml \in [S -> Entry]
        BY DEF MinerInv, MinerTyped, Files
    <3>2. PICK e \in Entry : e = yaml[p]
        BY <2>2, <3>1
    <3> DEFINE d == [e EXCEPT !.active = ~e.active]
    <3>3. d \in [active : BOOLEAN, agent : Nat, support : Nat] /\ d.agent = e.agent /\ d.support = e.support
        BY DEF Entry
    <3>4. yaml' = [yaml EXCEPT ![p] = d]
        BY <2>2, <3>2
    <3> HIDE DEF d
    <3>5. d \in Entry
        BY <3>3 DEF Entry
    <3>6. yaml' \in [S -> Entry]
        BY <3>1, <3>4, <3>5
    <3> QED
        BY <3>6 DEF Files
  <2> QED
      BY <2>1, <2>2 DEF Learn!EditFile
<1>3. MinerTyped'
    BY <1>1, <1>2 DEF MinerInv, MinerTyped
<1> QED
    BY <1>1, <1>3 DEF MinerInv, RowsKeep, FileKeeps, PassKeeps, PassWritten

\* A row that an operator flips is no longer one the passes keep.
LEMMA EditTableKeeps ==
    ASSUME MinerInv, Learn!EditTable
    PROVE  MinerInv'
<1>1. mined' = FALSE /\ UNCHANGED <<yaml, tick>>
    BY DEF Learn!EditTable
<1>2. PICK p \in DOMAIN rows : rows' = [rows EXCEPT ![p] = ~@] /\ kept' = kept \ {p}
    BY DEF Learn!EditTable
<1>3. PICK R \in SUBSET Pairs : rows \in [R -> BOOLEAN]
    BY DEF MinerInv, MinerTyped, Flags
<1>4. rows' \in [R -> BOOLEAN] /\ \A q \in R \ {p} : rows'[q] = rows[q]
    BY <1>2, <1>3
<1>5. RowsKeep'
    BY <1>2, <1>3, <1>4 DEF MinerInv, RowsKeep
<1>6. MinerTyped'
    BY <1>1, <1>4 DEF MinerInv, MinerTyped, Flags
<1>7. PassKeeps'
    BY <1>1, <1>2 DEF MinerInv, PassKeeps
<1>8. FileKeeps' /\ PassWritten'
    BY <1>1 DEF FileKeeps, PassWritten
<1> QED
    BY <1>5, <1>6, <1>7, <1>8 DEF MinerInv

LearnInv == model \in Counted /\ MinerInv

\* Every step of the classifier, the miner and the operator keeps the invariant.
LEMMA LearnKeeps == LearnInv /\ [Learn!Next]_Learn!vars => LearnInv'
<1> SUFFICES ASSUME LearnInv, [Learn!Next]_Learn!vars PROVE LearnInv'
    OBVIOUS
<1>0. model \in Counted /\ MinerInv /\ yaml \in Files
    BY DEF LearnInv, MinerInv, MinerTyped
<1>1. CASE Learn!Observe
  <2>1. PICK v \in Vectors, label \in Learn!Labels : model' \in Learn!Update(model, v, label)
      BY <1>1 DEF Learn!Observe
  <2>2. v \in Seq(Pairs)
      BY LearningAssumption
  <2>3. Learn!Update(model, v, label) \subseteq Counted
      BY <1>0, <2>2, UpdateCounts
  <2>4. model' \in Counted
      BY <2>1, <2>3
  <2>5. UNCHANGED <<yaml, rows, tick, kept, mined>>
      BY <1>1 DEF Learn!Observe
  <2> QED
      BY <1>0, <2>4, <2>5 DEF LearnInv, MinerInv, MinerTyped, RowsKeep, FileKeeps, PassKeeps, PassWritten
<1>2. CASE Learn!Reload
  <2>1. model' = Learn!SeedFromLearned(model, yaml) /\ UNCHANGED <<yaml, rows, tick, kept, mined>>
      BY <1>2 DEF Learn!Reload
  <2>2. model' \in Counted
      BY <1>0, <2>1, LearnedSeeds
  <2> QED
      BY <1>0, <2>1, <2>2 DEF LearnInv, MinerInv, MinerTyped, RowsKeep, FileKeeps, PassKeeps, PassWritten
<1>3. CASE Learn!Restart
  <2>1. model' = Learn!SeedFromLearned(Learn!Fresh, yaml) /\ tick' = Learn!NoTick
        /\ UNCHANGED <<yaml, rows, kept, mined>>
      BY <1>3 DEF Learn!Restart
  <2>2. model' \in Counted
      BY <1>0, <2>1, FreshCounts, LearnedSeeds
  <2>3. tick' \in [at : {"idle"}, listed : BOOLEAN, found : Files] /\ tick'.at = "idle"
    <3>1. Learn!Empty \in [{} -> Entry]
        BY DEF Learn!Empty
    <3>2. Learn!Empty \in Files
        BY <3>1 DEF Files
    <3> QED
        BY <2>1, <3>2 DEF Learn!NoTick
  <2> QED
      BY <1>0, <2>1, <2>2, <2>3 DEF LearnInv, MinerInv, MinerTyped, RowsKeep, FileKeeps, PassKeeps, PassWritten
<1>4. CASE Learn!Snapshot
  <2>1. PICK S \in SUBSET Pairs : model.counts \in [S -> Learn!Pair]
      BY <1>0 DEF Counted, Models, Histograms
  <2>2. Learn!Known(model) \subseteq Pairs /\ \A p \in Learn!Known(model) : model.counts[p] \in Learn!Pair
      BY <2>1 DEF Learn!Known
  <2>3. tick'.at = "upsert" /\ tick' \in [at : {"upsert"}, listed : BOOLEAN, found : Files] /\ UNCHANGED <<yaml, rows, kept, mined>>
      BY <1>4, <2>2, SnapshotFinds
  <2>4. model' = model
      BY <1>4 DEF Learn!Snapshot
  <2> QED
      BY <1>0, <2>3, <2>4 DEF LearnInv, MinerInv, MinerTyped, RowsKeep, FileKeeps, PassKeeps, PassWritten
<1>5. CASE Learn!Upsert
  <2>1. model' = model
      BY <1>5 DEF Learn!Upsert
  <2> QED
      BY <1>0, <1>5, <2>1, UpsertKeeps DEF LearnInv
<1>6. CASE Learn!Merge
  <2>1. model' = model
      BY <1>6 DEF Learn!Merge
  <2> QED
      BY <1>0, <1>6, <2>1, MergeKeeps DEF LearnInv
<1>7. CASE Learn!Write
  <2>1. model' = model
      BY <1>7 DEF Learn!Write
  <2> QED
      BY <1>0, <1>7, <2>1, WriteKeeps DEF LearnInv
<1>8. CASE Learn!Push
  <2>1. model' = model
      BY <1>8 DEF Learn!Push
  <2> QED
      BY <1>0, <1>8, <2>1, PushKeeps DEF LearnInv
<1>9. CASE Learn!EditFile
  <2>1. model' = model
      BY <1>9 DEF Learn!EditFile
  <2> QED
      BY <1>0, <1>9, <2>1, EditFileKeeps DEF LearnInv
<1>10. CASE Learn!EditTable
  <2>1. model' = model
      BY <1>10 DEF Learn!EditTable
  <2> QED
      BY <1>0, <1>10, <2>1, EditTableKeeps DEF LearnInv
<1>11. CASE Learn!WriteFails
  <2>1. model' = model
      BY <1>11 DEF Learn!WriteFails
  <2> QED
      BY <1>0, <1>11, <2>1, WriteFailsKeeps DEF LearnInv
<1>12. CASE UNCHANGED Learn!vars
    BY <1>0, <1>12
       DEF Learn!vars, LearnInv, MinerInv, MinerTyped, RowsKeep, FileKeeps, PassKeeps, PassWritten
<1> QED
    BY <1>1, <1>2, <1>3, <1>4, <1>5, <1>6, <1>7, <1>8, <1>9, <1>10, <1>11, <1>12 DEF Learn!Next

\* It holds at the start, when the files hold nothing yet.
LEMMA LearnStarts == Learn!Init => LearnInv
<1> SUFFICES ASSUME Learn!Init PROVE LearnInv
    OBVIOUS
<1>1. MinerInv /\ yaml \in Files
    BY MinerStarts DEF MinerInv, MinerTyped
<1>2. model = Learn!SeedFromLearned(Learn!Fresh, yaml)
    BY DEF Learn!Init
<1> QED
    BY <1>1, <1>2, FreshCounts, LearnedSeeds DEF LearnInv

\* The sizes that Posterior divides by are those of the histogram, over insertions,
\* evictions, seeds, reloads and restarts (ml/bayes.go).
THEOREM HistogramIsCounted == Learn!Spec => []HistogramCounted
<1>1. LearnInv => HistogramCounted
  <2> SUFFICES ASSUME LearnInv PROVE HistogramCounted
      OBVIOUS
  <2>1. Sizes(model, DOMAIN model.counts) /\ model.total = model.agent + model.human
      BY DEF LearnInv, Counted
  <2> QED
      BY <2>1, LearnCounts DEF HistogramCounted, In, Learn!HistogramCounted, Sizes, OfFeature, Learn!Known
<1> QED
    BY <1>1, LearnStarts, LearnKeeps, PTL DEF Learn!Spec

\* A pair that a pass of the miner found active is active in every later file of the
\* miner that lists it, unless its row was demoted (persist/store.go UpsertCandidate,
\* ml/miner.go writeYAML).
THEOREM PromotionsSurvive == Learn!Spec => []PromotionSurvives
<1>1. LearnInv => PromotionSurvives
    BY DEF LearnInv, MinerInv, FileKeeps, PromotionSurvives, In, Learn!PromotionSurvives
<1> QED
    BY <1>1, LearnStarts, LearnKeeps, PTL DEF Learn!Spec

-----------------------------------------------------------------------------
(* The fleet tracker. *)

Entries == [last : Nat, ips : [Addresses -> Nat]]
Track == [window : Nat, maxPrints : Int, prints : [Crowd!Prints -> Entries]]
Sight == [fleet : Nat, address : Addresses, print : Crowd!Prints, at : Nat \ {0}]

(* The clock readings that got the lock of tracker k came in their order.  *)
Ordered(u, k) == \A i, j \in DOMAIN u : u[i].fleet = k /\ u[j].fleet = k /\ i <= j => u[i].at <= u[j].at
Horizon(w) == IF w < MaxIdle THEN w ELSE MaxIdle

(* Every time that a tracker holds is that of an observation of it; and    *)
(* while the readings come in order, a tracker holds of every observation  *)
(* that is young enough its time or a later one.                           *)
Shown(u, k, p, t) == \E i \in DOMAIN u : u[i].fleet = k /\ u[i].print = p /\ u[i].at = t
ShownBy(u, k, p, a, t) ==
    \E i \in DOMAIN u : u[i].fleet = k /\ u[i].print = p /\ u[i].address = a /\ u[i].at = t
Backed(prints, u, k) ==
    \A p \in Crowd!Prints :
        /\ prints[p].last # 0 => Shown(u, k, p, prints[p].last)
        /\ \A a \in Addresses : prints[p].ips[a] # 0 => ShownBy(u, k, p, a, prints[p].ips[a])
NoneLater(prints) == \A p \in Crowd!Prints : \A a \in Addresses : prints[p].ips[a] <= prints[p].last
Remembers(prints, u, k, least) ==
    \A i \in DOMAIN u : u[i].fleet = k =>
        prints[u[i].print].ips[u[i].address] >= u[i].at \/ u[i].at < least
TrackHolds(t, u, k, h) ==
    /\ Backed(t.prints, u, k)
    /\ Ordered(u, k) => NoneLater(t.prints) /\ Remembers(t.prints, u, k, h - Horizon(t.window))

\* How long a tracker is held to remember.
LEMMA Horizons == \A w \in Nat : Horizon(w) \in Nat /\ Horizon(w) <= w /\ Horizon(w) <= MaxIdle
BY FleetAssumption DEF Horizon

\* What is known of an observation.
LEMMA Sights ==
    ASSUME NEW u \in Seq(Sight), NEW i \in DOMAIN u
    PROVE  /\ u[i] \in Sight /\ u[i].at \in Nat \ {0} /\ u[i].fleet \in Nat
           /\ u[i].print \in Crowd!Prints /\ u[i].address \in Addresses
<1>1. u[i] \in Sight
    OBVIOUS
<1> QED
    BY <1>1 DEF Sight

\* An entry is dropped when all it holds is too old.
LEMMA DropHolds ==
    ASSUME NEW t \in Track, NEW u \in Seq(Sight), NEW k \in Nat, NEW h \in Nat, NEW cutoff \in Int,
           cutoff <= h - Horizon(t.window), TrackHolds(t, u, k, h)
    PROVE  LET d == Crowd!Drop(t, cutoff) IN
           d \in Track /\ d.window = t.window /\ TrackHolds(d, u, k, h)
<1> DEFINE P == t.prints
           Q == [p \in Crowd!Prints |-> IF P[p].last < cutoff THEN Crowd!NoEntry ELSE P[p]]
           d == [t EXCEPT !.prints = Q]
<1>1. P \in [Crowd!Prints -> Entries] /\ t.window \in Nat
    BY DEF Track
<1>2. Crowd!Drop(t, cutoff) = d
  <2>1. t.prints = P /\ DOMAIN P = Crowd!Prints
      BY <1>1
  <2> QED
      BY <2>1 DEF Crowd!Drop
<1>3. Crowd!NoEntry \in Entries /\ Crowd!NoEntry.last = 0 /\ \A a \in Addresses : Crowd!NoEntry.ips[a] = 0
    BY DEF Crowd!NoEntry, Entries
<1>4. Q \in [Crowd!Prints -> Entries]
    BY <1>1, <1>3
<1>5. \A p \in Crowd!Prints : Q[p] = P[p] \/ (Q[p] = Crowd!NoEntry /\ P[p].last < cutoff)
    OBVIOUS
<1>6. /\ \A p \in Crowd!Prints : P[p].last \in Nat /\ \A a \in Addresses : P[p].ips[a] \in Nat
      /\ \A i \in DOMAIN u : u[i].at \in Nat \ {0} /\ u[i].print \in Crowd!Prints /\ u[i].address \in Addresses
  <2>1. \A p \in Crowd!Prints : P[p] \in Entries
      BY <1>1
  <2> HIDE DEF P
  <2> QED
      BY <2>1, Sights DEF Entries
<1> HIDE DEF Q
<1>7. d \in Track /\ d.window = t.window /\ d.prints = Q
    BY <1>4 DEF Track
<1>8. Backed(P, u, k) /\ (Ordered(u, k) => NoneLater(P) /\ Remembers(P, u, k, h - Horizon(t.window)))
    BY DEF TrackHolds
<1> DEFINE least == h - Horizon(t.window)
<1>9. least \in Int /\ cutoff <= least
    BY SMTT(30), <1>1, Horizons
<1> HIDE DEF P, d, least
<1>10. Backed(Q, u, k)
    BY <1>3, <1>5, <1>8 DEF Backed
<1>11. ASSUME Ordered(u, k) PROVE NoneLater(Q) /\ Remembers(Q, u, k, least)
  <2>1. NoneLater(P) /\ Remembers(P, u, k, least)
      BY <1>8, <1>11 DEF least
  <2>2. NoneLater(Q)
      BY <1>3, <1>5, <2>1 DEF NoneLater
  <2>3. ASSUME NEW i \in DOMAIN u, u[i].fleet = k, ~(u[i].at < least)
        PROVE  Q[u[i].print].ips[u[i].address] >= u[i].at
    <3>1. P[u[i].print].ips[u[i].address] >= u[i].at
        BY <2>1, <2>3 DEF Remembers
    <3>2. P[u[i].print].last >= u[i].at
        BY <1>6, <2>1, <2>3, <3>1 DEF NoneLater
    <3>3. Q[u[i].print] = P[u[i].print]
        BY <1>5, <1>6, <1>9, <2>3, <3>2
    <3> QED
        BY <3>1, <3>3
  <2>4. Remembers(Q, u, k, least)
      BY <2>3 DEF Remembers
  <2> QED
      BY <2>2, <2>4
<1>12. TrackHolds(d, u, k, h)
    BY <1>7, <1>10, <1>11 DEF TrackHolds, least
<1> QED
    BY <1>2, <1>7, <1>12

\* With time, less must be remembered.
LEMMA LaterHolds ==
    ASSUME NEW t \in Track, NEW u \in Seq(Sight), NEW k \in Nat, NEW h \in Nat, NEW g \in Nat, h <= g,
           TrackHolds(t, u, k, h)
    PROVE  TrackHolds(t, u, k, g)
<1>1. t.window \in Nat /\ Horizon(t.window) \in Nat
    BY Horizons DEF Track
<1>2. \A i \in DOMAIN u : u[i].at \in Nat
    BY Sights
<1> QED
    BY <1>1, <1>2 DEF TrackHolds, Remembers

\* An observation of another tracker is none of this one.
LEMMA OtherHolds ==
    ASSUME NEW t \in Track, NEW u \in Seq(Sight), NEW k \in Nat, NEW h \in Nat, NEW o \in Sight, o.fleet # k,
           TrackHolds(t, u, k, h)
    PROVE  TrackHolds(t, Append(u, o), k, h)
<1> DEFINE w == Append(u, o)
<1>1. \A i \in DOMAIN u : i \in DOMAIN w /\ w[i] = u[i]
    OBVIOUS
<1>2. \A i \in DOMAIN w : (i \in DOMAIN u /\ w[i] = u[i]) \/ w[i] = o
    OBVIOUS
<1> HIDE DEF w
<1>3. Backed(t.prints, w, k)
    BY <1>1 DEF TrackHolds, Backed, Shown, ShownBy
<1>4. Ordered(w, k) => Ordered(u, k)
    BY <1>1 DEF Ordered
<1>5. \A least : Remembers(t.prints, u, k, least) => Remembers(t.prints, w, k, least)
    BY <1>2 DEF Remembers
<1>6. TrackHolds(t, w, k, h)
    BY <1>3, <1>4, <1>5 DEF TrackHolds
<1> QED
    BY <1>6 DEF w

(* An observation is told of the addresses that are young enough, and of   *)
(* no others.                                                              *)
Told(ips, u, k, p, least) ==
    \A a \in ips : \E i \in DOMAIN u : u[i].fleet = k /\ u[i].print = p /\ u[i].address = a /\ u[i].at >= least
ToldAll(ips, u, k, p, least) ==
    \A i \in DOMAIN u : u[i].fleet = k /\ u[i].print = p /\ u[i].at >= least => u[i].address \in ips

SeenRightly(t, u, k, h, o) ==
    LET e == Crowd!Seen(t.prints[o.print], o.address, o.at, t.window)
        d == [t EXCEPT !.prints[o.print] = e]
        w == Append(u, o) IN
    /\ d \in Track /\ d.window = t.window /\ TrackHolds(d, w, k, h)
    /\ Told(Crowd!Counted(e), w, k, o.print, o.at - t.window)
    /\ Ordered(w, k) => ToldAll(Crowd!Counted(e), w, k, o.print, h - Horizon(t.window))

\* A tracker that has seen an address holds what it should.
LEMMA SeenHolds ==
    ASSUME NEW t \in Track, NEW u \in Seq(Sight), NEW k \in Nat, NEW h \in Nat, NEW o \in Sight, o.fleet = k,
           o.at <= h, TrackHolds(t, u, k, h)
    PROVE  SeenRightly(t, u, k, h, o)
<1> DEFINE P == t.prints
           x == P[o.print]
           e == Crowd!Seen(x, o.address, o.at, t.window)
           Q == [P EXCEPT ![o.print] = e]
           d == [t EXCEPT !.prints = Q]
           w == Append(u, o)
           old == o.at - t.window
           least == h - Horizon(t.window)
<1>1. P \in [Crowd!Prints -> Entries] /\ t.window \in Nat
    BY DEF Track
<1>2. o.print \in Crowd!Prints /\ o.at \in Nat \ {0} /\ o.address \in Addresses
    BY DEF Sight
<1>3. x \in Entries /\ x.last \in Nat /\ \A a \in Addresses : x.ips[a] \in Nat
    BY <1>1, <1>2 DEF Entries
<1>4. old \in Int /\ least \in Int /\ old <= least /\ old <= o.at /\ least <= h
  <2>1. Horizon(t.window) \in Nat /\ Horizon(t.window) <= t.window
      BY <1>1, Horizons
  <2> QED
      BY <1>1, <1>2, <2>1
<1>5. /\ e.last = o.at /\ e.ips[o.address] = o.at
      /\ \A a \in Addresses \ {o.address} : e.ips[a] = IF x.ips[a] < old THEN 0 ELSE x.ips[a]
      /\ e \in Entries
  <2> DEFINE I == [a \in Addresses |-> IF a = o.address THEN o.at ELSE IF x.ips[a] < old THEN 0 ELSE x.ips[a]]
  <2>1. e = [last |-> o.at, ips |-> I]
      BY DEF Crowd!Seen
  <2> HIDE DEF x, old
  <2>2. I \in [Addresses -> Nat]
      BY <1>2, <1>3
  <2> HIDE DEF e
  <2>3. I[o.address] = o.at /\ \A a \in Addresses \ {o.address} : I[a] = IF x.ips[a] < old THEN 0 ELSE x.ips[a]
      BY <1>2
  <2> HIDE DEF I
  <2> QED
      BY <1>2, <2>1, <2>2, <2>3 DEF Entries
<1> HIDE DEF e
<1>6. /\ Q \in [Crowd!Prints -> Entries] /\ Q[o.print] = e
      /\ \A p \in Crowd!Prints \ {o.print} : Q[p] = P[p]
    BY <1>1, <1>2, <1>5
<1> HIDE DEF Q
<1>7. d \in Track /\ d.window = t.window /\ d.prints = Q
    BY <1>6 DEF Track
<1>8. /\ \A i \in DOMAIN u : i \in DOMAIN w /\ w[i] = u[i]
      /\ \A i \in DOMAIN w : (i \in DOMAIN u /\ w[i] = u[i]) \/ w[i] = o
    OBVIOUS
<1>9. \E i \in DOMAIN w : w[i] = o /\ \A j \in DOMAIN u : j <= i
  <2>1. Len(u) + 1 \in DOMAIN w /\ w[Len(u) + 1] = o /\ \A j \in DOMAIN u : j <= Len(u) + 1
      OBVIOUS
  <2> QED
      BY <2>1
<1>10. \A i \in DOMAIN u : u[i].at \in Nat \ {0} /\ u[i].print \in Crowd!Prints /\ u[i].address \in Addresses
    BY Sights
<1>11. Backed(P, u, k) /\ (Ordered(u, k) => NoneLater(P) /\ Remembers(P, u, k, least))
    BY DEF TrackHolds
<1> HIDE DEF P, d, w, least, old, x
<1>12. Backed(Q, w, k)
  <2>1. Backed(P, w, k)
      BY <1>8, <1>11 DEF Backed, Shown, ShownBy
  <2>2. Shown(w, k, o.print, o.at) /\ ShownBy(w, k, o.print, o.address, o.at)
      BY <1>9 DEF Shown, ShownBy
  <2>3. ASSUME NEW a \in Addresses, e.ips[a] # 0 PROVE ShownBy(w, k, o.print, a, e.ips[a])
    <3>1. CASE a = o.address
        BY <1>5, <2>2, <3>1
    <3>2. CASE a # o.address
      <4>1. e.ips[a] = x.ips[a]
          BY <1>5, <2>3, <3>2
      <4> QED
          BY <1>2, <2>1, <2>3, <4>1 DEF Backed, x
    <3> QED
        BY <3>1, <3>2
  <2>4. ASSUME NEW p \in Crowd!Prints
        PROVE  /\ Q[p].last # 0 => Shown(w, k, p, Q[p].last)
               /\ \A a \in Addresses : Q[p].ips[a] # 0 => ShownBy(w, k, p, a, Q[p].ips[a])
    <3>1. CASE p = o.print
        BY <1>5, <1>6, <2>2, <2>3, <3>1
    <3>2. CASE p # o.print
        BY <1>6, <2>1, <3>2 DEF Backed
    <3> QED
        BY <3>1, <3>2
  <2> QED
      BY <2>4 DEF Backed
<1>13. ASSUME Ordered(w, k)
       PROVE  /\ NoneLater(Q) /\ Remembers(Q, w, k, least)
              /\ ToldAll(Crowd!Counted(e), w, k, o.print, least)
  <2>1. Ordered(u, k)
      BY <1>8, <1>13 DEF Ordered
  <2>2. NoneLater(P) /\ Remembers(P, u, k, least)
      BY <1>11, <2>1
  <2>3. \A i \in DOMAIN u : u[i].fleet = k => u[i].at <= o.at
      BY <1>8, <1>9, <1>13 DEF Ordered
  <2>4. x.last <= o.at
    <3>1. x.last # 0 => Shown(u, k, o.print, x.last)
        BY <1>2, <1>11 DEF Backed, x
    <3> QED
        BY <1>2, <1>3, <2>3, <3>1 DEF Shown
  <2>5. \A a \in Addresses : x.ips[a] <= x.last
      BY <1>2, <2>2 DEF NoneLater, x
  <2>6. \A a \in Addresses : e.ips[a] <= e.last
      BY <1>2, <1>3, <1>5, <2>4, <2>5
  <2>7. NoneLater(Q)
      BY <1>6, <2>2, <2>6 DEF NoneLater
  <2>8. ASSUME NEW i \in DOMAIN w, w[i].fleet = k, ~(w[i].at < least)
        PROVE  Q[w[i].print].ips[w[i].address] >= w[i].at
    <3>1. CASE w[i] = o
        BY <1>2, <1>5, <1>6, <3>1
    <3>2. CASE i \in DOMAIN u /\ w[i] = u[i]
      <4>1. P[u[i].print].ips[u[i].address] >= u[i].at
          BY <2>2, <2>8, <3>2 DEF Remembers
      <4>2. CASE u[i].print = o.print
        <5>1. x.ips[u[i].address] >= u[i].at
            BY <4>1, <4>2 DEF x
        <5>2. CASE u[i].address = o.address
            BY <1>5, <1>6, <2>3, <2>8, <3>2, <4>2, <5>2, <1>2, <1>10
        <5>3. CASE u[i].address # o.address
          <6>1. ~(x.ips[u[i].address] < old)
              BY <1>3, <1>4, <1>10, <2>8, <3>2, <5>1
          <6>2. e.ips[u[i].address] = x.ips[u[i].address]
              BY <1>5, <1>10, <3>2, <5>3, <6>1
          <6> QED
              BY <1>6, <1>2, <3>2, <4>2, <5>1, <6>2
        <5> QED
            BY <5>2, <5>3
      <4>3. CASE u[i].print # o.print
          BY <1>6, <1>10, <3>2, <4>1, <4>3
      <4> QED
          BY <4>2, <4>3
    <3> QED
        BY <1>8, <3>1, <3>2
  <2>9. Remembers(Q, w, k, least)
      BY <2>8 DEF Remembers
  <2>10. ASSUME NEW i \in DOMAIN w, w[i].fleet = k, w[i].print = o.print, w[i].at >= least
         PROVE  w[i].address \in Crowd!Counted(e)
    <3>1. w[i].at \in Nat \ {0} /\ w[i].address \in Addresses
        BY <1>2, <1>8, <1>10
    <3>2. Q[w[i].print].ips[w[i].address] >= w[i].at
        BY <1>4, <2>8, <2>10, <3>1
    <3>3. e.ips[w[i].address] >= w[i].at
        BY <1>2, <1>6, <2>10, <3>2
    <3>4. e.ips[w[i].address] # 0
        BY <3>1, <3>3
    <3> QED
        BY <3>1, <3>4 DEF Crowd!Counted
  <2> QED
      BY <2>7, <2>9, <2>10 DEF ToldAll
<1>14. Told(Crowd!Counted(e), w, k, o.print, old)
  <2>1. ASSUME NEW a \in Crowd!Counted(e)
        PROVE  \E i \in DOMAIN w : w[i].fleet = k /\ w[i].print = o.print /\ w[i].address = a /\ w[i].at >= old
    <3>1. a \in Addresses /\ e.ips[a] # 0
        BY <2>1 DEF Crowd!Counted
    <3>2. ShownBy(w, k, o.print, a, e.ips[a])
        BY <1>2, <1>6, <1>12, <3>1 DEF Backed
    <3>3. e.ips[a] >= old
        BY <1>2, <1>3, <1>4, <1>5, <3>1
    <3> QED
        BY <3>2, <3>3 DEF ShownBy
  <2> QED
      BY <2>1 DEF Told
<1>15. TrackHolds(d, w, k, h)
    BY <1>7, <1>12, <1>13 DEF TrackHolds, least
<1>16. [t EXCEPT !.prints[o.print] = e] = d
    BY DEF d, Q, P, Track
<1>17. Ordered(w, k) => ToldAll(Crowd!Counted(e), w, k, o.print, least)
    BY <1>13
<1>18. /\ d \in Track /\ d.window = t.window /\ TrackHolds(d, w, k, h)
       /\ Told(Crowd!Counted(e), w, k, o.print, old)
       /\ Ordered(w, k) => ToldAll(Crowd!Counted(e), w, k, o.print, least)
    BY <1>7, <1>14, <1>15, <1>17
<1>19. [t EXCEPT !.prints[o.print] = e] \in Track
    BY <1>16, <1>18
<1> QED
    BY <1>16, <1>18, Zenon DEF SeenRightly, e, x, P, w, old, least

(* The goroutines know trackers and clock readings that exist, and only    *)
(* trackers that exist were observed.                                      *)
FleetTyped ==
    /\ hour \in Nat \ {0} /\ rep \in Nat \ {0} /\ DOMAIN call = Calls
    /\ trackers \in Seq(Track) /\ fleet \in DOMAIN trackers
    /\ used \in Seq(Sight) /\ \A i \in DOMAIN used : used[i].fleet \in DOMAIN trackers
CallsTyped ==
    \A w \in Calls : call[w] # None =>
        /\ call[w].fleet \in DOMAIN trackers /\ call[w].address \in Addresses
        /\ call[w].print \in Crowd!Prints /\ call[w].at \in 1..hour
CollectTyped == collect # None => collect.fleet \in DOMAIN trackers /\ collect.at \in 1..hour
TracksHold == \A k \in DOMAIN trackers : TrackHolds(trackers[k], used, k, hour)
FoundTold ==
    found # None =>
        /\ found.fleet \in DOMAIN trackers
        /\ Told(found.ips, used, found.fleet, found.print, found.at - trackers[found.fleet].window)
        /\ Ordered(used, found.fleet) =>
               ToldAll(found.ips, used, found.fleet, found.print,
                       found.now - Horizon(trackers[found.fleet].window))

FleetInv == FleetTyped /\ CallsTyped /\ CollectTyped /\ TracksHold /\ FoundTold

\* A new tracker holds nothing, and nothing has been observed of it.
LEMMA NewTracks ==
    ASSUME NEW window \in Int, NEW most \in Int
    PROVE  LET t == Crowd!NewFleetTracker(window, most) IN
           /\ t \in Track
           /\ \A k \in Nat : \A u \in Seq(Sight) : \A h \in Nat :
                 (\A i \in DOMAIN u : u[i].fleet # k) => TrackHolds(t, u, k, h)
<1> DEFINE w == IF window <= 0 THEN DefaultWindow ELSE window
           m == IF most <= 0 THEN DefaultPrints ELSE most
           P == [p \in Crowd!Prints |-> Crowd!NoEntry]
           t == [window |-> w, maxPrints |-> m, prints |-> P]
<1>1. w \in Nat /\ m \in Int
    BY FleetAssumption
<1>2. Crowd!NoEntry \in Entries /\ Crowd!NoEntry.last = 0 /\ \A a \in Addresses : Crowd!NoEntry.ips[a] = 0
    BY DEF Crowd!NoEntry, Entries
<1>3. P \in [Crowd!Prints -> Entries] /\ \A p \in Crowd!Prints : P[p] = Crowd!NoEntry
    BY <1>2
<1>4. Crowd!NewFleetTracker(window, most) = t
    BY DEF Crowd!NewFleetTracker
<1> HIDE DEF w, m, P
<1>5. t \in Track /\ t.prints = P
    BY <1>1, <1>3 DEF Track
<1> HIDE DEF t
<1>6. ASSUME NEW k \in Nat, NEW u \in Seq(Sight), NEW h \in Nat, \A i \in DOMAIN u : u[i].fleet # k
      PROVE  TrackHolds(t, u, k, h)
    BY <1>2, <1>3, <1>5, <1>6 DEF TrackHolds, Backed, NoneLater, Remembers
<1> QED
    BY <1>4, <1>5, <1>6

\* The invariant of the fleet tracker holds at the start.
LEMMA FleetStarts == Crowd!Init => FleetInv
<1> SUFFICES ASSUME Crowd!Init PROVE FleetInv
    OBVIOUS
<1> DEFINE t == Crowd!NewFleetTracker(0, 0)
<1>1. /\ hour = 1 /\ rep = 1 /\ fleet = 1 /\ trackers = <<t>> /\ call = [w \in Calls |-> None]
      /\ collect = None /\ used = <<>> /\ found = None
    BY DEF Crowd!Init
<1>2. t \in Track /\ (\A k \in Nat : \A u \in Seq(Sight) : \A h \in Nat :
                         (\A i \in DOMAIN u : u[i].fleet # k) => TrackHolds(t, u, k, h))
    BY NewTracks
<1> HIDE DEF t
<1>3. trackers \in Seq(Track) /\ DOMAIN trackers = {1} /\ trackers[1] = t
    BY <1>1, <1>2
<1>4. used \in Seq(Sight) /\ DOMAIN used = {}
    BY <1>1
<1>5. TracksHold
  <2>1. TrackHolds(t, used, 1, 1)
      BY <1>2, <1>4
  <2> QED
      BY <1>1, <1>3, <2>1 DEF TracksHold
<1> QED
    BY <1>1, <1>3, <1>4, <1>5 DEF FleetInv, FleetTyped, CallsTyped, CollectTyped, FoundTold

\* A tracker that takes the place of one is one of the trackers.
LEMMA OneTracker ==
    ASSUME NEW ts \in Seq(Track), NEW k \in DOMAIN ts, NEW t \in Track, t.window = ts[k].window
    PROVE  LET r == [ts EXCEPT ![k] = t] IN
           /\ r \in Seq(Track) /\ DOMAIN r = DOMAIN ts /\ r[k] = t
           /\ \A i \in DOMAIN ts : i # k => r[i] = ts[i]
           /\ \A i \in DOMAIN ts : r[i].window = ts[i].window
OBVIOUS

\* The collection drops what is older than the idle time.
LEMMA CollectKeeps ==
    ASSUME FleetInv, Crowd!GC
    PROVE  FleetInv'
<1>1. /\ collect # None /\ collect' = None /\ UNCHANGED <<hour, rep, fleet, call, used, found>>
      /\ trackers' = [trackers EXCEPT ![collect.fleet] = Crowd!Drop(@, collect.at - MaxIdle)]
    BY DEF Crowd!GC
<1> DEFINE k == collect.fleet
           t == trackers[k]
           d == Crowd!Drop(t, collect.at - MaxIdle)
<1>2. k \in DOMAIN trackers /\ collect.at \in 1..hour /\ hour \in Nat /\ used \in Seq(Sight) /\ trackers \in Seq(Track)
    BY <1>1 DEF FleetInv, CollectTyped, FleetTyped
<1>3. t \in Track /\ k \in Nat /\ t.window \in Nat /\ TrackHolds(t, used, k, hour)
  <2>1. t \in Track /\ k \in Nat
      BY <1>2
  <2> QED
      BY <1>2, <2>1 DEF FleetInv, TracksHold, Track
<1>4. collect.at - MaxIdle \in Int /\ collect.at - MaxIdle <= hour - Horizon(t.window)
  <2>1. MaxIdle \in Nat /\ Horizon(t.window) \in Nat /\ Horizon(t.window) <= MaxIdle
      BY <1>3, Horizons, FleetAssumption
  <2> HIDE DEF t
  <2> QED
      BY <1>2, <2>1
<1> HIDE DEF k, t
<1>5. d \in Track /\ d.window = t.window /\ TrackHolds(d, used, k, hour)
    BY <1>2, <1>3, <1>4, DropHolds
<1> HIDE DEF d
<1>6. trackers' = [trackers EXCEPT ![k] = d]
    BY <1>1 DEF k, t, d
<1> DEFINE r == [trackers EXCEPT ![k] = d]
<1>7. /\ r \in Seq(Track) /\ DOMAIN r = DOMAIN trackers /\ r[k] = d
      /\ \A i \in DOMAIN trackers : i # k => r[i] = trackers[i]
      /\ \A i \in DOMAIN trackers : r[i].window = trackers[i].window
    BY <1>2, <1>5, OneTracker DEF t
<1> HIDE DEF r
<1>8. trackers' = r
    BY <1>6 DEF r
<1>9. TracksHold'
    BY <1>1, <1>5, <1>7, <1>8 DEF FleetInv, TracksHold
<1>10. FleetTyped' /\ CallsTyped' /\ CollectTyped'
    BY <1>1, <1>7, <1>8 DEF FleetInv, FleetTyped, CallsTyped, CollectTyped
<1>11. FoundTold'
    BY <1>1, <1>7, <1>8 DEF FleetInv, FoundTold
<1> QED
    BY <1>9, <1>10, <1>11 DEF FleetInv

\* A request is told of the addresses under the lock of its tracker.
LEMMA ObserveKeeps ==
    ASSUME FleetInv, NEW w \in Calls, Crowd!Observe(w)
    PROVE  FleetInv'
<1> DEFINE c == call[w]
           k == c.fleet
           b == trackers[k]
           t == Crowd!Pressed(b, c.at)
           o == [fleet |-> k, address |-> c.address, print |-> c.print, at |-> c.at]
           e == Crowd!Seen(t.prints[c.print], c.address, c.at, t.window)
           d == [t EXCEPT !.prints[c.print] = e]
           u == Append(used, o)
<1>1. /\ c # None /\ trackers' = [trackers EXCEPT ![k] = d] /\ used' = u
      /\ call' = [call EXCEPT ![w] = None] /\ UNCHANGED <<hour, rep, fleet, collect>>
    BY DEF Crowd!Observe
<1>2. /\ found'.fleet = k /\ found'.print = c.print /\ found'.at = c.at
      /\ found'.now = hour /\ found'.ips = Crowd!Counted(e)
    BY DEF Crowd!Observe
<1>3. /\ k \in DOMAIN trackers /\ c.address \in Addresses /\ c.print \in Crowd!Prints /\ c.at \in 1..hour
      /\ hour \in Nat \ {0} /\ used \in Seq(Sight) /\ trackers \in Seq(Track) /\ DOMAIN call = Calls
    BY <1>1 DEF FleetInv, CallsTyped, FleetTyped
<1>4. b \in Track /\ k \in Nat /\ b.window \in Nat /\ TrackHolds(b, used, k, hour)
  <2>1. b \in Track /\ k \in Nat
      BY <1>3
  <2> QED
      BY <1>3, <2>1 DEF FleetInv, TracksHold, Track
<1>5. o \in Sight /\ o.fleet = k /\ o.at = c.at /\ o.address = c.address /\ o.print = c.print
    BY <1>3, <1>4 DEF Sight
<1> HIDE DEF c, k, b, o
<1>6. t \in Track /\ t.window = b.window /\ TrackHolds(t, used, k, hour)
  <2>1. CASE t = b
      BY <1>4, <2>1
  <2>2. CASE t = Crowd!Drop(b, c.at - b.window)
    <3>1. c.at - b.window \in Int /\ c.at - b.window <= hour - Horizon(b.window)
      <4>1. Horizon(b.window) \in Nat /\ Horizon(b.window) <= b.window
          BY <1>4, Horizons
      <4> QED
          BY <1>3, <1>4, <4>1
    <3> QED
        BY <1>3, <1>4, <2>2, <3>1, DropHolds
  <2> QED
      BY <2>1, <2>2 DEF Crowd!Pressed
<1> HIDE DEF t
<1>7. /\ d \in Track /\ d.window = t.window /\ TrackHolds(d, u, k, hour)
      /\ Told(Crowd!Counted(e), u, k, c.print, c.at - t.window)
      /\ Ordered(u, k) => ToldAll(Crowd!Counted(e), u, k, c.print, hour - Horizon(t.window))
  <2> DEFINE e0 == Crowd!Seen(t.prints[o.print], o.address, o.at, t.window)
             d0 == [t EXCEPT !.prints[o.print] = e0]
             u0 == Append(used, o)
  <2>1. /\ d0 \in Track /\ d0.window = t.window /\ TrackHolds(d0, u0, k, hour)
        /\ Told(Crowd!Counted(e0), u0, k, o.print, o.at - t.window)
        /\ Ordered(u0, k) => ToldAll(Crowd!Counted(e0), u0, k, o.print, hour - Horizon(t.window))
    <3>1. o \in Sight /\ o.fleet = k /\ o.at <= hour /\ hour \in Nat
        BY <1>3, <1>5
    <3> HIDE DEF e0, d0, u0
    <3>2. SeenRightly(t, used, k, hour, o)
        BY <1>3, <1>4, <1>6, <3>1, SeenHolds
    <3> QED
        BY <3>2, Zenon DEF SeenRightly, e0, d0, u0
  <2>2. e0 = e /\ d0 = d /\ u0 = u
      BY <1>5, Zenon
  <2> HIDE DEF e0, d0, u0, e, d, u
  <2> QED
      BY <1>5, <2>1, <2>2
<1>8. u \in Seq(Sight) /\ \A i \in DOMAIN u : u[i].fleet \in DOMAIN trackers
    BY <1>3, <1>5 DEF FleetInv, FleetTyped
<1>9. \A i \in DOMAIN trackers : i # k => TrackHolds(trackers[i], u, i, hour)
  <2> SUFFICES ASSUME NEW i \in DOMAIN trackers, i # k PROVE TrackHolds(trackers[i], u, i, hour)
      OBVIOUS
  <2>1. trackers[i] \in Track /\ i \in Nat /\ TrackHolds(trackers[i], used, i, hour)
      BY <1>3 DEF FleetInv, TracksHold
  <2> QED
      BY <1>3, <1>5, <2>1, OtherHolds
<1> HIDE DEF d, u, e
<1> DEFINE r == [trackers EXCEPT ![k] = d]
<1>10. /\ r \in Seq(Track) /\ DOMAIN r = DOMAIN trackers /\ r[k] = d
       /\ \A i \in DOMAIN trackers : i # k => r[i] = trackers[i]
       /\ \A i \in DOMAIN trackers : r[i].window = trackers[i].window
    BY <1>3, <1>6, <1>7, OneTracker DEF b
<1> HIDE DEF r
<1>11. trackers' = r
    BY <1>1 DEF r
<1>12. TracksHold'
    BY <1>1, <1>7, <1>9, <1>10, <1>11 DEF TracksHold
<1>13. FoundTold'
    BY <1>1, <1>2, <1>3, <1>6, <1>7, <1>10, <1>11 DEF FoundTold, b
<1>14. FleetTyped' /\ CollectTyped'
    BY <1>1, <1>8, <1>10, <1>11, <1>3 DEF FleetInv, FleetTyped, CollectTyped
<1>15. CallsTyped'
  <2>1. \A v \in Calls : call'[v] # None => call'[v] = call[v]
      BY <1>1, <1>3
  <2> QED
      BY <1>1, <1>10, <1>11, <2>1 DEF FleetInv, CallsTyped
<1> QED
    BY <1>12, <1>13, <1>14, <1>15 DEF FleetInv

\* A reload makes another tracker when it changes the window.
LEMMA ReloadKeeps ==
    ASSUME FleetInv, Crowd!SetIPReputation
    PROVE  FleetInv'
<1> DEFINE r == Reloads[rep + 1]
           t == Crowd!NewFleetTracker(r.window, r.maxPrints)
<1>1. /\ rep < Len(Reloads) /\ rep' = rep + 1 /\ UNCHANGED <<hour, call, collect, used, found>>
      /\ \/ trackers' = Append(trackers, t) /\ fleet' = Len(trackers) + 1
         \/ UNCHANGED <<trackers, fleet>>
    BY DEF Crowd!SetIPReputation
<1>2. /\ rep \in Nat \ {0} /\ trackers \in Seq(Track) /\ used \in Seq(Sight) /\ hour \in Nat
      /\ \A i \in DOMAIN used : used[i].fleet \in DOMAIN trackers
    BY DEF FleetInv, FleetTyped
<1>3. CASE UNCHANGED <<trackers, fleet>>
    BY <1>1, <1>2, <1>3
       DEF FleetInv, FleetTyped, CallsTyped, CollectTyped, TracksHold, FoundTold
<1>4. CASE trackers' = Append(trackers, t) /\ fleet' = Len(trackers) + 1
  <2>1. r.window \in Int /\ r.maxPrints \in Int
    <3>1. rep + 1 \in 1..Len(Reloads)
        BY <1>1, <1>2, FleetAssumption
    <3> QED
        BY <3>1, FleetAssumption
  <2>2. t \in Track /\ (\A k \in Nat : \A u \in Seq(Sight) : \A h \in Nat :
                           (\A i \in DOMAIN u : u[i].fleet # k) => TrackHolds(t, u, k, h))
      BY <2>1, NewTracks
  <2> HIDE DEF r, t
  <2> DEFINE n == Len(trackers) + 1
             ts == Append(trackers, t)
  <2>3. /\ ts \in Seq(Track) /\ DOMAIN ts = DOMAIN trackers \cup {n} /\ n \notin DOMAIN trackers /\ n \in Nat
        /\ ts[n] = t /\ \A i \in DOMAIN trackers : ts[i] = trackers[i]
      BY <1>2, <2>2
  <2>4. trackers' = ts /\ fleet' = n
      BY <1>4
  <2> HIDE DEF ts, n
  <2>5. TrackHolds(t, used, n, hour)
      BY <1>2, <2>2, <2>3
  <2>6. TracksHold'
      BY <1>1, <2>3, <2>4, <2>5 DEF FleetInv, TracksHold
  <2>7. FleetTyped' /\ CallsTyped' /\ CollectTyped'
      BY <1>1, <1>2, <2>3, <2>4 DEF FleetInv, FleetTyped, CallsTyped, CollectTyped
  <2>8. FoundTold'
      BY <1>1, <2>3, <2>4 DEF FleetInv, FoundTold
  <2> QED
      BY <2>6, <2>7, <2>8 DEF FleetInv
<1> QED
    BY <1>1, <1>3, <1>4

\* Every step of the fleet tracker keeps the invariant.
LEMMA FleetKeeps == FleetInv /\ [Crowd!Next]_Crowd!vars => FleetInv'
<1> SUFFICES ASSUME FleetInv, [Crowd!Next]_Crowd!vars PROVE FleetInv'
    OBVIOUS
<1>0. FleetTyped /\ CallsTyped /\ CollectTyped /\ TracksHold /\ FoundTold
    BY DEF FleetInv
<1>1. CASE \E w \in Calls : Crowd!Ask(w)
  <2>1. PICK w \in Calls : Crowd!Ask(w)
      BY <1>1
  <2>2. PICK a \in Addresses, s \in Shapes :
            call' = [call EXCEPT ![w] = [fleet |-> fleet, tiers |-> Crowd!Tiers, address |-> a,
                                         print |-> Crowd!Fingerprint(s), at |-> hour]]
      BY <2>1 DEF Crowd!Ask
  <2>3. UNCHANGED <<hour, rep, fleet, trackers, collect, used, found>>
      BY <2>1 DEF Crowd!Ask
  <2>4. Crowd!Fingerprint(s) \in Crowd!Prints
      BY DEF Crowd!Prints
  <2> DEFINE n == [fleet |-> fleet, tiers |-> Crowd!Tiers, address |-> a, print |-> Crowd!Fingerprint(s), at |-> hour]
  <2>5. n.fleet = fleet /\ n.address = a /\ n.print \in Crowd!Prints /\ n.at = hour
      BY <2>4
  <2>6. call' = [call EXCEPT ![w] = n]
      BY <2>2
  <2> HIDE DEF n
  <2>7. DOMAIN call' = Calls /\ \A v \in Calls : call'[v] = call[v] \/ call'[v] = n
      BY <1>0, <2>6 DEF FleetTyped
  <2>8. hour \in 1..hour
      BY <1>0 DEF FleetTyped
  <2>9. CallsTyped'
      BY <1>0, <2>3, <2>5, <2>7, <2>8 DEF CallsTyped, FleetTyped
  <2> QED
      BY <1>0, <2>3, <2>7, <2>9 DEF FleetInv, FleetTyped, CollectTyped, TracksHold, FoundTold
<1>2. CASE \E w \in Calls : Crowd!Observe(w)
    BY <1>2, ObserveKeeps
<1>3. CASE Crowd!SetIPReputation
    BY <1>3, ReloadKeeps
<1>4. CASE Crowd!GCAsk
  <2>1. collect' = [fleet |-> fleet, at |-> hour] /\ UNCHANGED <<hour, rep, fleet, trackers, call, used, found>>
      BY <1>4 DEF Crowd!GCAsk
  <2> QED
      BY <1>0, <2>1 DEF FleetInv, FleetTyped, CallsTyped, CollectTyped, TracksHold, FoundTold
<1>5. CASE Crowd!GC
    BY <1>5, CollectKeeps
<1>6. CASE Crowd!Pass
  <2>1. hour' = hour + 1 /\ UNCHANGED <<rep, fleet, trackers, call, collect, used, found>>
      BY <1>6 DEF Crowd!Pass
  <2>2. hour \in Nat /\ hour' \in Nat \ {0} /\ hour <= hour' /\ 1..hour \subseteq 1..hour'
      BY <1>0, <2>1 DEF FleetTyped
  <2>3. TracksHold'
    <3>1. \A k \in DOMAIN trackers : trackers[k] \in Track /\ k \in Nat /\ TrackHolds(trackers[k], used, k, hour)
        BY <1>0 DEF FleetTyped, TracksHold
    <3>2. used \in Seq(Sight)
        BY <1>0 DEF FleetTyped
    <3>3. PICK g \in Nat : g = hour'
        BY <2>2
    <3>4. hour <= g
        BY <2>2, <3>3
    <3>5. \A k \in DOMAIN trackers : TrackHolds(trackers[k], used, k, g)
        BY <2>2, <3>1, <3>2, <3>4, LaterHolds
    <3> QED
        BY <2>1, <3>3, <3>5 DEF TracksHold
  <2> QED
      BY <1>0, <2>1, <2>2, <2>3 DEF FleetInv, FleetTyped, CallsTyped, CollectTyped, FoundTold
<1>7. CASE UNCHANGED Crowd!vars
    BY <1>0, <1>7 DEF Crowd!vars, FleetInv, FleetTyped, CallsTyped, CollectTyped, TracksHold, FoundTold
<1> QED
    BY <1>1, <1>2, <1>3, <1>4, <1>5, <1>6, <1>7 DEF Crowd!Next

\* A request is told of no address that did not show its fingerprint within the window,
\* and, while the readings of the clock get the lock in their order, of every address
\* that did (detector/fleet.go Observe, GC; scorer.go SetIPReputation).
THEOREM FleetIsCounted == Crowd!Spec => []FleetCounts
<1>1. FleetInv => FleetCounts
  <2> SUFFICES ASSUME FleetInv, found # None PROVE Crowd!FleetCounts
      BY DEF FleetCounts, In, Crowd!FleetCounts
  <2> DEFINE window == trackers[found.fleet].window
             new == found.now - IF window < MaxIdle THEN window ELSE MaxIdle
  <2>1. Told(found.ips, used, found.fleet, found.print, found.at - window)
      BY DEF FleetInv, FoundTold
  <2>2. Ordered(used, found.fleet) => ToldAll(found.ips, used, found.fleet, found.print, new)
      BY DEF FleetInv, FoundTold, Horizon
  <2> HIDE DEF window, new
  <2>3. found.ips \subseteq Crowd!Since(found.at - window)
      BY <2>1 DEF Told, Crowd!Since, Crowd!Mine
  <2>4. Crowd!InOrder => Ordered(used, found.fleet)
      BY DEF Crowd!InOrder, Crowd!Mine, Ordered
  <2>5. Crowd!InOrder => Crowd!Since(new) \subseteq found.ips
      BY <2>2, <2>4 DEF ToldAll, Crowd!Since, Crowd!Mine
  <2> QED
      BY <2>3, <2>5 DEF Crowd!FleetCounts, window, new
<1> QED
    BY <1>1, FleetStarts, FleetKeeps, PTL DEF Crowd!Spec

-----------------------------------------------------------------------------
(* The scorer. *)

ToolNames == {"toolchain_hmm", "toolchain_hmm_partial", "toolchain_full", "toolchain_partial",
              "cache_miss_anomaly", "auth_probe_sequence", "schema_first", "header_mutation"}
Tiers == Seq([least : Nat, points : Nat \ {0}]) \ {<<>>}
\* None of these signals is among those of S.
Apart(S) == \A s \in S : s.name \notin ToolNames

\* The module that is instantiated has the same sizes and bounds.
LEMMA RateCounts == (\A S : Rate!Cardinality(S) = Cardinality(S)) /\ (\A S : Rate!Min(S) = Min(S))
                    /\ (\A S : Rate!Max(S) = Max(S))
BY Zenon DEF Rate!Cardinality, Cardinality, Rate!Min, Min, Rate!Max, Max

\* A signal has its name, and fires with points alone.
LEMMA SignalIs ==
    ASSUME NEW name, NEW points
    PROVE  /\ \A s \in Rate!Signal(name, points) : s.name = name
           /\ points > 0 => Rate!Fired(Rate!Signal(name, points), name)
           /\ ~(points > 0) => Rate!Signal(name, points) = {}
<1>1. CASE points > 0
  <2>1. Rate!Signal(name, points) = {[name |-> name, points |-> points]}
      BY <1>1 DEF Rate!Signal
  <2> QED
      BY <1>1, <2>1 DEF Rate!Fired
<1>2. CASE ~(points > 0)
    BY <1>2 DEF Rate!Signal
<1> QED
    BY <1>1, <1>2

\* So a signal of another name is apart.
LEMMA OthersApart == \A name : name \notin ToolNames => \A points : Apart(Rate!Signal(name, points))
BY SignalIs DEF Apart

\* A union of what is apart is apart.
LEMMA UnionApart == \A X : (\A S \in X : Apart(S)) => Apart(UNION X)
BY DEF Apart

\* What a wire is classified as has a name of its own.
LEMMA WireApart ==
    ASSUME NEW hello, NEW names, NEW points, {names[1], names[2], names[3]} \cap ToolNames = {}
    PROVE  Apart(Rate!Wire(hello, names, points))
<1> DEFINE X(n) == UNION {Rate!Signal(names[n], p) : p \in {points[1], points[2], points[3], points[4]}}
<1>1. \A n \in {1, 2, 3} : Apart(X(n))
    BY OthersApart, UnionApart DEF Apart
<1>2. Rate!Wire(hello, names, points) \subseteq X(1) \cup X(2) \cup X(3)
  <2>1. CASE hello = None
      BY <2>1 DEF Rate!Wire
  <2>2. CASE hello # None /\ hello.category \in {"agent", "scanner"}
    <3>1. Rate!Wire(hello, names, points) = Rate!Signal(names[1], IF hello.confidence < 80 THEN points[2] ELSE points[1])
        BY <2>2 DEF Rate!Wire
    <3> QED
        BY <3>1
  <2>3. CASE hello # None /\ hello.category = "bot"
    <3>1. Rate!Wire(hello, names, points) = Rate!Signal(names[2], points[3])
        BY <2>3 DEF Rate!Wire
    <3> QED
        BY <3>1
  <2>4. CASE hello # None /\ hello.category = "unknown"
    <3>1. Rate!Wire(hello, names, points) = Rate!Signal(names[3], points[4])
        BY <2>4 DEF Rate!Wire
    <3> QED
        BY <3>1
  <2>5. CASE hello # None /\ hello.category \notin {"agent", "scanner", "bot", "unknown"}
      BY <2>5 DEF Rate!Wire
  <2> QED
      BY <2>1, <2>2, <2>3, <2>4, <2>5
<1> QED
    BY <1>1, <1>2 DEF Apart

\* The signals of the request alone are none of these.
LEMMA RequestApart == \A c, q, d : Apart(Rate!RequestSignals(c, q, d))
<1> SUFFICES ASSUME NEW c, NEW q, NEW d PROVE Apart(Rate!RequestSignals(c, q, d))
    OBVIOUS
<1>1. Apart({})
    BY DEF Apart
<1>2. \A points : Apart(Rate!Signal("sparse_headers", points)) /\ Apart(Rate!Signal("wordlist_path", points))
                  /\ Apart(Rate!Signal("injection_marker", points)) /\ Apart(Rate!Signal("oob_interaction", points))
                  /\ Apart(Rate!Signal("ip_reputation", points)) /\ Apart(Rate!Signal("encoding_chain", points))
                  /\ Apart(Rate!Signal("api_blueprint_miss", points)) /\ Apart(Rate!Signal("canary_replay", points))
    BY OthersApart DEF ToolNames
<1>3. Apart(Rate!UserAgent(q, d))
  <2>1. \A points : Apart(Rate!Signal("empty_ua", points)) /\ Apart(Rate!Signal("suspicious_ua", points))
      BY OthersApart DEF ToolNames
  <2> QED
      BY <1>1, <2>1 DEF Rate!UserAgent
<1>4. Apart(Rate!SecFetch(q))
  <2>1. \A points : Apart(Rate!Signal("sec_fetch_absent", points)) /\ Apart(Rate!Signal("sec_fetch_partial", points))
      BY OthersApart DEF ToolNames
  <2> QED
      BY <1>1, <2>1 DEF Rate!SecFetch
<1>5. Apart(Rate!AcceptEncoding(q))
  <2>1. \A points : Apart(Rate!Signal("ae_browser_empty", points)) /\ Apart(Rate!Signal("ae_browser_no_br", points))
      BY OthersApart DEF ToolNames
  <2> QED
      BY <1>1, <2>1 DEF Rate!AcceptEncoding
<1>6. Apart(Rate!H3Mismatch(q))
  <2>1. \A points : Apart(Rate!Signal("h3_mismatch", points))
      BY OthersApart DEF ToolNames
  <2> QED
      BY <1>1, <2>1 DEF Rate!H3Mismatch
<1>7. Apart(Rate!TLS(q)) /\ Apart(Rate!H2(q))
    BY WireApart DEF Rate!TLS, Rate!H2, ToolNames
<1>8. Apart(Rate!CustomSignals(q))
  <2>1. \A c1 \in Registry.custom : Apart({[name |-> c1.name, points |-> c1.points]})
      BY ScoringAssumption DEF Apart, ToolNames
  <2> QED
      BY <1>1, <2>1 DEF Rate!CustomSignals, Apart
<1> QED
    BY <1>2, <1>3, <1>4, <1>5, <1>6, <1>7, <1>8, UnionApart, ZenonT(60) DEF Rate!RequestSignals

\* Of those of the live state, header_mutation is.
LEMMA StateApart ==
    ASSUME NEW st, NEW q, NEW d
    PROVE  \A s \in Rate!StateSignals(st, q, d) :
               s.name \in ToolNames => s.name = "header_mutation" /\ Rate!HeaderMutation(st, d) > 0
<1> DEFINE h == Rate!HeaderMutation(st, d)
           rest == {Rate!Signal("ua_rotation", Rate!UARotation(st)), Rate!RequestGraph(st),
                    Rate!Signal("cookie_stateless", Rate!CookieEcology(st)),
                    Rate!Signal(IF Rate!Fanout(st) >= 30 THEN "fanout_extreme" ELSE "fanout_high", Rate!Fanout(st)),
                    Rate!Signal("recovery_pivot", Rate!FailureRecovery(st, q)),
                    Rate!Signal("bundle_mining", Rate!BundleMining(st)),
                    Rate!Signal("no_cookie_return", Rate!NoCookieReturn(st, d))}
<1>1. \A s \in Rate!Signal("header_mutation", h) : s.name = "header_mutation" /\ h > 0
  <2> HIDE DEF h
  <2> QED
      BY SignalIs
<1>2. Apart(Rate!RequestGraph(st))
  <2>1. \A points : Apart(Rate!Signal("graph_flat", points)) /\ Apart(Rate!Signal("graph_doc_heavy", points))
      BY OthersApart DEF ToolNames
  <2> QED
      BY <2>1 DEF Rate!RequestGraph, Apart
<1>3. \A points : Apart(Rate!Signal("ua_rotation", points)) /\ Apart(Rate!Signal("cookie_stateless", points))
                  /\ Apart(Rate!Signal("recovery_pivot", points)) /\ Apart(Rate!Signal("bundle_mining", points))
                  /\ Apart(Rate!Signal("no_cookie_return", points))
                  /\ Apart(Rate!Signal("fanout_extreme", points)) /\ Apart(Rate!Signal("fanout_high", points))
    BY OthersApart DEF ToolNames
<1>4. \A S \in rest : Apart(S)
  <2>1. \A v : Apart(Rate!Signal(IF v >= 30 THEN "fanout_extreme" ELSE "fanout_high", v))
      BY <1>3
  <2> QED
      BY <1>2, <1>3, <2>1
<1>5. Apart(UNION rest)
    BY <1>4, UnionApart
<1>6. Rate!StateSignals(st, q, d) = (UNION rest) \cup Rate!Signal("header_mutation", h)
  <2>1. Rate!StateSignals(st, q, d) = UNION (rest \cup {Rate!Signal("header_mutation", h)})
      BY DEF Rate!StateSignals
  <2> HIDE DEF rest, h
  <2> QED
      BY <2>1
<1> HIDE DEF rest, h
<1>7. \A s \in Rate!StateSignals(st, q, d) : s.name \in ToolNames => s.name = "header_mutation" /\ h > 0
    BY <1>1, <1>5, <1>6 DEF Apart
<1> QED
    BY <1>7 DEF h

\* A finite set of numbers has a greatest one.
LEMMA Greatest ==
    ASSUME NEW n \in Nat, NEW T \in SUBSET (0..n), T # {}
    PROVE  Max(T) \in T /\ \A y \in T : y <= Max(T)
<1> DEFINE U == {n - x : x \in T}
<1>1. U \in SUBSET Nat /\ U # {}
    OBVIOUS
<1>2. PICK y \in U : \A z \in U : y <= z
  <2> HIDE DEF U
  <2> QED
      BY <1>1, HasLeast
<1>3. PICK x \in T : y = n - x
    BY <1>2
<1>4. \A z \in T : x >= z
  <2>1. \A z \in T : n - z \in U
      OBVIOUS
  <2> HIDE DEF U
  <2> QED
      BY <1>2, <1>3, <2>1
<1> HIDE DEF U
<1>5. Max(T) \in T /\ \A z \in T : Max(T) >= z
    BY <1>4 DEF Max
<1> QED
    BY <1>5

\* A tier is reached when its least is.
LEMMA TierIs ==
    ASSUME NEW tiers \in Tiers, NEW n \in Nat
    PROVE  Rate!Least(tiers) \in Nat /\ (Rate!Tier(tiers, n) > 0 <=> n >= Rate!Least(tiers))
<1> DEFINE L == {tiers[i].least : i \in DOMAIN tiers}
           R == {i \in DOMAIN tiers : n >= tiers[i].least}
<1>1. /\ \A i \in DOMAIN tiers : tiers[i].least \in Nat /\ tiers[i].points \in Nat \ {0}
      /\ DOMAIN tiers \subseteq Nat /\ DOMAIN tiers # {}
  <2>1. tiers \in Seq([least : Nat, points : Nat \ {0}]) /\ tiers # <<>>
      BY DEF Tiers
  <2>2. \A i \in DOMAIN tiers : tiers[i] \in [least : Nat, points : Nat \ {0}]
    <3> DEFINE T == [least : Nat, points : Nat \ {0}]
    <3>1. tiers \in Seq(T)
        BY <2>1
    <3> HIDE DEF T
    <3>2. \A i \in DOMAIN tiers : tiers[i] \in T
        BY <3>1
    <3> QED
        BY <3>2 DEF T
  <2>3. DOMAIN tiers = 1..Len(tiers) /\ Len(tiers) \in Nat \ {0}
      BY <2>1
  <2>4. \A i \in DOMAIN tiers : tiers[i].least \in Nat /\ tiers[i].points \in Nat \ {0}
      BY <2>2
  <2>5. DOMAIN tiers \subseteq Nat /\ DOMAIN tiers # {}
      BY <2>3
  <2> QED
      BY <2>4, <2>5
<1>2. L \in SUBSET Nat /\ L # {}
    BY <1>1
<1>3. PICK x : x = Rate!Least(tiers) /\ x \in L /\ \A y \in L : x <= y
  <2>1. Rate!Least(tiers) = Min(L)
      BY RateCounts DEF Rate!Least
  <2> HIDE DEF L
  <2> QED
      BY <1>2, <2>1, HasLeast
<1>4. CASE R = {}
  <2>1. Rate!Tier(tiers, n) = 0
      BY <1>4 DEF Rate!Tier
  <2>2. PICK i \in DOMAIN tiers : x = tiers[i].least
      BY <1>3
  <2>3. ~(n >= x)
      BY <1>4, <2>2
  <2> QED
      BY <1>2, <1>3, <2>1, <2>3
<1>5. CASE R # {}
  <2>1. R \in SUBSET Nat
      BY <1>1
  <2>2. Min(R) \in R
    <3> HIDE DEF R
    <3> QED
        BY <1>5, <2>1, HasLeast
  <2>3. Rate!Tier(tiers, n) = tiers[Min(R)].points
      BY <1>5, RateCounts DEF Rate!Tier
  <2>4. tiers[Min(R)].points \in Nat \ {0}
      BY <1>1, <2>2
  <2>5. n >= x
    <3>1. PICK i \in DOMAIN tiers : n >= tiers[i].least
        BY <1>5
    <3>2. tiers[i].least \in L /\ x <= tiers[i].least /\ tiers[i].least \in Nat /\ x \in Nat
        BY <1>1, <1>2, <1>3
    <3> QED
        BY <3>1, <3>2
  <2> QED
      BY <1>2, <1>3, <2>3, <2>4, <2>5
<1> QED
    BY <1>2, <1>3, <1>4, <1>5

(* An event as it was tagged.                                              *)
Tagged ==
    {e \in [at : 1..MaxClock, kind : DOMAIN Facts, stage : {None, "recon", "probe", "exploit"}, rules : DOMAIN Detectors] :
        e.stage = Rate!ToolStage(Facts[e.kind], Detectors[e.rules])}

\* The number of places that a set of events takes is a number of events.
LEMMA PlacesCount ==
    ASSUME NEW evs \in Seq(Tagged), NEW S \in SUBSET (DOMAIN evs)
    PROVE  Rate!Cardinality(S) \in 0..Len(evs)
<1>1. IsFiniteSet(1..Len(evs)) /\ Cardinality(1..Len(evs)) = Len(evs) /\ DOMAIN evs = 1..Len(evs) /\ Len(evs) \in Nat
  <2>1. Len(evs) \in Nat /\ DOMAIN evs = 1..Len(evs)
      OBVIOUS
  <2> DEFINE n == Len(evs)
  <2>2. n \in Nat
      BY <2>1
  <2> HIDE DEF n
  <2>3. IsFiniteSet(1..n) /\ Cardinality(1..n) = n
      BY <2>2, FS_Interval
  <2> QED
      BY <2>1, <2>3 DEF n
<1>2. IsFiniteSet(S) /\ Cardinality(S) <= Len(evs) /\ Cardinality(S) \in Nat
    BY <1>1, FS_Subset, FS_CardinalityType
<1> QED
    BY <1>1, <1>2, RateCounts

\* So is that of the kinds of credentials.
LEMMA KindsCount ==
    ASSUME NEW evs \in Seq(Tagged), NEW d
    PROVE  Rate!AuthKinds(evs, d) \in Nat
<1> DEFINE W == Rate!Within(evs, d.auth.window)
           g == [i \in W |-> Rate!AuthLabel(Rate!Q(evs[i]), d)]
           T == {Rate!AuthLabel(Rate!Q(evs[i]), d) : i \in W}
<1>1. W \in SUBSET (1..Len(evs)) /\ Len(evs) \in Nat
    BY DEF Rate!Within
<1> HIDE DEF W
<1>2. IsFiniteSet(W)
  <2> DEFINE n == Len(evs)
  <2>1. n \in Nat
      BY <1>1
  <2> HIDE DEF n
  <2>2. IsFiniteSet(1..n)
      BY <2>1, FS_Interval
  <2> QED
      BY <1>1, <2>2, FS_Subset DEF n
<1>3. T = {g[i] : i \in W}
    OBVIOUS
<1>4. IsFiniteSet(T)
  <2>1. g \in Surjection(W, T)
      BY DEF Surjection
  <2> HIDE DEF g, T
  <2> QED
      BY <1>2, <2>1, FS_Surjection
<1> HIDE DEF T, g
<1>5. IsFiniteSet(T \ {None}) /\ Cardinality(T \ {None}) \in Nat
    BY <1>4, FS_Subset, FS_CardinalityType
<1> QED
    BY <1>5, RateCounts DEF Rate!AuthKinds, T, W

(* The names of the toolchain signals.                                     *)
Among(S, N) == \A s \in S : s.name \in N

\* Each of the three raises signals of its own names only.
LEMMA ToolchainNames ==
    /\ \A evs, d : Among(Rate!Toolchain(evs, d), {"toolchain_full", "toolchain_partial"})
    /\ \A evs : Among(Rate!ToolchainHMM(evs), {"toolchain_hmm", "toolchain_hmm_partial"})
<1>1. ASSUME NEW evs, NEW d
      PROVE  Among(Rate!Toolchain(evs, d), {"toolchain_full", "toolchain_partial"})
  <2>1. \/ Rate!Toolchain(evs, d) = {}
        \/ Rate!Toolchain(evs, d) = Rate!Signal("toolchain_full", d.toolPoints.full)
        \/ Rate!Toolchain(evs, d) = Rate!Signal("toolchain_partial", d.toolPoints.partial)
      BY DEF Rate!Toolchain
  <2> QED
      BY <2>1, SignalIs DEF Among
<1>2. ASSUME NEW evs
      PROVE  Among(Rate!ToolchainHMM(evs), {"toolchain_hmm", "toolchain_hmm_partial"})
  <2>1. \/ Rate!ToolchainHMM(evs) = {}
        \/ Rate!ToolchainHMM(evs) = Rate!Signal("toolchain_hmm", 20)
        \/ \E n : Rate!ToolchainHMM(evs) = Rate!Signal("toolchain_hmm_partial", n)
      BY DEF Rate!ToolchainHMM
  <2> QED
      BY <2>1, SignalIs DEF Among
<1> QED
    BY <1>1, <1>2

\* Which of the signals over events fire.
LEMMA EventsFire ==
    ASSUME NEW evs, NEW d
    PROVE  LET E == Rate!EventSignals(evs, d) IN
           /\ ~Rate!Fired(E, "header_mutation")
           /\ \A name \in {"toolchain_full", "toolchain_partial"} :
                 Rate!Fired(E, name) <=> Rate!Fired(Rate!Toolchain(evs, d), name)
           /\ \A name \in {"toolchain_hmm", "toolchain_hmm_partial"} :
                 Rate!Fired(E, name) <=> Rate!Fired(Rate!ToolchainHMM(evs), name)
           /\ Rate!Fired(E, "auth_probe_sequence") <=> Rate!AuthProbe(evs, d) > 0
           /\ Rate!Fired(E, "schema_first") <=> (IF Rate!SchemaFirst(evs, d) THEN d.schema.points ELSE 0) > 0
<1> DEFINE E == Rate!EventSignals(evs, d)
           timing == Rate!Signal("regular_timing", Rate!RegularTiming(evs, d))
           chain == Rate!Toolchain(evs, d)
           paths == Rate!Signal("path_bruteforce", Rate!PathBruteforce(evs, d))
           order == Rate!ToolchainHMM(evs)
           sp == IF Rate!SchemaFirst(evs, d) THEN d.schema.points ELSE 0
           schema == Rate!Signal("schema_first", sp)
           cache == Rate!Signal("cache_miss_anomaly", Rate!CacheMiss(evs, d))
           ap == Rate!AuthProbe(evs, d)
           auth == Rate!Signal("auth_probe_sequence", ap)
<1>1. E = UNION {timing, chain, paths, order, schema, cache, auth}
    BY DEF Rate!EventSignals
<1>2. Among(chain, {"toolchain_full", "toolchain_partial"}) /\ Among(order, {"toolchain_hmm", "toolchain_hmm_partial"})
    BY ToolchainNames
<1> HIDE DEF E, chain, order, sp, ap
<1>3. Among(timing, {"regular_timing"}) /\ Among(paths, {"path_bruteforce"})
    BY SignalIs DEF Among
<1>4. /\ Among(schema, {"schema_first"}) /\ Among(cache, {"cache_miss_anomaly"}) /\ Among(auth, {"auth_probe_sequence"})
      /\ Rate!Fired(schema, "schema_first") <=> sp > 0
      /\ Rate!Fired(auth, "auth_probe_sequence") <=> ap > 0
    BY SignalIs DEF Among, Rate!Fired
<1> HIDE DEF timing, paths, schema, cache, auth
<1>5. /\ ~Rate!Fired(E, "header_mutation")
      /\ \A name \in {"toolchain_full", "toolchain_partial"} : Rate!Fired(E, name) <=> Rate!Fired(chain, name)
      /\ \A name \in {"toolchain_hmm", "toolchain_hmm_partial"} : Rate!Fired(E, name) <=> Rate!Fired(order, name)
      /\ Rate!Fired(E, "auth_probe_sequence") <=> Rate!Fired(auth, "auth_probe_sequence")
      /\ Rate!Fired(E, "schema_first") <=> Rate!Fired(schema, "schema_first")
  <2>1. \A s \in E : \E X \in {timing, chain, paths, order, schema, cache, auth} : s \in X
      BY <1>1
  <2>2. \A X \in {timing, chain, paths, order, schema, cache, auth} : X \subseteq E
      BY <1>1
  <2> QED
      BY <1>2, <1>3, <1>4, <2>1, <2>2 DEF Among, Rate!Fired
<1> QED
    BY <1>4, <1>5 DEF E, chain, order, sp, ap

\* The sizes of the sets of stages.
LEMMA ThreeStages ==
    ASSUME NEW S \in SUBSET {"recon", "probe", "exploit"}
    PROVE  /\ S = {"recon", "probe", "exploit"} => Rate!Cardinality(S) = 3
           /\ (\E a, b \in S : a # b) => Rate!Cardinality(S) \in {2, 3}
<1>1. /\ Cardinality({}) = 0 /\ IsFiniteSet({})
    BY FS_EmptySet
<1>2. \A a, b : a # b => Cardinality({a, b}) = 2 /\ IsFiniteSet({a, b})
  <2> SUFFICES ASSUME NEW a, NEW b, a # b PROVE Cardinality({a, b}) = 2 /\ IsFiniteSet({a, b})
      OBVIOUS
  <2>1. IsFiniteSet({a}) /\ Cardinality({a}) = 1
      BY FS_Singleton
  <2>2. {a} \cup {b} = {a, b} /\ b \notin {a}
      OBVIOUS
  <2>3. PICK T : T = {a} /\ b \notin T /\ T \cup {b} = {a, b}
      BY <2>2
  <2>4. IsFiniteSet(T) /\ Cardinality(T) = 1
      BY <2>1, <2>3
  <2>5. Cardinality(T \cup {b}) = Cardinality(T) + 1 /\ IsFiniteSet(T \cup {b})
      BY <2>3, <2>4, OneMore
  <2> QED
      BY <2>3, <2>4, <2>5
<1>3. Cardinality({"recon", "probe", "exploit"}) = 3
  <2>1. {"recon", "probe"} \cup {"exploit"} = {"recon", "probe", "exploit"} /\ "exploit" \notin {"recon", "probe"}
      OBVIOUS
  <2>2. Cardinality({"recon", "probe"}) = 2 /\ IsFiniteSet({"recon", "probe"})
      BY <1>2
  <2>3. PICK T : T = {"recon", "probe"}
      OBVIOUS
  <2>4. IsFiniteSet(T) /\ Cardinality(T) = 2 /\ "exploit" \notin T
      BY <2>1, <2>2, <2>3
  <2>5. Cardinality(T \cup {"exploit"}) = Cardinality(T) + 1
      BY <2>4, OneMore
  <2>6. T \cup {"exploit"} = {"recon", "probe", "exploit"}
      BY <2>1, <2>3
  <2> QED
      BY <2>4, <2>5, <2>6
<1>4. ASSUME NEW a \in S, NEW b \in S, a # b PROVE Cardinality(S) \in {2, 3}
  <2>1. S = {a, b} \/ S = {"recon", "probe", "exploit"}
    <3>1. PICK c \in {"recon", "probe", "exploit"} : c # a /\ c # b /\ {"recon", "probe", "exploit"} = {a, b, c}
      <4>1. a \in {"recon", "probe", "exploit"} /\ b \in {"recon", "probe", "exploit"}
          OBVIOUS
      <4> QED
          BY <1>4, <4>1
    <3>2. S \subseteq {a, b, c} /\ a \in S /\ b \in S
        BY <3>1
    <3>3. CASE c \in S
        BY <3>1, <3>2, <3>3
    <3>4. CASE c \notin S
        BY <3>2, <3>4
    <3> QED
        BY <3>3, <3>4
  <2> QED
      BY <1>2, <1>3, <1>4, <2>1
<1> QED
    BY <1>3, <1>4, RateCounts

\* The ordered signal fires only where the unordered one does.
LEMMA OrderedIsSeen ==
    ASSUME NEW evs \in Seq(Tagged), NEW r \in DOMAIN Detectors, \A i \in 1..Len(evs) : evs[i].rules = r,
           Detectors[r].toolPoints.full > 0,
           \A k \in DOMAIN Detectors[r].markers : \A m \in Detectors[r].markers[k] : Lower[m] = m
    PROVE  LET chain == Rate!Toolchain(evs, Detectors[r])
               order == Rate!ToolchainHMM(evs) IN
           /\ Rate!Fired(order, "toolchain_hmm") => Rate!Fired(chain, "toolchain_full")
           /\ Rate!Fired(order, "toolchain_hmm_partial") /\ Detectors[r].toolPoints.partial > 0 =>
                 Rate!Fired(chain, "toolchain_full") \/ Rate!Fired(chain, "toolchain_partial")
<1> DEFINE d == Detectors[r]
           stages == {"recon", "probe", "exploit"}
           text == UNION {Rate!Q(evs[i]).path \cup Rate!Q(evs[i]).query : i \in DOMAIN evs}
           S == {k \in stages : Rate!Meets(text, d.markers[k])}
           chain == Rate!Toolchain(evs, d)
           order == Rate!ToolchainHMM(evs)
           tagged == {i \in DOMAIN evs : evs[i].stage # None}
<1>1. /\ DOMAIN d.markers = stages /\ d.toolPoints.full > 0
      /\ None \notin stages /\ ToolMin \in Nat /\ HmmMin \in Nat /\ ToolMin <= HmmMin
  <2>1. d.toolPoints.full > 0 /\ DOMAIN d.markers = stages
      BY ScoringAssumption
  <2> HIDE DEF d
  <2> QED
      BY <2>1, ScoringAssumption
<1>2. ASSUME NEW i \in tagged PROVE evs[i].stage \in S
  <2> DEFINE q == Facts[evs[i].kind]
  <2>1. /\ i \in DOMAIN evs /\ i \in 1..Len(evs) /\ evs[i] \in Tagged /\ evs[i].stage # None
      BY <1>2
  <2>2. evs[i].stage = Rate!ToolStage(q, d) /\ evs[i].stage \in stages
      BY <2>1 DEF Tagged
  <2>3. \A k \in stages : {Lower[m] : m \in d.markers[k]} = d.markers[k]
      BY <1>1
  <2>4. q.path \cup q.query \subseteq text
      BY <2>1 DEF Rate!Q
  <2> HIDE DEF q, d, text
  <2>5. PICK k : k = evs[i].stage
      OBVIOUS
  <2>6. Rate!Meets(q.path \cup q.query, {Lower[m] : m \in d.markers[k]})
      BY <1>1, <2>2, <2>5 DEF Rate!ToolStage
  <2>7. Rate!Meets(text, d.markers[k])
      BY <2>2, <2>3, <2>4, <2>5, <2>6 DEF Rate!Meets
  <2> QED
      BY <2>2, <2>5, <2>7
<1> HIDE DEF d, text
<1>3. Len(evs) >= HmmMin => Len(evs) >= ToolMin
    BY <1>1
<1>4. /\ Len(evs) >= ToolMin /\ Rate!Cardinality(S) = 3 => chain = Rate!Signal("toolchain_full", d.toolPoints.full)
      /\ Len(evs) >= ToolMin /\ Rate!Cardinality(S) = 2 => chain = Rate!Signal("toolchain_partial", d.toolPoints.partial)
  <2>1. chain = IF Len(evs) < ToolMin THEN {}
                ELSE IF Rate!Cardinality(S) = 3 THEN Rate!Signal("toolchain_full", d.toolPoints.full)
                ELSE IF Rate!Cardinality(S) = 2 THEN Rate!Signal("toolchain_partial", d.toolPoints.partial) ELSE {}
      BY DEF Rate!Toolchain, text
  <2>2. Len(evs) \in Nat
      OBVIOUS
  <2> HIDE DEF S, chain
  <2> QED
      BY <1>1, <2>1, <2>2
<1>5. S \in SUBSET stages
    OBVIOUS
<1>6. Rate!Fired(order, "toolchain_hmm") => Len(evs) >= HmmMin /\ S = stages
  <2>1. SUFFICES ASSUME Rate!Fired(order, "toolchain_hmm") PROVE Len(evs) >= HmmMin /\ S = stages
      OBVIOUS
  <2>2. \A n : ~Rate!Fired(Rate!Signal("toolchain_hmm_partial", n), "toolchain_hmm")
      BY SignalIs DEF Rate!Fired
  <2>3. ~Rate!Fired({}, "toolchain_hmm")
      BY DEF Rate!Fired
  <2>4. /\ ~(Len(evs) < HmmMin)
        /\ \E i, j, k \in tagged :
              /\ i < j /\ j < k
              /\ <<evs[i].stage, evs[j].stage, evs[k].stage>> = <<"recon", "probe", "exploit">>
      BY <2>1, <2>2, <2>3 DEF Rate!ToolchainHMM
  <2>5. "recon" \in S /\ "probe" \in S /\ "exploit" \in S
    <3> HIDE DEF S, tagged
    <3> QED
        BY <1>2, <2>4
  <2>6. Len(evs) \in Nat
      OBVIOUS
  <2> HIDE DEF S, tagged
  <2>7. S = stages
      BY <1>5, <2>5
  <2>8. ~(Len(evs) < HmmMin)
      BY <2>4
  <2> QED
      BY <1>1, <2>6, <2>7, <2>8
<1>7. Rate!Fired(order, "toolchain_hmm_partial") => Len(evs) >= HmmMin /\ \E a, b \in S : a # b
  <2>1. SUFFICES ASSUME Rate!Fired(order, "toolchain_hmm_partial")
                 PROVE  Len(evs) >= HmmMin /\ \E a, b \in S : a # b
      OBVIOUS
  <2> DEFINE next(i) == Rate!Min({j \in tagged : j > i})
             pairs == {i \in tagged :
                          /\ \E j \in tagged : j > i
                          /\ <<evs[i].stage, evs[next(i)].stage>> \in {<<"recon", "probe">>, <<"probe", "exploit">>}}
  <2>2. ~Rate!Fired(Rate!Signal("toolchain_hmm", 20), "toolchain_hmm_partial")
        /\ ~Rate!Fired({}, "toolchain_hmm_partial")
      BY SignalIs DEF Rate!Fired
  <2>3. ~(Len(evs) < HmmMin) /\ pairs # {}
      BY <2>1, <2>2 DEF Rate!ToolchainHMM
  <2>4. PICK i \in pairs : TRUE
      BY <2>3
  <2>5. /\ i \in tagged /\ {j \in tagged : j > i} # {}
        /\ <<evs[i].stage, evs[next(i)].stage>> \in {<<"recon", "probe">>, <<"probe", "exploit">>}
      BY <2>4
  <2>6. tagged \in SUBSET Nat
      OBVIOUS
  <2>7. next(i) \in tagged
    <3> HIDE DEF tagged
    <3> DEFINE T == {j \in tagged : j > i}
    <3>1. T \in SUBSET Nat /\ T # {}
        BY <2>5, <2>6
    <3> HIDE DEF T
    <3>2. Rate!Min(T) \in T
        BY <3>1, HasLeast, RateCounts
    <3> QED
        BY <3>2 DEF T
  <2> HIDE DEF tagged, next, S, pairs
  <2>8. evs[i].stage \in S /\ evs[next(i)].stage \in S /\ evs[i].stage # evs[next(i)].stage
      BY <1>2, <2>5, <2>7
  <2>9. Len(evs) \in Nat
      OBVIOUS
  <2> QED
      BY <1>1, <2>3, <2>8, <2>9
<1> HIDE DEF S, chain, order
<1>8. Rate!Fired(order, "toolchain_hmm") => Rate!Fired(chain, "toolchain_full")
  <2>1. S = stages => Rate!Cardinality(S) = 3
      BY <1>5, ThreeStages
  <2> QED
      BY <1>1, <1>3, <1>4, <1>6, <2>1, SignalIs
<1>9. Rate!Fired(order, "toolchain_hmm_partial") /\ d.toolPoints.partial > 0 =>
          Rate!Fired(chain, "toolchain_full") \/ Rate!Fired(chain, "toolchain_partial")
  <2>1. (\E a, b \in S : a # b) => Rate!Cardinality(S) \in {2, 3}
      BY <1>5, ThreeStages
  <2> QED
      BY <1>1, <1>3, <1>4, <1>7, <2>1, SignalIs
<1> QED
    BY <1>8, <1>9 DEF chain, order, d

(* What the signals of a request say of the events they were raised from,  *)
(* when it was judged by the rules of number r.                            *)
InOrder(evs, r, signals) ==
    /\ \A i \in 1..Len(evs) : evs[i].rules = r
    /\ \A k \in DOMAIN Detectors[r].markers : \A m \in Detectors[r].markers[k] : Lower[m] = m
    /\ Detectors[r].toolPoints.full > 0
    => /\ Rate!Fired(signals, "toolchain_hmm") => Rate!Fired(signals, "toolchain_full")
       /\ Rate!Fired(signals, "toolchain_hmm_partial") /\ Detectors[r].toolPoints.partial > 0 =>
             Rate!Fired(signals, "toolchain_full") \/ Rate!Fired(signals, "toolchain_partial")
Heard(evs, r, signals) ==
    /\ InOrder(evs, r, signals)
    /\ Rate!Fired(signals, "auth_probe_sequence") <=> Rate!AuthProbe(evs, Detectors[r]) > 0
    /\ Rate!Fired(signals, "schema_first") <=> Rate!SchemaFirst(evs, Detectors[r])
Mutated(r, signals, mutations) ==
    Rate!Fired(signals, "header_mutation") => mutations >= Rate!Least(Detectors[r].mutation.tiers)

\* What is assumed of the rules of one number.
LEMMA RulesAre ==
    ASSUME NEW r \in DOMAIN Detectors
    PROVE  LET d == Detectors[r] IN
           /\ d.cache.tiers \in Tiers /\ d.auth.tiers \in Tiers /\ d.mutation.tiers \in Tiers
           /\ d.schema.points > 0 /\ d.auth.min \in Nat
<1> DEFINE d == Detectors[r]
<1>1. /\ d.auth.min \in Nat /\ d.schema.points \in Nat \ {0}
      /\ {d.cache.tiers, d.auth.tiers, d.mutation.tiers} \subseteq Tiers
    BY ScoringAssumption DEF Tiers
<1> HIDE DEF d
<1>2. /\ d.cache.tiers \in Tiers /\ d.auth.tiers \in Tiers /\ d.mutation.tiers \in Tiers
      /\ d.schema.points > 0 /\ d.auth.min \in Nat
    BY <1>1
<1> QED
    BY <1>2 DEF d

\* All the signals of a request, the classifier's apart.
Raised(c, q, evs, st, d, trap, p) ==
    UNION {Rate!Signal("honeypot_hit", trap), Rate!Signal("ip_rotation_fleet", p), Rate!RequestSignals(c, q, d),
           Rate!EventSignals(evs, d), Rate!StateSignals(st, q, d)}

\* The signals of a request are true of the events and of the client.
LEMMA JudgedIs ==
    ASSUME NEW c, NEW q, NEW st, NEW trap, NEW p, NEW evs \in Seq(Tagged), NEW r \in DOMAIN Detectors,
           st.mutations \in Nat
    PROVE  LET U == Raised(c, q, evs, st, Detectors[r], trap, p) IN
           Heard(evs, r, U) /\ Mutated(r, U, st.mutations)
<1> DEFINE d == Detectors[r]
           U == Raised(c, q, evs, st, d, trap, p)
           A == Rate!Signal("honeypot_hit", trap)
           B == Rate!Signal("ip_rotation_fleet", p)
           R == Rate!RequestSignals(c, q, d)
           E == Rate!EventSignals(evs, d)
           S == Rate!StateSignals(st, q, d)
<1>1. Apart(A) /\ Apart(B)
    BY OthersApart DEF ToolNames
<1>2. Apart(R)
    BY RequestApart
<1>3. \A s \in S : s.name \in ToolNames => s.name = "header_mutation" /\ Rate!HeaderMutation(st, d) > 0
    BY StateApart
<1>4. U = A \cup B \cup R \cup E \cup S
    BY DEF Raised
<1>5. ~Rate!Fired(E, "header_mutation")
    BY EventsFire
<1> HIDE DEF U, A, B, R, E, S
<1>6. \A name \in ToolNames \ {"header_mutation"} : Rate!Fired(U, name) <=> Rate!Fired(E, name)
    BY <1>1, <1>2, <1>3, <1>4 DEF Apart, Rate!Fired
<1>7. Rate!Fired(U, "header_mutation") => Rate!HeaderMutation(st, d) > 0
    BY <1>1, <1>2, <1>3, <1>4, <1>5 DEF Apart, Rate!Fired, ToolNames
<1>8. /\ Rate!Fired(U, "toolchain_full") <=> Rate!Fired(Rate!Toolchain(evs, d), "toolchain_full")
      /\ Rate!Fired(U, "toolchain_partial") <=> Rate!Fired(Rate!Toolchain(evs, d), "toolchain_partial")
      /\ Rate!Fired(U, "toolchain_hmm") <=> Rate!Fired(Rate!ToolchainHMM(evs), "toolchain_hmm")
      /\ Rate!Fired(U, "toolchain_hmm_partial") <=> Rate!Fired(Rate!ToolchainHMM(evs), "toolchain_hmm_partial")
      /\ Rate!Fired(U, "auth_probe_sequence") <=> Rate!AuthProbe(evs, d) > 0
      /\ Rate!Fired(U, "schema_first") <=> (IF Rate!SchemaFirst(evs, d) THEN d.schema.points ELSE 0) > 0
    BY <1>6, EventsFire DEF E, ToolNames
<1>9. InOrder(evs, r, U)
    BY <1>8, OrderedIsSeen DEF InOrder
<1>10. d.mutation.tiers \in Tiers /\ d.schema.points > 0
    BY RulesAre
<1>11. Rate!HeaderMutation(st, d) > 0 => st.mutations >= Rate!Least(d.mutation.tiers)
  <2> HIDE DEF d
  <2>1. Rate!Tier(d.mutation.tiers, st.mutations) > 0 <=> st.mutations >= Rate!Least(d.mutation.tiers)
      BY <1>10, TierIs
  <2> QED
      BY <2>1 DEF Rate!HeaderMutation
<1>12. Rate!Fired(U, "schema_first") <=> Rate!SchemaFirst(evs, d)
  <2> HIDE DEF d
  <2> QED
      BY <1>8, <1>10
<1>13. Heard(evs, r, U)
    BY <1>8, <1>9, <1>12 DEF Heard
<1>14. Mutated(r, U, st.mutations)
    BY <1>7, <1>11 DEF Mutated
<1> QED
    BY <1>13, <1>14 DEF U, d

\* A client is recorded: its events are tagged, its mutations do not go back.
LEMMA RecordedIs ==
    ASSUME NEW st, {"events", "mutations", "honeypots", "requests"} \subseteq DOMAIN st, st.events \in Seq(Tagged),
           st.mutations \in Nat, NEW e \in Tagged, NEW k
    PROVE  LET r == Rate!Recorded(st, e, k) IN
           /\ DOMAIN r = DOMAIN st
           /\ r.events \in Seq(Tagged) /\ r.mutations \in Nat /\ r.mutations >= st.mutations
           /\ Len(r.events) <= MaxHistory /\ r.requests = st.requests + 1 /\ r.mutations <= st.mutations + 1
<1> DEFINE q    == Facts[k]
           cut  == e.at - HistoryWindow
           all  == Append(st.events, e)
           kept0 == {i \in DOMAIN all : all[i].at > cut}
           tail == SubSeq(all, Rate!Min(kept0), Len(all))
           more == Rate!Max({1, Len(tail) - MaxHistory + 1})
           new  == SubSeq(tail, more, Len(tail))
           moved == st.mutations + (IF st.bitmap \notin {None, Rate!Bitmap(q)} THEN 1 ELSE 0)
           r    == Rate!Recorded(st, e, k)
<1>1. DOMAIN r = DOMAIN st /\ r.events = new /\ r.mutations = moved /\ r.requests = st.requests + 1
    BY DEF Rate!Recorded
<1>2. moved \in Nat /\ moved >= st.mutations /\ moved <= st.mutations + 1
    OBVIOUS
<1>3. all \in Seq(Tagged) /\ Len(all) \in Nat \ {0} /\ all[Len(all)] = e /\ DOMAIN all = 1..Len(all)
    OBVIOUS
<1>4. e.at \in Int /\ HistoryWindow \in Nat \ {0} /\ MaxHistory \in Nat \ {0}
    BY ScoringAssumption, PointsAssumption DEF Tagged
<1>5. Len(all) \in kept0 /\ kept0 \in SUBSET Nat
    BY <1>3, <1>4
<1> HIDE DEF kept0
<1>6. Rate!Min(kept0) \in kept0
    BY <1>5, HasLeast, RateCounts
<1>7. Rate!Min(kept0) \in 1..Len(all)
    BY <1>3, <1>6 DEF kept0
<1> HIDE DEF all
<1>8. tail \in Seq(Tagged) /\ Len(tail) \in Nat \ {0}
    BY <1>3, <1>7
<1> HIDE DEF tail
<1>9. more \in Nat \ {0} /\ more <= Len(tail) /\ more >= Len(tail) - MaxHistory + 1
  <2> DEFINE b == Len(tail) - MaxHistory + 1
  <2>1. b \in Int /\ b <= Len(tail)
      BY <1>4, <1>8
  <2>2. more = Max({1, b})
      BY RateCounts
  <2> HIDE DEF b, more
  <2>3. more \in {1, b} /\ \A y \in {1, b} : more >= y
    <3>1. \E x \in {1, b} : \A y \in {1, b} : x >= y
      <4>1. CASE b >= 1
          BY <2>1, <4>1
      <4>2. CASE ~(b >= 1)
          BY <2>1, <4>2
      <4> QED
          BY <4>1, <4>2
    <3> QED
        BY <2>2, <3>1 DEF Max
  <2> QED
      BY <1>8, <2>1, <2>3 DEF b
<1> HIDE DEF more
<1>10. new \in Seq(Tagged) /\ Len(new) <= MaxHistory
    BY <1>4, <1>8, <1>9
<1> HIDE DEF new, moved, r
<1>11. /\ DOMAIN r = DOMAIN st /\ r.events \in Seq(Tagged) /\ r.mutations \in Nat /\ r.mutations >= st.mutations
       /\ Len(r.events) <= MaxHistory /\ r.requests = st.requests + 1 /\ r.mutations <= st.mutations + 1
    BY <1>1, <1>2, <1>10
<1> QED
    BY <1>11 DEF r

(* What a request knows at each place: once it has copied them, its events *)
(* are tagged; once it is judged, its signals are true of them, and        *)
(* header_mutation of the client since then; once the classifier was told  *)
(* of the client, what it was told is of the same events and, unless the   *)
(* rules changed, by the same rules.                                       *)
WasTold(j) ==
    /\ j.later \in DOMAIN Detectors
    /\ j.session.authKinds = Rate!AuthKinds(j.events, Detectors[j.later])
    /\ j.session.schemaFirst = Rate!SchemaFirst(j.events, Detectors[j.later])
    /\ Mutated(j.rules, j.signals, j.session.mutations)
Knows(j, states) ==
    /\ j.pc \in {"copy", "judge", "infer", "answer"} => j.client \in Clients
    /\ j.pc \in {"judge", "infer", "answer"} => j.events \in Seq(Tagged)
    /\ j.pc \in {"infer", "answer"} => j.rules \in DOMAIN Detectors /\ Heard(j.events, j.rules, j.signals)
    /\ j.pc = "infer" => Mutated(j.rules, j.signals, states[j.client].mutations)
    /\ j.pc = "answer" => WasTold(j)
Histories ==
    /\ DOMAIN clients = Clients
    /\ \A c \in Clients :
          /\ {"events", "mutations", "honeypots", "requests"} \subseteq DOMAIN clients[c]
          /\ clients[c].events \in Seq(Tagged) /\ clients[c].mutations \in Nat
RateInv ==
    /\ clock \in 1..MaxClock /\ detector \in DOMAIN Detectors
    /\ Histories
    /\ DOMAIN serve = Servers /\ \A w \in Servers : Knows(serve[w], clients)

\* What a request knows of its client stays true as the client's mutations grow.
LEMMA KnowsStays ==
    ASSUME Histories, Histories',
           \A c \in Clients : clients'[c].mutations >= clients[c].mutations,
           NEW j, Knows(j, clients)
    PROVE  Knows(j, clients')
<1>1. CASE j.pc = "infer"
  <2>1. j.client \in Clients /\ j.rules \in DOMAIN Detectors /\ Mutated(j.rules, j.signals, clients[j.client].mutations)
      BY <1>1 DEF Knows
  <2> DEFINE m == clients[j.client].mutations
             n == clients'[j.client].mutations
             tiers == Detectors[j.rules].mutation.tiers
  <2>2. m \in Nat /\ n \in Nat /\ n >= m
    <3>1. m \in Nat
        BY <2>1 DEF Histories
    <3>2. n \in Nat
        BY <2>1 DEF Histories
    <3> QED
        BY <2>1, <3>1, <3>2
  <2>3. Rate!Least(tiers) \in Nat
    <3>1. tiers \in Tiers
        BY <2>1, RulesAre
    <3> HIDE DEF tiers
    <3> QED
        BY <3>1, TierIs
  <2>4. Mutated(j.rules, j.signals, n)
    <3>1. m >= Rate!Least(tiers) => n >= Rate!Least(tiers)
      <4> HIDE DEF m, n, tiers
      <4> QED
          BY <2>2, <2>3
    <3> QED
        BY <2>1, <3>1 DEF Mutated
  <2> QED
      BY <1>1, <2>4 DEF Knows
<1>2. CASE j.pc # "infer"
    BY <1>2 DEF Knows
<1> QED
    BY <1>1, <1>2

\* What the answer shows.
LEMMA KnowsAgrees ==
    ASSUME NEW j, j.pc = "answer", Knows(j, clients)
    PROVE  LET d == Detectors[j.rules]
               n == Len(j.events) IN
           /\ InOrder(j.events, j.rules, j.signals)
           /\ j.later = j.rules =>
                 /\ Rate!Fired(j.signals, "auth_probe_sequence") <=>
                       n >= d.auth.min /\ j.session.authKinds >= Rate!Least(d.auth.tiers)
                 /\ Rate!Fired(j.signals, "schema_first") <=> j.session.schemaFirst
                 /\ Rate!Fired(j.signals, "header_mutation") => j.session.mutations >= Rate!Least(d.mutation.tiers)
<1> DEFINE evs == j.events
           r == j.rules
           d == Detectors[r]
           n == Len(evs)
<1>1. evs \in Seq(Tagged) /\ r \in DOMAIN Detectors /\ Heard(evs, r, j.signals) /\ WasTold(j)
    BY DEF Knows
<1>2. d.auth.tiers \in Tiers /\ d.auth.min \in Nat
    BY <1>1, RulesAre
<1>3. n \in Nat
    BY <1>1
<1>4. Rate!AuthKinds(evs, d) \in Nat
  <2> HIDE DEF evs, d
  <2> QED
      BY <1>1, KindsCount
<1>5. InOrder(evs, r, j.signals)
    BY <1>1 DEF Heard
<1>6. /\ Rate!Fired(j.signals, "auth_probe_sequence") <=> Rate!AuthProbe(evs, d) > 0
      /\ Rate!Fired(j.signals, "schema_first") <=> Rate!SchemaFirst(evs, d)
    BY <1>1 DEF Heard
<1>8. Rate!AuthProbe(evs, d) > 0 <=> n >= d.auth.min /\ Rate!AuthKinds(evs, d) >= Rate!Least(d.auth.tiers)
  <2> DEFINE t == d.auth.tiers
             low == d.auth.min
             m == Rate!AuthKinds(evs, d)
  <2>1. Rate!AuthProbe(evs, d) = IF n < low THEN 0 ELSE Rate!Tier(t, m)
      BY DEF Rate!AuthProbe
  <2>2. t \in Tiers /\ low \in Nat /\ m \in Nat
      BY <1>2, <1>4
  <2> HIDE DEF t, low, m, n, d, evs
  <2>3. Rate!Tier(t, m) > 0 <=> m >= Rate!Least(t)
      BY <2>2, TierIs
  <2> QED
      BY <1>3, <2>1, <2>2, <2>3 DEF t, low, m
<1>9. /\ j.session.authKinds = Rate!AuthKinds(evs, Detectors[j.later])
      /\ j.session.schemaFirst = Rate!SchemaFirst(evs, Detectors[j.later])
      /\ Rate!Fired(j.signals, "header_mutation") => j.session.mutations >= Rate!Least(d.mutation.tiers)
    BY <1>1 DEF WasTold, Mutated
<1>10. j.later = r =>
          /\ Rate!Fired(j.signals, "auth_probe_sequence") <=>
                n >= d.auth.min /\ j.session.authKinds >= Rate!Least(d.auth.tiers)
          /\ Rate!Fired(j.signals, "schema_first") <=> j.session.schemaFirst
          /\ Rate!Fired(j.signals, "header_mutation") => j.session.mutations >= Rate!Least(d.mutation.tiers)
  <2>1. j.later = r => j.session.authKinds = Rate!AuthKinds(evs, d) /\ j.session.schemaFirst = Rate!SchemaFirst(evs, d)
      BY <1>9
  <2> HIDE DEF n, d, evs, r
  <2> QED
      BY <1>6, <1>8, <1>9, <2>1
<1> QED
    BY <1>5, <1>10

\* The scorer starts with no history and no request.
LEMMA RateStart == Rate!Init => RateInv
<1> SUFFICES ASSUME Rate!Init PROVE RateInv
    OBVIOUS
<1>1. /\ clock = 1 /\ detector = 1 /\ clients = [c \in Clients |-> Rate!NewState]
      /\ serve = [w \in Servers |-> Rate!Idle]
    BY DEF Rate!Init
<1>2. 1 \in DOMAIN Detectors /\ 1 \in 1..MaxClock
    BY ScoringAssumption, PointsAssumption
<1>3. /\ {"events", "mutations", "honeypots", "requests"} \subseteq DOMAIN Rate!NewState
      /\ Rate!NewState.events = <<>> /\ Rate!NewState.mutations = 0
    BY DEF Rate!NewState
<1>4. Histories
  <2>1. DOMAIN clients = Clients /\ \A c \in Clients : clients[c] = Rate!NewState
      BY <1>1
  <2>2. <<>> \in Seq(Tagged) /\ 0 \in Nat
      OBVIOUS
  <2> QED
      BY <1>3, <2>1, <2>2 DEF Histories
<1>5. \A w \in Servers : serve[w] = Rate!Idle /\ Rate!Idle.pc = "idle"
    BY <1>1 DEF Rate!Idle
<1>6. DOMAIN serve = Servers /\ \A w \in Servers : Knows(serve[w], clients)
    BY <1>1, <1>5 DEF Knows
<1> QED
    BY <1>1, <1>2, <1>4, <1>6 DEF RateInv

\* A step of one request, which leaves its state in the new one.
LEMMA OneServes ==
    ASSUME RateInv, Histories', NEW w \in Servers, NEW jb, serve' = [serve EXCEPT ![w] = jb],
           Knows(jb, clients'), \A v \in Servers : Knows(serve[v], clients'),
           clock' = clock, detector' = detector
    PROVE  RateInv'
<1>1. DOMAIN serve' = Servers /\ \A v \in Servers : serve'[v] = IF v = w THEN jb ELSE serve[v]
    BY DEF RateInv
<1>2. \A v \in Servers : Knows(serve'[v], clients')
    BY <1>1
<1> QED
    BY <1>1, <1>2 DEF RateInv

\* Every step of the scorer, and every reload, keeps what the requests know.
LEMMA RateStep == RateInv /\ [Rate!Next]_(Rate!vars) => RateInv'
<1> SUFFICES ASSUME RateInv, [Rate!Next]_(Rate!vars) PROVE RateInv'
    OBVIOUS
<1> USE DEF Rate!Goto
<1>0. /\ clock \in 1..MaxClock /\ detector \in DOMAIN Detectors /\ Histories
      /\ DOMAIN serve = Servers /\ \A w \in Servers : Knows(serve[w], clients)
    BY DEF RateInv
<1>1. ASSUME NEW w \in Servers, Rate!Allow(w) PROVE RateInv'
  <2>1. clock' = clock /\ detector' = detector /\ clients' = clients /\ serve' = serve
      BY <1>1 DEF Rate!Allow
  <2> QED
      BY <1>0, <2>1 DEF RateInv, Histories
<1>2. ASSUME NEW w \in Servers, Rate!Record(w) PROVE RateInv'
  <2>1. PICK c \in Clients \ Trusted, k \in DOMAIN Facts :
           LET e  == [at |-> clock, kind |-> k, stage |-> Rate!ToolStage(Facts[k], Detectors[detector]),
                      rules |-> detector]
               st == Rate!Recorded(clients[c], e, k)
               hit == Facts[k].url \in HoneypotPaths
           IN  /\ clients' = [clients EXCEPT ![c] = IF hit THEN [st EXCEPT !.honeypots = @ + 1] ELSE st]
               /\ serve' = [serve EXCEPT ![w] = [pc |-> "copy", client |-> c, kind |-> k,
                       trap |-> IF ~hit THEN 0 ELSE IF st.honeypots >= 1 THEN 80 ELSE 50]]
      BY <1>2 DEF Rate!Record
  <2>2. clock' = clock /\ detector' = detector
      BY <1>2 DEF Rate!Record
  <2> DEFINE e  == [at |-> clock, kind |-> k, stage |-> Rate!ToolStage(Facts[k], Detectors[detector]),
                    rules |-> detector]
             st == Rate!Recorded(clients[c], e, k)
             hit == Facts[k].url \in HoneypotPaths
             more == IF hit THEN [st EXCEPT !.honeypots = @ + 1] ELSE st
             points == IF ~hit THEN 0 ELSE IF st.honeypots >= 1 THEN 80 ELSE 50
             jb == [pc |-> "copy", client |-> c, kind |-> k, trap |-> points]
  <2>3. clients' = [clients EXCEPT ![c] = more] /\ serve' = [serve EXCEPT ![w] = jb]
      BY <2>1
  <2>4. e \in Tagged
    <3>1. Rate!ToolStage(Facts[k], Detectors[detector]) \in {None, "recon", "probe", "exploit"}
        BY DEF Rate!ToolStage
    <3> QED
        BY <1>0, <3>1 DEF Tagged
  <2> HIDE DEF e
  <2>5. /\ {"events", "mutations", "honeypots", "requests"} \subseteq DOMAIN clients[c]
        /\ clients[c].events \in Seq(Tagged) /\ clients[c].mutations \in Nat
      BY <1>0 DEF Histories
  <2>6. /\ DOMAIN st = DOMAIN clients[c] /\ st.events \in Seq(Tagged)
        /\ st.mutations \in Nat /\ st.mutations >= clients[c].mutations
      BY <2>4, <2>5, RecordedIs
  <2> HIDE DEF st
  <2>7. /\ DOMAIN more = DOMAIN clients[c] /\ more.events = st.events /\ more.mutations = st.mutations
      BY <2>6
  <2>8. jb.pc = "copy" /\ jb.client = c
      OBVIOUS
  <2> HIDE DEF more, jb, hit, points
  <2>9. DOMAIN clients' = Clients /\ \A a \in Clients : clients'[a] = IF a = c THEN more ELSE clients[a]
      BY <1>0, <2>3 DEF Histories
  <2>10. Histories'
    <3> SUFFICES ASSUME NEW a \in Clients
                 PROVE  /\ {"events", "mutations", "honeypots", "requests"} \subseteq DOMAIN clients'[a]
                        /\ clients'[a].events \in Seq(Tagged) /\ clients'[a].mutations \in Nat
        BY <2>9 DEF Histories
    <3>1. CASE a = c
        BY <2>5, <2>6, <2>7, <2>9, <3>1
    <3>2. CASE a # c
        BY <1>0, <2>9, <3>2 DEF Histories
    <3> QED
        BY <3>1, <3>2
  <2>11. \A a \in Clients : clients'[a].mutations >= clients[a].mutations
    <3> SUFFICES ASSUME NEW a \in Clients PROVE clients'[a].mutations >= clients[a].mutations
        OBVIOUS
    <3>1. CASE a = c
        BY <2>6, <2>7, <2>9, <3>1
    <3>2. CASE a # c
      <4>1. clients'[a] = clients[a] /\ clients[a].mutations \in Nat
          BY <1>0, <2>9, <3>2 DEF Histories
      <4> QED
          BY <4>1
    <3> QED
        BY <3>1, <3>2
  <2>12. \A v \in Servers : Knows(serve[v], clients')
      BY <1>0, <2>10, <2>11, KnowsStays
  <2>13. Knows(jb, clients')
      BY <2>8 DEF Knows
  <2> QED
      BY <2>2, <2>3, <2>10, <2>12, <2>13, OneServes
<1>3. ASSUME NEW w \in Servers, Rate!CopyEvents(w) PROVE RateInv'
  <2> DEFINE j == serve[w]
             jb == [pc |-> "judge", client |-> j.client, kind |-> j.kind, trap |-> j.trap,
                     events |-> clients[j.client].events]
  <2>1. /\ j.pc = "copy" /\ serve' = [serve EXCEPT ![w] = jb]
        /\ clock' = clock /\ detector' = detector /\ clients' = clients
      BY <1>3 DEF Rate!CopyEvents
  <2>2. j.client \in Clients
      BY <1>0, <2>1 DEF Knows
  <2>3. clients[j.client].events \in Seq(Tagged)
      BY <1>0, <2>2 DEF Histories
  <2>4. jb.pc = "judge" /\ jb.client = j.client /\ jb.events = clients[j.client].events
      OBVIOUS
  <2> HIDE DEF jb
  <2>5. Knows(jb, clients)
      BY <2>2, <2>3, <2>4 DEF Knows
  <2>6. Histories'
      BY <1>0, <2>1 DEF Histories
  <2> QED
      BY <1>0, <2>1, <2>5, <2>6, OneServes
<1>4. ASSUME NEW w \in Servers, Rate!Judge(w) PROVE RateInv'
  <2> DEFINE j == serve[w]
             c == j.client
             q == Facts[j.kind]
             all(p) == Raised(c, q, j.events, clients[c], Detectors[detector], j.trap, p)
             jb(p) == [pc |-> "infer", client |-> c, kind |-> j.kind, events |-> j.events,
                        rules |-> detector, signals |-> all(p)]
  <2>1. PICK p \in FleetPoints : serve' = [serve EXCEPT ![w] = jb(p)]
      BY <1>4 DEF Rate!Judge, Raised
  <2>2. j.pc = "judge" /\ clock' = clock /\ detector' = detector /\ clients' = clients
      BY <1>4 DEF Rate!Judge
  <2>3. c \in Clients /\ j.events \in Seq(Tagged)
      BY <1>0, <2>2 DEF Knows
  <2>4. clients[c].mutations \in Nat
      BY <1>0, <2>3 DEF Histories
  <2>5. Heard(j.events, detector, all(p)) /\ Mutated(detector, all(p), clients[c].mutations)
      BY <1>0, <2>3, <2>4, JudgedIs
  <2> DEFINE jp == jb(p)
  <2>6. /\ jp.pc = "infer" /\ jp.client = c /\ jp.events = j.events /\ jp.rules = detector
        /\ jp.signals = all(p)
      OBVIOUS
  <2>7. serve' = [serve EXCEPT ![w] = jp]
      BY <2>1
  <2> HIDE DEF jp, jb, all
  <2>8. Knows(jp, clients)
      BY <1>0, <2>3, <2>5, <2>6 DEF Knows
  <2>9. Histories'
      BY <1>0, <2>2 DEF Histories
  <2> QED
      BY <1>0, <2>2, <2>7, <2>8, <2>9, OneServes
<1>5. ASSUME NEW w \in Servers, Rate!Infer(w) PROVE RateInv'
  <2> DEFINE j == serve[w]
             c == j.client
             st == clients[c]
             told == Rate!SessionStats(st, Facts[j.kind], j.events, Detectors[detector])
             jb(n, b) == [pc |-> "answer", client |-> c, kind |-> j.kind, events |-> j.events,
                           signals |-> j.signals, total |-> n, session |-> told, label |-> b,
                           rules |-> j.rules, later |-> detector]
  <2>1. \E n, b : serve' = [serve EXCEPT ![w] = jb(n, b)]
      BY <1>5 DEF Rate!Infer
  <2>2. PICK jp : serve' = [serve EXCEPT ![w] = jp] /\ \E n, b : jp = jb(n, b)
      BY <2>1
  <2>3. j.pc = "infer" /\ clock' = clock /\ detector' = detector /\ clients' = clients
      BY <1>5 DEF Rate!Infer
  <2>4. /\ c \in Clients /\ j.events \in Seq(Tagged) /\ j.rules \in DOMAIN Detectors
        /\ Heard(j.events, j.rules, j.signals) /\ Mutated(j.rules, j.signals, st.mutations)
      BY <1>0, <2>3 DEF Knows
  <2>5. /\ told.authKinds = Rate!AuthKinds(j.events, Detectors[detector])
        /\ told.schemaFirst = Rate!SchemaFirst(j.events, Detectors[detector])
        /\ told.mutations = st.mutations
      BY DEF Rate!SessionStats
  <2> HIDE DEF told
  <2>6. /\ jp.pc = "answer" /\ jp.client = c /\ jp.events = j.events /\ jp.rules = j.rules
        /\ jp.signals = j.signals /\ jp.session = told /\ jp.later = detector
      BY <2>2
  <2> HIDE DEF jb
  <2>7. WasTold(jp)
      BY <1>0, <2>4, <2>5, <2>6 DEF WasTold
  <2>8. Knows(jp, clients)
      BY <2>4, <2>6, <2>7 DEF Knows
  <2>9. Histories'
      BY <1>0, <2>3 DEF Histories
  <2> QED
      BY <1>0, <2>2, <2>3, <2>8, <2>9, OneServes
<1>6. ASSUME NEW w \in Servers, Rate!Answer(w) PROVE RateInv'
  <2> DEFINE j == serve[w]
             c == j.client
             q == Facts[j.kind]
  <2>1. /\ j.pc = "answer" /\ serve' = [serve EXCEPT ![w] = Rate!Idle]
        /\ clock' = clock /\ detector' = detector
      BY <1>6 DEF Rate!Answer
  <2>2. clients' = [clients EXCEPT
            ![c].status = q.status,
            ![c].bad = IF q.status >= 400 THEN <<q.url, q.method>> ELSE @,
            ![c].script = IF q.script /\ j.total < ChallengeAt /\ q.status = 200 THEN clock ELSE @,
            ![c].setCookie = @ \/ (j.total >= TarpitAt /\ q.sets)]
      BY <1>6 DEF Rate!Answer
  <2>3. c \in Clients
      BY <1>0, <2>1 DEF Knows
  <2>4. /\ DOMAIN clients' = Clients
        /\ \A a \in Clients : DOMAIN clients'[a] = DOMAIN clients[a]
                              /\ clients'[a].events = clients[a].events /\ clients'[a].mutations = clients[a].mutations
    <3> DEFINE old == clients[c]
               r == [old EXCEPT
                        !.status = q.status,
                        !.bad = IF q.status >= 400 THEN <<q.url, q.method>> ELSE @,
                        !.script = IF q.script /\ j.total < ChallengeAt /\ q.status = 200 THEN clock ELSE @,
                        !.setCookie = @ \/ (j.total >= TarpitAt /\ q.sets)]
    <3>1. DOMAIN clients = Clients
        BY <1>0 DEF Histories
    <3>2. clients' = [clients EXCEPT ![c] = r]
        BY ZenonT(60), <2>2, <2>3, <3>1
    <3>3. DOMAIN r = DOMAIN old /\ r.events = old.events /\ r.mutations = old.mutations
        OBVIOUS
    <3> HIDE DEF r
    <3> QED
        BY <2>3, <3>1, <3>2, <3>3
  <2>5. Histories'
      BY <1>0, <2>4 DEF Histories
  <2>6. \A a \in Clients : clients'[a].mutations >= clients[a].mutations
    <3>1. \A a \in Clients : clients[a].mutations \in Nat
        BY <1>0 DEF Histories
    <3> QED
        BY <2>4, <3>1
  <2>7. \A v \in Servers : Knows(serve[v], clients')
      BY <1>0, <2>5, <2>6, KnowsStays
  <2>8. Knows(Rate!Idle, clients')
    <3>1. Rate!Idle.pc = "idle"
        BY DEF Rate!Idle
    <3> QED
        BY <3>1 DEF Knows
  <2> QED
      BY <2>1, <2>5, <2>7, <2>8, OneServes
<1>7. CASE Rate!SetRules
  <2>1. detector < Len(Detectors) /\ detector' = detector + 1 /\ clock' = clock /\ clients' = clients /\ serve' = serve
      BY <1>7 DEF Rate!SetRules
  <2>2. detector' \in DOMAIN Detectors
      BY <1>0, <2>1, ScoringAssumption
  <2> QED
      BY <1>0, <2>1, <2>2 DEF RateInv, Histories
<1>8. CASE Rate!Pass
  <2>1. clock < MaxClock /\ clock' = clock + 1 /\ detector' = detector /\ clients' = clients /\ serve' = serve
      BY <1>8 DEF Rate!Pass
  <2> QED
      BY <1>0, <2>1, PointsAssumption DEF RateInv, Histories
<1>9. CASE UNCHANGED Rate!vars
  <2>1. clock' = clock /\ detector' = detector /\ clients' = clients /\ serve' = serve
      BY <1>9 DEF Rate!vars
  <2> QED
      BY <1>0, <2>1 DEF RateInv, Histories
<1> QED
    BY <1>1, <1>2, <1>3, <1>4, <1>5, <1>6, <1>7, <1>8, <1>9 DEF Rate!Next

(* The parts of the scorer that look at the same evidence agree on it,     *)
(* whatever other requests and reloads come in between: the ordered        *)
(* toolchain signal fires only where the unordered one does and has        *)
(* points, and what the classifier is told of log-in pages, API schemas    *)
(* and mutations is what the signals fired on.                             *)
THEOREM PartsAgree == Rate!Spec => []SignalsAgree
<1>1. RateInv => SignalsAgree
  <2> SUFFICES ASSUME RateInv PROVE Rate!SignalsAgree
      BY DEF SignalsAgree, In
  <2>1. \A w \in Servers : serve[w].pc = "answer" => Knows(serve[w], clients)
      BY DEF RateInv
  <2> QED
      BY <2>1, KnowsAgrees DEF Rate!SignalsAgree, InOrder
<1> QED
    BY <1>1, RateStart, RateStep, PTL DEF Rate!Spec

-----------------------------------------------------------------------------
(* The forest. *)

\* The module that is instantiated counts as the proofs do.
LEMMA GrowCounts == \A S : Grow!Cardinality(S) = Cardinality(S)
BY Zenon DEF Grow!Cardinality, Cardinality

\* The trees of one level, from those of the level below.
TreesOf(all, max, left, below) ==
    [S \in SUBSET all |-> IF left = 0 \/ Grow!Cardinality(S) <= 1 THEN {Grow!Leaf(S, max - left)}
                          ELSE Grow!Branched(below, S, max - left)]
Levels(g, all, max, n) == g = [left \in 0..n |-> TreesOf(all, max, left, g[left - 1])]

\* A function on 0..n that is computed from its value before exists: TreesOf and the step
\* of a path are used as the two kinds of it.
LEMMA LevelsExist ==
    ASSUME NEW all, NEW max \in Nat
    PROVE  \E g : Levels(g, all, max, max)
<1> DEFINE G == {n \in Nat : \E g : Levels(g, all, max, n)}
<1>0. \A a, b : TreesOf(all, max, 0, a) = TreesOf(all, max, 0, b)
    BY DEF TreesOf
<1>1. 0 \in G
  <2> DEFINE h == [left \in 0..0 |-> TreesOf(all, max, left, <<>>)]
  <2>1. h = [left \in 0..0 |-> TreesOf(all, max, left, h[left - 1])]
    <3>1. \A left \in 0..0 : TreesOf(all, max, left, <<>>) = TreesOf(all, max, left, h[left - 1])
        BY <1>0
    <3> QED
        BY <3>1
  <2> HIDE DEF h
  <2> QED
      BY <2>1 DEF Levels
<1>2. ASSUME NEW n \in G PROVE n + 1 \in G
  <2>1. PICK g : Levels(g, all, max, n)
      OBVIOUS
  <2> DEFINE h == [left \in 0..(n + 1) |-> IF left <= n THEN g[left] ELSE TreesOf(all, max, left, g[n])]
  <2>2. ASSUME NEW left \in 0..(n + 1) PROVE h[left] = TreesOf(all, max, left, h[left - 1])
    <3>1. CASE left = n + 1
      <4>1. h[left - 1] = g[n] /\ h[left] = TreesOf(all, max, left, g[n])
          BY <3>1
      <4> QED
          BY <4>1
    <3>2. CASE left \in 1..n
      <4>1. h[left - 1] = g[left - 1] /\ h[left] = g[left]
          BY <3>2
      <4>2. g[left] = TreesOf(all, max, left, g[left - 1])
          BY <2>1, <3>2 DEF Levels
      <4> QED
          BY <4>1, <4>2
    <3>3. CASE left = 0
      <4>1. h[left] = g[left] /\ left \in 0..n
          BY <3>3
      <4>2. g[left] = TreesOf(all, max, left, g[left - 1])
          BY <2>1, <4>1 DEF Levels
      <4> QED
          BY <1>0, <3>3, <4>1, <4>2
    <3> QED
        BY <3>1, <3>2, <3>3
  <2>3. h = [left \in 0..(n + 1) |-> h[left]]
      OBVIOUS
  <2> HIDE DEF h
  <2>4. Levels(h, all, max, n + 1)
      BY <2>2, <2>3 DEF Levels
  <2> QED
      BY <2>4
<1>3. G \in SUBSET Nat
    OBVIOUS
<1>4. Nat \subseteq G
  <2> HIDE DEF G
  <2> QED
      BY <1>1, <1>2, <1>3, Induct
<1> QED
    BY <1>4

\* So the trees that may grow are those of the topmost level.
LEMMA GrownIs ==
    ASSUME NEW all, NEW max \in Nat
    PROVE  \E g : Levels(g, all, max, max) /\ Grow!Grown(all, max) = g[max][all]
<1> DEFINE g == CHOOSE h : Levels(h, all, max, max)
<1>1. Levels(g, all, max, max)
    BY LevelsExist
<1>2. Grow!Grown(all, max) = g[max][all]
    BY DEF Grow!Grown, Levels, TreesOf
<1> QED
    BY <1>1, <1>2

(* A tree of a level is a leaf, or splits its rows among two trees of the  *)
(* level below.                                                            *)
Splitting(t, g, left, S) ==
    \E ft \in 1..Width : \E s \in Grow!Column(S, ft) :
        \E lt \in g[left - 1][{q \in S : q.x[ft] < s}], rt \in g[left - 1][{q \in S : q.x[ft] >= s}] :
            t = [feat |-> ft, split |-> s, left |-> lt, right |-> rt]

\* So are all trees of the levels that grow.
LEMMA TreeIs ==
    ASSUME NEW all, NEW max \in Nat, NEW g, Levels(g, all, max, max),
           NEW left \in 0..max, NEW S \in SUBSET all, NEW t \in g[left][S]
    PROVE  t = Grow!Leaf(S, max - left) \/ (left > 0 /\ Splitting(t, g, left, S))
<1>1. g[left] = TreesOf(all, max, left, g[left - 1])
    BY DEF Levels
<1>2. SUFFICES ASSUME t # Grow!Leaf(S, max - left) PROVE left > 0 /\ Splitting(t, g, left, S)
    OBVIOUS
<1>3. t \in TreesOf(all, max, left, g[left - 1])[S]
    BY <1>1
<1>4. left > 0 /\ t \in Grow!Branched(g[left - 1], S, max - left)
    BY <1>2, <1>3 DEF TreesOf
<1> DEFINE Whole == IF \E ft \in 1..Width : Grow!Splits(S, ft) = {} THEN {Grow!Leaf(S, max - left)} ELSE {}
<1>5. t \in Whole \cup UNION {UNION {Grow!Divided(g[left - 1], S, ft, s) : s \in Grow!Splits(S, ft)} : ft \in 1..Width}
    BY <1>4 DEF Grow!Branched
<1>6. t \notin Whole
    BY <1>2
<1> HIDE DEF Whole
<1>7. PICK ft \in 1..Width : t \in UNION {Grow!Divided(g[left - 1], S, ft, s) : s \in Grow!Splits(S, ft)}
    BY <1>5, <1>6
<1>8. PICK s \in Grow!Splits(S, ft) : t \in Grow!Divided(g[left - 1], S, ft, s)
    BY <1>7
<1>9. s \in Grow!Column(S, ft)
    BY <1>8 DEF Grow!Splits
<1>10. \E lt \in g[left - 1][{q \in S : q.x[ft] < s}], rt \in g[left - 1][{q \in S : q.x[ft] >= s}] :
          t = [feat |-> ft, split |-> s, left |-> lt, right |-> rt]
    BY <1>8 DEF Grow!Divided
<1> QED
    BY <1>4, <1>9, <1>10 DEF Splitting

\* The way of a row through a tree, one node after the other.
NextNode(node, x) == IF node.feat = None THEN node ELSE Grow!Side(node, x)
Path(p, tree, x, n) == p = [d \in 0..n |-> IF d = 0 THEN tree ELSE NextNode(p[d - 1], x)]

\* The path of a row through a tree exists: there is a function to choose.
LEMMA PathExists ==
    ASSUME NEW tree, NEW x, NEW max \in Nat
    PROVE  \E p : Path(p, tree, x, max)
<1> DEFINE G == {n \in Nat : \E p : Path(p, tree, x, n)}
<1>1. 0 \in G
  <2> DEFINE h == [d \in 0..0 |-> tree]
  <2>1. h = [d \in 0..0 |-> IF d = 0 THEN tree ELSE NextNode(h[d - 1], x)]
      OBVIOUS
  <2> HIDE DEF h
  <2> QED
      BY <2>1 DEF Path
<1>2. ASSUME NEW n \in G PROVE n + 1 \in G
  <2>1. PICK p : Path(p, tree, x, n)
      OBVIOUS
  <2> DEFINE h == [d \in 0..(n + 1) |-> IF d <= n THEN p[d] ELSE NextNode(p[n], x)]
  <2>2. ASSUME NEW d \in 0..(n + 1) PROVE h[d] = IF d = 0 THEN tree ELSE NextNode(h[d - 1], x)
    <3>1. CASE d = n + 1
      <4>1. h[d - 1] = p[n] /\ h[d] = NextNode(p[n], x) /\ d # 0
          BY <3>1
      <4> QED
          BY <4>1
    <3>2. CASE d \in 1..n
      <4>1. h[d - 1] = p[d - 1] /\ h[d] = p[d] /\ d # 0
          BY <3>2
      <4>2. p[d] = NextNode(p[d - 1], x)
          BY <2>1, <3>2 DEF Path
      <4> QED
          BY <4>1, <4>2
    <3>3. CASE d = 0
      <4>1. h[d] = p[d] /\ d \in 0..n
          BY <3>3
      <4>2. p[d] = tree
          BY <2>1, <3>3, <4>1 DEF Path
      <4> QED
          BY <3>3, <4>1, <4>2
    <3> QED
        BY <3>1, <3>2, <3>3
  <2>3. h = [d \in 0..(n + 1) |-> h[d]]
      OBVIOUS
  <2> HIDE DEF h
  <2>4. Path(h, tree, x, n + 1)
      BY <2>2, <2>3 DEF Path
  <2> QED
      BY <2>4
<1>3. G \in SUBSET Nat
    OBVIOUS
<1>4. Nat \subseteq G
  <2> HIDE DEF G
  <2> QED
      BY <1>1, <1>2, <1>3, Induct
<1> QED
    BY <1>4

\* A row ends where its path leaves the trees that split.
LEMMA EndsIs ==
    ASSUME NEW fr, NEW x, fr.depth \in Nat
    PROVE  \E p : Path(p, fr.tree, x, fr.depth) /\ Grow!Ends(fr, x) = p[fr.depth]
<1> DEFINE p == CHOOSE h : Path(h, fr.tree, x, fr.depth)
<1>1. Path(p, fr.tree, x, fr.depth)
    BY PathExists
<1>2. Grow!Ends(fr, x) = p[fr.depth]
    BY DEF Grow!Ends, Path, NextNode
<1> QED
    BY <1>1, <1>2

(* After d steps a row of S is in a tree that grew from rows with it among *)
(* them: at this depth, or in a leaf on the way.                           *)
Holds(t, g, all, max, row, d) ==
    \E S \in SUBSET all : \E e \in 0..d :
        row \in S /\ t \in g[max - e][S] /\ (t.feat # None => e = d)

\* A step down takes the row to the side it was put on when the tree grew.
LEMMA StepHolds ==
    ASSUME NEW all \in SUBSET Grow!Row, NEW max \in Nat, NEW g, Levels(g, all, max, max),
           NEW row \in all, NEW d \in 0..(max - 1), NEW t, Holds(t, g, all, max, row, d)
    PROVE  Holds(NextNode(t, row.x), g, all, max, row, d + 1)
<1>1. PICK S \in SUBSET all, e \in 0..d : row \in S /\ t \in g[max - e][S] /\ (t.feat # None => e = d)
    BY DEF Holds
<1>2. CASE t.feat = None
  <2>1. NextNode(t, row.x) = t /\ e \in 0..(d + 1)
      BY <1>2 DEF NextNode
  <2> QED
      BY <1>1, <1>2, <2>1 DEF Holds
<1>3. CASE t.feat # None
  <2>1. e = d /\ max - d \in 0..max /\ max - d > 0
      BY <1>1, <1>3
  <2>2. t # Grow!Leaf(S, max - (max - d))
      BY <1>3 DEF Grow!Leaf
  <2>3. Splitting(t, g, max - d, S)
      BY <1>1, <2>1, <2>2, TreeIs
  <2>4. PICK ft \in 1..Width : \E s \in Grow!Column(S, ft) :
           \E lt \in g[(max - d) - 1][{q \in S : q.x[ft] < s}], rt \in g[(max - d) - 1][{q \in S : q.x[ft] >= s}] :
              t = [feat |-> ft, split |-> s, left |-> lt, right |-> rt]
      BY <2>3 DEF Splitting
  <2>5. PICK s \in Grow!Column(S, ft) :
           \E lt \in g[(max - d) - 1][{q \in S : q.x[ft] < s}], rt \in g[(max - d) - 1][{q \in S : q.x[ft] >= s}] :
              t = [feat |-> ft, split |-> s, left |-> lt, right |-> rt]
      BY <2>4
  <2>50. PICK lt \in g[(max - d) - 1][{q \in S : q.x[ft] < s}], rt \in g[(max - d) - 1][{q \in S : q.x[ft] >= s}] :
              t = [feat |-> ft, split |-> s, left |-> lt, right |-> rt]
      BY <2>5
  <2>6. \A q \in S : q.x[ft] \in Int
    <3>1. \A q \in S : q.x \in [1..Width -> Int]
        BY ForestAssumption DEF Grow!Row
    <3> QED
        BY <3>1
  <2>7. s \in Int
      BY <2>6 DEF Grow!Column
  <2>8. NextNode(t, row.x) = IF row.x[ft] < s THEN lt ELSE rt
      BY <1>3, <2>50 DEF NextNode, Grow!Side
  <2>9. (max - d) - 1 = max - (d + 1) /\ d + 1 \in 0..(d + 1)
      OBVIOUS
  <2>10. CASE row.x[ft] < s
    <3>1. {q \in S : q.x[ft] < s} \in SUBSET all /\ row \in {q \in S : q.x[ft] < s}
        BY <1>1, <2>10
    <3>2. NextNode(t, row.x) \in g[max - (d + 1)][{q \in S : q.x[ft] < s}]
        BY <2>50, <2>8, <2>9, <2>10
    <3> QED
        BY <2>9, <3>1, <3>2 DEF Holds
  <2>11. CASE ~(row.x[ft] < s)
    <3>1. {q \in S : q.x[ft] >= s} \in SUBSET all /\ row \in {q \in S : q.x[ft] >= s}
        BY <1>1, <2>6, <2>7, <2>11
    <3>2. NextNode(t, row.x) \in g[max - (d + 1)][{q \in S : q.x[ft] >= s}]
        BY <2>50, <2>8, <2>9, <2>11
    <3> QED
        BY <2>9, <3>1, <3>2 DEF Holds
  <2> QED
      BY <2>10, <2>11
<1> QED
    BY <1>2, <1>3

(* A row that a tree was grown from ends in a leaf that counted it, no     *)
(* deeper than the limit.                                                  *)
LEMMA RowsAreIsolated ==
    ASSUME NEW fr, fr.depth \in Nat, fr.rows \in SUBSET Grow!Row, IsFiniteSet(fr.rows),
           fr.tree \in Grow!Grown(fr.rows, fr.depth), NEW row \in fr.rows
    PROVE  Grow!Ends(fr, row.x).size > 0 /\ Grow!Ends(fr, row.x).depth <= fr.depth
<1> DEFINE max == fr.depth
           all == fr.rows
<1>1. PICK g : Levels(g, all, max, max) /\ Grow!Grown(all, max) = g[max][all]
    BY GrownIs
<1>2. PICK p : Path(p, fr.tree, row.x, max) /\ Grow!Ends(fr, row.x) = p[max]
    BY EndsIs
<1> DEFINE G == {d \in Nat : d <= max => Holds(p[d], g, all, max, row, d)}
<1>3. 0 \in G
  <2>1. p[0] = fr.tree
      BY <1>2 DEF Path
  <2>2. p[0] \in g[max - 0][all] /\ all \in SUBSET all /\ 0 \in 0..0
      BY <1>1, <2>1
  <2> QED
      BY <2>2 DEF Holds
<1>4. ASSUME NEW d \in G PROVE d + 1 \in G
  <2>1. SUFFICES ASSUME d + 1 <= max PROVE Holds(p[d + 1], g, all, max, row, d + 1)
      BY <1>4
  <2>2. d \in 0..(max - 1) /\ Holds(p[d], g, all, max, row, d)
      BY <1>4, <2>1
  <2>3. p[d + 1] = NextNode(p[(d + 1) - 1], row.x) /\ (d + 1) - 1 = d
      BY <1>2, <2>1, <2>2 DEF Path
  <2> HIDE DEF G
  <2> QED
      BY <1>1, <2>2, <2>3, StepHolds
<1>5. G \in SUBSET Nat
    OBVIOUS
<1>6. Holds(p[max], g, all, max, row, max)
  <2> HIDE DEF G
  <2>1. Nat \subseteq G
      BY <1>3, <1>4, <1>5, Induct
  <2> USE DEF G
  <2> QED
      BY <2>1
<1>7. PICK S \in SUBSET all, e \in 0..max :
         row \in S /\ p[max] \in g[max - e][S] /\ (p[max].feat # None => e = max)
    BY <1>6 DEF Holds
<1>8. p[max] = Grow!Leaf(S, e)
  <2>1. max - e \in 0..max /\ max - (max - e) = e
      OBVIOUS
  <2>2. p[max] = Grow!Leaf(S, e) \/ (max - e > 0 /\ Splitting(p[max], g, max - e, S))
      BY <1>1, <1>7, <2>1, TreeIs
  <2>3. ASSUME Splitting(p[max], g, max - e, S) PROVE p[max].feat # None
      BY <2>3, ForestAssumption DEF Splitting
  <2> QED
      BY <1>7, <2>2, <2>3
<1>9. Grow!Cardinality(S) \in Nat /\ Grow!Cardinality(S) # 0
  <2>1. IsFiniteSet(S)
      BY FS_Subset
  <2> QED
      BY <1>7, <2>1, FS_CardinalityType, FS_EmptySet, GrowCounts
<1> QED
    BY <1>2, <1>8, <1>9 DEF Grow!Leaf

(* A forest that may serve: it grew from rows that came in so far.         *)
Grew(fr, newest) ==
    /\ fr.newest \in 1..newest /\ fr.rows \in SUBSET Grow!Row /\ IsFiniteSet(fr.rows)
    /\ fr.depth \in Nat /\ fr.tree \in Grow!Grown(fr.rows, fr.depth)

(* The ring holds the last rows, and the last of them came in last.        *)
RingTyped ==
    /\ conf \in DOMAIN Settings /\ cap \in Nat \ {0} /\ observed \in 0..MaxObserved
    /\ fitted \in [{"rows", "ticks", "restarts"} -> Nat] /\ fitted.rows <= MaxObserved
    /\ observed <= fitted.rows
    /\ recent \in Seq(Grow!Row) /\ Len(recent) <= cap
    /\ Len(recent) > 0 => recent[Len(recent)].n = fitted.rows

(* One fit at a time, and what it grew is at least as new as what serves.  *)
OneFit ==
    /\ refitting \in BOOLEAN
    /\ ~refitting => fits = <<>>
    /\ refitting => fits = <<fits[1]>>
    /\ refitting /\ fits[1] # None =>
          Grew(fits[1], fitted.rows) /\ (forest # None => forest.newest <= fits[1].newest)
ForestInv == RingTyped /\ OneFit /\ (forest # None => Grew(forest, fitted.rows))

\* No forest serves at the start.
LEMMA ForestStarts == Grow!Init => ForestInv
<1> SUFFICES ASSUME Grow!Init PROVE ForestInv
    OBVIOUS
<1>1. /\ conf = 1 /\ cap = Settings[1].every /\ recent = <<>> /\ observed = 0 /\ refitting = FALSE
      /\ fits = <<>> /\ forest = None
    BY DEF Grow!Init
<1>2. fitted = [b \in {"rows", "ticks", "restarts"} |-> 0]
    BY DEF Grow!Init, Grow!Bounds
<1>3. 1 \in DOMAIN Settings /\ Settings[1].every \in Nat \ {0} /\ MaxObserved \in Nat
    BY ForestAssumption
<1>4. RingTyped
    BY <1>1, <1>2, <1>3 DEF RingTyped
<1> QED
    BY <1>1, <1>4 DEF ForestInv, OneFit

\* A bounded action counts itself alone.
LEMMA AgainIs ==
    ASSUME fitted \in [{"rows", "ticks", "restarts"} -> Nat], fitted.rows <= MaxObserved,
           NEW what \in {"rows", "ticks", "restarts"}, Grow!Again(what)
    PROVE  /\ fitted' \in [{"rows", "ticks", "restarts"} -> Nat] /\ fitted'.rows <= MaxObserved
           /\ fitted'.rows = IF what = "rows" THEN fitted.rows + 1 ELSE fitted.rows
<1>1. fitted[what] < Grow!Bounds[what] /\ fitted' = [fitted EXCEPT ![what] = fitted[what] + 1]
    BY DEF Grow!Again
<1>2. what = "rows" => fitted.rows + 1 <= MaxObserved
    BY <1>1, ForestAssumption DEF Grow!Bounds
<1> QED
    BY <1>1, <1>2

\* What serves with fewer rows serves with more.
LEMMA GrewStays ==
    ASSUME NEW fr, NEW m \in Nat, NEW n \in Nat, m <= n, Grew(fr, m)
    PROVE  Grew(fr, n)
BY DEF Grew

\* Samples of a set are some of it.
LEMMA SamplesAre ==
    ASSUME NEW S, NEW n, NEW T \in Grow!Samples(S, n)
    PROVE  T \subseteq S
BY DEF Grow!Samples

\* Every step keeps the ring and the one fit.
LEMMA ForestSteps == ForestInv /\ [Grow!Next]_(Grow!vars) => ForestInv'
<1> SUFFICES ASSUME ForestInv, [Grow!Next]_(Grow!vars) PROVE ForestInv'
    OBVIOUS
<1>0. RingTyped /\ OneFit /\ (forest # None => Grew(forest, fitted.rows))
    BY DEF ForestInv
<1>1. CASE Grow!Observe
  <2>1. /\ Grow!Again("rows") /\ UNCHANGED <<conf, cap, refitting, fits, forest>>
      BY <1>1 DEF Grow!Observe
  <2>2. PICK x \in Numerics, labelled \in BOOLEAN :
           /\ observed' = observed + (IF labelled THEN 1 ELSE 0)
           /\ recent' = Append(IF Len(recent) >= cap THEN Tail(recent) ELSE recent, [n |-> fitted.rows + 1, x |-> x])
      BY <1>1 DEF Grow!Observe
  <2>3. /\ fitted' \in [{"rows", "ticks", "restarts"} -> Nat] /\ fitted'.rows <= MaxObserved
        /\ fitted'.rows = fitted.rows + 1 /\ fitted.rows \in Nat
      BY <1>0, <2>1, AgainIs DEF RingTyped
  <2>4. [n |-> fitted.rows + 1, x |-> x] \in Grow!Row
      BY <2>3, ForestAssumption DEF Grow!Row
  <2> DEFINE row == [n |-> fitted.rows + 1, x |-> x]
             left == IF Len(recent) >= cap THEN Tail(recent) ELSE recent
  <2>5. left \in Seq(Grow!Row) /\ Len(left) < cap
      BY <1>0 DEF RingTyped
  <2>6. row \in Grow!Row /\ row.n = fitted'.rows /\ recent' = Append(left, row)
      BY <2>2, <2>3, <2>4
  <2> HIDE DEF row, left
  <2>7. recent' \in Seq(Grow!Row) /\ Len(recent') <= cap /\ recent'[Len(recent')].n = fitted'.rows
      BY <1>0, <2>5, <2>6 DEF RingTyped
  <2>8. observed' \in 0..MaxObserved /\ observed' <= fitted'.rows
      BY <1>0, <2>2, <2>3, ForestAssumption DEF RingTyped
  <2>9. RingTyped'
      BY <1>0, <2>1, <2>3, <2>7, <2>8 DEF RingTyped
  <2>10. \A fr : Grew(fr, fitted.rows) => Grew(fr, fitted'.rows)
      BY <2>3, GrewStays
  <2> QED
      BY <1>0, <2>1, <2>9, <2>10 DEF ForestInv, OneFit
<1>2. CASE Grow!Tick
  <2>1. /\ ~refitting /\ refitting' = TRUE /\ fits' = Append(fits, None) /\ Grow!Again("ticks")
        /\ UNCHANGED <<conf, cap, recent, observed, forest>>
      BY <1>2 DEF Grow!Tick, Grow!Start
  <2>2. /\ fitted' \in [{"rows", "ticks", "restarts"} -> Nat] /\ fitted'.rows <= MaxObserved
        /\ fitted'.rows = fitted.rows
      BY <1>0, <2>1, AgainIs DEF RingTyped
  <2>3. fits' = <<None>>
      BY <1>0, <2>1 DEF OneFit
  <2>4. RingTyped'
      BY <1>0, <2>1, <2>2 DEF RingTyped
  <2> QED
      BY <1>0, <2>1, <2>2, <2>3, <2>4 DEF ForestInv, OneFit
<1>3. CASE Grow!Copy
  <2>1. PICK i \in DOMAIN fits :
          /\ fits[i] = None
          /\ IF ~Grow!Now.enabled \/ Len(recent) < MinRows THEN Grow!End(i)
             ELSE /\ \E all \in Grow!Samples(Grow!ToSet(recent), Grow!Now.most) :
                        \E sample \in Grow!Samples(all, Grow!Now.sample) :
                           \E tree \in Grow!Grown(sample, Grow!Now.depth) :
                              fits' = [fits EXCEPT ![i] = [newest |-> Grow!Last(recent).n, rows |-> sample,
                                                           depth |-> Grow!Now.depth, tree |-> tree]]
                  /\ UNCHANGED refitting
      BY <1>3 DEF Grow!Copy
  <2>2. UNCHANGED <<conf, cap, recent, observed, forest, fitted>>
      BY <1>3 DEF Grow!Copy
  <2>3. refitting /\ fits = <<fits[1]>> /\ i = 1
      BY <1>0, <2>1 DEF OneFit
  <2>4. RingTyped' /\ (forest' # None => Grew(forest', fitted'.rows))
      BY <1>0, <2>2 DEF RingTyped
  <2>5. CASE ~Grow!Now.enabled \/ Len(recent) < MinRows
    <3>1. Grow!End(1)
        BY <2>1, <2>3, <2>5, Zenon
    <3>2. fits' = <<>> /\ refitting' = FALSE
        BY <2>3, <3>1 DEF Grow!End, Grow!RemoveAt
    <3> QED
        BY <2>4, <3>2 DEF ForestInv, OneFit
  <2>6. CASE ~(~Grow!Now.enabled \/ Len(recent) < MinRows)
    <3>1. PICK all \in Grow!Samples(Grow!ToSet(recent), Grow!Now.most) :
             \E sample \in Grow!Samples(all, Grow!Now.sample) :
                \E tree \in Grow!Grown(sample, Grow!Now.depth) :
                   fits' = [fits EXCEPT ![i] = [newest |-> Grow!Last(recent).n, rows |-> sample,
                                                depth |-> Grow!Now.depth, tree |-> tree]]
        BY <2>1, <2>6
    <3>2. PICK sample \in Grow!Samples(all, Grow!Now.sample) :
             \E tree \in Grow!Grown(sample, Grow!Now.depth) :
                fits' = [fits EXCEPT ![i] = [newest |-> Grow!Last(recent).n, rows |-> sample,
                                             depth |-> Grow!Now.depth, tree |-> tree]]
        BY <3>1
    <3>20. PICK tree \in Grow!Grown(sample, Grow!Now.depth) :
             fits' = [fits EXCEPT ![i] = [newest |-> Grow!Last(recent).n, rows |-> sample,
                                          depth |-> Grow!Now.depth, tree |-> tree]]
        BY <3>2
    <3>3. refitting' = refitting
        BY <2>1, <2>6
    <3> DEFINE fr == [newest |-> Grow!Last(recent).n, rows |-> sample, depth |-> Grow!Now.depth, tree |-> tree]
    <3>4. fits' = <<fr>>
        BY <2>3, <3>20
    <3>5. sample \subseteq Grow!ToSet(recent)
        BY <3>1, <3>2, SamplesAre
    <3>6. Grow!ToSet(recent) \subseteq Grow!Row /\ IsFiniteSet(Grow!ToSet(recent))
      <4>1. recent \in Seq(Grow!Row) /\ Len(recent) \in Nat /\ DOMAIN recent = 1..Len(recent)
          BY <1>0 DEF RingTyped
      <4>2. IsFiniteSet({recent[k] : k \in 1..Len(recent)})
        <5> DEFINE T == {recent[k] : k \in 1..Len(recent)}
        <5>1. [k \in 1..Len(recent) |-> recent[k]] \in Surjection(1..Len(recent), T)
            BY DEF Surjection
        <5> HIDE DEF T
        <5>2. IsFiniteSet(1..Len(recent))
            BY <4>1, FS_Interval
        <5>3. IsFiniteSet(T)
            BY <5>1, <5>2, FS_Surjection
        <5> QED
            BY <5>3 DEF T
      <4>3. Grow!ToSet(recent) = {recent[k] : k \in 1..Len(recent)}
          BY <4>1 DEF Grow!ToSet
      <4> QED
          BY <4>1, <4>2, <4>3
    <3>7. sample \in SUBSET Grow!Row /\ IsFiniteSet(sample)
        BY <3>5, <3>6, FS_Subset
    <3>8. Grow!Now.depth \in Nat
        BY <1>0, ForestAssumption DEF RingTyped, Grow!Now
    <3>9. Grow!Last(recent).n = fitted.rows /\ fitted.rows \in 1..fitted.rows
      <4>1. Len(recent) > 0 /\ recent \in Seq(Grow!Row)
          BY <1>0, <2>6, ForestAssumption DEF RingTyped
      <4>2. recent[Len(recent)].n = fitted.rows /\ recent[Len(recent)] \in Grow!Row
          BY <1>0, <4>1 DEF RingTyped
      <4> QED
          BY <4>2 DEF Grow!Last, Grow!Row
    <3>10. Grew(fr, fitted.rows) /\ fr.newest = fitted.rows
        BY <3>20, <3>7, <3>8, <3>9 DEF Grew
    <3> HIDE DEF fr
    <3>11. fits'[1] = fr /\ fits' = <<fits'[1]>>
        BY <3>4
    <3>12. forest # None => forest.newest <= fr.newest
        BY <1>0, <3>10 DEF Grew
    <3>13. OneFit'
        BY <2>2, <2>3, <3>3, <3>10, <3>11, <3>12 DEF OneFit
    <3> QED
        BY <2>4, <3>13 DEF ForestInv
  <2> QED
      BY <2>5, <2>6
<1>4. CASE Grow!Swap
  <2>1. PICK i \in DOMAIN fits : fits[i] # None /\ forest' = fits[i] /\ Grow!End(i)
      BY <1>4 DEF Grow!Swap
  <2>2. UNCHANGED <<conf, cap, recent, observed, fitted>>
      BY <1>4 DEF Grow!Swap
  <2>3. refitting /\ fits = <<fits[1]>> /\ i = 1
      BY <1>0, <2>1 DEF OneFit
  <2>4. fits' = <<>> /\ refitting' = FALSE
      BY <2>1, <2>3 DEF Grow!End, Grow!RemoveAt
  <2>5. RingTyped' /\ Grew(forest', fitted'.rows)
      BY <1>0, <2>1, <2>2, <2>3 DEF RingTyped, OneFit
  <2> QED
      BY <2>4, <2>5 DEF ForestInv, OneFit
<1>5. CASE Grow!Score
    BY <1>0, <1>5 DEF Grow!Score, ForestInv, RingTyped, OneFit
<1>6. CASE Grow!Reload
  <2>1. conf' = conf + 1 /\ conf < Len(Settings)
        /\ UNCHANGED <<cap, recent, observed, refitting, fits, forest, fitted>>
      BY <1>6 DEF Grow!Reload
  <2>2. conf' \in DOMAIN Settings
      BY <1>0, <2>1, ForestAssumption DEF RingTyped
  <2> QED
      BY <1>0, <2>1, <2>2 DEF ForestInv, RingTyped, OneFit
<1>7. CASE Grow!Restart
  <2>1. /\ Grow!Again("restarts") /\ cap' = Grow!Now.every /\ recent' = <<>> /\ observed' = 0
        /\ refitting' = FALSE /\ fits' = <<>> /\ forest' = None /\ conf' = conf
      BY <1>7 DEF Grow!Restart
  <2>2. /\ fitted' \in [{"rows", "ticks", "restarts"} -> Nat] /\ fitted'.rows <= MaxObserved
      BY <1>0, <2>1, AgainIs DEF RingTyped
  <2>3. cap' \in Nat \ {0}
      BY <1>0, <2>1, ForestAssumption DEF RingTyped, Grow!Now
  <2>4. RingTyped'
      BY <1>0, <2>1, <2>2, <2>3, ForestAssumption DEF RingTyped
  <2> QED
      BY <2>1, <2>4 DEF ForestInv, OneFit
<1>8. CASE UNCHANGED Grow!vars
    BY <1>0, <1>8 DEF Grow!vars, ForestInv, RingTyped, OneFit
<1> QED
    BY <1>1, <1>2, <1>3, <1>4, <1>5, <1>6, <1>7, <1>8 DEF Grow!Next

\* A step that keeps its promise: no older forest, and rows that were learnt are isolated.
Serves ==
    /\ forest # None /\ forest' # None => forest'.newest >= forest.newest
    /\ answer' # None /\ answer'.learnt => answer'.leaf.size > 0 /\ answer'.leaf.depth <= forest.depth

\* Every step serves forests that are no older, and isolates the rows they grew from.
LEMMA StepsServe == ForestInv /\ Grow!Next => Serves
<1> SUFFICES ASSUME ForestInv, Grow!Next PROVE Serves
    OBVIOUS
<1>0. RingTyped /\ OneFit /\ (forest # None => Grew(forest, fitted.rows))
    BY DEF ForestInv
<1>1. CASE Grow!Score
  <2>1. forest # None /\ forest' = forest
      BY <1>1 DEF Grow!Score
  <2>2. PICK x \in Numerics :
           answer' = [leaf |-> Grow!Ends(forest, x), learnt |-> \E r \in forest.rows : r.x = x]
      BY <1>1 DEF Grow!Score
  <2>3. Grew(forest, fitted.rows)
      BY <1>0, <2>1
  <2>4. \A row \in forest.rows : Grow!Ends(forest, row.x).size > 0 /\ Grow!Ends(forest, row.x).depth <= forest.depth
      BY <2>3, RowsAreIsolated DEF Grew
  <2>5. answer'.leaf = Grow!Ends(forest, x) /\ (answer'.learnt <=> \E r \in forest.rows : r.x = x)
      BY <2>2
  <2>6. forest.newest \in Int
      BY <2>3 DEF Grew
  <2> QED
      BY <2>1, <2>4, <2>5, <2>6 DEF Serves
<1>2. CASE Grow!Swap
  <2>1. PICK i \in DOMAIN fits : fits[i] # None /\ forest' = fits[i]
      BY <1>2 DEF Grow!Swap
  <2>2. answer' = None
      BY <1>2 DEF Grow!Swap
  <2>3. refitting /\ fits = <<fits[1]>> /\ i = 1
      BY <1>0, <2>1 DEF OneFit
  <2>4. Grew(fits[1], fitted.rows) /\ (forest # None => forest.newest <= fits[1].newest)
      BY <1>0, <2>1, <2>3 DEF OneFit
  <2>5. fits[1].newest \in Int /\ (forest # None => forest.newest \in Int)
      BY <1>0, <2>4 DEF Grew
  <2> QED
      BY <2>1, <2>2, <2>3, <2>4, <2>5 DEF Serves
<1>3. CASE Grow!Restart
    BY <1>3 DEF Grow!Restart, Serves
<1>4. CASE Grow!Observe \/ Grow!Tick \/ Grow!Copy \/ Grow!Reload
  <2>1. forest' = forest /\ answer' = None
      BY <1>4 DEF Grow!Observe, Grow!Tick, Grow!Start, Grow!Copy, Grow!Reload
  <2>2. forest # None => forest.newest \in Int
      BY <1>0 DEF Grew
  <2> QED
      BY <2>1, <2>2 DEF Serves
<1> QED
    BY <1>1, <1>2, <1>3, <1>4 DEF Grow!Next

(* The forest in use is replaced by one that was fitted to rows at least   *)
(* as new, and isolates the rows it was fitted to: whatever ticks, fits,   *)
(* reloads and restarts overlap, for every number of features and every    *)
(* depth.                                                                  *)
THEOREM ForestHolds == Grow!Spec => ForestServes
<1>1. ForestInv /\ [Grow!Next]_(Grow!vars) => [Serves]_(Grow!vars)
    BY StepsServe
<1>2. [Serves]_(Grow!vars) =>
         [/\ forest # None /\ forest' # None => forest'.newest >= forest.newest
          /\ answer' # None /\ answer'.learnt =>
                answer'.leaf.size > 0 /\ answer'.leaf.depth <= forest.depth]_(Grow!vars)
    BY DEF Serves
<1> QED
    BY <1>1, <1>2, ForestStarts, ForestSteps, PTL DEF Grow!Spec, ForestServes, Grow!ForestServes

-----------------------------------------------------------------------------
(* The types of the parts. *)

\* The capture keeps to its types, which are part of its invariant.
LEMMA CaptureTyped == Keep!Spec => []Keep!TypeOK
<1>1. CaptureInv => Keep!TypeOK
    BY DEF CaptureInv
<1> QED
    BY <1>1, CaptureStarts, CaptureSteps, PTL DEF Keep!Spec

\* The reports keep to their types.
LEMMA ReportsTyped == Push!Spec => []Push!TypeOK
<1>1. BusInv => Push!TypeOK
    BY DEF BusInv
<1> QED
    BY <1>1, BusStarts, BusKeeps, PTL DEF Push!Spec

\* The retention keeps to its types.
LEMMA RetentionTyped == Spec => []TypeOK
<1>1. Numbered => TypeOK
    BY DEF Numbered, TypeOK
<1>2. Init => Numbered
    BY TrimStarts DEF RetentionInv
<1> QED
    BY <1>1, <1>2, TrimNumbers, PTL DEF Spec

\* The ring, the fits and the forest in use keep to their types.
LEMMA ForestTyped == Grow!Spec => []Grow!TypeOK
<1>1. ForestInv => Grow!TypeOK
  <2> SUFFICES ASSUME ForestInv PROVE Grow!TypeOK
      OBVIOUS
  <2>1. RingTyped /\ OneFit /\ (forest # None => Grew(forest, fitted.rows)) /\ MaxObserved \in Nat
        /\ fitted.rows \in Nat /\ fitted.rows <= MaxObserved
      BY ForestAssumption DEF ForestInv, RingTyped
  <2>2. ASSUME NEW fr, Grew(fr, fitted.rows) PROVE Grow!Fitted(fr)
      BY <2>1, <2>2 DEF Grew, Grow!Fitted
  <2>3. forest # None => Grow!Fitted(forest)
      BY <2>1, <2>2
  <2>4. \A i \in DOMAIN fits : fits[i] # None => Grow!Fitted(fits[i])
    <3>1. CASE refitting
      <4>1. DOMAIN fits = {1}
          BY <2>1, <3>1 DEF OneFit
      <4> QED
          BY <2>1, <2>2, <3>1, <4>1 DEF OneFit
    <3>2. CASE ~refitting
        BY <2>1, <3>2 DEF OneFit
    <3> QED
        BY <3>1, <3>2
  <2> QED
      BY <2>1, <2>3, <2>4 DEF RingTyped, OneFit, Grow!TypeOK
<1> QED
    BY <1>1, ForestStarts, ForestSteps, PTL DEF Grow!Spec

\* What operators demoted are pairs too.
LEMMA LearningTyped == Learn!Spec => []Learn!TypeOK
<1>1. Learn!Init => demoted \subseteq Pairs
    BY DEF Learn!Init
<1>2. LearnInv /\ demoted \subseteq Pairs /\ [Learn!Next]_Learn!vars => (demoted \subseteq Pairs)'
  <2> SUFFICES ASSUME LearnInv, demoted \subseteq Pairs, [Learn!Next]_Learn!vars PROVE demoted' \subseteq Pairs
      OBVIOUS
  <2>1. DOMAIN yaml \subseteq Pairs /\ DOMAIN rows \subseteq Pairs
      BY DEF LearnInv, MinerInv, MinerTyped, Files, Flags
  <2>2. CASE Learn!EditFile
      BY <2>1, <2>2 DEF Learn!EditFile, Learn!Flip
  <2>3. CASE Learn!EditTable
      BY <2>1, <2>3 DEF Learn!EditTable, Learn!Flip
  <2>4. CASE UNCHANGED demoted
      BY <2>4
  <2> QED
      BY <2>2, <2>3, <2>4 DEF Learn!Next, Learn!vars, Learn!Observe, Learn!Reload, Learn!Restart,
         Learn!Snapshot, Learn!Upsert, Learn!Merge, Learn!Write, Learn!WriteFails, Learn!Push
<1>3. LearnInv /\ demoted \subseteq Pairs => Learn!TypeOK
  <2> SUFFICES ASSUME LearnInv, demoted \subseteq Pairs PROVE Learn!TypeOK
      OBVIOUS
  <2>1. model \in Models /\ MinerTyped /\ RowsKeep
      BY DEF LearnInv, MinerInv, Counted
  <2>2. /\ Learn!Known(model) \subseteq Pairs /\ \A p \in Learn!Known(model) : model.counts[p] \in Learn!Pair
        /\ model.vocab \in [Learn!Features -> Nat] /\ model.entries \in Nat
      BY <2>1 DEF Models, Histograms, Learn!Known
  <2>3. DOMAIN yaml \subseteq Pairs /\ \A p \in DOMAIN yaml : yaml[p] \in [active : BOOLEAN, agent : Nat, support : Nat]
      BY <2>1 DEF MinerTyped, Files, Entry
  <2>4. rows \in Learn!Partial(Pairs, BOOLEAN) /\ DOMAIN rows \subseteq Pairs
      BY <2>1 DEF MinerTyped, Flags, Learn!Partial
  <2>5. kept \subseteq Pairs
      BY <2>1, <2>4 DEF RowsKeep
  <2>6. tick.at \in {"idle", "upsert", "merge", "write", "push"} /\ tick.listed \in BOOLEAN /\ Learn!Found \subseteq Pairs
      BY <2>1 DEF MinerTyped, Files, Learn!Found
  <2> QED
      BY <2>1, <2>2, <2>3, <2>4, <2>5, <2>6 DEF MinerTyped, Learn!TypeOK
<1> QED
    BY <1>1, <1>2, <1>3, LearnStarts, LearnKeeps, PTL DEF Learn!Spec

-----------------------------------------------------------------------------
(* The numbers of the recommender. *)

\* The recommender keeps to its types.
LEMMA CycleTyped == Recommend!Spec => []Recommend!TypeOK
<1>1. SuggestInv => Recommend!TypeOK
    BY DEF SuggestInv, CycleInv
<1> QED
    BY <1>1, CycleStarts, SuggestKeeps, PTL DEF Recommend!Spec

-----------------------------------------------------------------------------
(* The times and the counts of the fleet tracker. *)

\* The cardinalities of the fleet tracker are those of finite sets.
LEMMA FleetSizes == \A S : Crowd!Cardinality(S) = Cardinality(S)
BY DEF Crowd!Cardinality, Cardinality

(* No time is later than the clock, and the requests under way have their  *)
(* place among those that may be observed.                                 *)
Busy == {v \in Calls : call[v] # None}
FleetBounded ==
    /\ hour <= MaxNow /\ rep <= Len(Reloads)
    /\ \A i \in DOMAIN used : used[i].at <= hour
    /\ Len(used) + Cardinality(Busy) <= MaxObserved

\* The calls under way are finitely many.
LEMMA BusyCounts == IsFiniteSet(Busy) /\ Cardinality(Busy) \in Nat
<1>1. IsFiniteSet(Busy)
    BY FleetAssumption, FS_Subset DEF Busy
<1> QED
    BY <1>1, FS_CardinalityType

\* The bounds hold at the start.
LEMMA BoundsStart == Crowd!Init => FleetBounded
<1> SUFFICES ASSUME Crowd!Init PROVE FleetBounded
    OBVIOUS
<1>1. hour = 1 /\ rep = 1 /\ used = <<>> /\ call = [w \in Calls |-> None]
    BY DEF Crowd!Init
<1>2. Busy = {} /\ Cardinality(Busy) = 0
    BY <1>1, FS_EmptySet DEF Busy
<1> QED
    BY <1>1, <1>2, FleetAssumption DEF FleetBounded

\* A step moves no time past the clock; a call that ends gives its place to what it used.
LEMMA BoundsKeep == FleetInv /\ FleetBounded /\ [Crowd!Next]_Crowd!vars => FleetBounded'
<1> SUFFICES ASSUME FleetInv, FleetBounded, [Crowd!Next]_Crowd!vars PROVE FleetBounded'
    OBVIOUS
<1>0. /\ hour \in Nat \ {0} /\ rep \in Nat \ {0} /\ DOMAIN call = Calls /\ used \in Seq(Sight)
      /\ CallsTyped /\ Cardinality(Busy) \in Nat /\ MaxObserved \in Nat /\ MaxNow \in Nat
      /\ Len(Reloads) \in Nat /\ hour <= MaxNow /\ rep <= Len(Reloads)
      /\ (\A i \in DOMAIN used : used[i].at <= hour) /\ Len(used) + Cardinality(Busy) <= MaxObserved
    BY BusyCounts, FleetAssumption DEF FleetInv, FleetTyped, FleetBounded
<1>1. CASE \E w \in Calls : Crowd!Ask(w)
  <2>1. PICK w \in Calls : Crowd!Ask(w)
      BY <1>1
  <2>2. /\ Len(used) + Cardinality(Busy) < MaxObserved /\ call[w] = None
        /\ UNCHANGED <<hour, rep, used>> /\ \A v \in Calls \ {w} : call'[v] = call[v]
      BY <1>0, <2>1, FleetSizes DEF Crowd!Ask, Busy
  <2>3. Busy' \subseteq Busy \cup {w}
      BY <2>2 DEF Busy
  <2>4. IsFiniteSet(Busy \cup {w}) /\ Cardinality(Busy \cup {w}) <= Cardinality(Busy) + 1
    <3>1. /\ IsFiniteSet(Busy \cup {w})
          /\ Cardinality(Busy \cup {w}) = IF w \in Busy THEN Cardinality(Busy) ELSE Cardinality(Busy) + 1
        BY BusyCounts, FS_AddElement
    <3> QED
        BY <1>0, <3>1
  <2>5. Cardinality(Busy') <= Cardinality(Busy) + 1 /\ Cardinality(Busy') \in Nat
    <3>1. IsFiniteSet(Busy') /\ Cardinality(Busy') <= Cardinality(Busy \cup {w})
        BY <2>3, <2>4, FS_Subset
    <3>2. Cardinality(Busy') \in Nat /\ Cardinality(Busy \cup {w}) \in Nat
        BY <2>4, <3>1, FS_CardinalityType
    <3> QED
        BY <1>0, <2>4, <3>1, <3>2
  <2>6. Cardinality(Busy)' = Cardinality(Busy')
      OBVIOUS
  <2> QED
      BY <1>0, <2>2, <2>5 DEF FleetBounded
<1>2. CASE \E w \in Calls : Crowd!Observe(w)
  <2>1. PICK w \in Calls : Crowd!Observe(w)
      BY <1>2
  <2>2. /\ call[w] # None /\ call' = [call EXCEPT ![w] = None] /\ UNCHANGED <<hour, rep>>
        /\ used' = Append(used, [fleet |-> call[w].fleet, address |-> call[w].address,
                                 print |-> call[w].print, at |-> call[w].at])
      BY <2>1 DEF Crowd!Observe
  <2>3. call[w].at \in 1..hour
      BY <1>0, <2>2 DEF CallsTyped
  <2>4. Busy' = Busy \ {w} /\ w \in Busy
      BY <1>0, <2>2 DEF Busy
  <2>5. Cardinality(Busy') = Cardinality(Busy) - 1
      BY <2>4, BusyCounts, FS_RemoveElement
  <2>6. Len(used') = Len(used) + 1 /\ \A i \in DOMAIN used' : used'[i].at <= hour
    <3>1. \A i \in DOMAIN used' : IF i \in DOMAIN used THEN used'[i] = used[i] ELSE used'[i].at = call[w].at
        BY <1>0, <2>2
    <3> QED
        BY <1>0, <2>2, <2>3, <3>1
  <2> QED
      BY <1>0, <2>2, <2>5, <2>6 DEF FleetBounded
<1>3. CASE Crowd!SetIPReputation
    BY <1>0, <1>3 DEF Crowd!SetIPReputation, FleetBounded, Busy
<1>4. CASE Crowd!GCAsk
    BY <1>0, <1>4 DEF Crowd!GCAsk, FleetBounded, Busy
<1>5. CASE Crowd!GC
    BY <1>0, <1>5 DEF Crowd!GC, FleetBounded, Busy
<1>6. CASE Crowd!Pass
  <2>1. hour < MaxNow /\ hour' = hour + 1 /\ UNCHANGED <<rep, used, call>>
      BY <1>6 DEF Crowd!Pass
  <2>2. \A i \in DOMAIN used : used[i].at <= hour'
      BY <1>0, <2>1, Sights
  <2> QED
      BY <1>0, <2>1, <2>2 DEF FleetBounded, Busy
<1>7. CASE UNCHANGED Crowd!vars
    BY <1>0, <1>7 DEF Crowd!vars, FleetBounded, Busy
<1> QED
    BY <1>1, <1>2, <1>3, <1>4, <1>5, <1>6, <1>7 DEF Crowd!Next

\* The fleet tracker keeps to its types.
LEMMA CrowdTyped == Crowd!Spec => []Crowd!TypeOK
<1>1. FleetInv /\ FleetBounded => Crowd!TypeOK
  <2> SUFFICES ASSUME FleetInv, FleetBounded PROVE Crowd!TypeOK
      OBVIOUS
  <2>1. /\ hour \in 1..MaxNow /\ rep \in DOMAIN Reloads /\ fleet \in DOMAIN trackers /\ used \in Seq(Sight)
        /\ trackers \in Seq(Track) /\ CallsTyped /\ CollectTyped
      BY FleetAssumption DEF FleetInv, FleetBounded, FleetTyped
  <2>2. Len(used) <= MaxObserved
      BY <2>1, BusyCounts, FleetAssumption DEF FleetBounded
  <2>3. ASSUME NEW k \in DOMAIN trackers PROVE trackers[k].prints \in [Crowd!Prints -> Crowd!Entries]
    <3>1. trackers[k] \in Track /\ Backed(trackers[k].prints, used, k)
        BY <2>1, <2>3 DEF FleetInv, TracksHold, TrackHolds
    <3> DEFINE prints == trackers[k].prints
    <3>2. prints \in [Crowd!Prints -> Entries]
        BY <3>1 DEF Track
    <3>3. \A i \in DOMAIN used : used[i].at \in 0..MaxNow
        BY <2>1, Sights, FleetAssumption DEF FleetBounded
    <3> HIDE DEF prints
    <3>4. ASSUME NEW p \in Crowd!Prints PROVE prints[p] \in Crowd!Entries
      <4>1. /\ prints[p] \in Entries /\ prints[p].last \in Nat
            /\ prints[p].ips \in [Addresses -> Nat] /\ 0 \in 0..MaxNow
          BY <3>2, <3>4, FleetAssumption DEF Entries
      <4>2. prints[p].last \in 0..MaxNow
          BY <3>1, <3>3, <4>1 DEF Backed, Shown, prints
      <4>3. \A a \in Addresses : prints[p].ips[a] \in 0..MaxNow
          BY <3>1, <3>3, <4>1 DEF Backed, ShownBy, prints
      <4>4. prints[p].ips \in [Addresses -> 0..MaxNow]
          BY <4>1, <4>3
      <4> QED
          BY <4>1, <4>2, <4>4 DEF Entries, Crowd!Entries
    <3> QED
        BY <3>2, <3>4 DEF prints
  <2> QED
      BY <2>1, <2>2, <2>3 DEF CallsTyped, CollectTyped, Crowd!TypeOK
<1> QED
    BY <1>1, FleetStarts, FleetKeeps, BoundsStart, BoundsKeep, PTL DEF Crowd!Spec

-----------------------------------------------------------------------------
(* The points and the counts of the scorer. *)

(* Signals that can be added up: finitely many, and their points are       *)
(* numbers.                                                                *)
Scored(S) == IsFiniteSet(S) /\ \A s \in S : "points" \in DOMAIN s /\ s.points \in Int

\* The total of what can be added up is a number.
LEMMA TotalIs ==
    ASSUME NEW S, Scored(S)
    PROVE  Rate!Total(S) \in Int
<1> DEFINE v == [s \in S |-> s.points]
           Step(g) == [t \in SUBSET S |-> IF t = {} THEN 0 ELSE v[OneOf(t)] + g[t \ {OneOf(t)}]]
<1>1. IsFiniteSet(S) /\ \A x \in S : v[x] \in Int
    BY DEF Scored
<1> DEFINE Iter(g) == [t \in SUBSET S |-> IF t = {} THEN 0
                          ELSE (CHOOSE x \in t : TRUE).points + g[t \ {CHOOSE x \in t : TRUE}]]
<1>2. \A g : Iter(g) = Step(g)
  <2> SUFFICES ASSUME NEW g PROVE Iter(g) = Step(g)
      OBVIOUS
  <2>1. \A t \in SUBSET S : Iter(g)[t] = Step(g)[t]
    <3> SUFFICES ASSUME NEW t \in SUBSET S, t # {} PROVE Iter(g)[t] = Step(g)[t]
        OBVIOUS
    <3>1. OneOf(t) \in S /\ OneOf(t) = CHOOSE x \in t : TRUE
        BY DEF OneOf
    <3> QED
        BY <3>1
  <2> QED
      BY <2>1
<1>3. Rate!Total(S) = (CHOOSE g : g = Iter(g))[S]
    BY Zenon DEF Rate!Total, Rate!MapThenSumSet, Rate!MapThenFoldSet
<1> HIDE DEF Iter
<1>4. \A g : g = Iter(g) <=> IsSum(g, S, v)
    BY <1>2 DEF IsSum
<1>5. PICK g : g = Iter(g)
    BY <1>1, <1>4, SumExists
<1> DEFINE h == CHOOSE x : x = Iter(x)
<1>6. h = Iter(h)
    BY <1>5
<1> HIDE DEF v, h
<1>7. h[S] \in Int
    BY <1>1, <1>4, <1>6, SumTyped
<1> QED
    BY <1>3, <1>7 DEF h

\* A signal is one, or none.
LEMMA SignalScored ==
    ASSUME NEW name, NEW points \in Int
    PROVE  Scored(Rate!Signal(name, points))
<1>1. Rate!Signal(name, points) \in {{[name |-> name, points |-> points]}, {}}
    BY DEF Rate!Signal
<1>2. Scored({}) /\ Scored({[name |-> name, points |-> points]})
  <2> DEFINE s == [name |-> name, points |-> points]
  <2>1. "points" \in DOMAIN s /\ s.points = points
      OBVIOUS
  <2> HIDE DEF s
  <2>2. Scored({s})
      BY <2>1, FS_Singleton DEF Scored
  <2> QED
      BY <2>2, FS_EmptySet DEF Scored, s
<1> QED
    BY <1>1, <1>2

\* What can be added up can be added up together.
LEMMA BothScored ==
    ASSUME NEW S, NEW T, Scored(S), Scored(T)
    PROVE  Scored(S \cup T)
BY FS_Union DEF Scored

\* Four sets of signals can be added up together.
LEMMA FourScored ==
    ASSUME NEW S, NEW T, NEW U, NEW V, Scored(S), Scored(T), Scored(U), Scored(V)
    PROVE  Scored(S \cup T \cup U \cup V)
<1>1. Scored(S \cup T)
    BY BothScored
<1>2. Scored((S \cup T) \cup U)
    BY <1>1, BothScored
<1> QED
    BY <1>2, BothScored

\* The points of a tier are a number, also when none is reached.
LEMMA TierScored ==
    ASSUME NEW tiers \in Seq([least : Int, points : Int]), NEW n
    PROVE  Rate!Tier(tiers, n) \in Int
<1> DEFINE R == {i \in DOMAIN tiers : n >= tiers[i].least}
           T == [least : Int, points : Int]
<1>1. R \in SUBSET Nat /\ DOMAIN tiers = 1..Len(tiers)
    OBVIOUS
<1>2. \A i \in DOMAIN tiers : tiers[i].points \in Int
  <2>1. tiers \in Seq(T)
      OBVIOUS
  <2> HIDE DEF T
  <2>2. \A i \in DOMAIN tiers : tiers[i] \in T
      BY <2>1
  <2> QED
      BY <2>2 DEF T
<1>3. CASE R = {}
    BY <1>3 DEF Rate!Tier
<1>4. CASE R # {}
  <2>1. Rate!Tier(tiers, n) = tiers[Min(R)].points
      BY <1>4, RateCounts DEF Rate!Tier
  <2>2. Min(R) \in R
    <3> HIDE DEF R
    <3> QED
        BY <1>1, <1>4, HasLeast
  <2> QED
      BY <1>2, <2>1, <2>2
<1> QED
    BY <1>3, <1>4

(* The points that the rules d give.                                       *)
Priced(d) ==
    /\ {d.emptyPoints, d.suspicious.points, d.wordlist.points, d.injection.points, d.oob.points,
        d.encoding.triple, d.encoding.multi, d.encoding.single,
        d.timing.strict.points, d.timing.loose.points, d.cookie.points,
        d.toolPoints.full, d.toolPoints.partial, d.schema.points} \subseteq Int
    /\ \A n : /\ Rate!Tier(d.headerTiers, n) \in Int /\ Rate!Tier(d.pathTiers, n) \in Int
              /\ Rate!Tier(d.cache.tiers, n) \in Int /\ Rate!Tier(d.auth.tiers, n) \in Int
              /\ Rate!Tier(d.mutation.tiers, n) \in Int

\* Every rule set has numbers for points.
LEMMA RulesPrice ==
    ASSUME NEW r \in DOMAIN Detectors
    PROVE  Priced(Detectors[r])
<1> DEFINE d == Detectors[r]
<1>1. /\ {d.emptyPoints, d.suspicious.points, d.wordlist.points, d.injection.points, d.oob.points,
          d.encoding.triple, d.encoding.multi, d.encoding.single,
          d.timing.strict.points, d.timing.loose.points, d.cookie.points} \subseteq Int
      /\ {d.headerTiers, d.pathTiers} \subseteq Seq([least : Int, points : Int])
    BY PointsAssumption
<1>2. {d.toolPoints.full, d.toolPoints.partial} \subseteq Int /\ d.schema.points \in Nat \ {0}
    BY ScoringAssumption
<1>3. d.cache.tiers \in Tiers /\ d.auth.tiers \in Tiers /\ d.mutation.tiers \in Tiers
    BY RulesAre
<1> HIDE DEF d
<1>4. Tiers \subseteq Seq([least : Int, points : Int])
  <2> DEFINE A == [least : Nat, points : Nat \ {0}]
             B == [least : Int, points : Int]
  <2>1. A \subseteq B
      OBVIOUS
  <2> HIDE DEF A, B
  <2>2. Seq(A) \subseteq Seq(B)
      BY <2>1
  <2> QED
      BY <2>2 DEF A, B, Tiers
<1>5. {d.headerTiers, d.pathTiers, d.cache.tiers, d.auth.tiers, d.mutation.tiers} \subseteq Seq([least : Int, points : Int])
    BY <1>1, <1>3, <1>4
<1>6. \A n : /\ Rate!Tier(d.headerTiers, n) \in Int /\ Rate!Tier(d.pathTiers, n) \in Int
             /\ Rate!Tier(d.cache.tiers, n) \in Int /\ Rate!Tier(d.auth.tiers, n) \in Int
             /\ Rate!Tier(d.mutation.tiers, n) \in Int
    BY <1>5, TierScored
<1>7. Priced(d)
    BY <1>1, <1>2, <1>6 DEF Priced
<1> QED
    BY <1>7 DEF d

\* The signals of a connection.
LEMMA WireScored ==
    ASSUME NEW hello, NEW names, NEW points, {points[1], points[2], points[3], points[4]} \subseteq Int
    PROVE  Scored(Rate!Wire(hello, names, points))
<1>1. \A name : \A p \in Int : Scored(Rate!Signal(name, p))
    BY SignalScored
<1>2. Scored({})
    BY FS_EmptySet DEF Scored
<1>3. CASE hello = None
    BY <1>2, <1>3 DEF Rate!Wire
<1>4. CASE hello # None /\ hello.category \in {"agent", "scanner"}
  <2>1. Rate!Wire(hello, names, points) = Rate!Signal(names[1], IF hello.confidence < 80 THEN points[2] ELSE points[1])
      BY <1>4 DEF Rate!Wire
  <2> QED
      BY <1>1, <2>1
<1>5. CASE hello # None /\ hello.category = "bot"
  <2>1. Rate!Wire(hello, names, points) = Rate!Signal(names[2], points[3])
      BY <1>5 DEF Rate!Wire
  <2> QED
      BY <1>1, <2>1
<1>6. CASE hello # None /\ hello.category = "unknown"
  <2>1. Rate!Wire(hello, names, points) = Rate!Signal(names[3], points[4])
      BY <1>6 DEF Rate!Wire
  <2> QED
      BY <1>1, <2>1
<1>7. CASE hello # None /\ hello.category \notin {"agent", "scanner", "bot", "unknown"}
    BY <1>2, <1>7 DEF Rate!Wire
<1> QED
    BY <1>3, <1>4, <1>5, <1>6, <1>7

\* The custom signals are no more than the registry has.
LEMMA CustomScored == \A q : Scored(Rate!CustomSignals(q))
<1> SUFFICES ASSUME NEW q PROVE Scored(Rate!CustomSignals(q))
    OBVIOUS
<1> DEFINE f0 == [c \in Registry.custom |-> [name |-> c.name, points |-> c.points]]
           T == {f0[c] : c \in Registry.custom}
<1>1. IsFiniteSet(T)
  <2>1. f0 \in Surjection(Registry.custom, T)
      BY DEF Surjection
  <2> QED
      BY <2>1, PointsAssumption, FS_Surjection
<1>2. Rate!CustomSignals(q) \subseteq T
    BY DEF Rate!CustomSignals
<1>3. \A s \in T : "points" \in DOMAIN s /\ s.points \in Int
  <2>1. \A c \in Registry.custom : c.points \in Int
      BY PointsAssumption
  <2>2. \A c \in Registry.custom : "points" \in DOMAIN f0[c] /\ f0[c].points = c.points
      OBVIOUS
  <2> HIDE DEF f0
  <2> QED
      BY <2>1, <2>2
<1> HIDE DEF T
<1> QED
    BY <1>1, <1>2, <1>3, FS_Subset DEF Scored

\* The signals of the request alone can be added up.
LEMMA RequestScored ==
    ASSUME NEW c \in Clients, NEW q, NEW d, Priced(d)
    PROVE  Scored(Rate!RequestSignals(c, q, d))
<1>0. (\A name : \A p \in Int : Scored(Rate!Signal(name, p))) /\ Scored({})
    BY SignalScored, FS_EmptySet DEF Scored
<1> DEFINE A1 == Rate!Signal("sparse_headers", Rate!SparseHeaders(q, d))
           A2 == Rate!UserAgent(q, d)
           A3 == Rate!Signal("wordlist_path", Rate!WordlistPath(q, d))
           A4 == Rate!Signal("injection_marker", Rate!InjectionMarker(q, d))
           A5 == Rate!Signal("oob_interaction", Rate!OOB(q, d))
           A6 == Rate!Signal("ip_reputation", Reputation[c])
           A7 == Rate!TLS(q) \cup Rate!H2(q)
           A8 == Rate!SecFetch(q)
           A9 == Rate!AcceptEncoding(q)
           A10 == Rate!H3Mismatch(q)
           A11 == Rate!Signal("encoding_chain", Rate!EncodingChain(q, d))
           A12 == Rate!CustomSignals(q)
           A13 == Rate!Signal("api_blueprint_miss", IF q.route = "unknown" THEN 15 ELSE 0)
           A14 == Rate!Signal("canary_replay", Rate!CanaryReplay(c, q))
<1>1. Scored(A1)
  <2>1. Rate!SparseHeaders(q, d) \in Int
      BY DEF Rate!SparseHeaders, Priced
  <2> QED
      BY <1>0, <2>1
<1>2. Scored(A2)
    BY <1>0 DEF Rate!UserAgent, Priced
<1>3. Scored(A3) /\ Scored(A4) /\ Scored(A5)
  <2>1. Rate!WordlistPath(q, d) \in Int /\ Rate!InjectionMarker(q, d) \in Int /\ Rate!OOB(q, d) \in Int
      BY DEF Rate!WordlistPath, Rate!InjectionMarker, Rate!OOB, Priced
  <2> QED
      BY <1>0, <2>1
<1>4. Scored(A6)
    BY <1>0, PointsAssumption
<1>5. Scored(A7)
  <2>1. Scored(Rate!TLS(q)) /\ Scored(Rate!H2(q))
    <3>1. /\ {<<45, 30, 25, 20>>[1], <<45, 30, 25, 20>>[2], <<45, 30, 25, 20>>[3], <<45, 30, 25, 20>>[4]} \subseteq Int
          /\ {<<35, 22, 18, 15>>[1], <<35, 22, 18, 15>>[2], <<35, 22, 18, 15>>[3], <<35, 22, 18, 15>>[4]} \subseteq Int
        OBVIOUS
    <3> QED
        BY <3>1, WireScored DEF Rate!TLS, Rate!H2
  <2> QED
      BY <2>1, BothScored
<1>6. Scored(A8) /\ Scored(A9) /\ Scored(A10)
  <2>1. Scored(Rate!Signal("sec_fetch_absent", 12)) /\ Scored(Rate!Signal("sec_fetch_partial", 6))
        /\ Scored(Rate!Signal("ae_browser_empty", 12)) /\ Scored(Rate!Signal("ae_browser_no_br", 8))
        /\ Scored(Rate!Signal("h3_mismatch", 8))
      BY <1>0
  <2> QED
      BY <1>0, <2>1 DEF Rate!SecFetch, Rate!AcceptEncoding, Rate!H3Mismatch
<1>7. Scored(A11)
  <2>1. Rate!EncodingChain(q, d) \in Int
      BY DEF Rate!EncodingChain, Priced
  <2> QED
      BY <1>0, <2>1
<1>8. Scored(A12)
    BY CustomScored
<1>9. Scored(A13) /\ Scored(A14)
  <2>1. Rate!CanaryReplay(c, q) \in Int
      BY DEF Rate!CanaryReplay
  <2> QED
      BY <1>0, <2>1
<1>10. Rate!RequestSignals(c, q, d) =
           (A1 \cup A2 \cup A3 \cup A4) \cup (A5 \cup A6 \cup A7 \cup A8)
           \cup (A9 \cup A10 \cup A11 \cup A12) \cup (A13 \cup A14)
    BY DEF Rate!RequestSignals
<1> HIDE DEF A1, A2, A3, A4, A5, A6, A7, A8, A9, A10, A11, A12, A13, A14
<1>11. Scored(A1 \cup A2 \cup A3 \cup A4)
    BY <1>1, <1>2, <1>3, FourScored
<1>12. Scored(A5 \cup A6 \cup A7 \cup A8)
    BY <1>3, <1>4, <1>5, <1>6, FourScored
<1>13. Scored(A9 \cup A10 \cup A11 \cup A12)
    BY <1>6, <1>7, <1>8, FourScored
<1>14. Scored(A13 \cup A14)
    BY <1>9, BothScored
<1> QED
    BY <1>10, <1>11, <1>12, <1>13, <1>14, FourScored

\* So can the signals of the events.
LEMMA EventsScored ==
    ASSUME NEW evs, NEW d, Priced(d)
    PROVE  Scored(Rate!EventSignals(evs, d))
<1>0. (\A name : \A p \in Int : Scored(Rate!Signal(name, p))) /\ Scored({})
    BY SignalScored, FS_EmptySet DEF Scored
<1> DEFINE A1 == Rate!Signal("regular_timing", Rate!RegularTiming(evs, d))
           A2 == Rate!Toolchain(evs, d)
           A3 == Rate!Signal("path_bruteforce", Rate!PathBruteforce(evs, d))
           A4 == Rate!ToolchainHMM(evs)
           A5 == Rate!Signal("schema_first", IF Rate!SchemaFirst(evs, d) THEN d.schema.points ELSE 0)
           A6 == Rate!Signal("cache_miss_anomaly", Rate!CacheMiss(evs, d))
           A7 == Rate!Signal("auth_probe_sequence", Rate!AuthProbe(evs, d))
<1>1. Scored(A1)
  <2>1. Rate!RegularTiming(evs, d) \in {0, d.timing.strict.points, d.timing.loose.points}
      BY Zenon DEF Rate!RegularTiming
  <2>2. Rate!RegularTiming(evs, d) \in Int
      BY <2>1 DEF Priced
  <2> QED
      BY <1>0, <2>2
<1>2. Scored(A2)
    BY <1>0 DEF Rate!Toolchain, Priced
<1>3. Scored(A3) /\ Scored(A6) /\ Scored(A7)
  <2>1. Rate!PathBruteforce(evs, d) \in Int /\ Rate!CacheMiss(evs, d) \in Int /\ Rate!AuthProbe(evs, d) \in Int
      BY DEF Rate!PathBruteforce, Rate!CacheMiss, Rate!AuthProbe, Priced
  <2> QED
      BY <1>0, <2>1
<1>4. Scored(A4)
  <2>1. Scored(Rate!Signal("toolchain_hmm", 20)) /\ Scored(Rate!Signal("toolchain_hmm_partial", 8))
        /\ Scored(Rate!Signal("toolchain_hmm_partial", 12))
      BY <1>0
  <2>2. A4 \in {{}, Rate!Signal("toolchain_hmm", 20), Rate!Signal("toolchain_hmm_partial", 8),
                Rate!Signal("toolchain_hmm_partial", 12)}
      BY Zenon DEF Rate!ToolchainHMM
  <2> QED
      BY <1>0, <2>1, <2>2
<1>5. Scored(A5)
    BY <1>0 DEF Priced
<1>6. Rate!EventSignals(evs, d) = (A1 \cup A2 \cup A3 \cup A4) \cup (A5 \cup A6 \cup A7 \cup {})
    BY DEF Rate!EventSignals
<1> HIDE DEF A1, A2, A3, A4, A5, A6, A7
<1>7. Scored(A1 \cup A2 \cup A3 \cup A4)
    BY <1>1, <1>2, <1>3, <1>4, FourScored
<1>8. Scored(A5 \cup A6 \cup A7 \cup {})
    BY <1>0, <1>3, <1>5, FourScored
<1> QED
    BY <1>6, <1>7, <1>8, BothScored

\* And those of the live state.
LEMMA StateScored ==
    ASSUME NEW st, NEW q, NEW d, Priced(d)
    PROVE  Scored(Rate!StateSignals(st, q, d))
<1>0. (\A name : \A p \in Int : Scored(Rate!Signal(name, p))) /\ Scored({})
    BY SignalScored, FS_EmptySet DEF Scored
<1> DEFINE A1 == Rate!Signal("ua_rotation", Rate!UARotation(st))
           A2 == Rate!RequestGraph(st)
           A3 == Rate!Signal("cookie_stateless", Rate!CookieEcology(st))
           A4 == Rate!Signal(IF Rate!Fanout(st) >= 30 THEN "fanout_extreme" ELSE "fanout_high", Rate!Fanout(st))
           A5 == Rate!Signal("recovery_pivot", Rate!FailureRecovery(st, q))
           A6 == Rate!Signal("bundle_mining", Rate!BundleMining(st))
           A7 == Rate!Signal("header_mutation", Rate!HeaderMutation(st, d))
           A8 == Rate!Signal("no_cookie_return", Rate!NoCookieReturn(st, d))
<1>1. Scored(A1)
  <2>1. Rotation.points \in Int
      BY PointsAssumption
  <2>2. Rate!UARotation(st) \in Int
      BY <2>1 DEF Rate!UARotation
  <2> QED
      BY <1>0, <2>2
<1>2. Scored(A2)
    BY <1>0 DEF Rate!RequestGraph
<1>3. Scored(A3) /\ Scored(A5)
  <2>1. Rate!CookieEcology(st) \in Int /\ Rate!FailureRecovery(st, q) \in Int
      BY DEF Rate!CookieEcology, Rate!FailureRecovery
  <2> QED
      BY <1>0, <2>1
<1>4. Scored(A4) /\ Scored(A6)
  <2>1. {FanoutTiers, BundleTiers} \subseteq Seq([least : Int, points : Int])
      BY PointsAssumption
  <2>2. \A n : Rate!Tier(FanoutTiers, n) \in Int /\ Rate!Tier(BundleTiers, n) \in Int
      BY <2>1, TierScored
  <2>3. Rate!Fanout(st) \in Int /\ Rate!BundleMining(st) \in Int
      BY <2>2 DEF Rate!Fanout, Rate!BundleMining
  <2> QED
      BY <1>0, <2>3
<1>5. Scored(A7) /\ Scored(A8)
  <2>1. Rate!HeaderMutation(st, d) \in Int /\ Rate!NoCookieReturn(st, d) \in Int
      BY DEF Rate!HeaderMutation, Rate!NoCookieReturn, Priced
  <2> QED
      BY <1>0, <2>1
<1>6. Rate!StateSignals(st, q, d) = (A1 \cup A2 \cup A3 \cup A4) \cup (A5 \cup A6 \cup A7 \cup A8)
    BY DEF Rate!StateSignals
<1> HIDE DEF A1, A2, A3, A4, A5, A6, A7, A8
<1>7. Scored(A1 \cup A2 \cup A3 \cup A4)
    BY <1>1, <1>2, <1>3, <1>4, FourScored
<1>8. Scored(A5 \cup A6 \cup A7 \cup A8)
    BY <1>3, <1>4, <1>5, FourScored
<1> QED
    BY <1>6, <1>7, <1>8, BothScored

\* All the signals of a request.
LEMMA RaisedScored ==
    ASSUME NEW c \in Clients, NEW q, NEW evs, NEW st, NEW r \in DOMAIN Detectors, NEW trap \in Int, NEW p \in FleetPoints
    PROVE  Scored(Raised(c, q, evs, st, Detectors[r], trap, p))
<1> DEFINE d == Detectors[r]
           A1 == Rate!Signal("honeypot_hit", trap)
           A2 == Rate!Signal("ip_rotation_fleet", p)
           A3 == Rate!RequestSignals(c, q, d)
           A4 == Rate!EventSignals(evs, d)
           A5 == Rate!StateSignals(st, q, d)
<1>1. p \in Int
    BY PointsAssumption
<1>2. Scored(A1) /\ Scored(A2)
    BY <1>1, SignalScored
<1>3. Priced(d)
    BY RulesPrice
<1> HIDE DEF d
<1>4. Scored(A3) /\ Scored(A4) /\ Scored(A5)
    BY <1>3, RequestScored, EventsScored, StateScored
<1>5. Raised(c, q, evs, st, d, trap, p) = (A1 \cup A2 \cup A3 \cup A4) \cup A5
    BY DEF Raised
<1> HIDE DEF A1, A2, A3, A4, A5
<1>6. Scored(Raised(c, q, evs, st, d, trap, p))
    BY <1>2, <1>4, <1>5, FourScored, BothScored
<1> QED
    BY <1>6 DEF d

\* The configuration gives them other points, or switches them off.
LEMMA AppliedScored ==
    ASSUME NEW S, Scored(S)
    PROVE  Scored(Rate!Applied(S))
<1> DEFINE paid(s) == [s EXCEPT !.points = IF s.name \in DOMAIN Registry.entries /\ Registry.entries[s.name].points > 0
                                           THEN Registry.entries[s.name].points ELSE @]
           X == {x \in S : x.name \in DOMAIN Registry.entries => Registry.entries[x.name].enabled}
           g0 == [s \in X |-> paid(s)]
           T == {g0[s] : s \in X}
<1>1. Rate!Applied(S) = T
    BY DEF Rate!Applied
<1>2. IsFiniteSet(X)
    BY FS_Subset DEF Scored
<1>3. IsFiniteSet(T)
  <2> HIDE DEF X, paid
  <2>1. g0 \in Surjection(X, T)
      BY DEF Surjection
  <2> QED
      BY <1>2, <2>1, FS_Surjection
<1>4. \A s \in X : "points" \in DOMAIN g0[s] /\ g0[s].points \in Int
  <2>1. \A n \in DOMAIN Registry.entries : Registry.entries[n].points \in Int
      BY PointsAssumption
  <2>2. SUFFICES ASSUME NEW s \in X PROVE "points" \in DOMAIN paid(s) /\ paid(s).points \in Int
      OBVIOUS
  <2>3. "points" \in DOMAIN s /\ s.points \in Int
      BY DEF Scored
  <2>4. "points" \in DOMAIN paid(s) /\
        paid(s).points = IF s.name \in DOMAIN Registry.entries /\ Registry.entries[s.name].points > 0
                         THEN Registry.entries[s.name].points ELSE s.points
      BY <2>3
  <2> QED
      BY <2>1, <2>3, <2>4
<1> HIDE DEF g0
<1> QED
    BY <1>1, <1>3, <1>4 DEF Scored

(* How far a request is, and what it carries; the counters of a client     *)
(* count no more than the requests that have begun.                        *)
Ranked(j) ==
    /\ j.pc \in {"idle", "copy", "judge", "infer", "answer"}
    /\ j.pc \in {"copy", "judge"} => j.trap \in Int
    /\ j.pc = "infer" => Scored(j.signals)
    /\ j.pc = "answer" => j.total <= 100 /\ j.label \in {None, "agent", "human"}
RateBounded ==
    /\ scored \in 0..MaxScored
    /\ \A c \in Clients : /\ Len(clients[c].events) <= MaxHistory
                          /\ clients[c].requests \in 0..scored /\ clients[c].mutations \in 0..scored
    /\ \A w \in Servers : Ranked(serve[w])

\* The bounds hold at the start.
LEMMA RateBoundsStart == Rate!Init => RateBounded
<1> SUFFICES ASSUME Rate!Init PROVE RateBounded
    OBVIOUS
<1>1. /\ scored = 0 /\ \A c \in Clients : clients[c] = Rate!NewState
      /\ \A w \in Servers : serve[w] = Rate!Idle
    BY DEF Rate!Init
<1>2. Rate!NewState.events = <<>> /\ Rate!NewState.requests = 0 /\ Rate!NewState.mutations = 0
    BY DEF Rate!NewState
<1>3. Ranked(Rate!Idle)
    BY DEF Ranked, Rate!Idle
<1>4. MaxHistory \in Nat /\ MaxScored \in Nat
    BY ScoringAssumption, PointsAssumption
<1> QED
    BY <1>1, <1>2, <1>3, <1>4 DEF RateBounded

\* A step of one request that leaves the counters of the clients alone.
LEMMA OneRanked ==
    ASSUME RateInv, RateBounded, NEW w \in Servers, NEW jb, serve' = [serve EXCEPT ![w] = jb], Ranked(jb),
           \A c \in Clients : /\ clients'[c].events = clients[c].events /\ clients'[c].requests = clients[c].requests
                              /\ clients'[c].mutations = clients[c].mutations,
           scored' = scored
    PROVE  RateBounded'
<1>1. DOMAIN serve = Servers
    BY DEF RateInv
<1>2. \A v \in Servers : serve'[v] = IF v = w THEN jb ELSE serve[v]
    BY <1>1
<1>3. \A v \in Servers : Ranked(serve'[v])
    BY <1>2 DEF RateBounded
<1> QED
    BY <1>3 DEF RateBounded

\* Every step keeps the rings, the counters and the totals bounded.
LEMMA RateBoundsKeep == RateInv /\ RateBounded /\ [Rate!Next]_(Rate!vars) => RateBounded'
<1> SUFFICES ASSUME RateInv, RateBounded, [Rate!Next]_(Rate!vars) PROVE RateBounded'
    OBVIOUS
<1> USE DEF Rate!Goto
<1>0. /\ clock \in 1..MaxClock /\ detector \in DOMAIN Detectors /\ Histories
      /\ DOMAIN serve = Servers /\ \A w \in Servers : Knows(serve[w], clients)
      /\ scored \in 0..MaxScored /\ MaxScored \in Nat /\ \A w \in Servers : Ranked(serve[w])
      /\ \A c \in Clients : /\ Len(clients[c].events) <= MaxHistory
                            /\ clients[c].requests \in 0..scored /\ clients[c].mutations \in 0..scored
    BY PointsAssumption DEF RateInv, RateBounded
<1>1. ASSUME NEW w \in Servers, Rate!Allow(w) PROVE RateBounded'
  <2>1. scored < MaxScored /\ scored' = scored + 1 /\ clients' = clients /\ serve' = serve
      BY <1>1 DEF Rate!Allow
  <2> QED
      BY <1>0, <2>1 DEF RateBounded
<1>2. ASSUME NEW w \in Servers, Rate!Record(w) PROVE RateBounded'
  <2>1. PICK c \in Clients \ Trusted, k \in DOMAIN Facts :
           LET e  == [at |-> clock, kind |-> k, stage |-> Rate!ToolStage(Facts[k], Detectors[detector]),
                      rules |-> detector]
               st == Rate!Recorded(clients[c], e, k)
               hit == Facts[k].url \in HoneypotPaths
           IN  /\ clients' = [clients EXCEPT ![c] = IF hit THEN [st EXCEPT !.honeypots = @ + 1] ELSE st]
               /\ serve' = [serve EXCEPT ![w] = [pc |-> "copy", client |-> c, kind |-> k,
                       trap |-> IF ~hit THEN 0 ELSE IF st.honeypots >= 1 THEN 80 ELSE 50]]
      BY <1>2 DEF Rate!Record
  <2>2. scored < MaxScored /\ scored' = scored + 1
      BY <1>2 DEF Rate!Record
  <2> DEFINE e  == [at |-> clock, kind |-> k, stage |-> Rate!ToolStage(Facts[k], Detectors[detector]),
                    rules |-> detector]
             st == Rate!Recorded(clients[c], e, k)
             hit == Facts[k].url \in HoneypotPaths
             more == IF hit THEN [st EXCEPT !.honeypots = @ + 1] ELSE st
             points == IF ~hit THEN 0 ELSE IF st.honeypots >= 1 THEN 80 ELSE 50
             jb == [pc |-> "copy", client |-> c, kind |-> k, trap |-> points]
  <2>3. clients' = [clients EXCEPT ![c] = more] /\ serve' = [serve EXCEPT ![w] = jb]
      BY <2>1
  <2>4. e \in Tagged
    <3>1. Rate!ToolStage(Facts[k], Detectors[detector]) \in {None, "recon", "probe", "exploit"}
        BY DEF Rate!ToolStage
    <3> QED
        BY <1>0, <3>1 DEF Tagged
  <2>5. points \in Int
      OBVIOUS
  <2> HIDE DEF e
  <2>6. /\ {"events", "mutations", "honeypots", "requests"} \subseteq DOMAIN clients[c]
        /\ clients[c].events \in Seq(Tagged) /\ clients[c].mutations \in Nat
      BY <1>0 DEF Histories
  <2>7. /\ DOMAIN st = DOMAIN clients[c] /\ st.mutations \in Nat /\ Len(st.events) <= MaxHistory
        /\ st.requests = clients[c].requests + 1 /\ st.mutations <= clients[c].mutations + 1
      BY <2>4, <2>6, RecordedIs
  <2> HIDE DEF st
  <2>8. more.events = st.events /\ more.mutations = st.mutations /\ more.requests = st.requests
      BY <2>6, <2>7
  <2> HIDE DEF points, hit, more
  <2>9. Ranked(jb)
      BY <2>5 DEF Ranked
  <2> HIDE DEF jb
  <2>10. DOMAIN clients = Clients
      BY <1>0 DEF Histories
  <2>11. \A a \in Clients : clients'[a] = IF a = c THEN more ELSE clients[a]
      BY <2>3, <2>10
  <2>12. \A v \in Servers : serve'[v] = IF v = w THEN jb ELSE serve[v]
      BY <1>0, <2>3
  <2>13. ASSUME NEW a \in Clients
         PROVE  /\ Len(clients'[a].events) <= MaxHistory
                /\ clients'[a].requests \in 0..scored' /\ clients'[a].mutations \in 0..scored'
    <3>1. CASE a = c
      <4>1. clients[c].requests \in 0..scored /\ clients[c].mutations \in 0..scored /\ scored \in Nat
          BY <1>0
      <4> QED
          BY <2>2, <2>7, <2>8, <2>11, <3>1, <4>1
    <3>2. CASE a # c
        BY <1>0, <2>2, <2>11, <3>2
    <3> QED
        BY <3>1, <3>2
  <2> QED
      BY <1>0, <2>2, <2>9, <2>12, <2>13 DEF RateBounded
<1>3. ASSUME NEW w \in Servers, Rate!CopyEvents(w) PROVE RateBounded'
  <2> DEFINE j == serve[w]
             jb == [pc |-> "judge", client |-> j.client, kind |-> j.kind, trap |-> j.trap,
                     events |-> clients[j.client].events]
  <2>1. j.pc = "copy" /\ serve' = [serve EXCEPT ![w] = jb] /\ clients' = clients /\ scored' = scored
      BY <1>3 DEF Rate!CopyEvents
  <2>2. jb.pc = "judge" /\ jb.trap = j.trap
      OBVIOUS
  <2> HIDE DEF jb
  <2>3. Ranked(jb)
      BY <1>0, <2>1, <2>2 DEF Ranked
  <2> QED
      BY <2>1, <2>3, OneRanked
<1>4. ASSUME NEW w \in Servers, Rate!Judge(w) PROVE RateBounded'
  <2> DEFINE j == serve[w]
             c == j.client
             q == Facts[j.kind]
             all(p) == Raised(c, q, j.events, clients[c], Detectors[detector], j.trap, p)
             jb(p) == [pc |-> "infer", client |-> c, kind |-> j.kind, events |-> j.events,
                        rules |-> detector, signals |-> all(p)]
  <2>1. PICK p \in FleetPoints : serve' = [serve EXCEPT ![w] = jb(p)]
      BY <1>4 DEF Rate!Judge, Raised
  <2>2. j.pc = "judge" /\ clients' = clients /\ scored' = scored
      BY <1>4 DEF Rate!Judge
  <2>3. c \in Clients /\ j.trap \in Int
      BY <1>0, <2>2 DEF Knows, Ranked
  <2>4. Scored(all(p))
      BY <1>0, <2>3, RaisedScored
  <2> DEFINE jp == jb(p)
  <2>5. jp.pc = "infer" /\ jp.signals = all(p)
      OBVIOUS
  <2>6. serve' = [serve EXCEPT ![w] = jp]
      BY <2>1
  <2> HIDE DEF jp, jb, all
  <2>7. Ranked(jp)
      BY <2>4, <2>5 DEF Ranked
  <2> QED
      BY <2>2, <2>6, <2>7, OneRanked
<1>5. ASSUME NEW w \in Servers, Rate!Infer(w) PROVE RateBounded'
  <2> DEFINE j == serve[w]
             st == clients[j.client]
             total(p) == Rate!Min({100, Rate!Total(Rate!Applied(j.signals \cup Rate!Signal("ml_agent_score", p)))})
             told == Rate!SessionStats(st, Facts[j.kind], j.events, Detectors[detector])
             jb(p) == [pc |-> "answer", client |-> j.client, kind |-> j.kind, events |-> j.events,
                        signals |-> j.signals, total |-> total(p), session |-> told,
                        label |-> IF TarpitAt <= 0 \/ total(p) < TarpitAt THEN Rate!Label(total(p)) ELSE None,
                        rules |-> j.rules, later |-> detector]
  <2>1. PICK p \in LearnedPoints : serve' = [serve EXCEPT ![w] = jb(p)]
      BY <1>5 DEF Rate!Infer
  <2>2. j.pc = "infer" /\ clients' = clients /\ scored' = scored
      BY <1>5 DEF Rate!Infer
  <2>3. total(p) <= 100
    <3> DEFINE S == j.signals \cup Rate!Signal("ml_agent_score", p)
               t == Rate!Total(Rate!Applied(S))
    <3>1. p \in Int
        BY PointsAssumption
    <3>2. Scored(j.signals)
        BY <1>0, <2>2 DEF Ranked
    <3>3. Scored(S)
        BY <3>1, <3>2, SignalScored, BothScored
    <3> HIDE DEF S
    <3>4. t \in Int
        BY <3>3, AppliedScored, TotalIs
    <3>5. total(p) = Min({100, t})
        BY RateCounts DEF S
    <3> HIDE DEF t, total
    <3>6. \E x \in {100, t} : \A y \in {100, t} : x <= y
      <4>1. CASE t <= 100
          BY <3>4, <4>1
      <4>2. CASE ~(t <= 100)
          BY <3>4, <4>2
      <4> QED
          BY <4>1, <4>2
    <3>7. Min({100, t}) \in {100, t} /\ \A y \in {100, t} : Min({100, t}) <= y
        BY <3>6 DEF Min
    <3> QED
        BY <3>5, <3>7
  <2> HIDE DEF total, told
  <2> DEFINE jp == jb(p)
  <2>4. /\ jp.pc = "answer" /\ jp.total = total(p)
        /\ jp.label = IF TarpitAt <= 0 \/ total(p) < TarpitAt THEN Rate!Label(total(p)) ELSE None
      OBVIOUS
  <2>5. Rate!Label(total(p)) \in {None, "agent", "human"}
      BY DEF Rate!Label
  <2>6. serve' = [serve EXCEPT ![w] = jp]
      BY <2>1
  <2> HIDE DEF jp, jb
  <2>7. Ranked(jp)
      BY <2>3, <2>4, <2>5 DEF Ranked
  <2> QED
      BY <2>2, <2>6, <2>7, OneRanked
<1>6. ASSUME NEW w \in Servers, Rate!Answer(w) PROVE RateBounded'
  <2> DEFINE j == serve[w]
             c == j.client
             q == Facts[j.kind]
             old == clients[c]
             r == [old EXCEPT
                      !.status = q.status,
                      !.bad = IF q.status >= 400 THEN <<q.url, q.method>> ELSE @,
                      !.script = IF q.script /\ j.total < ChallengeAt /\ q.status = 200 THEN clock ELSE @,
                      !.setCookie = @ \/ (j.total >= TarpitAt /\ q.sets)]
  <2>1. j.pc = "answer" /\ serve' = [serve EXCEPT ![w] = Rate!Idle] /\ scored' = scored
      BY <1>6 DEF Rate!Answer
  <2>2. clients' = [clients EXCEPT
            ![c].status = q.status,
            ![c].bad = IF q.status >= 400 THEN <<q.url, q.method>> ELSE @,
            ![c].script = IF q.script /\ j.total < ChallengeAt /\ q.status = 200 THEN clock ELSE @,
            ![c].setCookie = @ \/ (j.total >= TarpitAt /\ q.sets)]
      BY <1>6 DEF Rate!Answer
  <2>3. c \in Clients /\ DOMAIN clients = Clients
      BY <1>0, <2>1 DEF Knows, Histories
  <2>4. clients' = [clients EXCEPT ![c] = r]
      BY ZenonT(60), <2>2, <2>3
  <2>5. r.events = old.events /\ r.mutations = old.mutations /\ r.requests = old.requests
      OBVIOUS
  <2> HIDE DEF r
  <2>6. \A a \in Clients : /\ clients'[a].events = clients[a].events /\ clients'[a].requests = clients[a].requests
                           /\ clients'[a].mutations = clients[a].mutations
      BY <2>3, <2>4, <2>5
  <2>7. Ranked(Rate!Idle)
      BY DEF Ranked, Rate!Idle
  <2> QED
      BY <2>1, <2>6, <2>7, OneRanked
<1>7. CASE Rate!SetRules
    BY <1>0, <1>7 DEF Rate!SetRules, RateBounded
<1>8. CASE Rate!Pass
    BY <1>0, <1>8 DEF Rate!Pass, RateBounded
<1>9. CASE UNCHANGED Rate!vars
    BY <1>0, <1>9 DEF Rate!vars, RateBounded
<1> QED
    BY <1>1, <1>2, <1>3, <1>4, <1>5, <1>6, <1>7, <1>8, <1>9 DEF Rate!Next

\* The scorer keeps to its types.
LEMMA RateTyped == Rate!Spec => []Rate!TypeOK
<1>1. RateInv /\ RateBounded => Rate!TypeOK
  <2> SUFFICES ASSUME RateInv, RateBounded PROVE Rate!TypeOK
      OBVIOUS
  <2>1. Tagged \subseteq Rate!Events
      BY DEF Tagged, Rate!Events
  <2>2. \A c \in Clients : clients[c].events \in Seq(Rate!Events)
    <3> SUFFICES ASSUME NEW c \in Clients PROVE clients[c].events \in Seq(Rate!Events)
        OBVIOUS
    <3>1. clients[c].events \in Seq(Tagged)
        BY DEF RateInv, Histories
    <3> QED
        BY <2>1, <3>1
  <2>3. \A c \in Clients : clients[c].requests \in 0..MaxScored /\ clients[c].mutations \in 0..MaxScored
      BY PointsAssumption DEF RateBounded
  <2> QED
      BY <2>2, <2>3 DEF RateInv, RateBounded, Ranked, Rate!TypeOK
<1> QED
    BY <1>1, RateStart, RateStep, RateBoundsStart, RateBoundsKeep, PTL DEF Rate!Spec

-----------------------------------------------------------------------------
(* All parts of the process. *)

\* A behaviour of the process is one of each of its parts.
LEMMA PartsRun ==
    ProcessSpec => /\ Learn!Spec /\ Recommend!Spec /\ Keep!Spec /\ Push!Spec
                   /\ Spec /\ Crowd!Spec /\ Rate!Spec /\ Grow!Spec
<1>1. ProcessInit => /\ Learn!Init /\ Recommend!Init /\ Keep!Init /\ Push!Init
                     /\ Init /\ Crowd!Init /\ Rate!Init /\ Grow!Init
    BY DEF ProcessInit
<1> DEFINE all == <<part, learning, recommending, capturing, pushing, vars, scoring, rotating, growing>>
<1>2. [ProcessNext]_all => [Learn!Next]_(Learn!vars)
    BY DEF ProcessNext, learning, Learn!vars
<1>3. [ProcessNext]_all => [Recommend!Next]_(Recommend!vars)
    BY DEF ProcessNext, recommending, Recommend!vars
<1>4. [ProcessNext]_all => [Keep!Next]_(Keep!vars)
    BY DEF ProcessNext, capturing, Keep!vars
<1>5. [ProcessNext]_all => [Push!Next]_(Push!vars)
    BY DEF ProcessNext, pushing, Push!vars
<1>6. [ProcessNext]_all => [Next]_vars
    BY DEF ProcessNext, vars
<1>7. [ProcessNext]_all => [Crowd!Next]_(Crowd!vars)
    BY DEF ProcessNext, rotating, Crowd!vars
<1>8. [ProcessNext]_all => [Rate!Next]_(Rate!vars)
    BY DEF ProcessNext, scoring, Rate!vars
<1>9. [ProcessNext]_all => [Grow!Next]_(Grow!vars)
    BY DEF ProcessNext, growing, Grow!vars
<1> QED
    BY <1>1, <1>2, <1>3, <1>4, <1>5, <1>6, <1>7, <1>8, <1>9, PTL
       DEF ProcessSpec, Learn!Spec, Recommend!Spec, Keep!Spec, Push!Spec, Spec, Crowd!Spec, Rate!Spec, Grow!Spec

(* Every part of the process keeps to its types: the queues, rings and     *)
(* tables within their limits, the times within the clock, the scores and  *)
(* counters numbers, whichever part runs.                                  *)
THEOREM ProcessTyped == ProcessSpec => []ProcessTypeOK
<1>1. Learn!TypeOK /\ Recommend!TypeOK /\ Keep!TypeOK /\ Push!TypeOK /\ TypeOK /\ Rate!TypeOK
         /\ Crowd!TypeOK /\ Grow!TypeOK => ProcessTypeOK
    BY DEF ProcessTypeOK, In
<1> QED
    BY <1>1, PartsRun, LearningTyped, CycleTyped, CaptureTyped, ReportsTyped, RetentionTyped, RateTyped,
       CrowdTyped, ForestTyped, PTL

\* So the process keeps what its parts promise.
THEOREM ProcessKeeps ==
    ProcessSpec => /\ [](/\ ProcessTypeOK /\ HistogramCounted /\ PromotionSurvives /\ SuggestionsAreBacked /\ CaptureGoesOn
                         /\ ReportsAddUp /\ TrimmedIsDumped /\ FleetCounts /\ SignalsAgree)
                   /\ ForestServes
BY PartsRun, HistogramIsCounted, PromotionsSurvive, SuggestionsHold, CaptureKeeps, MetricsAddUp, Preserved,
   FleetIsCounted, PartsAgree, ForestHolds, ProcessTyped, PTL
=============================================================================
