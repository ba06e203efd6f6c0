------------------------------ MODULE Capture ------------------------------
(* The request capture (internal/telemetry/capture.go): requests append     *)
(* lines to a file under a lock, a full file becomes <path>.1, and the      *)
(* janitor drops what is older than the retention, looking at the files     *)
(* before it takes the lock.  Files are their sizes in bytes.  Any call of  *)
(* the file system may fail; most of the errors are dropped.                *)
EXTENDS Integers

CONSTANTS
    MaxBytes,          \* the cap of the live file
    MaxLine,           \* the longest line
    Retention,         \* in ticks of the clock
    None,
    MaxLines, MaxTime, MaxFailures, MaxRestarts   \* bounds

VARIABLES
    live, liveAt,      \* the size of the live file and its modification time
    rotated, rotatedAt,    \* those of <path>.1
    f,                 \* the open file: "live", or "closed"
    written,           \* what the writer believes the size is
    sweep,             \* the pass of the janitor
    now, offered, failures, restarts,   \* the clock and the counters of the bounds
    uncounted,         \* history: bytes of the live file that a failing call left uncounted
    muted              \* history: the janitor reset the count of a writer without a file

vars == <<live, liveAt, rotated, rotatedAt, f, written, sweep, now, offered, failures, restarts, uncounted, muted>>
files == <<live, liveAt, rotated, rotatedAt>>

Idle == [at |-> "idle", cutoff |-> 0, listed |-> {}]

Fails == failures < MaxFailures /\ failures' = failures + 1
Failing(fails) == IF fails THEN Fails ELSE UNCHANGED failures

\* NewCaptureWithOptions, at the first start.
Init ==
    /\ live = 0 /\ liveAt = 0 /\ rotated = None /\ rotatedAt = 0
    /\ f = "live" /\ written = 0 /\ sweep = Idle
    /\ now = 0 /\ offered = 0 /\ failures = 0 /\ restarts = 0 /\ uncounted = 0
    /\ muted = FALSE

\* A new process opens the live file, or makes it, and takes its size: none when the
\* Stat fails.
Restart ==
    /\ restarts < MaxRestarts /\ restarts' = restarts + 1
    /\ live' = IF live = None THEN 0 ELSE live
    /\ liveAt' = IF live = None THEN now ELSE liveAt
    /\ f' = "live" /\ sweep' = Idle /\ muted' = FALSE
    /\ \E fails \in BOOLEAN :
          /\ Failing(fails)
          /\ written' = IF fails THEN 0 ELSE live'
          /\ uncounted' = IF fails THEN live' ELSE IF live = None THEN 0 ELSE uncounted
    /\ UNCHANGED <<rotated, rotatedAt, now, offered>>

-----------------------------------------------------------------------------
(* Write.  The writer is a record of what a call changes.                   *)

Writer == [live |-> live, written |-> written, uncounted |-> uncounted]

\* rotateLocked: the errors of the two calls are dropped.  When only the rename fails the
\* same file is opened again and counted from nothing.
Opened(renames, opens, unopened) ==
    LET left == IF renames THEN None ELSE live IN
    IF ~opens THEN [live |-> left, written |-> unopened, uncounted |-> uncounted]
    ELSE IF left = None THEN [live |-> 0, written |-> 0, uncounted |-> 0]
    ELSE [live |-> left, written |-> 0, uncounted |-> left]

Rotate(renames, opens) ==
    /\ renames => live # None
    /\ rotated' = IF renames THEN live ELSE rotated
    /\ rotatedAt' = IF renames THEN liveAt ELSE rotatedAt
    /\ f' = IF opens THEN "live" ELSE "closed"

\* The line is written and counted, or only its first part is written and not counted.
Put(w, n) == live' = w.live + n /\ written' = w.written + n /\ uncounted' = w.uncounted
PutPart(w, k) == live' = w.live + k /\ written' = w.written /\ uncounted' = w.uncounted + k

\* The line after a rotation, or without one, failing or not.
WriteLine(w, fails) ==
    IF f' = "closed" THEN live' = w.live /\ written' = w.written /\ uncounted' = w.uncounted /\ UNCHANGED liveAt
    ELSE \/ \E n \in 1..MaxLine : ~fails /\ Put(w, n) /\ liveAt' = now
         \/ \E k \in 0..MaxLine - 1 :
               fails /\ PutPart(w, k) /\ liveAt' = IF k = 0 /\ w.live = live THEN liveAt ELSE now

Writing(unopened) ==
    /\ offered < MaxLines /\ offered' = offered + 1
    /\ \E fails \in BOOLEAN :
          \/ /\ written < MaxBytes /\ UNCHANGED <<rotated, rotatedAt, f>>
             /\ Failing(fails) /\ WriteLine(Writer, fails)
          \/ \E renames, opens \in BOOLEAN :
                /\ written >= MaxBytes /\ Rotate(renames, opens)
                /\ Failing(fails \/ ~opens \/ (~renames /\ live # None))
                /\ WriteLine(Opened(renames, opens, unopened), fails)
    /\ UNCHANGED <<sweep, now, restarts, muted>>

\* Mutant: the count starts again although no file could be opened.
WriteResets == Writing(0)

\* Write, and rotateLocked when the file is full; a line that cannot be written is lost.
\* The cap is looked at before the line, whose length it does not ask for.
Write == Writing(written)

Tick == now < MaxTime /\ now' = now + 1 /\ UNCHANGED <<files, f, written, sweep, offered, failures, restarts, uncounted, muted>>

-----------------------------------------------------------------------------
(* The janitor: the live file, then the rotated one.                       *)

Step(at) == sweep' = [sweep EXCEPT !.at = at]
Old(file, at) == file # None /\ at <= sweep.cutoff

\* sweep: which of the two files are in the directory; a directory that cannot be read
\* ends the pass.
List ==
    /\ sweep.at = "idle"
    /\ sweep' = [at |-> "live", cutoff |-> now - Retention,
                 listed |-> {x \in {"live", "rotated"} : (IF x = "live" THEN live ELSE rotated) # None}]
    /\ UNCHANGED <<files, f, written, now, offered, failures, restarts, uncounted, muted>>

\* A file that was listed is due when it was last written before the cutoff; one that
\* cannot be looked at is skipped.
LookLive ==
    /\ sweep.at = "live"
    /\ \E fails \in BOOLEAN :
          /\ Failing(fails)
          /\ Step(IF "live" \in sweep.listed /\ Old(live, liveAt) /\ ~fails THEN "truncate" ELSE "next")
    /\ UNCHANGED <<files, f, written, now, offered, restarts, uncounted, muted>>

\* The live file is truncated through the open file, if that is open; a line written
\* since the janitor looked goes with it.  The count starts again when this fails, too.
Truncate ==
    /\ sweep.at = "truncate" /\ Step("next") /\ written' = 0
    /\ \/ f = "live" /\ live' = 0 /\ liveAt' = now /\ uncounted' = 0 /\ UNCHANGED <<failures, muted>>
       \/ f = "live" /\ Fails /\ uncounted' = live /\ UNCHANGED <<live, liveAt, muted>>
       \/ f = "closed" /\ muted' = TRUE /\ UNCHANGED <<live, liveAt, failures, uncounted>>
    /\ UNCHANGED <<rotated, rotatedAt, f, now, offered, restarts>>

LookRotated ==
    /\ sweep.at = "next"
    /\ \E fails \in BOOLEAN :
          /\ Failing(fails)
          /\ IF "rotated" \in sweep.listed /\ Old(rotated, rotatedAt) /\ ~fails THEN Step("remove") ELSE sweep' = Idle
    /\ UNCHANGED <<files, f, written, now, offered, restarts, uncounted, muted>>

RemoveRotated ==
    /\ sweep.at = "remove" /\ sweep' = Idle
    /\ \/ rotated' = None /\ UNCHANGED failures
       \/ Fails /\ UNCHANGED rotated
    /\ UNCHANGED <<live, liveAt, rotatedAt, f, written, now, offered, restarts, uncounted, muted>>

Next ==
    \/ Write \/ Restart \/ Tick
    \/ List \/ LookLive \/ Truncate \/ LookRotated \/ RemoveRotated

Spec == Init /\ [][Next]_vars

-----------------------------------------------------------------------------
(* Properties.                                                             *)

\* The type of the state.
TypeOK ==
    /\ {live, rotated} \subseteq Nat \cup {None}
    /\ liveAt \in 0..MaxTime /\ rotatedAt \in 0..MaxTime
    /\ f \in {"live", "closed"} /\ written \in Nat /\ uncounted \in Nat
    /\ sweep.at \in {"idle", "live", "truncate", "next", "remove"} /\ sweep.listed \subseteq {"live", "rotated"}
    /\ muted \in BOOLEAN

\* capture.go:67 "a size-capped JSONL writer": whatever the janitor does meanwhile, the
\* size of the open file exceeds what the writer counts by no more than failing calls left
\* uncounted since it was empty, and never falls below, so that the file outgrows the cap
\* by less than a line and those bytes.  A writer without a file counts it as full, so that
\* the next request tries to open one, unless the janitor came in between.
CaptureGoesOn ==
    /\ live # None => live < MaxBytes + MaxLine + uncounted
    /\ IF f = "live" THEN live # None /\ live \in written..written + uncounted
       ELSE written >= MaxBytes \/ muted
=============================================================================
