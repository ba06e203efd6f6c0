------------------------------ MODULE Canaries ------------------------------
(* The canary table of internal/persist.  The tarpit plants tokens in its  *)
(* answers and goroutines register them under the remote address of the    *)
(* visitor; the scorer looks up the tokens of every request under the      *)
(* client that resolveClientIP names; a maintenance loop deletes what      *)
(* expired.  The tokens of an answer follow from the address, so that one  *)
(* stands for all the tokens planted for it.                               *)
EXTENDS Naturals, FiniteSets, Functions

CONSTANTS
    Clients,       \* whom the proxy and the scorer see: resolveClientIP
    Addresses,     \* whom the tarpit sees: the remote address of the connection
    Routings,      \* the ways clients reach the proxy: functions to Addresses
    None,
    CacheTTL,      \* how long the tarpit repeats an answer
    CanaryTTL,     \* 24 hours
    MaxFailures,   \* bound: registrations that fail
    MaxTime        \* bound: the clock

VARIABLES
    via,           \* how clients reach the proxy
    now,
    rendered,      \* until when the tarpit repeats the answer of an address
    pending,       \* goroutines that register tokens
    canaries,      \* the table tarpit_canaries
    probe,         \* the last request in scoreCanaryReplay
    promised,      \* history: until when a served token is to be known
    lost,          \* history: tokens whose last registration failed
    failures,      \* history: how many failed
    given          \* history: the tokens given to a client

vars == <<via, now, rendered, pending, canaries, probe, promised, lost, failures, given>>

Times == 0..(MaxTime + CacheTTL + CanaryTTL)
Row == [client : Addresses, until : Times]
Probe == [at : {"idle", "hit", "missed"}, client : Clients \cup {None},
          token : Addresses \cup {None}, found : Addresses \cup {None}, known : BOOLEAN]
NoProbe == [at |-> "idle", client |-> None, token |-> None, found |-> None, known |-> FALSE]

Init ==
    /\ via \in Routings /\ now = 1
    /\ rendered = [x \in Addresses |-> 0]
    /\ pending = {} /\ canaries = [x \in Addresses |-> None] /\ probe = NoProbe
    /\ promised = [x \in Addresses |-> 0] /\ lost = {} /\ failures = 0
    /\ given = [c \in Clients |-> {}]

-----------------------------------------------------------------------------

\* ServeHTTP of the tarpit: an answer that is repeated registers nothing; one that is
\* rendered starts a goroutine for its tokens.
Visit ==
    \E c \in Clients :
        LET x == via[c] IN
        /\ given' = [given EXCEPT ![c] = @ \cup {x}]
        /\ \/ now <= rendered[x] /\ UNCHANGED <<rendered, pending, promised>>
           \/ /\ now > rendered[x]
              /\ rendered' = [rendered EXCEPT ![x] = now + CacheTTL]
              /\ pending' = pending \cup {x}
              /\ promised' = [promised EXCEPT ![x] = now + CanaryTTL]
        /\ probe' = NoProbe
        /\ UNCHANGED <<via, now, canaries, lost, failures>>

unchangedVisits == UNCHANGED <<via, rendered, given>>

\* An error of the database is dropped by the goroutine, and a restart of the
\* process takes the goroutine with it.
Fail(x) ==
    /\ failures < MaxFailures /\ failures' = failures + 1
    /\ lost' = lost \cup {x} /\ UNCHANGED canaries

\* Mutant: a token that is already in the table keeps its row as it is.
InsertIgnores ==
    \E x \in pending :
        /\ pending' = pending \ {x}
        /\ \/ /\ canaries' = [canaries EXCEPT ![x] =
                    IF @ # None THEN @ ELSE [client |-> x, until |-> now + CanaryTTL]]
              /\ lost' = lost \ {x} /\ UNCHANGED failures
           \/ Fail(x)
        /\ probe' = NoProbe /\ UNCHANGED <<now, promised>> /\ unchangedVisits

\* InsertCanary: a new row, or the old one with its client and its times renewed.
InsertCanary ==
    \E x \in pending :
        /\ pending' = pending \ {x}
        /\ \/ /\ canaries' = [canaries EXCEPT ![x] = [client |-> x, until |-> now + CanaryTTL]]
              /\ lost' = lost \ {x} /\ UNCHANGED failures
           \/ Fail(x)
        /\ probe' = NoProbe /\ UNCHANGED <<now, promised>> /\ unchangedVisits

\* HitCanary: an unknown or expired token is no replay.  CanaryProbe takes an error
\* of the database for a miss.  (The count of the hits in the row is left out:
\* nothing reads it.)
HitCanary ==
    /\ \E c \in Clients, x \in Range(via), answered \in BOOLEAN :
          LET row == canaries[x] IN
          probe' = IF answered /\ row # None /\ now <= row.until
                   THEN [at |-> "hit", client |-> c, token |-> x, found |-> row.client, known |-> TRUE]
                   ELSE [NoProbe EXCEPT !.at = "missed",
                            !.known = answered /\ now < promised[x] /\ x \notin pending \cup lost]
    /\ UNCHANGED <<now, pending, canaries, promised, lost, failures>> /\ unchangedVisits

\* CanaryGC compares times as text: within one second a row may look expired a
\* little too early or too late.
CanaryGC ==
    /\ \E early \in SUBSET {x \in Addresses : canaries[x] # None /\ canaries[x].until = now} :
          canaries' = [x \in Addresses |->
              IF canaries[x] = None \/ canaries[x].until < now \/ x \in early THEN None
              ELSE canaries[x]]
    /\ canaries' # canaries
    /\ probe' = NoProbe /\ UNCHANGED <<now, pending, promised, lost, failures>> /\ unchangedVisits

\* ForgetClient deletes the rows of the client, and nothing is promised any more; a
\* registration under way puts its row back.
ForgetClient ==
    /\ \E x \in Addresses :
          /\ canaries' = [y \in Addresses |->
                IF canaries[y] # None /\ canaries[y].client = x THEN None ELSE canaries[y]]
          /\ promised' = [promised EXCEPT ![x] = 0]
    /\ canaries' # canaries
    /\ probe' = NoProbe /\ UNCHANGED <<now, pending, lost, failures>> /\ unchangedVisits

Tick ==
    /\ now < MaxTime /\ now' = now + 1
    /\ probe' = NoProbe /\ UNCHANGED <<pending, canaries, promised, lost, failures>> /\ unchangedVisits

Next == Visit \/ InsertCanary \/ HitCanary \/ CanaryGC \/ ForgetClient \/ Tick

Spec == Init /\ [][Next]_vars

-----------------------------------------------------------------------------
(* Properties.                                                             *)

\* The type of the state.
TypeOK ==
    /\ via \in Routings /\ now \in 1..MaxTime /\ rendered \in [Addresses -> Times]
    /\ pending \subseteq Addresses /\ canaries \in [Addresses -> Row \cup {None}]
    /\ probe \in Probe /\ promised \in [Addresses -> Times] /\ lost \subseteq Addresses
    /\ failures \in 0..MaxFailures /\ given \in [Clients -> SUBSET Addresses]

\* A token that was rendered is found in a later request for a day, whatever is
\* collected and rendered again meanwhile, and its row names the address it was
\* planted for, unless the client was forgotten or the database does not answer.
\* When clients connect themselves, one that presents a token it was given is found
\* to be its own client (scorer.go:71 "same client = replay, different client =
\* leaked credential reuse").
ReplayIsKnown ==
    /\ probe.at = "missed" => ~probe.known
    /\ probe.at = "hit" =>
          /\ probe.found = probe.token
          /\ (\A c \in Clients : via[c] = c) /\ probe.token \in given[probe.client]
                => probe.found = probe.client
=============================================================================
