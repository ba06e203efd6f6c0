--------------------------- MODULE MCOperations ---------------------------
(* What goes on beside the requests: the audit chain and the console.  They*)
(* share no state; a behaviour of this module is one of either, so that the*)
(* run explores the sum of their states and not the product.               *)
(* Module AuditChain is extended and Console is an instance.               *)
EXTENDS AuditChain

CONSTANTS Clients, Sections, FormValues, RawDocs, Signals, EngineName, Custom, Paths,
          DefaultDecoys, MaxSaves, MaxFailed, None, Bad, Broken, s1, s2, g1, g2, g3

VARIABLES part, target, disk, mem, pending, proxy, job, saves, failed, wanted, overlapped, clashed

MCEngineName == [s \in Signals |-> IF s = g1 THEN g1 ELSE g3]
NothingSet == [s \in Sections |-> [k \in {"form", "raw"} |-> None]]
MCRawDocs == {Broken, NothingSet, [NothingSet EXCEPT ![s1] = Bad],
              [s \in Sections |-> [k \in {"form", "raw"} |-> IF k = "raw" THEN 1 ELSE 0]]}
MCMaxSaves == [config |-> 3, signals |-> 2, decoys |-> 3]
ClientSymmetry == Permutations(Clients)

consoleVars == <<target, disk, mem, pending, proxy, job, saves, failed, wanted, overlapped, clashed>>

Admin == INSTANCE Console

ASSUME OperationsAssumption ==
    /\ MaxEntries \in Nat /\ MaxFaults \in Nat /\ MaxRuns \in Nat
    /\ FormValues \subseteq 0..1 /\ RawDocs \subseteq Admin!Content("config")
    /\ DefaultDecoys \subseteq Paths
    /\ MaxSaves \in [{"config", "signals", "decoys"} -> Nat] /\ MaxFailed \in Nat
    /\ Broken \notin Admin!Doc /\ Bad \notin Admin!Section

OpsInit == part \in {"audit", "console"} /\ Init /\ Admin!Init
OpsNext ==
    /\ UNCHANGED part
    /\ \/ part = "audit" /\ Next /\ UNCHANGED consoleVars
       \/ part = "console" /\ Admin!Next /\ UNCHANGED vars
OpsSpec == OpsInit /\ [][OpsNext]_<<part, vars, consoleVars>>

(* The types of the components.                                            *)
OpsTypeOK == TypeOK /\ Admin!TypeOK
(* Saves that do not overlap leave in the file what they say.              *)
SavedAsAsked == Admin!SavedAsAsked
(* At rest the memory of the console is what the file holds, and without   *)
(* the pending mark the proxy runs with it.                                *)
ConsoleIsCurrent == Admin!MemoryIsFile /\ Admin!PendingTells
(* The console shows a signal as on exactly when the scorer counts it.     *)
ShownIsScored == Admin!ShownIsScored
=============================================================================
