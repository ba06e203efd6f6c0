-------------------------- MODULE AccessProofs --------------------------
(* Who is turned away by the verifier chain had no credential that was     *)
(* valid all along, and who is let in had one that was valid: for every    *)
(* number of requests, credentials, token files and changes, for every     *)
(* chain of the five verifiers and every time to live.  The tarpit repeats *)
(* its answers and its identities, and planted tokens are recognised.      *)
(*                                                                         *)
(* The invariant of the verifiers says of every place in a verifier what   *)
(* the request there, and the caches it is about to use, have to do with   *)
(* what the world said while a request was running: a set of tokens, a     *)
(* secret or a key set that is on its way into a cache answers for the     *)
(* requests that will use it.                                              *)
EXTENDS MCAccess, FiniteSetTheorems, TLAPS

-----------------------------------------------------------------------------
(***************************************************************************)
(* The inductive invariant.                                                *)
(***************************************************************************)
(* The world said yes, or no, of the credential for v while r was checked.  *)
Was(r, v) == TRUE \in held[r][v]
WasNot(r, v) == FALSE \in held[r][v]

(* What `set` says of the credential of r, the world said of it during r.  *)
Known(r, v, set) ==
    /\ req[r].creds[v] \in set => Was(r, v)
    /\ req[r].creds[v] \notin set => WasNot(r, v) \/ (v \in Dirs /\ moved)

(* A running request of which the properties speak.                        *)
Clear(r, v) ==
    /\ Running(r) /\ req[r].creds[v] # None
    /\ v \in Dirs => ~blurred
    /\ v \in Dirs \cup {"jwt"} => req[r].quiet

(* Where a request may stand.                                             *)
Place(r) ==
    /\ Running(r) \/ req[r].at = "accepted" => req[r].i \in 1..Len(chain)
    /\ Running(r) /\ req[r].at # "chain" => Cred(r) # None
    /\ req[r].at = "accepted" => Cred(r) # None
    /\ req[r].at \in {"list", "stat", "lookup"} => Consulted(r) \in Dirs
    /\ req[r].at \in {"compare", "read", "store"} => Consulted(r) \in Dirs \cup {"hmac"}
    /\ req[r].at = "body" => Consulted(r) = "hmac"
    /\ req[r].at \in {"fetch", "swap", "relook"} => Consulted(r) = "jwt"
    /\ req[r].at \in {"call", "answer"} => Consulted(r) = "callout"

Places == \A r \in Requests : Place(r)

(* What the world says now is held for every running request.              *)
HeldNow ==
    \A r \in Requests, v \in VerifierNames :
        Running(r) /\ req[r].creds[v] # None => Says(world, v, req[r].creds[v]) \subseteq held[r][v]

(* What a reload found, the tokens of the unreadable files included: in the *)
(* cache, and on its way there.                                            *)
Found(d) == cache.tokens[d] \cup cache.skipped[d]
Loads(q) == req[q].set \cup req[q].skipped

(* What was found at the directory's time is the directory's set, unless    *)
(* a change did not show in the time.                                      *)
DirCache ==
    \A d \in Dirs :
        /\ cache.dirMod[d] <= world.dir[d].mtime
        /\ ~blurred /\ cache.dirMod[d] = world.dir[d].mtime => Found(d) = Tokens(d)

(* So is one that a reload carries, at each step of the reload.             *)
DirLoad ==
    \A q \in Requests, d \in Dirs :
        /\ At(q, "compare", {d}) \/ At(q, "read", {d}) \/ At(q, "store", {d})
              => req[q].mtime <= world.dir[d].mtime
        /\ ~blurred /\ req[q].mtime = world.dir[d].mtime =>
              /\ At(q, "read", {d}) => req[q].names = Names(d)
              /\ At(q, "store", {d}) => Loads(q) = Tokens(d)

(* A file that is not among the names of a reload and holds the token of r *)
(* came after the reload began, and the token was nowhere before it.       *)
DirTorn ==
    \A r, q \in Requests, d \in Dirs :
        At(q, "read", {d}) /\ Clear(r, d) /\ ~moved =>
            \A f \in Files \ req[q].names :
                world.dir[d].files[f] = req[r].creds[d] => WasNot(r, d)

(* What a reload has found answers for every request that runs.             *)
DirSet ==
    \A r, q \in Requests, d \in Dirs :
        At(q, "store", {d}) /\ Clear(r, d) => Known(r, d, Loads(q))

(* So does the cache, for a request that is about to look its token up.     *)
DirLook ==
    \A r \in Requests, d \in Dirs :
        /\ Clear(r, d)
        /\ \/ At(r, "lookup", {d})
           \/ At(r, "compare", {d}) /\ req[r].mtime = cache.dirMod[d]
        => Known(r, d, Found(d))

(* The entry of the secret is as old as its time says.                     *)
SecretCache ==
    /\ world.mtime > 0 /\ cache.mtime <= world.mtime
    /\ cache.mtime > 0 => cache.secret \in Creds
    /\ cache.mtime = world.mtime => cache.secret = world.secret

(* So is a secret on its way into the entry.                               *)
SecretLoad ==
    \A q \in Requests :
        /\ At(q, "compare", {"hmac"}) \/ At(q, "read", {"hmac"}) \/ At(q, "store", {"hmac"})
              => req[q].mtime \in 1..world.mtime
        /\ At(q, "store", {"hmac"}) =>
              /\ \E s \in Creds : req[q].set = {s}
              /\ req[q].mtime = world.mtime => req[q].set = {world.secret}

(* A secret on its way into the entry answers for a request that has taken *)
(* the same time and will hit it.                                          *)
SecretSet ==
    \A r, q \in Requests :
        At(r, "compare", {"hmac"}) /\ At(q, "store", {"hmac"}) /\ req[r].mtime = req[q].mtime
        => Known(r, "hmac", req[q].set)

(* The secret that a request checks a signature with answers for it.        *)
SecretUse ==
    \A r \in Requests :
        /\ At(r, "compare", {"hmac"}) /\ req[r].mtime = cache.mtime => Known(r, "hmac", {cache.secret})
        /\ At(r, "store", {"hmac"}) \/ At(r, "body", {"hmac"}) => Known(r, "hmac", req[r].set)

(* A key that is not in a set on its way into the cache, or not in the     *)
(* cache after the request's own refresh, was withdrawn.                    *)
KeyUse ==
    \A r \in Requests : Clear(r, "jwt") =>
        /\ \A q \in Requests : req[q].at = "swap" /\ req[r].creds["jwt"] \notin req[q].set => WasNot(r, "jwt")
        /\ loop # {} /\ req[r].creds["jwt"] \notin loop => WasNot(r, "jwt")
        /\ req[r].at = "relook" /\ req[r].creds["jwt"] \notin cache.keys => WasNot(r, "jwt")

(* An answer of the service expires in time.                               *)
Sessions ==
    \A c \in Creds :
        cache.expires[c] <= (IF c \in world.live THEN now + CacheTTL ELSE revoked[c] + CacheTTL + Timeout)

(* A callout takes no longer than its timeout, and a yes was true.           *)
Asking ==
    \A r \in Requests :
        /\ req[r].at \in {"call", "answer"} => req[r].since <= now /\ now <= req[r].since + Timeout
        /\ req[r].at = "answer" => /\ Was(r, "callout")
                                   /\ Cred(r) \in world.live \/ req[r].since <= revoked[Cred(r)]

(* Why v does not accept r.                                                 *)
Turned(r, v) ==
    \/ req[r].creds[v] = None \/ Excepted(req[r], v)
    \/ Excused(r, v) \/ v \in req[r].failed
    \/ v \in Dirs /\ moved
    \/ WasNot(r, v)

(* Every verifier the request has passed turned it away for a reason.       *)
TurnedBefore ==
    \A r \in Requests :
        /\ Running(r) => \A j \in 1..(req[r].i - 1) : Turned(r, chain[j])
        /\ req[r].at = "rejected" => \A j \in 1..Len(chain) : Turned(r, chain[j])

(* Who has been accepted; a session that was over has not come back.       *)
LetIn ==
    \A r \in Requests : req[r].at = "accepted" =>
        LET v == Consulted(r) IN
        \/ v = "jwt" \/ Was(r, v)
        \/ v \in Dirs /\ Excused(r, v)
        \/ /\ v = "callout" /\ Cred(r) \notin world.live
           /\ req[r].done < revoked[Cred(r)] + CacheTTL + Timeout

IInv == TypeOK /\ Places /\ HeldNow /\ DirCache /\ DirLoad /\ DirTorn /\ DirSet /\ DirLook
        /\ SecretCache /\ SecretLoad /\ SecretSet /\ SecretUse /\ KeyUse /\ Sessions /\ Asking
        /\ TurnedBefore /\ LetIn

-----------------------------------------------------------------------------
(***************************************************************************)
(* Types, and what the steps do.                                           *)
(***************************************************************************)
LEMMA Names6 == VerifierNames = {"bearer", "opaque", "hmac", "jwt", "callout"} /\ Dirs = {"bearer", "opaque"}
  BY DEF VerifierNames, Dirs

LEMMA TTLType == CacheTTL \in Nat
  BY VerifiersAssumption DEF CacheTTL

LEMMA ChainType ==
    ASSUME TypeOK
    PROVE  /\ chain \in Seq(VerifierNames)
           /\ Len(chain) \in Nat
           /\ \A j \in 1..Len(chain) : chain[j] \in VerifierNames
           /\ Range(chain) = {chain[j] : j \in 1..Len(chain)}
           /\ Range(chain) \subseteq VerifierNames
  <1>1. chain \in Seq(VerifierNames)
    BY VerifiersAssumption DEF TypeOK
  <1>2. DOMAIN chain = 1..Len(chain) /\ Len(chain) \in Nat
    BY <1>1
  <1>3. \A j \in 1..Len(chain) : chain[j] \in VerifierNames
    BY <1>1
  <1>. QED
    BY <1>1, <1>2, <1>3 DEF Range

\* A step of the world changes only the fields it names.
LEMMA ChangedEffect ==
    ASSUME NEW w \in World, TypeOK, w.changes = world.changes, NEW v, Installed(v), Changed(w)
    PROVE  /\ world' \in World
           /\ world'.dir = w.dir /\ world'.secret = w.secret /\ world'.mtime = w.mtime
           /\ world'.published = w.published /\ world'.live = w.live
           /\ UNCHANGED <<chain, cache, req, loop, now>>
  <1>1. world.changes < MaxChanges
    <2>1. Len(chain) \in Nat /\ Len(chain) >= 1
      BY ChainType DEF Installed
    <2>2. world.changes \in Nat
      BY DEF TypeOK, World
    <2>3. world.changes * Len(chain) < MaxChanges
      BY DEF Changed
    <2>4. world.changes <= world.changes * Len(chain)
      BY <2>1, <2>2, SMTT(30)
    <2>. QED
      BY <2>2, <2>3, <2>4, VerifiersAssumption, <2>1
  <1>2. w.changes + 1 \in 0..MaxChanges
    BY <1>1, VerifiersAssumption DEF TypeOK, World
  <1>3. world' = [w EXCEPT !.changes = @ + 1]
    BY DEF Changed
  <1>. QED
    BY <1>2, <1>3 DEF Changed, World

LEMMA DirectoryEdit ==
    ASSUME NEW e \in Directory, NEW g \in [Files -> Creds \cup {None}]
    PROVE  LET x == [e EXCEPT !.files = g, !.mtime = @ + 1]
           IN  x \in Directory /\ x.files = g /\ x.mtime = e.mtime + 1 /\ x.present = e.present
  <1>. DEFINE m == e.mtime + 1
  <1>1. m \in Nat
    BY DEF Directory
  <1>. HIDE DEF m
  <1>2. LET x == [e EXCEPT !.files = g, !.mtime = m]
        IN  x \in Directory /\ x.files = g /\ x.mtime = m /\ x.present = e.present
    BY <1>1 DEF Directory
  <1>. QED
    BY <1>2 DEF m

LEMMA PutFileEffect ==
    ASSUME TypeOK, NEW d \in Dirs, NEW f \in Files, NEW c \in Creds \cup {None}, Installed(d),
           Changed([world EXCEPT !.dir[d].files[f] = c, !.dir[d].mtime = @ + 1])
    PROVE  /\ world' \in World
           /\ \A e \in Dirs \ {d} : world'.dir[e] = world.dir[e]
           /\ world'.dir[d].files = [world.dir[d].files EXCEPT ![f] = c]
           /\ world'.dir[d].mtime = world.dir[d].mtime + 1
           /\ world'.dir[d].present = world.dir[d].present
           /\ world'.secret = world.secret /\ world'.mtime = world.mtime
           /\ world'.published = world.published /\ world'.live = world.live
           /\ UNCHANGED <<chain, cache, req, loop, now>>
  <1>. DEFINE w == [world EXCEPT !.dir[d].files[f] = c, !.dir[d].mtime = @ + 1]
              x == [world.dir[d] EXCEPT !.files = [world.dir[d].files EXCEPT ![f] = c],
                                        !.mtime = @ + 1]
  <1>0. world \in World /\ world.dir \in [Dirs -> Directory] /\ world.dir[d] \in Directory
    BY DEF TypeOK, World
  <1>1. [world.dir[d].files EXCEPT ![f] = c] \in [Files -> Creds \cup {None}]
    BY <1>0 DEF Directory
  <1>2. x \in Directory /\ x.files = [world.dir[d].files EXCEPT ![f] = c]
        /\ x.mtime = world.dir[d].mtime + 1 /\ x.present = world.dir[d].present
    BY <1>0, <1>1, DirectoryEdit
  <1>3. w = [world EXCEPT !.dir = [world.dir EXCEPT ![d] = x]]
    BY <1>0 DEF World, Directory
  <1>. HIDE DEF x
  <1>4. [world.dir EXCEPT ![d] = x] \in [Dirs -> Directory]
    BY <1>0, <1>2
  <1>5. w \in World /\ w.changes = world.changes
    BY <1>0, <1>3, <1>4 DEF World
  <1>6. /\ w.dir = [world.dir EXCEPT ![d] = x] /\ w.secret = world.secret /\ w.mtime = world.mtime
        /\ w.published = world.published /\ w.live = world.live
    BY <1>0, <1>3 DEF World
  <1>7. Changed(w)
    OBVIOUS
  <1>. HIDE DEF w
  <1>. QED
    BY <1>0, <1>2, <1>5, <1>6, <1>7, ChangedEffect

-----------------------------------------------------------------------------
(***************************************************************************)
(* What the steps of a request do to its record.                           *)
(***************************************************************************)
\* Only r moves, and it keeps what it arrived with.
Moves(r) ==
    /\ req' \in [Requests -> Request]
    /\ \A s \in Requests \ {r} : req'[s] = req[s]
    /\ req'[r].creds = req[r].creds /\ req'[r].policy = req[r].policy
    /\ req'[r].quiet = req[r].quiet /\ req[r].failed \subseteq req'[r].failed

Reaches(r, step) == Moves(r) /\ req'[r].at = step /\ req'[r].i = req[r].i

Accepts(r) ==
    Moves(r) /\ req'[r].at = "accepted" /\ req'[r].i = req[r].i /\ req'[r].done = now

PassesOn(r) ==
    /\ Moves(r)
    /\ \/ req[r].i = Len(chain) /\ req'[r].at = "rejected" /\ req'[r].i = req[r].i
       \/ req[r].i # Len(chain) /\ req'[r].at = "chain" /\ req'[r].i = req[r].i + 1

LEMMA GotoEffect ==
    ASSUME TypeOK, NEW r \in Requests, NEW step \in Steps, Goto(r, step)
    PROVE  /\ Reaches(r, step)
           /\ req'[r].mtime = req[r].mtime /\ req'[r].set = req[r].set
           /\ req'[r].names = req[r].names /\ req'[r].since = req[r].since
  <1>1. req[r] \in Request
    BY DEF TypeOK
  <1>. DEFINE x == [req[r] EXCEPT !.at = step]
  <1>2. req' = [req EXCEPT ![r] = x]
    BY DEF Goto
  <1>3. /\ x \in Request /\ x.at = step /\ x.i = req[r].i
        /\ x.creds = req[r].creds /\ x.policy = req[r].policy
        /\ x.quiet = req[r].quiet /\ x.failed = req[r].failed /\ x.mtime = req[r].mtime
        /\ x.set = req[r].set /\ x.names = req[r].names /\ x.since = req[r].since
    BY <1>1 DEF Request
  <1>. HIDE DEF x
  <1>. QED
    BY <1>2, <1>3 DEF TypeOK, Reaches, Moves

LEMMA AnswerEffect ==
    ASSUME TypeOK, NEW r \in Requests, NEW q \in Request,
           q.creds = req[r].creds, q.policy = req[r].policy,
           q.quiet = req[r].quiet, q.i = req[r].i, req[r].failed \subseteq q.failed,
           NEW ok \in BOOLEAN, Answer(r, ok, q)
    PROVE  /\ ok => Accepts(r)
           /\ ~ok => PassesOn(r)
           /\ req'[r].failed = q.failed
  <1>0. /\ now \in Nat /\ q.i \in Nat /\ q.i + 1 \in Nat
        /\ {"accepted", "rejected", "chain"} \subseteq Steps
    BY DEF TypeOK, Request, Steps
  <1>1. ASSUME NEW next \in Steps, NEW i \in Nat, NEW done \in Nat,
               req' = [req EXCEPT ![r] = [q EXCEPT !.at = next, !.mtime = 0, !.names = {}, !.set = {},
                                                   !.skipped = {}, !.since = 0, !.i = i, !.done = done]]
        PROVE  Moves(r) /\ req'[r].at = next /\ req'[r].i = i /\ req'[r].done = done
               /\ req'[r].failed = q.failed
    BY <1>1 DEF TypeOK, Moves, Request
  <1>2. CASE ok
    <2>1. req' = [req EXCEPT ![r] = [q EXCEPT !.at = "accepted", !.mtime = 0, !.names = {}, !.set = {},
                                              !.skipped = {}, !.since = 0, !.i = q.i, !.done = now]]
      BY <1>2 DEF Answer
    <2>. QED
      BY <1>0, <1>1, <1>2, <2>1, ZenonT(60) DEF Accepts
  <1>3. CASE ~ok /\ q.i = Len(chain)
    <2>1. req' = [req EXCEPT ![r] = [q EXCEPT !.at = "rejected", !.mtime = 0, !.names = {}, !.set = {},
                                              !.skipped = {}, !.since = 0, !.i = q.i, !.done = now]]
      BY <1>3 DEF Answer
    <2>. QED
      BY <1>0, <1>1, <1>3, <2>1 DEF PassesOn
  <1>4. CASE ~ok /\ q.i # Len(chain)
    <2>1. req' = [req EXCEPT ![r] = [q EXCEPT !.at = "chain", !.mtime = 0, !.names = {}, !.set = {},
                                              !.skipped = {}, !.since = 0, !.i = q.i + 1, !.done = 0]]
      BY <1>4 DEF Answer
    <2>. QED
      BY <1>0, <1>1, <1>4, <2>1, ZenonT(60) DEF PassesOn
  <1>. QED
    BY <1>2, <1>3, <1>4

LEMMA VerdictEffect ==
    ASSUME TypeOK, NEW r \in Requests, NEW ok \in BOOLEAN, Verdict(r, ok)
    PROVE  /\ ok => Accepts(r)
           /\ ~ok => PassesOn(r)
           /\ req'[r].failed = req[r].failed
  <1>1. req[r] \in Request
    BY DEF TypeOK
  <1>. QED
    BY <1>1, AnswerEffect DEF Verdict

\* The record a step of a verifier leaves.
LEMMA EditMtime ==
    ASSUME TypeOK, NEW r \in Requests, NEW step \in Steps, NEW m \in Nat,
           req' = [req EXCEPT ![r] = [req[r] EXCEPT !.at = step, !.mtime = m]]
    PROVE  Reaches(r, step) /\ req'[r].mtime = m /\ req'[r].names = req[r].names /\ req'[r].set = req[r].set
  <1>0. req[r] \in Request
    BY DEF TypeOK
  <1>. DEFINE x == [req[r] EXCEPT !.at = step, !.mtime = m]
  <1>1. /\ x \in Request /\ x.at = step /\ x.i = req[r].i
        /\ x.creds = req[r].creds /\ x.policy = req[r].policy
        /\ x.quiet = req[r].quiet /\ x.failed = req[r].failed
        /\ x.mtime = m /\ x.names = req[r].names /\ x.set = req[r].set
    BY <1>0 DEF Request
  <1>2. req' = [req EXCEPT ![r] = x]
    OBVIOUS
  <1>. HIDE DEF x
  <1>. QED
    BY <1>1, <1>2 DEF TypeOK, Reaches, Moves

LEMMA EditNames ==
    ASSUME TypeOK, NEW r \in Requests, NEW step \in Steps, NEW n \in SUBSET Files,
           req' = [req EXCEPT ![r] = [req[r] EXCEPT !.at = step, !.names = n]]
    PROVE  Reaches(r, step) /\ req'[r].names = n /\ req'[r].mtime = req[r].mtime
  <1>0. req[r] \in Request
    BY DEF TypeOK
  <1>. DEFINE x == [req[r] EXCEPT !.at = step, !.names = n]
  <1>1. /\ x \in Request /\ x.at = step /\ x.i = req[r].i
        /\ x.creds = req[r].creds /\ x.policy = req[r].policy
        /\ x.quiet = req[r].quiet /\ x.failed = req[r].failed
        /\ x.names = n /\ x.mtime = req[r].mtime
    BY <1>0 DEF Request
  <1>2. req' = [req EXCEPT ![r] = x]
    OBVIOUS
  <1>. HIDE DEF x
  <1>. QED
    BY <1>1, <1>2 DEF TypeOK, Reaches, Moves

LEMMA EditSet ==
    ASSUME TypeOK, NEW r \in Requests, NEW step \in Steps, NEW set \in SUBSET Creds,
           req' = [req EXCEPT ![r] = [req[r] EXCEPT !.at = step, !.set = set]]
    PROVE  Reaches(r, step) /\ req'[r].set = set /\ req'[r].mtime = req[r].mtime
  <1>0. req[r] \in Request
    BY DEF TypeOK
  <1>. DEFINE x == [req[r] EXCEPT !.at = step, !.set = set]
  <1>1. /\ x \in Request /\ x.at = step /\ x.i = req[r].i
        /\ x.creds = req[r].creds /\ x.policy = req[r].policy
        /\ x.quiet = req[r].quiet /\ x.failed = req[r].failed
        /\ x.set = set /\ x.mtime = req[r].mtime
    BY <1>0 DEF Request
  <1>2. req' = [req EXCEPT ![r] = x]
    OBVIOUS
  <1>. HIDE DEF x
  <1>. QED
    BY <1>1, <1>2 DEF TypeOK, Reaches, Moves

LEMMA EditLoad ==
    ASSUME TypeOK, NEW r \in Requests, NEW step \in Steps, NEW set \in SUBSET Creds,
           NEW skipped \in SUBSET Creds,
           req' = [req EXCEPT ![r] = [req[r] EXCEPT !.at = step, !.set = set, !.skipped = skipped]]
    PROVE  Reaches(r, step) /\ req'[r].set = set /\ req'[r].skipped = skipped /\ req'[r].mtime = req[r].mtime
  <1>0. req[r] \in Request
    BY DEF TypeOK
  <1>. DEFINE x == [req[r] EXCEPT !.at = step, !.set = set, !.skipped = skipped]
  <1>1. /\ x \in Request /\ x.at = step /\ x.i = req[r].i
        /\ x.creds = req[r].creds /\ x.policy = req[r].policy
        /\ x.quiet = req[r].quiet /\ x.failed = req[r].failed
        /\ x.set = set /\ x.skipped = skipped /\ x.mtime = req[r].mtime
    BY <1>0 DEF Request
  <1>2. req' = [req EXCEPT ![r] = x]
    OBVIOUS
  <1>. HIDE DEF x
  <1>. QED
    BY <1>1, <1>2 DEF TypeOK, Reaches, Moves

LEMMA EditSince ==
    ASSUME TypeOK, NEW r \in Requests, NEW step \in Steps, NEW t \in Nat,
           req' = [req EXCEPT ![r] = [req[r] EXCEPT !.at = step, !.since = t]]
    PROVE  Reaches(r, step) /\ req'[r].since = t
  <1>0. req[r] \in Request
    BY DEF TypeOK
  <1>. DEFINE x == [req[r] EXCEPT !.at = step, !.since = t]
  <1>1. /\ x \in Request /\ x.at = step /\ x.i = req[r].i
        /\ x.creds = req[r].creds /\ x.policy = req[r].policy
        /\ x.quiet = req[r].quiet /\ x.failed = req[r].failed
        /\ x.since = t
    BY <1>0 DEF Request
  <1>2. req' = [req EXCEPT ![r] = x]
    OBVIOUS
  <1>. HIDE DEF x
  <1>. QED
    BY <1>1, <1>2 DEF TypeOK, Reaches, Moves

LEMMA ArriveEffect ==
    ASSUME TypeOK, NEW r \in Requests, Arrive(r)
    PROVE  /\ ~Running(r) /\ req' \in [Requests -> Request]
           /\ \A s \in Requests \ {r} : req'[s] = req[s]
           /\ req'[r].at = "chain" /\ req'[r].i = 1
           /\ 1 \in 1..Len(chain)
           /\ req'[r].quiet => loop = {} /\ \A q \in Requests \ {r} : ~Loading(q)
           /\ OnlyReq
  <1>1. PICK c \in Creds, vs \in (SUBSET Range(chain)) \ {{}}, p \in Policies :
          /\ "hmac" \notin vs => p = "full"
          /\ req' = [req EXCEPT ![r] =
                [Idle EXCEPT !.at = "chain", !.i = 1, !.policy = p,
                             !.creds = [v \in VerifierNames |-> IF v \in vs THEN c ELSE None],
                             !.quiet = loop = {} /\ \A q \in Requests \ {r} : ~Loading(q)]]
    BY ZenonT(30) DEF Arrive
  <1>. DEFINE creds == [v \in VerifierNames |-> IF v \in vs THEN c ELSE None]
              quiet == loop = {} /\ \A q \in Requests \ {r} : ~Loading(q)
              x == [Idle EXCEPT !.at = "chain", !.i = 1, !.policy = p,
                                !.creds = creds, !.quiet = quiet]
  <1>2. creds \in [VerifierNames -> Creds \cup {None}] /\ quiet \in BOOLEAN
    OBVIOUS
  <1>3. PICK b \in BOOLEAN : b = quiet
    BY <1>2
  <1>. HIDE DEF creds, quiet
  <1>4. /\ x \in Request /\ x.at = "chain" /\ x.i = 1 /\ x.quiet = b
    BY <1>2, <1>3 DEF Idle, Request, Steps
  <1>5. req' = [req EXCEPT ![r] = x]
    BY <1>1 DEF creds, quiet
  <1>. HIDE DEF x
  <1>6. 1 \in 1..Len(chain)
    BY ChainType
  <1>7. req' \in [Requests -> Request] /\ req'[r] = x /\ \A s \in Requests \ {r} : req'[s] = req[s]
    BY <1>4, <1>5 DEF TypeOK
  <1>8. ~Running(r) /\ OnlyReq
    BY ZenonT(30) DEF Arrive
  <1>. QED
    BY <1>3, <1>4, <1>6, <1>7, <1>8 DEF quiet

LEMMA PassOverEffect ==
    ASSUME TypeOK, NEW r \in Requests, PassOver(r)
    PROVE  /\ req[r].at = "chain" /\ (Cred(r) = None \/ Excepted(req[r], Consulted(r)))
           /\ PassesOn(r) /\ OnlyReq
  BY VerdictEffect DEF PassOver

LEMMA StatTokenEffect ==
    ASSUME TypeOK, NEW r \in Requests, NEW d \in Dirs, StatToken(r, d)
    PROVE  /\ At(r, "chain", {d}) /\ Cred(r) # None /\ OnlyReq
           /\ \/ Reaches(r, "compare") /\ req'[r].mtime = world.dir[d].mtime
              \/ Reaches(r, "lookup") /\ ~world.dir[d].present
  <1>0. At(r, "chain", {d}) /\ Cred(r) # None /\ OnlyReq
    BY DEF StatToken, Presented
  <1>1. world.dir[d].mtime \in Nat
    BY DEF TypeOK, World, Directory
  <1>2. CASE world.dir[d].present
    <2>1. req' = [req EXCEPT ![r] = [req[r] EXCEPT !.at = "compare", !.mtime = world.dir[d].mtime]]
      BY <1>2 DEF StatToken, TypeOK
    <2>. DEFINE m == world.dir[d].mtime
    <2>. HIDE DEF m
    <2>2. Reaches(r, "compare") /\ req'[r].mtime = m
      <3>1. req' = [req EXCEPT ![r] = [req[r] EXCEPT !.at = "compare", !.mtime = m]]
        BY <2>1 DEF m
      <3>2. m \in Nat /\ "compare" \in Steps
        BY <1>1 DEF m, Steps
      <3>. QED
        BY <3>1, <3>2, EditMtime
    <2>. QED
      BY <1>0, <2>2 DEF m
  <1>3. CASE ~world.dir[d].present
    <2>1. Goto(r, "lookup")
      BY <1>3 DEF StatToken
    <2>. QED
      BY <1>0, <1>3, <2>1, GotoEffect DEF Steps
  <1>. QED
    BY <1>2, <1>3

LEMMA CompareTimeEffect ==
    ASSUME TypeOK, NEW r \in Requests, CompareTime(r)
    PROVE  /\ At(r, "compare", Dirs) /\ OnlyReq
           /\ \/ Reaches(r, "lookup") /\ req[r].mtime = cache.dirMod[Consulted(r)]
              \/ Reaches(r, "list")
  BY GotoEffect DEF CompareTime, Steps

LEMMA ListFilesEffect ==
    ASSUME TypeOK, NEW r \in Requests, ListFiles(r)
    PROVE  /\ At(r, "list", Dirs) /\ OnlyReq
           /\ \/ Reaches(r, "stat")
              \/ Reaches(r, "lookup") /\ ~world.dir[Consulted(r)].present
  <1>1. CASE world.dir[Consulted(r)].present
    <2>1. req' = [req EXCEPT ![r] = [req[r] EXCEPT !.at = "stat", !.names = Names(Consulted(r))]]
      BY <1>1 DEF ListFiles, TypeOK
    <2>2. Names(Consulted(r)) \in SUBSET Files
      BY DEF Names
    <2>. QED
      BY <2>1, <2>2, EditNames DEF ListFiles, Steps
  <1>2. CASE ~world.dir[Consulted(r)].present
    BY <1>2, GotoEffect DEF ListFiles, Steps
  <1>. QED
    BY <1>1, <1>2

LEMMA StatListedEffect ==
    ASSUME TypeOK, NEW r \in Requests, StatListed(r)
    PROVE  /\ At(r, "stat", Dirs) /\ UNCHANGED <<chain, world, cache, loop, now, revoked, moved>>
           /\ blurred => blurred'
           /\ \/ /\ Reaches(r, "read") /\ req'[r].mtime = world.dir[Consulted(r)].mtime
                 /\ ~blurred' => req'[r].names = Names(Consulted(r))
              \/ Reaches(r, "lookup") /\ ~world.dir[Consulted(r)].present
  <1>0. /\ At(r, "stat", Dirs) /\ UNCHANGED <<chain, world, cache, loop, now, revoked, moved>>
        /\ blurred' = (blurred \/ (world.dir[Consulted(r)].present
                                     /\ req[r].names # Names(Consulted(r))))
    BY DEF StatListed
  <1>1. CASE world.dir[Consulted(r)].present
    <2>1. req' = [req EXCEPT ![r] = [req[r] EXCEPT !.at = "read", !.mtime = world.dir[Consulted(r)].mtime]]
      BY <1>1 DEF StatListed, TypeOK
    <2>2. world.dir[Consulted(r)].mtime \in Nat
      BY <1>0 DEF TypeOK, World, Directory, At
    <2>. DEFINE m == world.dir[Consulted(r)].mtime
    <2>. HIDE DEF m
    <2>3. Reaches(r, "read") /\ req'[r].mtime = m /\ req'[r].names = req[r].names
      <3>1. req' = [req EXCEPT ![r] = [req[r] EXCEPT !.at = "read", !.mtime = m]]
        BY <2>1 DEF m
      <3>2. m \in Nat /\ "read" \in Steps
        BY <2>2 DEF m, Steps
      <3>. QED
        BY <3>1, <3>2, EditMtime
    <2>4. ~blurred' => req[r].names = Names(Consulted(r))
      BY <1>0, <1>1
    <2>. QED
      BY <1>0, <2>3, <2>4 DEF m
  <1>2. CASE ~world.dir[Consulted(r)].present
    <2>1. Goto(r, "lookup")
      BY <1>2 DEF StatListed
    <2>. QED
      BY <1>0, <1>2, <2>1, GotoEffect DEF Steps
  <1>. QED
    BY <1>1, <1>2

LEMMA ReadFilesEffect ==
    ASSUME TypeOK, NEW r \in Requests, ReadFiles(r)
    PROVE  /\ At(r, "read", Dirs) /\ Reaches(r, "store") /\ OnlyReq
           /\ req'[r].mtime = req[r].mtime
           /\ Loads(r)' = {world.dir[Consulted(r)].files[f] : f \in req[r].names} \ {None}
  <1>0. At(r, "read", Dirs) /\ OnlyReq
    BY DEF ReadFiles
  <1>. DEFINE read(fs) == {world.dir[Consulted(r)].files[f] : f \in fs} \ {None}
  <1>1. PICK bad \in SUBSET req[r].names :
           req' = [req EXCEPT ![r].at = "store", ![r].set = read(req[r].names \ bad),
                              ![r].skipped = read(req[r].names) \ read(req[r].names \ bad)]
    BY DEF ReadFiles
  <1>. DEFINE set == read(req[r].names \ bad)
              all == read(req[r].names)
              skipped == all \ set
  <1>2. set \subseteq all /\ all \in SUBSET Creds
    <2>1. world.dir[Consulted(r)].files \in [Files -> Creds \cup {None}]
      BY <1>0 DEF TypeOK, World, Directory, At
    <2>2. req[r].names \subseteq Files
      BY DEF TypeOK, Request
    <2>. QED
      BY <2>1, <2>2
  <1>3. req' = [req EXCEPT ![r] = [req[r] EXCEPT !.at = "store", !.set = set, !.skipped = skipped]]
    BY <1>1 DEF TypeOK
  <1>4. set \in SUBSET Creds /\ skipped \in SUBSET Creds /\ set \cup skipped = all
    BY <1>2
  <1>. HIDE DEF set, skipped
  <1>5. Reaches(r, "store") /\ req'[r].set = set /\ req'[r].skipped = skipped /\ req'[r].mtime = req[r].mtime
    BY <1>3, <1>4, EditLoad DEF Steps
  <1>. QED
    BY <1>0, <1>4, <1>5 DEF Loads

LEMMA StoreTokensEffect ==
    ASSUME TypeOK, NEW r \in Requests, StoreTokens(r)
    PROVE  /\ At(r, "store", Dirs) /\ Reaches(r, "lookup")
           /\ UNCHANGED <<chain, world, loop, now, revoked, blurred, moved>>
           /\ cache' \in Cache
           /\ \A d \in Dirs : Found(d)' = IF d = Consulted(r) THEN Loads(r) ELSE Found(d)
           /\ cache'.dirMod = [cache.dirMod EXCEPT ![Consulted(r)] = req[r].mtime]
           /\ cache'.secret = cache.secret /\ cache'.mtime = cache.mtime
           /\ cache'.keys = cache.keys /\ cache'.expires = cache.expires
  <1>0. /\ At(r, "store", Dirs) /\ UNCHANGED <<chain, world, loop, now, revoked, blurred, moved>>
        /\ Goto(r, "lookup")
    BY DEF StoreTokens
  <1>. DEFINE t == [cache.tokens EXCEPT ![Consulted(r)] = req[r].set]
              k == [cache.skipped EXCEPT ![Consulted(r)] = req[r].skipped]
              m == [cache.dirMod EXCEPT ![Consulted(r)] = req[r].mtime]
  <1>1. cache' = [cache EXCEPT !.tokens = t, !.skipped = k, !.dirMod = m]
    BY DEF StoreTokens, TypeOK, Cache
  <1>2. t \in [Dirs -> SUBSET Creds] /\ k \in [Dirs -> SUBSET Creds] /\ m \in [Dirs -> Nat]
    BY DEF TypeOK, Cache, Request
  <1>3. cache \in Cache
    BY DEF TypeOK
  <1>4. \A d \in Dirs : t[d] \cup k[d] = IF d = Consulted(r) THEN Loads(r) ELSE Found(d)
    BY <1>3 DEF Cache, Loads, Found
  <1>. HIDE DEF t, k, m
  <1>5. /\ cache' \in Cache /\ cache'.tokens = t /\ cache'.skipped = k /\ cache'.dirMod = m
        /\ cache'.secret = cache.secret /\ cache'.mtime = cache.mtime
        /\ cache'.keys = cache.keys /\ cache'.expires = cache.expires
    BY <1>1, <1>2, <1>3 DEF Cache
  <1>6. \A d \in Dirs : Found(d)' = IF d = Consulted(r) THEN Loads(r) ELSE Found(d)
    BY <1>4, <1>5 DEF Found
  <1>. QED
    BY <1>0, <1>5, <1>6, GotoEffect DEF Steps, m

\* The record of a request whose verifier could not do its work.
LEMMA FailedRecord ==
    ASSUME TypeOK, NEW r \in Requests, Consulted(r) \in VerifierNames
    PROVE  /\ Failed(r) \in Request /\ Failed(r).creds = req[r].creds
           /\ Failed(r).policy = req[r].policy /\ Failed(r).quiet = req[r].quiet
           /\ Failed(r).i = req[r].i /\ req[r].failed \subseteq Failed(r).failed
           /\ Consulted(r) \in Failed(r).failed
  <1>1. req[r] \in Request
    BY DEF TypeOK
  <1>. DEFINE bad == req[r].failed \cup {Consulted(r)}
  <1>2. bad \in SUBSET VerifierNames /\ req[r].failed \subseteq bad /\ Consulted(r) \in bad
    BY <1>1 DEF Request
  <1>3. Failed(r) = [req[r] EXCEPT !.failed = bad]
    BY <1>1 DEF Failed, Request
  <1>. HIDE DEF bad
  <1>. QED
    BY <1>1, <1>2, <1>3 DEF Request

LEMMA FailedEffect ==
    ASSUME TypeOK, NEW r \in Requests, Consulted(r) \in VerifierNames, Answer(r, FALSE, Failed(r))
    PROVE  PassesOn(r) /\ Consulted(r) \in req'[r].failed
  BY FailedRecord, AnswerEffect

LEMMA LookupEffect ==
    ASSUME TypeOK, NEW r \in Requests, LookupBearer(r) \/ LookupOpaque(r)
    PROVE  /\ At(r, "lookup", Dirs) /\ OnlyReq
           /\ \/ Accepts(r) /\ Cred(r) \in Found(Consulted(r))
              \/ PassesOn(r) /\ Cred(r) \notin Found(Consulted(r))
              \/ PassesOn(r) /\ Consulted(r) \in req'[r].failed
  <1>1. PICK d \in Dirs : LookupToken(r, d)
    BY DEF LookupBearer, LookupOpaque, Dirs
  <1>. DEFINE q == IF Cred(r) \in cache.skipped[d] THEN Failed(r) ELSE req[r]
  <1>2. At(r, "lookup", {d}) /\ OnlyReq /\ Answer(r, Cred(r) \in cache.tokens[d], q)
    BY <1>1 DEF LookupToken
  <1>3. Consulted(r) = d /\ d \in VerifierNames /\ req[r] \in Request
    BY <1>2, Names6 DEF At, TypeOK
  <1>4. /\ q \in Request /\ q.creds = req[r].creds /\ q.policy = req[r].policy
        /\ q.quiet = req[r].quiet /\ q.i = req[r].i /\ req[r].failed \subseteq q.failed
        /\ Cred(r) \in cache.skipped[d] => Consulted(r) \in q.failed
    BY <1>3, FailedRecord
  <1>. HIDE DEF q
  <1>5. CASE Cred(r) \in cache.tokens[d]
    <2>1. Answer(r, TRUE, q)
      BY <1>2, <1>5 DEF Answer
    <2>. QED
      BY <1>2, <1>3, <1>4, <1>5, <2>1, AnswerEffect DEF At, Found
  <1>6. CASE Cred(r) \notin cache.tokens[d]
    <2>1. Answer(r, FALSE, q)
      BY <1>2, <1>6 DEF Answer
    <2>. QED
      BY <1>2, <1>3, <1>4, <1>6, <2>1, AnswerEffect DEF At, Found
  <1>. QED
    BY <1>5, <1>6

LEMMA StatSecretEffect ==
    ASSUME TypeOK, NEW r \in Requests, StatSecret(r)
    PROVE  /\ At(r, "chain", {"hmac"}) /\ Cred(r) # None /\ OnlyReq
           /\ \/ PassesOn(r) /\ (world.secret = None \/ "hmac" \in req'[r].failed)
              \/ Reaches(r, "compare") /\ req'[r].mtime = world.mtime
  <1>0. At(r, "chain", {"hmac"}) /\ Cred(r) # None /\ OnlyReq
    BY DEF StatSecret, Presented
  <1>1. CASE world.secret = None
    <2>1. Verdict(r, FALSE)
      BY <1>1 DEF StatSecret
    <2>. QED
      BY <1>0, <1>1, <2>1, VerdictEffect
  <1>2. CASE req' = [req EXCEPT ![r].at = "compare", ![r].mtime = world.mtime]
    <2>. DEFINE m == world.mtime
    <2>1. req' = [req EXCEPT ![r] = [req[r] EXCEPT !.at = "compare", !.mtime = m]]
      BY <1>2 DEF TypeOK
    <2>2. m \in Nat
      BY DEF TypeOK, World
    <2>. HIDE DEF m
    <2>3. Reaches(r, "compare") /\ req'[r].mtime = m
      BY <2>1, <2>2, EditMtime DEF Steps
    <2>. QED
      BY <1>0, <2>3 DEF m
  <1>3. CASE Answer(r, FALSE, Failed(r))
    <2>1. Consulted(r) = "hmac"
      BY <1>0 DEF At
    <2>. QED
      BY <1>0, <1>3, <2>1, FailedEffect, Names6
  <1>. QED
    BY <1>1, <1>2, <1>3 DEF StatSecret

LEMMA CompareSecretEffect ==
    ASSUME TypeOK, NEW r \in Requests, CompareSecret(r), cache.mtime = req[r].mtime => cache.secret \in Creds
    PROVE  /\ At(r, "compare", {"hmac"}) /\ OnlyReq
           /\ \/ Reaches(r, "body") /\ req[r].mtime = cache.mtime /\ req'[r].set = {cache.secret}
              \/ Reaches(r, "read") /\ req'[r].mtime = req[r].mtime
  <1>0. At(r, "compare", {"hmac"}) /\ OnlyReq
    BY DEF CompareSecret
  <1>1. CASE req[r].mtime = cache.mtime
    <2>. DEFINE set == {cache.secret}
    <2>1. req' = [req EXCEPT ![r] = [req[r] EXCEPT !.at = "body", !.set = set]]
      BY <1>1 DEF CompareSecret
    <2>2. set \in SUBSET Creds /\ "body" \in Steps
      BY <1>1 DEF Steps
    <2>. HIDE DEF set
    <2>3. Reaches(r, "body") /\ req'[r].set = set
      BY <2>1, <2>2, EditSet
    <2>. QED
      BY <1>0, <1>1, <2>3 DEF set
  <1>2. CASE req[r].mtime # cache.mtime
    <2>1. Goto(r, "read")
      BY <1>2 DEF CompareSecret, Goto
    <2>. QED
      BY <1>0, <2>1, GotoEffect DEF Steps
  <1>. QED
    BY <1>1, <1>2

LEMMA ReadSecretEffect ==
    ASSUME TypeOK, NEW r \in Requests, ReadSecret(r)
    PROVE  /\ At(r, "read", {"hmac"}) /\ OnlyReq
           /\ \/ PassesOn(r) /\ (world.secret = None \/ "hmac" \in req'[r].failed)
              \/ /\ Reaches(r, "store") /\ req'[r].mtime = req[r].mtime
                 /\ req'[r].set = {world.secret} /\ world.secret \in Creds
  <1>0. At(r, "read", {"hmac"}) /\ OnlyReq
    BY DEF ReadSecret
  <1>1. CASE world.secret = None
    <2>1. Verdict(r, FALSE)
      BY <1>1 DEF ReadSecret
    <2>. QED
      BY <1>0, <1>1, <2>1, VerdictEffect
  <1>2. CASE world.secret # None /\ req' = [req EXCEPT ![r].at = "store", ![r].set = {world.secret}]
    <2>. DEFINE set == {world.secret}
    <2>1. req' = [req EXCEPT ![r] = [req[r] EXCEPT !.at = "store", !.set = set]]
      BY <1>2 DEF TypeOK
    <2>2. set \in SUBSET Creds /\ world.secret \in Creds
      BY <1>2 DEF TypeOK, World
    <2>. HIDE DEF set
    <2>3. Reaches(r, "store") /\ req'[r].set = set /\ req'[r].mtime = req[r].mtime
      BY <2>1, <2>2, EditSet DEF Steps
    <2>. QED
      BY <1>0, <2>2, <2>3 DEF set
  <1>3. CASE Answer(r, FALSE, Failed(r))
    <2>1. Consulted(r) = "hmac"
      BY <1>0 DEF At
    <2>. QED
      BY <1>0, <1>3, <2>1, FailedEffect, Names6
  <1>. QED
    BY <1>1, <1>2, <1>3 DEF ReadSecret

LEMMA StoreSecretEffect ==
    ASSUME TypeOK, NEW r \in Requests, StoreSecret(r), NEW s \in Creds, req[r].set = {s}
    PROVE  /\ At(r, "store", {"hmac"}) /\ Reaches(r, "body") /\ req'[r].set = req[r].set
           /\ UNCHANGED <<chain, world, loop, now, revoked, blurred, moved>>
           /\ cache' \in Cache
           /\ cache'.secret = s /\ cache'.mtime = req[r].mtime
           /\ cache'.tokens = cache.tokens /\ cache'.skipped = cache.skipped /\ cache'.dirMod = cache.dirMod
           /\ cache'.keys = cache.keys /\ cache'.expires = cache.expires
  <1>1. (CHOOSE c \in Creds : c \in req[r].set) = s
    OBVIOUS
  <1>. DEFINE m == req[r].mtime
  <1>2. cache' = [cache EXCEPT !.secret = s, !.mtime = m]
    BY <1>1 DEF StoreSecret
  <1>3. m \in Nat /\ cache \in Cache
    BY DEF TypeOK, Request
  <1>. HIDE DEF m
  <1>4. /\ cache' \in Cache /\ cache'.secret = s /\ cache'.mtime = m
        /\ cache'.tokens = cache.tokens /\ cache'.skipped = cache.skipped /\ cache'.dirMod = cache.dirMod
        /\ cache'.keys = cache.keys /\ cache'.expires = cache.expires
    BY <1>2, <1>3 DEF Cache
  <1>5. /\ At(r, "store", {"hmac"}) /\ Goto(r, "body")
        /\ UNCHANGED <<chain, world, loop, now, revoked, blurred, moved>>
    BY DEF StoreSecret
  <1>. QED
    BY <1>4, <1>5, GotoEffect DEF Steps, m

LEMMA CheckSignatureEffect ==
    ASSUME TypeOK, NEW r \in Requests, CheckSignature(r)
    PROVE  /\ At(r, "body", {"hmac"}) /\ OnlyReq
           /\ \/ Accepts(r) /\ Cred(r) \in req[r].set
              \/ PassesOn(r) /\ (Cred(r) \notin req[r].set \/ "hmac" \in req'[r].failed)
  <1>0. At(r, "body", {"hmac"}) /\ OnlyReq /\ Consulted(r) = "hmac"
    BY DEF CheckSignature, At
  <1>1. CASE Verdict(r, Cred(r) \in req[r].set) /\ Cred(r) \in req[r].set
    <2>1. Verdict(r, TRUE)
      BY <1>1 DEF Verdict, Answer
    <2>. QED
      BY <1>0, <1>1, <2>1, VerdictEffect
  <1>2. CASE Verdict(r, Cred(r) \in req[r].set) /\ Cred(r) \notin req[r].set
    <2>1. Verdict(r, FALSE)
      BY <1>2 DEF Verdict, Answer
    <2>. QED
      BY <1>0, <1>2, <2>1, VerdictEffect
  <1>3. CASE Answer(r, FALSE, Failed(r))
    BY <1>0, <1>3, FailedEffect, Names6
  <1>. QED
    BY <1>1, <1>2, <1>3 DEF CheckSignature

LEMMA FindKeyEffect ==
    ASSUME TypeOK, NEW r \in Requests, FindKey(r)
    PROVE  /\ At(r, "chain", {"jwt"}) /\ Cred(r) # None /\ OnlyReq
           /\ Accepts(r) \/ Reaches(r, "fetch")
  <1>0. At(r, "chain", {"jwt"}) /\ Cred(r) # None /\ OnlyReq
    BY DEF FindKey, Presented
  <1>1. CASE Cred(r) \in cache.keys
    <2>1. Verdict(r, TRUE)
      BY <1>1 DEF FindKey
    <2>. QED
      BY <1>0, <2>1, VerdictEffect
  <1>2. CASE Cred(r) \notin cache.keys
    <2>1. Goto(r, "fetch")
      BY <1>2 DEF FindKey
    <2>. QED
      BY <1>0, <2>1, GotoEffect DEF Steps
  <1>. QED
    BY <1>1, <1>2

LEMMA FetchKeysEffect ==
    ASSUME TypeOK, NEW r \in Requests, FetchKeys(r)
    PROVE  /\ At(r, "fetch", {"jwt"}) /\ OnlyReq
           /\ \/ PassesOn(r) /\ world.published = {}
              \/ Reaches(r, "swap") /\ req'[r].set = world.published
              \/ PassesOn(r) /\ Consulted(r) \in req'[r].failed
  <1>0. At(r, "fetch", {"jwt"}) /\ OnlyReq
    BY DEF FetchKeys
  <1>1. CASE world.published = {}
    <2>1. Verdict(r, FALSE)
      BY <1>1 DEF FetchKeys
    <2>. QED
      BY <1>0, <1>1, <2>1, VerdictEffect
  <1>2. CASE req' = [req EXCEPT ![r].at = "swap", ![r].set = world.published]
    <2>. DEFINE set == world.published
    <2>1. req' = [req EXCEPT ![r] = [req[r] EXCEPT !.at = "swap", !.set = set]]
      BY <1>2 DEF TypeOK
    <2>2. set \in SUBSET Creds /\ "swap" \in Steps
      BY DEF TypeOK, World, Steps
    <2>. HIDE DEF set
    <2>3. Reaches(r, "swap") /\ req'[r].set = set
      BY <2>1, <2>2, EditSet
    <2>. QED
      BY <1>0, <2>3 DEF set
  <1>3. CASE Answer(r, FALSE, Failed(r))
    BY <1>0, <1>3, FailedEffect, Names6 DEF At
  <1>. QED
    BY <1>1, <1>2, <1>3 DEF FetchKeys

LEMMA SwapKeysEffect ==
    ASSUME TypeOK, NEW r \in Requests, SwapKeys(r)
    PROVE  /\ At(r, "swap", {"jwt"}) /\ Reaches(r, "relook")
           /\ UNCHANGED <<chain, world, loop, now, revoked, blurred, moved>>
           /\ cache' \in Cache /\ cache'.keys = req[r].set
           /\ cache'.tokens = cache.tokens /\ cache'.skipped = cache.skipped /\ cache'.dirMod = cache.dirMod
           /\ cache'.secret = cache.secret /\ cache'.mtime = cache.mtime
           /\ cache'.expires = cache.expires
  <1>0. /\ At(r, "swap", {"jwt"}) /\ Goto(r, "relook")
        /\ UNCHANGED <<chain, world, loop, now, revoked, blurred, moved>>
    BY DEF SwapKeys
  <1>. DEFINE set == req[r].set
  <1>1. cache' = [cache EXCEPT !.keys = set]
    BY DEF SwapKeys
  <1>2. set \in SUBSET Creds /\ cache \in Cache
    BY DEF TypeOK, Request
  <1>. HIDE DEF set
  <1>3. /\ cache' \in Cache /\ cache'.keys = set
        /\ cache'.tokens = cache.tokens /\ cache'.skipped = cache.skipped /\ cache'.dirMod = cache.dirMod
        /\ cache'.secret = cache.secret /\ cache'.mtime = cache.mtime
        /\ cache'.expires = cache.expires
    BY <1>1, <1>2 DEF Cache
  <1>. QED
    BY <1>0, <1>3, GotoEffect DEF set, Steps

LEMMA FindKeyAgainEffect ==
    ASSUME TypeOK, NEW r \in Requests, FindKeyAgain(r)
    PROVE  /\ At(r, "relook", {"jwt"}) /\ OnlyReq
           /\ Accepts(r) \/ (PassesOn(r) /\ Cred(r) \notin cache.keys)
  <1>0. At(r, "relook", {"jwt"}) /\ OnlyReq
    BY DEF FindKeyAgain
  <1>1. CASE Cred(r) \in cache.keys
    <2>1. Verdict(r, TRUE)
      BY <1>1 DEF FindKeyAgain, Verdict, Answer
    <2>. QED
      BY <1>0, <2>1, VerdictEffect
  <1>2. CASE Cred(r) \notin cache.keys
    <2>1. Verdict(r, FALSE)
      BY <1>2 DEF FindKeyAgain, Verdict, Answer
    <2>. QED
      BY <1>0, <1>2, <2>1, VerdictEffect
  <1>. QED
    BY <1>1, <1>2

LEMMA LoopSwapEffect ==
    ASSUME TypeOK, LoopSwap
    PROVE  /\ loop # {} /\ loop' = {}
           /\ UNCHANGED <<chain, world, req, now, revoked, blurred, moved>>
           /\ cache' \in Cache /\ cache'.keys = loop
           /\ cache'.tokens = cache.tokens /\ cache'.skipped = cache.skipped /\ cache'.dirMod = cache.dirMod
           /\ cache'.secret = cache.secret /\ cache'.mtime = cache.mtime
           /\ cache'.expires = cache.expires
  BY DEF LoopSwap, TypeOK, Cache

LEMMA CheckAnswerEffect ==
    ASSUME TypeOK, NEW r \in Requests, CheckAnswer(r)
    PROVE  /\ At(r, "chain", {"callout"}) /\ Cred(r) # None /\ OnlyReq
           /\ \/ Accepts(r) /\ now < cache.expires[Cred(r)]
              \/ Reaches(r, "call") /\ req'[r].since = now
  <1>0. At(r, "chain", {"callout"}) /\ Cred(r) # None /\ OnlyReq
    BY DEF CheckAnswer, Presented
  <1>1. CASE now < cache.expires[Cred(r)]
    <2>1. Verdict(r, TRUE)
      BY <1>1 DEF CheckAnswer
    <2>. QED
      BY <1>0, <1>1, <2>1, VerdictEffect
  <1>2. CASE ~(now < cache.expires[Cred(r)])
    <2>1. req' = [req EXCEPT ![r] = [req[r] EXCEPT !.at = "call", !.since = now]]
      BY <1>2 DEF CheckAnswer, TypeOK
    <2>2. now \in Nat /\ "call" \in Steps
      BY DEF TypeOK, Steps
    <2>3. Reaches(r, "call") /\ req'[r].since = now
      BY <2>1, <2>2, EditSince
    <2>. QED
      BY <1>0, <2>3
  <1>. QED
    BY <1>1, <1>2

LEMMA CalloutEffect ==
    ASSUME TypeOK, NEW r \in Requests, Callout(r)
    PROVE  /\ At(r, "call", {"callout"}) /\ OnlyReq
           /\ \/ /\ Cred(r) \in world.live /\ Reaches(r, "answer")
                 /\ req'[r].since = req[r].since
              \/ PassesOn(r) /\ Cred(r) \notin world.live
              \/ PassesOn(r) /\ Consulted(r) \in req'[r].failed
  <1>0. At(r, "call", {"callout"}) /\ OnlyReq
    BY DEF Callout
  <1>1. CASE Cred(r) \in world.live /\ Goto(r, "answer")
    BY <1>0, <1>1, GotoEffect DEF Steps
  <1>2. CASE Cred(r) \notin world.live /\ Verdict(r, FALSE)
    BY <1>0, <1>2, VerdictEffect
  <1>3. CASE Answer(r, FALSE, Failed(r))
    BY <1>0, <1>3, FailedEffect, Names6 DEF At
  <1>. QED
    BY <1>1, <1>2, <1>3 DEF Callout

LEMMA StoreAnswerEffect ==
    ASSUME TypeOK, NEW r \in Requests, StoreAnswer(r), Cred(r) \in Creds
    PROVE  /\ At(r, "answer", {"callout"}) /\ Accepts(r)
           /\ UNCHANGED <<chain, world, loop, now, revoked, blurred, moved>>
           /\ cache' \in Cache /\ cache'.keys = cache.keys
           /\ cache'.tokens = cache.tokens /\ cache'.skipped = cache.skipped /\ cache'.dirMod = cache.dirMod
           /\ cache'.secret = cache.secret /\ cache'.mtime = cache.mtime
           /\ cache'.expires[Cred(r)] <= now + CacheTTL
           /\ \A c \in Creds \ {Cred(r)} : cache'.expires[c] = cache.expires[c]
  <1>0. /\ At(r, "answer", {"callout"}) /\ Verdict(r, TRUE)
        /\ UNCHANGED <<chain, world, loop, now, revoked, blurred, moved>>
    BY DEF StoreAnswer
  <1>1. PICK ttl \in {0, 1} :
          cache' = [cache EXCEPT !.expires[Cred(r)] = now + Effective(ttl)]
    BY DEF StoreAnswer
  <1>. DEFINE t == now + Effective(ttl)
              e == [cache.expires EXCEPT ![Cred(r)] = t]
  <1>2. t \in Nat /\ t <= now + CacheTTL
    BY TTLType DEF TypeOK, Effective
  <1>. HIDE DEF t
  <1>3. e \in [Creds -> Nat] /\ e[Cred(r)] = t
        /\ \A c \in Creds \ {Cred(r)} : e[c] = cache.expires[c]
    BY <1>2 DEF TypeOK, Cache
  <1>4. cache' = [cache EXCEPT !.expires = e] /\ cache \in Cache
    BY <1>1 DEF t, TypeOK, Cache
  <1>. HIDE DEF e
  <1>5. /\ cache' \in Cache /\ cache'.keys = cache.keys /\ cache'.expires = e
        /\ cache'.tokens = cache.tokens /\ cache'.skipped = cache.skipped /\ cache'.dirMod = cache.dirMod
        /\ cache'.secret = cache.secret /\ cache'.mtime = cache.mtime
    BY <1>3, <1>4 DEF Cache
  <1>. QED
    BY <1>0, <1>2, <1>3, <1>5, VerdictEffect
-----------------------------------------------------------------------------
(***************************************************************************)
(* What the steps of the world do to it.                                   *)
(***************************************************************************)
LEMMA OverwriteEffect ==
    ASSUME TypeOK, OverwriteFile
    PROVE  /\ world' \in World
           /\ \A e \in Dirs : /\ world'.dir[e].mtime = world.dir[e].mtime
                              /\ world'.dir[e].present = world.dir[e].present
           /\ world'.secret = world.secret /\ world'.mtime = world.mtime
           /\ world'.published = world.published /\ world'.live = world.live
           /\ blurred'
           /\ UNCHANGED <<chain, cache, req, loop, now, revoked, moved>>
  <1>1. PICK d \in Dirs, f \in Files, c \in Creds :
          Installed(d) /\ Changed([world EXCEPT !.dir[d].files[f] = c])
    BY DEF OverwriteFile
  <1>. DEFINE g == [world.dir[d].files EXCEPT ![f] = c]
              x == [world.dir[d] EXCEPT !.files = g]
              w == [world EXCEPT !.dir = [world.dir EXCEPT ![d] = x]]
  <1>0. world \in World /\ world.dir \in [Dirs -> Directory] /\ world.dir[d] \in Directory
    BY DEF TypeOK, World
  <1>2. g \in [Files -> Creds \cup {None}]
    BY <1>0 DEF Directory
  <1>3. Changed(w)
    BY <1>0, <1>1 DEF World, Directory
  <1>. HIDE DEF g
  <1>4. x \in Directory /\ x.mtime = world.dir[d].mtime /\ x.present = world.dir[d].present
    BY <1>0, <1>2 DEF Directory
  <1>. HIDE DEF x
  <1>5. [world.dir EXCEPT ![d] = x] \in [Dirs -> Directory]
    BY <1>0, <1>4
  <1>6. /\ w \in World /\ w.changes = world.changes
        /\ w.dir = [world.dir EXCEPT ![d] = x] /\ w.secret = world.secret /\ w.mtime = world.mtime
        /\ w.published = world.published /\ w.live = world.live
    BY <1>0, <1>5 DEF World
  <1>. HIDE DEF w
  <1>7. /\ world' \in World
        /\ world'.dir = w.dir /\ world'.secret = w.secret /\ world'.mtime = w.mtime
        /\ world'.published = w.published /\ world'.live = w.live
        /\ UNCHANGED <<chain, cache, req, loop, now>>
    BY <1>1, <1>3, <1>6, ChangedEffect
  <1>8. blurred' /\ UNCHANGED <<revoked, moved>>
    BY DEF OverwriteFile
  <1>. QED
    BY <1>0, <1>4, <1>6, <1>7, <1>8

LEMMA HideEffect ==
    ASSUME TypeOK, HideDirectory
    PROVE  /\ world' \in World
           /\ \A e \in Dirs : /\ world'.dir[e].mtime = world.dir[e].mtime
                              /\ world'.dir[e].files = world.dir[e].files
           /\ world'.secret = world.secret /\ world'.mtime = world.mtime
           /\ world'.published = world.published /\ world'.live = world.live
           /\ UNCHANGED <<chain, cache, req, loop, now, revoked, blurred, moved>>
  <1>1. PICK d \in Dirs : Installed(d) /\ Changed([world EXCEPT !.dir[d].present = ~@])
    BY DEF HideDirectory
  <1>0. world \in World /\ world.dir \in [Dirs -> Directory] /\ world.dir[d] \in Directory
    BY DEF TypeOK, World
  <1>. DEFINE x == [world.dir[d] EXCEPT !.present = ~world.dir[d].present]
              w == [world EXCEPT !.dir = [world.dir EXCEPT ![d] = x]]
  <1>3. Changed(w)
    BY <1>0, <1>1 DEF World, Directory
  <1>4. x \in Directory /\ x.mtime = world.dir[d].mtime /\ x.files = world.dir[d].files
    BY <1>0 DEF Directory
  <1>. HIDE DEF x
  <1>5. [world.dir EXCEPT ![d] = x] \in [Dirs -> Directory]
    BY <1>0, <1>4
  <1>6. /\ w \in World /\ w.changes = world.changes
        /\ w.dir = [world.dir EXCEPT ![d] = x] /\ w.secret = world.secret /\ w.mtime = world.mtime
        /\ w.published = world.published /\ w.live = world.live
    BY <1>0, <1>5 DEF World
  <1>. HIDE DEF w
  <1>7. /\ world' \in World
        /\ world'.dir = w.dir /\ world'.secret = w.secret /\ world'.mtime = w.mtime
        /\ world'.published = w.published /\ world'.live = w.live
        /\ UNCHANGED <<chain, cache, req, loop, now>>
    BY <1>1, <1>3, <1>6, ChangedEffect
  <1>8. UNCHANGED <<revoked, blurred, moved>>
    BY DEF HideDirectory
  <1>. QED
    BY <1>0, <1>4, <1>6, <1>7, <1>8

LEMMA PutSecretEffect ==
    ASSUME TypeOK, PutSecret
    PROVE  /\ world' \in World
           /\ world'.dir = world.dir /\ world'.mtime = world.mtime + 1
           /\ world'.published = world.published /\ world'.live = world.live
           /\ UNCHANGED <<chain, cache, req, loop, now, revoked, blurred, moved>>
  <1>1. PICK c \in Creds \cup {None} :
          Installed("hmac") /\ Changed([world EXCEPT !.secret = c, !.mtime = @ + 1])
    BY DEF PutSecret
  <1>0. world \in World
    BY DEF TypeOK
  <1>. DEFINE m == world.mtime + 1
              w == [world EXCEPT !.secret = c, !.mtime = m]
  <1>5. m \in Nat
    BY <1>0 DEF World
  <1>3. Changed(w)
    BY <1>0, <1>1 DEF World
  <1>. HIDE DEF m
  <1>2. /\ w \in World /\ w.changes = world.changes /\ w.dir = world.dir
        /\ w.mtime = m /\ w.published = world.published /\ w.live = world.live
    BY <1>0, <1>5 DEF World
  <1>. HIDE DEF w
  <1>4. UNCHANGED <<revoked, blurred, moved>>
    BY DEF PutSecret
  <1>. QED
    BY <1>1, <1>2, <1>3, <1>4, ChangedEffect DEF m

LEMMA RotateEffect ==
    ASSUME TypeOK, RotateKeys
    PROVE  /\ world' \in World
           /\ world'.dir = world.dir /\ world'.secret = world.secret /\ world'.mtime = world.mtime
           /\ world'.live = world.live
           /\ UNCHANGED <<chain, cache, req, loop, now, revoked, blurred, moved>>
  <1>1. PICK keys \in SUBSET Creds : Installed("jwt") /\ Changed([world EXCEPT !.published = keys])
    BY DEF RotateKeys
  <1>0. world \in World
    BY DEF TypeOK
  <1>. DEFINE w == [world EXCEPT !.published = keys]
  <1>2. /\ w \in World /\ w.changes = world.changes /\ w.dir = world.dir
        /\ w.secret = world.secret /\ w.mtime = world.mtime /\ w.live = world.live
    BY <1>0 DEF World
  <1>3. Changed(w)
    BY <1>1
  <1>. HIDE DEF w
  <1>4. UNCHANGED <<revoked, blurred, moved>>
    BY DEF RotateKeys
  <1>. QED
    BY <1>1, <1>2, <1>3, <1>4, ChangedEffect

LEMMA RevokeEffect ==
    ASSUME TypeOK, Revoke
    PROVE  /\ world' \in World
           /\ world'.dir = world.dir /\ world'.secret = world.secret /\ world'.mtime = world.mtime
           /\ world'.published = world.published
           /\ revoked' \in [Creds -> 0..MaxTime]
           /\ \E c \in world.live : /\ world'.live = world.live \ {c}
                                    /\ revoked' = [revoked EXCEPT ![c] = now]
           /\ UNCHANGED <<chain, cache, req, loop, now, blurred, moved>>
  <1>1. PICK c \in world.live :
          /\ Installed("callout") /\ Changed([world EXCEPT !.live = @ \ {c}])
          /\ revoked' = [revoked EXCEPT ![c] = now] /\ UNCHANGED <<blurred, moved>>
    BY DEF Revoke
  <1>0. world \in World
    BY DEF TypeOK
  <1>. DEFINE l == world.live \ {c}
              w == [world EXCEPT !.live = l]
  <1>5. l \in SUBSET Creds
    BY <1>0 DEF World
  <1>3. Changed(w)
    BY <1>1
  <1>. HIDE DEF l
  <1>2. /\ w \in World /\ w.changes = world.changes /\ w.dir = world.dir
        /\ w.secret = world.secret /\ w.mtime = world.mtime /\ w.published = world.published
        /\ w.live = l
    BY <1>0, <1>5 DEF World
  <1>. HIDE DEF w
  <1>4. revoked' \in [Creds -> 0..MaxTime]
    <2>1. c \in Creds /\ now \in 0..MaxTime /\ revoked \in [Creds -> 0..MaxTime]
      BY <1>0, VerifiersAssumption DEF TypeOK, World
    <2>. QED
      BY <1>1, <2>1
  <1>. QED
    BY <1>1, <1>2, <1>3, <1>4, ChangedEffect DEF l

-----------------------------------------------------------------------------
(***************************************************************************)
(* The history of a request.                                               *)
(***************************************************************************)
LEMMA SaysTwo ==
    ASSUME NEW w, NEW v \in VerifierNames, NEW c
    PROVE  Says(w, v, c) \subseteq BOOLEAN
  BY Names6 DEF Says

LEMMA HeldType ==
    ASSUME TypeOK, Remember
    PROVE  held' \in [Requests -> [VerifierNames -> SUBSET BOOLEAN]]
  <1>. DEFINE h(r, v) == IF req'[r].creds[v] = None THEN {}
                         ELSE IF ~Running(r) /\ req'[r].at = req[r].at THEN held[r][v]
                         ELSE (IF Running(r) THEN held[r][v] ELSE {})
                              \cup Says(world', v, req'[r].creds[v])
  <1>1. ASSUME NEW r \in Requests, NEW v \in VerifierNames PROVE h(r, v) \in SUBSET BOOLEAN
    BY SaysTwo DEF TypeOK
  <1>2. held' = [r \in Requests |-> [v \in VerifierNames |-> h(r, v)]]
    BY DEF Remember
  <1>. HIDE DEF h
  <1>. QED
    BY <1>1, <1>2

\* What was held of a credential stays held, for a request that goes on and for
\* one that has ended.
LEMMA Kept ==
    ASSUME TypeOK, Remember, NEW r \in Requests, NEW v \in VerifierNames,
           req'[r].creds = req[r].creds, req[r].creds[v] # None,
           Running(r) \/ req'[r].at = req[r].at
    PROVE  held[r][v] \subseteq held'[r][v]
  BY DEF Remember

\* What the world says at the end of a step is held for whoever runs before or after it.
LEMMA Heard ==
    ASSUME TypeOK, Remember, NEW r \in Requests, NEW v \in VerifierNames,
           req'[r].creds[v] # None, Running(r) \/ Running(r)'
    PROVE  Says(world', v, req'[r].creds[v]) \subseteq held'[r][v]
  <1>1. Running(r) \/ req'[r].at # req[r].at
    BY DEF Running
  <1>. QED
    BY <1>1 DEF Remember

\* A directory that holds the credential, or cannot be read, says yes, and so on.
LEMMA SaysDir ==
    ASSUME NEW w, NEW d \in Dirs, NEW c
    PROVE  /\ c \in Range(w.dir[d].files) \/ ~w.dir[d].present => TRUE \in Says(w, d, c)
           /\ c \notin Range(w.dir[d].files) \/ ~w.dir[d].present => FALSE \in Says(w, d, c)
  BY DEF Says

LEMMA SaysOther ==
    ASSUME NEW w, NEW c
    PROVE  /\ c = w.secret => TRUE \in Says(w, "hmac", c)
           /\ c # w.secret => FALSE \in Says(w, "hmac", c)
           /\ c \in w.published => TRUE \in Says(w, "jwt", c)
           /\ c \notin w.published => FALSE \in Says(w, "jwt", c)
           /\ c \in w.live => TRUE \in Says(w, "callout", c)
           /\ c \notin w.live => FALSE \in Says(w, "callout", c)
  BY Names6 DEF Says

-----------------------------------------------------------------------------
(***************************************************************************)
(* What every step of a request leaves alone.                              *)
(***************************************************************************)
\* The reload of a directory, the secret, the keys and the sessions.
DirStep(q) ==
    \/ StatBearer(q) \/ StatOpaque(q) \/ CompareTime(q) \/ ListFiles(q) \/ StatListed(q)
    \/ ReadFiles(q) \/ StoreTokens(q) \/ LookupBearer(q) \/ LookupOpaque(q)
SecretStep(q) ==
    StatSecret(q) \/ CompareSecret(q) \/ ReadSecret(q) \/ StoreSecret(q) \/ CheckSignature(q)
KeyStep(q) == FindKey(q) \/ FetchKeys(q) \/ SwapKeys(q) \/ FindKeyAgain(q)
CallStep(q) == CheckAnswer(q) \/ Callout(q) \/ StoreAnswer(q)

LEMMA CheckCases ==
    ASSUME NEW q \in Requests, Check(q)
    PROVE  Arrive(q) \/ PassOver(q) \/ DirStep(q) \/ SecretStep(q) \/ KeyStep(q) \/ CallStep(q)
  BY ZenonT(30) DEF Check, DirStep, SecretStep, KeyStep, CallStep

\* A step of q belongs to vs: what it reaches inside a verifier is one of these.
Inside(q, vs, steps) ==
    /\ Running(q) /\ Cred(q) # None /\ Consulted(q) \in vs /\ Moves(q)
    /\ Accepts(q) \/ PassesOn(q) \/ \E step \in steps : Reaches(q, step)
Frame == UNCHANGED <<chain, world, loop, now, revoked, moved>> /\ (blurred => blurred')
SameDirs == cache'.tokens = cache.tokens /\ cache'.skipped = cache.skipped /\ cache'.dirMod = cache.dirMod
SameSecret == cache'.secret = cache.secret /\ cache'.mtime = cache.mtime
SameKeys == cache'.keys = cache.keys
SameSessions == cache'.expires = cache.expires

LEMMA DirShape ==
    ASSUME TypeOK, Places, NEW q \in Requests, DirStep(q)
    PROVE  /\ Inside(q, Dirs, {"compare", "list", "stat", "read", "store", "lookup"})
           /\ Frame /\ SameSecret /\ SameKeys /\ SameSessions /\ cache' \in Cache
           /\ blurred' \in BOOLEAN
  <1>0. cache \in Cache /\ blurred \in BOOLEAN
    BY DEF TypeOK
  <1>. USE DEF Inside, Frame, SameSecret, SameKeys, SameSessions, At, Running, Places, Place, Reaches, OnlyReq,
               Accepts, PassesOn
  <1>1. CASE StatBearer(q) \/ StatOpaque(q)
    <2>1. PICK d \in Dirs : StatToken(q, d)
      BY <1>1 DEF StatBearer, StatOpaque, Dirs
    <2>. QED
      BY <1>0, <2>1, StatTokenEffect
  <1>2. CASE CompareTime(q)
    BY <1>0, <1>2, CompareTimeEffect
  <1>3. CASE ListFiles(q)
    BY <1>0, <1>3, ListFilesEffect
  <1>4. CASE StatListed(q)
    <2>1. blurred' \in BOOLEAN
      BY <1>0, <1>4 DEF StatListed
    <2>. QED
      BY <1>0, <1>4, <2>1, StatListedEffect
  <1>5. CASE ReadFiles(q)
    BY <1>0, <1>5, ReadFilesEffect
  <1>6. CASE StoreTokens(q)
    BY <1>0, <1>6, StoreTokensEffect
  <1>7. CASE LookupBearer(q) \/ LookupOpaque(q)
    BY <1>0, <1>7, LookupEffect
  <1>. QED
    BY <1>1, <1>2, <1>3, <1>4, <1>5, <1>6, <1>7 DEF DirStep

LEMMA SecretShape ==
    ASSUME TypeOK, Places, SecretCache, SecretLoad, NEW q \in Requests, SecretStep(q)
    PROVE  /\ Inside(q, {"hmac"}, {"compare", "read", "store", "body"})
           /\ Frame /\ blurred' = blurred /\ SameDirs /\ SameKeys /\ SameSessions /\ cache' \in Cache
  <1>0. cache \in Cache
    BY DEF TypeOK
  <1>. USE DEF Inside, Frame, SameDirs, SameKeys, SameSessions, At, Running, Places, Place, Reaches, OnlyReq,
               Accepts, PassesOn
  <1>1. CASE StatSecret(q)
    BY <1>0, <1>1, StatSecretEffect
  <1>2. CASE CompareSecret(q)
    <2>1. cache.mtime = req[q].mtime => cache.secret \in Creds
      BY <1>2, Names6 DEF SecretCache, SecretLoad, CompareSecret, TypeOK, World
    <2>. QED
      BY <1>0, <1>2, <2>1, CompareSecretEffect
  <1>3. CASE ReadSecret(q)
    BY <1>0, <1>3, ReadSecretEffect
  <1>4. CASE StoreSecret(q)
    <2>1. PICK s \in Creds : req[q].set = {s}
      BY <1>4 DEF SecretLoad, StoreSecret
    <2>. QED
      BY <1>0, <1>4, <2>1, StoreSecretEffect
  <1>5. CASE CheckSignature(q)
    BY <1>0, <1>5, CheckSignatureEffect
  <1>. QED
    BY <1>1, <1>2, <1>3, <1>4, <1>5 DEF SecretStep

LEMMA KeyShape ==
    ASSUME TypeOK, Places, NEW q \in Requests, KeyStep(q)
    PROVE  /\ Inside(q, {"jwt"}, {"fetch", "swap", "relook"})
           /\ Frame /\ blurred' = blurred /\ SameDirs /\ SameSecret /\ SameSessions /\ cache' \in Cache
  <1>0. cache \in Cache
    BY DEF TypeOK
  <1>. USE DEF Inside, Frame, SameDirs, SameSecret, SameSessions, At, Running, Places, Place, Reaches, OnlyReq,
               Accepts, PassesOn
  <1>1. CASE FindKey(q)
    BY <1>0, <1>1, FindKeyEffect
  <1>2. CASE FetchKeys(q)
    BY <1>0, <1>2, FetchKeysEffect
  <1>3. CASE SwapKeys(q)
    BY <1>0, <1>3, SwapKeysEffect
  <1>4. CASE FindKeyAgain(q)
    BY <1>0, <1>4, FindKeyAgainEffect
  <1>. QED
    BY <1>1, <1>2, <1>3, <1>4 DEF KeyStep

LEMMA CredType ==
    ASSUME TypeOK, Places, NEW q \in Requests, Running(q) \/ req[q].at = "accepted"
    PROVE  /\ req[q].i \in 1..Len(chain) /\ Len(chain) \in Nat
           /\ Consulted(q) \in VerifierNames /\ Cred(q) \in Creds \cup {None}
  <1>1. req[q].i \in 1..Len(chain) /\ Consulted(q) \in VerifierNames
    BY ChainType DEF Places, Place, Consulted
  <1>2. req[q].creds \in [VerifierNames -> Creds \cup {None}]
    BY DEF TypeOK, Request
  <1>. QED
    BY <1>1, <1>2, ChainType DEF Cred

LEMMA CallShape ==
    ASSUME TypeOK, Places, NEW q \in Requests, CallStep(q)
    PROVE  /\ Inside(q, {"callout"}, {"call", "answer"}) /\ Cred(q) \in Creds
           /\ Frame /\ blurred' = blurred /\ SameDirs /\ SameSecret /\ SameKeys /\ cache' \in Cache
  <1>0. cache \in Cache
    BY DEF TypeOK
  <1>1. Running(q) /\ Cred(q) # None
    BY CheckAnswerEffect, CalloutEffect DEF CallStep, StoreAnswer, At, Running, Places, Place
  <1>2. Cred(q) \in Creds
    BY <1>1, CredType
  <1>. USE DEF Inside, Frame, SameDirs, SameSecret, SameKeys, At, Reaches, OnlyReq,
               Accepts, PassesOn
  <1>3. CASE CheckAnswer(q)
    BY <1>0, <1>1, <1>2, <1>3, CheckAnswerEffect
  <1>4. CASE Callout(q)
    BY <1>0, <1>1, <1>2, <1>4, CalloutEffect
  <1>5. CASE StoreAnswer(q)
    BY <1>0, <1>1, <1>2, <1>5, StoreAnswerEffect
  <1>. QED
    BY <1>3, <1>4, <1>5 DEF CallStep

LEMMA ArriveShape ==
    ASSUME TypeOK, NEW q \in Requests, Arrive(q)
    PROVE  /\ Frame /\ blurred' = blurred /\ SameDirs /\ SameSecret /\ SameKeys /\ SameSessions
           /\ cache' \in Cache
           /\ req'[q].at = "chain" /\ req'[q].i = 1 /\ 1 \in 1..Len(chain)
           /\ ~Running(q) /\ Running(q)' /\ req' \in [Requests -> Request]
           /\ \A s \in Requests \ {q} : req'[s] = req[s]
  BY ArriveEffect DEF Frame, SameDirs, SameSecret, SameKeys, SameSessions, OnlyReq, TypeOK, Running

LEMMA PassOverShape ==
    ASSUME TypeOK, NEW q \in Requests, PassOver(q)
    PROVE  /\ Frame /\ blurred' = blurred /\ SameDirs /\ SameSecret /\ SameKeys /\ SameSessions
           /\ cache' \in Cache /\ Running(q) /\ PassesOn(q) /\ Moves(q)
  BY PassOverEffect DEF Frame, SameDirs, SameSecret, SameKeys, SameSessions, OnlyReq, TypeOK, Running,
     PassesOn

\* What every step of a request leaves alone.
LEMMA CheckFrame ==
    ASSUME TypeOK, Places, SecretCache, SecretLoad, NEW q \in Requests, Check(q)
    PROVE  /\ Frame /\ blurred' \in BOOLEAN /\ cache' \in Cache
           /\ req' \in [Requests -> Request]
           /\ \A s \in Requests \ {q} : req'[s] = req[s]
           /\ Arrive(q) \/ (Running(q) /\ Moves(q))
  <1>0. blurred \in BOOLEAN
    BY DEF TypeOK
  <1>. USE DEF Inside, Moves
  <1>1. CASE Arrive(q)
    BY <1>0, <1>1, ArriveShape
  <1>2. CASE PassOver(q)
    BY <1>0, <1>2, PassOverShape
  <1>3. CASE DirStep(q)
    BY <1>0, <1>3, DirShape
  <1>4. CASE SecretStep(q)
    BY <1>0, <1>4, SecretShape
  <1>5. CASE KeyStep(q)
    BY <1>0, <1>5, KeyShape
  <1>6. CASE CallStep(q)
    BY <1>0, <1>6, CallShape
  <1>. QED
    BY <1>1, <1>2, <1>3, <1>4, <1>5, <1>6, CheckCases
-----------------------------------------------------------------------------
(***************************************************************************)
(* The steps of the world, and the types.                                  *)
(***************************************************************************)
LEMMA PutFileShape ==
    ASSUME TypeOK, PutFile
    PROVE  \E d \in Dirs, f \in Files, c \in Creds \cup {None} :
              /\ world' \in World
              /\ \A e \in Dirs \ {d} : world'.dir[e] = world.dir[e]
              /\ world'.dir[d].files = [world.dir[d].files EXCEPT ![f] = c]
              /\ world'.dir[d].mtime = world.dir[d].mtime + 1
              /\ world'.dir[d].present = world.dir[d].present
              /\ world'.secret = world.secret /\ world'.mtime = world.mtime
              /\ world'.published = world.published /\ world'.live = world.live
              /\ moved' = (moved \/ c \in Tokens(d))
              /\ UNCHANGED <<chain, cache, req, loop, now, revoked, blurred>>
  <1>1. PICK d \in Dirs, f \in Files, c \in Creds \cup {None} :
          /\ Installed(d)
          /\ Changed([world EXCEPT !.dir[d].files[f] = c, !.dir[d].mtime = @ + 1])
          /\ moved' = (moved \/ c \in Tokens(d))
          /\ UNCHANGED <<revoked, blurred>>
    BY ZenonT(30) DEF PutFile
  <1>2. /\ world' \in World
        /\ \A e \in Dirs \ {d} : world'.dir[e] = world.dir[e]
        /\ world'.dir[d].files = [world.dir[d].files EXCEPT ![f] = c]
        /\ world'.dir[d].mtime = world.dir[d].mtime + 1
        /\ world'.dir[d].present = world.dir[d].present
        /\ world'.secret = world.secret /\ world'.mtime = world.mtime
        /\ world'.published = world.published /\ world'.live = world.live
        /\ UNCHANGED <<chain, cache, req, loop, now>>
    BY <1>1, PutFileEffect
  <1>. QED
    BY <1>1, <1>2, ZenonT(30)

LEMMA ChangeFrame ==
    ASSUME TypeOK, Change
    PROVE  /\ world' \in World /\ revoked' \in [Creds -> 0..MaxTime] /\ {blurred', moved'} \subseteq BOOLEAN
           /\ UNCHANGED <<chain, cache, req, loop, now>>
           /\ (blurred => blurred') /\ (moved => moved')
  <1>0. revoked \in [Creds -> 0..MaxTime] /\ {blurred, moved} \subseteq BOOLEAN
    BY DEF TypeOK
  <1>1. CASE PutFile
    <2>1. PICK d \in Dirs, c \in Creds \cup {None} : moved' = (moved \/ c \in Tokens(d))
      BY <1>1, PutFileShape
    <2>2. moved' \in BOOLEAN /\ (moved => moved')
      BY <2>1, Zenon
    <2>3. /\ world' \in World
          /\ UNCHANGED <<chain, cache, req, loop, now, revoked, blurred>>
      BY <1>1, PutFileShape
    <2>. QED
      BY <1>0, <2>2, <2>3
  <1>2. CASE OverwriteFile
    <2>1. blurred' = TRUE
      BY <1>2 DEF OverwriteFile
    <2>. QED
      BY <1>0, <1>2, <2>1, OverwriteEffect
  <1>3. CASE HideDirectory
    BY <1>0, <1>3, HideEffect
  <1>4. CASE PutSecret
    BY <1>0, <1>4, PutSecretEffect
  <1>5. CASE RotateKeys
    BY <1>0, <1>5, RotateEffect
  <1>6. CASE Revoke
    BY <1>0, <1>6, RevokeEffect
  <1>. QED
    BY <1>1, <1>2, <1>3, <1>4, <1>5, <1>6 DEF Change

LEMMA NextCases ==
    ASSUME Next
    PROVE  Remember /\ (Change \/ (\E q \in Requests : Check(q)) \/ LoopFetch \/ LoopSwap \/ Tick)
  BY DEF Next

LEMMA TypeStep ==
    ASSUME TypeOK, Places, SecretCache, SecretLoad, Next
    PROVE  TypeOK'
  <1>0. /\ chain \in Chains /\ world \in World /\ cache \in Cache /\ req \in [Requests -> Request]
        /\ loop \in SUBSET Creds /\ now \in 1..MaxTime
        /\ revoked \in [Creds -> 0..MaxTime] /\ {blurred, moved} \subseteq BOOLEAN
    BY DEF TypeOK
  <1>1. held' \in [Requests -> [VerifierNames -> SUBSET BOOLEAN]]
    BY NextCases, HeldType
  <1>2. CASE Change
    BY <1>0, <1>1, <1>2, ChangeFrame DEF TypeOK
  <1>3. ASSUME NEW q \in Requests, Check(q) PROVE TypeOK'
    BY <1>0, <1>1, <1>3, CheckFrame DEF TypeOK, Frame
  <1>4. CASE LoopFetch
    BY <1>0, <1>1, <1>4 DEF TypeOK, LoopFetch, World
  <1>5. CASE LoopSwap
    BY <1>0, <1>1, <1>5, LoopSwapEffect DEF TypeOK
  <1>6. CASE Tick
    BY <1>0, <1>1, <1>6, VerifiersAssumption DEF TypeOK, Tick
  <1>. QED
    BY <1>2, <1>3, <1>4, <1>5, <1>6, NextCases

-----------------------------------------------------------------------------
(***************************************************************************)
(* What a step leaves of a request of which the properties speak.          *)
(***************************************************************************)
Core == TypeOK /\ Places /\ SecretCache /\ SecretLoad

\* No step but an arrival makes a request run, and a running request keeps what
\* it arrived with.
LEMMA RequestFrame ==
    ASSUME Core, Next, NEW r \in Requests
    PROVE  /\ req'[r] = req[r] \/ Arrive(r) \/ (Running(r) /\ Moves(r))
           /\ chain' = chain /\ (blurred => blurred') /\ (moved => moved')
           /\ TypeOK'
  <1>0. TypeOK'
    BY TypeStep DEF Core
  <1>1. CASE Change
    BY <1>0, <1>1, ChangeFrame DEF Core
  <1>2. ASSUME NEW q \in Requests, Check(q)
        PROVE  /\ req'[r] = req[r] \/ Arrive(r) \/ (Running(r) /\ Moves(r))
               /\ chain' = chain /\ (blurred => blurred') /\ (moved => moved')
    BY <1>2, CheckFrame DEF Core, Frame
  <1>3. CASE LoopFetch \/ LoopSwap \/ Tick
    BY <1>0, <1>3 DEF LoopFetch, LoopSwap, Tick
  <1>4. Change \/ (\E q \in Requests : Check(q)) \/ LoopFetch \/ LoopSwap \/ Tick
    BY NextCases
  <1>. QED
    BY <1>0, <1>1, <1>2, <1>3, <1>4

LEMMA NextFrame ==
    ASSUME Core, Next
    PROVE  TypeOK /\ TypeOK' /\ chain' = chain /\ (blurred => blurred') /\ (moved => moved')
  <1>0. TypeOK /\ TypeOK'
    BY TypeStep DEF Core
  <1>1. CASE Change
    BY <1>0, <1>1, ChangeFrame
  <1>2. CASE \E q \in Requests : Check(q)
    BY <1>0, <1>2, CheckFrame DEF Core, Frame
  <1>3. CASE LoopFetch \/ LoopSwap \/ Tick
    BY <1>0, <1>3 DEF LoopFetch, LoopSwap, Tick
  <1>. QED
    BY <1>1, <1>2, <1>3, NextCases

LEMMA RequestAlone ==
    ASSUME Core, Next, NEW r \in Requests, ~Check(r)
    PROVE  req'[r] = req[r]
  <1>1. CASE Change
    BY <1>1, ChangeFrame DEF Core
  <1>2. ASSUME NEW q \in Requests, Check(q) PROVE req'[r] = req[r]
    BY <1>2, CheckFrame DEF Core
  <1>3. CASE LoopFetch \/ LoopSwap \/ Tick
    BY <1>3 DEF LoopFetch, LoopSwap, Tick
  <1>. QED
    BY <1>1, <1>2, <1>3, NextCases

LEMMA ClearBefore ==
    ASSUME Core, Next, NEW r \in Requests, NEW v \in VerifierNames, Clear(r, v)', Running(r)
    PROVE  /\ Clear(r, v) /\ req'[r].creds = req[r].creds
           /\ held[r][v] \subseteq held'[r][v]
  <1>1. req'[r] = req[r] \/ Moves(r)
    BY RequestFrame, ArriveEffect DEF Core
  <1>2. /\ req'[r].creds = req[r].creds /\ req'[r].quiet = req[r].quiet
        /\ (blurred => blurred')
    BY <1>1, RequestFrame DEF Moves
  <1>3. Clear(r, v) /\ req[r].creds[v] # None
    BY <1>2 DEF Clear
  <1>4. held[r][v] \subseteq held'[r][v]
    BY <1>2, <1>3, Kept, NextCases DEF Core
  <1>. QED
    BY <1>2, <1>3, <1>4

\* A request that arrived quietly met no load on its way.
LEMMA ClearNew ==
    ASSUME Core, Next, NEW r \in Requests, NEW v \in VerifierNames, Clear(r, v)', ~Running(r)
    PROVE  /\ req'[r].at = "chain"
           /\ v \in Dirs \cup {"jwt"} =>
                 loop' = {} /\ \A q \in Requests : req'[q].at \notin {"list", "stat", "read", "store", "fetch", "swap"}
  <1>1. Arrive(r)
    BY RequestFrame DEF Clear, Running
  <1>2. /\ req'[r].at = "chain" /\ loop' = loop
        /\ req'[r].quiet => loop = {} /\ \A q \in Requests \ {r} : ~Loading(q)
        /\ \A q \in Requests \ {r} : req'[q] = req[q]
    BY <1>1, ArriveEffect DEF Core, OnlyReq
  <1>. QED
    BY <1>2 DEF Clear, Loading

LEMMA KnownKept ==
    ASSUME Core, Next, NEW r \in Requests, NEW v \in VerifierNames, NEW set,
           Running(r) \/ req'[r].at = req[r].at,
           req'[r].creds = req[r].creds, req[r].creds[v] # None, Known(r, v, set)
    PROVE  Known(r, v, set)'
  <1>1. held[r][v] \subseteq held'[r][v]
    BY Kept, NextCases DEF Core
  <1>2. moved => moved'
    BY RequestFrame
  <1>. QED
    BY <1>1, <1>2 DEF Known, Was, WasNot

\* What the world shows at the end of a step is known of a request that runs.
LEMMA KnownDir ==
    ASSUME Core, Next, NEW r \in Requests, NEW d \in Dirs, NEW set,
           Running(r) \/ Running(r)', req'[r].creds[d] # None,
           \/ ~world'.dir[d].present
           \/ req'[r].creds[d] \in set <=> req'[r].creds[d] \in Range(world'.dir[d].files)
    PROVE  Known(r, d, set)'
  <1>1. d \in VerifierNames
    BY DEF VerifierNames
  <1>2. Says(world', d, req'[r].creds[d]) \subseteq held'[r][d]
    BY <1>1, Heard, NextCases DEF Core
  <1>. QED
    BY <1>2, SaysDir DEF Known, Was, WasNot

LEMMA KnownSecret ==
    ASSUME Core, Next, NEW r \in Requests,
           Running(r) \/ Running(r)', req'[r].creds["hmac"] # None
    PROVE  Known(r, "hmac", {world.secret})'
  <1>1. "hmac" \in VerifierNames
    BY Names6
  <1>2. Says(world', "hmac", req'[r].creds["hmac"]) \subseteq held'[r]["hmac"]
    BY <1>1, Heard, NextCases DEF Core
  <1>. QED
    BY <1>2, SaysOther DEF Known, Was, WasNot

-----------------------------------------------------------------------------
(***************************************************************************)
(* The bearer and the opaque verifier.                                     *)
(***************************************************************************)
\* A step that leaves the directories and their caches alone, and reaches no place
\* in a reload.
Elsewhere ==
    /\ UNCHANGED <<blurred, moved>> /\ SameDirs
    /\ world'.dir = world.dir
    /\ \A q \in Requests :
          req'[q] = req[q] \/ ~(At(q, "compare", Dirs) \/ At(q, "read", Dirs) \/ At(q, "store", Dirs)
                                 \/ At(q, "lookup", Dirs))'

LEMMA DirCases ==
    ASSUME Core, Next
    PROVE  \/ PutFile \/ OverwriteFile \/ HideDirectory
           \/ \E q \in Requests : DirStep(q)
           \/ Elsewhere
  <1>. USE DEF Core, Elsewhere, SameDirs
  <1>1. CASE Change
    <2>1. CASE PutSecret
      BY <2>1, PutSecretEffect
    <2>2. CASE RotateKeys
      BY <2>2, RotateEffect
    <2>3. CASE Revoke
      BY <2>3, RevokeEffect
    <2>. QED
      BY <1>1, <2>1, <2>2, <2>3 DEF Change
  <1>2. ASSUME NEW q \in Requests, Check(q), ~DirStep(q) PROVE Elsewhere
    <2>0. /\ \A s \in Requests \ {q} : req'[s] = req[s]
          /\ Frame
      BY <1>2, CheckFrame
    <2>1. CASE Arrive(q)
      BY <2>0, <2>1, ArriveShape DEF At, Frame
    <2>2. CASE PassOver(q)
      BY <2>0, <2>2, PassOverShape DEF At, Frame, PassesOn
    <2>3. CASE SecretStep(q)
      BY <2>0, <2>3, SecretShape, Names6 DEF At, Frame, Inside, Reaches, Accepts, PassesOn, Consulted
    <2>4. CASE KeyStep(q)
      BY <2>0, <2>4, KeyShape, Names6 DEF At, Frame, Inside, Reaches, Accepts, PassesOn, Consulted
    <2>5. CASE CallStep(q)
      BY <2>0, <2>5, CallShape, Names6 DEF At, Frame, Inside, Reaches, Accepts, PassesOn, Consulted
    <2>. QED
      BY <1>2, <2>1, <2>2, <2>3, <2>4, <2>5, CheckCases
  <1>3. CASE LoopFetch \/ Tick
    BY <1>3 DEF LoopFetch, Tick
  <1>4. CASE LoopSwap
    BY <1>4, LoopSwapEffect
  <1>. QED
    BY <1>1, <1>2, <1>3, <1>4, NextCases

LEMMA DirFacts ==
    ASSUME TypeOK, NEW d \in Dirs
    PROVE  /\ world.dir[d].mtime \in Nat /\ world.dir[d].files \in [Files -> Creds \cup {None}]
           /\ cache.dirMod[d] \in Nat /\ d \in VerifierNames
           /\ Range(world.dir[d].files) = {world.dir[d].files[f] : f \in Files}
  <1>1. world.dir[d].mtime \in Nat /\ world.dir[d].files \in [Files -> Creds \cup {None}]
    BY DEF TypeOK, World, Directory
  <1>2. cache.dirMod[d] \in Nat /\ d \in VerifierNames
    BY DEF TypeOK, Cache, VerifierNames
  <1>. QED
    BY <1>1, <1>2 DEF Range

\* The steps of a reload, by what they do to the caches.
LEMMA DirStepCases ==
    ASSUME Core, NEW q \in Requests, DirStep(q)
    PROVE  /\ Consulted(q) \in Dirs /\ Running(q) /\ Frame /\ Moves(q)
           /\ \/ StoreTokens(q)
              \/ cache' = cache /\ (StatListed(q) \/ blurred' = blurred)
  <1>1. Consulted(q) \in Dirs /\ Running(q) /\ Frame /\ Moves(q)
    BY DirShape DEF Core, Inside
  <1>. QED
    BY <1>1, StatTokenEffect, CompareTimeEffect, ListFilesEffect, StatListedEffect, ReadFilesEffect,
       LookupEffect DEF Core, DirStep, OnlyReq, StatBearer, StatOpaque, Dirs

LEMMA DirCacheStep ==
    ASSUME Core, DirCache, DirLoad, Next
    PROVE  DirCache'
  <1>0. TypeOK /\ TypeOK'
    BY NextFrame
  <1>. SUFFICES ASSUME NEW e \in Dirs
                PROVE  /\ cache'.dirMod[e] <= world'.dir[e].mtime
                       /\ ~blurred' /\ cache'.dirMod[e] = world'.dir[e].mtime
                             => Found(e)' = Tokens(e)'
    BY DEF DirCache
  <1>1. /\ cache.dirMod[e] <= world.dir[e].mtime
        /\ ~blurred /\ cache.dirMod[e] = world.dir[e].mtime => Found(e) = Tokens(e)
        /\ cache.dirMod[e] \in Nat /\ world.dir[e].mtime \in Nat
    BY <1>0, DirFacts DEF DirCache
  <1>2. CASE PutFile
    <2>1. PICK d \in Dirs :
             /\ \A b \in Dirs \ {d} : world'.dir[b] = world.dir[b]
             /\ world'.dir[d].mtime = world.dir[d].mtime + 1
             /\ UNCHANGED <<cache, blurred>>
      BY <1>0, <1>2, PutFileShape
    <2>. QED
      BY <1>1, <2>1 DEF Tokens, Found, Loads
  <1>3. CASE OverwriteFile
    BY <1>0, <1>1, <1>3, OverwriteEffect
  <1>4. CASE HideDirectory
    BY <1>0, <1>1, <1>4, HideEffect DEF Tokens, Found, Loads
  <1>5. ASSUME NEW q \in Requests, DirStep(q), ~StoreTokens(q)
        PROVE  /\ cache'.dirMod[e] <= world'.dir[e].mtime
               /\ ~blurred' /\ cache'.dirMod[e] = world'.dir[e].mtime
                             => Found(e)' = Tokens(e)'
    BY <1>1, <1>5, DirStepCases DEF Frame, Tokens, Found, Loads
  <1>6. ASSUME NEW q \in Requests, StoreTokens(q)
        PROVE  /\ cache'.dirMod[e] <= world'.dir[e].mtime
               /\ ~blurred' /\ cache'.dirMod[e] = world'.dir[e].mtime
                             => Found(e)' = Tokens(e)'
    <2>1. /\ At(q, "store", Dirs) /\ UNCHANGED <<world, blurred>>
          /\ \A d \in Dirs : Found(d)' = IF d = Consulted(q) THEN Loads(q) ELSE Found(d)
          /\ cache'.dirMod = [cache.dirMod EXCEPT ![Consulted(q)] = req[q].mtime]
      BY <1>0, <1>6, StoreTokensEffect
    <2>2. CASE e = Consulted(q)
      <3>1. At(q, "store", {e})
        BY <2>1, <2>2 DEF At
      <3>2. /\ req[q].mtime <= world.dir[e].mtime
            /\ ~blurred /\ req[q].mtime = world.dir[e].mtime => Loads(q) = Tokens(e)
        BY <3>1 DEF DirLoad
      <3>3. Found(e)' = Loads(q) /\ cache'.dirMod[e] = req[q].mtime
        BY <1>0, <2>1, <2>2 DEF TypeOK, Cache
      <3>. QED
        BY <2>1, <3>2, <3>3 DEF Tokens
    <2>3. CASE e # Consulted(q)
      <3>3. Found(e)' = Found(e) /\ cache'.dirMod[e] = cache.dirMod[e]
        BY <1>0, <2>1, <2>3 DEF TypeOK, Cache
      <3>. QED
        BY <1>1, <2>1, <3>3 DEF Tokens
    <2>. QED
      BY <2>2, <2>3
  <1>7. CASE Elsewhere
    BY <1>1, <1>7 DEF Elsewhere, SameDirs, Tokens, Found, Loads
  <1>. QED
    BY <1>2, <1>3, <1>4, <1>5, <1>6, <1>7, DirCases

LEMMA DirLoadStep ==
    ASSUME Core, DirLoad, Next
    PROVE  DirLoad'
  <1>0. TypeOK /\ TypeOK' /\ chain' = chain
    BY NextFrame
  <1>. DEFINE Fresh(q, d) ==
                /\ At(q, "compare", {d}) \/ At(q, "read", {d}) \/ At(q, "store", {d})
                      => req[q].mtime <= world.dir[d].mtime
                /\ ~blurred /\ req[q].mtime = world.dir[d].mtime =>
                      /\ At(q, "read", {d}) => req[q].names = Names(d)
                      /\ At(q, "store", {d}) => Loads(q) = Tokens(d)
  <1>. SUFFICES ASSUME NEW r \in Requests, NEW e \in Dirs PROVE Fresh(r, e)'
    BY ZenonT(30) DEF DirLoad
  <1>1. Fresh(r, e) /\ world.dir[e].mtime \in Nat /\ req[r].mtime \in Nat
    BY <1>0, DirFacts DEF DirLoad, TypeOK, Request
  <1>2. CASE PutFile
    <2>1. PICK d \in Dirs :
             /\ \A b \in Dirs \ {d} : world'.dir[b] = world.dir[b]
             /\ world'.dir[d].mtime = world.dir[d].mtime + 1
             /\ UNCHANGED <<req, blurred, chain>>
      BY <1>0, <1>2, PutFileShape
    <2>. QED
      BY <1>1, <2>1 DEF Tokens, Names, At, Consulted, Found, Loads
  <1>3. CASE OverwriteFile
    BY <1>0, <1>1, <1>3, OverwriteEffect DEF At, Consulted
  <1>4. CASE HideDirectory
    BY <1>0, <1>1, <1>4, HideEffect DEF Tokens, Names, At, Consulted, Found, Loads
  <1>5. ASSUME NEW q \in Requests, DirStep(q) PROVE Fresh(r, e)'
    <2>0. /\ world' = world /\ (blurred => blurred') /\ Consulted(q) \in Dirs
          /\ \A s \in Requests \ {q} : req'[s] = req[s]
      BY <1>5, DirStepCases DEF Frame, Moves
    <2>1. CASE r # q
      BY <1>0, <1>1, <2>0, <2>1 DEF Tokens, Names, At, Consulted, Found, Loads
    <2>2. CASE r = q /\ (StatBearer(q) \/ StatOpaque(q))
      <3>1. PICK d \in Dirs : StatToken(q, d)
        BY <2>2 DEF StatBearer, StatOpaque, Dirs
      <3>2. /\ Consulted(q)' = d
            /\ \/ req'[q].at = "compare" /\ req'[q].mtime = world.dir[d].mtime
               \/ req'[q].at = "lookup"
        BY <1>0, <3>1, StatTokenEffect DEF Reaches, At, Consulted, OnlyReq
      <3>. QED
        BY <1>1, <2>0, <2>2, <3>2 DEF At
    <2>3. CASE r = q /\ (CompareTime(q) \/ ListFiles(q) \/ LookupBearer(q) \/ LookupOpaque(q))
      <3>1. req'[q].at \notin {"compare", "read", "store"}
        BY <1>0, <2>3, CompareTimeEffect, ListFilesEffect, LookupEffect DEF Reaches, Accepts, PassesOn
      <3>. QED
        BY <2>3, <3>1 DEF At
    <2>4. CASE r = q /\ StatListed(q)
      <3>1. /\ Consulted(q)' = Consulted(q)
            /\ \/ /\ req'[q].at = "read" /\ req'[q].mtime = world.dir[Consulted(q)].mtime
                  /\ ~blurred' => req'[q].names = Names(Consulted(q))
               \/ req'[q].at = "lookup"
        BY <1>0, <2>4, StatListedEffect DEF Reaches, Consulted
      <3>. QED
        BY <1>1, <2>0, <2>4, <3>1 DEF At, Names
    <2>5. CASE r = q /\ ReadFiles(q)
      <3>1. /\ At(q, "read", Dirs) /\ req'[q].at = "store" /\ req'[q].mtime = req[q].mtime
            /\ Consulted(q)' = Consulted(q)
            /\ Loads(q)' = {world.dir[Consulted(q)].files[f] : f \in req[q].names} \ {None}
        BY <1>0, <2>5, ReadFilesEffect DEF Reaches, Consulted
      <3>2. CASE Consulted(q) = e
        <4>1. At(q, "read", {e})
          BY <3>1, <3>2 DEF At
        <4>2. req[q].names = Names(e) => Loads(q)' = Tokens(e)
          <5>. DEFINE g == world.dir[e].files
          <5>1. Names(e) = {f \in Files : g[f] # None} /\ Tokens(e) = {g[f] : f \in Files} \ {None}
            BY <1>0, DirFacts DEF Names, Tokens
          <5>2. Loads(q)' = {g[f] : f \in req[q].names} \ {None}
            BY <3>1, <3>2
          <5>. HIDE DEF g
          <5>. QED
            BY <5>1, <5>2
        <4>. QED
          BY <1>1, <2>0, <2>5, <3>1, <4>1, <4>2 DEF At, Tokens
      <3>3. CASE Consulted(q) # e
        BY <2>5, <3>1, <3>3 DEF At
      <3>. QED
        BY <3>2, <3>3
    <2>6. CASE r = q /\ StoreTokens(q)
      <3>1. req'[q].at = "lookup"
        BY <1>0, <2>6, StoreTokensEffect DEF Reaches
      <3>. QED
        BY <2>6, <3>1 DEF At
    <2>. QED
      BY <1>5, <2>1, <2>2, <2>3, <2>4, <2>5, <2>6 DEF DirStep
  <1>7. CASE Elsewhere
    <2>1. CASE req'[r] = req[r]
      BY <1>0, <1>1, <1>7, <2>1 DEF Elsewhere, Tokens, Names, At, Consulted, Found, Loads
    <2>2. CASE req'[r] # req[r]
      BY <1>7, <2>2 DEF Elsewhere, At
    <2>. QED
      BY <2>1, <2>2
  <1>. QED
    BY <1>2, <1>3, <1>4, <1>5, <1>7, DirCases

\* Files and names of a reload that is about to read, after a step.
LEMMA TornStep ==
    ASSUME Core, DirTorn, HeldNow, Next
    PROVE  DirTorn'
  <1>0. TypeOK /\ TypeOK' /\ chain' = chain /\ (blurred => blurred') /\ (moved => moved')
    BY NextFrame
  <1>. SUFFICES ASSUME NEW r \in Requests, NEW q \in Requests, NEW d \in Dirs,
                       At(q, "read", {d})', Clear(r, d)', ~moved',
                       NEW f \in Files \ req'[q].names,
                       world'.dir[d].files[f] = req'[r].creds[d]
                PROVE  WasNot(r, d)'
    BY DEF DirTorn
  <1>1. d \in VerifierNames /\ req'[r].creds[d] # None /\ ~blurred' /\ ~moved
    BY <1>0, DirFacts DEF Clear
  <1>2. Running(r)
    BY <1>1, ClearNew DEF At
  <1>3. Clear(r, d) /\ req'[r].creds = req[r].creds /\ held[r][d] \subseteq held'[r][d]
    BY <1>1, <1>2, ClearBefore
  <1>4. ASSUME At(q, "read", {d}), req'[q].names = req[q].names, world'.dir[d].files[f] = world.dir[d].files[f]
        PROVE  WasNot(r, d)'
    BY <1>1, <1>3, <1>4 DEF DirTorn, WasNot
  <1>5. CASE PutFile
    <2>1. PICK e \in Dirs, g \in Files, c \in Creds \cup {None} :
             /\ \A b \in Dirs \ {e} : world'.dir[b] = world.dir[b]
             /\ world'.dir[e].files = [world.dir[e].files EXCEPT ![g] = c]
             /\ moved' = (moved \/ c \in Tokens(e))
             /\ UNCHANGED <<req, chain>>
      BY <1>0, <1>5, PutFileShape, ZenonT(30)
    <2>2. At(q, "read", {d}) /\ req'[q].names = req[q].names
      BY <2>1 DEF At, Consulted
    <2>3. CASE d # e \/ g # f
      BY <1>0, <1>4, <2>1, <2>2, <2>3, DirFacts
    <2>4. CASE d = e /\ g = f
      <3>1. c = req[r].creds[d] /\ c # None
        BY <1>0, <1>1, <1>3, <2>1, <2>4, DirFacts
      <3>2. c \notin Range(world.dir[d].files)
        BY <2>1, <2>4, <3>1, <1>1 DEF Tokens
      <3>3. Says(world, d, c) \subseteq held[r][d]
        BY <1>1, <1>2, <1>3, <3>1 DEF HeldNow
      <3>. QED
        BY <1>3, <3>2, <3>3, SaysDir DEF WasNot
    <2>. QED
      BY <2>3, <2>4
  <1>6. CASE OverwriteFile
    BY <1>0, <1>1, <1>6, OverwriteEffect
  <1>7. CASE HideDirectory
    BY <1>0, <1>4, <1>7, HideEffect DEF At, Consulted
  <1>8. ASSUME NEW s \in Requests, DirStep(s) PROVE WasNot(r, d)'
    <2>0. /\ world' = world /\ Consulted(s) \in Dirs
          /\ \A x \in Requests \ {s} : req'[x] = req[x]
      BY <1>8, DirStepCases DEF Frame, Moves
    <2>1. CASE q # s
      BY <1>0, <1>4, <2>0, <2>1 DEF At, Consulted
    <2>2. CASE q = s /\ StatListed(q)
      <3>1. /\ Consulted(q)' = Consulted(q)
            /\ req'[q].at = "read" => req'[q].names = Names(Consulted(q))
        BY <1>0, <1>1, <2>2, StatListedEffect DEF Reaches, Consulted
      <3>2. req'[q].names = Names(d)
        BY <3>1 DEF At
      <3>3. world.dir[d].files[f] = None
        BY <3>2 DEF Names
      <3>. QED
        BY <1>1, <2>0, <3>3
    <2>3. CASE q = s /\ ~StatListed(q)
      <3>1. req'[q].at # "read"
        <4>1. CASE StatBearer(q) \/ StatOpaque(q)
          BY <1>0, <4>1, StatTokenEffect DEF StatBearer, StatOpaque, Dirs, Reaches
        <4>2. CASE ~(StatBearer(q) \/ StatOpaque(q))
          BY <1>0, <1>8, <2>3, <4>2, CompareTimeEffect, ListFilesEffect, ReadFilesEffect, StoreTokensEffect,
             LookupEffect DEF DirStep, Reaches, Accepts, PassesOn
        <4>. QED
          BY <4>1, <4>2
      <3>. QED
        BY <3>1 DEF At
    <2>. QED
      BY <2>1, <2>2, <2>3
  <1>9. CASE Elsewhere
    <2>1. At(q, "read", Dirs)'
      BY DEF At
    <2>2. req'[q] = req[q] /\ world'.dir = world.dir
      BY <1>9, <2>1 DEF Elsewhere
    <2>. QED
      BY <1>0, <1>4, <2>2 DEF At, Consulted
  <1>. QED
    BY <1>5, <1>6, <1>7, <1>8, <1>9, DirCases

LEMMA DirSetStep ==
    ASSUME Core, DirTorn, DirSet, Next
    PROVE  DirSet'
  <1>0. TypeOK /\ TypeOK' /\ chain' = chain /\ (blurred => blurred') /\ (moved => moved')
    BY NextFrame
  <1>. SUFFICES ASSUME NEW r \in Requests, NEW q \in Requests, NEW d \in Dirs,
                       At(q, "store", {d})', Clear(r, d)'
                PROVE  Known(r, d, Loads(q))'
    BY DEF DirSet
  <1>1. d \in VerifierNames /\ req'[r].creds[d] # None
    BY <1>0, DirFacts DEF Clear
  <1>2. Running(r)
    BY <1>1, ClearNew DEF At
  <1>3. Clear(r, d) /\ req'[r].creds = req[r].creds /\ held[r][d] \subseteq held'[r][d]
    BY <1>1, <1>2, ClearBefore
  <1>4. ASSUME At(q, "store", {d}), Loads(q)' = Loads(q)
        PROVE  Known(r, d, Loads(q))'
    <2>1. Known(r, d, Loads(q))
      BY <1>3, <1>4 DEF DirSet
    <2>. QED
      BY <1>0, <1>3, <1>4, <2>1 DEF Known, Was, WasNot
  <1>5. ASSUME NEW s \in Requests, DirStep(s) PROVE Known(r, d, Loads(q))'
    <2>0. /\ world' = world /\ Consulted(s) \in Dirs
          /\ \A x \in Requests \ {s} : req'[x] = req[x]
      BY <1>5, DirStepCases DEF Frame, Moves
    <2>1. CASE q # s
      BY <1>0, <1>4, <2>0, <2>1 DEF At, Consulted, Found, Loads
    <2>2. CASE q = s /\ ReadFiles(q)
      <3>1. /\ At(q, "read", Dirs) /\ Consulted(q)' = Consulted(q)
            /\ Loads(q)' = {world.dir[Consulted(q)].files[f] : f \in req[q].names} \ {None}
        BY <1>0, <2>2, ReadFilesEffect DEF Reaches, Consulted
      <3>2. Consulted(q) = d /\ At(q, "read", {d})
        BY <3>1 DEF At
      <3>. DEFINE c == req[r].creds[d]
                  set == {world.dir[d].files[f] : f \in req[q].names} \ {None}
      <3>3. Loads(q)' = set /\ req'[r].creds[d] = c /\ c # None
        BY <1>1, <1>3, <3>1, <3>2
      <3>4. Range(world.dir[d].files) = {world.dir[d].files[f] : f \in Files} /\ req[q].names \subseteq Files
        BY <1>0, DirFacts DEF TypeOK, Request
      <3>5. CASE c \in set <=> c \in Range(world.dir[d].files)
        BY <1>2, <1>1, <2>0, <3>3, <3>5, KnownDir DEF Known
      <3>6. CASE ~(c \in set <=> c \in Range(world.dir[d].files))
        <4>1. c \notin set /\ \E f \in Files \ req[q].names : world.dir[d].files[f] = c
          BY <3>3, <3>4, <3>6
        <4>2. moved \/ WasNot(r, d)
          BY <1>3, <3>2, <4>1 DEF DirTorn
        <4>. HIDE DEF set, c
        <4>3. moved' \/ WasNot(r, d)'
          BY <1>0, <1>3, <4>2 DEF WasNot
        <4>. QED
          BY <3>3, <4>1, <4>3 DEF Known
      <3>. QED
        BY <3>5, <3>6
    <2>3. CASE q = s /\ ~ReadFiles(q)
      <3>1. req'[q].at # "store"
        <4>1. CASE StatBearer(q) \/ StatOpaque(q)
          BY <1>0, <4>1, StatTokenEffect DEF StatBearer, StatOpaque, Dirs, Reaches
        <4>2. CASE ~(StatBearer(q) \/ StatOpaque(q))
          BY <1>0, <1>5, <2>3, <4>2, CompareTimeEffect, ListFilesEffect, StatListedEffect, StoreTokensEffect,
             LookupEffect DEF DirStep, Reaches, Accepts, PassesOn
        <4>. QED
          BY <4>1, <4>2
      <3>. QED
        BY <3>1 DEF At
    <2>. QED
      BY <2>1, <2>2, <2>3
  <1>6. CASE PutFile \/ OverwriteFile \/ HideDirectory
    BY <1>0, <1>4, <1>6, ChangeFrame DEF Change, At, Consulted, Found, Loads
  <1>7. CASE Elsewhere
    <2>1. At(q, "store", Dirs)'
      BY DEF At
    <2>2. req'[q] = req[q]
      BY <1>7, <2>1 DEF Elsewhere
    <2>. QED
      BY <1>0, <1>4, <2>2 DEF At, Consulted, Found, Loads
  <1>. QED
    BY <1>5, <1>6, <1>7, DirCases

LEMMA DirLookStep ==
    ASSUME Core, DirCache, DirSet, DirLook, Next
    PROVE  DirLook'
  <1>0. TypeOK /\ TypeOK' /\ chain' = chain /\ (blurred => blurred') /\ (moved => moved')
    BY NextFrame
  <1>. DEFINE Looks(r, d) ==
                \/ At(r, "lookup", {d})
                \/ At(r, "compare", {d}) /\ req[r].mtime = cache.dirMod[d]
  <1>. SUFFICES ASSUME NEW r \in Requests, NEW d \in Dirs, Clear(r, d)', Looks(r, d)'
                PROVE  Known(r, d, Found(d))'
    BY DEF DirLook
  <1>1. d \in VerifierNames /\ req'[r].creds[d] # None /\ ~blurred' /\ req'[r].at \in {"lookup", "compare"}
        /\ Consulted(r)' = d
    BY <1>0, DirFacts DEF Clear, At
  <1>2. Running(r)
    BY <1>1, ClearNew
  <1>3. Clear(r, d) /\ req'[r].creds = req[r].creds /\ held[r][d] \subseteq held'[r][d]
    BY <1>1, <1>2, ClearBefore
  <1>4. ASSUME Looks(r, d), Found(d)' = Found(d)
        PROVE  Known(r, d, Found(d))'
    <2>1. Known(r, d, Found(d))
      BY <1>3, <1>4 DEF DirLook
    <2>. QED
      BY <1>0, <1>3, <1>4, <2>1 DEF Known, Was, WasNot
  <1>5. ASSUME ~world'.dir[d].present \/ Found(d)' = Tokens(d)'
        PROVE  Known(r, d, Found(d))'
    <2>1. \/ ~world'.dir[d].present
          \/ req'[r].creds[d] \in Found(d)' <=> req'[r].creds[d] \in Range(world'.dir[d].files)
      BY <1>1, <1>5 DEF Tokens
    <2>2. ASSUME NEW set, set = Found(d)' PROVE Known(r, d, set)'
      BY <1>1, <1>2, <2>1, <2>2, KnownDir
    <2>. QED
      BY <2>2 DEF Known
  <1>6. ASSUME NEW s \in Requests, DirStep(s) PROVE Known(r, d, Found(d))'
    <2>0. /\ world' = world /\ Consulted(s) \in Dirs
          /\ \A x \in Requests \ {s} : req'[x] = req[x]
          /\ StoreTokens(s) \/ cache' = cache
      BY <1>6, DirStepCases DEF Frame, Moves
    <2>1. CASE StoreTokens(s)
      <3>1. /\ At(s, "store", Dirs) /\ Reaches(s, "lookup")
            /\ \A b \in Dirs : Found(b)' = IF b = Consulted(s) THEN Loads(s) ELSE Found(b)
            /\ cache'.dirMod = [cache.dirMod EXCEPT ![Consulted(s)] = req[s].mtime]
        BY <1>0, <2>1, StoreTokensEffect
      <3>2. CASE Consulted(s) = d
        <4>1. At(s, "store", {d}) /\ Found(d)' = Loads(s)
          BY <1>0, <3>1, <3>2 DEF At, TypeOK, Cache
        <4>2. Known(r, d, Loads(s))
          BY <1>3, <4>1 DEF DirSet
        <4>. QED
          BY <1>0, <1>3, <4>1, <4>2 DEF Known, Was, WasNot
      <3>3. CASE Consulted(s) # d
        <4>1. r # s
          BY <1>0, <1>1, <3>1, <3>3 DEF Reaches, Consulted
        <4>2. Found(d)' = Found(d) /\ cache'.dirMod[d] = cache.dirMod[d]
          BY <1>0, <3>1, <3>3 DEF TypeOK, Cache
        <4>. QED
          BY <1>0, <1>4, <2>0, <4>1, <4>2 DEF At, Consulted
      <3>. QED
        BY <3>2, <3>3
    <2>2. CASE cache' = cache /\ r # s
      BY <1>0, <1>4, <2>0, <2>2 DEF At, Consulted, Found, Loads
    <2>3. CASE cache' = cache /\ r = s /\ (StatBearer(s) \/ StatOpaque(s))
      <3>1. PICK e \in Dirs : StatToken(s, e)
        BY <2>3 DEF StatBearer, StatOpaque, Dirs
      <3>2. /\ Consulted(s)' = e
            /\ \/ req'[s].at = "compare" /\ req'[s].mtime = world.dir[e].mtime
               \/ req'[s].at = "lookup" /\ ~world.dir[e].present
        BY <1>0, <3>1, StatTokenEffect DEF Reaches, At, Consulted, OnlyReq
      <3>3. e = d
        BY <1>1, <2>3, <3>2
      <3>4. CASE req'[s].at = "compare"
        <4>1. world.dir[d].mtime = cache.dirMod[d]
          BY <2>3, <3>2, <3>3, <3>4 DEF At
        <4>2. Found(d) = Tokens(d)
          BY <1>0, <1>1, <4>1 DEF DirCache
        <4>. QED
          BY <1>5, <2>0, <2>3, <4>2 DEF Tokens, Found, Loads
      <3>5. CASE req'[s].at = "lookup"
        BY <1>5, <2>0, <3>2, <3>3, <3>5
      <3>. QED
        BY <3>2, <3>4, <3>5
    <2>4. CASE cache' = cache /\ r = s /\ CompareTime(s)
      <3>1. At(s, "compare", Dirs) /\ req'[s].at # "compare" /\ Consulted(s)' = Consulted(s)
            /\ (req'[s].at = "lookup" => req[s].mtime = cache.dirMod[Consulted(s)])
        BY <1>0, <2>4, CompareTimeEffect DEF Reaches, Consulted
      <3>2. Looks(r, d)
        BY <1>1, <2>4, <3>1 DEF At
      <3>. QED
        BY <1>4, <2>4, <3>2 DEF Found, Loads
    <2>5. CASE cache' = cache /\ r = s /\ (ListFiles(s) \/ StatListed(s))
      <3>1. /\ Consulted(s)' = Consulted(s)
            /\ req'[s].at \in {"stat", "read"} \/ ~world.dir[Consulted(s)].present
        BY <1>0, <2>5, ListFilesEffect, StatListedEffect DEF Reaches, Consulted
      <3>. QED
        BY <1>1, <1>5, <2>0, <2>5, <3>1
    <2>6. CASE cache' = cache /\ r = s /\ (ReadFiles(s) \/ LookupBearer(s) \/ LookupOpaque(s))
      <3>1. req'[s].at \in {"store", "accepted", "rejected", "chain"}
        BY <1>0, <2>6, ReadFilesEffect, LookupEffect DEF Reaches, Accepts, PassesOn
      <3>. QED
        BY <1>1, <2>6, <3>1
    <2>. QED
      BY <1>6, <2>0, <2>1, <2>2, <2>3, <2>4, <2>5, <2>6 DEF DirStep
  <1>7. CASE PutFile \/ OverwriteFile \/ HideDirectory
    BY <1>0, <1>4, <1>7, ChangeFrame DEF Change, At, Consulted, Found, Loads
  <1>8. CASE Elsewhere
    <2>1. At(r, "lookup", Dirs)' \/ At(r, "compare", Dirs)'
      BY <1>1 DEF At
    <2>2. req'[r] = req[r] /\ SameDirs
      BY <1>8, <2>1 DEF Elsewhere
    <2>. QED
      BY <1>0, <1>4, <2>2 DEF At, Consulted, SameDirs, Found, Loads
  <1>. QED
    BY <1>6, <1>7, <1>8, DirCases

-----------------------------------------------------------------------------
(***************************************************************************)
(* The HMAC verifier.                                                      *)
(***************************************************************************)
AtSecret(q) ==
    At(q, "compare", {"hmac"}) \/ At(q, "read", {"hmac"}) \/ At(q, "store", {"hmac"}) \/ At(q, "body", {"hmac"})

\* A step that leaves the secret and its entry alone, and reaches no place of the
\* verifier.
SecretAway ==
    /\ world'.secret = world.secret /\ world'.mtime = world.mtime /\ SameSecret
    /\ \A q \in Requests : req'[q] = req[q] \/ ~AtSecret(q)'

LEMMA SecretCases ==
    ASSUME Core, Next
    PROVE  PutSecret \/ (\E q \in Requests : SecretStep(q)) \/ SecretAway
  <1>. USE DEF Core, SecretAway, SameSecret
  <1>1. CASE Change
    <2>1. CASE PutFile
      BY <2>1, PutFileShape
    <2>2. CASE OverwriteFile
      BY <2>2, OverwriteEffect
    <2>3. CASE HideDirectory
      BY <2>3, HideEffect
    <2>4. CASE RotateKeys
      BY <2>4, RotateEffect
    <2>5. CASE Revoke
      BY <2>5, RevokeEffect
    <2>. QED
      BY <1>1, <2>1, <2>2, <2>3, <2>4, <2>5 DEF Change
  <1>2. ASSUME NEW q \in Requests, Check(q), ~SecretStep(q) PROVE SecretAway
    <2>0. /\ \A s \in Requests \ {q} : req'[s] = req[s]
          /\ Frame
      BY <1>2, CheckFrame
    <2>1. CASE Arrive(q)
      BY <2>0, <2>1, ArriveShape DEF At, Frame, AtSecret
    <2>2. CASE PassOver(q)
      BY <2>0, <2>2, PassOverShape DEF At, Frame, PassesOn, AtSecret
    <2>3. CASE DirStep(q)
      BY <2>0, <2>3, DirShape, Names6 DEF At, Frame, Inside, Reaches, Accepts, PassesOn, Consulted, AtSecret
    <2>4. CASE KeyStep(q)
      BY <2>0, <2>4, KeyShape, Names6 DEF At, Frame, Inside, Reaches, Accepts, PassesOn, Consulted, AtSecret
    <2>5. CASE CallStep(q)
      BY <2>0, <2>5, CallShape, Names6 DEF At, Frame, Inside, Reaches, Accepts, PassesOn, Consulted, AtSecret
    <2>. QED
      BY <1>2, <2>1, <2>2, <2>3, <2>4, <2>5, CheckCases
  <1>3. CASE LoopFetch \/ Tick
    BY <1>3 DEF LoopFetch, Tick
  <1>4. CASE LoopSwap
    BY <1>4, LoopSwapEffect
  <1>. QED
    BY <1>1, <1>2, <1>3, <1>4, NextCases

\* What the steps of the verifier do, by the place they reach.
LEMMA SecretStepCases ==
    ASSUME Core, NEW q \in Requests, SecretStep(q)
    PROVE  /\ world' = world /\ Consulted(q) = "hmac"
           /\ Consulted(q)' = "hmac" \/ ~AtSecret(q)'
           /\ \A s \in Requests \ {q} : req'[s] = req[s]
           /\ \/ cache' = cache /\ ~AtSecret(q)'
              \/ cache' = cache /\ req'[q].at = "compare" /\ req'[q].mtime = world.mtime
              \/ /\ cache' = cache /\ req'[q].at = "read" /\ req'[q].mtime = req[q].mtime
                 /\ At(q, "compare", {"hmac"})
              \/ /\ cache' = cache /\ req'[q].at = "store" /\ req'[q].mtime = req[q].mtime
                 /\ At(q, "read", {"hmac"}) /\ req'[q].set = {world.secret} /\ world.secret \in Creds
              \/ /\ At(q, "compare", {"hmac"}) /\ req[q].mtime = cache.mtime /\ cache' = cache
                 /\ req'[q].at = "body" /\ req'[q].set = {cache.secret}
              \/ /\ At(q, "store", {"hmac"}) /\ req'[q].at = "body" /\ req'[q].set = req[q].set
                 /\ cache'.mtime = req[q].mtime
                 /\ \E s \in Creds : req[q].set = {s} /\ cache'.secret = s
  <1>0. TypeOK /\ chain' = chain
    BY SecretShape DEF Core, Frame
  <1>1. /\ world' = world /\ Consulted(q) = "hmac"
        /\ \A s \in Requests \ {q} : req'[s] = req[s]
    BY SecretShape DEF Core, Frame, Inside, Moves
  <1>2. Reaches(q, "compare") \/ Reaches(q, "read") \/ Reaches(q, "store") \/ Reaches(q, "body") => Consulted(q)' = "hmac"
    BY <1>0, <1>1 DEF Reaches, Consulted
  <1>3. Accepts(q) \/ PassesOn(q) => ~AtSecret(q)'
    BY DEF AtSecret, At, Accepts, PassesOn
  <1>4. CASE StatSecret(q)
    BY <1>0, <1>1, <1>2, <1>3, <1>4, StatSecretEffect DEF OnlyReq, Reaches
  <1>5. CASE CompareSecret(q)
    <2>1. cache.mtime = req[q].mtime => cache.secret \in Creds
      BY <1>0, <1>5, Names6 DEF Core, SecretCache, SecretLoad, CompareSecret, TypeOK, World
    <2>. QED
      BY <1>0, <1>1, <1>2, <1>3, <1>5, <2>1, CompareSecretEffect DEF OnlyReq, Reaches
  <1>6. CASE ReadSecret(q)
    BY <1>0, <1>1, <1>2, <1>3, <1>6, ReadSecretEffect DEF OnlyReq, Reaches
  <1>7. CASE StoreSecret(q)
    <2>1. PICK s \in Creds : req[q].set = {s}
      BY <1>7 DEF Core, SecretLoad, StoreSecret
    <2>. QED
      BY <1>0, <1>1, <1>2, <1>3, <1>7, <2>1, StoreSecretEffect DEF Reaches
  <1>8. CASE CheckSignature(q)
    BY <1>0, <1>1, <1>2, <1>3, <1>8, CheckSignatureEffect DEF OnlyReq
  <1>. QED
    BY <1>4, <1>5, <1>6, <1>7, <1>8 DEF SecretStep

LEMMA PutSecretFrame ==
    ASSUME TypeOK, PutSecret
    PROVE  world'.mtime = world.mtime + 1 /\ UNCHANGED <<cache, req, chain>>
  BY PutSecretEffect

LEMMA SecretCacheStep ==
    ASSUME Core, Next
    PROVE  SecretCache'
  <1>0. TypeOK /\ TypeOK' /\ cache.mtime \in Nat /\ world.mtime \in Nat
    BY NextFrame DEF TypeOK, Cache, World
  <1>. USE DEF Core, SecretCache
  <1>1. CASE PutSecret
    BY <1>0, <1>1, PutSecretFrame
  <1>2. ASSUME NEW q \in Requests, SecretStep(q) PROVE SecretCache'
    <2>1. CASE cache' = cache
      BY <1>2, <2>1, SecretStepCases
    <2>2. CASE cache' # cache
      <3>1. /\ At(q, "store", {"hmac"}) /\ cache'.mtime = req[q].mtime /\ world' = world
            /\ \E s \in Creds : req[q].set = {s} /\ cache'.secret = s
        BY <1>2, <2>2, SecretStepCases
      <3>2. /\ req[q].mtime \in 1..world.mtime
            /\ req[q].mtime = world.mtime => req[q].set = {world.secret}
        BY <3>1 DEF SecretLoad
      <3>. QED
        BY <1>0, <3>1, <3>2
    <2>. QED
      BY <2>1, <2>2
  <1>3. CASE SecretAway
    BY <1>3 DEF SecretAway, SameSecret
  <1>. QED
    BY <1>1, <1>2, <1>3, SecretCases

LEMMA SecretLoadStep ==
    ASSUME Core, Next
    PROVE  SecretLoad'
  <1>0. TypeOK /\ chain' = chain /\ world.mtime \in Nat /\ SecretLoad /\ world.mtime > 0
    BY NextFrame DEF TypeOK, World, Core, SecretCache
  <1>. SUFFICES ASSUME NEW r \in Requests
                PROVE  /\ (At(r, "compare", {"hmac"}) \/ At(r, "read", {"hmac"}) \/ At(r, "store", {"hmac"}))'
                             => req'[r].mtime \in 1..world'.mtime
                       /\ At(r, "store", {"hmac"})' =>
                             /\ \E s \in Creds : req'[r].set = {s}
                             /\ req'[r].mtime = world'.mtime => req'[r].set = {world'.secret}
    BY DEF SecretLoad
  <1>1. CASE PutSecret
    BY <1>0, <1>1, PutSecretFrame DEF SecretLoad, At, Consulted
  <1>2. ASSUME NEW q \in Requests, SecretStep(q), r # q
        PROVE  /\ req'[r] = req[r] /\ world' = world
    BY <1>2, SecretStepCases
  <1>3. CASE req'[r] = req[r] /\ world'.mtime = world.mtime /\ world'.secret = world.secret
    BY <1>0, <1>3 DEF SecretLoad, At, Consulted
  <1>4. CASE SecretStep(r)
    BY <1>0, <1>4, SecretStepCases DEF SecretLoad, At, AtSecret
  <1>5. CASE SecretAway
    <2>1. CASE req'[r] = req[r]
      BY <1>3, <1>5, <2>1 DEF SecretAway
    <2>2. CASE req'[r] # req[r]
      BY <1>5, <2>2 DEF SecretAway, AtSecret
    <2>. QED
      BY <2>1, <2>2
  <1>. QED
    BY <1>1, <1>2, <1>3, <1>4, <1>5, SecretCases

\* A request at a place of the verifier presents a credential and runs.
LEMMA SecretReader ==
    ASSUME Core, Next, NEW r \in Requests, AtSecret(r)'
    PROVE  /\ Running(r)' /\ chain' = chain
           /\ req'[r] = req[r] \/ SecretStep(r)
           /\ Running(r) /\ req'[r].creds = req[r].creds /\ req[r].creds["hmac"] # None
           /\ held[r]["hmac"] \subseteq held'[r]["hmac"]
  <1>0. TypeOK /\ chain' = chain /\ Running(r)'
    BY NextFrame DEF AtSecret, At, Running
  <1>1. req'[r] = req[r] \/ SecretStep(r)
    BY SecretCases, SecretStepCases, PutSecretFrame DEF Core, SecretAway
  <1>2. /\ Running(r) /\ req'[r].creds = req[r].creds /\ req[r].creds["hmac"] # None
    <2>1. CASE req'[r] = req[r]
      <3>1. AtSecret(r)
        BY <1>0, <2>1 DEF AtSecret, At, Consulted
      <3>2. Running(r) /\ Cred(r) # None /\ Consulted(r) = "hmac"
        BY <3>1 DEF AtSecret, At, Running, Core, Places, Place
      <3>. QED
        BY <2>1, <3>2 DEF Cred
    <2>2. CASE SecretStep(r)
      BY <2>2, SecretShape DEF Core, Inside, Moves, Cred
    <2>. QED
      BY <1>1, <2>1, <2>2
  <1>3. held[r]["hmac"] \subseteq held'[r]["hmac"]
    BY <1>0, <1>2, Kept, NextCases, Names6
  <1>. QED
    BY <1>0, <1>1, <1>2, <1>3

LEMMA SecretSetStep ==
    ASSUME Core, SecretSet, Next
    PROVE  SecretSet'
  <1>. SUFFICES ASSUME NEW r \in Requests, NEW q \in Requests,
                       At(r, "compare", {"hmac"})', At(q, "store", {"hmac"})', req'[r].mtime = req'[q].mtime
                PROVE  Known(r, "hmac", req[q].set)'
    BY DEF SecretSet
  <1>0. TypeOK /\ chain' = chain /\ r # q /\ AtSecret(r)' /\ AtSecret(q)'
    BY NextFrame DEF At, AtSecret
  <1>1. /\ Running(r)' /\ Running(r) /\ req'[r].creds = req[r].creds /\ req[r].creds["hmac"] # None
        /\ held[r]["hmac"] \subseteq held'[r]["hmac"]
        /\ req'[r] = req[r] \/ SecretStep(r)
        /\ req'[q] = req[q] \/ SecretStep(q)
    BY <1>0, SecretReader
  <1>2. CASE req'[q].set = {world'.secret}
    <2>1. Known(r, "hmac", {world.secret})'
      BY <1>1, KnownSecret
    <2>. QED
      BY <1>2, <2>1 DEF Known
  <1>3. CASE req'[r] = req[r] /\ req'[q] = req[q]
    <2>1. At(r, "compare", {"hmac"}) /\ At(q, "store", {"hmac"})
      BY <1>0, <1>3 DEF At, Consulted
    <2>2. Known(r, "hmac", req[q].set)
      BY <1>3, <2>1 DEF SecretSet
    <2>. QED
      BY <1>1, <1>3, <2>2 DEF Known, Was, WasNot, Dirs
  <1>4. CASE SecretStep(q)
    BY <1>0, <1>2, <1>4, SecretStepCases DEF At
  <1>5. CASE SecretStep(r)
    <2>1. req'[r].mtime = world.mtime /\ world' = world /\ req'[q] = req[q]
      BY <1>0, <1>5, SecretStepCases DEF At
    <2>2. At(q, "store", {"hmac"})
      BY <1>0, <2>1 DEF At, Consulted
    <2>3. req[q].set = {world.secret}
      BY <2>1, <2>2 DEF Core, SecretLoad
    <2>. QED
      BY <1>2, <2>1, <2>3
  <1>. QED
    BY <1>1, <1>3, <1>4, <1>5

LEMMA SecretUseStep ==
    ASSUME Core, SecretSet, SecretUse, Next
    PROVE  SecretUse'
  <1>0. TypeOK /\ chain' = chain
    BY NextFrame
  <1>1. ASSUME NEW r \in Requests, AtSecret(r)'
        PROVE  /\ Running(r)' /\ Running(r) /\ req'[r].creds = req[r].creds /\ req[r].creds["hmac"] # None
               /\ held[r]["hmac"] \subseteq held'[r]["hmac"]
               /\ req'[r] = req[r] \/ SecretStep(r)
    BY <1>1, SecretReader
  <1>2. ASSUME NEW r \in Requests, AtSecret(r)', NEW set, set = {world'.secret} PROVE Known(r, "hmac", set)'
    <2>1. Known(r, "hmac", {world.secret})'
      BY <1>1, <1>2, KnownSecret
    <2>. QED
      BY <1>2, <2>1 DEF Known
  <1>3. ASSUME NEW r \in Requests, AtSecret(r)', NEW set, Known(r, "hmac", set) PROVE Known(r, "hmac", set)'
    BY <1>1, <1>3 DEF Known, Was, WasNot, Dirs
  <1>4. ASSUME NEW r \in Requests, At(r, "compare", {"hmac"})', req'[r].mtime = cache'.mtime
        PROVE  Known(r, "hmac", {cache.secret})'
    <2>0. AtSecret(r)'
      BY <1>4 DEF AtSecret
    <2>. SUFFICES ASSUME NEW set, set = {cache'.secret} PROVE Known(r, "hmac", set)'
      BY DEF Known
    <2>1. CASE SecretStep(r)
      <3>1. req'[r].mtime = world.mtime /\ world' = world /\ cache' = cache
        BY <1>4, <2>0, <2>1, SecretStepCases DEF At
      <3>2. set = {world'.secret}
        BY <1>4, <3>1 DEF Core, SecretCache
      <3>. QED
        BY <1>2, <2>0, <3>2
    <2>2. CASE req'[r] = req[r] /\ SameSecret
      <3>1. At(r, "compare", {"hmac"}) /\ req[r].mtime = cache.mtime
        BY <1>0, <1>4, <2>2 DEF At, Consulted, SameSecret
      <3>2. Known(r, "hmac", {cache.secret})
        BY <3>1 DEF SecretUse
      <3>3. Known(r, "hmac", set)
        BY <2>2, <3>2 DEF Known, SameSecret
      <3>. QED
        BY <1>3, <2>0, <3>3
    <2>3. CASE req'[r] = req[r] /\ ~SameSecret
      <3>1. PICK q \in Requests : SecretStep(q) /\ cache' # cache
        BY <2>3, SecretCases, PutSecretFrame DEF Core, SecretAway, SameSecret
      <3>2. /\ At(q, "store", {"hmac"}) /\ cache'.mtime = req[q].mtime
            /\ \E s \in Creds : req[q].set = {s} /\ cache'.secret = s
        BY <3>1, SecretStepCases
      <3>3. At(r, "compare", {"hmac"}) /\ req[r].mtime = req[q].mtime
        BY <1>0, <1>4, <2>3, <3>2 DEF At, Consulted
      <3>4. Known(r, "hmac", req[q].set)
        BY <3>2, <3>3 DEF SecretSet
      <3>5. Known(r, "hmac", set)
        BY <3>2, <3>4
      <3>. QED
        BY <1>3, <2>0, <3>5
    <2>. QED
      BY <1>1, <2>0, <2>1, <2>2, <2>3
  <1>5. ASSUME NEW r \in Requests, At(r, "store", {"hmac"})' \/ At(r, "body", {"hmac"})'
        PROVE  Known(r, "hmac", req[r].set)'
    <2>0. AtSecret(r)'
      BY <1>5 DEF AtSecret
    <2>. SUFFICES ASSUME NEW set, set = req'[r].set PROVE Known(r, "hmac", set)'
      BY DEF Known
    <2>1. CASE SecretStep(r)
      <3>1. \/ set = {world'.secret}
            \/ At(r, "compare", {"hmac"}) /\ req[r].mtime = cache.mtime /\ set = {cache.secret}
            \/ At(r, "store", {"hmac"}) /\ set = req[r].set
        BY <1>5, <2>0, <2>1, SecretStepCases DEF At
      <3>2. CASE set = {world'.secret}
        BY <1>2, <2>0, <3>2
      <3>3. CASE At(r, "compare", {"hmac"}) /\ req[r].mtime = cache.mtime /\ set = {cache.secret}
        <4>1. Known(r, "hmac", set)
          BY <3>3 DEF SecretUse
        <4>. QED
          BY <1>3, <2>0, <4>1
      <3>4. CASE At(r, "store", {"hmac"}) /\ set = req[r].set
        <4>1. Known(r, "hmac", set)
          BY <3>4 DEF SecretUse
        <4>. QED
          BY <1>3, <2>0, <4>1
      <3>. QED
        BY <3>1, <3>2, <3>3, <3>4
    <2>2. CASE req'[r] = req[r]
      <3>1. At(r, "store", {"hmac"}) \/ At(r, "body", {"hmac"})
        BY <1>0, <1>5, <2>2 DEF At, Consulted
      <3>2. Known(r, "hmac", set)
        BY <2>2, <3>1 DEF SecretUse
      <3>. QED
        BY <1>3, <2>0, <3>2
    <2>. QED
      BY <1>1, <2>0, <2>1, <2>2
  <1>. QED
    BY <1>4, <1>5 DEF SecretUse

-----------------------------------------------------------------------------
(***************************************************************************)
(* The JWT validator.                                                      *)
(***************************************************************************)
KeyAway ==
    /\ SameKeys /\ loop' = loop
    /\ \A q \in Requests : req'[q] = req[q] \/ req'[q].at \notin {"swap", "relook"}

LEMMA KeyCases ==
    ASSUME Core, Next
    PROVE  LoopFetch \/ LoopSwap \/ (\E q \in Requests : KeyStep(q)) \/ KeyAway
  <1>. USE DEF Core, KeyAway, SameKeys
  <1>1. CASE Change
    BY <1>1, ChangeFrame
  <1>2. ASSUME NEW q \in Requests, Check(q), ~KeyStep(q) PROVE KeyAway
    <2>0. /\ \A s \in Requests \ {q} : req'[s] = req[s]
          /\ loop' = loop
      BY <1>2, CheckFrame DEF Frame
    <2>1. CASE Arrive(q)
      BY <2>0, <2>1, ArriveShape
    <2>2. CASE PassOver(q)
      BY <2>0, <2>2, PassOverShape DEF PassesOn
    <2>3. CASE DirStep(q)
      BY <2>0, <2>3, DirShape DEF Inside, Reaches, Accepts, PassesOn
    <2>4. CASE SecretStep(q)
      BY <2>0, <2>4, SecretShape DEF Inside, Reaches, Accepts, PassesOn
    <2>5. CASE CallStep(q)
      BY <2>0, <2>5, CallShape DEF Inside, Reaches, Accepts, PassesOn
    <2>. QED
      BY <1>2, <2>1, <2>2, <2>3, <2>4, <2>5, CheckCases
  <1>3. CASE Tick
    BY <1>3 DEF Tick
  <1>. QED
    BY <1>1, <1>2, <1>3, NextCases

LEMMA KeyStepCases ==
    ASSUME Core, NEW q \in Requests, KeyStep(q)
    PROVE  /\ UNCHANGED <<world, loop>>
           /\ \A s \in Requests \ {q} : req'[s] = req[s]
           /\ \/ cache' = cache /\ req'[q].at \notin {"swap", "relook"}
              \/ cache' = cache /\ req'[q].at = "swap" /\ req'[q].set = world.published
              \/ req[q].at = "swap" /\ req'[q].at = "relook" /\ cache'.keys = req[q].set
  <1>0. /\ UNCHANGED <<world, loop>> /\ TypeOK
        /\ \A s \in Requests \ {q} : req'[s] = req[s]
    BY KeyShape DEF Core, Frame, Inside, Moves
  <1>. USE DEF Reaches, Accepts, PassesOn, OnlyReq, At
  <1>1. CASE FindKey(q)
    BY <1>0, <1>1, FindKeyEffect
  <1>2. CASE FetchKeys(q)
    BY <1>0, <1>2, FetchKeysEffect
  <1>3. CASE SwapKeys(q)
    BY <1>0, <1>3, SwapKeysEffect
  <1>4. CASE FindKeyAgain(q)
    BY <1>0, <1>4, FindKeyAgainEffect
  <1>. QED
    BY <1>1, <1>2, <1>3, <1>4 DEF KeyStep

LEMMA KeyUseStep ==
    ASSUME Core, KeyUse, Next
    PROVE  KeyUse'
  <1>. SUFFICES ASSUME NEW r \in Requests, Clear(r, "jwt")'
                PROVE  /\ \A q \in Requests : req'[q].at = "swap" /\ req'[r].creds["jwt"] \notin req'[q].set
                                                 => WasNot(r, "jwt")'
                       /\ loop' # {} /\ req'[r].creds["jwt"] \notin loop' => WasNot(r, "jwt")'
                       /\ req'[r].at = "relook" /\ req'[r].creds["jwt"] \notin cache'.keys => WasNot(r, "jwt")'
    BY DEF KeyUse
  <1>0. TypeOK /\ "jwt" \in VerifierNames
    BY NextFrame, Names6
  <1>1. CASE ~Running(r)
    BY <1>0, <1>1, ClearNew
  <1>2. CASE Running(r)
    <2>. DEFINE c == req[r].creds["jwt"]
    <2>1. Clear(r, "jwt") /\ req'[r].creds = req[r].creds /\ held[r]["jwt"] \subseteq held'[r]["jwt"]
      BY <1>0, <1>2, ClearBefore
    <2>2. WasNot(r, "jwt") => WasNot(r, "jwt")'
      BY <2>1 DEF WasNot
    <2>3. /\ \A q \in Requests : req[q].at = "swap" /\ c \notin req[q].set => WasNot(r, "jwt")
          /\ loop # {} /\ c \notin loop => WasNot(r, "jwt")
          /\ req[r].at = "relook" /\ c \notin cache.keys => WasNot(r, "jwt")
      BY <2>1 DEF KeyUse
    <2>4. c \notin world'.published => WasNot(r, "jwt")'
      <3>1. req'[r].creds["jwt"] = c /\ c # None
        BY <2>1 DEF Clear
      <3>2. Says(world', "jwt", c) \subseteq held'[r]["jwt"]
        BY <1>0, <1>2, <3>1, Heard, NextCases
      <3>. QED
        BY <3>2, SaysOther DEF WasNot
    <2>5. CASE LoopFetch
      BY <2>1, <2>2, <2>3, <2>4, <2>5 DEF LoopFetch
    <2>6. CASE LoopSwap
      BY <1>0, <2>1, <2>2, <2>3, <2>6, LoopSwapEffect
    <2>7. ASSUME NEW s \in Requests, KeyStep(s)
          PROVE  /\ \A q \in Requests : req'[q].at = "swap" /\ c \notin req'[q].set => WasNot(r, "jwt")'
                 /\ loop' # {} /\ c \notin loop' => WasNot(r, "jwt")'
                 /\ req'[r].at = "relook" /\ c \notin cache'.keys => WasNot(r, "jwt")'
      BY <2>2, <2>3, <2>4, <2>7, KeyStepCases
    <2>8. CASE KeyAway
      BY <2>1, <2>2, <2>3, <2>8 DEF KeyAway, SameKeys
    <2>. QED
      BY <2>1, <2>5, <2>6, <2>7, <2>8, KeyCases
  <1>. QED
    BY <1>1, <1>2

-----------------------------------------------------------------------------
(***************************************************************************)
(* The callout validator.                                                  *)
(***************************************************************************)
CallAway ==
    /\ SameSessions /\ world'.live = world.live /\ UNCHANGED <<now, revoked>>
    /\ \A q \in Requests : req'[q] = req[q] \/ req'[q].at \notin {"call", "answer"}

LEMMA CallCases ==
    ASSUME Core, Next
    PROVE  Revoke \/ Tick \/ (\E q \in Requests : CallStep(q)) \/ CallAway
  <1>. USE DEF Core, CallAway, SameSessions
  <1>1. CASE PutFile
    BY <1>1, PutFileShape
  <1>2. CASE OverwriteFile
    BY <1>2, OverwriteEffect
  <1>3. CASE HideDirectory
    BY <1>3, HideEffect
  <1>4. CASE PutSecret
    BY <1>4, PutSecretEffect
  <1>5. CASE RotateKeys
    BY <1>5, RotateEffect
  <1>6. ASSUME NEW q \in Requests, Check(q), ~CallStep(q) PROVE CallAway
    <2>0. /\ \A s \in Requests \ {q} : req'[s] = req[s]
          /\ Frame
      BY <1>6, CheckFrame
    <2>. USE DEF Frame
    <2>1. CASE Arrive(q)
      BY <2>0, <2>1, ArriveShape
    <2>2. CASE PassOver(q)
      BY <2>0, <2>2, PassOverShape DEF PassesOn
    <2>3. CASE DirStep(q)
      BY <2>0, <2>3, DirShape DEF Inside, Reaches, Accepts, PassesOn
    <2>4. CASE SecretStep(q)
      BY <2>0, <2>4, SecretShape DEF Inside, Reaches, Accepts, PassesOn
    <2>5. CASE KeyStep(q)
      BY <2>0, <2>5, KeyShape DEF Inside, Reaches, Accepts, PassesOn
    <2>. QED
      BY <1>6, <2>1, <2>2, <2>3, <2>4, <2>5, CheckCases
  <1>7. CASE LoopFetch
    BY <1>7 DEF LoopFetch
  <1>8. CASE LoopSwap
    BY <1>8, LoopSwapEffect
  <1>. QED
    BY <1>1, <1>2, <1>3, <1>4, <1>5, <1>6, <1>7, <1>8, NextCases DEF Change

LEMMA CallStepCases ==
    ASSUME Core, NEW q \in Requests, CallStep(q)
    PROVE  /\ UNCHANGED <<world, now, revoked, chain>> /\ Cred(q) \in Creds /\ Running(q)
           /\ Consulted(q) = "callout" /\ req'[q].creds = req[q].creds
           /\ \A s \in Requests \ {q} : req'[s] = req[s]
           /\ \/ cache' = cache /\ req'[q].at \notin {"call", "answer"}
              \/ cache' = cache /\ req'[q].at = "call" /\ req'[q].since = now
              \/ /\ cache' = cache /\ req[q].at = "call" /\ req'[q].at = "answer"
                 /\ req'[q].since = req[q].since /\ Cred(q) \in world.live /\ req'[q].i = req[q].i
              \/ /\ req[q].at = "answer" /\ req'[q].at = "accepted"
                 /\ cache'.expires[Cred(q)] <= now + CacheTTL
                 /\ \A c \in Creds \ {Cred(q)} : cache'.expires[c] = cache.expires[c]
  <1>0. /\ UNCHANGED <<world, now, revoked, chain>> /\ TypeOK /\ Cred(q) \in Creds /\ Running(q)
        /\ Consulted(q) = "callout" /\ req'[q].creds = req[q].creds
        /\ \A s \in Requests \ {q} : req'[s] = req[s]
    BY CallShape DEF Core, Frame, Inside, Moves
  <1>. USE DEF Reaches, Accepts, PassesOn, OnlyReq, At
  <1>1. CASE CheckAnswer(q)
    BY <1>0, <1>1, CheckAnswerEffect
  <1>2. CASE Callout(q)
    BY <1>0, <1>2, CalloutEffect
  <1>3. CASE StoreAnswer(q)
    BY <1>0, <1>3, StoreAnswerEffect
  <1>. QED
    BY <1>1, <1>2, <1>3 DEF CallStep

LEMMA Times ==
    ASSUME TypeOK
    PROVE  /\ now \in Nat /\ CacheTTL \in Nat /\ Timeout \in Nat
           /\ \A c \in Creds : cache.expires[c] \in Nat /\ revoked[c] \in Nat
           /\ \A r \in Requests : req[r].since \in Nat
  BY VerifiersAssumption, TTLType DEF TypeOK, Cache, Request

LEMMA SessionsStep ==
    ASSUME Core, Sessions, Asking, Next
    PROVE  Sessions'
  <1>0. TypeOK /\ TypeOK' /\ world.live \subseteq Creds
    BY NextFrame DEF TypeOK, World
  <1>. SUFFICES ASSUME NEW c \in Creds
                PROVE  cache'.expires[c] <= (IF c \in world'.live THEN now' + CacheTTL
                                             ELSE revoked'[c] + CacheTTL + Timeout)
    BY DEF Sessions
  <1>1. /\ now \in Nat /\ CacheTTL \in Nat /\ Timeout \in Nat /\ revoked[c] \in Nat
        /\ cache.expires[c] \in Nat /\ cache'.expires[c] \in Nat
        /\ cache.expires[c] <= (IF c \in world.live THEN now + CacheTTL ELSE revoked[c] + CacheTTL + Timeout)
    BY <1>0, Times DEF Sessions, TypeOK, Cache
  <1>2. CASE Revoke
    <2>1. PICK l \in world.live : world'.live = world.live \ {l} /\ revoked' = [revoked EXCEPT ![l] = now]
      BY <1>0, <1>2, RevokeEffect
    <2>2. UNCHANGED <<cache, now>> /\ l \in Creds /\ revoked'[l] = now
          /\ (c # l => revoked'[c] = revoked[c])
      BY <1>0, <1>2, <2>1, RevokeEffect DEF TypeOK
    <2>. QED
      BY <1>1, <2>1, <2>2
  <1>3. CASE Tick
    BY <1>1, <1>3 DEF Tick
  <1>4. ASSUME NEW q \in Requests, CallStep(q), cache' = cache
        PROVE  cache'.expires[c] <= (IF c \in world'.live THEN now' + CacheTTL
                                             ELSE revoked'[c] + CacheTTL + Timeout)
    BY <1>1, <1>4, CallStepCases
  <1>5. ASSUME NEW q \in Requests, CallStep(q), cache' # cache
        PROVE  cache'.expires[c] <= (IF c \in world'.live THEN now' + CacheTTL
                                             ELSE revoked'[c] + CacheTTL + Timeout)
    <2>1. /\ req[q].at = "answer" /\ Cred(q) \in Creds /\ UNCHANGED <<world, now, revoked>>
          /\ cache'.expires[Cred(q)] <= now + CacheTTL
          /\ \A b \in Creds \ {Cred(q)} : cache'.expires[b] = cache.expires[b]
      BY <1>5, CallStepCases
    <2>2. CASE c # Cred(q)
      BY <1>1, <2>1, <2>2
    <2>3. CASE c = Cred(q)
      <3>1. /\ now <= req[q].since + Timeout /\ req[q].since \in Nat
            /\ c \in world.live \/ req[q].since <= revoked[c]
        BY <1>0, <2>1, <2>3, Times DEF Asking
      <3>. QED
        BY <1>1, <2>1, <2>3, <3>1
    <2>. QED
      BY <2>2, <2>3
  <1>6. CASE CallAway
    BY <1>1, <1>6 DEF CallAway, SameSessions
  <1>. QED
    BY <1>2, <1>3, <1>4, <1>5, <1>6, CallCases

LEMMA AskingStep ==
    ASSUME Core, Asking, Next
    PROVE  Asking'
  <1>0. TypeOK /\ TypeOK' /\ chain' = chain /\ world.live \subseteq Creds /\ "callout" \in VerifierNames
    BY NextFrame, Names6 DEF TypeOK, World
  <1>. DEFINE Asks(r) ==
                /\ req[r].at \in {"call", "answer"} => req[r].since <= now /\ now <= req[r].since + Timeout
                /\ req[r].at = "answer" => /\ Was(r, "callout")
                                           /\ Cred(r) \in world.live \/ req[r].since <= revoked[Cred(r)]
  <1>. SUFFICES ASSUME NEW r \in Requests, req'[r].at \in {"call", "answer"}
                PROVE  /\ req'[r].since <= now' /\ now' <= req'[r].since + Timeout
                       /\ req'[r].at = "answer" =>
                             /\ Was(r, "callout")'
                             /\ Cred(r)' \in world'.live \/ req'[r].since <= revoked'[Cred(r)']
    BY DEF Asking
  <1>1. now \in Nat /\ Timeout \in Nat /\ req[r].since \in Nat
    BY <1>0, Times
  <1>2. ASSUME req[r].at \in {"call", "answer"}
        PROVE  /\ Running(r) /\ Consulted(r) = "callout" /\ Cred(r) # None /\ Cred(r) \in Creds
               /\ Cred(r) = req[r].creds["callout"]
               /\ req[r].since <= now /\ now <= req[r].since + Timeout
               /\ req[r].at = "answer" => /\ Was(r, "callout")
                                          /\ Cred(r) \in world.live \/ req[r].since <= revoked[Cred(r)]
    <2>1. Running(r) /\ Consulted(r) = "callout" /\ Cred(r) # None
      BY <1>2 DEF Running, Core, Places, Place
    <2>. QED
      BY <1>0, <1>2, <2>1, CredType DEF Asking, Cred, Core
  <1>3. ASSUME req'[r] = req[r]
        PROVE  /\ Cred(r)' = Cred(r) /\ (Was(r, "callout") => Was(r, "callout")')
               /\ req[r].at \in {"call", "answer"}
    <2>1. Cred(r)' = Cred(r)
      BY <1>0, <1>3 DEF Cred, Consulted
    <2>2. held[r]["callout"] \subseteq held'[r]["callout"]
      BY <1>0, <1>2, <1>3, Kept, NextCases
    <2>. QED
      BY <1>3, <2>1, <2>2 DEF Was
  <1>4. CASE Revoke
    <2>1. PICK l \in world.live : world'.live = world.live \ {l} /\ revoked' = [revoked EXCEPT ![l] = now]
      BY <1>0, <1>4, RevokeEffect
    <2>2. /\ UNCHANGED <<req, now>> /\ l \in Creds /\ revoked'[l] = now
          /\ \A c \in Creds \ {l} : revoked'[c] = revoked[c]
      BY <1>0, <1>4, <2>1, RevokeEffect DEF TypeOK
    <2>. QED
      BY <1>1, <1>2, <1>3, <2>1, <2>2
  <1>5. CASE Tick
    BY <1>1, <1>2, <1>3, <1>5 DEF Tick
  <1>6. ASSUME NEW q \in Requests, CallStep(q), q # r
        PROVE  UNCHANGED <<world, now, revoked>> /\ req'[r] = req[r]
    BY <1>6, CallStepCases
  <1>7. CASE CallStep(r)
    <2>1. CASE req'[r].at = "call"
      BY <1>1, <1>7, <2>1, CallStepCases
    <2>2. CASE req'[r].at = "answer"
      <3>1. /\ UNCHANGED <<world, now, revoked>> /\ req[r].at = "call"
            /\ req'[r].since = req[r].since /\ Cred(r) \in world.live /\ Cred(r)' = Cred(r)
            /\ Running(r) /\ req'[r].creds = req[r].creds
        BY <1>0, <1>7, <2>2, CallStepCases DEF Cred, Consulted
      <3>2. req'[r].creds["callout"] \in world'.live /\ req'[r].creds["callout"] # None
        BY <1>2, <3>1
      <3>3. Says(world', "callout", req'[r].creds["callout"]) \subseteq held'[r]["callout"]
        BY <1>0, <3>1, <3>2, Heard, NextCases
      <3>4. Was(r, "callout")'
        BY <3>2, <3>3, SaysOther DEF Was
      <3>. QED
        BY <1>2, <3>1, <3>4
    <2>. QED
      BY <2>1, <2>2
  <1>8. CASE req'[r] = req[r] /\ UNCHANGED <<now, revoked>> /\ world'.live = world.live
    BY <1>2, <1>3, <1>8
  <1>9. CASE CallAway
    BY <1>8, <1>9 DEF CallAway
  <1>. QED
    BY <1>4, <1>5, <1>6, <1>7, <1>8, <1>9, CallCases

-----------------------------------------------------------------------------
(***************************************************************************)
(* The chain.                                                              *)
(***************************************************************************)
LEMMA HeldNowStep ==
    ASSUME Core, Next
    PROVE  HeldNow'
  <1>. SUFFICES ASSUME NEW r \in Requests, NEW v \in VerifierNames, Running(r)', req'[r].creds[v] # None
                PROVE  Says(world', v, req'[r].creds[v]) \subseteq held'[r][v]
    BY DEF HeldNow
  <1>. QED
    BY Heard, NextCases DEF Core

LEMMA PlacesStep ==
    ASSUME Core, Next
    PROVE  Places'
  <1>0. TypeOK /\ TypeOK' /\ chain' = chain /\ Places /\ Len(chain) \in Nat
    BY NextFrame, ChainType DEF Core
  <1>. SUFFICES ASSUME NEW r \in Requests PROVE Place(r)'
    BY DEF Places, Place
  <1>1. CASE req'[r] = req[r]
    BY <1>0, <1>1 DEF Places, Place, Running, Cred, Consulted
  <1>2. CASE Arrive(r)
    BY <1>0, <1>2, ArriveShape DEF Place
  <1>3. ASSUME Running(r), PassesOn(r) PROVE Place(r)'
    <2>1. req[r].i \in 1..Len(chain)
      BY <1>0, <1>3 DEF Places, Place
    <2>2. req'[r].at \in {"rejected", "chain"}
          /\ (req'[r].at = "chain" => req'[r].i = req[r].i + 1 /\ req[r].i # Len(chain))
      BY <1>3, <2>1 DEF PassesOn, Moves
    <2>. QED
      BY <1>0, <2>1, <2>2 DEF Place, Running
  <1>4. ASSUME NEW vs, NEW steps, Inside(r, vs, steps),
               \/ vs = Dirs /\ steps = {"compare", "list", "stat", "read", "store", "lookup"}
               \/ vs = {"hmac"} /\ steps = {"compare", "read", "store", "body"}
               \/ vs = {"jwt"} /\ steps = {"fetch", "swap", "relook"}
               \/ vs = {"callout"} /\ steps = {"call", "answer"}
        PROVE  Place(r)'
    <2>1. Running(r) /\ Cred(r) # None /\ Consulted(r) \in vs
          /\ req[r].i \in 1..Len(chain)
      BY <1>0, <1>4 DEF Places, Place, Inside
    <2>2. CASE PassesOn(r)
      BY <1>3, <2>1, <2>2
    <2>3. CASE Accepts(r) \/ \E step \in steps : Reaches(r, step)
      <3>1. /\ Moves(r) /\ req'[r].i = req[r].i
            /\ req'[r].at = "accepted" \/ req'[r].at \in steps
        BY <2>3 DEF Accepts, Reaches
      <3>2. Consulted(r)' = Consulted(r) /\ Cred(r)' = Cred(r)
        BY <1>0, <2>1, <3>1 DEF Moves, Consulted, Cred
      <3>. QED
        BY <1>0, <1>4, <2>1, <3>1, <3>2 DEF Place
    <2>. QED
      BY <1>4, <2>2, <2>3 DEF Inside
  <1>5. ASSUME Check(r) PROVE Place(r)'
    <2>1. CASE PassOver(r)
      BY <1>0, <1>3, <2>1, PassOverShape
    <2>2. CASE DirStep(r)
      BY <1>0, <1>4, <2>2, DirShape DEF Core
    <2>3. CASE SecretStep(r)
      BY <1>0, <1>4, <2>3, SecretShape DEF Core
    <2>4. CASE KeyStep(r)
      BY <1>0, <1>4, <2>4, KeyShape DEF Core
    <2>5. CASE CallStep(r)
      BY <1>0, <1>4, <2>5, CallShape DEF Core
    <2>. QED
      BY <1>2, <1>5, <2>1, <2>2, <2>3, <2>4, <2>5, CheckCases
  <1>6. CASE ~Check(r)
    <2>1. req'[r] = req[r]
      BY <1>6, RequestAlone
    <2>. QED
      BY <1>1, <2>1
  <1>. QED
    BY <1>5, <1>6

\* What turned a request away is remembered.
LEMMA TurnedKept ==
    ASSUME Core, Next, NEW r \in Requests, NEW v \in VerifierNames, Turned(r, v),
           (Running(r) /\ Moves(r)) \/ req'[r] = req[r]
    PROVE  Turned(r, v)'
  <1>1. (blurred => blurred') /\ (moved => moved')
    BY NextFrame
  <1>2. /\ req'[r].creds = req[r].creds /\ req'[r].policy = req[r].policy
        /\ req'[r].quiet = req[r].quiet /\ req[r].failed \subseteq req'[r].failed
    BY DEF Moves
  <1>3. CASE req[r].creds[v] = None \/ Excepted(req[r], v) \/ v \in req[r].failed
    BY <1>2, <1>3 DEF Turned, Excepted
  <1>4. CASE Excused(r, v)
    <2>1. Excused(r, v)'
      BY <1>1, <1>2, <1>4, Names6 DEF Excused
    <2>. QED
      BY <2>1 DEF Turned
  <1>5. CASE v \in Dirs /\ moved
    BY <1>1, <1>5 DEF Turned
  <1>6. CASE WasNot(r, v) /\ req[r].creds[v] # None
    <2>1. held[r][v] \subseteq held'[r][v]
      BY <1>2, <1>6, Kept, NextCases DEF Core
    <2>. QED
      BY <1>6, <2>1 DEF Turned, WasNot
  <1>. QED
    BY <1>3, <1>4, <1>5, <1>6 DEF Turned

\* A request that a verifier passes on was turned away for a reason.
LEMMA TurnedNow ==
    ASSUME Core, DirLook, SecretUse, KeyUse, Next, NEW r \in Requests, Check(r), PassesOn(r), Running(r),
           NEW v \in VerifierNames, v = Consulted(r)
    PROVE  Turned(r, v)'
  <1>0. TypeOK /\ chain' = chain /\ world' = world /\ (blurred => blurred') /\ (moved => moved')
    BY NextFrame, CheckFrame DEF Core, Frame
  <1>1. /\ req'[r].creds = req[r].creds /\ req'[r].policy = req[r].policy
        /\ req'[r].quiet = req[r].quiet /\ Cred(r) = req[r].creds[v]
        /\ req'[r].at \in {"rejected", "chain"}
    BY DEF PassesOn, Moves, Cred
  <1>2. ASSUME Turned(r, v) PROVE Turned(r, v)'
    BY <1>2, TurnedKept DEF PassesOn
  <1>3. ASSUME Cred(r) # None, FALSE \in Says(world', v, Cred(r)) PROVE Turned(r, v)'
    <2>1. Says(world', v, req'[r].creds[v]) \subseteq held'[r][v]
      BY <1>0, <1>1, <1>3, Heard, NextCases
    <2>. QED
      BY <1>1, <1>3, <2>1 DEF Turned, WasNot
  <1>4. ASSUME v \in req'[r].failed PROVE Turned(r, v)'
    BY <1>4 DEF Turned
  <1>5. CASE PassOver(r)
    <2>1. Turned(r, v)
      BY <1>0, <1>1, <1>5, PassOverEffect DEF Turned
    <2>. QED
      BY <1>2, <2>1
  <1>6. CASE DirStep(r)
    <2>0. v \in Dirs /\ Cred(r) # None
      BY <1>6, DirShape DEF Core, Inside
    <2>1. CASE LookupBearer(r) \/ LookupOpaque(r)
      <3>0. At(r, "lookup", {v}) /\ (Cred(r) \notin Found(v) \/ v \in req'[r].failed)
        BY <1>0, <2>1, LookupEffect DEF Accepts, PassesOn, At
      <3>. SUFFICES ASSUME Cred(r) \notin Found(v) PROVE Turned(r, v)'
        BY <1>4, <3>0
      <3>1. At(r, "lookup", {v}) /\ Cred(r) \notin Found(v)
        BY <3>0
      <3>2. CASE Clear(r, v)
        <4>1. Known(r, v, Found(v))
          BY <2>0, <3>1, <3>2 DEF DirLook
        <4>2. Turned(r, v)
          BY <1>1, <3>1, <4>1 DEF Known, Turned
        <4>. QED
          BY <1>2, <4>2
      <3>3. CASE ~Clear(r, v)
        <4>0. blurred \/ ~req[r].quiet
          BY <1>1, <2>0, <3>3, Names6 DEF Clear
        <4>1. Excused(r, v)
          BY <2>0, <4>0, Names6 DEF Excused
        <4>. QED
          BY <1>2, <4>1 DEF Turned
      <3>. QED
        BY <3>2, <3>3
    <2>2. CASE StatBearer(r) \/ StatOpaque(r)
      BY <1>0, <1>1, <2>2, StatTokenEffect DEF StatBearer, StatOpaque, Dirs, Reaches
    <2>3. CASE ~(LookupBearer(r) \/ LookupOpaque(r) \/ StatBearer(r) \/ StatOpaque(r))
      BY <1>0, <1>1, <1>6, <2>3, CompareTimeEffect, ListFilesEffect, StatListedEffect, ReadFilesEffect,
         StoreTokensEffect DEF DirStep, Reaches
    <2>. QED
      BY <2>1, <2>2, <2>3
  <1>7. CASE SecretStep(r)
    <2>0. v = "hmac" /\ Cred(r) # None
      BY <1>7, SecretShape DEF Core, Inside
    <2>1. CASE CheckSignature(r)
      <3>2. At(r, "body", {"hmac"}) /\ (Cred(r) \notin req[r].set \/ "hmac" \in req'[r].failed)
        BY <1>0, <2>1, CheckSignatureEffect DEF Accepts, PassesOn
      <3>3. CASE "hmac" \in req'[r].failed
        BY <1>4, <2>0, <3>3
      <3>4. CASE Cred(r) \notin req[r].set
        <4>1. Known(r, "hmac", req[r].set)
          BY <3>2 DEF SecretUse
        <4>2. Turned(r, v)
          BY <1>1, <2>0, <3>4, <4>1, Names6 DEF Known, Turned
        <4>. QED
          BY <1>2, <4>2
      <3>. QED
        BY <3>2, <3>3, <3>4
    <2>2. CASE StatSecret(r) \/ ReadSecret(r)
      <3>1. world.secret = None \/ "hmac" \in req'[r].failed
        BY <1>0, <1>1, <2>2, StatSecretEffect, ReadSecretEffect DEF Reaches
      <3>2. CASE world.secret = None
        <4>1. FALSE \in Says(world', v, Cred(r))
          BY <1>0, <2>0, <3>2, SaysOther
        <4>. QED
          BY <1>3, <2>0, <4>1
      <3>. QED
        BY <1>4, <2>0, <3>1, <3>2
    <2>3. CASE CompareSecret(r) \/ StoreSecret(r)
      <3>1. CASE CompareSecret(r)
        <4>1. cache.mtime = req[r].mtime => cache.secret \in Creds
          BY <1>0, <3>1, Names6 DEF Core, SecretCache, SecretLoad, CompareSecret, TypeOK, World
        <4>. QED
          BY <1>0, <1>1, <3>1, <4>1, CompareSecretEffect DEF Reaches
      <3>2. CASE StoreSecret(r)
        <4>1. PICK s \in Creds : req[r].set = {s}
          BY <3>2 DEF Core, SecretLoad, StoreSecret
        <4>. QED
          BY <1>0, <1>1, <3>2, <4>1, StoreSecretEffect DEF Reaches
      <3>. QED
        BY <2>3, <3>1, <3>2
    <2>. QED
      BY <1>7, <2>1, <2>2, <2>3 DEF SecretStep
  <1>8. CASE KeyStep(r)
    <2>0. v = "jwt" /\ Cred(r) # None
      BY <1>8, KeyShape DEF Core, Inside
    <2>1. CASE FindKey(r) \/ SwapKeys(r)
      BY <1>0, <1>1, <2>1, FindKeyEffect, SwapKeysEffect DEF Reaches, Accepts
    <2>2. CASE FetchKeys(r)
      <3>1. world.published = {} \/ v \in req'[r].failed
        BY <1>0, <1>1, <2>2, FetchKeysEffect DEF Reaches
      <3>2. CASE world.published = {}
        <4>1. FALSE \in Says(world', v, Cred(r))
          BY <1>0, <2>0, <3>2, SaysOther
        <4>. QED
          BY <1>3, <2>0, <4>1
      <3>. QED
        BY <1>4, <2>0, <3>1, <3>2
    <2>3. CASE FindKeyAgain(r)
      <3>1. req[r].at = "relook" /\ Cred(r) \notin cache.keys
        BY <1>0, <1>1, <2>3, FindKeyAgainEffect DEF Accepts, At
      <3>2. CASE req[r].quiet
        <4>1. Clear(r, "jwt")
          BY <1>1, <2>0, <3>2, Names6 DEF Clear
        <4>2. Turned(r, v)
          BY <1>1, <2>0, <3>1, <4>1 DEF KeyUse, Turned
        <4>. QED
          BY <1>2, <4>2
      <3>3. CASE ~req[r].quiet
        <4>1. Excused(r, v)
          BY <2>0, <3>3, Names6 DEF Excused
        <4>. QED
          BY <1>2, <4>1 DEF Turned
      <3>. QED
        BY <3>2, <3>3
    <2>. QED
      BY <1>8, <2>1, <2>2, <2>3 DEF KeyStep
  <1>9. CASE CallStep(r)
    <2>0. v = "callout" /\ Cred(r) # None /\ Cred(r) \in Creds
      BY <1>9, CallShape DEF Core, Inside
    <2>1. CASE CheckAnswer(r) \/ StoreAnswer(r)
      BY <1>0, <1>1, <2>0, <2>1, CheckAnswerEffect, StoreAnswerEffect DEF Reaches, Accepts
    <2>2. CASE Callout(r)
      <3>1. Cred(r) \notin world.live \/ v \in req'[r].failed
        BY <1>0, <1>1, <2>2, CalloutEffect DEF Reaches
      <3>2. CASE Cred(r) \notin world.live
        <4>1. FALSE \in Says(world', v, Cred(r))
          BY <1>0, <2>0, <3>2, SaysOther
        <4>. QED
          BY <1>3, <2>0, <4>1
      <3>. QED
        BY <1>4, <2>0, <3>1, <3>2
    <2>. QED
      BY <1>9, <2>1, <2>2 DEF CallStep
  <1>10. ~Arrive(r)
    BY <1>0, ArriveShape
  <1>. QED
    BY <1>5, <1>6, <1>7, <1>8, <1>9, <1>10, CheckCases

LEMMA CheckShape ==
    ASSUME Core, NEW r \in Requests, Check(r), ~Arrive(r)
    PROVE  /\ Running(r)
           /\ \/ PassesOn(r)
              \/ Accepts(r) /\ Cred(r) # None
              \/ Moves(r) /\ req'[r].i = req[r].i /\ req'[r].at \notin {"accepted", "rejected"}
  <1>. USE DEF Inside, Reaches, Core
  <1>1. CASE PassOver(r)
    BY <1>1, PassOverShape
  <1>2. CASE DirStep(r)
    BY <1>2, DirShape
  <1>3. CASE SecretStep(r)
    BY <1>3, SecretShape
  <1>4. CASE KeyStep(r)
    BY <1>4, KeyShape
  <1>5. CASE CallStep(r)
    BY <1>5, CallShape
  <1>. QED
    BY <1>1, <1>2, <1>3, <1>4, <1>5, CheckCases

LEMMA TurnedBeforeStep ==
    ASSUME Core, DirLook, SecretUse, KeyUse, TurnedBefore, Next
    PROVE  TurnedBefore'
  <1>0. TypeOK /\ chain' = chain /\ Len(chain) \in Nat /\ \A j \in 1..Len(chain) : chain[j] \in VerifierNames
    BY NextFrame, ChainType
  <1>. SUFFICES ASSUME NEW r \in Requests
                PROVE  /\ Running(r)' => \A j \in 1..(req'[r].i - 1) : Turned(r, chain[j])'
                       /\ req'[r].at = "rejected" => \A j \in 1..Len(chain) : Turned(r, chain[j])'
    <2>1. ASSUME NEW j PROVE chain'[j] = chain[j]
      BY <1>0
    <2>. QED
      BY <1>0, <2>1 DEF TurnedBefore
  <1>. DEFINE Still(j) == Turned(r, chain[j])'
  <1>1. ASSUME NEW j \in 1..Len(chain), Turned(r, chain[j]), (Running(r) /\ Moves(r)) \/ req'[r] = req[r]
        PROVE  Still(j)
    <2>. DEFINE v == chain[j]
    <2>1. v \in VerifierNames /\ Turned(r, v)
      BY <1>0, <1>1
    <2>2. v' = v
      BY <1>0
    <2>. HIDE DEF v
    <2>3. ASSUME NEW w \in VerifierNames, w = v PROVE Turned(r, w)'
      BY <1>1, <2>1, <2>3, TurnedKept
    <2>. QED
      BY <2>1, <2>2, <2>3 DEF v
  <1>2. ASSUME Running(r), Check(r), PassesOn(r), NEW k, k = req[r].i
        PROVE  Still(k)
    <2>. DEFINE v == chain[k]
    <2>1. v \in VerifierNames /\ v = Consulted(r)
      BY <1>0, <1>2, CredType DEF Core, Consulted
    <2>2. chain'[k] = v
      BY <1>0
    <2>. HIDE DEF v
    <2>3. ASSUME NEW w \in VerifierNames, w = v PROVE Turned(r, w)'
      BY <1>2, <2>1, <2>3, TurnedNow
    <2>. QED
      BY <2>1, <2>2, <2>3
  <1>. HIDE DEF Still
  <1>. SUFFICES /\ Running(r)' => \A j \in 1..(req'[r].i - 1) : Still(j)
                /\ req'[r].at = "rejected" => \A j \in 1..Len(chain) : Still(j)
    BY DEF Still
  <1>3. /\ Running(r) => \A j \in 1..(req[r].i - 1) : Turned(r, chain[j])
        /\ req[r].at = "rejected" => \A j \in 1..Len(chain) : Turned(r, chain[j])
        /\ Running(r) => req[r].i \in 1..Len(chain)
    BY DEF TurnedBefore, Core, Places, Place
  <1>4. CASE req'[r] = req[r]
    BY <1>0, <1>1, <1>3, <1>4 DEF Running
  <1>5. CASE Arrive(r)
    BY <1>0, <1>5, ArriveShape
  <1>6. CASE Check(r) /\ ~Arrive(r)
    <2>1. Running(r) /\ Moves(r) /\ \A j \in 1..(req[r].i - 1) : Still(j)
      <3>1. Running(r) /\ Moves(r)
        BY <1>6, CheckShape DEF PassesOn, Accepts
      <3>2. \A j \in 1..(req[r].i - 1) : j \in 1..Len(chain)
        BY <1>0, <1>3, <3>1
      <3>. QED
        BY <1>1, <1>3, <3>1, <3>2
    <2>2. CASE PassesOn(r)
      <3>. PICK k : k = req[r].i
        OBVIOUS
      <3>1. Still(k) /\ k \in 1..Len(chain)
        BY <1>2, <1>3, <1>6, <2>1, <2>2
      <3>2. \A j \in 1..k : Still(j)
        <4>1. \A j \in 1..k : j = k \/ j \in 1..(req[r].i - 1)
          BY <1>0, <3>1
        <4>. QED
          BY <2>1, <3>1, <4>1
      <3>3. \/ k = Len(chain) /\ req'[r].at = "rejected"
            \/ req'[r].at = "chain" /\ req'[r].i - 1 = k
        BY <1>0, <2>2, <3>1 DEF PassesOn
      <3>. QED
        BY <3>2, <3>3 DEF Running
    <2>3. CASE Accepts(r)
      BY <2>3 DEF Accepts, Running
    <2>4. CASE req'[r].i = req[r].i /\ req'[r].at # "rejected"
      BY <2>1, <2>4
    <2>. QED
      BY <1>6, <2>2, <2>3, <2>4, CheckShape
  <1>7. CASE ~Check(r)
    BY <1>4, <1>7, RequestAlone
  <1>. QED
    BY <1>5, <1>6, <1>7

\* Who is let in.
LetInAt(r, v, c) ==
    \/ v = "jwt" \/ Was(r, v)
    \/ v \in Dirs /\ Excused(r, v)
    \/ /\ v = "callout" /\ c \notin world.live
       /\ req[r].done < revoked[c] + CacheTTL + Timeout

LEMMA LetInNow ==
    ASSUME Core, DirLook, SecretUse, Sessions, Asking, Next, NEW r \in Requests, Check(r), Accepts(r),
           Running(r), NEW v \in VerifierNames, v = Consulted(r), NEW c, c = Cred(r)
    PROVE  LetInAt(r, v, c)'
  <1>0. TypeOK /\ UNCHANGED <<chain, world, now, revoked>> /\ (blurred => blurred')
    BY NextFrame, CheckFrame DEF Core, Frame
  <1>1. /\ req'[r].creds = req[r].creds /\ req'[r].quiet = req[r].quiet /\ Cred(r) = req[r].creds[v]
        /\ req'[r].at = "accepted" /\ req'[r].done = now
    BY DEF Accepts, Moves, Cred
  <1>2. ASSUME Was(r, v), Cred(r) # None PROVE Was(r, v)'
    <2>1. held[r][v] \subseteq held'[r][v]
      BY <1>0, <1>1, <1>2, Kept, NextCases
    <2>. QED
      BY <1>2, <2>1 DEF Was
  <1>3. CASE PassOver(r)
    BY <1>0, <1>1, <1>3, PassOverShape DEF PassesOn
  <1>4. CASE DirStep(r)
    <2>0. v \in Dirs /\ Cred(r) # None
      BY <1>4, DirShape DEF Core, Inside
    <2>1. CASE LookupBearer(r) \/ LookupOpaque(r)
      <3>1. At(r, "lookup", {v}) /\ Cred(r) \in Found(v)
        BY <1>0, <1>1, <2>1, LookupEffect DEF PassesOn, At
      <3>2. CASE Clear(r, v)
        <4>1. Known(r, v, Found(v))
          BY <2>0, <3>1, <3>2 DEF DirLook
        <4>2. Was(r, v)
          BY <1>1, <3>1, <4>1 DEF Known
        <4>. QED
          BY <1>2, <2>0, <4>2, Names6 DEF LetInAt
      <3>3. CASE ~Clear(r, v)
        <4>0. blurred' \/ ~req'[r].quiet
          BY <1>0, <1>1, <2>0, <3>3, Names6 DEF Clear
        <4>1. Excused(r, v)'
          BY <2>0, <4>0, Names6 DEF Excused
        <4>. QED
          BY <2>0, <4>1, Names6 DEF LetInAt
      <3>. QED
        BY <3>2, <3>3
    <2>2. CASE StatBearer(r) \/ StatOpaque(r)
      BY <1>0, <1>1, <2>2, StatTokenEffect DEF StatBearer, StatOpaque, Dirs, Reaches
    <2>3. CASE ~(LookupBearer(r) \/ LookupOpaque(r) \/ StatBearer(r) \/ StatOpaque(r))
      BY <1>0, <1>1, <1>4, <2>3, CompareTimeEffect, ListFilesEffect, StatListedEffect, ReadFilesEffect,
         StoreTokensEffect DEF DirStep, Reaches
    <2>. QED
      BY <2>1, <2>2, <2>3
  <1>5. CASE SecretStep(r)
    <2>0. v = "hmac" /\ Cred(r) # None
      BY <1>5, SecretShape DEF Core, Inside
    <2>1. CASE CheckSignature(r)
      <3>2. At(r, "body", {"hmac"}) /\ Cred(r) \in req[r].set
        BY <1>0, <1>1, <2>1, CheckSignatureEffect DEF PassesOn
      <3>3. Known(r, "hmac", req[r].set)
        BY <3>2 DEF SecretUse
      <3>4. Was(r, v)
        BY <1>1, <2>0, <3>2, <3>3 DEF Known
      <3>. QED
        BY <1>2, <2>0, <3>2, <3>4 DEF LetInAt
    <2>2. CASE StatSecret(r) \/ ReadSecret(r)
      BY <1>0, <1>1, <2>2, StatSecretEffect, ReadSecretEffect DEF Reaches, PassesOn
    <2>3. CASE CompareSecret(r)
      <3>1. cache.mtime = req[r].mtime => cache.secret \in Creds
        BY <1>0, <2>3, Names6 DEF Core, SecretCache, SecretLoad, CompareSecret, TypeOK, World
      <3>. QED
        BY <1>0, <1>1, <2>3, <3>1, CompareSecretEffect DEF Reaches
    <2>4. CASE StoreSecret(r)
      <3>1. PICK s \in Creds : req[r].set = {s}
        BY <2>4 DEF Core, SecretLoad, StoreSecret
      <3>. QED
        BY <1>0, <1>1, <2>4, <3>1, StoreSecretEffect DEF Reaches
    <2>. QED
      BY <1>5, <2>1, <2>2, <2>3, <2>4 DEF SecretStep
  <1>6. CASE KeyStep(r)
    <2>1. v = "jwt"
      BY <1>6, KeyShape DEF Core, Inside
    <2>. QED
      BY <2>1 DEF LetInAt
  <1>7. CASE CallStep(r)
    <2>0. v = "callout" /\ Cred(r) # None /\ Cred(r) \in Creds
      BY <1>7, CallShape DEF Core, Inside
    <2>1. CASE CheckAnswer(r)
      <3>1. now < cache.expires[c] /\ c \in Creds
        BY <1>0, <1>1, <2>0, <2>1, CheckAnswerEffect DEF Reaches
      <3>2. CASE c \in world.live
        <4>1. Says(world', v, req'[r].creds[v]) \subseteq held'[r][v]
          BY <1>0, <1>1, <2>0, Heard, NextCases
        <4>2. Was(r, v)'
          BY <1>0, <1>1, <2>0, <3>2, <4>1, SaysOther DEF Was
        <4>. QED
          BY <2>0, <4>2 DEF LetInAt
      <3>3. CASE c \notin world.live
        <4>1. now < revoked[c] + CacheTTL + Timeout
          BY <1>0, <3>1, <3>3, Times DEF Sessions
        <4>. QED
          BY <1>0, <1>1, <2>0, <3>3, <4>1 DEF LetInAt
      <3>. QED
        BY <3>2, <3>3
    <2>2. CASE Callout(r)
      BY <1>0, <1>1, <2>2, CalloutEffect DEF Reaches, PassesOn
    <2>3. CASE StoreAnswer(r)
      <3>1. req[r].at = "answer"
        BY <2>3 DEF StoreAnswer, At
      <3>2. Was(r, v)
        BY <2>0, <3>1 DEF Asking
      <3>. QED
        BY <1>2, <2>0, <3>2 DEF LetInAt
    <2>. QED
      BY <1>7, <2>0, <2>1, <2>2, <2>3 DEF CallStep
  <1>8. ~Arrive(r)
    BY <1>0, ArriveShape
  <1>. QED
    BY <1>3, <1>4, <1>5, <1>6, <1>7, <1>8, CheckCases

LEMMA LetInStep ==
    ASSUME Core, DirLook, SecretUse, Sessions, Asking, LetIn, Next
    PROVE  LetIn'
  <1>0. TypeOK /\ TypeOK' /\ chain' = chain /\ (blurred => blurred') /\ (moved => moved')
    BY NextFrame
  <1>. SUFFICES ASSUME NEW r \in Requests, req'[r].at = "accepted", NEW v, v = Consulted(r)',
                       NEW c, c = Cred(r)'
                PROVE  LetInAt(r, v, c)'
    BY DEF LetIn, LetInAt
  <1>1. CASE req'[r] = req[r]
    <2>1. Consulted(r) = v /\ Cred(r) = c /\ req[r].at = "accepted"
      BY <1>0, <1>1 DEF Cred, Consulted
    <2>2. LetInAt(r, v, c)
      BY <2>1 DEF LetIn, LetInAt
    <2>3. v \in VerifierNames /\ c \in Creds /\ c # None /\ c = req[r].creds[v]
      <3>1. v \in VerifierNames /\ c \in Creds \cup {None}
        BY <1>0, <2>1, CredType DEF Core
      <3>2. c # None
        BY <2>1 DEF Core, Places, Place
      <3>. QED
        BY <2>1, <3>1, <3>2 DEF Cred
    <2>4. CASE v = "jwt"
      BY <1>1, <2>2, <2>4 DEF LetInAt
    <2>5. CASE Was(r, v)
      <3>1. held[r][v] \subseteq held'[r][v]
        BY <1>0, <1>1, <2>3, Kept, NextCases
      <3>. QED
        BY <1>1, <2>2, <2>5, <3>1 DEF LetInAt, Was
    <2>6. CASE v \in Dirs /\ Excused(r, v)
      <3>1. Excused(r, v)'
        BY <1>0, <1>1, <2>6, Names6 DEF Excused
      <3>. QED
        BY <1>1, <2>2, <2>6, <3>1 DEF LetInAt
    <2>7. CASE /\ v = "callout" /\ c \notin world.live
               /\ req[r].done < revoked[c] + CacheTTL + Timeout
      <3>1. c \notin world'.live /\ revoked'[c] = revoked[c]
        <4>1. CASE Revoke
          <5>1. PICK l \in world.live : world'.live = world.live \ {l} /\ revoked' = [revoked EXCEPT ![l] = now]
            BY <1>0, <4>1, RevokeEffect
          <5>. QED
            BY <1>0, <2>3, <2>7, <5>1 DEF TypeOK
        <4>2. CASE Tick
          BY <2>7, <4>2 DEF Tick
        <4>3. ASSUME NEW q \in Requests, CallStep(q) PROVE UNCHANGED <<world, revoked>>
          BY <4>3, CallStepCases
        <4>4. CASE CallAway
          BY <2>7, <4>4 DEF CallAway
        <4>. QED
          BY <2>7, <4>1, <4>2, <4>3, <4>4, CallCases
      <3>. QED
        BY <1>1, <2>2, <2>7, <3>1 DEF LetInAt
    <2>. QED
      BY <2>2, <2>4, <2>5, <2>6, <2>7 DEF LetInAt
  <1>2. CASE Check(r)
    <2>1. ~Arrive(r)
      BY <1>0, ArriveShape
    <2>2. Running(r) /\ Accepts(r)
      BY <1>2, <2>1, CheckShape DEF PassesOn
    <2>3. Consulted(r) = v /\ Cred(r) = c /\ v \in VerifierNames
      BY <1>0, <2>2, CredType DEF Core, Accepts, Moves, Cred, Consulted
    <2>. QED
      BY <1>2, <2>2, <2>3, LetInNow
  <1>3. CASE ~Check(r)
    BY <1>1, <1>3, RequestAlone
  <1>. QED
    BY <1>2, <1>3

-----------------------------------------------------------------------------
(***************************************************************************)
(* The invariant.                                                          *)
(***************************************************************************)
LEMMA InitType ==
    ASSUME Init
    PROVE  TypeOK
  <1>1. PICK c \in Creds, f \in Files :
          world = [dir |-> [d \in Dirs |-> [files |-> [g \in Files |-> IF g = f THEN c ELSE None],
                                            mtime |-> 1, present |-> TRUE]],
                   secret |-> c, mtime |-> 1, published |-> {c}, live |-> {c}, changes |-> 0]
    BY DEF Init
  <1>. DEFINE files == [g \in Files |-> IF g = f THEN c ELSE None]
              entry == [files |-> files, mtime |-> 1, present |-> TRUE]
              dir == [d \in Dirs |-> entry]
  <1>2. files \in [Files -> Creds \cup {None}]
    OBVIOUS
  <1>. HIDE DEF files
  <1>3. entry \in Directory
    BY <1>2 DEF Directory
  <1>. HIDE DEF entry
  <1>4. dir \in [Dirs -> Directory]
    BY <1>3
  <1>5. world = [dir |-> dir, secret |-> c, mtime |-> 1, published |-> {c}, live |-> {c}, changes |-> 0]
    BY <1>1 DEF dir, entry, files
  <1>. HIDE DEF dir
  <1>6. world \in World
    BY <1>4, <1>5, VerifiersAssumption DEF World
  <1>7. \A d \in Dirs : Tokens(d) \in SUBSET Creds /\ world.dir[d].mtime \in Nat
    <2>1. \A d \in Dirs : /\ world.dir[d].files \in [Files -> Creds \cup {None}]
                          /\ world.dir[d].mtime \in Nat
      BY <1>6 DEF World, Directory
    <2>. QED
      BY <2>1 DEF Tokens, Range
  <1>8. cache \in Cache
    <2>0. PICK skipped \in SUBSET Tokens("bearer") : cache = Loaded(skipped)
      BY DEF Init
    <2>. DEFINE t == [d \in Dirs |-> Tokens(d) \ skipped]
                k == [d \in Dirs |-> skipped]
                m == [d \in Dirs |-> world.dir[d].mtime]
                e == [x \in Creds |-> 0]
    <2>1. /\ t \in [Dirs -> SUBSET Creds] /\ k \in [Dirs -> SUBSET Creds]
          /\ m \in [Dirs -> Nat] /\ e \in [Creds -> Nat]
      BY <1>7, Names6
    <2>2. cache = [tokens |-> t, skipped |-> k, dirMod |-> m, secret |-> None, mtime |-> 0, keys |-> world.published,
                   expires |-> e]
      BY <2>0 DEF Loaded
    <2>3. world.published \in SUBSET Creds
      BY <1>6 DEF World
    <2>. HIDE DEF t, k, m, e
    <2>. QED
      BY <2>1, <2>2, <2>3 DEF Cache
  <1>9. req \in [Requests -> Request]
    <2>1. Idle \in Request
      <3>. DEFINE n == [v \in VerifierNames |-> None]
      <3>1. n \in [VerifierNames -> Creds \cup {None}]
        OBVIOUS
      <3>. HIDE DEF n
      <3>2. [at |-> "idle", i |-> 0, creds |-> n,
             policy |-> "full", mtime |-> 0, names |-> {}, set |-> {}, skipped |-> {},
             since |-> 0, quiet |-> TRUE, failed |-> {}, done |-> 0] \in Request
        BY <3>1, VerifiersAssumption DEF Request, Steps
      <3>. QED
        BY <3>2 DEF Idle, n
    <2>. QED
      BY <2>1 DEF Init
  <1>10. /\ held \in [Requests -> [VerifierNames -> SUBSET BOOLEAN]]
         /\ revoked \in [Creds -> 0..MaxTime]
    BY VerifiersAssumption DEF Init
  <1>11. chain \in Chains /\ loop = {} /\ now = 1 /\ blurred = FALSE /\ moved = FALSE
    BY DEF Init
  <1>12. 1 \in 1..MaxTime
    BY VerifiersAssumption
  <1>. QED
    BY <1>6, <1>8, <1>9, <1>10, <1>11, <1>12 DEF TypeOK

LEMMA InitIInv ==
    ASSUME Init
    PROVE  IInv
  <1>1. TypeOK
    BY InitType
  <1>2. \A r \in Requests : req[r].at = "idle" /\ ~Running(r)
    BY DEF Init, Idle, Running
  <1>3. Places /\ HeldNow /\ Asking /\ TurnedBefore /\ LetIn
    BY <1>2 DEF Places, Place, HeldNow, Asking, TurnedBefore, LetIn
  <1>4. DirLoad /\ DirTorn /\ DirSet /\ DirLook
    BY <1>2 DEF DirLoad, DirTorn, DirSet, DirLook, Clear, At
  <1>5. SecretLoad /\ SecretSet /\ SecretUse /\ KeyUse
    BY <1>2 DEF SecretLoad, SecretSet, SecretUse, KeyUse, Clear, At
  <1>6. PICK skipped \in SUBSET Tokens("bearer") : cache = Loaded(skipped)
    BY DEF Init
  <1>7. DirCache
    <2>1. \A d \in Dirs : Tokens(d) = Tokens("bearer")
      BY Names6 DEF Init, Tokens
    <2>2. \A d \in Dirs : Found(d) = Tokens(d)
      BY <1>6, <2>1 DEF Found, Loaded
    <2>3. \A d \in Dirs : cache.dirMod[d] = world.dir[d].mtime
      BY <1>6 DEF Loaded
    <2>. QED
      BY <1>1, <2>2, <2>3, DirFacts DEF DirCache
  <1>8. SecretCache
    BY <1>6 DEF SecretCache, Loaded, Init
  <1>9. Sessions
    BY <1>1, <1>6, Times DEF Sessions, Loaded
  <1>. QED
    BY <1>1, <1>3, <1>4, <1>5, <1>7, <1>8, <1>9 DEF IInv

LEMMA NextIInv ==
    ASSUME IInv, Next
    PROVE  IInv'
  <1>. USE DEF IInv
  <1>1. Core
    BY DEF Core
  <1>2. TypeOK' /\ Places' /\ HeldNow'
    BY <1>1, NextFrame, PlacesStep, HeldNowStep
  <1>3. DirCache' /\ DirLoad'
    BY <1>1, DirCacheStep, DirLoadStep
  <1>4. DirTorn' /\ DirSet' /\ DirLook'
    BY <1>1, TornStep, DirSetStep, DirLookStep
  <1>5. SecretCache' /\ SecretLoad' /\ SecretSet' /\ SecretUse'
    BY <1>1, SecretCacheStep, SecretLoadStep, SecretSetStep, SecretUseStep
  <1>6. KeyUse' /\ Sessions' /\ Asking'
    BY <1>1, KeyUseStep, SessionsStep, AskingStep
  <1>7. TurnedBefore' /\ LetIn'
    BY <1>1, TurnedBeforeStep, LetInStep
  <1>. QED
    BY <1>2, <1>3, <1>4, <1>5, <1>6, <1>7

LEMMA StutterIInv ==
    ASSUME IInv, UNCHANGED vars
    PROVE  IInv'
  <1>. USE DEF vars, Running, Cred, Consulted, At, Clear, Known, Was, WasNot
  <1>1. TypeOK' /\ Places'
    BY DEF IInv, TypeOK, Places, Place
  <1>2. HeldNow'
    BY DEF IInv, HeldNow
  <1>3. DirCache' /\ DirLoad'
    BY DEF IInv, DirCache, DirLoad, Tokens, Names, Found, Loads
  <1>4. DirTorn'
    BY DEF IInv, DirTorn
  <1>5. DirSet'
    BY DEF IInv, DirSet, Found, Loads
  <1>6. DirLook'
    BY DEF IInv, DirLook, Found, Loads
  <1>7. SecretCache' /\ SecretLoad' /\ SecretSet' /\ SecretUse'
    BY DEF IInv, SecretCache, SecretLoad, SecretSet, SecretUse
  <1>8. KeyUse' /\ Sessions' /\ Asking'
    BY DEF IInv, KeyUse, Sessions, Asking
  <1>9. TurnedBefore'
    BY ZenonT(60) DEF IInv, TurnedBefore, Turned, Excused, Excepted
  <1>10. LetIn'
    BY DEF IInv, LetIn, Excused
  <1>. QED
    BY <1>1, <1>2, <1>3, <1>4, <1>5, <1>6, <1>7, <1>8, <1>9, <1>10 DEF IInv

(* The invariant holds of every behaviour.                                 *)
THEOREM Invariance == Spec => []IInv
  <1>1. IInv /\ [Next]_vars => IInv'
    BY NextIInv, StutterIInv
  <1>. QED
    BY InitIInv, <1>1, PTL DEF Spec

(* The types: no step of the verifiers, of the operator or of the services *)
(* leaves the sets the caches and the requests live in.                    *)
THEOREM VerifiersTyped == Spec => []TypeOK
  BY Invariance, PTL DEF IInv

(* A rejection by the chain (VerifyExcept) is never the work of a stale    *)
(* cache: each credential the request presented was invalid at some moment *)
(* of the request, but for what the caches cannot know.                    *)
THEOREM TurnedAwayRightly == Spec => []RejectedWasInvalid
  <1>1. IInv => RejectedWasInvalid
    <2>. SUFFICES ASSUME IInv, NEW r \in Requests, req[r].at = "rejected", NEW v \in Range(chain)
                  PROVE  \/ req[r].creds[v] = None \/ Excepted(req[r], v)
                         \/ Excused(r, v) \/ v \in req[r].failed
                         \/ v \in Dirs /\ moved
                         \/ FALSE \in held[r][v]
      BY DEF RejectedWasInvalid
    <2>1. PICK j \in 1..Len(chain) : chain[j] = v
      BY ChainType DEF IInv
    <2>2. Turned(r, v)
      BY <2>1 DEF IInv, TurnedBefore
    <2>. QED
      BY <2>2 DEF Turned, WasNot
  <1>. QED
    BY Invariance, <1>1, PTL

(* An acceptance by the chain is never the work of a stale cache: the      *)
(* credential was valid at some moment of the request, and a revoked       *)
(* session is honoured no longer than the time to live and one callout.    *)
THEOREM LetInRightly == Spec => []AcceptedWasValid
  <1>1. IInv => AcceptedWasValid
    BY DEF IInv, LetIn, AcceptedWasValid, Was
  <1>. QED
    BY Invariance, <1>1, PTL

-----------------------------------------------------------------------------
(***************************************************************************)
(* The tarpit.                                                             *)
(***************************************************************************)
(* The types, and what a visit carries at each place.                      *)
TrapTyped ==
    /\ Trap!TypeOK /\ IsFiniteSet(Trap!Used) /\ data # 0
    /\ \A v \in Requests : /\ visit[v].at = "create" => visit[v].identity # 0
                           /\ visit[v].at = "set" => visit[v].body # 0

(* What is settled is what the cache answers, as long as it is live; who   *)
(* renders found nothing settled.                                          *)
SettledIsCached ==
    /\ \A k \in Trap!Keys : settled[k] # None /\ clock <= settled[k].until => answers[k] = settled[k]
    /\ \A v \in Requests : /\ visit[v].at = "set" => visit[v].want = 0
                           /\ visit[v].at = "serve" /\ visit[v].want # 0 => visit[v].body = visit[v].want

(* An address whose first visits did not overlap has one identity: that of *)
(* its profile, in every visit past the store of profiles and in what it   *)
(* was shown.                                                              *)
OneIdentity ==
    \A x \in Clients \ raced :
        /\ shown[x] \subseteq {profiles[x]} \ {0}
        /\ \A v \in Requests :
              visit[v].key[1] = x /\ visit[v].at \in {"enter", "set", "serve"}
              => visit[v].identity = profiles[x] /\ profiles[x] # 0

TrapInv == TrapTyped /\ SettledIsCached /\ OneIdentity

\* FiniteSets is the same module in the instance.
LEMMA SameCardinality == \A S : Trap!Cardinality(S) = Cardinality(S)
BY Zenon DEF Trap!Cardinality, Cardinality

\* A finite set with one element more or less.
LEMMA OneMore ==
    ASSUME NEW S, IsFiniteSet(S), NEW x
    PROVE  /\ Cardinality(S) \in Nat
           /\ IsFiniteSet(S \cup {x}) /\ Cardinality(S \cup {x}) <= Cardinality(S) + 1
           /\ IsFiniteSet(S \ {x}) /\ Cardinality(S \ {x}) \in Nat
           /\ x \in S => Cardinality(S \ {x}) + 1 = Cardinality(S)
<1>1. Cardinality(S) \in Nat
    BY FS_CardinalityType
<1>2. /\ IsFiniteSet(S \cup {x})
      /\ Cardinality(S \cup {x}) = IF x \in S THEN Cardinality(S) ELSE Cardinality(S) + 1
    BY FS_AddElement
<1>3. /\ IsFiniteSet(S \ {x})
      /\ Cardinality(S \ {x}) = IF x \in S THEN Cardinality(S) - 1 ELSE Cardinality(S)
    BY FS_RemoveElement
<1>4. Cardinality(S \ {x}) \in Nat
    BY <1>3, FS_CardinalityType
<1> QED
    BY <1>1, <1>2, <1>3, <1>4

\* A visit that has not begun.
LEMMA NoVisitIdle == Trap!NoVisit \in Trap!Visit /\ Trap!NoVisit.at = "idle"
<1> USE AccessAssumption
<1>1. PICK x \in Clients, p \in Paths : TRUE
    OBVIOUS
<1>2. <<x, p>> \in Trap!Keys
    BY DEF Trap!Keys
<1>3. (CHOOSE k \in Trap!Keys : TRUE) \in Trap!Keys
    BY <1>2
<1> QED
    BY <1>3 DEF Trap!NoVisit, Trap!Visit, Trap!Versions

\* The tarpit starts with nothing in its cache.
LEMMA TrapInit == Trap!Init => TrapInv
<1> SUFFICES ASSUME Trap!Init PROVE TrapInv
    OBVIOUS
<1> USE AccessAssumption
<1>2. Trap!NoVisit \in Trap!Visit /\ Trap!NoVisit.at = "idle"
    BY NoVisitIdle
<1>3. Trap!Used = {}
    BY DEF Trap!Used, Trap!Init
<1>4. IsFiniteSet(Trap!Used) /\ Cardinality(Trap!Used) <= MaxSize
    BY <1>3, FS_EmptySet
<1>5. Trap!TypeOK
    <2>1. /\ clock \in 1..Ticks /\ data \in Trap!Versions /\ bodies \in 0..MaxBodies
          /\ profiles \in [Clients -> Trap!Versions] /\ raced \subseteq Clients
          /\ shown \in [Clients -> SUBSET Trap!Versions]
        BY DEF Trap!Init, Trap!Versions
    <2>2. /\ answers \in [Trap!Keys -> Trap!Entry \cup {None}]
          /\ settled \in [Trap!Keys -> Trap!Entry \cup {None}]
        BY DEF Trap!Init
    <2>3. visit \in [Requests -> Trap!Visit]
        BY <1>2 DEF Trap!Init
    <2> QED
        BY <1>4, <2>1, <2>2, <2>3, SameCardinality DEF Trap!TypeOK
<1>6. TrapTyped
    BY <1>2, <1>4, <1>5 DEF TrapTyped, Trap!Init
<1>7. SettledIsCached /\ OneIdentity
    BY <1>2 DEF SettledIsCached, OneIdentity, Trap!Init
<1> QED
    BY <1>6, <1>7 DEF TrapInv

\* What the invariant says of the types.
LEMMA TrapTypes ==
    ASSUME TrapInv
    PROVE  /\ clock \in 1..Ticks /\ data \in Trap!Versions /\ data # 0 /\ bodies \in 0..MaxBodies
           /\ profiles \in [Clients -> Trap!Versions] /\ visit \in [Requests -> Trap!Visit]
           /\ answers \in [Trap!Keys -> Trap!Entry \cup {None}]
           /\ settled \in [Trap!Keys -> Trap!Entry \cup {None}]
           /\ shown \in [Clients -> SUBSET Trap!Versions] /\ raced \subseteq Clients
           /\ IsFiniteSet(Trap!Used) /\ Cardinality(Trap!Used) <= MaxSize
           /\ \A u \in Requests : /\ visit[u].at = "create" => visit[u].identity # 0
                                  /\ visit[u].at = "set" => visit[u].body # 0
           /\ SettledIsCached /\ OneIdentity
BY SameCardinality DEF TrapInv, TrapTyped, Trap!TypeOK

\* The types again after a step that leaves the cache alone.
LEMMA TrapTypedAgain ==
    ASSUME TrapInv, clock' \in 1..Ticks, data' \in Trap!Versions \ {0}, bodies' \in 0..MaxBodies,
           profiles' \in [Clients -> Trap!Versions], visit' \in [Requests -> Trap!Visit],
           shown' \in [Clients -> SUBSET Trap!Versions], raced' \subseteq Clients,
           UNCHANGED <<answers, settled>>,
           \A u \in Requests : /\ visit'[u].at = "create" => visit'[u].identity # 0
                               /\ visit'[u].at = "set" => visit'[u].body # 0
    PROVE  TrapTyped'
<1>1. Trap!Used' = Trap!Used
    BY DEF Trap!Used
<1> QED
    BY <1>1, TrapTypes, SameCardinality DEF TrapTyped, Trap!TypeOK

\* ProfileStore.Get leaves everything but the visit alone.
LEMMA TrapArrive == ASSUME TrapInv, NEW v \in Requests, Trap!Arrive(v) PROVE TrapInv'
<1> USE AccessAssumption
<1>1. PICK k \in Trap!Keys :
         visit' = [visit EXCEPT ![v] =
            [Trap!NoVisit EXCEPT !.at = IF profiles[k[1]] = 0 THEN "create" ELSE "enter", !.key = k,
                                 !.identity = IF profiles[k[1]] = 0 THEN data ELSE profiles[k[1]]]]
    BY DEF Trap!Arrive
<1>2. UNCHANGED <<clock, data, bodies, profiles, answers, settled, shown, raced>>
    BY DEF Trap!Arrive
<1>3. k[1] \in Clients
    BY DEF Trap!Keys
<1>4. /\ Trap!TypeOK /\ IsFiniteSet(Trap!Used) /\ data # 0 /\ SettledIsCached /\ OneIdentity
      /\ \A u \in Requests : /\ visit[u].at = "create" => visit[u].identity # 0
                             /\ visit[u].at = "set" => visit[u].body # 0
    BY DEF TrapInv, TrapTyped
<1>5. /\ profiles[k[1]] \in Trap!Versions /\ data \in Trap!Versions
      /\ visit \in [Requests -> Trap!Visit]
    BY <1>3, <1>4 DEF Trap!TypeOK
<1>6. /\ visit' \in [Requests -> Trap!Visit]
      /\ \A u \in Requests : u # v => visit'[u] = visit[u]
      /\ visit'[v].at \in {"create", "enter"} /\ visit'[v].key = k
      /\ visit'[v].at = "create" => visit'[v].identity = data
      /\ visit'[v].at = "enter" => visit'[v].identity = profiles[k[1]] /\ profiles[k[1]] # 0
    <2> DEFINE w == [Trap!NoVisit EXCEPT
                        !.at = IF profiles[k[1]] = 0 THEN "create" ELSE "enter", !.key = k,
                        !.identity = IF profiles[k[1]] = 0 THEN data ELSE profiles[k[1]]]
    <2>1. /\ w \in Trap!Visit /\ w.at \in {"create", "enter"} /\ w.key = k
          /\ w.at = "create" => w.identity = data
          /\ w.at = "enter" => w.identity = profiles[k[1]] /\ profiles[k[1]] # 0
        BY <1>5, NoVisitIdle DEF Trap!Visit
    <2> HIDE DEF w
    <2>2. visit' = [visit EXCEPT ![v] = w]
        BY <1>1 DEF w
    <2> QED
        BY <1>5, <2>1, <2>2
<1>7. Trap!Used' = Trap!Used
    BY <1>2 DEF Trap!Used
<1>8. TrapTyped'
    BY <1>2, <1>4, <1>6, <1>7 DEF Trap!TypeOK, TrapTyped
<1>9. SettledIsCached'
    BY <1>2, <1>4, <1>6 DEF SettledIsCached
<1>10. OneIdentity'
    BY <1>2, <1>4, <1>6 DEF OneIdentity
<1> QED
    BY <1>8, <1>9, <1>10 DEF TrapInv

\* create stores an identity; where one was stored meanwhile, first visits overlapped.
LEMMA TrapCreate == ASSUME TrapInv, NEW v \in Requests, Trap!Create(v) PROVE TrapInv'
<1> DEFINE x == visit[v].key[1]
<1>1. /\ visit[v].at = "create"
      /\ profiles' = [profiles EXCEPT ![x] = visit[v].identity]
      /\ raced' = IF profiles[x] # 0 THEN raced \cup {x} ELSE raced
      /\ visit' = [visit EXCEPT ![v].at = "enter"]
      /\ UNCHANGED <<clock, data, bodies, answers, settled, shown>>
    BY DEF Trap!Create
<1>2. visit[v] \in Trap!Visit /\ visit[v].identity \in Trap!Versions \ {0} /\ x \in Clients
    BY <1>1, TrapTypes DEF Trap!Visit, Trap!Keys
<1> HIDE DEF x
<1>3. /\ visit' \in [Requests -> Trap!Visit]
      /\ \A u \in Requests : u # v => visit'[u] = visit[u]
      /\ visit'[v].at = "enter" /\ visit'[v].key[1] = x /\ visit'[v].identity = visit[v].identity
    BY <1>1, <1>2, TrapTypes DEF Trap!Visit, x
<1>4. /\ profiles' \in [Clients -> Trap!Versions] /\ raced \subseteq raced' /\ raced' \subseteq Clients
      /\ profiles'[x] = visit[v].identity /\ \A y \in Clients : y # x => profiles'[y] = profiles[y]
    BY <1>1, <1>2, TrapTypes
<1>5. TrapTyped'
    BY <1>1, <1>3, <1>4, TrapTypes, TrapTypedAgain
<1>6. SettledIsCached'
    BY <1>1, <1>3, TrapTypes DEF SettledIsCached
<1>7. OneIdentity'
    <2> SUFFICES ASSUME NEW y \in Clients, y \notin raced'
                 PROVE  /\ shown[y] \subseteq {profiles'[y]} \ {0}
                        /\ \A u \in Requests :
                              visit'[u].key[1] = y /\ visit'[u].at \in {"enter", "set", "serve"}
                              => visit'[u].identity = profiles'[y] /\ profiles'[y] # 0
        BY <1>1 DEF OneIdentity
    <2>1. /\ shown[y] \subseteq {profiles[y]} \ {0}
          /\ \A u \in Requests :
                visit[u].key[1] = y /\ visit[u].at \in {"enter", "set", "serve"}
                => visit[u].identity = profiles[y] /\ profiles[y] # 0
        BY <1>4, TrapTypes DEF OneIdentity
    <2>2. CASE y # x
        BY <1>3, <1>4, <2>1, <2>2
    <2>3. CASE y = x
        <3>1. profiles[x] = 0
            BY <1>1, <1>4, <2>3
        <3> QED
            BY <1>2, <1>3, <1>4, <2>1, <2>3, <3>1
    <2> QED
        BY <2>2, <2>3
<1> QED
    BY <1>5, <1>6, <1>7 DEF TrapInv

\* ServeHTTP finds the answer or renders one.
LEMMA TrapAnswer == ASSUME TrapInv, NEW v \in Requests, Trap!Answer(v) PROVE TrapInv'
<1> USE AccessAssumption
<1> DEFINE k == visit[v].key
<1>1. /\ visit[v].at = "enter"
      /\ UNCHANGED <<clock, data, profiles, answers, settled, shown, raced>>
    BY DEF Trap!Answer
<1>2. k \in Trap!Keys /\ visit[v] \in Trap!Visit
    BY TrapTypes DEF Trap!Visit
<1>3. /\ Trap!Expected(k) \in 0..MaxBodies
      /\ Trap!Expected(k) # 0 => Trap!Live(k) /\ answers[k].body = Trap!Expected(k)
    <2>1. CASE settled[k] # None /\ clock <= settled[k].until
        <3>1. answers[k] = settled[k] /\ settled[k] \in Trap!Entry
            BY <1>2, <2>1, TrapTypes DEF SettledIsCached
        <3> QED
            BY <2>1, <3>1 DEF Trap!Expected, Trap!Live, Trap!Entry
    <2>2. CASE ~ (settled[k] # None /\ clock <= settled[k].until)
        BY <2>2 DEF Trap!Expected
    <2> QED
        BY <2>1, <2>2
<1>4. PICK at \in {"serve", "set"}, body \in 0..MaxBodies :
         /\ visit' = [visit EXCEPT ![v].at = at, ![v].body = body, ![v].want = Trap!Expected(k)]
         /\ bodies' \in 0..MaxBodies
         /\ at = "set" => body # 0 /\ Trap!Expected(k) = 0
         /\ at = "serve" /\ Trap!Expected(k) # 0 => body = Trap!Expected(k)
    <2>1. CASE Trap!Live(k) /\ visit' = [visit EXCEPT ![v].at = "serve", ![v].body = answers[k].body,
                                                    ![v].want = Trap!Expected(k)]
                           /\ UNCHANGED bodies
        <3>1. answers[k] \in Trap!Entry
            BY <1>2, <2>1, TrapTypes DEF Trap!Live
        <3>2. answers[k].body \in 0..MaxBodies /\ bodies' \in 0..MaxBodies
            BY <2>1, <3>1, TrapTypes DEF Trap!Entry
        <3> QED
            BY <1>3, <2>1, <3>2
    <2>2. CASE ~Trap!Live(k) /\ bodies < MaxBodies /\ bodies' = bodies + 1
               /\ visit' = [visit EXCEPT ![v].at = "set", ![v].body = bodies + 1,
                                         ![v].want = Trap!Expected(k)]
        <3>1. bodies + 1 \in 0..MaxBodies /\ bodies + 1 # 0
            BY <2>2, TrapTypes
        <3> QED
            BY <1>3, <2>2, <3>1
    <2> QED
        BY <2>1, <2>2 DEF Trap!Answer
<1> HIDE DEF k
<1>5. /\ visit' \in [Requests -> Trap!Visit]
      /\ \A u \in Requests : u # v => visit'[u] = visit[u]
      /\ visit'[v].at = at /\ visit'[v].body = body /\ visit'[v].want = Trap!Expected(k)
      /\ visit'[v].key = visit[v].key /\ visit'[v].identity = visit[v].identity
    BY <1>2, <1>3, <1>4, TrapTypes DEF Trap!Visit
<1>6. TrapTyped'
    BY <1>1, <1>4, <1>5, TrapTypes, TrapTypedAgain
<1>7. SettledIsCached'
    BY <1>1, <1>4, <1>5, TrapTypes DEF SettledIsCached
<1>8. OneIdentity'
    BY <1>1, <1>5, TrapTypes DEF OneIdentity
<1> QED
    BY <1>6, <1>7, <1>8 DEF TrapInv

\* ResponseCache.Set: the entry, in free room or for one that has expired, or nothing.
LEMMA TrapSet == ASSUME TrapInv, NEW v \in Requests, Trap!Set(v) PROVE TrapInv'
<1> USE AccessAssumption
<1> DEFINE k == visit[v].key
           entry == [body |-> visit[v].body, until |-> clock + AnswerTTL]
<1>1. /\ visit[v].at = "set" /\ visit' = [visit EXCEPT ![v].at = "serve"]
      /\ UNCHANGED <<clock, data, bodies, profiles, shown, raced>>
    BY DEF Trap!Set, Trap!Stored
<1>2. k \in Trap!Keys /\ visit[v] \in Trap!Visit /\ visit[v].body # 0
    BY <1>1, TrapTypes DEF Trap!Visit
<1>3. entry \in Trap!Entry
    BY <1>2, TrapTypes DEF Trap!Visit, Trap!Entry
<1>4. \/ /\ answers[k] # None \/ Cardinality(Trap!Used) < MaxSize
         /\ answers' = [answers EXCEPT ![k] = entry]
      \/ \E old \in Trap!Used : ~Trap!Live(old) /\ answers' = [answers EXCEPT ![old] = None, ![k] = entry]
      \/ UNCHANGED answers
    BY SameCardinality DEF Trap!Set
<1>5. \E s \in {None, entry} : /\ settled' = [settled EXCEPT ![k] = s]
                               /\ s = None \/ (s = entry /\ answers'[k] = entry)
    BY DEF Trap!Set, Trap!Stored
<1> HIDE DEF entry, k
<1>6. /\ answers' \in [Trap!Keys -> Trap!Entry \cup {None}]
      /\ settled' \in [Trap!Keys -> Trap!Entry \cup {None}]
    BY <1>2, <1>3, <1>4, <1>5, TrapTypes
<1>7. IsFiniteSet(Trap!Used') /\ Cardinality(Trap!Used') <= MaxSize
    <2>1. CASE answers[k] # None /\ answers' = [answers EXCEPT ![k] = entry]
        <3>1. Trap!Used' \in SUBSET Trap!Used
            BY <1>2, <2>1, TrapTypes DEF Trap!Used
        <3> QED
            BY <3>1, TrapTypes, FS_Subset, FS_CardinalityType
    <2>2. CASE Cardinality(Trap!Used) < MaxSize /\ answers' = [answers EXCEPT ![k] = entry]
        <3>1. Trap!Used' \in SUBSET (Trap!Used \cup {k})
            BY <1>2, <2>2, TrapTypes DEF Trap!Used
        <3>2. /\ IsFiniteSet(Trap!Used \cup {k}) /\ Cardinality(Trap!Used) \in Nat
              /\ Cardinality(Trap!Used \cup {k}) <= Cardinality(Trap!Used) + 1
            BY TrapTypes, OneMore
        <3>3. /\ IsFiniteSet(Trap!Used') /\ Cardinality(Trap!Used') <= Cardinality(Trap!Used \cup {k})
              /\ Cardinality(Trap!Used') \in Nat /\ Cardinality(Trap!Used \cup {k}) \in Nat
            BY <3>1, <3>2, FS_Subset, FS_CardinalityType
        <3> QED
            BY <2>2, <3>2, <3>3
    <2>3. CASE \E old \in Trap!Used : answers' = [answers EXCEPT ![old] = None, ![k] = entry]
        <3>1. PICK old \in Trap!Used : answers' = [answers EXCEPT ![old] = None, ![k] = entry]
            BY <2>3
        <3> DEFINE rest == Trap!Used \ {old}
        <3>2. Trap!Used' \in SUBSET (rest \cup {k})
            BY <1>2, <3>1, TrapTypes DEF Trap!Used
        <3>3. IsFiniteSet(rest) /\ Cardinality(rest) + 1 = Cardinality(Trap!Used) /\ Cardinality(rest) \in Nat
            BY <3>1, TrapTypes, OneMore
        <3> HIDE DEF rest
        <3>4. IsFiniteSet(rest \cup {k}) /\ Cardinality(rest \cup {k}) <= Cardinality(rest) + 1
            BY <3>3, OneMore
        <3>5. /\ IsFiniteSet(Trap!Used') /\ Cardinality(Trap!Used') <= Cardinality(rest \cup {k})
              /\ Cardinality(Trap!Used') \in Nat /\ Cardinality(rest \cup {k}) \in Nat
            BY <3>2, <3>4, FS_Subset, FS_CardinalityType
        <3> QED
            BY <3>3, <3>4, <3>5, TrapTypes
    <2>4. CASE UNCHANGED answers
        <3>1. Trap!Used' = Trap!Used
            BY <2>4 DEF Trap!Used
        <3> QED
            BY <3>1, TrapTypes
    <2> QED
        BY <1>4, <2>1, <2>2, <2>3, <2>4
<1>8. /\ visit' \in [Requests -> Trap!Visit]
      /\ \A u \in Requests : u # v => visit'[u] = visit[u]
      /\ visit'[v].at = "serve" /\ visit'[v].body = visit[v].body /\ visit'[v].want = visit[v].want
      /\ visit'[v].key = visit[v].key /\ visit'[v].identity = visit[v].identity
    BY <1>1, <1>2, TrapTypes DEF Trap!Visit
<1>9. TrapTyped'
    BY <1>1, <1>6, <1>7, <1>8, TrapTypes, SameCardinality DEF TrapTyped, Trap!TypeOK
<1>10. SettledIsCached'
    <2>1. ASSUME NEW y \in Trap!Keys, settled'[y] # None, clock <= settled'[y].until
          PROVE  answers'[y] = settled'[y]
        <3>1. CASE y = k
            BY <1>2, <1>5, <2>1, <3>1, TrapTypes
        <3>2. CASE y # k
            <4>1. settled'[y] = settled[y]
                BY <1>2, <1>5, <3>2, TrapTypes
            <4>2. answers[y] = settled[y] /\ Trap!Live(y)
                BY <2>1, <4>1, TrapTypes DEF SettledIsCached, Trap!Live
            <4>3. answers'[y] = answers[y]
                BY <1>4, <3>2, <4>2, TrapTypes
            <4> QED
                BY <4>1, <4>2, <4>3
        <3> QED
            BY <3>1, <3>2
    <2>2. visit[v].want = 0
        BY <1>1, TrapTypes DEF SettledIsCached
    <2> QED
        BY <1>1, <1>8, <2>1, <2>2, TrapTypes DEF SettledIsCached
<1>11. OneIdentity'
    BY <1>1, <1>8, TrapTypes DEF OneIdentity
<1> QED
    BY <1>9, <1>10, <1>11 DEF TrapInv

\* The answer goes out, with the identity it was drawn from.
LEMMA TrapWrite == ASSUME TrapInv, NEW v \in Requests, Trap!Write(v) PROVE TrapInv'
<1> DEFINE x == visit[v].key[1]
<1>1. /\ visit[v].at = "serve" /\ visit' = [visit EXCEPT ![v] = Trap!NoVisit]
      /\ shown' = [shown EXCEPT ![x] = @ \cup {visit[v].identity}]
      /\ UNCHANGED <<clock, data, bodies, profiles, answers, settled, raced>>
    BY DEF Trap!Write
<1>2. visit[v] \in Trap!Visit /\ visit[v].identity \in Trap!Versions /\ x \in Clients
    BY TrapTypes DEF Trap!Visit, Trap!Keys
<1> HIDE DEF x
<1>3. /\ visit' \in [Requests -> Trap!Visit] /\ visit'[v].at = "idle"
      /\ \A u \in Requests : u # v => visit'[u] = visit[u]
    BY <1>1, NoVisitIdle, TrapTypes
<1>4. /\ shown' \in [Clients -> SUBSET Trap!Versions]
      /\ shown'[x] = shown[x] \cup {visit[v].identity}
      /\ \A y \in Clients : y # x => shown'[y] = shown[y]
    BY <1>1, <1>2, TrapTypes
<1>5. TrapTyped'
    BY <1>1, <1>3, <1>4, TrapTypes, TrapTypedAgain
<1>6. SettledIsCached'
    BY <1>1, <1>3, TrapTypes DEF SettledIsCached
<1>7. OneIdentity'
    <2> SUFFICES ASSUME NEW y \in Clients, y \notin raced
                 PROVE  /\ shown'[y] \subseteq {profiles[y]} \ {0}
                        /\ \A u \in Requests :
                              visit'[u].key[1] = y /\ visit'[u].at \in {"enter", "set", "serve"}
                              => visit'[u].identity = profiles[y] /\ profiles[y] # 0
        BY <1>1 DEF OneIdentity
    <2>1. /\ shown[y] \subseteq {profiles[y]} \ {0}
          /\ \A u \in Requests :
                visit[u].key[1] = y /\ visit[u].at \in {"enter", "set", "serve"}
                => visit[u].identity = profiles[y] /\ profiles[y] # 0
        BY TrapTypes DEF OneIdentity
    <2>2. y = x => visit[v].identity = profiles[y] /\ profiles[y] # 0
        BY <1>1, <2>1 DEF x
    <2> QED
        BY <1>3, <1>4, <2>1, <2>2
<1> QED
    BY <1>5, <1>6, <1>7 DEF TrapInv

\* Every step of the tarpit keeps the invariant.
LEMMA TrapStep == TrapInv /\ (Trap!Next \/ UNCHANGED tarpitVars) => TrapInv'
<1> SUFFICES ASSUME TrapInv, Trap!Next \/ UNCHANGED tarpitVars PROVE TrapInv'
    OBVIOUS
<1> USE AccessAssumption
<1>1. CASE Trap!ReloadData \/ Trap!Pass \/ UNCHANGED tarpitVars
    <2>1. /\ data' \in Trap!Versions \ {0} /\ clock' \in 1..Ticks /\ clock <= clock'
          /\ UNCHANGED <<bodies, profiles, answers, visit, settled, shown, raced>>
        BY <1>1, TrapTypes DEF Trap!ReloadData, Trap!Pass, tarpitVars, Trap!Versions
    <2>2. TrapTyped'
        BY <2>1, TrapTypes, TrapTypedAgain
    <2>3. SettledIsCached'
        <3> SUFFICES ASSUME NEW k \in Trap!Keys, settled[k] # None, clock' <= settled[k].until
                     PROVE  answers[k] = settled[k]
            BY <2>1, TrapTypes DEF SettledIsCached
        <3>1. settled[k].until \in Nat
            BY TrapTypes DEF Trap!Entry
        <3>2. clock <= settled[k].until
            BY <2>1, <3>1, TrapTypes
        <3> QED
            BY <3>2, TrapTypes DEF SettledIsCached
    <2>4. OneIdentity'
        BY <2>1, TrapTypes DEF OneIdentity
    <2> QED
        BY <2>2, <2>3, <2>4 DEF TrapInv
<1>2. ASSUME NEW v \in Requests,
             Trap!Arrive(v) \/ Trap!Create(v) \/ Trap!Answer(v) \/ Trap!Set(v) \/ Trap!Write(v)
      PROVE  TrapInv'
    BY <1>2, TrapArrive, TrapCreate, TrapAnswer, TrapSet, TrapWrite
<1> QED
    BY <1>1, <1>2 DEF Trap!Next

\* The tarpit gives a client its answer and its identity again (response_cache.go:9,
\* profile.go:14): for every number of visits, addresses and pages, every size of the
\* cache and every time to live.
THEOREM AnswersRepeat == Trap!Spec => []SameAnswer
<1>1. TrapInv => SameAnswer
    <2> SUFFICES ASSUME TrapInv PROVE SameAnswer
        OBVIOUS
    <2>1. \A v \in Requests : visit[v].at = "serve" /\ visit[v].want # 0 => visit[v].body = visit[v].want
        BY TrapTypes DEF SettledIsCached
    <2>2. ASSUME NEW x \in Clients, x \notin raced PROVE Cardinality(shown[x]) <= 1
        <3>1. shown[x] \in SUBSET {profiles[x]}
            BY <2>2, TrapTypes DEF OneIdentity
        <3>2. IsFiniteSet({profiles[x]}) /\ Cardinality({profiles[x]}) = 1
            BY FS_Singleton
        <3> QED
            BY <3>1, <3>2, FS_Subset
    <2> QED
        BY <2>1, <2>2, SameCardinality DEF SameAnswer, Trap!SameAnswer
<1>2. Trap!Init => TrapInv
    BY TrapInit
<1>3. TrapInv /\ [Trap!Next]_(Trap!vars) => TrapInv'
    BY TrapStep DEF Trap!vars, tarpitVars
<1> QED
    BY <1>1, <1>2, <1>3, PTL DEF Trap!Spec

-----------------------------------------------------------------------------
(***************************************************************************)
(* The canary table.                                                       *)
(***************************************************************************)
(* A row names the address it was planted for, and a token that is promised*)
(* has a row until then, unless its registration is under way or failed.   *)
PlantInv ==
    /\ Plant!TypeOK /\ Plant!ReplayIsKnown
    /\ \A x \in Addresses :
          /\ canaries[x] # None => canaries[x].client = x
          /\ promised[x] <= time + CanaryTTL
          /\ time < promised[x] /\ x \notin pending \cup lost
                => canaries[x] # None /\ promised[x] <= canaries[x].until
    /\ \A c \in Clients : given[c] \subseteq {via[c]}

\* Initially nothing is planted.
LEMMA PlantInit == Plant!Init => PlantInv
<1> SUFFICES ASSUME Plant!Init PROVE PlantInv
    OBVIOUS
<1> USE AccessAssumption
<1>1. Plant!NoProbe \in Plant!Probe /\ Plant!NoProbe.at = "idle"
    BY DEF Plant!NoProbe, Plant!Probe
<1>2. Plant!TypeOK
    BY <1>1 DEF Plant!Init, Plant!TypeOK, Plant!Times
<1>3. Plant!ReplayIsKnown
    BY <1>1 DEF Plant!Init, Plant!ReplayIsKnown
<1> QED
    BY <1>2, <1>3 DEF Plant!Init, PlantInv

\* How clients reach the proxy.
LEMMA ViaTyped == ASSUME Plant!TypeOK PROVE via \in [Clients -> Addresses]
BY DEF Plant!TypeOK, Routings, Addresses

\* A request that is no lookup leaves the probe empty.
LEMMA NoProbeKnown ==
    ASSUME probe' = Plant!NoProbe PROVE Plant!ReplayIsKnown' /\ probe' \in Plant!Probe
BY DEF Plant!NoProbe, Plant!Probe, Plant!ReplayIsKnown

\* A visit: the answer is repeated, or rendered with tokens.
LEMMA PlantVisit == ASSUME PlantInv, Plant!Visit PROVE PlantInv'
<1> USE AccessAssumption
<1>1. PICK c \in Clients :
         /\ given' = [given EXCEPT ![c] = @ \cup {via[c]}]
         /\ \/ UNCHANGED <<rendered, pending, promised>>
            \/ /\ rendered' = [rendered EXCEPT ![via[c]] = time + AnswerTTL]
               /\ pending' = pending \cup {via[c]}
               /\ promised' = [promised EXCEPT ![via[c]] = time + CanaryTTL]
         /\ probe' = Plant!NoProbe /\ UNCHANGED <<via, time, canaries, lost, failures>>
    BY DEF Plant!Visit
<1>2. Plant!TypeOK /\ via[c] \in Addresses
    BY ViaTyped DEF PlantInv
<1>3. /\ rendered' \in [Addresses -> Plant!Times] /\ promised' \in [Addresses -> Plant!Times]
      /\ pending' \subseteq Addresses /\ given' \in [Clients -> SUBSET Addresses]
    BY <1>1, <1>2 DEF Plant!TypeOK, Plant!Times
<1>4. Plant!TypeOK' /\ Plant!ReplayIsKnown'
    BY <1>1, <1>2, <1>3, NoProbeKnown DEF Plant!TypeOK
<1>5. \A d \in Clients : given'[d] \subseteq {via[d]}
    BY <1>1, <1>2 DEF PlantInv, Plant!TypeOK
<1>6. ASSUME NEW x \in Addresses
      PROVE  /\ promised'[x] <= time + CanaryTTL
             /\ time < promised'[x] /\ x \notin pending' \cup lost
                   => canaries[x] # None /\ promised'[x] <= canaries[x].until
    <2>1. CASE promised'[x] = promised[x] /\ (x \in pending => x \in pending')
        BY <2>1 DEF PlantInv
    <2>2. CASE promised'[x] = time + CanaryTTL /\ x \in pending'
        <3>1. time + CanaryTTL \in Nat
            BY <1>2 DEF Plant!TypeOK
        <3> QED
            BY <2>2, <3>1
    <2> QED
        BY <1>1, <1>2, <2>1, <2>2 DEF Plant!TypeOK
<1> QED
    BY <1>1, <1>4, <1>5, <1>6 DEF PlantInv

\* A registration: a new row for a day, or a failure.
LEMMA PlantInsert == ASSUME PlantInv, Plant!InsertCanary PROVE PlantInv'
<1> USE AccessAssumption
<1>1. PICK x \in pending :
         /\ pending' = pending \ {x}
         /\ \/ /\ canaries' = [canaries EXCEPT ![x] = [client |-> x, until |-> time + CanaryTTL]]
               /\ lost' = lost \ {x} /\ UNCHANGED failures
            \/ /\ failures < MaxFailures /\ failures' = failures + 1
               /\ lost' = lost \cup {x} /\ UNCHANGED canaries
         /\ probe' = Plant!NoProbe /\ UNCHANGED <<time, promised, via, rendered, given>>
    BY DEF Plant!InsertCanary, Plant!Fail, Plant!unchangedVisits
<1> DEFINE row == [client |-> x, until |-> time + CanaryTTL]
<1>2. Plant!TypeOK /\ x \in Addresses
    BY DEF PlantInv, Plant!TypeOK
<1>3. row \in Plant!Row /\ row # None /\ row.client = x /\ row.until = time + CanaryTTL
    BY <1>2 DEF Plant!TypeOK, Plant!Row, Plant!Times
<1> HIDE DEF row
<1>4. \/ canaries' = [canaries EXCEPT ![x] = row] /\ lost' = lost \ {x} /\ UNCHANGED failures
      \/ lost' = lost \cup {x} /\ UNCHANGED canaries /\ failures' \in 0..MaxFailures
    BY <1>1, <1>2 DEF row, Plant!TypeOK
<1>5. Plant!TypeOK'
    BY <1>1, <1>2, <1>3, <1>4, NoProbeKnown DEF Plant!TypeOK
<1>6. ASSUME NEW y \in Addresses
      PROVE  /\ canaries'[y] # None => canaries'[y].client = y
             /\ time < promised[y] /\ y \notin pending' \cup lost'
                   => canaries'[y] # None /\ promised[y] <= canaries'[y].until
    <2>1. /\ canaries[y] # None => canaries[y].client = y
          /\ promised[y] <= time + CanaryTTL
          /\ time < promised[y] /\ y \notin pending \cup lost
                => canaries[y] # None /\ promised[y] <= canaries[y].until
        BY DEF PlantInv
    <2>2. CASE y # x
        <3>1. canaries'[y] = canaries[y] /\ (y \in pending' <=> y \in pending) /\ (y \in lost' <=> y \in lost)
            BY <1>1, <1>2, <1>4, <2>2 DEF Plant!TypeOK
        <3> QED
            BY <2>1, <3>1
    <2>3. CASE y = x
        BY <1>2, <1>3, <1>4, <2>1, <2>3 DEF Plant!TypeOK
    <2> QED
        BY <2>2, <2>3
<1> QED
    BY <1>1, <1>5, <1>6, NoProbeKnown DEF PlantInv

\* A lookup finds what is promised.
LEMMA PlantHit == ASSUME PlantInv, Plant!HitCanary PROVE PlantInv'
<1> USE AccessAssumption
<1>1. UNCHANGED <<time, pending, canaries, promised, lost, failures, via, rendered, given>>
    BY DEF Plant!HitCanary, Plant!unchangedVisits
<1>2. Plant!TypeOK /\ via \in [Clients -> Addresses]
    BY ViaTyped DEF PlantInv
<1>3. PICK c \in Clients, x \in Addresses, answered \in BOOLEAN :
         probe' = IF answered /\ canaries[x] # None /\ time <= canaries[x].until
                  THEN [at |-> "hit", client |-> c, token |-> x, found |-> canaries[x].client,
                        known |-> TRUE]
                  ELSE [Plant!NoProbe EXCEPT !.at = "missed",
                           !.known = answered /\ time < promised[x] /\ x \notin pending \cup lost]
    BY <1>2 DEF Plant!HitCanary, Plant!Range
<1>4. CASE answered /\ canaries[x] # None /\ time <= canaries[x].until
    <2>1. probe' = [at |-> "hit", client |-> c, token |-> x, found |-> x, known |-> TRUE]
        BY <1>3, <1>4 DEF PlantInv
    <2>2. probe' \in Plant!Probe
        BY <2>1 DEF Plant!Probe
    <2>3. x \in given[c] => x = via[c]
        BY DEF PlantInv
    <2>4. Plant!ReplayIsKnown'
        BY <1>1, <2>1, <2>3 DEF Plant!ReplayIsKnown
    <2> QED
        BY <1>1, <1>2, <2>2, <2>4 DEF PlantInv, Plant!TypeOK
<1>5. CASE ~ (answered /\ canaries[x] # None /\ time <= canaries[x].until)
    <2> DEFINE hidden == answered /\ time < promised[x] /\ x \notin pending \cup lost
    <2>1. ~hidden
        <3> SUFFICES ASSUME hidden PROVE FALSE
            OBVIOUS
        <3>1. canaries[x] # None /\ promised[x] <= canaries[x].until
            BY DEF PlantInv
        <3>2. canaries[x].until \in Nat /\ promised[x] \in Nat /\ time \in Nat
            BY <1>2, <3>1 DEF Plant!TypeOK, Plant!Row, Plant!Times
        <3> QED
            BY <1>5, <3>1, <3>2
    <2> HIDE DEF hidden
    <2>2. probe' = [Plant!NoProbe EXCEPT !.at = "missed", !.known = hidden]
        BY <1>3, <1>5 DEF hidden
    <2>3. hidden \in BOOLEAN
        BY DEF hidden
    <2>4. probe' \in Plant!Probe /\ probe'.at = "missed" /\ ~probe'.known
        BY <2>1, <2>2, <2>3 DEF Plant!Probe, Plant!NoProbe
    <2>5. Plant!ReplayIsKnown'
        BY <2>4 DEF Plant!ReplayIsKnown
    <2> QED
        BY <1>1, <1>2, <2>4, <2>5 DEF PlantInv, Plant!TypeOK
<1> QED
    BY <1>4, <1>5

\* What is collected has expired.
LEMMA PlantGC == ASSUME PlantInv, Plant!CanaryGC PROVE PlantInv'
<1> USE AccessAssumption
<1>1. PICK early \in SUBSET {x \in Addresses : canaries[x] # None /\ canaries[x].until = time} :
         canaries' = [x \in Addresses |->
             IF canaries[x] = None \/ canaries[x].until < time \/ x \in early THEN None
             ELSE canaries[x]]
    BY DEF Plant!CanaryGC
<1>2. probe' = Plant!NoProbe /\ UNCHANGED <<time, pending, promised, lost, failures, via, rendered, given>>
    BY DEF Plant!CanaryGC, Plant!unchangedVisits
<1>3. Plant!TypeOK'
    BY <1>1, <1>2, NoProbeKnown DEF PlantInv, Plant!TypeOK
<1>4. ASSUME NEW x \in Addresses
      PROVE  /\ canaries'[x] # None => canaries'[x] = canaries[x]
             /\ canaries[x] # None /\ time < canaries[x].until => canaries'[x] = canaries[x]
    <2>1. canaries[x] # None => canaries[x].until \in Nat /\ time \in Nat
        BY DEF PlantInv, Plant!TypeOK, Plant!Row, Plant!Times
    <2> QED
        BY <1>1, <2>1
<1>5. ASSUME NEW x \in Addresses, time < promised[x], x \notin pending \cup lost
      PROVE  canaries'[x] # None /\ promised[x] <= canaries'[x].until
    <2>1. canaries[x] # None /\ promised[x] <= canaries[x].until
        BY <1>5 DEF PlantInv
    <2>2. canaries[x].until \in Nat /\ promised[x] \in Nat /\ time \in Nat
        BY <2>1 DEF PlantInv, Plant!TypeOK, Plant!Row, Plant!Times
    <2>3. canaries'[x] = canaries[x]
        BY <1>4, <1>5, <2>1, <2>2
    <2> QED
        BY <2>1, <2>3
<1> QED
    BY <1>2, <1>3, <1>4, <1>5, NoProbeKnown DEF PlantInv

\* Who is forgotten loses the row and the promise, and nobody else does.
LEMMA PlantForget == ASSUME PlantInv, Plant!ForgetClient PROVE PlantInv'
<1> USE AccessAssumption
<1>1. PICK x \in Addresses :
         /\ canaries' = [y \in Addresses |->
               IF canaries[y] # None /\ canaries[y].client = x THEN None ELSE canaries[y]]
         /\ promised' = [promised EXCEPT ![x] = 0]
    BY DEF Plant!ForgetClient
<1>2. probe' = Plant!NoProbe /\ UNCHANGED <<time, pending, lost, failures, via, rendered, given>>
    BY DEF Plant!ForgetClient, Plant!unchangedVisits
<1>3. Plant!TypeOK'
    BY <1>1, <1>2, NoProbeKnown DEF PlantInv, Plant!TypeOK, Plant!Times
<1>4. ASSUME NEW y \in Addresses
      PROVE  /\ canaries'[y] # None => canaries'[y].client = y
             /\ promised'[y] <= time + CanaryTTL
             /\ time < promised'[y] /\ y \notin pending \cup lost
                   => canaries'[y] # None /\ promised'[y] <= canaries'[y].until
    <2>1. /\ canaries[y] # None => canaries[y].client = y
          /\ promised[y] <= time + CanaryTTL
          /\ time < promised[y] /\ y \notin pending \cup lost
                => canaries[y] # None /\ promised[y] <= canaries[y].until
          /\ time \in Nat /\ time + CanaryTTL \in Nat
        BY DEF PlantInv, Plant!TypeOK
    <2>2. canaries'[y] = IF canaries[y] # None /\ canaries[y].client = x THEN None ELSE canaries[y]
        BY <1>1
    <2>3. promised'[y] = IF y = x THEN 0 ELSE promised[y]
        BY <1>1 DEF PlantInv, Plant!TypeOK
    <2>4. CASE y = x
        BY <2>1, <2>2, <2>3, <2>4
    <2>5. CASE y # x
        BY <2>1, <2>2, <2>3, <2>5
    <2> QED
        BY <2>4, <2>5
<1> QED
    BY <1>2, <1>3, <1>4, NoProbeKnown DEF PlantInv

\* Every step of the canary table keeps the invariant.
LEMMA PlantStep == PlantInv /\ (Plant!Next \/ UNCHANGED canaryVars) => PlantInv'
<1> SUFFICES ASSUME PlantInv, Plant!Next \/ UNCHANGED canaryVars PROVE PlantInv'
    OBVIOUS
<1> USE AccessAssumption
<1>1. CASE Plant!Tick
    <2>1. /\ time' = time + 1 /\ time' \in 1..(Ticks + 1) /\ probe' = Plant!NoProbe
          /\ UNCHANGED <<pending, canaries, promised, lost, failures, via, rendered, given>>
        BY <1>1 DEF Plant!Tick, Plant!unchangedVisits, PlantInv, Plant!TypeOK
    <2>2. Plant!TypeOK' /\ Plant!ReplayIsKnown'
        BY <2>1, NoProbeKnown DEF PlantInv, Plant!TypeOK
    <2>3. \A x \in Addresses : promised[x] \in Nat /\ time \in Nat
        BY DEF PlantInv, Plant!TypeOK, Plant!Times
    <2>4. ASSUME NEW x \in Addresses
          PROVE  /\ promised[x] <= time' + CanaryTTL
                 /\ time' < promised[x] => time < promised[x]
        <3>1. promised[x] <= time + CanaryTTL
            BY DEF PlantInv
        <3> QED
            BY <2>1, <2>3, <3>1
    <2> QED
        BY <2>1, <2>2, <2>4 DEF PlantInv
<1>2. CASE UNCHANGED canaryVars
    BY <1>2 DEF canaryVars, PlantInv, Plant!TypeOK, Plant!ReplayIsKnown
<1> QED
    BY <1>1, <1>2, PlantVisit, PlantInsert, PlantHit, PlantGC, PlantForget DEF Plant!Next

\* A token that was planted is recognised for a day as the address it was planted for
\* (store.go: InsertCanary, HitCanary, CanaryGC), unless its registration is under way or
\* failed, the client was forgotten or the lookup fails: for every number of clients,
\* every time to live of a token and of an answer.
THEOREM ReplaysAreKnown == Plant!Spec => []ReplayIsKnown
<1>1. PlantInv => ReplayIsKnown
    BY DEF PlantInv, ReplayIsKnown
<1>2. Plant!Init => PlantInv
    BY PlantInit
<1>3. PlantInv /\ [Plant!Next]_(Plant!vars) => PlantInv'
    BY PlantStep DEF Plant!vars, canaryVars
<1> QED
    BY <1>1, <1>2, <1>3, PTL DEF Plant!Spec

-----------------------------------------------------------------------------
\* Whatever runs, the state of the verifiers, of the tarpit and of the canary table keeps
\* its type; the cache of the tarpit holds no more than response_cache_max_size.
THEOREM AccessTyped == AccessSpec => []AccessTypeOK
<1> DEFINE Inv == IInv /\ TrapInv /\ PlantInv
<1>1. AccessInit => Inv
    BY InitIInv, TrapInit, PlantInit DEF AccessInit
<1>2. Inv /\ [AccessNext]_<<part, vars, tarpitVars, canaryVars>> => Inv'
    <2> SUFFICES ASSUME IInv, TrapInv, PlantInv,
                        AccessNext \/ UNCHANGED <<part, vars, tarpitVars, canaryVars>>
                 PROVE  IInv' /\ TrapInv' /\ PlantInv'
        OBVIOUS
    <2>1. [Next]_vars /\ (Trap!Next \/ UNCHANGED tarpitVars) /\ (Plant!Next \/ UNCHANGED canaryVars)
        BY DEF AccessNext
    <2> QED
        BY <2>1, NextIInv, StutterIInv, TrapStep, PlantStep
<1>3. Inv => AccessTypeOK
    BY DEF AccessTypeOK, IInv, TrapInv, TrapTyped, PlantInv
<1> QED
    BY <1>1, <1>2, <1>3, PTL DEF AccessSpec

=============================================================================
